----------------------------- MODULE NodeTables -----------------------------
(***************************************************************************)
(* What the tables "nodes" and "node_subnets" promise to every other part  *)
(* of the rotator (schema.sql): a node id is inserted once and never comes *)
(* back after its row is deleted; a subnet row belongs to an existing node *)
(* (foreign key, ON DELETE CASCADE) and holds a subnet nobody else holds   *)
(* (UNIQUE).  NodeLifecycle, with all its goroutines and faults, is shown  *)
(* to implement this.                                                      *)
(***************************************************************************)
EXTENDS Integers, NodeStatus

CONSTANTS NodeIds, Subnets, None

VARIABLES rows, subnets,
          used       \* ids whose insertion was attempted

Create(n) ==
    /\ n \notin used /\ n \in used'
    /\ rows' = [rows EXCEPT ![n] = NewNode]
    /\ UNCHANGED subnets

Update(n, status, server) ==
    /\ rows[n] # NoRow
    /\ rows' = [rows EXCEPT ![n] = [status |-> status, server |-> server]]
    /\ UNCHANGED subnets

Delete(n) ==
    /\ rows' = [rows EXCEPT ![n] = NoRow]
    /\ subnets' = [subnets EXCEPT ![n] = None]

Store(n, s) ==
    /\ rows[n] # NoRow
    /\ \A m \in NodeIds : subnets[m] # s
    /\ subnets' = [subnets EXCEPT ![n] = s]
    /\ UNCHANGED rows

Release(n) ==
    /\ subnets' = [subnets EXCEPT ![n] = None]
    /\ UNCHANGED rows

Init ==
    /\ rows = [n \in NodeIds |-> NoRow]
    /\ subnets = [n \in NodeIds |-> None]
    /\ used = {}

Next ==
    /\ used \subseteq used'
    /\ \/ \E n \in NodeIds :
             \/ Create(n) \/ Delete(n) \/ Release(n)
             \/ \E status \in Status, server \in BOOLEAN :
                   Update(n, status, server)
             \/ \E s \in Subnets : Store(n, s)
       \/ UNCHANGED <<rows, subnets>>

Spec == Init /\ [][Next]_<<rows, subnets, used>>
=============================================================================
