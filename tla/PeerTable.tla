------------------------------ MODULE PeerTable ------------------------------
(***************************************************************************)
(* What the table "peers" promises its readers, whoever writes to it: an   *)
(* id is inserted once and never comes back; a row keeps its node, key and *)
(* address for life; "removing" is final; no two rows share a key or an    *)
(* address; a row has a node and goes with it (ON DELETE CASCADE).         *)
(***************************************************************************)
CONSTANTS Ids, Nodes, Keys, Addresses

VARIABLES peers,  \* Ids -> row or NoPeer
          used,   \* ids that were inserted or never will be
          nodes   \* ids of the rows of "nodes"

NoPeer == [node |-> "none", key |-> "none", ip |-> 0, status |-> "none"]
Peer == [node : Nodes, key : Keys, ip : Addresses,
         status : {"active", "removing"}]

Present(p) == peers[p] # NoPeer

\* No two rows have the same key, nor the same address on the same node.
Unique ==
    \A p, q \in Ids : Present(p) /\ Present(q) /\ p # q =>
        /\ peers[p].key # peers[q].key
        /\ peers[p].node = peers[q].node => peers[p].ip # peers[q].ip

\* Every row has its node.
HasNode == \A p \in Ids : Present(p) => peers[p].node \in nodes

Init ==
    /\ peers = [p \in Ids |-> NoPeer]
    /\ used = {}
    /\ nodes = Nodes

Insert(p, row) ==
    /\ p \notin used
    /\ used' = used \cup {p}
    /\ row.node \in nodes
    /\ \A q \in Ids : Present(q) =>
          /\ peers[q].key # row.key
          /\ peers[q].node = row.node => peers[q].ip # row.ip
    /\ peers' = [peers EXCEPT ![p] = row]
    /\ UNCHANGED nodes

\* An id that will not be inserted: its request failed.
Abandon(S) ==
    /\ used' = used \cup S
    /\ UNCHANGED <<peers, nodes>>

Mark(p) ==
    /\ Present(p)
    /\ peers' = [peers EXCEPT ![p].status = "removing"]
    /\ UNCHANGED <<used, nodes>>

Delete(p) ==
    /\ peers' = [peers EXCEPT ![p] = NoPeer]
    /\ UNCHANGED <<used, nodes>>

DeleteNode(n) ==
    /\ nodes' = nodes \ {n}
    /\ peers' = [p \in Ids |-> IF peers[p].node = n THEN NoPeer ELSE peers[p]]
    /\ UNCHANGED used

Next ==
    \/ \E p \in Ids : \E row \in Peer : row.status = "active" /\ Insert(p, row)
    \/ \E S \in SUBSET Ids : Abandon(S)
    \/ \E p \in Ids : Mark(p) \/ Delete(p)
    \/ \E n \in Nodes : DeleteNode(n)

Spec == Init /\ [][Next]_<<peers, used, nodes>>
=============================================================================
