----------------------------- MODULE MCRotation -----------------------------
(***************************************************************************)
(* Subnets of 8 addresses, 5 of them for clients, in a base network of 4   *)
(* subnets; three nodes and an id for one more.  p1 and p2 leave node 1,   *)
(* p3 leaves node 2, both for node 3, where r1, r2 and r3 leave two        *)
(* addresses free.                                                         *)
(***************************************************************************)
EXTENDS Rotation

AllNodes == 1 .. 4
ActiveNodes == 1 .. 3
AllPeers == {"p1", "p2", "p3", "r1", "r2", "r3"}
AtHome == [p \in AllPeers |-> CASE p \in {"p1", "p2"} -> 1 [] p = "p3" -> 2
                                [] OTHER -> 3]
AtOffset == [p \in AllPeers |-> CASE p \in {"p1", "p3", "r1"} -> 0
                                  [] p \in {"p2", "r2"} -> 1 [] OTHER -> 3]
Routes == [m \in {"m1", "m2"} |->
              [source |-> IF m = "m1" THEN 1 ELSE 2, target |-> 3]]
AllScenes == {{"c1", "k1"}, {"m1", "m2"}, {"m2", "d1"}, {"m2", "k1"},
              {"m2", "c1", "k1"}, {"s1"}}

\* Three calls overlap without a failure, and with at most one node that is
\* found to need rotation; with two calls nothing is cut off.
Few == Cardinality(scene) > 2 => faults = 0 /\ Len(cycle["c1"].chosen) <= 1
=============================================================================
