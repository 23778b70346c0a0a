-------------------------- MODULE MCPeerConnection --------------------------
(***************************************************************************)
(* Instances of PeerConnection for TLC.                                    *)
(***************************************************************************)
EXTENDS PeerConnection, TLC

CONSTANTS n1, n2, k1, k2, r1, r2, r3, d1, d2, c1

OneNode == {n1}
TwoNodes == {n1, n2}
OneKey == {k1}
TwoKeys == {k1, k2}
TwoRequests == {r1, r2}
ThreeRequests == {r1, r2, r3}
OneDisconnector == {d1}
OneCleaner == {c1}
Nobody == {}

NoFaults == {}
OnlyOrphan == {"orphan"}
Remote == {"ssh", "lost", "orphan", "destroy"}
EveryFault == AllFaults

Symmetry == Permutations(Nodes) \cup Permutations(Keys)
                \cup Permutations(Requests) \cup Permutations(Disconnectors)
=============================================================================
