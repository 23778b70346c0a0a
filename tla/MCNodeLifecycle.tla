--------------------------- MODULE MCNodeLifecycle ---------------------------
(***************************************************************************)
(* Instances of NodeLifecycle for TLC.                                     *)
(***************************************************************************)
EXTENDS NodeLifecycle, TLC

CONSTANTS n1, n2, r1, d1, d2, c1, u1, stop

Two == {n1, n2}
OneRequest == {r1}
OneDestroyer == {d1}
TwoDestroyers == {d1, d2}
OneChecker == {c1}
OneCleaner == {u1}
Nobody == {}

NoFaults == {}
RolledBack == {"create", "boot", "unready"}
EveryFault == AllFaults
SlowCloud == {"boot", "destroy", "timeout"}

NodeSymmetry == Permutations(NodeIds) \cup Permutations(Destroyers)
=============================================================================
