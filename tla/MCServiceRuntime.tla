--------------------------- MODULE MCServiceRuntime ---------------------------
(* Instances of ServiceRuntime for TLC. *)
EXTENDS ServiceRuntime

CONSTANTS c1, p1, rotation

MCKindOf == [r \in {c1, p1} |-> IF r = p1 THEN "provision" ELSE "connect"]
=============================================================================
