----------------------------- MODULE NodeStatus -----------------------------
(***************************************************************************)
(* The node entity of internal/rotator/node: its status machine            *)
(* (status.go) and the part of a row of table "nodes" the control flow     *)
(* looks at (models.go).  No state: the modules that keep rows extend it.  *)
(***************************************************************************)

Status == {"provisioning", "active", "unhealthy", "destroying"}

(***************************************************************************)
(* A row of "nodes" as UpdateNodeDetails writes it: the status and whether *)
(* server_id is set.  connected_clients is left out: no production path    *)
(* writes it, so it is 0 in every row and the "cannot destroy node with    *)
(* active peers" guard of ValidateForDestruction never refuses.            *)
(***************************************************************************)
Row == [status : Status, server : BOOLEAN]
NoRow == [status |-> "none", server |-> FALSE]

NewNode == [status |-> "provisioning", server |-> FALSE]

CanTransitionTo(s, t) ==
    \/ s = "provisioning" /\ t \in {"active", "unhealthy", "destroying"}
    \/ s = "active"       /\ t \in {"unhealthy", "destroying"}
    \/ s = "unhealthy"    /\ t \in {"active", "destroying"}

ValidateForDestruction(row) == row.status # "destroying"
=============================================================================
