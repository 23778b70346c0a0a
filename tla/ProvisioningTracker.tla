------------------------- MODULE ProvisioningTracker -------------------------
(***************************************************************************)
(* node.ProvisioningStateTracker: the map nodeStates that the provisioning *)
(* events update.  A tracker is a function from the keys the events carry  *)
(* (request ids and node ids) to what the queries can tell apart:          *)
(*                                                                         *)
(*   "absent"     no entry                                                 *)
(*   "requested"  phase "requested", IsActive, younger than five minutes   *)
(*   "stale"      the same, five minutes old or older                      *)
(*   "running"    IsActive, a phase of the workflow, no ErrorMessage       *)
(*   "completed"  not IsActive, phase "completed"                          *)
(*   "failed"     not IsActive, ErrorMessage set                           *)
(*                                                                         *)
(* Handlers are operators from a tracker to the tracker(s) they leave;     *)
(* each runs under t.mu, so each is one atomic change.                     *)
(***************************************************************************)

Entry == {"absent", "requested", "stale", "running", "completed", "failed"}

handleProvisionRequested(t, r) == [t EXCEPT ![r] = "requested"]

(***************************************************************************)
(* The first progress event of a node takes over some request entry that   *)
(* is still fresh - whichever the map iteration meets first - or starts an *)
(* entry of its own when there is none.                                    *)
(***************************************************************************)
Fresh(t) == {k \in DOMAIN t : t[k] = "requested"}

handleProvisionProgress(t, n) ==
    IF t[n] = "absent" /\ Fresh(t) # {}
    THEN {[t EXCEPT ![n] = "running", ![r] = "absent"] : r \in Fresh(t)}
    ELSE {[t EXCEPT ![n] = "running"]}

handleProvisionCompleted(t, n) == [t EXCEPT ![n] = "completed"]

\* The failure handler without "state.IsActive = false" and the message.
BadHandleProvisionFailed(t, n) == [t EXCEPT ![n] = "running"]

handleProvisionFailed(t, n) == [t EXCEPT ![n] = "failed"]

IsProvisioning(t) == \E k \in DOMAIN t : t[k] = "running"
=============================================================================
