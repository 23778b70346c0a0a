-------------------------- MODULE ConnectionTracker --------------------------
(***************************************************************************)
(* peer.PeerConnectionStateTracker: the map connectionStates that the peer *)
(* connection events update, as a function from request ids to             *)
(*                                                                         *)
(*   "absent"     no entry: GetConnectionStatus answers "not found"        *)
(*   "requested"  IsActive, phase "requested"                              *)
(*   "running"    IsActive, a later phase                                  *)
(*   "completed"  not IsActive, phase "completed"                          *)
(*   "failed"     not IsActive, ErrorMessage set                           *)
(*                                                                         *)
(* Each handler runs under t.mu and is one atomic change.                  *)
(***************************************************************************)
Entry == {"absent", "requested", "running", "completed", "failed"}

handleConnectRequested(t, r) == [t EXCEPT ![r] = "requested"]

\* A progress event after a failure leaves the ErrorMessage, which is what
\* the queries look at.
handleConnectProgress(t, r) ==
    [t EXCEPT ![r] = IF @ = "failed" THEN "failed" ELSE "running"]

\* The completion handler without "state.IsActive = false".
BadHandleConnected(t, r) == [t EXCEPT ![r] = "running"]

handleConnected(t, r) == [t EXCEPT ![r] = "completed"]

handleConnectFailed(t, r) == [t EXCEPT ![r] = "failed"]
=============================================================================
