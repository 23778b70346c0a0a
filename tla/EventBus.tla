------------------------------- MODULE EventBus -------------------------------
(***************************************************************************)
(* pkg/events/bus.go on top of gookit/event, and the publishers of         *)
(* internal/rotator/events.  A bus is a record: whether it is closed, the  *)
(* listeners the gookit manager calls, and the subscribers the bus keeps   *)
(* for its Health answer.  The two are kept in step by Subscribe and       *)
(* Close, and not by Unsubscribe, which never tells the manager.           *)
(*                                                                         *)
(* All subscriptions of the program have PriorityNormal, so listeners are  *)
(* called in the order of their registration.  None of their handlers      *)
(* returns an error, so a Fire calls them all and lastError stays empty.   *)
(***************************************************************************)
EXTENDS Sequences, SequencesExt

Kinds == {"connect", "provision"}

Stages == {"requested", "progress", "completed", "failed"}

Events == Kinds \X Stages

Handlers == {"tracker", "worker"}

NewGookitEventBus == [closed      |-> FALSE,
                      listeners   |-> [e \in Events |-> <<>>],
                      subscribers |-> [e \in Events |-> <<>>]]

BadSubscribe(b, e, h) ==
    [b EXCEPT !.listeners[e] = @ \o <<h, h>>, !.subscribers[e] = Append(@, h)]

Subscribe(b, e, h) ==
    IF b.closed THEN b
    ELSE [b EXCEPT !.listeners[e] = Append(@, h), !.subscribers[e] = Append(@, h)]

Unsubscribe(b, e, h) == [b EXCEPT !.subscribers[e] = Remove(@, h)]

Close(b) == [NewGookitEventBus EXCEPT !.closed = TRUE]

(* gookit's Fire: the listeners there are at that moment, in order.        *)
Fire(b, e) == b.listeners[e]

-----------------------------------------------------------------------------
(* The keys of the metadata a publisher fills in, and the one under which  *)
(* a tracker files what it hears.                                          *)

FailedKeys == {"phase", "error", "retryable", "error_code", "error_meta"}

PublishPeerConnected == {"request_id", "peer_id", "node_id", "public_key", "allocated_ip",
                         "server_public_key", "server_ip", "server_port"}

PeerMetadata == [requested |-> {"request_id", "public_key", "generate_keys"},
                 progress  |-> {"request_id", "peer_id", "phase", "progress", "message"},
                 completed |-> PublishPeerConnected,
                 failed    |-> {"request_id"} \union FailedKeys]

ProvisioningMetadata == [requested |-> {"request_id", "source"},
                         progress  |-> {"node_id", "phase", "progress", "message"},
                         completed |-> {"node_id", "server_id", "ip_address"},
                         failed    |-> {"node_id"} \union FailedKeys]

Metadata(e) == IF e[1] = "connect" THEN PeerMetadata[e[2]] ELSE ProvisioningMetadata[e[2]]

KeyRead(e) == IF e[1] = "connect" \/ e[2] = "requested" THEN "request_id" ELSE "node_id"
=============================================================================
