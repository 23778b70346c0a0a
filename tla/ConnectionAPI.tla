----------------------------- MODULE ConnectionAPI -----------------------------
(***************************************************************************)
(* What a client sees of the rotator: the connect, disconnect and          *)
(* connection status handlers of the API, and the jobs behind them.        *)
(* PeerConnection has the details of a job; here it is the steps that a    *)
(* client can tell apart.  A request's id is also the id of its peer.      *)
(***************************************************************************)
EXTENDS Integers

CONSTANT Ids   \* request ids

ASSUME IdsAssumption == Ids \subseteq Nat \ {0}

VARIABLES
    row,       \* table peers: the public key of a peer, NoKey without a row
    tracker,   \* PeerConnectionStateTracker, as the status handler shows it
    job        \* processConnectionRequest

api == <<row, tracker, job>>

NoKey == 0
Generated(r) == -r   \* the key the service makes for request r

(***************************************************************************)
(*   active    neither completed nor failed                                *)
(*   reported  phase "completed" with the peer's id: the last progress     *)
(*             event; no server address yet                                *)
(*   completed the connected event, with the details                       *)
(*   failed    any phase that is not "completed"; never phase "failed"     *)
(***************************************************************************)
Seen == {"absent", "active", "reported", "completed", "failed"}
JobPCs == {"none", "work", "configure", "report", "done", "failed", "dead"}
NoJob == [pc |-> "none", key |-> NoKey]

ApiTypeOK ==
    /\ row \in [Ids -> Int]
    /\ tracker \in [Ids -> Seen]
    /\ job \in [Ids -> [pc : JobPCs, key : Int]]

ApiInit ==
    /\ row = [r \in Ids |-> NoKey]
    /\ tracker = [r \in Ids |-> "absent"]
    /\ job = [r \in Ids |-> NoJob]

GetByIdentifier(k) == {r \in Ids : row[r] = k}
JobGoto(r, pc) == job' = [job EXCEPT ![r] = [pc |-> pc, key |-> NoKey]]
See(r, what) == tracker' = [tracker EXCEPT ![r] = what]

\* For a key that has a row the id is one that nothing is ever tracked for.
ConnectPeerAsync(r, k) ==
    /\ IF k # NoKey /\ GetByIdentifier(k) # {} THEN UNCHANGED <<tracker, job>>
       ELSE /\ See(r, "active")
            /\ job' = [job EXCEPT ![r] = [pc |-> "work",
                           key |-> IF k = NoKey THEN Generated(r) ELSE k]]
    /\ UNCHANGED row

JobFails(r) == JobGoto(r, "failed") /\ See(r, "failed")

\* No node, no capacity, no address: a job can always fail.
CreatePeer(r) ==
    /\ job[r].pc = "work"
    /\ \/ /\ GetByIdentifier(job[r].key) = {}
          /\ row' = [row EXCEPT ![r] = job[r].key] /\ JobGoto(r, "configure")
          /\ UNCHANGED tracker
       \/ JobFails(r) /\ UNCHANGED row

\* AddPeer on the node and the last progress event, or the rollback.
ConfigurePeer(r) ==
    /\ job[r].pc = "configure"
    /\ \/ See(r, "reported") /\ JobGoto(r, "report") /\ UNCHANGED row
       \/ JobFails(r) /\ row' = [row EXCEPT ![r] = NoKey]

ReportConnected(r) ==
    /\ job[r].pc = "report"
    /\ See(r, "completed") /\ JobGoto(r, "done")
    /\ UNCHANGED row

JobStep(r) == CreatePeer(r) \/ ConfigurePeer(r) \/ ReportConnected(r)

\* disconnectHandler, for a peer that exists.
DisconnectPeer(r) == row' = [row EXCEPT ![r] = NoKey] /\ UNCHANGED <<tracker, job>>

\* The tracker and the jobs are the process's; the rows stay.
RestartService ==
    /\ tracker' = [r \in Ids |-> "absent"]
    /\ job' = [r \in Ids |-> IF job[r].pc \in {"work", "configure", "report"}
                             THEN [NoJob EXCEPT !.pc = "dead"] ELSE job[r]]
    /\ UNCHANGED row
=============================================================================
