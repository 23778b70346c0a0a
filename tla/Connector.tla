------------------------------- MODULE Connector -------------------------------
(***************************************************************************)
(* The client: processes of the connector-cli on one machine, the key, the *)
(* configuration and the state file they share, and the interface they     *)
(* configure, against the service of ConnectionAPI.                        *)
(*                                                                         *)
(* A process that connects has two goroutines: main (pc), which connects   *)
(* and then waits, and the signal handler (sig), which disconnects and     *)
(* cancels main's context.  They share the Connector's fields.             *)
(* One action is one request, command, or access to a file.                *)
(***************************************************************************)
EXTENDS ConnectionAPI

CONSTANTS
    NumProcs,    \* processes; they are started in this order
    Plans,       \* what they run, whether together, and with how many faults
    Attempts,    \* connectPeerWithRetry, disconnectPeerWithRetry: 3
    MaxPolls,    \* pollConnectionStatus: 60
    Faults       \* a subset of AllFaults

(***************************************************************************)
(*   connect   with the key of the key file       generate  --generate-keys *)
(*   nowait    --no-wait                          disconnect                *)
(***************************************************************************)
AllCommands == {"connect", "generate", "nowait", "disconnect"}

(***************************************************************************)
(*   lost     a request or its answer is lost, which shows at once         *)
(*   hang     ... or only when the time for all attempts has passed        *)
(*   wg       wg-quick fails                                               *)
(*   kill     a client process dies                                        *)
(*   restart  the service dies and is started again                        *)
(***************************************************************************)
AllFaults == {"lost", "hang", "wg", "kill", "restart"}

Procs == 1 .. NumProcs

ASSUME ConnectorAssumption ==
    /\ NumProcs \in Nat \ {0} /\ Attempts \in Nat \ {0} /\ MaxPolls \in Nat \ {0}
    /\ Plans \subseteq [cmd : [Procs -> AllCommands], together : BOOLEAN,
                  maxFaults : Nat]
    /\ Faults \subseteq AllFaults
    /\ Ids = 1 .. NumProcs * Attempts

VARIABLES
    key,     \* the key file: the private key of process key, or NoKey
    conf,    \* the configuration file, for every process the same
    state,   \* the state file: the peer id that was saved, or NoPeer
    iface,   \* external: the interface, what "wg-quick up" read, and for whom
    proc,
    plan,
    faults

machine == <<key, conf, state, iface>>
vars == <<api, machine, proc, plan, faults>>

NoPeer == 0
Mangled == -1
NoConf == [key |-> NoKey, peer |-> NoPeer]
NoIface == [key |-> NoKey, peer |-> NoPeer, by |-> 0]

NewProc ==
    [pc |-> "idle", next |-> "post", key |-> NoKey,
     attempt |-> 1, polls |-> 0, full |-> FALSE,
     peerID |-> NoPeer, path |-> "none", connected |-> FALSE,
     sig |-> "off", target |-> NoPeer, tries |-> 0, cancelled |-> FALSE,
     made |-> FALSE,      \* auxiliary: it has written the key file
     settled |-> FALSE,   \* it was connected when the signal came
     warned |-> FALSE]    \* it has said that the server kept the peer
Proc ==
    [pc : {"idle", "load", "create", "post", "poll", "write", "up", "save",
           "wait", "ended"},
     next : {"post", "write"}, key : Procs \cup {NoKey},
     attempt : 1 .. Attempts, polls : 0 .. MaxPolls - 1, full : BOOLEAN,
     peerID : Ids \cup {NoPeer, Mangled}, path : {"none", "conf", "mangled"},
     connected : BOOLEAN,
     sig : {"off", "armed", "remove", "down", "clean", "done", "error"},
     target : Ids \cup {NoPeer, Mangled}, tries : 0 .. Attempts,
     cancelled : BOOLEAN, made : BOOLEAN, settled : BOOLEAN, warned : BOOLEAN]

\* The state is made of the values the code keeps.
TypeOK ==
    /\ ApiTypeOK
    /\ key \in Procs \cup {NoKey}
    /\ conf \in [key : Procs, peer : Ids] \cup {NoConf}
    /\ iface \in [key : Procs, peer : Ids, by : Procs] \cup {NoIface}
    /\ state \in Ids \cup {NoPeer}
    /\ proc \in [Procs -> Proc]
    /\ plan \in Plans
    /\ faults \in 0 .. plan.maxFaults

Init ==
    /\ ApiInit
    /\ key = NoKey
    /\ conf = NoConf
    /\ state = NoPeer
    /\ iface = NoIface
    /\ proc = [p \in Procs |-> NewProc]
    /\ plan \in Plans
    /\ faults = 0

Fault(kind) == kind \in Faults /\ faults < plan.maxFaults /\ faults' = faults + 1
Sound == UNCHANGED faults

At(p, pc) == proc[p].pc = pc
Cmd(p) == plan.cmd[p]
Become(p, f) == proc' = [proc EXCEPT ![p] = f]
Goto(p, pc) == proc' = [proc EXCEPT ![p].pc = pc]
Running(p) == proc[p].pc \notin {"idle", "ended"}

\* What a property can still ask about a process that has ended.
Ended(f) ==
    LET left == [NewProc EXCEPT !.pc = "ended", !.attempt = f.attempt,
                                !.made = f.made] IN
    IF f.settled
    THEN [left EXCEPT !.settled = TRUE, !.target = f.target,
                      !.sig = f.sig, !.warned = f.warned]
    ELSE left
End(p) == Become(p, Ended(proc[p]))

\* The id the service gives to a process's current attempt, and whose it is.
Id(p) == (p - 1) * Attempts + proc[p].attempt
Owner(r) == 1 + (r - 1) \div Attempts
-----------------------------------------------------------------------------
(***************************************************************************)
(* The start of a command.                                                 *)
(***************************************************************************)
(***************************************************************************)
(* LoadConnectionState.  The file was written with the peer id as the      *)
(* format, so it says "<id>%!(EXTRA string=:, string=<path>)": two parts,  *)
(* neither of them what was saved.  "connected" is not restored at all.    *)
(***************************************************************************)
Loaded(f) == IF state = NoPeer THEN f
             ELSE [f EXCEPT !.peerID = Mangled, !.path = "mangled"]

IsConnected(f) == f.connected /\ iface # NoIface

\* Disconnect, of a connection that stands or is being made.
Disconnecting(f) ==
    [f EXCEPT !.sig = "remove", !.target = f.peerID, !.settled = f.pc = "wait"]

\* prepareConnectRequest: with --generate-keys the key file is not looked at.
prepareConnectRequest(p) == IF Cmd(p) = "generate" THEN "post" ELSE "load"

(***************************************************************************)
(* Before it connects, a process tries Reconnect, which gives up without a *)
(* state file, and with one when wg-quick does not find the mangled path;  *)
(* main prints the error and goes on.                                      *)
(***************************************************************************)
Run(p) ==
    LET f == Loaded(NewProc) IN
    /\ At(p, "idle")
    /\ \A q \in 1 .. p - 1 : ~At(q, "idle") /\ (Running(q) => \/ plan.together
                                                            \/ At(q, "wait"))
    /\ Become(p,
         CASE Cmd(p) = "disconnect" /\ IsConnected(f) ->
                 Disconnecting([f EXCEPT !.pc = "wait"])
           [] Cmd(p) # "disconnect" /\ ~IsConnected(f) ->
                 [f EXCEPT !.sig = "armed", !.pc = prepareConnectRequest(p)]
           [] OTHER -> Ended(f))
    /\ UNCHANGED <<api, machine, plan, faults>>

\* LoadOrCreateKey: look for the file ...
LoadKey(p) ==
    LET f == proc[p] IN
    /\ At(p, "load")
    /\ Become(p, IF key = NoKey THEN [f EXCEPT !.pc = "create"]
                 ELSE [f EXCEPT !.pc = f.next, !.key = key])
    /\ UNCHANGED <<api, machine, faults>>

\* ... and write a new one, whatever is there by now.
CreateKey(p) ==
    LET f == proc[p] IN
    /\ At(p, "create")
    /\ key' = p
    /\ Become(p, [f EXCEPT !.pc = f.next, !.key = p, !.made = TRUE])
    /\ UNCHANGED <<api, conf, state, iface, faults>>
-----------------------------------------------------------------------------
(***************************************************************************)
(* connectPeerWithRetry.                                                   *)
(***************************************************************************)
\* One attempt too many.
BadRetry(p) ==
    LET f == proc[p] IN
    Become(p, IF Cmd(p) = "nowait" \/ f.attempt > Attempts
              THEN Ended(f)
              ELSE [f EXCEPT !.pc = "post", !.attempt = @ + 1, !.polls = 0])

(***************************************************************************)
(* An attempt that failed, whatever the reason; a 503 would use one up     *)
(* too, but this service answers every connect request with 202.           *)
(***************************************************************************)
Retry(p) ==
    LET f == proc[p] IN
    Become(p, IF Cmd(p) = "nowait" \/ f.attempt = Attempts
              THEN Ended(f)
              ELSE [f EXCEPT !.pc = "post", !.attempt = @ + 1, !.polls = 0])

connectPeerOnce(p) ==
    LET f == proc[p]
        Accept == ConnectPeerAsync(Id(p), f.key) IN
    /\ At(p, "post")
    /\ \/ Sound /\ ~f.cancelled /\ Accept /\ Goto(p, "poll")
       \/ Sound /\ f.cancelled /\ (Accept \/ UNCHANGED api) /\ End(p)
       \/ Fault("lost") /\ ~f.cancelled /\ (Accept \/ UNCHANGED api) /\ Retry(p)
    /\ UNCHANGED machine

GetConnectionStatus(p) == tracker[Id(p)]

\* Polling until there is an answer.
BadpollConnectionStatus(p) ==
    LET f == proc[p]
        seen == GetConnectionStatus(p) IN
    /\ At(p, "poll")
    /\ Sound
    /\ CASE seen = "absent" -> Retry(p)
         [] seen \in {"reported", "completed"} ->
               Become(p, [f EXCEPT !.pc = "load", !.next = "write",
                                   !.full = seen = "completed"])
         [] OTHER -> UNCHANGED proc
    /\ UNCHANGED <<api, machine>>

\* Any phase but "completed" is waited for: a failure is a timeout.
pollConnectionStatus(p) ==
    LET f == proc[p]
        seen == GetConnectionStatus(p) IN
    /\ At(p, "poll")
    /\ \/ Sound /\ f.cancelled /\ End(p)
       \/ /\ Sound /\ ~f.cancelled
          /\ CASE seen = "absent" \/ (seen \in {"active", "failed"}
                                      /\ f.polls + 1 = MaxPolls) -> Retry(p)
               [] seen \in {"reported", "completed"} ->
                     Become(p, [f EXCEPT !.pc = "load", !.next = "write",
                                         !.full = seen = "completed"])
               [] OTHER -> Become(p, [f EXCEPT !.polls = @ + 1])
       \/ Fault("lost") /\ ~f.cancelled /\ Retry(p)
    /\ UNCHANGED <<api, machine>>
-----------------------------------------------------------------------------
(***************************************************************************)
(* applyWireGuardConfig and what follows.  handleServerKeys has nothing to *)
(* do: the service never sends the private key it made.                    *)
(***************************************************************************)
\* An endpoint needs an address.
ValidateConfig(f) == f.full

\* A configuration that is not validated.
BadWriteConfig(p) ==
    /\ At(p, "write")
    /\ conf' = [key |-> proc[p].key, peer |-> Id(p)]
    /\ Become(p, [proc[p] EXCEPT !.pc = "up", !.path = "conf"])
    /\ UNCHANGED <<api, key, state, iface, faults>>

WriteConfig(p) ==
    LET f == proc[p] IN
    /\ At(p, "write")
    /\ IF ValidateConfig(f)
       THEN /\ conf' = [key |-> f.key, peer |-> Id(p)]
            /\ Become(p, [f EXCEPT !.pc = "up", !.path = "conf"])
       ELSE End(p) /\ UNCHANGED conf
    /\ UNCHANGED <<api, key, state, iface, faults>>

\* "wg-quick up": what the file says now, if there is no interface yet.
ApplyConfig(p) ==
    /\ At(p, "up")
    /\ \/ /\ Sound /\ iface = NoIface
          /\ iface' = [key |-> conf.key, peer |-> conf.peer, by |-> p]
          /\ Goto(p, "save")
       \/ /\ (Sound /\ iface # NoIface) \/ Fault("wg")
          /\ End(p) /\ UNCHANGED iface
    /\ UNCHANGED <<api, key, conf, state>>

\* A connector that forgets the peer's id.
BadSaveState(p) ==
    /\ At(p, "save")
    /\ Become(p, [proc[p] EXCEPT !.pc = "wait", !.path = "conf",
                                 !.connected = TRUE])
    /\ state' = Id(p)
    /\ UNCHANGED <<api, key, conf, iface, faults>>

SaveState(p) ==
    /\ At(p, "save")
    /\ Become(p, [proc[p] EXCEPT !.pc = "wait", !.peerID = Id(p),
                                 !.path = "conf", !.connected = TRUE])
    /\ state' = Id(p)
    /\ UNCHANGED <<api, key, conf, iface, faults>>

\* MonitorRotation goes on meanwhile; it only logs.
Exit(p) ==
    /\ At(p, "wait") /\ proc[p].cancelled
    /\ End(p)
    /\ UNCHANGED <<api, machine, faults>>

MainStep(p) ==
    /\ \/ LoadKey(p) \/ CreateKey(p) \/ connectPeerOnce(p)
       \/ pollConnectionStatus(p) \/ WriteConfig(p) \/ ApplyConfig(p)
       \/ SaveState(p) \/ Exit(p)
    /\ UNCHANGED plan
-----------------------------------------------------------------------------
(***************************************************************************)
(* The signal handler.  It ends with main: os.Exit does not wait for it.   *)
(***************************************************************************)
Signal(p) ==
    /\ Running(p) /\ proc[p].sig = "armed"
    /\ Become(p, Disconnecting(proc[p]))
    /\ UNCHANGED <<api, machine, plan, faults>>

\* "peer not found" is retried like any other error.
TryAgain(p) ==
    LET f == proc[p]
        last == f.tries + 1 = Attempts IN
    Become(p, [f EXCEPT !.tries = @ + 1, !.warned = last,
                        !.sig = IF last THEN "down" ELSE "remove"])

RemoveFromServer(p) ==
    LET f == proc[p]
        exists == f.target \in Ids /\ row[f.target] # NoKey
        Delete == IF exists THEN DisconnectPeer(f.target) ELSE UNCHANGED api
        Down == Become(p, [f EXCEPT !.sig = "down"]) IN
    /\ Running(p) /\ f.sig = "remove"
    /\ \/ Sound /\ f.target = NoPeer /\ Down /\ UNCHANGED api
       \/ Sound /\ exists /\ Delete /\ Down
       \/ Sound /\ f.target # NoPeer /\ ~exists /\ TryAgain(p) /\ UNCHANGED api
       \/ /\ f.target # NoPeer /\ (Delete \/ UNCHANGED api)
          /\ \/ Fault("lost") /\ TryAgain(p)
             \/ Fault("hang") /\ Become(p, [f EXCEPT !.sig = "down", !.warned = TRUE])
    /\ UNCHANGED machine

\* "wg-quick down" of whatever path the connector has: a failure ends
\* Disconnect there.
RemoveConfig(p) ==
    LET f == proc[p]
        stands == f.path = "conf" /\ iface # NoIface IN
    /\ Running(p) /\ f.sig = "down"
    /\ \/ /\ Sound /\ stands /\ iface' = NoIface
          /\ Become(p, [f EXCEPT !.sig = "clean"])
       \/ /\ (Sound /\ ~stands) \/ Fault("wg")
          /\ Become(p, [f EXCEPT !.sig = "error", !.cancelled = TRUE])
          /\ UNCHANGED iface
    /\ UNCHANGED <<api, key, conf, state>>

cleanupConnectionState(p) ==
    /\ Running(p) /\ proc[p].sig = "clean"
    /\ state' = NoPeer
    /\ Become(p, [proc[p] EXCEPT !.sig = "done", !.cancelled = TRUE,
                                 !.connected = FALSE, !.peerID = NoPeer])
    /\ UNCHANGED <<api, key, conf, iface, faults>>

HandlerStep(p) ==
    /\ RemoveFromServer(p) \/ RemoveConfig(p) \/ cleanupConnectionState(p)
    /\ UNCHANGED plan
-----------------------------------------------------------------------------
Kill(p) ==
    /\ Running(p) /\ Fault("kill") /\ End(p)
    /\ UNCHANGED <<api, machine, plan>>

Restart == Fault("restart") /\ RestartService /\ UNCHANGED <<machine, proc, plan>>

ServiceStep(r) == JobStep(r) /\ UNCHANGED <<machine, proc, plan, faults>>

Next ==
    \/ \E p \in Procs : Run(p) \/ MainStep(p) \/ Signal(p) \/ HandlerStep(p)
                          \/ Kill(p)
    \/ \E r \in Ids : ServiceStep(r)
    \/ Restart

(***************************************************************************)
(* Both goroutines of a process run; every request has a timeout.  Nothing *)
(* is assumed of the service.                                              *)
(***************************************************************************)
Fairness == \A p \in Procs : WF_vars(MainStep(p)) /\ WF_vars(HandlerStep(p))

Spec == Init /\ [][Next]_vars /\ Fairness
-----------------------------------------------------------------------------
(***************************************************************************)
(* What is checked.                                                        *)
(***************************************************************************)
\* The interface has the configuration of the process that brought it up: two
\* processes that run together share the file.
Own == iface # NoIface /\ iface.by = Owner(iface.peer)

\* A tunnel stands without its peer on the server only while the process
\* that was connected disconnects it, or after it could not take the tunnel
\* down (Disconnect; the rollback of processConnectionRequest).
UpMeansServed ==
    Own => LET f == proc[iface.by] IN
           \/ row[iface.peer] # NoKey
           \/ f.settled /\ f.sig \in {"remove", "down", "error"}

\* The private key of the tunnel belongs to the public key the server has for
\* the peer, though the key file is read again after the request: but for a
\* key the service made, and for two first runs that both write the key file
\* (prepareConnectRequest, GenerateConfig, LoadOrCreateKey).
KeysMatch ==
    iface # NoIface /\ row[iface.peer] # NoKey =>
        \/ row[iface.peer] = iface.key
        \/ Cmd(Owner(iface.peer)) = "generate"
        \/ \E p, q \in Procs : p # q /\ proc[p].made /\ proc[q].made

\* Ctrl+C on a connection that stands, when Disconnect succeeds: the tunnel
\* is down, the peer is off the server or a warning has said that it is not,
\* which takes a failure.
CleanExit ==
    \A p \in Procs : proc[p].settled /\ proc[p].sig = "done" =>
        /\ iface.by # p /\ state # Id(p)
        /\ row[Id(p)] = NoKey \/ (proc[p].warned /\ faults > 0)

\* A tunnel is only brought up for a connection the service has finished: an
\* answer between the last progress event and the connected event has no
\* server address, and never gets past ValidateConfig.
OnlyComplete == iface # NoIface => job[iface.peer].pc = "done"

\* A tunnel that stands is one the service completed and still serves, under
\* the key the service has, whatever was repeated, lost or interrupted
\* (connector.go, client/client.go, wireguard/keys.go).
TunnelSound == UpMeansServed /\ KeysMatch /\ OnlyComplete

\* A command connects or ends, and a process that got a signal ends, whatever
\* the service does.
CommandsEnd ==
    \A p \in Procs :
        /\ Running(p) ~> proc[p].pc \in {"ended", "wait"}
        /\ proc[p].sig = "remove" ~> At(p, "ended")
=============================================================================
