----------------------------- MODULE RemoteAccess -----------------------------
(***************************************************************************)
(* How the rotator runs commands on its nodes: the retry loop and the      *)
(* circuit breakers of SSHNodeInteractor (ssh_node_interactor.go), the     *)
(* pool of SSH clients (ssh/pool.go), the clients with their mutex         *)
(* (ssh/client.go) and the health check (health.go), which goes around     *)
(* the breaker.  All under internal/rotator/infrastructure/remote.         *)
(*                                                                         *)
(* Two locks are taken in nested order: the pool's mutex, held over the    *)
(* health test and the closing of a pooled client, and the client's mutex, *)
(* held for as long as a command runs.                                     *)
(***************************************************************************)
EXTENDS CircuitBreaker, Sequences, FiniteSets, FiniteSetsExt

CONSTANTS
    Hosts,           \* addresses of nodes
    Workers,         \* goroutines that use the interactor
    Monitors,        \* those of them that check the health of nodes, too
    Cleaner,         \* the goroutine of StartCleanupRoutine
    None,            \* no process, no client
    Clients,         \* identities of ssh clients: one per host and per process
    RetryAttempts,   \* config.RetryAttempts
    HealthCommands   \* sequence of the kinds of command of a health check

ASSUME RemoteAssumption ==
    /\ RetryAttempts \in Nat \ {0}
    /\ HealthCommands \in Seq({"critical", "optional", "metric", "status"})
    /\ Clients \subseteq Nat
    /\ Monitors \subseteq Workers
    /\ IsFiniteSet(Hosts) /\ IsFiniteSet(Workers)
    /\ Cardinality(Clients) >= Cardinality(Hosts) + Cardinality(Workers)
    /\ None \notin Clients \union Workers \union {Cleaner} \union Hosts
    /\ None \notin Breaker

VARIABLES
    breakers,   \* circuitBreakers: by host, None until the host is first used
    pool,       \* Pool.connections: the pooled client of a host, or None
    mutex,      \* holder of Pool.mutex
    conn,       \* whether client.conn is set
    proc        \* what each worker is doing

vars == <<breakers, pool, mutex, conn, proc>>

-----------------------------------------------------------------------------
(* A worker's local state.  For a caller, "step" counts the attempts; for  *)
(* a checker it is the index of the health command.                        *)

Callers == {x \in Workers : proc[x].kind = "call"}

Checkers == Workers \ Callers

PCs == {"idle", "get", "lookup", "evict", "run", "session",
        "close", "closing", "record", "backoff"}

Proc == [pc: PCs, kind: {"call", "check"}, host: Hosts \union {None}, step: Nat, client: Clients \union {None},
         ok: BOOLEAN,           \* the command succeeded; for a checker, IsHealthy so far
         closes: 0..2]           \* calls of CloseConnection still to make

Idle == [pc |-> "idle", kind |-> "call", host |-> None, step |-> 0, client |-> None,
         ok |-> TRUE, closes |-> 0]

Goto(x, pc) == proc' = [proc EXCEPT ![x].pc = pc]

(* client.mutex is held while a command runs.                              *)
Busy(c) == \E x \in Workers : proc[x].pc = "session" /\ proc[x].client = c

Held(c) == \E x \in Workers : proc[x].client = c

(* A client out of the pool and out of everybody's hands can be named anew. *)
Fresh == Min({c \in Clients : ~ Held(c) /\ \A h \in Hosts : pool[h] # c})

(* client.Close, client.IsHealthy (a session can be opened, or cannot) and  *)
(* client.connect.                                                         *)
Closed(c) == [n \in Clients |-> conn[n] /\ n # c]

IsHealthy(c) == IF conn[c] THEN BOOLEAN ELSE {FALSE}

Connect(c) == [conn EXCEPT ![c] = TRUE]

-----------------------------------------------------------------------------
(* Entering and leaving                                                    *)

getCircuitBreaker(h) == IF breakers[h] = None THEN NewCircuitBreaker ELSE breakers[h]

(* Every error of an attempt is marked retryable, "circuit breaker is      *)
(* open" too: the loop ends only with its attempts.                        *)
AfterFailure(p) == IF p.step < RetryAttempts THEN [p EXCEPT !.pc = "backoff", !.ok = TRUE] ELSE Idle

(* CircuitBreaker.Execute asks before it lets an attempt through.          *)
Admit(p) == IF canExecute(getCircuitBreaker(p.host)) THEN [p EXCEPT !.pc = "get"] ELSE AfterFailure(p)

(* AddPeer, RemovePeer, RestartWireGuard, ExecuteCommand: one command sent *)
(* through executeWithRetry.                                               *)
Call(x, h) ==
    /\ proc[x].pc = "idle"
    /\ proc' = [proc EXCEPT ![x] = Admit([Idle EXCEPT !.host = h, !.step = 1])]
    /\ breakers' = [breakers EXCEPT ![h] = getCircuitBreaker(h)]
    /\ UNCHANGED <<pool, mutex, conn>>

BadBackoff(x) ==
    /\ proc[x].pc = "backoff"
    /\ \/ proc' = [proc EXCEPT ![x] = Admit(proc[x])]
       \/ proc' = [proc EXCEPT ![x] = Idle]
    /\ UNCHANGED <<breakers, pool, mutex, conn>>

Backoff(x) ==
    /\ proc[x].pc = "backoff"
    /\ \/ proc' = [proc EXCEPT ![x] = Admit([proc[x] EXCEPT !.step = @ + 1])]
       \/ proc' = [proc EXCEPT ![x] = Idle]             \* ctx.Done()
    /\ UNCHANGED <<breakers, pool, mutex, conn>>

(* CheckNodeHealth, from performHealthChecks or from the node service: no  *)
(* breaker is asked.                                                       *)
CheckNodeHealth(x, h) ==
    /\ x \in Monitors
    /\ proc[x].pc = "idle"
    /\ proc' = [proc EXCEPT ![x] = [Idle EXCEPT !.pc = "get", !.kind = "check",
                                                !.host = h, !.step = 1]]
    /\ UNCHANGED <<breakers, pool, mutex, conn>>

-----------------------------------------------------------------------------
(* Pool.GetConnection                                                      *)

LockPool(x) ==
    /\ proc[x].pc \in {"get", "close"}
    /\ mutex = None
    /\ mutex' = x
    /\ Goto(x, IF proc[x].pc = "get" THEN "lookup" ELSE "closing")
    /\ UNCHANGED <<breakers, pool, conn>>

Pooled(x, c) ==
    /\ pool' = [pool EXCEPT ![proc[x].host] = c]
    /\ mutex' = None
    /\ proc' = [proc EXCEPT ![x].pc = "run", ![x].client = c]

(* The client is made without a connection; it dials in RunCommand.  The   *)
(* one it replaces is closed.                                              *)
createNewConnection(x) ==
    LET c == Fresh
    IN  /\ Pooled(x, c)
        /\ conn' = [n \in Clients |-> conn[n] /\ n \notin {c, pool[proc[x].host]}]

(* isConnectionHealthy waits for the client's mutex with the pool locked.  *)
(* A client that has not dialled yet counts as unhealthy, like one whose   *)
(* connection is broken.                                                   *)
GetConnection(x) ==
    LET c == pool[proc[x].host] IN
    /\ proc[x].pc = "lookup"
    /\ \/ /\ c = None
          /\ createNewConnection(x)
       \/ /\ c # None /\ ~ Busy(c)
          /\ TRUE \in IsHealthy(c)
          /\ Pooled(x, c)
          /\ UNCHANGED conn
       \/ /\ c # None /\ ~ Busy(c)
          /\ FALSE \in IsHealthy(c)
          /\ Goto(x, "evict")
          /\ UNCHANGED <<pool, mutex, conn>>
    /\ UNCHANGED breakers

(* conn.client.Close() takes the client's mutex anew; meanwhile another    *)
(* worker may have dialled.                                                *)
Evict(x) ==
    /\ proc[x].pc = "evict"
    /\ ~ Busy(pool[proc[x].host])
    /\ createNewConnection(x)
    /\ UNCHANGED breakers

-----------------------------------------------------------------------------
(* client.RunCommand                                                       *)

(* CloseConnection is called by Pool.ExecuteCommand after a failure, and   *)
(* once more by executeHealthCheck.                                        *)
ClosesOf(x) ==
    IF proc[x].kind = "check" /\ HealthCommands[proc[x].step] \in {"critical", "optional"} THEN 2 ELSE 1

(* A health check is spoilt by a critical command or the WireGuard status; *)
(* the errors of optional commands and of the metrics are only noted.      *)
Spoils(x) == proc[x].kind = "call" \/ HealthCommands[proc[x].step] \in {"critical", "status"}

Broken(x) == [proc EXCEPT ![x].pc = "close", ![x].ok = @ /\ ~ Spoils(x),
                          ![x].closes = ClosesOf(x)]

(* An attempt dials when it has no connection, or when the one it has is   *)
(* found broken; both may fail.                                            *)
RunCommand(x) ==
    LET c == proc[x].client IN
    /\ proc[x].pc = "run"
    /\ ~ Busy(c)
    /\ \/ conn' = Connect(c) /\ Goto(x, "session")
       \/ conn' = Closed(c) /\ proc' = Broken(x)
    /\ UNCHANGED <<breakers, pool, mutex>>

(* The command's end.  When its answer is lost or comes too late it may    *)
(* have taken effect all the same.                                         *)
Answer(x) ==
    /\ proc[x].pc = "session"
    /\ Goto(x, "record") \/ proc' = Broken(x)
    /\ UNCHANGED <<breakers, pool, mutex, conn>>

(* Whatever client the pool holds by now is closed, not the one that       *)
(* failed.                                                                 *)
CloseConnection(x) ==
    LET h == proc[x].host
        c == pool[h]
    IN  /\ proc[x].pc = "closing"
        /\ ~ Busy(c)
        /\ conn' = Closed(c)
        /\ pool' = [pool EXCEPT ![h] = None]
        /\ mutex' = None
        /\ proc' = [proc EXCEPT ![x].closes = @ - 1,
                                ![x].pc = IF proc[x].closes > 1 THEN "close" ELSE "record"]
        /\ UNCHANGED breakers

-----------------------------------------------------------------------------
(* The result of an attempt, and of a health command                       *)

(* A client that nobody can reach any more leaves the model; if another    *)
(* worker had closed it before the command dialled, its connection stays   *)
(* open on the wire.                                                       *)
Dropped(x) == LET c == proc[x].client IN
    [n \in Clients |-> conn[n] /\ ~ (n = c /\ pool[proc[x].host] # c
                                          /\ \A y \in Workers \ {x} : proc[y].client # c)]

RecordAttempt(x) ==
    /\ proc[x].pc = "record" /\ proc[x].kind = "call"
    /\ breakers' = [breakers EXCEPT ![proc[x].host] = recordResult(@, proc[x].ok)]
    /\ proc' = [proc EXCEPT ![x] = IF @.ok THEN Idle ELSE AfterFailure([@ EXCEPT !.client = None])]
    /\ conn' = Dropped(x)
    /\ UNCHANGED <<pool, mutex>>

RecordCheck(x) ==
    /\ proc[x].pc = "record" /\ proc[x].kind = "check"
    /\ proc' = [proc EXCEPT ![x] = IF proc[x].step < Len(HealthCommands)
                                   THEN [proc[x] EXCEPT !.pc = "get", !.step = @ + 1, !.client = None]
                                   ELSE Idle]
    /\ conn' = Dropped(x)
    /\ UNCHANGED <<breakers, pool, mutex>>

-----------------------------------------------------------------------------
(* The others                                                              *)

(* CleanupIdleConnections, and CloseAllConnections when Close is called:   *)
(* the idle clients (how long one has been idle is a matter of time) are   *)
(* closed, each under its mutex, with the pool locked throughout.          *)
LockForCleanup ==
    /\ mutex = None
    /\ \E h \in Hosts : pool[h] # None
    /\ mutex' = Cleaner
    /\ UNCHANGED <<breakers, pool, conn, proc>>

BadCloseIdle(h) ==
    /\ mutex = Cleaner
    /\ pool[h] # None
    /\ conn' = Closed(pool[h])
    /\ pool' = [pool EXCEPT ![h] = None]
    /\ UNCHANGED <<breakers, mutex, proc>>

CloseIdle(h) ==
    /\ mutex = Cleaner
    /\ pool[h] # None /\ ~ Busy(pool[h])
    /\ conn' = Closed(pool[h])
    /\ pool' = [pool EXCEPT ![h] = None]
    /\ UNCHANGED <<breakers, mutex, proc>>

EndCleanup ==
    /\ mutex = Cleaner
    /\ mutex' = None
    /\ UNCHANGED <<breakers, pool, conn, proc>>

(* The reset timeout of a breaker passes.                                  *)
ResetTimeout(h) ==
    /\ breakers[h] # None
    /\ ~ breakers[h].due
    /\ breakers' = [breakers EXCEPT ![h].due = TRUE]
    /\ UNCHANGED <<pool, mutex, conn, proc>>

-----------------------------------------------------------------------------
Init ==
    /\ breakers = [h \in Hosts |-> None]
    /\ pool = [h \in Hosts |-> None]
    /\ mutex = None
    /\ conn = [c \in Clients |-> FALSE]
    /\ proc = [x \in Workers |-> Idle]

Step(x) ==
    \/ Backoff(x) \/ LockPool(x) \/ GetConnection(x) \/ Evict(x)
    \/ RunCommand(x) \/ Answer(x) \/ CloseConnection(x)
    \/ RecordAttempt(x) \/ RecordCheck(x)

Next ==
    \/ \E x \in Workers : Step(x) \/ \E h \in Hosts : Call(x, h) \/ CheckNodeHealth(x, h)
    \/ LockForCleanup \/ EndCleanup
    \/ \E h \in Hosts : CloseIdle(h) \/ ResetTimeout(h)

(* A goroutine that can run runs; a mutex that is released again and again *)
(* is given to every goroutine waiting for it (Go's mutexes are handed     *)
(* over after a millisecond); a session ends, with an answer or with the   *)
(* keep-alive; the clean-up comes to its end.                              *)
Fairness ==
    /\ \A x \in Workers : SF_vars(Step(x))
    /\ WF_vars(EndCleanup)

Spec == Init /\ [][Next]_vars /\ Fairness

-----------------------------------------------------------------------------
(* Properties                                                              *)

TypeOK ==
    /\ breakers \in [Hosts -> Breaker \union {None}]
    /\ pool \in [Hosts -> Clients \union {None}]
    /\ mutex \in Workers \union {Cleaner, None}
    /\ conn \in [Clients -> BOOLEAN]
    /\ proc \in [Workers -> Proc]

(* Nobody takes the connection away from under a running command: neither  *)
(* the clean-up, nor a worker that found the client unhealthy before it    *)
(* dialled, nor one that failed on the same client (client.Close waits for *)
(* the client's mutex).                                                    *)
RunningNotClosed == \A x \in Workers : proc[x].pc = "session" => conn[proc[x].client]

(* When an attempt has failed and is about to be counted, the client it    *)
(* used is out of the pool, whatever the others did to the pool meanwhile: *)
(* the next attempt runs on another one (ssh/pool.go, ExecuteCommand).     *)
FailedNotPooled ==
    \A x \in Callers : proc[x].pc = "record" /\ ~ proc[x].ok
                         => pool[proc[x].host] # proc[x].client

(* The pool is used soundly by everybody at once: the connection under a   *)
(* command stays open till its answer, and a failed one is not found again *)
(* (ssh/pool.go and ssh/client.go).                                        *)
PoolSound == RunningNotClosed /\ FailedNotPooled

(* A closed breaker has seen fewer failures in a row than the threshold,   *)
(* however many attempts admitted earlier report to it late.               *)
ClosedBelowThreshold ==
    \A h \in Hosts : breakers[h] # None /\ breakers[h].state = "closed"
                       => breakers[h].failureCount < FailureThreshold

(* While a breaker is open and its deadline has not come, no further call  *)
(* gets through to the host; the attempts under way may end.               *)
Inside(h) == {x \in Callers : /\ proc[x].host = h
                              /\ proc[x].pc \notin {"idle", "backoff"}}
OpenAdmitsNone ==
    [][\A h \in Hosts : breakers[h] # None /\ ~ breakers[h].due /\ ~ breakers'[h].due
                          => Inside(h)' \subseteq Inside(h)]_vars

(* Every call comes back, although it holds the pool's mutex while it      *)
(* waits for a client that another worker is using.                        *)
CallsEnd == \A x \in Workers : proc[x].pc # "idle" ~> proc[x].pc = "idle"
=============================================================================
