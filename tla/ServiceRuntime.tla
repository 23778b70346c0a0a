---------------------------- MODULE ServiceRuntime ----------------------------
(***************************************************************************)
(* The rotator process from main to its end: the construction and start of *)
(* its parts (service_factory.go, service.go), the goroutines that live    *)
(* next to each other then - API requests, the scheduler's loop and its    *)
(* checks, the jobs the event bus starts - and the shutdown on a signal,   *)
(* with its deadline (service.go, scheduler/, api/server.go, pkg/events).  *)
(*                                                                         *)
(* What requests, jobs and checks do to nodes and peers is the matter of   *)
(* NodeLifecycle and PeerConnection; here a job is the sequence of events  *)
(* it publishes, and the trackers are those of the two modules.            *)
(***************************************************************************)
EXTENDS EventBus, Integers, FiniteSets

CONSTANTS
    Requests,      \* API requests that lead to an event
    KindOf,        \* what a request asks for: a connection, or a rotation
    CheckKinds,    \* the periodic checks: rotation, clean-up
    MaxChecks,     \* bound: checks of a kind that overlap
    MaxSignals,    \* bound: signals that reach signalChan
    NoOne,         \* no holder of the service's mutex
    NoId           \* the id read from metadata without the key: ""

ASSUME RuntimeAssumption ==
    /\ KindOf \in [Requests -> Kinds]
    /\ MaxChecks \in Nat \ {0}
    /\ MaxSignals \in Nat
    /\ NoOne \notin {"main", "handler"}
    /\ NoId \notin Requests
    /\ \A r \in Requests : <<"node", r>> \notin Requests \union {NoId}

VARIABLES
    pc,          \* where main and the signal handler are
    mu,          \* holder of Service.mu
    running,     \* Service.isRunning
    cancelled,   \* Service.ctx is done
    signals,     \* signalChan, and whether the process is notified
    expired,     \* the shutdown deadline has passed
    undrained,   \* Server.Shutdown gave up on requests that still ran
    sched,       \* the scheduler manager, its scheduler and its loop
    checks,      \* rotation and clean-up checks under way
    api,         \* the HTTP server
    store,       \* the database is open
    bus,         \* the event bus
    worker,      \* the two workers' goroutines
    go,          \* the goroutine of each request and of the job it started
    conns,       \* PeerConnectionStateTracker
    nodes        \* ProvisioningStateTracker

vars == <<pc, mu, running, cancelled, signals, expired, undrained, sched, checks,
          api, store, bus, worker, go, conns, nodes>>

CT == INSTANCE ConnectionTracker
PT == INSTANCE ProvisioningTracker

-----------------------------------------------------------------------------
(* State                                                                   *)

MainPCs == {"new", "infrastructure", "domain", "application", "start", "scheduler", "api", "wait", "exit"}

StopPCs == {"stop", "stop_api", "drain", "stop_scheduler", "stop_nodes",
            "close_bus", "close_store", "cancel", "wait_group"}

PCs == MainPCs \union StopPCs \union {"off", "select", "done", "panic"}

Routines == {"api", "job"} \X Requests

NodeOf(r) == <<"node", r>>       \* the id of the node a provisioning makes

Ids == Requests \union {NoId} \union {NodeOf(r) : r \in Requests}

Routine == [pc: {"none", "ready", "checked", "firing", "work", "done"},
            stage: Stages,
            left: UNION {[1..n -> Handlers] : n \in 0..2},
            ok: BOOLEAN]

NoRoutine == [pc |-> "none", stage |-> "requested", left |-> <<>>, ok |-> TRUE]

Alive == pc["main"] # "exit" /\ pc["handler"] # "panic"

(* shutdownWg counts the signal handler.                                   *)
BadWaiting == pc["handler"] \notin {"off", "done", "wait_group"}

Waiting == pc["handler"] \notin {"off", "done"}

SchedulerDone == sched.cancelled \/ cancelled

Event(x) == <<KindOf[x[2]], go[x].stage>>

Serving == \E r \in Requests : go[<<"api", r>>].pc \notin {"none", "done"}

Init ==
    /\ pc = [p \in {"main", "handler"} |-> IF p = "main" THEN "new" ELSE "off"]
    /\ mu = NoOne
    /\ running = FALSE
    /\ cancelled = FALSE
    /\ signals = [sent |-> 0, notify |-> FALSE, pending |-> FALSE, closed |-> FALSE]
    /\ expired = FALSE
    /\ undrained = FALSE
    /\ sched = [running |-> FALSE, cancelled |-> FALSE, stopped |-> FALSE, loop |-> "off",
                ticks |-> {}]
    /\ checks = [k \in CheckKinds |-> 0]
    /\ api = "off"
    /\ store = FALSE
    /\ bus = NewGookitEventBus
    /\ worker = [k \in Kinds |-> "off"]
    /\ go = [x \in Routines |-> NoRoutine]
    /\ conns = [i \in Ids |-> "absent"]
    /\ nodes = [i \in Ids |-> "absent"]

process == <<pc, mu, running, cancelled>>
shutdown == <<signals, expired, undrained>>
scheduler == <<sched, checks>>
trackers == <<conns, nodes>>

-----------------------------------------------------------------------------
(* main: NewService and Start                                              *)

Goto(p, there) == pc' = [pc EXCEPT ![p] = there]

(* NewService creates the components one after the other; when one fails,  *)
(* main exits, with what was opened before still open.                     *)
Created(there) == \/ Goto("main", there)
                  \/ Goto("main", "exit")

CreateDatabaseStore ==
    /\ pc["main"] = "new"
    /\ Created("infrastructure")
    /\ store' = (pc'["main"] # "exit")
    /\ UNCHANGED <<mu, running, cancelled, shutdown, scheduler, api, bus, worker, go, trackers>>

CreateInfrastructureServices ==
    /\ pc["main"] = "infrastructure"
    /\ Created("domain")
    /\ UNCHANGED <<mu, running, cancelled, shutdown, scheduler, api, store, bus, worker, go, trackers>>

BadSubscribeToEvents(b, kind) ==
    LET On(c, s) == Subscribe(c, <<kind, s>>, "tracker")
    IN  On(On(On(b, "progress"), "completed"), "failed")

(* A tracker's constructor subscribes it to the four events of its kind.   *)
SubscribeToEvents(b, kind) ==
    LET On(c, s) == Subscribe(c, <<kind, s>>, "tracker")
    IN  On(On(On(On(b, "requested"), "progress"), "completed"), "failed")

CreateDomainServices ==
    /\ pc["main"] = "domain"
    /\ Created("application")
    /\ bus' = SubscribeToEvents(bus, "connect")
    /\ UNCHANGED <<mu, running, cancelled, shutdown, scheduler, api, store, worker, go, trackers>>

(* The provisioning service brings its tracker; the subscription of the    *)
(* connection worker is left to a goroutine.                               *)
CreateApplicationServices ==
    /\ pc["main"] = "application"
    /\ Goto("main", "start")
    /\ bus' = SubscribeToEvents(bus, "provision")
    /\ worker' = [worker EXCEPT !["connect"] = "spawned"]
    /\ UNCHANGED <<mu, running, cancelled, shutdown, scheduler, api, store, go, trackers>>

StartConnectionWorker ==
    /\ Alive
    /\ worker["connect"] = "spawned"
    /\ worker' = [worker EXCEPT !["connect"] = "on"]
    /\ bus' = Subscribe(bus, <<"connect", "requested">>, "worker")
    /\ UNCHANGED <<process, shutdown, scheduler, api, store, go, trackers>>

(* Start, up to the scheduler: signal handling, the provisioning worker.   *)
StartWorker ==
    /\ pc["main"] = "start"
    /\ mu = NoOne
    /\ mu' = "main"
    /\ signals' = [signals EXCEPT !.notify = TRUE]
    /\ pc' = [pc EXCEPT !["main"] = "scheduler", !["handler"] = "select"]
    /\ worker' = [worker EXCEPT !["provision"] = "on"]
    /\ bus' = Subscribe(bus, <<"provision", "requested">>, "worker")
    /\ UNCHANGED <<running, cancelled, expired, undrained, scheduler, api, store, go, trackers>>

StartScheduler ==
    /\ pc["main"] = "scheduler"
    /\ pc' = [pc EXCEPT !["main"] = "api"]
    /\ sched' = [sched EXCEPT !.running = TRUE, !.loop = "on"]
    /\ checks' = [k \in CheckKinds |-> 1]
    /\ UNCHANGED <<mu, running, cancelled, shutdown, api, store, bus, worker, go, trackers>>

(* UnifiedManager.Stop: cancel the context, then stop the scheduler.  Not  *)
(* running, it does nothing: stopChan is closed at most once.              *)
StopScheduler(s) ==
    IF s.running THEN [s EXCEPT !.cancelled = TRUE, !.stopped = TRUE, !.running = FALSE] ELSE s

(* ListenAndServe has 100 ms to report an error.                           *)
StartAPI ==
    /\ pc["main"] = "api"
    /\ mu' = NoOne
    /\ \/ /\ pc' = [pc EXCEPT !["main"] = "wait"]
          /\ api' = "listening"
          /\ running' = TRUE
          /\ UNCHANGED sched
       \/ /\ pc' = [pc EXCEPT !["main"] = "stop"]        \* main calls Stop
          /\ sched' = StopScheduler(sched)
          /\ UNCHANGED <<api, running>>
    /\ UNCHANGED <<cancelled, shutdown, checks, store, bus, worker, go, trackers>>

(* An error of ListenAndServe after that stays in errChan.                 *)
ListenFails ==
    /\ Alive
    /\ api = "listening"
    /\ api' = "failed"
    /\ UNCHANGED <<process, shutdown, scheduler, store, bus, worker, go, trackers>>

WaitForShutdown ==
    /\ pc["main"] = "wait"
    /\ ~ Waiting
    /\ pc' = [pc EXCEPT !["main"] = "exit"]
    /\ UNCHANGED <<mu, running, cancelled, shutdown, scheduler, api, store, bus, worker, go, trackers>>

-----------------------------------------------------------------------------
(* Signals, and Stop                                                       *)

(* SIGINT or SIGTERM.  A process that is not, or no longer, notified dies, *)
(* and what it held in memory is gone.                                     *)
Signal ==
    /\ Alive
    /\ signals.notify
    /\ signals.sent < MaxSignals
    /\ signals' = [signals EXCEPT !.sent = @ + 1, !.pending = TRUE]
    /\ UNCHANGED <<process, expired, undrained, scheduler, api, store, bus, worker, go, trackers>>

Kill ==
    /\ Alive
    /\ ~ signals.notify
    /\ Goto("main", "exit")
    /\ checks' = [k \in CheckKinds |-> 0]
    /\ bus' = NewGookitEventBus
    /\ go' = [x \in Routines |-> NoRoutine]
    /\ conns' = [i \in Ids |-> "absent"]
    /\ nodes' = [i \in Ids |-> "absent"]
    /\ UNCHANGED <<mu, running, cancelled, shutdown, sched, api, store, worker>>

(* A closed signalChan yields a nil signal, and sig.String() panics.       *)
HandleSignals ==
    /\ Alive
    /\ pc["handler"] = "select"
    /\ \E there \in {"stop", "panic", "done"} :
          /\ there = "stop"  => signals.pending
          /\ there = "panic" => signals.closed /\ ~ signals.pending
          /\ there = "done"  => cancelled
          /\ Goto("handler", there)
    /\ signals' = [signals EXCEPT !.pending = FALSE]
    /\ UNCHANGED <<mu, running, cancelled, expired, undrained, scheduler, api, store, bus, worker, go, trackers>>

(* The deadline runs from the moment the handler has its signal.           *)
Expire ==
    /\ Alive
    /\ pc["handler"] \in StopPCs
    /\ ~ expired
    /\ expired' = TRUE
    /\ UNCHANGED <<process, signals, undrained, scheduler, api, store, bus, worker, go, trackers>>

(* After Stop, main exits and the handler is done.  main calls Stop only   *)
(* when Start has failed, and finds the service not running.               *)
Returned(p) == [pc EXCEPT ![p] = IF p = "main" THEN "exit" ELSE "done"]

Stop(p) ==
    /\ Alive
    /\ pc[p] = "stop"
    /\ mu = NoOne
    /\ IF running
       THEN /\ mu' = p
            /\ Goto(p, "stop_api")
            /\ signals' = [signals EXCEPT !.notify = FALSE, !.closed = TRUE]
       ELSE /\ pc' = Returned(p)
            /\ UNCHANGED <<mu, signals>>
    /\ UNCHANGED <<running, cancelled, expired, undrained, scheduler, api, store, bus, worker, go, trackers>>

(* Server.Shutdown closes the listeners and waits for the requests.        *)
StopAPI ==
    /\ Alive
    /\ pc["handler"] = "stop_api"
    /\ Goto("handler", "drain")
    /\ api' = "stopped"
    /\ UNCHANGED <<mu, running, cancelled, shutdown, scheduler, store, bus, worker, go, trackers>>

BadDrain ==
    /\ Alive
    /\ pc["handler"] = "drain"
    /\ Goto("handler", "stop_scheduler")
    /\ UNCHANGED <<mu, running, cancelled, shutdown, scheduler, api, store, bus, worker, go, trackers>>

Drain ==
    /\ Alive
    /\ pc["handler"] = "drain"
    /\ Goto("handler", "stop_scheduler")
    /\ undrained' = Serving         \* then by its 30 s, or by the deadline
    /\ UNCHANGED <<mu, running, cancelled, signals, expired, scheduler, api, store, bus, worker, go, trackers>>

StopChecks ==
    /\ Alive
    /\ pc["handler"] = "stop_scheduler"
    /\ Goto("handler", "stop_nodes")
    /\ sched' = StopScheduler(sched)
    /\ UNCHANGED <<mu, running, cancelled, shutdown, checks, api, store, bus, worker, go, trackers>>

(* cleanupActiveNodes ends with the nodes, or with an error.               *)
CleanupActiveNodes ==
    /\ Alive
    /\ pc["handler"] = "stop_nodes"
    /\ Goto("handler", "close_bus")
    /\ UNCHANGED <<mu, running, cancelled, shutdown, scheduler, api, store, bus, worker, go, trackers>>

CloseBus ==
    /\ Alive
    /\ pc["handler"] = "close_bus"
    /\ Goto("handler", "close_store")
    /\ bus' = Close(bus)
    /\ UNCHANGED <<mu, running, cancelled, shutdown, scheduler, api, store, worker, go, trackers>>

CloseStore ==
    /\ Alive
    /\ pc["handler"] = "close_store"
    /\ Goto("handler", "cancel")
    /\ store' = FALSE
    /\ UNCHANGED <<mu, running, cancelled, shutdown, scheduler, api, bus, worker, go, trackers>>

Cancel ==
    /\ Alive
    /\ pc["handler"] = "cancel"
    /\ Goto("handler", "wait_group")
    /\ cancelled' = TRUE
    /\ UNCHANGED <<mu, running, shutdown, scheduler, api, store, bus, worker, go, trackers>>

BadWaitGroup ==
    /\ Alive
    /\ pc["handler"] = "wait_group"
    /\ ~ Waiting
    /\ running' = FALSE
    /\ mu' = NoOne
    /\ pc' = Returned("handler")
    /\ UNCHANGED <<cancelled, shutdown, scheduler, api, store, bus, worker, go, trackers>>

WaitGroup ==
    /\ Alive
    /\ pc["handler"] = "wait_group"
    /\ ~ Waiting \/ expired
    /\ running' = FALSE
    /\ mu' = NoOne
    /\ pc' = Returned("handler")
    /\ UNCHANGED <<cancelled, shutdown, scheduler, api, store, bus, worker, go, trackers>>

StopStep == \/ Stop("handler") \/ StopAPI \/ Drain \/ StopChecks \/ CleanupActiveNodes
            \/ CloseBus \/ CloseStore \/ Cancel \/ WaitGroup

-----------------------------------------------------------------------------
(* The scheduler's loop and its checks                                     *)

(* A ticker holds one tick until the loop takes it; Stop stops the tickers *)
(* and leaves that tick where it is.                                       *)
Tick(k) ==
    /\ Alive
    /\ sched.loop = "on" /\ ~ sched.stopped
    /\ sched' = [sched EXCEPT !.ticks = @ \union {k}]
    /\ UNCHANGED <<process, shutdown, checks, api, store, bus, worker, go, trackers>>

(* select takes any case that is ready: a check can start after the stop.  *)
StartCheck(k) ==
    /\ Alive
    /\ sched.loop = "on"
    /\ k \in sched.ticks
    /\ checks[k] < MaxChecks
    /\ sched' = [sched EXCEPT !.ticks = @ \ {k}]
    /\ checks' = [checks EXCEPT ![k] = @ + 1]
    /\ UNCHANGED <<process, shutdown, api, store, bus, worker, go, trackers>>

EndCheck(k) ==
    /\ Alive
    /\ checks[k] > 0
    /\ checks' = [checks EXCEPT ![k] = @ - 1]
    /\ UNCHANGED <<process, shutdown, sched, api, store, bus, worker, go, trackers>>

EndLoop ==
    /\ Alive
    /\ sched.loop = "on"
    /\ SchedulerDone \/ sched.stopped
    /\ sched' = [sched EXCEPT !.loop = "ended", !.ticks = {}]
    /\ UNCHANGED <<process, shutdown, checks, api, store, bus, worker, go, trackers>>

(* The provisioning worker unsubscribes when the service's context ends.   *)
StopWorker ==
    /\ Alive
    /\ cancelled
    /\ worker["provision"] = "on"
    /\ worker' = [worker EXCEPT !["provision"] = "stopped"]
    /\ bus' = Unsubscribe(bus, <<"provision", "requested">>, "worker")
    /\ UNCHANGED <<process, shutdown, scheduler, api, store, go, trackers>>

-----------------------------------------------------------------------------
(* Requests, events and jobs                                               *)

(* POST connect, or a rotation that asks for a replacement node.           *)
Arrive(r) ==
    /\ Alive
    /\ api = "listening"
    /\ go[<<"api", r>>].pc = "none"
    /\ go' = [go EXCEPT ![<<"api", r>>].pc = "ready"]
    /\ UNCHANGED <<process, shutdown, scheduler, api, store, bus, worker, trackers>>

(* Where a goroutine goes on once Publish has returned.  A job only logs   *)
(* that it could not report its progress or its outcome.                   *)
Published(x, ok, g) ==
    IF x[1] = "api" \/ g[x].stage # "progress"
    THEN [g EXCEPT ![x].pc = "done", ![x].ok = ok, ![x].left = <<>>]
    ELSE [g EXCEPT ![x].pc = "work", ![x].left = <<>>]

(* Publish looks at "closed" under its lock, and fires without the lock.   *)
Publish(x) ==
    /\ Alive
    /\ go[x].pc = "ready"
    /\ go' = IF bus.closed THEN Published(x, FALSE, go) ELSE [go EXCEPT ![x].pc = "checked"]
    /\ UNCHANGED <<process, shutdown, scheduler, api, store, bus, worker, trackers>>

(* Calling the listeners one after the other; without any, Publish is over. *)
Listening(x, g, left) ==
    IF left = <<>> THEN Published(x, TRUE, g)
    ELSE [g EXCEPT ![x].pc = "firing", ![x].left = left]

FireEvent(x) ==
    /\ Alive
    /\ go[x].pc = "checked"
    /\ go' = Listening(x, go, Fire(bus, Event(x)))
    /\ UNCHANGED <<process, shutdown, scheduler, api, store, bus, worker, trackers>>

(* The id a tracker files an event under.                                  *)
IdIn(x) ==
    LET e == Event(x)
    IN  IF KeyRead(e) \notin Metadata(e) THEN NoId
        ELSE IF KeyRead(e) = "request_id" THEN x[2] ELSE NodeOf(x[2])

TrackConnect(x) ==
    CASE go[x].stage = "requested" -> CT!handleConnectRequested(conns, IdIn(x))
      [] go[x].stage = "progress"  -> CT!handleConnectProgress(conns, IdIn(x))
      [] go[x].stage = "completed" -> CT!handleConnected(conns, IdIn(x))
      [] go[x].stage = "failed"    -> CT!handleConnectFailed(conns, IdIn(x))

TrackProvision(x) ==
    CASE go[x].stage = "requested" -> {PT!handleProvisionRequested(nodes, IdIn(x))}
      [] go[x].stage = "progress"  -> PT!handleProvisionProgress(nodes, IdIn(x))
      [] go[x].stage = "completed" -> {PT!handleProvisionCompleted(nodes, IdIn(x))}
      [] go[x].stage = "failed"    -> {PT!handleProvisionFailed(nodes, IdIn(x))}

CallTracker(x) ==
    /\ Alive
    /\ go[x].pc = "firing" /\ Head(go[x].left) = "tracker"
    /\ IF KindOf[x[2]] = "connect"
       THEN conns' = TrackConnect(x) /\ UNCHANGED nodes
       ELSE nodes' \in TrackProvision(x) /\ UNCHANGED conns
    /\ go' = Listening(x, go, Tail(go[x].left))
    /\ UNCHANGED <<process, shutdown, scheduler, api, store, bus, worker>>

Spawned == [NoRoutine EXCEPT !.pc = "ready", !.stage = "progress"]

(* handleProvisionRequest ignores the event while a node is being made;    *)
(* the connection worker starts a goroutine for every one.                 *)
CallWorker(x) ==
    /\ Alive
    /\ go[x].pc = "firing" /\ Head(go[x].left) = "worker"
    /\ go' = IF KindOf[x[2]] = "provision" /\ PT!IsProvisioning(nodes)
             THEN Listening(x, go, Tail(go[x].left))
             ELSE Listening(x, [go EXCEPT ![<<"job", x[2]>>] = Spawned], Tail(go[x].left))
    /\ UNCHANGED <<process, shutdown, scheduler, api, store, bus, worker, trackers>>

(* The work of a job succeeds or fails, and fails without the store.       *)
Work(x) ==
    /\ Alive
    /\ go[x].pc = "work"
    /\ \E s \in IF store THEN {"completed", "failed"} ELSE {"failed"} :
           go' = [go EXCEPT ![x].pc = "ready", ![x].stage = s]
    /\ UNCHANGED <<process, shutdown, scheduler, api, store, bus, worker, trackers>>

RoutineStep(x) == Publish(x) \/ FireEvent(x) \/ CallTracker(x) \/ CallWorker(x)
                  \/ Work(x)

Over == ~ Alive /\ UNCHANGED vars          \* the process is gone

MainStep == \/ CreateDatabaseStore \/ CreateInfrastructureServices \/ CreateDomainServices
            \/ CreateApplicationServices \/ StartWorker \/ StartScheduler \/ StartAPI
            \/ WaitForShutdown \/ Stop("main")

HandlerStep == HandleSignals \/ StopStep

Next == \/ MainStep \/ HandlerStep \/ StartConnectionWorker \/ ListenFails \/ Signal \/ Kill \/ Expire
        \/ EndLoop \/ StopWorker
        \/ \E k \in CheckKinds : Tick(k) \/ StartCheck(k) \/ EndCheck(k)
        \/ \E r \in Requests : Arrive(r)
        \/ \E x \in Routines : RoutineStep(x)
        \/ Over

(* The process's own goroutines are scheduled; the deadline is a timer.    *)
Fairness == /\ WF_vars(MainStep)
            /\ WF_vars(HandlerStep)
            /\ WF_vars(Expire)

Spec == Init /\ [][Next]_vars /\ Fairness

-----------------------------------------------------------------------------
(* Properties                                                              *)

(* Every variable keeps its type; no listener is registered twice.         *)
TypeOK ==
    /\ pc \in [{"main", "handler"} -> PCs]
    /\ mu \in {"main", "handler", NoOne}
    /\ running \in BOOLEAN /\ cancelled \in BOOLEAN /\ expired \in BOOLEAN /\ undrained \in BOOLEAN
    /\ signals \in [sent: 0..MaxSignals, notify: BOOLEAN, pending: BOOLEAN, closed: BOOLEAN]
    /\ sched \in [running: BOOLEAN, cancelled: BOOLEAN, stopped: BOOLEAN,
                  loop: {"off", "on", "ended"}, ticks: SUBSET CheckKinds]
    /\ checks \in [CheckKinds -> 0..MaxChecks]
    /\ api \in {"off", "listening", "failed", "stopped"}
    /\ store \in BOOLEAN
    /\ bus.closed \in BOOLEAN
    /\ worker \in [Kinds -> {"off", "spawned", "on", "stopped"}]
    /\ go \in [Routines -> Routine]
    /\ conns \in [Ids -> CT!Entry]
    /\ nodes \in [Ids -> PT!Entry]

(* The signal handler never receives from a closed signalChan: a nil       *)
(* signal would panic (service.go, handleSignals).  Only the handler       *)
(* itself, or nobody, gets past the isRunning guard of Stop.               *)
NoPanic == pc["handler"] # "panic"

(* Once Stop has closed the store, no request is being served unless the   *)
(* server's Shutdown gave up waiting for it, and every check of the        *)
(* scheduler, those the loop may still start included, has a context that  *)
(* is done.  (Jobs of the event bus get no such treatment.)                *)
StoreClosedQuietly ==
    pc["handler"] \in {"cancel", "wait_group", "done"} /\ ~ store =>
        /\ Serving => undrained
        /\ SchedulerDone

(* Whenever the signal comes, stopping does not panic and takes the store  *)
(* away from nobody who was not told (service.go, Stop and handleSignals;  *)
(* scheduler/unified_scheduler.go).                                        *)
StopIsSafe == NoPanic /\ StoreClosedQuietly

(* A connection that was accepted while the bus was open is known to the   *)
(* tracker, and so is every connection a job works on: the tracker is      *)
(* subscribed before the worker and before the API listens.                *)
AcceptedIsTracked ==
    \A r \in Requests : KindOf[r] = "connect" =>
        /\ go[<<"api", r>>].pc = "done" /\ go[<<"api", r>>].ok /\ ~ bus.closed => conns[r] # "absent"
        /\ go[<<"job", r>>].pc # "none" => conns[r] # "absent"

(* A job that has ended left its outcome in the tracker, under the id its  *)
(* tracker looks for, unless the bus was closed meanwhile: no event        *)
(* overtakes another, and publisher and handler agree on the key.          *)
OutcomeIsTracked ==
    \A r \in Requests : LET j == go[<<"job", r>>] IN j.pc = "done" /\ ~ bus.closed =>
        IF KindOf[r] = "connect" THEN conns[r] = j.stage ELSE nodes[NodeOf(r)] = j.stage

(* The trackers know what was accepted and how it ended: the order of the  *)
(* subscriptions (service_factory.go), the order of the events, and the    *)
(* keys that publishers write and handlers read, taken together.           *)
TrackersSound == AcceptedIsTracked /\ OutcomeIsTracked

(* The handler counts in shutdownWg while its Stop waits for shutdownWg:   *)
(* a service stopped by a signal always waits out its shutdown timeout.    *)
StopWaitsItOut == [][running /\ ~ running' => expired]_vars

(* A signal that reached the channel ends the process, although Stop waits *)
(* for the handler that runs it.                                           *)
SignalEndsProcess == signals.pending ~> ~ Alive
=============================================================================
