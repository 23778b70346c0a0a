------------------------- MODULE ServiceRuntimeProofs -------------------------
(***************************************************************************)
(* Proofs about ServiceRuntime, for any requests, any kinds of checks, and *)
(* any number of checks that overlap and of signals.                       *)
(***************************************************************************)
EXTENDS ServiceRuntime, SequenceTheorems, TLAPS

-----------------------------------------------------------------------------
(***************************************************************************)
(* The inductive invariant.                                                *)
(***************************************************************************)
(***************************************************************************)
(* Where main and the signal handler are decides what is running, open and *)
(* locked.  After its guard, Stop belongs to the handler alone, and each   *)
(* of its steps has left its mark when the next one comes.                 *)
(***************************************************************************)
Early == {"new", "infrastructure", "domain", "application", "start"}
Stopping == StopPCs \ {"stop"}
Drained == {"stop_scheduler", "stop_nodes", "close_bus", "close_store",
            "cancel", "wait_group"}

\* The handler has stopped the service.
Stopped == pc["handler"] = "done" /\ ~ store

Positions ==
    /\ pc["main"] \in Early =>
          pc["handler"] = "off" /\ mu = NoOne /\ worker["provision"] = "off"
    /\ pc["main"] \in Early \ {"start"} => worker["connect"] = "off"
    /\ pc["main"] \in Early \ {"new"} => store
    /\ pc["main"] \in {"scheduler", "api"} =>
          mu = "main" /\ pc["handler"] \in {"select", "stop"}
    /\ pc["main"] = "stop" => pc["handler"] \in {"select", "stop", "done"}
    /\ pc["main"] = "api" => sched.running
    /\ pc["main"] \in MainPCs \union {"stop"}
    /\ pc["main"] \notin {"wait", "exit"} => api = "off"

Shutdown ==
    /\ running => /\ pc["main"] \in {"wait", "exit"}
                  /\ sched.running \/ sched.cancelled
    /\ cancelled => pc["handler"] \in {"wait_group", "done"}
    /\ signals.closed => pc["handler"] \in Stopping \union {"done"}
    /\ pc["handler"] \in Stopping => running /\ mu = "handler"
    /\ pc["handler"] \in StopPCs \union {"off", "select", "done"}
    /\ pc["handler"] \in Stopping \ {"stop_api"} \/ Stopped => api = "stopped"
    /\ pc["handler"] \in Drained \/ Stopped => (Serving => undrained)
    /\ pc["handler"] \in Drained \ {"stop_scheduler"} \/ Stopped => sched.cancelled
    /\ pc["handler"] \notin {"off", "cancel", "wait_group", "done"} => store

(***************************************************************************)
(* The bus: who hears an event, in which order.                            *)
(***************************************************************************)
Heard(tracked, worked) ==
    IF ~ tracked THEN <<>> ELSE IF worked THEN <<"tracker", "worker">> ELSE <<"tracker">>

IsBus(b) ==
    b \in [closed: BOOLEAN, listeners: [Events -> Seq(Handlers)],
           subscribers: {b.subscribers}]

Listeners ==
    /\ IsBus(bus)
    /\ bus.closed => \A e \in Events : bus.listeners[e] = <<>>
    /\ ~ bus.closed /\ pc["main"] # "exit" => \A s \in Stages :
          /\ bus.listeners[<<"connect", s>>] =
                Heard(pc["main"] \notin {"new", "infrastructure", "domain"},
                      s = "requested" /\ worker["connect"] = "on")
          /\ bus.listeners[<<"provision", s>>] =
                Heard(pc["main"] \notin Early \ {"start"},
                      s = "requested" /\ worker["provision"] # "off")

(***************************************************************************)
(* A request and its job: the tracker hears of a request before the worker *)
(* does, and of a job's outcome before the job is done.                    *)
(***************************************************************************)
Known(r) == KindOf[r] = "connect" => conns[r] # "absent"

Outcome(r) ==
    IF KindOf[r] = "connect" THEN conns[r] = go[<<"job", r>>].stage
    ELSE nodes[NodeOf(r)] = go[<<"job", r>>].stage

RequestInv(r) ==
    LET a == go[<<"api", r>>] IN
    /\ a.stage = "requested" /\ a.pc # "work"
    /\ a.pc = "firing" => \/ a.left \in {<<"tracker">>, <<"tracker", "worker">>}
                          \/ a.left = <<"worker">> /\ Known(r)
    /\ a.pc = "done" /\ a.ok => bus.closed \/ Known(r)
    /\ a.pc # "none" => pc["main"] \in {"wait", "exit"}

JobInv(r) ==
    LET j == go[<<"job", r>>] IN
    /\ j.pc # "none" => /\ go[<<"api", r>>].pc = "done" /\ Known(r)
                        /\ j.stage # "requested"
    /\ j.pc = "firing" => j.left = <<"tracker">>
    /\ j.pc = "done" => bus.closed \/ Outcome(r)
    /\ nodes[NodeOf(r)] # "requested"

Inv ==
    /\ TypeOK
    /\ Positions
    /\ Shutdown
    /\ Listeners
    /\ \A r \in Requests : RequestInv(r) /\ JobInv(r)

-----------------------------------------------------------------------------
(***************************************************************************)
(* The bus as a value.                                                     *)
(***************************************************************************)
Appended(b, e, h) == [b.listeners EXCEPT ![e] = Append(@, h)]

\* Subscribe puts the listener last, and does nothing on a closed bus.
LEMMA SubscribeAppends ==
  ASSUME NEW b, IsBus(b), NEW e \in Events, NEW h \in Handlers
  PROVE  /\ IsBus(Subscribe(b, e, h))
         /\ Subscribe(b, e, h).closed = b.closed
         /\ Subscribe(b, e, h).listeners = IF b.closed THEN b.listeners
                                           ELSE Appended(b, e, h)
  <1>1. CASE b.closed
    BY <1>1 DEF Subscribe
  <1>2. CASE ~ b.closed
    <2> DEFINE ss == [b.subscribers EXCEPT ![e] = Append(@, h)]
    <2>1. Appended(b, e, h) \in [Events -> Seq(Handlers)]
      <3>1. b.listeners \in [Events -> Seq(Handlers)]
        BY DEF IsBus
      <3>2. Append(b.listeners[e], h) \in Seq(Handlers)
        BY <3>1
      <3> QED BY <3>1, <3>2 DEF Appended
    <2>2. Subscribe(b, e, h)
            = [b EXCEPT !.listeners = Appended(b, e, h), !.subscribers = ss]
      BY <1>2 DEF Subscribe, Appended, IsBus
    <2> HIDE DEF ss
    <2>3. /\ Subscribe(b, e, h).closed = b.closed
          /\ Subscribe(b, e, h).listeners = Appended(b, e, h)
          /\ Subscribe(b, e, h).subscribers = ss
          /\ Subscribe(b, e, h)
               \in [closed: BOOLEAN, listeners: [Events -> Seq(Handlers)], subscribers: {ss}]
      BY <2>1, <2>2 DEF IsBus
    <2> QED BY <1>2, <2>3 DEF IsBus
  <1> QED BY <1>1, <1>2

\* Unsubscribe changes what the bus reports, and not who hears an event.
LEMMA UnsubscribeLeavesListeners ==
  ASSUME NEW b, IsBus(b), NEW e \in Events, NEW h \in Handlers
  PROVE  LET c == Unsubscribe(b, e, h)
         IN  IsBus(c) /\ c.closed = b.closed /\ c.listeners = b.listeners
  BY DEF Unsubscribe, IsBus

\* A new bus is open and a closed one is not; neither has listeners.
LEMMA EmptyBuses ==
  /\ IsBus(NewGookitEventBus) /\ ~ NewGookitEventBus.closed
  /\ \A e \in Events : NewGookitEventBus.listeners[e] = <<>>
  /\ \A b : /\ IsBus(Close(b)) /\ Close(b).closed = TRUE
            /\ \A e \in Events : Close(b).listeners[e] = <<>>
  <1> DEFINE none == [e \in Events |-> <<>>]
  <1>1. none \in [Events -> Seq(Handlers)] /\ \A e \in Events : none[e] = <<>>
    OBVIOUS
  <1>2. NewGookitEventBus = [closed |-> FALSE, listeners |-> none, subscribers |-> none]
    BY DEF NewGookitEventBus
  <1> HIDE DEF none
  <1>3. /\ NewGookitEventBus.closed = FALSE
        /\ NewGookitEventBus.listeners = none
        /\ IsBus(NewGookitEventBus)
    BY <1>1, <1>2 DEF IsBus
  <1>4. ASSUME NEW b
        PROVE  /\ Close(b).closed = TRUE
               /\ Close(b).listeners = none
               /\ IsBus(Close(b))
    BY <1>1, <1>3 DEF Close, IsBus
  <1> QED BY <1>1, <1>3, <1>4

\* A tracker that subscribes to an open bus becomes the last listener of the
\* four events of its kind; on a closed one nothing happens.
LEMMA TrackersSubscribe ==
  ASSUME NEW b, IsBus(b), NEW kind \in Kinds
  PROVE  LET c == SubscribeToEvents(b, kind)
         IN  /\ IsBus(c)
             /\ c.closed = b.closed
             /\ b.closed => c.listeners = b.listeners
             /\ ~ b.closed => \A e \in Events :
                  c.listeners[e] = IF e[1] = kind THEN Append(b.listeners[e], "tracker")
                                   ELSE b.listeners[e]
  <1> DEFINE L(d, e) == Appended(d, e, "tracker")
             On(d, s) == Subscribe(d, <<kind, s>>, "tracker")
  <1>0. ASSUME NEW d, IsBus(d), NEW s \in Stages
        PROVE  /\ IsBus(On(d, s)) /\ On(d, s).closed = d.closed
               /\ On(d, s).listeners = IF d.closed THEN d.listeners ELSE L(d, <<kind, s>>)
    <2>1. "tracker" \in Handlers /\ <<kind, s>> \in Events
      BY DEF Handlers, Events
    <2> QED BY <1>0, <2>1, SubscribeAppends
  <1> HIDE DEF On, L
  <1>1. PICK c1 : c1 = On(b, "requested")
    OBVIOUS
  <1>2. PICK c2 : c2 = On(c1, "progress")
    OBVIOUS
  <1>3. PICK c3 : c3 = On(c2, "completed")
    OBVIOUS
  <1>4. PICK c4 : c4 = On(c3, "failed")
    OBVIOUS
  <1>5. SubscribeToEvents(b, kind) = c4
    BY <1>1, <1>2, <1>3, <1>4 DEF SubscribeToEvents, On
  <1>a. /\ IsBus(c1) /\ c1.closed = b.closed
        /\ c1.listeners = IF b.closed THEN b.listeners ELSE L(b, <<kind, "requested">>)
    BY <1>0, <1>1 DEF Stages
  <1>b. /\ IsBus(c2) /\ c2.closed = c1.closed
        /\ c2.listeners = IF c1.closed THEN c1.listeners ELSE L(c1, <<kind, "progress">>)
    BY <1>0, <1>2, <1>a DEF Stages
  <1>c. /\ IsBus(c3) /\ c3.closed = c2.closed
        /\ c3.listeners = IF c2.closed THEN c2.listeners ELSE L(c2, <<kind, "completed">>)
    BY <1>0, <1>3, <1>b DEF Stages
  <1>d. /\ IsBus(c4) /\ c4.closed = c3.closed
        /\ c4.listeners = IF c3.closed THEN c3.listeners ELSE L(c3, <<kind, "failed">>)
    BY <1>0, <1>4, <1>c DEF Stages
  <1>6. ASSUME ~ b.closed, NEW e \in Events
        PROVE  c4.listeners[e] = IF e[1] = kind THEN Append(b.listeners[e], "tracker")
                                 ELSE b.listeners[e]
    <2>1. PICK k \in Kinds, s \in Stages : e = <<k, s>>
      BY DEF Events
    <2>2. \A t \in Stages : (<<kind, t>> = e) <=> (k = kind /\ t = s)
      BY <2>1
    <2>3. \A d, t : IsBus(d) => L(d, t)[e] = IF t = e THEN Append(d.listeners[e], "tracker")
                                             ELSE d.listeners[e]
      BY DEF IsBus, L, Appended
    <2>4. s \in {"requested", "progress", "completed", "failed"}
      BY DEF Stages
    <2>5. /\ c1.listeners = L(b, <<kind, "requested">>)
          /\ c2.listeners = L(c1, <<kind, "progress">>)
          /\ c3.listeners = L(c2, <<kind, "completed">>)
          /\ c4.listeners = L(c3, <<kind, "failed">>)
      BY <1>a, <1>b, <1>c, <1>d, <1>6
    <2> QED BY <1>a, <1>b, <1>c, <2>1, <2>2, <2>3, <2>4, <2>5 DEF Stages
  <1> QED BY <1>a, <1>b, <1>c, <1>d, <1>5, <1>6

-----------------------------------------------------------------------------
(***************************************************************************)
(* Goroutines that publish.                                                *)
(***************************************************************************)
\* What is left of a list of listeners, and every list that Fire returns.
Lefts == {<<>>, <<"tracker">>, <<"worker">>, <<"tracker", "worker">>}

\* They are sequences of handlers, no longer than the bus has handlers.
LEMMA LeftsAreLeft == Lefts \subseteq UNION {[1..n -> Handlers] : n \in 0..2}
  <1>1. /\ <<>> \in [1..0 -> Handlers]
        /\ <<"tracker">> \in [1..1 -> Handlers]
        /\ <<"worker">> \in [1..1 -> Handlers]
        /\ <<"tracker", "worker">> \in [1..2 -> Handlers]
    BY DEF Handlers
  <1>2. 0 \in 0..2 /\ 1 \in 0..2 /\ 2 \in 0..2
    OBVIOUS
  <1> QED BY <1>1, <1>2 DEF Lefts

\* Where a publisher is after Publish returned with ok.
LEMMA PublishedMoves ==
  ASSUME NEW g \in [Routines -> Routine], NEW x \in Routines, NEW ok \in BOOLEAN
  PROVE  LET f == Published(x, ok, g)
         IN  /\ f \in [Routines -> Routine]
             /\ \A y \in Routines \ {x} : f[y] = g[y]
             /\ f[x].stage = g[x].stage /\ f[x].left = <<>>
             /\ IF x[1] = "api" \/ g[x].stage # "progress"
                THEN f[x].pc = "done" /\ f[x].ok = ok
                ELSE f[x].pc = "work"
  <1> DEFINE ended == [g[x] EXCEPT !.pc = "done", !.ok = ok, !.left = <<>>]
             works == [g[x] EXCEPT !.pc = "work", !.left = <<>>]
  <1>1. <<>> \in UNION {[1..n -> Handlers] : n \in 0..2}
    BY LeftsAreLeft DEF Lefts
  <1>2. /\ ended \in Routine /\ ended.pc = "done" /\ ended.ok = ok
        /\ ended.left = <<>> /\ ended.stage = g[x].stage
    BY <1>1 DEF Routine
  <1>3. /\ works \in Routine /\ works.pc = "work"
        /\ works.left = <<>> /\ works.stage = g[x].stage
    BY <1>1 DEF Routine
  <1>4. Published(x, ok, g) = IF x[1] = "api" \/ g[x].stage # "progress"
                              THEN [g EXCEPT ![x] = ended] ELSE [g EXCEPT ![x] = works]
    BY DEF Published
  <1> HIDE DEF ended, works
  <1> QED BY <1>2, <1>3, <1>4

\* The lists that leave a publisher something to do.
Calls == {<<"tracker">>, <<"worker">>, <<"tracker", "worker">>}

\* A publisher that has another listener to call calls it next.
LEMMA FiringMoves ==
  ASSUME NEW g \in [Routines -> Routine], NEW x \in Routines, NEW left \in Calls
  PROVE  LET f == Listening(x, g, left)
         IN  /\ f \in [Routines -> Routine]
             /\ \A y \in Routines \ {x} : f[y] = g[y]
             /\ f[x].stage = g[x].stage /\ f[x].left = left
             /\ f[x].pc = "firing"
  <1> DEFINE fires == [g[x] EXCEPT !.pc = "firing", !.left = left]
  <1>1. left # <<>> /\ left \in UNION {[1..n -> Handlers] : n \in 0..2}
    BY LeftsAreLeft DEF Lefts, Calls
  <1>2. /\ fires \in Routine /\ fires.pc = "firing"
        /\ fires.left = left /\ fires.stage = g[x].stage
    BY <1>1 DEF Routine
  <1>3. Listening(x, g, left) = [g EXCEPT ![x] = fires]
    BY <1>1 DEF Listening
  <1> HIDE DEF fires
  <1> QED BY <1>2, <1>3

\* Without another listener it is done with its event.
LEMMA FiringEnds ==
  ASSUME NEW g, NEW x
  PROVE  Listening(x, g, <<>>) = Published(x, TRUE, g)
  BY DEF Listening

-----------------------------------------------------------------------------
(***************************************************************************)
(* Requests and their jobs.                                                *)
(***************************************************************************)
\* What a step of a goroutine keeps.
Kept ==
  /\ go' \in [Routines -> Routine]
  /\ conns' \in [Ids -> CT!Entry] /\ nodes' \in [Ids -> PT!Entry]
  /\ \A r \in Requests : RequestInv(r)' /\ JobInv(r)'
  /\ Serving' => Serving

\* A request's id, and the id of its node, belong to no other request.
LEMMA IdsApart ==
  ASSUME NEW r \in Requests
  PROVE  /\ r \in Ids /\ NodeOf(r) \in Ids /\ NoId \in Ids
         /\ NodeOf(r) # NoId
         /\ \A q \in Requests : NodeOf(r) # q /\ (NodeOf(r) = NodeOf(q) => r = q)
         /\ <<"api", r>> \in Routines /\ <<"job", r>> \in Routines
         /\ <<"api", r>>[1] = "api" /\ <<"job", r>>[1] = "job"
         /\ <<"api", r>>[2] = r /\ <<"job", r>>[2] = r
  BY RuntimeAssumption DEF Ids, NodeOf, Routines

\* A step on behalf of one request leaves the others where they are.
LEMMA OthersAreKept ==
  ASSUME Inv, NEW r \in Requests, pc' = pc, bus' = bus,
         go' \in [Routines -> Routine],
         conns' \in [Ids -> CT!Entry], nodes' \in [Ids -> PT!Entry],
         \A q \in Requests \ {r} :
            /\ go'[<<"api", q>>] = go[<<"api", q>>]
            /\ go'[<<"job", q>>] = go[<<"job", q>>]
            /\ conns'[q] = conns[q] /\ nodes'[NodeOf(q)] = nodes[NodeOf(q)],
         RequestInv(r)', JobInv(r)',
         go'[<<"api", r>>].pc \in {"none", "done"}
            \/ go[<<"api", r>>].pc \notin {"none", "done"}
  PROVE  Kept
  <1>1. ASSUME NEW q \in Requests, q # r
        PROVE  RequestInv(q)' /\ JobInv(q)'
    <2>1. RequestInv(q) /\ JobInv(q) /\ q \in Requests \ {r}
      BY <1>1 DEF Inv
    <2> QED BY <2>1 DEF RequestInv, JobInv, Known, Outcome
  <1>2. Serving' => Serving
    <2> SUFFICES ASSUME NEW q \in Requests, go'[<<"api", q>>].pc \notin {"none", "done"}
                 PROVE  go[<<"api", q>>].pc \notin {"none", "done"}
      BY DEF Serving
    <2>1. CASE q = r
      BY <2>1
    <2>2. CASE q # r
      BY <2>2
    <2> QED BY <2>1, <2>2
  <1> QED BY <1>1, <1>2 DEF Kept

\* A step of a goroutine that leaves the trackers alone and moves nobody
\* else: it need only keep what is said of its own request.
LEMMA OneIsKept ==
  ASSUME Inv, NEW p \in {"api", "job"}, NEW r \in Requests, pc' = pc, bus' = bus,
         conns' = conns, nodes' = nodes,
         go' \in [Routines -> Routine],
         \A y \in Routines \ {<<p, r>>} : go'[y] = go[y],
         go[<<p, r>>].pc \notin {"none", "done"},
         p = "api" => RequestInv(r)',
         p = "job" => JobInv(r)'
  PROVE  Kept
  <1>1. /\ RequestInv(r) /\ JobInv(r)
        /\ conns \in [Ids -> CT!Entry] /\ nodes \in [Ids -> PT!Entry]
    BY DEF Inv, TypeOK
  <1>2. \A q \in Requests \ {r} :
            /\ go'[<<"api", q>>] = go[<<"api", q>>]
            /\ go'[<<"job", q>>] = go[<<"job", q>>]
            /\ conns'[q] = conns[q] /\ nodes'[NodeOf(q)] = nodes[NodeOf(q)]
    BY IdsApart
  <1>3. CASE p = "api"
    <2>1. go'[<<"job", r>>] = go[<<"job", r>>] /\ go[<<"job", r>>].pc = "none"
      BY <1>1, <1>3, IdsApart DEF JobInv
    <2>2. JobInv(r)'
      BY <1>1, <2>1 DEF JobInv
    <2> QED BY <1>1, <1>2, <1>3, <2>2, OthersAreKept
  <1>4. CASE p = "job"
    <2>1. go'[<<"api", r>>] = go[<<"api", r>>] /\ go[<<"api", r>>].pc = "done"
      BY <1>1, <1>4, IdsApart DEF JobInv
    <2>2. RequestInv(r)'
      BY <1>1, <2>1 DEF RequestInv, Known
    <2> QED BY <1>1, <1>2, <1>4, <2>1, <2>2, OthersAreKept
  <1> QED BY <1>3, <1>4

\* Publish keeps the requests: on a closed bus it tells its caller.
LEMMA PublishKeeps ==
  ASSUME Inv, NEW p \in {"api", "job"}, NEW r \in Requests, Publish(<<p, r>>)
  PROVE  Kept
  <1> DEFINE x == <<p, r>>
  <1>1. /\ x \in Routines /\ go \in [Routines -> Routine]
        /\ RequestInv(r) /\ JobInv(r) /\ bus.closed \in BOOLEAN
        /\ x[1] = p /\ go[x].pc = "ready"
        /\ pc' = pc /\ bus' = bus /\ conns' = conns /\ nodes' = nodes
    BY DEF Inv, TypeOK, Publish, process, trackers, Routines
  <1>2. CASE bus.closed
    <2>1. go' = Published(x, FALSE, go)
      BY <1>2 DEF Publish
    <2>2. /\ go' \in [Routines -> Routine]
          /\ \A y \in Routines \ {x} : go'[y] = go[y]
          /\ go'[x].stage = go[x].stage
          /\ IF p = "api" \/ go[x].stage # "progress"
             THEN go'[x].pc = "done" /\ go'[x].ok = FALSE
             ELSE go'[x].pc = "work"
      BY <1>1, <2>1, PublishedMoves
    <2>3. p = "api" => RequestInv(r)'
      BY <1>1, <2>2 DEF RequestInv
    <2>4. p = "job" => JobInv(r)'
      BY <1>1, <1>2, <2>2, IdsApart DEF JobInv, Known
    <2> QED BY <1>1, <2>2, <2>3, <2>4, OneIsKept
  <1>3. CASE ~ bus.closed
    <2> DEFINE q == [go[x] EXCEPT !.pc = "checked"]
    <2>1. q \in Routine /\ q.pc = "checked" /\ q.stage = go[x].stage
      BY <1>1 DEF Routine
    <2>2. go' = [go EXCEPT ![x] = q]
      BY <1>3 DEF Publish
    <2> HIDE DEF q
    <2>3. /\ go' \in [Routines -> Routine]
          /\ \A y \in Routines \ {x} : go'[y] = go[y]
          /\ go'[x].pc = "checked" /\ go'[x].stage = go[x].stage
      BY <1>1, <2>1, <2>2
    <2>4. p = "api" => RequestInv(r)'
      BY <1>1, <2>3 DEF RequestInv
    <2>5. p = "job" => JobInv(r)'
      BY <1>1, <2>3, IdsApart DEF JobInv, Known
    <2> QED BY <1>1, <2>3, <2>4, <2>5, OneIsKept
  <1> QED BY <1>1, <1>2, <1>3

\* Who hears an event that a request or a job publishes: the tracker, and
\* of a request the worker after it; nobody once the bus is closed.
LEMMA WhoHears ==
  ASSUME Inv, Alive, NEW p \in {"api", "job"}, NEW r \in Requests,
         go[<<p, r>>].pc # "none"
  PROVE  LET left == Fire(bus, Event(<<p, r>>))
         IN  /\ bus.closed => left = <<>>
             /\ ~ bus.closed => left \in {<<"tracker">>, <<"tracker", "worker">>}
             /\ ~ bus.closed /\ p = "job" => left = <<"tracker">>
  <1> DEFINE x == <<p, r>>
             s == go[x].stage
  <1>1. /\ RequestInv(r) /\ JobInv(r) /\ x \in Routines /\ go[x] \in Routine
        /\ KindOf[r] \in Kinds /\ x[2] = r
    BY RuntimeAssumption DEF Inv, TypeOK, Routines
  <1>2. s \in Stages /\ (p = "job" => s # "requested")
    BY <1>1 DEF Routine, JobInv
  <1>3. Event(x) \in Events /\ Event(x) = <<KindOf[r], s>>
    BY <1>1, <1>2 DEF Event, Events
  <1>4. pc["main"] = "wait"
    BY <1>1 DEF RequestInv, JobInv, Alive
  <1> HIDE DEF x, s
  <1>5. CASE bus.closed
    BY <1>3, <1>5 DEF Fire, Inv, Listeners, x
  <1>6. CASE ~ bus.closed
    <2>1. PICK worked \in BOOLEAN :
            bus.listeners[Event(x)] = Heard(TRUE, s = "requested" /\ worked)
      <3>1. /\ bus.listeners[<<"connect", s>>]
                  = Heard(TRUE, s = "requested" /\ (worker["connect"] = "on"))
            /\ bus.listeners[<<"provision", s>>]
                  = Heard(TRUE, s = "requested" /\ (worker["provision"] # "off"))
        BY <1>2, <1>4, <1>6 DEF Inv, Listeners, Early
      <3>2. KindOf[r] = "connect" \/ KindOf[r] = "provision"
        BY <1>1 DEF Kinds
      <3> QED BY <1>3, <3>1, <3>2
    <2> QED BY <1>2, <1>6, <2>1 DEF Fire, Heard, x
  <1> QED BY <1>5, <1>6 DEF x

\* Firing an event keeps the requests.
LEMMA FireKeeps ==
  ASSUME Inv, NEW p \in {"api", "job"}, NEW r \in Requests, FireEvent(<<p, r>>)
  PROVE  Kept
  <1>0. PICK x \in Routines : x = <<p, r>> /\ x[1] = p /\ x[2] = r
    BY DEF Routines
  <1>1. /\ go \in [Routines -> Routine]
        /\ RequestInv(r) /\ JobInv(r) /\ bus.closed \in BOOLEAN
        /\ go[x].pc = "checked" /\ Alive
        /\ pc' = pc /\ bus' = bus /\ conns' = conns /\ nodes' = nodes
    BY <1>0 DEF Inv, TypeOK, FireEvent, process, trackers, Routines
  <1>g. go \in [Routines -> Routine]
    BY <1>1
  <1>2. CASE bus.closed
    <2>1. Fire(bus, Event(x)) = <<>>
      BY <1>0, <1>1, <1>2, WhoHears
    <2>2. go' = Published(x, TRUE, go)
      BY <1>0, <2>1, FiringEnds DEF FireEvent
    <2>3. /\ go' \in [Routines -> Routine]
          /\ \A y \in Routines \ {x} : go'[y] = go[y]
          /\ go'[x].stage = go[x].stage
          /\ IF p = "api" \/ go[x].stage # "progress"
             THEN go'[x].pc = "done" /\ go'[x].ok = TRUE
             ELSE go'[x].pc = "work"
      BY <1>0, <1>1, <2>2, PublishedMoves, ZenonT(40)
    <2>4. p = "api" => RequestInv(r)'
      BY <1>0, <1>1, <1>2, <2>3 DEF RequestInv
    <2>5. p = "job" => JobInv(r)'
      BY <1>0, <1>1, <1>2, <2>3, IdsApart DEF JobInv, Known
    <2> QED BY <1>0, <1>1, <2>3, <2>4, <2>5, OneIsKept
  <1>3. CASE ~ bus.closed
    <2>1. PICK left \in Calls : /\ left = Fire(bus, Event(x))
                                /\ left \in {<<"tracker">>, <<"tracker", "worker">>}
                                /\ p = "job" => left = <<"tracker">>
      BY <1>0, <1>1, <1>3, WhoHears DEF Calls
    <2>2. go' = Listening(x, go, left)
      BY <1>0, <2>1 DEF FireEvent
    <2>3. /\ go' \in [Routines -> Routine]
          /\ \A y \in Routines \ {x} : go'[y] = go[y]
          /\ go'[x].stage = go[x].stage /\ go'[x].left = left
          /\ go'[x].pc = "firing"
      <3>1. go' \in [Routines -> Routine] /\ \A y \in Routines \ {x} : go'[y] = go[y]
        BY <1>g, <2>2, FiringMoves
      <3>2. go'[x].stage = go[x].stage /\ go'[x].left = left
        BY <1>g, <2>2, FiringMoves
      <3>3. go'[x].pc = "firing"
        BY <1>g, <2>2, FiringMoves
      <3> QED BY <3>1, <3>2, <3>3
    <2>4. p = "api" => RequestInv(r)'
      BY <1>0, <1>1, <2>1, <2>3 DEF RequestInv
    <2>5. p = "job" => JobInv(r)'
      BY <1>0, <1>1, <2>1, <2>3, IdsApart DEF JobInv, Known
    <2> QED BY <1>0, <1>1, <2>3, <2>4, <2>5, OneIsKept
  <1> QED BY <1>0, <1>1, <1>2, <1>3

\* The work of a job ends with one of the two outcomes, to be published.
LEMMA WorkKeeps ==
  ASSUME Inv, NEW p \in {"api", "job"}, NEW r \in Requests, Work(<<p, r>>)
  PROVE  Kept
  <1> DEFINE x == <<p, r>>
  <1>1. /\ x \in Routines /\ go \in [Routines -> Routine]
        /\ RequestInv(r) /\ JobInv(r) /\ go[x].pc = "work"
        /\ pc' = pc /\ bus' = bus /\ conns' = conns /\ nodes' = nodes
    BY DEF Inv, TypeOK, Work, process, trackers, Routines
  <1>2. p = "job"
    BY <1>1 DEF RequestInv
  <1>3. PICK s \in {"completed", "failed"} :
          go' = [go EXCEPT ![x].pc = "ready", ![x].stage = s]
    BY DEF Work
  <1> DEFINE q == [go[x] EXCEPT !.pc = "ready", !.stage = s]
  <1>4. q \in Routine /\ q.pc = "ready" /\ q.stage = s
    BY <1>1 DEF Routine, Stages
  <1>5. go' = [go EXCEPT ![x] = q]
    BY <1>3
  <1> HIDE DEF q
  <1>6. /\ go' \in [Routines -> Routine]
        /\ \A y \in Routines \ {x} : go'[y] = go[y]
        /\ go'[x].pc = "ready" /\ go'[x].stage = s
    BY <1>1, <1>4, <1>5
  <1>7. JobInv(r)'
    BY <1>1, <1>2, <1>6, IdsApart DEF JobInv, Known
  <1> QED BY <1>1, <1>2, <1>6, <1>7, OneIsKept

\* The worker is called for a request whose tracker has heard of it, and
\* starts its job only then.
LEMMA WorkerKeeps ==
  ASSUME Inv, NEW p \in {"api", "job"}, NEW r \in Requests, CallWorker(<<p, r>>)
  PROVE  Kept
  <1>0. PICK x \in Routines : x = <<p, r>> /\ x[1] = p /\ x[2] = r
    BY DEF Routines
  <1>j. PICK j \in Routines : j = <<"job", r>>
    BY IdsApart
  <1>1. /\ go \in [Routines -> Routine]
        /\ RequestInv(r) /\ JobInv(r)
        /\ go[x].pc = "firing" /\ Head(go[x].left) = "worker"
        /\ conns \in [Ids -> CT!Entry] /\ nodes \in [Ids -> PT!Entry]
        /\ pc' = pc /\ bus' = bus /\ conns' = conns /\ nodes' = nodes
    BY <1>0 DEF Inv, TypeOK, CallWorker, process, trackers, Routines
  <1>2. p = "api"
    BY <1>0, <1>1 DEF JobInv
  <1>3. go[x].left = <<"worker">> /\ Known(r)
    BY <1>0, <1>1, <1>2 DEF RequestInv
  <1>4. Tail(go[x].left) = <<>>
    BY <1>3
  <1>5. PICK g : (g = go \/ g = [go EXCEPT ![j] = Spawned]) /\ go' = Published(x, TRUE, g)
    BY <1>0, <1>j, <1>1, <1>4, FiringEnds DEF CallWorker
  <1>6. Spawned \in Routine /\ Spawned.pc = "ready" /\ Spawned.stage = "progress"
    <2>1. <<>> \in UNION {[1..n -> Handlers] : n \in 0..2}
      BY LeftsAreLeft DEF Lefts
    <2> QED BY <2>1 DEF Spawned, NoRoutine, Routine, Stages
  <1>7. /\ g \in [Routines -> Routine] /\ g[x] = go[x]
        /\ \A y \in Routines \ {j} : g[y] = go[y]
        /\ g[j] \in {go[j], Spawned}
    BY <1>0, <1>j, <1>1, <1>2, <1>5, <1>6, IdsApart
  <1>8. /\ go' \in [Routines -> Routine]
        /\ \A y \in Routines \ {x} : go'[y] = g[y]
        /\ go'[x].stage = go[x].stage
        /\ go'[x].pc = "done"
    <2>0. g \in [Routines -> Routine] /\ g[x] = go[x] /\ go' = Published(x, TRUE, g)
      BY <1>5, <1>7
    <2>1. go' \in [Routines -> Routine] /\ \A y \in Routines \ {x} : go'[y] = g[y]
      BY <2>0, PublishedMoves
    <2>2. Published(x, TRUE, g)[x].stage = g[x].stage
      BY <2>0, PublishedMoves
    <2>3. go'[x].pc = "done"
      BY <1>0, <1>2, <2>0, PublishedMoves
    <2> QED BY <2>0, <2>1, <2>2, <2>3
  <1>9. \A q \in Requests \ {r} : go'[<<"api", q>>] = go[<<"api", q>>]
                                  /\ go'[<<"job", q>>] = go[<<"job", q>>]
    <2>1. \A y \in Routines \ {x, j} : go'[y] = go[y]
      BY <1>7, <1>8
    <2>2. \A q \in Requests \ {r} : <<"api", q>> \in Routines \ {x, j}
                                    /\ <<"job", q>> \in Routines \ {x, j}
      BY <1>0, <1>j, <1>2, IdsApart
    <2> QED BY <2>1, <2>2
  <1>10. RequestInv(r)'
    BY <1>0, <1>1, <1>2, <1>3, <1>8 DEF RequestInv, Known
  <1>11. JobInv(r)'
    <2>1. go'[j] = g[j] /\ go'[<<"api", r>>].pc = "done"
      BY <1>0, <1>j, <1>1, <1>2, <1>8, IdsApart
    <2>2. go[j].pc = "none"
      BY <1>0, <1>j, <1>1, <1>2 DEF JobInv
    <2> QED BY <1>0, <1>j, <1>1, <1>3, <1>6, <1>7, <2>1, <2>2 DEF JobInv, Known
  <1> QED BY <1>0, <1>1, <1>2, <1>8, <1>9, <1>10, <1>11, OthersAreKept

\* Publishers and handlers agree on the key: a connection is filed under
\* its request, a provisioning under its request first and its node then.
LEMMA WhichId ==
  ASSUME NEW x \in Routines, go[x].stage \in Stages
  PROVE  /\ KindOf[x[2]] = "connect" => IdIn(x) = x[2]
         /\ KindOf[x[2]] = "provision" =>
              IdIn(x) = IF go[x].stage = "requested" THEN x[2] ELSE NodeOf(x[2])
  <1> DEFINE s == go[x].stage
             k == KindOf[x[2]]
  <1>1. Event(x)[1] = k /\ Event(x)[2] = s
    BY DEF Event
  <1>2. s \in {"requested", "progress", "completed", "failed"}
    BY DEF Stages
  <1>3. IdIn(x) = LET e == <<k, s>>
                  IN  IF KeyRead(e) \notin Metadata(e) THEN NoId
                      ELSE IF KeyRead(e) = "request_id" THEN x[2] ELSE NodeOf(x[2])
    BY DEF IdIn, Event
  <1> HIDE DEF s, k
  <1>4. ASSUME k = "connect"  PROVE IdIn(x) = x[2]
    <2>1. KeyRead(<<k, s>>) = "request_id"
      BY <1>4 DEF KeyRead
    <2>2. "request_id" \in Metadata(<<k, s>>)
      BY <1>2, <1>4 DEF Metadata, PeerMetadata, PublishPeerConnected
    <2> QED BY <1>3, <2>1, <2>2
  <1>5. ASSUME k = "provision"
        PROVE  IdIn(x) = IF s = "requested" THEN x[2] ELSE NodeOf(x[2])
    <2>1. KeyRead(<<k, s>>) = IF s = "requested" THEN "request_id" ELSE "node_id"
      BY <1>5 DEF KeyRead
    <2>2. KeyRead(<<k, s>>) \in Metadata(<<k, s>>)
      BY <1>2, <1>5, <2>1 DEF Metadata, ProvisioningMetadata
    <2> QED BY <1>3, <2>1, <2>2
  <1> QED BY <1>4, <1>5 DEF s, k

\* The connection tracker changes the entry of this connection and no other.
LEMMA ConnectionIsTracked ==
  ASSUME Inv, NEW x \in Routines, KindOf[x[2]] = "connect", go[x].stage \in Stages
  PROVE  /\ TrackConnect(x) \in [Ids -> CT!Entry]
         /\ \A q \in Requests \ {x[2]} : TrackConnect(x)[q] = conns[q]
         /\ TrackConnect(x)[x[2]] # "absent"
         /\ go[x].stage \in {"completed", "failed"} => TrackConnect(x)[x[2]] = go[x].stage
  <1>1. /\ IdIn(x) = x[2] /\ x[2] \in Ids /\ conns \in [Ids -> CT!Entry]
        /\ Requests \subseteq Ids
    BY WhichId DEF Inv, TypeOK, Ids, Routines
  <1>2. CASE go[x].stage = "requested"
    BY <1>1, <1>2 DEF TrackConnect, CT!handleConnectRequested, CT!Entry
  <1>3. CASE go[x].stage = "progress"
    BY <1>1, <1>3 DEF TrackConnect, CT!handleConnectProgress, CT!Entry
  <1>4. CASE go[x].stage = "completed"
    BY <1>1, <1>4 DEF TrackConnect, CT!handleConnected, CT!Entry
  <1>5. CASE go[x].stage = "failed"
    BY <1>1, <1>5 DEF TrackConnect, CT!handleConnectFailed, CT!Entry
  <1> QED BY <1>2, <1>3, <1>4, <1>5 DEF Stages

\* The provisioning tracker changes the entry of this node and of requests
\* that wait for theirs, which are no nodes.
LEMMA ProvisioningIsTracked ==
  ASSUME Inv, NEW x \in Routines, KindOf[x[2]] = "provision", go[x].stage \in Stages,
         NEW t \in TrackProvision(x)
  PROVE  /\ t \in [Ids -> PT!Entry]
         /\ \A q \in Requests \ {x[2]} : t[NodeOf(q)] = nodes[NodeOf(q)]
         /\ t[NodeOf(x[2])] # "requested"
         /\ go[x].stage = "requested" => t[NodeOf(x[2])] = nodes[NodeOf(x[2])]
         /\ go[x].stage \in {"completed", "failed"} => t[NodeOf(x[2])] = go[x].stage
  <1> DEFINE r == x[2]
             n == NodeOf(r)
  <1>1. /\ r \in Requests /\ r \in Ids /\ n \in Ids
        /\ nodes \in [Ids -> PT!Entry]
        /\ \A q \in Requests : NodeOf(q) # r /\ NodeOf(q) \in Ids
        /\ \A q \in Requests \ {r} : NodeOf(q) # n
        /\ \A q \in Requests : nodes[NodeOf(q)] # "requested"
    <2>1. r \in Requests
      BY DEF Routines
    <2>2. nodes \in [Ids -> PT!Entry] /\ \A q \in Requests : nodes[NodeOf(q)] # "requested"
      BY DEF Inv, TypeOK, JobInv
    <2> QED BY <2>1, <2>2, IdsApart, ZenonT(40)
  <1>2. IdIn(x) = IF go[x].stage = "requested" THEN r ELSE n
    BY WhichId
  <1> HIDE DEF n, r
  <1>3. CASE go[x].stage = "requested"
    <2>1. t = [nodes EXCEPT ![r] = "requested"]
      BY <1>2, <1>3 DEF TrackProvision, PT!handleProvisionRequested
    <2>2. t \in [Ids -> PT!Entry]
      BY <1>1, <2>1 DEF PT!Entry
    <2>3. \A q \in Requests : t[NodeOf(q)] = nodes[NodeOf(q)]
      BY <1>1, <2>1
    <2> QED BY <1>1, <1>3, <2>2, <2>3 DEF r
  <1>4. CASE go[x].stage = "progress"
    <2>1. t \in PT!handleProvisionProgress(nodes, n)
      BY <1>2, <1>4 DEF TrackProvision
    <2>2. t = [nodes EXCEPT ![n] = "running"]
          \/ \E k \in PT!Fresh(nodes) : t = [nodes EXCEPT ![n] = "running", ![k] = "absent"]
      BY <2>1 DEF PT!handleProvisionProgress
    <2>3. CASE t = [nodes EXCEPT ![n] = "running"]
      <3>1. t \in [Ids -> PT!Entry] /\ t[n] = "running" /\ "running" # "requested"
        BY <1>1, <2>3 DEF PT!Entry
      <3>2. \A q \in Requests \ {r} : t[NodeOf(q)] = nodes[NodeOf(q)]
        BY <1>1, <2>3
      <3> QED BY <1>4, <3>1, <3>2 DEF n, r
    <2>4. ASSUME NEW k \in PT!Fresh(nodes),
                 t = [nodes EXCEPT ![n] = "running", ![k] = "absent"]
          PROVE  /\ t \in [Ids -> PT!Entry] /\ t[n] = "running"
                 /\ \A q \in Requests \ {r} : t[NodeOf(q)] = nodes[NodeOf(q)]
      <3>1. k \in Ids /\ nodes[k] = "requested"
        BY <1>1 DEF PT!Fresh
      <3>2. k # n /\ \A q \in Requests : NodeOf(q) # k
        BY <1>1, <3>1 DEF n
      <3>3. t \in [Ids -> PT!Entry]
        BY <1>1, <2>4, <3>1 DEF PT!Entry
      <3>4. t[n] = "running"
        BY <1>1, <2>4, <3>1, <3>2
      <3>5. \A q \in Requests \ {r} : t[NodeOf(q)] = nodes[NodeOf(q)]
        BY <1>1, <2>4, <3>1, <3>2
      <3> QED BY <3>3, <3>4, <3>5
    <2>5. ASSUME NEW k \in PT!Fresh(nodes),
                 t = [nodes EXCEPT ![n] = "running", ![k] = "absent"]
          PROVE  /\ t \in [Ids -> PT!Entry] /\ t[NodeOf(x[2])] = "running"
                 /\ \A q \in Requests \ {x[2]} : t[NodeOf(q)] = nodes[NodeOf(q)]
      BY <2>4, <2>5 DEF n, r
    <2> QED BY <1>4, <2>2, <2>3, <2>5
  <1>5. CASE go[x].stage \in {"completed", "failed"}
    <2>1. t = [nodes EXCEPT ![n] = go[x].stage]
      BY <1>2, <1>5 DEF TrackProvision, PT!handleProvisionCompleted, PT!handleProvisionFailed
    <2>2. t \in [Ids -> PT!Entry] /\ t[n] = go[x].stage
      BY <1>1, <1>5, <2>1 DEF PT!Entry
    <2>3. \A q \in Requests \ {r} : t[NodeOf(q)] = nodes[NodeOf(q)]
      BY <1>1, <2>1
    <2> QED BY <1>5, <2>2, <2>3 DEF n, r
  <1> QED BY <1>3, <1>4, <1>5 DEF Stages

\* After the tracker, an API request's event goes to the worker if there is
\* one; a job goes on, or is done with its outcome.
LEMMA AfterTheTracker ==
  ASSUME Inv, NEW p \in {"api", "job"}, NEW r \in Requests, CallTracker(<<p, r>>)
  PROVE  LET x == <<p, r>>
         IN  /\ go' \in [Routines -> Routine]
             /\ \A y \in Routines \ {x} : go'[y] = go[y]
             /\ go'[x].stage = go[x].stage
             /\ \/ go'[x].pc = "done" /\ (p = "job" => go[x].stage \in {"completed", "failed"})
                \/ go'[x].pc = "work" /\ p = "job" /\ go[x].stage = "progress"
                \/ go'[x].pc = "firing" /\ p = "api" /\ go'[x].left = <<"worker">>
  <1>0. PICK x \in Routines : x = <<p, r>> /\ x[1] = p /\ x[2] = r
    BY DEF Routines
  <1>1. /\ go \in [Routines -> Routine]
        /\ RequestInv(r) /\ JobInv(r)
        /\ go[x].pc = "firing" /\ Head(go[x].left) = "tracker"
        /\ go' = Listening(x, go, Tail(go[x].left))
    BY <1>0 DEF Inv, TypeOK, CallTracker
  <1>2. /\ \/ go[x].left = <<"tracker">>
           \/ go[x].left = <<"tracker", "worker">> /\ p = "api"
        /\ p = "job" => go[x].stage \in {"progress", "completed", "failed"}
    <2>1. go[x].stage \in Stages
      BY <1>1 DEF Routine
    <2>2. CASE p = "api"
      BY <1>0, <1>1, <2>2 DEF RequestInv
    <2>3. CASE p = "job"
      <3>1. x = <<"job", r>>
        BY <1>0, <2>3
      <3>2. go[x].left = <<"tracker">> /\ go[x].stage # "requested"
        BY <1>1, <3>1 DEF JobInv
      <3>3. go[x].stage \in {"progress", "completed", "failed"}
        BY <2>1, <3>2 DEF Stages
      <3> QED BY <3>2, <3>3, Zenon
    <2> QED BY <2>2, <2>3
  <1>3. CASE go[x].left = <<"tracker">>
    <2>0. Tail(go[x].left) = <<>>
      BY <1>3
    <2>1. go' = Published(x, TRUE, go) /\ go \in [Routines -> Routine]
      BY <1>1, <2>0, FiringEnds
    <2>2. go' \in [Routines -> Routine] /\ \A y \in Routines \ {x} : go'[y] = go[y]
      BY <2>1, PublishedMoves
    <2>3. Published(x, TRUE, go)[x].stage = go[x].stage
      BY <2>1, PublishedMoves
    <2>4. IF p = "api" \/ go[x].stage # "progress"
          THEN go'[x].pc = "done" ELSE go'[x].pc = "work"
      BY <1>0, <2>1, PublishedMoves
    <2> QED BY <1>0, <1>2, <2>1, <2>2, <2>3, <2>4
  <1>4. CASE go[x].left = <<"tracker", "worker">> /\ p = "api"
    <2>1. go' = Listening(x, go, <<"worker">>) /\ go \in [Routines -> Routine]
      BY <1>1, <1>4
    <2>2. <<"worker">> \in Calls
      BY DEF Calls
    <2>3. go' \in [Routines -> Routine] /\ \A y \in Routines \ {x} : go'[y] = go[y]
      BY <2>1, <2>2, FiringMoves
    <2>4. /\ Listening(x, go, <<"worker">>)[x].stage = go[x].stage
          /\ Listening(x, go, <<"worker">>)[x].left = <<"worker">>
          /\ Listening(x, go, <<"worker">>)[x].pc = "firing"
      BY <2>1, <2>2, FiringMoves
    <2> QED BY <1>0, <1>4, <2>1, <2>3, <2>4
  <1> QED BY <1>2, <1>3, <1>4

\* Calling the tracker keeps the requests: it hears of a request before the
\* worker, and of an outcome before the job is done.
LEMMA TrackerKeeps ==
  ASSUME Inv, NEW p \in {"api", "job"}, NEW r \in Requests, CallTracker(<<p, r>>)
  PROVE  Kept
  <1>0. PICK x \in Routines : x = <<p, r>> /\ x[1] = p /\ x[2] = r
    BY DEF Routines
  <1>1. /\ RequestInv(r) /\ JobInv(r)
        /\ conns \in [Ids -> CT!Entry] /\ nodes \in [Ids -> PT!Entry]
        /\ go[x].pc = "firing" /\ go[x].stage \in Stages
        /\ KindOf[r] \in {"connect", "provision"}
        /\ pc' = pc /\ bus' = bus
        /\ IF KindOf[r] = "connect"
           THEN conns' = TrackConnect(x) /\ nodes' = nodes
           ELSE nodes' \in TrackProvision(x) /\ conns' = conns
    BY <1>0, RuntimeAssumption DEF Inv, TypeOK, CallTracker, process, Routine, Kinds
  <1>2. /\ go' \in [Routines -> Routine]
        /\ \A y \in Routines \ {x} : go'[y] = go[y]
        /\ go'[x].stage = go[x].stage
        /\ \/ go'[x].pc = "done" /\ (p = "job" => go[x].stage \in {"completed", "failed"})
           \/ go'[x].pc = "work" /\ p = "job" /\ go[x].stage = "progress"
           \/ go'[x].pc = "firing" /\ p = "api" /\ go'[x].left = <<"worker">>
    BY <1>0, AfterTheTracker
  <1>3. /\ conns' \in [Ids -> CT!Entry]
        /\ \A q \in Requests \ {r} : conns'[q] = conns[q]
        /\ KindOf[r] = "connect" =>
             /\ conns'[r] # "absent"
             /\ go[x].stage \in {"completed", "failed"} => conns'[r] = go[x].stage
    BY <1>0, <1>1, ConnectionIsTracked
  <1>4. /\ nodes' \in [Ids -> PT!Entry]
        /\ \A q \in Requests \ {r} : nodes'[NodeOf(q)] = nodes[NodeOf(q)]
        /\ nodes'[NodeOf(r)] # "requested"
        /\ KindOf[r] # "connect" /\ go[x].stage \in {"completed", "failed"} =>
             nodes'[NodeOf(r)] = go[x].stage
    <2>1. CASE KindOf[r] = "connect"
      BY <1>1, <2>1 DEF JobInv
    <2>2. CASE KindOf[r] = "provision"
      BY <1>0, <1>1, <2>2, ProvisioningIsTracked
    <2> QED BY <1>1, <2>1, <2>2
  <1>5. Known(r)'
    BY <1>3 DEF Known
  <1>6. \A q \in Requests \ {r} : go'[<<"api", q>>] = go[<<"api", q>>]
                                  /\ go'[<<"job", q>>] = go[<<"job", q>>]
    BY <1>0, <1>2, IdsApart
  <1>7. CASE p = "api"
    <2>1. go'[<<"job", r>>] = go[<<"job", r>>] /\ go[<<"job", r>>].pc = "none"
      BY <1>0, <1>1, <1>2, <1>7, IdsApart DEF JobInv
    <2>2. JobInv(r)'
      BY <1>4, <2>1 DEF JobInv
    <2>3. RequestInv(r)'
      BY <1>0, <1>1, <1>2, <1>5, <1>7 DEF RequestInv
    <2> QED BY <1>0, <1>1, <1>2, <1>3, <1>4, <1>6, <1>7, <2>2, <2>3, OthersAreKept
  <1>8. CASE p = "job"
    <2>1. go'[<<"api", r>>] = go[<<"api", r>>] /\ go[<<"api", r>>].pc = "done"
      BY <1>0, <1>1, <1>2, <1>8, IdsApart DEF JobInv
    <2>2. RequestInv(r)'
      BY <1>1, <1>5, <2>1 DEF RequestInv
    <2>3. go'[x].pc = "done" => Outcome(r)'
      BY <1>0, <1>1, <1>2, <1>3, <1>4, <1>8 DEF Outcome
    <2>4. JobInv(r)'
      BY <1>0, <1>1, <1>2, <1>4, <1>5, <1>8, <2>1, <2>3 DEF JobInv
    <2> QED BY <1>0, <1>1, <1>2, <1>3, <1>4, <1>6, <1>8, <2>1, <2>2, <2>4, OthersAreKept
  <1> QED BY <1>7, <1>8

\* Each step of a goroutine that publishes keeps the requests, and leaves
\* the process, its scheduler and its bus alone.
LEMMA RoutineKeeps ==
  ASSUME Inv, NEW x \in Routines, RoutineStep(x)
  PROVE  Kept /\ UNCHANGED <<process, shutdown, scheduler, api, store, bus, worker>>
  <1>0. PICK p \in {"api", "job"}, r \in Requests : x = <<p, r>>
    BY DEF Routines
  <1>1. CASE Publish(x)
    BY <1>0, <1>1, PublishKeeps DEF Publish
  <1>2. CASE FireEvent(x)
    BY <1>0, <1>2, FireKeeps DEF FireEvent
  <1>3. CASE CallTracker(x)
    BY <1>0, <1>3, TrackerKeeps DEF CallTracker
  <1>4. CASE CallWorker(x)
    BY <1>0, <1>4, WorkerKeeps DEF CallWorker
  <1>5. CASE Work(x)
    BY <1>0, <1>5, WorkKeeps DEF Work
  <1> QED BY <1>1, <1>2, <1>3, <1>4, <1>5 DEF RoutineStep

\* A request that arrives is one the service knows nothing of.
LEMMA ArriveKeeps ==
  ASSUME Inv, NEW r \in Requests, Arrive(r)
  PROVE  /\ go' \in [Routines -> Routine]
         /\ \A q \in Requests : RequestInv(q)' /\ JobInv(q)'
  <1> DEFINE x == <<"api", r>>
             n == [go[x] EXCEPT !.pc = "ready"]
  <1>1. /\ x \in Routines /\ go \in [Routines -> Routine] /\ go[x].pc = "none"
        /\ pc' = pc /\ bus' = bus /\ conns' = conns /\ nodes' = nodes
        /\ pc["main"] = "wait"
    BY IdsApart DEF Inv, TypeOK, Arrive, process, trackers, Positions, Alive
  <1>2. n \in Routine /\ n.pc = "ready" /\ n.stage = go[x].stage
    BY <1>1 DEF Routine
  <1>3. go' = [go EXCEPT ![x] = n]
    BY DEF Arrive
  <1> HIDE DEF n
  <1>4. /\ go' \in [Routines -> Routine]
        /\ \A y \in Routines \ {x} : go'[y] = go[y]
        /\ go'[x].pc = "ready" /\ go'[x].stage = go[x].stage
    BY <1>1, <1>2, <1>3
  <1>5. ASSUME NEW q \in Requests
        PROVE  RequestInv(q)' /\ JobInv(q)'
    <2>1. RequestInv(q) /\ JobInv(q) /\ go'[<<"job", q>>] = go[<<"job", q>>]
      BY <1>4, IdsApart DEF Inv
    <2>2. CASE q = r
      <3>1. RequestInv(q)'
        BY <1>1, <1>4, <2>1, <2>2 DEF RequestInv
      <3>2. JobInv(q)'
        BY <1>1, <2>1, <2>2 DEF JobInv
      <3> QED BY <3>1, <3>2
    <2>3. CASE q # r
      <3>1. go'[<<"api", q>>] = go[<<"api", q>>]
        BY <1>4, <2>3, IdsApart
      <3> QED BY <1>1, <2>1, <3>1 DEF RequestInv, JobInv, Known, Outcome
    <2> QED BY <2>2, <2>3
  <1> QED BY <1>4, <1>5

\* A step of main, of the handler or of the scheduler keeps the requests
\* when it leaves them alone, opens no closed bus and does not send main back.
LEMMA ControlKeepsRequests ==
  ASSUME Inv, UNCHANGED <<go, trackers>>, bus.closed => bus'.closed,
         pc["main"] \in {"wait", "exit"} => pc'["main"] \in {"wait", "exit"}
  PROVE  \A r \in Requests : RequestInv(r)' /\ JobInv(r)'
  BY DEF Inv, RequestInv, JobInv, Known, Outcome, trackers

-----------------------------------------------------------------------------
(***************************************************************************)
(* Types.                                                                  *)
(***************************************************************************)
\* TypeOK in the groups of variables that the actions leave alone.
ProcessTyped == /\ pc \in [{"main", "handler"} -> PCs]
                /\ mu \in {"main", "handler", NoOne}
                /\ running \in BOOLEAN /\ cancelled \in BOOLEAN
SignalsTyped ==
  signals \in [sent: 0..MaxSignals, notify: BOOLEAN, pending: BOOLEAN, closed: BOOLEAN]
ShutdownTyped == SignalsTyped /\ expired \in BOOLEAN /\ undrained \in BOOLEAN
SchedTyped == sched \in [running: BOOLEAN, cancelled: BOOLEAN, stopped: BOOLEAN,
                         loop: {"off", "on", "ended"}, ticks: SUBSET CheckKinds]
ChecksTyped == checks \in [CheckKinds -> 0..MaxChecks]
APITyped == api \in {"off", "listening", "failed", "stopped"}
WorkerTyped == worker \in [Kinds -> {"off", "spawned", "on", "stopped"}]
RequestsTyped == /\ go \in [Routines -> Routine]
                 /\ conns \in [Ids -> CT!Entry] /\ nodes \in [Ids -> PT!Entry]

\* The groups are TypeOK.
LEMMA TypeParts ==
  TypeOK <=> /\ ProcessTyped /\ ShutdownTyped /\ SchedTyped /\ ChecksTyped
             /\ APITyped /\ store \in BOOLEAN /\ bus.closed \in BOOLEAN
             /\ WorkerTyped /\ RequestsTyped
  BY DEF TypeOK, ProcessTyped, SignalsTyped, ShutdownTyped, SchedTyped, ChecksTyped,
         APITyped, WorkerTyped, RequestsTyped

\* The same of the next state.
LEMMA TypePartsNext ==
  ASSUME ProcessTyped', ShutdownTyped', SchedTyped', ChecksTyped', APITyped',
         store' \in BOOLEAN, bus'.closed \in BOOLEAN, WorkerTyped', RequestsTyped'
  PROVE  TypeOK'
  BY DEF TypeOK, ProcessTyped, SignalsTyped, ShutdownTyped, SchedTyped, ChecksTyped,
         APITyped, WorkerTyped, RequestsTyped

\* A group whose variables do not change keeps its types.
LEMMA UnchangedTyped ==
  ASSUME TypeOK
  PROVE  /\ UNCHANGED process => ProcessTyped'
         /\ UNCHANGED signals => SignalsTyped'
         /\ UNCHANGED shutdown => ShutdownTyped'
         /\ UNCHANGED sched => SchedTyped'
         /\ UNCHANGED checks => ChecksTyped'
         /\ UNCHANGED api => APITyped'
         /\ UNCHANGED store => store' \in BOOLEAN
         /\ UNCHANGED bus => bus'.closed \in BOOLEAN
         /\ UNCHANGED worker => WorkerTyped'
         /\ UNCHANGED <<go, trackers>> => RequestsTyped'
  <1>1. /\ ProcessTyped /\ ShutdownTyped /\ SchedTyped /\ ChecksTyped
        /\ APITyped /\ store \in BOOLEAN /\ bus.closed \in BOOLEAN
        /\ WorkerTyped /\ RequestsTyped
    BY TypeParts
  <1>2. UNCHANGED process => ProcessTyped'
    BY <1>1 DEF ProcessTyped, process
  <1>3. UNCHANGED signals => SignalsTyped'
    BY <1>1 DEF ShutdownTyped, SignalsTyped
  <1>4. UNCHANGED shutdown => ShutdownTyped'
    BY <1>1 DEF ShutdownTyped, SignalsTyped, shutdown
  <1>5. UNCHANGED sched => SchedTyped'
    BY <1>1 DEF SchedTyped
  <1>6. UNCHANGED checks => ChecksTyped'
    BY <1>1 DEF ChecksTyped
  <1>7. UNCHANGED api => APITyped'
    BY <1>1 DEF APITyped
  <1>8. UNCHANGED worker => WorkerTyped'
    BY <1>1 DEF WorkerTyped
  <1>9. UNCHANGED <<go, trackers>> => RequestsTyped'
    BY <1>1 DEF RequestsTyped, trackers
  <1> QED BY <1>1, <1>2, <1>3, <1>4, <1>5, <1>6, <1>7, <1>8, <1>9

\* main or the handler goes to a place of its own.
LEMMA GotoTyped ==
  ASSUME TypeOK, NEW p \in {"main", "handler"}, NEW there \in PCs, Goto(p, there)
  PROVE  pc' \in [{"main", "handler"} -> PCs]
  BY DEF Goto, TypeOK

\* Places main and the handler go to.
LEMMA Places ==
  {"infrastructure", "domain", "application", "start", "scheduler", "api", "wait",
   "exit", "stop", "stop_api", "drain", "stop_scheduler", "stop_nodes", "close_bus",
   "close_store", "cancel", "wait_group", "select", "done", "panic"} \subseteq PCs
  BY DEF PCs, MainPCs, StopPCs

\* The scheduler's record after a stop.
LEMMA StopSchedulerTyped ==
  ASSUME SchedTyped
  PROVE  /\ StopScheduler(sched)
              \in [running: BOOLEAN, cancelled: BOOLEAN, stopped: BOOLEAN,
                   loop: {"off", "on", "ended"}, ticks: SUBSET CheckKinds]
         /\ StopScheduler(sched).cancelled = (sched.running \/ sched.cancelled)
  BY DEF StopScheduler, SchedTyped

\* Stop keeps the types, whoever calls it.
LEMMA StopKeepsTypes ==
  ASSUME Inv, NEW p \in {"main", "handler"}, Stop(p)
  PROVE  TypeOK'
  <1>1. /\ TypeOK /\ ProcessTyped /\ ShutdownTyped
    BY TypeParts DEF Inv
  <1>2. pc' \in [{"main", "handler"} -> PCs]
    BY <1>1, GotoTyped, Places DEF Stop, Returned, Goto
  <1>3. ProcessTyped'
    BY <1>1, <1>2 DEF Stop, ProcessTyped
  <1>4. ShutdownTyped'
    BY <1>1 DEF Stop, ShutdownTyped, SignalsTyped
  <1> QED BY <1>1, <1>3, <1>4, UnchangedTyped, TypePartsNext DEF Stop, scheduler

\* The steps of main keep the types.
LEMMA MainKeepsTypes ==
  ASSUME Inv, MainStep
  PROVE  TypeOK'
  <1> USE DEF scheduler
  <1>1. /\ TypeOK /\ IsBus(bus)
        /\ ProcessTyped /\ ShutdownTyped /\ SchedTyped /\ ChecksTyped
        /\ APITyped /\ WorkerTyped
    BY TypeParts DEF Inv, Listeners
  <1>2. \A k \in Kinds : SubscribeToEvents(bus, k).closed \in BOOLEAN
    BY <1>1, TrackersSubscribe DEF TypeOK
  <1>3. CASE CreateDatabaseStore
    <2>1. ProcessTyped'
      BY <1>1, <1>3, GotoTyped, Places DEF CreateDatabaseStore, Created, ProcessTyped
    <2> QED BY <1>1, <1>3, <2>1, UnchangedTyped, TypePartsNext DEF CreateDatabaseStore
  <1>4. CASE CreateInfrastructureServices
    <2>1. ProcessTyped'
      BY <1>1, <1>4, GotoTyped, Places DEF CreateInfrastructureServices, Created, ProcessTyped
    <2> QED BY <1>1, <1>4, <2>1, UnchangedTyped, TypePartsNext DEF CreateInfrastructureServices
  <1>5. CASE CreateDomainServices
    <2>1. ProcessTyped'
      BY <1>1, <1>5, GotoTyped, Places DEF CreateDomainServices, Created, ProcessTyped
    <2>2. bus'.closed \in BOOLEAN
      BY <1>2, <1>5 DEF CreateDomainServices, Kinds
    <2> QED BY <1>1, <1>5, <2>1, <2>2, UnchangedTyped, TypePartsNext DEF CreateDomainServices
  <1>6. CASE CreateApplicationServices
    <2>1. ProcessTyped'
      BY <1>1, <1>6, GotoTyped, Places DEF CreateApplicationServices, ProcessTyped
    <2>2. bus'.closed \in BOOLEAN
      BY <1>2, <1>6 DEF CreateApplicationServices, Kinds
    <2>3. WorkerTyped'
      BY <1>1, <1>6 DEF CreateApplicationServices, WorkerTyped
    <2> QED BY <1>1, <1>6, <2>1, <2>2, <2>3, UnchangedTyped, TypePartsNext
            DEF CreateApplicationServices
  <1>7. CASE StartWorker
    <2>1. ProcessTyped'
      <3>1. [pc EXCEPT !["main"] = "scheduler", !["handler"] = "select"]
               \in [{"main", "handler"} -> PCs]
        BY <1>1, Places DEF ProcessTyped
      <3> QED BY <1>1, <1>7, <3>1 DEF StartWorker, ProcessTyped
    <2>2. bus'.closed \in BOOLEAN
      BY <1>1, <1>7, SubscribeAppends DEF StartWorker, TypeOK, Events, Kinds, Stages, Handlers
    <2>3. WorkerTyped'
      BY <1>1, <1>7 DEF StartWorker, WorkerTyped
    <2>4. ShutdownTyped'
      BY <1>1, <1>7 DEF StartWorker, ShutdownTyped, SignalsTyped
    <2> QED BY <1>1, <1>7, <2>1, <2>2, <2>3, <2>4, UnchangedTyped, TypePartsNext
            DEF StartWorker
  <1>8. CASE StartScheduler
    <2>1. ProcessTyped'
      BY <1>1, <1>8, Places DEF StartScheduler, ProcessTyped
    <2>2. SchedTyped'
      BY <1>1, <1>8 DEF StartScheduler, SchedTyped
    <2>3. ChecksTyped'
      BY <1>8, RuntimeAssumption DEF StartScheduler, ChecksTyped
    <2> QED BY <1>1, <1>8, <2>1, <2>2, <2>3, UnchangedTyped, TypePartsNext DEF StartScheduler
  <1>9. CASE StartAPI
    <2>1. ProcessTyped'
      BY <1>1, <1>9, Places DEF StartAPI, ProcessTyped
    <2>2. SchedTyped'
      BY <1>1, <1>9, StopSchedulerTyped DEF StartAPI, SchedTyped
    <2>3. APITyped'
      BY <1>1, <1>9 DEF StartAPI, APITyped
    <2> QED BY <1>1, <1>9, <2>1, <2>2, <2>3, UnchangedTyped, TypePartsNext DEF StartAPI
  <1>10. CASE WaitForShutdown
    <2>1. ProcessTyped'
      BY <1>1, <1>10, Places DEF WaitForShutdown, ProcessTyped
    <2> QED BY <1>1, <1>10, <2>1, UnchangedTyped, TypePartsNext DEF WaitForShutdown
  <1>11. CASE Stop("main")
    BY <1>11, StopKeepsTypes
  <1> QED BY <1>3, <1>4, <1>5, <1>6, <1>7, <1>8, <1>9, <1>10, <1>11 DEF MainStep

\* The steps of the signal handler keep the types.
LEMMA HandlerKeepsTypes ==
  ASSUME Inv, HandlerStep
  PROVE  TypeOK'
  <1> USE DEF scheduler
  <1>1. /\ TypeOK /\ ProcessTyped /\ ShutdownTyped /\ SchedTyped
    BY TypeParts DEF Inv
  <1>2. CASE HandleSignals
    <2>1. ProcessTyped'
      BY <1>1, <1>2, GotoTyped, Places DEF HandleSignals, ProcessTyped
    <2>2. ShutdownTyped'
      BY <1>1, <1>2 DEF HandleSignals, ShutdownTyped, SignalsTyped
    <2> QED BY <1>1, <1>2, <2>1, <2>2, UnchangedTyped, TypePartsNext DEF HandleSignals
  <1>3. CASE Stop("handler")
    BY <1>3, StopKeepsTypes
  <1>4. CASE StopAPI
    <2>1. ProcessTyped'
      BY <1>1, <1>4, GotoTyped, Places DEF StopAPI, ProcessTyped
    <2>2. APITyped'
      BY <1>4 DEF StopAPI, APITyped
    <2> QED BY <1>1, <1>4, <2>1, <2>2, UnchangedTyped, TypePartsNext DEF StopAPI
  <1>5. CASE Drain
    <2>1. ProcessTyped'
      BY <1>1, <1>5, GotoTyped, Places DEF Drain, ProcessTyped
    <2>2. ShutdownTyped'
      BY <1>1, <1>5 DEF Drain, Serving, ShutdownTyped, SignalsTyped
    <2> QED BY <1>1, <1>5, <2>1, <2>2, UnchangedTyped, TypePartsNext DEF Drain
  <1>6. CASE StopChecks
    <2>1. ProcessTyped'
      BY <1>1, <1>6, GotoTyped, Places DEF StopChecks, ProcessTyped
    <2>2. SchedTyped'
      BY <1>1, <1>6, StopSchedulerTyped DEF StopChecks, SchedTyped
    <2> QED BY <1>1, <1>6, <2>1, <2>2, UnchangedTyped, TypePartsNext DEF StopChecks
  <1>7. CASE CleanupActiveNodes
    <2>1. ProcessTyped'
      BY <1>1, <1>7, GotoTyped, Places DEF CleanupActiveNodes, ProcessTyped
    <2> QED BY <1>1, <1>7, <2>1, UnchangedTyped, TypePartsNext DEF CleanupActiveNodes
  <1>8. CASE CloseBus
    <2>1. ProcessTyped'
      BY <1>1, <1>8, GotoTyped, Places DEF CloseBus, ProcessTyped
    <2>2. bus'.closed \in BOOLEAN
      BY <1>8, EmptyBuses DEF CloseBus
    <2> QED BY <1>1, <1>8, <2>1, <2>2, UnchangedTyped, TypePartsNext DEF CloseBus
  <1>9. CASE CloseStore
    <2>1. ProcessTyped'
      BY <1>1, <1>9, GotoTyped, Places DEF CloseStore, ProcessTyped
    <2> QED BY <1>1, <1>9, <2>1, UnchangedTyped, TypePartsNext DEF CloseStore
  <1>10. CASE Cancel
    <2>1. ProcessTyped'
      BY <1>1, <1>10, GotoTyped, Places DEF Cancel, ProcessTyped
    <2> QED BY <1>1, <1>10, <2>1, UnchangedTyped, TypePartsNext DEF Cancel
  <1>11. CASE WaitGroup
    <2>1. ProcessTyped'
      BY <1>1, <1>11, Places DEF WaitGroup, Returned, ProcessTyped
    <2> QED BY <1>1, <1>11, <2>1, UnchangedTyped, TypePartsNext DEF WaitGroup
  <1> QED BY <1>2, <1>3, <1>4, <1>5, <1>6, <1>7, <1>8, <1>9, <1>10, <1>11
          DEF HandlerStep, StopStep

\* So do signals, the deadline, the workers and the scheduler's loop.
LEMMA OthersKeepTypes ==
  ASSUME Inv,
         \/ StartConnectionWorker \/ ListenFails \/ Signal \/ Kill \/ Expire
         \/ EndLoop \/ StopWorker
         \/ \E k \in CheckKinds : Tick(k) \/ StartCheck(k) \/ EndCheck(k)
  PROVE  TypeOK'
  <1> USE DEF scheduler
  <1>1. /\ TypeOK /\ IsBus(bus)
        /\ ProcessTyped /\ ShutdownTyped /\ SchedTyped /\ ChecksTyped /\ WorkerTyped
        /\ "requested" \in Stages
    BY TypeParts DEF Inv, Listeners, Stages
  <1>2. CASE StartConnectionWorker
    <2>1. bus'.closed \in BOOLEAN
      BY <1>1, <1>2, SubscribeAppends
         DEF StartConnectionWorker, TypeOK, Events, Kinds, Handlers
    <2>2. WorkerTyped'
      BY <1>1, <1>2 DEF StartConnectionWorker, WorkerTyped
    <2> QED BY <1>1, <1>2, <2>1, <2>2, UnchangedTyped, TypePartsNext DEF StartConnectionWorker
  <1>3. CASE ListenFails
    <2>1. APITyped'
      BY <1>3 DEF ListenFails, APITyped
    <2> QED BY <1>1, <1>3, <2>1, UnchangedTyped, TypePartsNext DEF ListenFails
  <1>4. CASE Signal
    <2>1. signals.sent + 1 \in 0..MaxSignals
      BY <1>1, <1>4, RuntimeAssumption DEF Signal, ShutdownTyped, SignalsTyped
    <2>2. ShutdownTyped'
      BY <1>1, <1>4, <2>1 DEF Signal, ShutdownTyped, SignalsTyped
    <2> QED BY <1>1, <1>4, <2>2, UnchangedTyped, TypePartsNext DEF Signal
  <1>5. CASE Kill
    <2>1. ProcessTyped'
      BY <1>1, <1>5, GotoTyped, Places DEF Kill, ProcessTyped
    <2>2. ChecksTyped'
      BY <1>5, RuntimeAssumption DEF Kill, ChecksTyped
    <2>3. RequestsTyped'
      <3>1. NoRoutine \in Routine
        <4>1. <<>> \in UNION {[1..n -> Handlers] : n \in 0..2}
          BY LeftsAreLeft DEF Lefts
        <4> QED BY <4>1 DEF NoRoutine, Routine, Stages
      <3>2. go' \in [Routines -> Routine]
        BY <1>5, <3>1 DEF Kill
      <3>3. conns' \in [Ids -> CT!Entry] /\ nodes' \in [Ids -> PT!Entry]
        BY <1>5 DEF Kill, CT!Entry, PT!Entry
      <3> QED BY <3>2, <3>3 DEF RequestsTyped
    <2>4. bus'.closed \in BOOLEAN
      BY <1>5, EmptyBuses DEF Kill, IsBus
    <2> QED BY <1>1, <1>5, <2>1, <2>2, <2>3, <2>4, UnchangedTyped, TypePartsNext DEF Kill
  <1>6. CASE Expire
    <2>1. ShutdownTyped'
      BY <1>1, <1>6 DEF Expire, ShutdownTyped, SignalsTyped
    <2> QED BY <1>1, <1>6, <2>1, UnchangedTyped, TypePartsNext DEF Expire
  <1>7. CASE EndLoop
    <2>1. SchedTyped'
      BY <1>1, <1>7 DEF EndLoop, SchedTyped
    <2> QED BY <1>1, <1>7, <2>1, UnchangedTyped, TypePartsNext DEF EndLoop
  <1>8. CASE StopWorker
    <2>1. bus'.closed \in BOOLEAN
      BY <1>1, <1>8, UnsubscribeLeavesListeners
         DEF StopWorker, TypeOK, Events, Kinds, Handlers
    <2>2. WorkerTyped'
      BY <1>1, <1>8 DEF StopWorker, WorkerTyped
    <2> QED BY <1>1, <1>8, <2>1, <2>2, UnchangedTyped, TypePartsNext DEF StopWorker
  <1>9. ASSUME NEW k \in CheckKinds, Tick(k)
        PROVE  TypeOK'
    <2>1. SchedTyped'
      BY <1>1, <1>9 DEF Tick, SchedTyped
    <2> QED BY <1>1, <1>9, <2>1, UnchangedTyped, TypePartsNext DEF Tick
  <1>10. ASSUME NEW k \in CheckKinds, StartCheck(k)
         PROVE  TypeOK'
    <2>1. SchedTyped'
      BY <1>1, <1>10 DEF StartCheck, SchedTyped
    <2>2. ChecksTyped'
      BY <1>1, <1>10, RuntimeAssumption DEF StartCheck, ChecksTyped
    <2> QED BY <1>1, <1>10, <2>1, <2>2, UnchangedTyped, TypePartsNext DEF StartCheck
  <1>11. ASSUME NEW k \in CheckKinds, EndCheck(k)
         PROVE  TypeOK'
    <2>1. ChecksTyped'
      BY <1>1, <1>11, RuntimeAssumption DEF EndCheck, ChecksTyped
    <2> QED BY <1>1, <1>11, <2>1, UnchangedTyped, TypePartsNext DEF EndCheck
  <1> QED BY <1>2, <1>3, <1>4, <1>5, <1>6, <1>7, <1>8, <1>9, <1>10, <1>11

\* A goroutine's step, or the arrival of a request, keeps the types.
LEMMA RequestsKeepTypes ==
  ASSUME Inv,
         \/ \E r \in Requests : Arrive(r)
         \/ \E x \in Routines : RoutineStep(x)
  PROVE  TypeOK'
  <1> USE DEF scheduler
  <1>1. TypeOK /\ RequestsTyped
    BY TypeParts DEF Inv
  <1>2. ASSUME NEW r \in Requests, Arrive(r)
        PROVE  TypeOK'
    <2>1. RequestsTyped'
      BY <1>1, <1>2, ArriveKeeps DEF Arrive, RequestsTyped, trackers
    <2> QED BY <1>1, <1>2, <2>1, UnchangedTyped, TypePartsNext DEF Arrive
  <1>3. ASSUME NEW x \in Routines, RoutineStep(x)
        PROVE  TypeOK'
    <2>1. /\ RequestsTyped'
          /\ UNCHANGED <<process, shutdown, scheduler, api, store, bus, worker>>
      BY <1>3, RoutineKeeps DEF Kept, RequestsTyped
    <2> QED BY <1>1, <2>1, UnchangedTyped, TypePartsNext
  <1> QED BY <1>2, <1>3

\* Every step keeps the types.
LEMMA TypesKept ==
  ASSUME Inv, [Next]_vars
  PROVE  TypeOK'
  <1>1. CASE MainStep
    BY <1>1, MainKeepsTypes
  <1>2. CASE HandlerStep
    BY <1>2, HandlerKeepsTypes
  <1>3. CASE UNCHANGED vars
    <2>1. TypeOK
      BY DEF Inv
    <2> QED BY <1>3, <2>1 DEF vars, TypeOK
  <1>4. CASE ~ MainStep /\ ~ HandlerStep /\ ~ UNCHANGED vars
    BY <1>4, OthersKeepTypes, RequestsKeepTypes DEF Next, Over
  <1> QED BY <1>1, <1>2, <1>3, <1>4

-----------------------------------------------------------------------------
(***************************************************************************)
(* Who listens to the bus.                                                 *)
(***************************************************************************)
\* The listeners of the two events of a stage, when main is at m and the
\* workers are as w says.
HeardBy(ls, m, w, s) ==
  /\ ls[<<"connect", s>>] = Heard(m \notin {"new", "infrastructure", "domain"},
                                  s = "requested" /\ w["connect"] = "on")
  /\ ls[<<"provision", s>>] = Heard(m \notin Early \ {"start"},
                                    s = "requested" /\ w["provision"] # "off")

\* The invariant in these terms: an open bus has, for each event, these
\* listeners and no others.
LEMMA ListenersAre ==
  Listeners <=> /\ IsBus(bus)
                /\ bus.closed => \A e \in Events : bus.listeners[e] = <<>>
                /\ ~ bus.closed /\ pc["main"] # "exit" =>
                     \A s \in Stages : HeardBy(bus.listeners, pc["main"], worker, s)
  BY DEF Listeners, HeardBy

\* Listeners are kept by every step that leaves the bus and the workers
\* alone and keeps main on its side of the two subscriptions.
LEMMA ListenersStay ==
  ASSUME Listeners, bus' = bus, worker' = worker,
         pc'["main"] = "exit"
         \/ /\ pc["main"] # "exit"
            /\ pc["main"] \in {"new", "infrastructure", "domain"}
                 <=> pc'["main"] \in {"new", "infrastructure", "domain"}
            /\ pc["main"] \in Early \ {"start"} <=> pc'["main"] \in Early \ {"start"}
  PROVE  Listeners'
  BY DEF Listeners

\* A worker that subscribes after the tracker is called after it.
LEMMA TrackerFirst == Append(<<"tracker">>, "worker") = <<"tracker", "worker">>
  <1> DEFINE c == Append(<<"tracker">>, "worker")
             d == <<"tracker", "worker">>
  <1>1. <<"tracker">> \in Seq(Handlers) /\ d \in Seq(Handlers) /\ "worker" \in Handlers
    BY DEF Handlers
  <1>2. c \in Seq(Handlers) /\ Len(c) = 2 /\ Len(d) = 2
    BY <1>1
  <1>3. c[1] = "tracker" /\ c[2] = "worker"
    BY <1>1
  <1>4. d[1] = "tracker" /\ d[2] = "worker"
    OBVIOUS
  <1> HIDE DEF c, d
  <1>5. \A i \in 1..Len(c) : c[i] = d[i]
    BY <1>2, <1>3, <1>4
  <1>6. c = d
    BY <1>1, <1>2, <1>5, SeqEqual
  <1> QED BY <1>6 DEF c, d

\* The steps that subscribe, and the ones that end subscriptions.
LEMMA SubscriptionsKeepListeners ==
  ASSUME Inv,
         \/ CreateDomainServices \/ CreateApplicationServices \/ StartWorker
         \/ StartConnectionWorker \/ StopWorker \/ CloseBus \/ Kill
  PROVE  Listeners'
  <1>1. /\ IsBus(bus) /\ bus.closed \in BOOLEAN
        /\ bus.closed => \A e \in Events : bus.listeners[e] = <<>>
        /\ \A s \in Stages : <<"connect", s>> \in Events /\ <<"provision", s>> \in Events
        /\ \A s \in Stages : <<"connect", s>>[1] = "connect" /\ <<"provision", s>>[1] = "provision"
        /\ "connect" \in Kinds /\ "provision" \in Kinds /\ "worker" \in Handlers
        /\ "requested" \in Stages
        /\ pc \in [{"main", "handler"} -> PCs]
        /\ worker \in [Kinds -> {"off", "spawned", "on", "stopped"}]
    BY DEF Inv, TypeOK, Listeners, Events, Kinds, Handlers, Stages
  <1>2. ASSUME ~ bus.closed, pc["main"] # "exit", NEW s \in Stages
        PROVE  /\ HeardBy(bus.listeners, pc["main"], worker, s)
               /\ bus.listeners[<<"connect", s>>]
                    = Heard(pc["main"] \notin {"new", "infrastructure", "domain"},
                            s = "requested" /\ worker["connect"] = "on")
               /\ bus.listeners[<<"provision", s>>]
                    = Heard(pc["main"] \notin Early \ {"start"},
                            s = "requested" /\ worker["provision"] # "off")
    BY <1>2 DEF Inv, Listeners, HeardBy
  <1>3. /\ Append(<<>>, "tracker") = <<"tracker">>
        /\ Append(<<"tracker">>, "worker") = <<"tracker", "worker">>
    <2>1. Append(<<>>, "tracker") = <<"tracker">>
      OBVIOUS
    <2> QED BY <2>1, TrackerFirst
  <1>4. Positions
    BY DEF Inv
  <1>5. CASE CreateDomainServices
    <2>1. /\ bus' = SubscribeToEvents(bus, "connect") /\ worker' = worker
          /\ pc["main"] = "domain" /\ pc'["main"] \in {"application", "exit"}
          /\ worker["connect"] = "off"
      BY <1>1, <1>4, <1>5 DEF CreateDomainServices, Created, Goto, Positions, Early
    <2>2. /\ IsBus(bus') /\ bus'.closed = bus.closed
          /\ bus.closed => bus'.listeners = bus.listeners
          /\ ~ bus.closed => \A e \in Events :
               bus'.listeners[e] = IF e[1] = "connect" THEN Append(bus.listeners[e], "tracker")
                                   ELSE bus.listeners[e]
      BY <1>1, <2>1, TrackersSubscribe
    <2>3. ASSUME ~ bus.closed, pc'["main"] # "exit", NEW s \in Stages
          PROVE  HeardBy(bus'.listeners, pc'["main"], worker', s)
      <3>1. /\ bus'.listeners[<<"connect", s>>] = Append(bus.listeners[<<"connect", s>>], "tracker")
            /\ bus'.listeners[<<"provision", s>>] = bus.listeners[<<"provision", s>>]
        BY <1>1, <2>2, <2>3
      <3>2. bus.listeners[<<"connect", s>>] = <<>> /\ bus.listeners[<<"provision", s>>] = <<>>
        BY <1>2, <2>1, <2>3 DEF Heard, Early
      <3> QED BY <1>3, <2>1, <2>3, <3>1, <3>2 DEF HeardBy, Heard, Early
    <2> QED BY <1>1, <2>2, <2>3 DEF Listeners, HeardBy
  <1>6. CASE CreateApplicationServices
    <2>1. /\ bus' = SubscribeToEvents(bus, "provision")
          /\ worker' = [worker EXCEPT !["connect"] = "spawned"]
          /\ pc["main"] = "application" /\ pc'["main"] = "start"
          /\ worker["connect"] = "off" /\ worker["provision"] = "off"
      BY <1>1, <1>4, <1>6 DEF CreateApplicationServices, Goto, Positions, Early
    <2>2. /\ IsBus(bus') /\ bus'.closed = bus.closed
          /\ bus.closed => bus'.listeners = bus.listeners
          /\ ~ bus.closed => \A e \in Events :
               bus'.listeners[e] = IF e[1] = "provision" THEN Append(bus.listeners[e], "tracker")
                                   ELSE bus.listeners[e]
      BY <1>1, <2>1, TrackersSubscribe
    <2>3. ASSUME ~ bus.closed, NEW s \in Stages
          PROVE  HeardBy(bus'.listeners, pc'["main"], worker', s)
      <3>1. /\ bus'.listeners[<<"provision", s>>] = Append(bus.listeners[<<"provision", s>>], "tracker")
            /\ bus'.listeners[<<"connect", s>>] = bus.listeners[<<"connect", s>>]
        BY <1>1, <2>2, <2>3
      <3>2. /\ bus.listeners[<<"connect", s>>] = <<"tracker">>
            /\ bus.listeners[<<"provision", s>>] = <<>>
        BY <1>2, <2>1, <2>3 DEF Heard, Early
      <3>3. worker'["connect"] = "spawned" /\ worker'["provision"] = "off"
        BY <1>1, <2>1
      <3> QED BY <1>3, <2>1, <3>1, <3>2, <3>3 DEF HeardBy, Heard, Early
    <2> QED BY <1>1, <2>2, <2>3 DEF Listeners, HeardBy
  <1>7. CASE StartWorker
    <2>1. /\ bus' = Subscribe(bus, <<"provision", "requested">>, "worker")
          /\ worker' = [worker EXCEPT !["provision"] = "on"]
          /\ pc["main"] = "start" /\ pc'["main"] = "scheduler"
          /\ worker["provision"] = "off"
      BY <1>1, <1>4, <1>7 DEF StartWorker, Positions, Early
    <2>2. /\ IsBus(bus') /\ bus'.closed = bus.closed
          /\ bus'.listeners = IF bus.closed THEN bus.listeners
                              ELSE Appended(bus, <<"provision", "requested">>, "worker")
      <3>1. <<"provision", "requested">> \in Events /\ "worker" \in Handlers /\ IsBus(bus)
        BY <1>1
      <3>2. bus' = Subscribe(bus, <<"provision", "requested">>, "worker")
        BY <2>1
      <3> QED BY <3>1, <3>2, SubscribeAppends
    <2>3. ASSUME ~ bus.closed, NEW s \in Stages
          PROVE  HeardBy(bus'.listeners, pc'["main"], worker', s)
      <3>1. /\ bus'.listeners[<<"provision", s>>]
                 = IF s = "requested" THEN Append(bus.listeners[<<"provision", s>>], "worker")
                   ELSE bus.listeners[<<"provision", s>>]
            /\ bus'.listeners[<<"connect", s>>] = bus.listeners[<<"connect", s>>]
        BY <1>1, <2>2, <2>3, ZenonT(40) DEF Appended, IsBus
      <3>2. /\ bus.listeners[<<"connect", s>>]
                 = Heard(TRUE, s = "requested" /\ worker["connect"] = "on")
            /\ bus.listeners[<<"provision", s>>] = <<"tracker">>
        BY <1>2, <2>1, <2>3 DEF Heard, Early
      <3>3. worker'["connect"] = worker["connect"] /\ worker'["provision"] = "on"
        BY <1>1, <2>1
      <3> QED BY <1>3, <2>1, <3>1, <3>2, <3>3 DEF HeardBy, Heard, Early
    <2> QED BY <1>1, <2>2, <2>3 DEF Listeners, HeardBy
  <1>8. CASE StartConnectionWorker
    <2>1. /\ bus' = Subscribe(bus, <<"connect", "requested">>, "worker")
          /\ worker' = [worker EXCEPT !["connect"] = "on"]
          /\ pc["main"] # "exit" /\ pc'["main"] = pc["main"]
          /\ pc["main"] \notin Early \ {"start"}
          /\ worker["connect"] = "spawned"
      BY <1>1, <1>4, <1>8 DEF StartConnectionWorker, Positions, Alive, process
    <2>2. /\ IsBus(bus') /\ bus'.closed = bus.closed
          /\ bus'.listeners = IF bus.closed THEN bus.listeners
                              ELSE Appended(bus, <<"connect", "requested">>, "worker")
      <3>1. <<"connect", "requested">> \in Events /\ "worker" \in Handlers /\ IsBus(bus)
        BY <1>1
      <3>2. bus' = Subscribe(bus, <<"connect", "requested">>, "worker")
        BY <2>1
      <3> QED BY <3>1, <3>2, SubscribeAppends
    <2>3. ASSUME ~ bus.closed, NEW s \in Stages
          PROVE  HeardBy(bus'.listeners, pc'["main"], worker', s)
      <3>1. /\ bus'.listeners[<<"connect", s>>]
                 = IF s = "requested" THEN Append(bus.listeners[<<"connect", s>>], "worker")
                   ELSE bus.listeners[<<"connect", s>>]
            /\ bus'.listeners[<<"provision", s>>] = bus.listeners[<<"provision", s>>]
        BY <1>1, <2>2, <2>3, ZenonT(40) DEF Appended, IsBus
      <3>2. /\ bus.listeners[<<"provision", s>>]
                 = Heard(TRUE, s = "requested" /\ worker["provision"] # "off")
            /\ bus.listeners[<<"connect", s>>] = <<"tracker">>
        BY <1>2, <2>1, <2>3 DEF Heard, Early
      <3>3. worker'["provision"] = worker["provision"] /\ worker'["connect"] = "on"
        BY <1>1, <2>1
      <3> QED BY <1>3, <2>1, <3>1, <3>2, <3>3 DEF HeardBy, Heard, Early
    <2> QED BY <1>1, <2>2, <2>3 DEF Listeners, HeardBy
  <1>9. CASE StopWorker
    <2>1. /\ bus' = Unsubscribe(bus, <<"provision", "requested">>, "worker")
          /\ worker' = [worker EXCEPT !["provision"] = "stopped"]
          /\ pc["main"] # "exit" /\ pc'["main"] = pc["main"]
          /\ worker["provision"] = "on"
      BY <1>1, <1>9 DEF StopWorker, Alive, process
    <2>2. IsBus(bus') /\ bus'.closed = bus.closed /\ bus'.listeners = bus.listeners
      BY <1>1, <2>1, UnsubscribeLeavesListeners, ZenonT(40)
    <2>3. worker'["connect"] = worker["connect"] /\ worker'["provision"] = "stopped"
      BY <1>1, <2>1
    <2>4. ASSUME ~ bus.closed, NEW s \in Stages
          PROVE  HeardBy(bus'.listeners, pc'["main"], worker', s)
      BY <1>2, <2>1, <2>2, <2>3, <2>4 DEF HeardBy
    <2> QED BY <1>1, <2>2, <2>4 DEF Listeners, HeardBy
  <1>10. CASE CloseBus
    BY <1>10, EmptyBuses DEF CloseBus, Listeners
  <1>11. CASE Kill
    BY <1>1, <1>11, EmptyBuses DEF Kill, Goto, Listeners
  <1> QED BY <1>5, <1>6, <1>7, <1>8, <1>9, <1>10, <1>11

\* The listeners are kept by every step.
LEMMA ListenersKept ==
  ASSUME Inv, [Next]_vars
  PROVE  Listeners'
  <1> USE DEF process, scheduler, Goto, Early
  <1>1. /\ Listeners /\ pc \in [{"main", "handler"} -> PCs]
    BY DEF Inv, TypeOK
  <1>2. CASE CreateDomainServices \/ CreateApplicationServices \/ StartWorker
             \/ StartConnectionWorker \/ StopWorker \/ CloseBus \/ Kill
    BY <1>2, SubscriptionsKeepListeners
  <1>3. CASE CreateDatabaseStore
    BY <1>1, <1>3, ListenersStay DEF CreateDatabaseStore, Created
  <1>4. CASE CreateInfrastructureServices
    BY <1>1, <1>4, ListenersStay DEF CreateInfrastructureServices, Created
  <1>5. CASE StartScheduler
    BY <1>1, <1>5, ListenersStay DEF StartScheduler
  <1>6. CASE StartAPI
    BY <1>1, <1>6, ListenersStay DEF StartAPI
  <1>7. CASE WaitForShutdown
    BY <1>1, <1>7, ListenersStay DEF WaitForShutdown
  <1>8. CASE Stop("main")
    BY <1>1, <1>8, ListenersStay DEF Stop, Returned, Alive
  <1>9. CASE HandlerStep /\ ~ CloseBus
    <2>1. pc["main"] # "exit" /\ pc'["main"] = pc["main"] /\ bus' = bus /\ worker' = worker
      BY <1>1, <1>9 DEF HandlerStep, StopStep, HandleSignals, Stop, StopAPI, Drain,
         StopChecks, CleanupActiveNodes, CloseStore, Cancel, WaitGroup, Returned, Alive
    <2> QED BY <1>1, <2>1, ListenersStay
  <1>10. CASE \/ ListenFails \/ Signal \/ Expire \/ EndLoop \/ UNCHANGED vars
              \/ \E k \in CheckKinds : Tick(k) \/ StartCheck(k) \/ EndCheck(k)
              \/ \E r \in Requests : Arrive(r)
    <2>1. pc' = pc /\ bus' = bus /\ worker' = worker
      BY <1>10 DEF ListenFails, Signal, Expire, EndLoop, Tick, StartCheck, EndCheck,
         Arrive, vars
    <2> QED BY <1>1, <2>1 DEF Listeners
  <1>11. ASSUME NEW x \in Routines, RoutineStep(x)
         PROVE  Listeners'
    <2>1. pc' = pc /\ bus' = bus /\ worker' = worker
      BY <1>11, RoutineKeeps
    <2> QED BY <1>1, <2>1 DEF Listeners
  <1> HIDE DEF process, scheduler, Goto, Early
  <1>12. CASE MainStep
    BY <1>2, <1>3, <1>4, <1>5, <1>6, <1>7, <1>8, <1>12 DEF MainStep
  <1>13. CASE HandlerStep
    BY <1>2, <1>9, <1>13
  <1> QED BY <1>2, <1>10, <1>11, <1>12, <1>13 DEF Next, Over

-----------------------------------------------------------------------------
(***************************************************************************)
(* Where main and the handler are.                                         *)
(***************************************************************************)
\* The positions are kept by every step.
LEMMA PositionsKept ==
  ASSUME Inv, [Next]_vars
  PROVE  Positions'
  <1> USE RuntimeAssumption DEF process, scheduler, Goto, Early, MainPCs, Positions
  <1>1. /\ Positions /\ Shutdown
        /\ pc \in [{"main", "handler"} -> PCs]
        /\ worker \in [Kinds -> {"off", "spawned", "on", "stopped"}]
        /\ SchedTyped
    BY TypeParts DEF Inv, TypeOK
  <1>2. CASE CreateDatabaseStore
    BY <1>1, <1>2 DEF CreateDatabaseStore, Created
  <1>3. CASE CreateInfrastructureServices
    BY <1>1, <1>3 DEF CreateInfrastructureServices, Created
  <1>4. CASE CreateDomainServices
    BY <1>1, <1>4 DEF CreateDomainServices, Created
  <1>5. CASE CreateApplicationServices
    BY <1>1, <1>5 DEF CreateApplicationServices, Kinds
  <1>6. CASE StartWorker
    BY <1>1, <1>6 DEF StartWorker
  <1>7. CASE StartScheduler
    BY <1>1, <1>7 DEF StartScheduler, SchedTyped
  <1>8. CASE StartAPI
    BY <1>1, <1>8 DEF StartAPI
  <1>9. CASE WaitForShutdown
    BY <1>1, <1>9 DEF WaitForShutdown
  <1>10. CASE Stop("main")
    BY <1>1, <1>10 DEF Stop, Returned, Shutdown
  <1>11. CASE HandleSignals
    BY <1>1, <1>11 DEF HandleSignals, Shutdown
  <1>12. CASE StopStep
    BY <1>1, <1>12 DEF StopStep, Stop, StopAPI, Drain, StopChecks, CleanupActiveNodes,
       CloseBus, CloseStore, Cancel, WaitGroup, Returned, Shutdown
  <1>13. CASE StartConnectionWorker \/ StopWorker
    BY <1>1, <1>13 DEF StartConnectionWorker, StopWorker, Kinds
  <1>14. CASE ListenFails \/ EndLoop
    BY <1>1, <1>14 DEF ListenFails, EndLoop, SchedTyped
  <1>15. CASE Kill
    BY <1>1, <1>15 DEF Kill
  <1>16. CASE \/ Signal \/ Expire \/ UNCHANGED vars
              \/ \E k \in CheckKinds : EndCheck(k)
              \/ \E r \in Requests : Arrive(r)
    BY <1>1, <1>16 DEF Signal, Expire, EndCheck, Arrive, vars
  <1>17. CASE \E k \in CheckKinds : Tick(k) \/ StartCheck(k)
    BY <1>1, <1>17 DEF Tick, StartCheck, SchedTyped
  <1>18. ASSUME NEW x \in Routines, RoutineStep(x)
         PROVE  Positions'
    BY <1>1, <1>18, RoutineKeeps
  <1> HIDE DEF process, scheduler, Goto, Early, MainPCs, Positions
  <1>19. CASE MainStep
    BY <1>2, <1>3, <1>4, <1>5, <1>6, <1>7, <1>8, <1>9, <1>10, <1>19, Zenon DEF MainStep
  <1>20. CASE HandlerStep
    BY <1>11, <1>12, <1>20, Zenon DEF HandlerStep
  <1> QED BY <1>13, <1>14, <1>15, <1>16, <1>17, <1>18, <1>19, <1>20 DEF Next, Over

-----------------------------------------------------------------------------
(***************************************************************************)
(* The shutdown.                                                           *)
(***************************************************************************)
\* main's steps keep what the shutdown relies on: the handler has not begun
\* to stop before main waits for it.
LEMMA MainKeepsShutdown ==
  ASSUME Inv, MainStep, Serving' => Serving
  PROVE  Shutdown'
  <1> USE RuntimeAssumption DEF process, shutdown, scheduler, Goto, Early, MainPCs, StopPCs,
          Stopping, Drained, Stopped, Positions, Shutdown
  <1>1. /\ Positions /\ Shutdown
        /\ pc \in [{"main", "handler"} -> PCs]
        /\ SignalsTyped /\ SchedTyped
    BY TypeParts DEF Inv, TypeOK, ShutdownTyped
  <1>2. CASE CreateDatabaseStore
    BY <1>1, <1>2 DEF CreateDatabaseStore, Created
  <1>3. CASE CreateInfrastructureServices
    BY <1>1, <1>3 DEF CreateInfrastructureServices, Created
  <1>4. CASE CreateDomainServices
    BY <1>1, <1>4 DEF CreateDomainServices, Created
  <1>5. CASE CreateApplicationServices
    BY <1>1, <1>5 DEF CreateApplicationServices
  <1>6. CASE StartWorker
    <2>1. /\ pc'["main"] = "scheduler" /\ pc'["handler"] = "select"
          /\ signals'.closed = signals.closed
          /\ UNCHANGED <<running, cancelled, sched, store>>
      BY <1>1, <1>6 DEF StartWorker, SignalsTyped
    <2>2. pc["main"] = "start" /\ pc["handler"] = "off" /\ store
      BY <1>1, <1>6 DEF StartWorker
    <2> QED BY <1>1, <2>1, <2>2
  <1>7. CASE StartScheduler
    BY <1>1, <1>7 DEF StartScheduler, SchedTyped
  <1>8. CASE StartAPI
    BY <1>1, <1>8, StopSchedulerTyped DEF StartAPI
  <1>9. CASE WaitForShutdown
    BY <1>1, <1>9 DEF WaitForShutdown
  <1>10. CASE Stop("main")
    BY <1>1, <1>10 DEF Stop, Returned
  <1> HIDE DEF process, shutdown, scheduler, Goto, Early, MainPCs, StopPCs,
           Stopping, Drained, Stopped, Positions, Shutdown
  <1> QED BY <1>2, <1>3, <1>4, <1>5, <1>6, <1>7, <1>8, <1>9, <1>10 DEF MainStep

\* Each step of Stop leaves its mark for the next.
LEMMA HandlerKeepsShutdown ==
  ASSUME Inv, HandlerStep
  PROVE  Shutdown'
  <1> USE RuntimeAssumption DEF process, shutdown, scheduler, Goto, StopPCs,
          Stopping, Drained, Stopped, Shutdown
  <1>1. /\ Positions /\ Shutdown
        /\ pc \in [{"main", "handler"} -> PCs]
        /\ SignalsTyped /\ SchedTyped
    BY TypeParts DEF Inv, TypeOK, ShutdownTyped
  <1>s. UNCHANGED go => (Serving' <=> Serving)
    BY DEF Serving
  <1>2. CASE HandleSignals
    BY <1>1, <1>s, <1>2 DEF HandleSignals, SignalsTyped
  <1>3. CASE Stop("handler")
    BY <1>1, <1>s, <1>3 DEF Stop, Returned, SignalsTyped
  <1>4. CASE StopAPI
    BY <1>1, <1>s, <1>4 DEF StopAPI
  <1>5. CASE Drain
    BY <1>1, <1>s, <1>5 DEF Drain
  <1>6. CASE StopChecks
    BY <1>1, <1>s, <1>6, StopSchedulerTyped DEF StopChecks
  <1>7. CASE CleanupActiveNodes
    BY <1>1, <1>s, <1>7 DEF CleanupActiveNodes
  <1>8. CASE CloseBus
    BY <1>1, <1>s, <1>8 DEF CloseBus
  <1>9. CASE CloseStore
    BY <1>1, <1>s, <1>9 DEF CloseStore
  <1>10. CASE Cancel
    BY <1>1, <1>s, <1>10 DEF Cancel
  <1>11. CASE WaitGroup
    BY <1>1, <1>s, <1>11 DEF WaitGroup, Returned
  <1> HIDE DEF process, shutdown, scheduler, Goto, StopPCs,
           Stopping, Drained, Stopped, Shutdown
  <1> QED BY <1>2, <1>3, <1>4, <1>5, <1>6, <1>7, <1>8, <1>9, <1>10, <1>11
          DEF HandlerStep, StopStep

\* Every step keeps it.
LEMMA ShutdownKept ==
  ASSUME Inv, [Next]_vars
  PROVE  Shutdown'
  <1>1. /\ Positions /\ Shutdown
        /\ pc \in [{"main", "handler"} -> PCs]
        /\ SignalsTyped /\ SchedTyped
    BY TypeParts DEF Inv, TypeOK, ShutdownTyped
  <1>2. CASE MainStep
    <2>1. UNCHANGED go
      BY <1>2 DEF MainStep, CreateDatabaseStore, CreateInfrastructureServices,
         CreateDomainServices, CreateApplicationServices, StartWorker, StartScheduler,
         StartAPI, WaitForShutdown, Stop
    <2>2. Serving' => Serving
      BY <2>1 DEF Serving
    <2> QED BY <1>2, <2>2, MainKeepsShutdown
  <1>3. CASE HandlerStep
    BY <1>3, HandlerKeepsShutdown
  <1>4. ASSUME Serving' => Serving, UNCHANGED <<process, undrained, store, api, sched>>,
               signals'.closed = signals.closed
        PROVE  Shutdown'
    BY <1>1, <1>4 DEF process, Shutdown, Stopped
  <1>5. CASE Signal
    <2>1. signals'.closed = signals.closed
      BY <1>1, <1>5 DEF Signal, SignalsTyped
    <2>2. Serving' => Serving
      BY <1>5 DEF Signal, Serving
    <2> QED BY <1>4, <1>5, <2>1, <2>2 DEF Signal, scheduler
  <1>6. CASE ListenFails
    <2>1. Serving' => Serving
      BY <1>6 DEF ListenFails, Serving
    <2> QED BY <1>1, <1>6, <2>1 DEF ListenFails, process, shutdown, scheduler, Shutdown, Stopped
  <1>7. CASE Kill
    <2>1. Serving' => Serving
      <3>1. \A r \in Requests : go'[<<"api", r>>].pc = "none"
        BY <1>7, IdsApart DEF Kill, NoRoutine
      <3> QED BY <3>1 DEF Serving
    <2>2. pc'["main"] = "exit" /\ pc'["handler"] = pc["handler"]
      BY <1>1, <1>7 DEF Kill, Goto
    <2> QED BY <1>1, <1>7, <2>1, <2>2 DEF Kill, shutdown, Shutdown, Stopped
  <1>8. CASE \/ StartConnectionWorker \/ Expire \/ StopWorker \/ UNCHANGED vars
             \/ \E k \in CheckKinds : EndCheck(k)
    <2>1. Serving' => Serving
      BY <1>8 DEF StartConnectionWorker, Expire, StopWorker, EndCheck, vars, Serving
    <2> QED BY <1>4, <1>8, <2>1 DEF StartConnectionWorker, Expire, StopWorker, EndCheck, vars,
            process, shutdown, scheduler
  <1>9. CASE EndLoop \/ \E k \in CheckKinds : Tick(k) \/ StartCheck(k)
    <2>1. Serving' => Serving
      BY <1>9 DEF EndLoop, Tick, StartCheck, Serving
    <2>2. sched'.running = sched.running /\ sched'.cancelled = sched.cancelled
      BY <1>1, <1>9 DEF EndLoop, Tick, StartCheck, SchedTyped
    <2> QED BY <1>1, <1>9, <2>1, <2>2 DEF EndLoop, Tick, StartCheck, process, shutdown,
            Shutdown, Stopped
  <1>10. ASSUME NEW r \in Requests, Arrive(r)
         PROVE  Shutdown'
    BY <1>1, <1>10 DEF Arrive, process, shutdown, scheduler, Shutdown, Stopped, Stopping,
       Drained, StopPCs
  <1>11. ASSUME NEW x \in Routines, RoutineStep(x)
         PROVE  Shutdown'
    BY <1>4, <1>11, RoutineKeeps DEF Kept, shutdown, scheduler
  <1> QED BY <1>2, <1>3, <1>5, <1>6, <1>7, <1>8, <1>9, <1>10, <1>11 DEF Next, Over

-----------------------------------------------------------------------------
(***************************************************************************)
(* The invariant holds.                                                    *)
(***************************************************************************)
\* The requests and jobs are kept by every step.
LEMMA RequestsKept ==
  ASSUME Inv, [Next]_vars
  PROVE  \A r \in Requests : RequestInv(r)' /\ JobInv(r)'
  <1>1. /\ Positions /\ IsBus(bus) /\ bus.closed \in BOOLEAN
        /\ pc \in [{"main", "handler"} -> PCs]
        /\ \A s \in Stages : <<"connect", s>> \in Events /\ <<"provision", s>> \in Events
        /\ "connect" \in Kinds /\ "provision" \in Kinds
        /\ "worker" \in Handlers /\ "requested" \in Stages
    BY DEF Inv, TypeOK, Listeners, Events, Kinds, Stages, Handlers
  <1>2. /\ SubscribeToEvents(bus, "connect").closed = bus.closed
        /\ SubscribeToEvents(bus, "provision").closed = bus.closed
        /\ Subscribe(bus, <<"connect", "requested">>, "worker").closed = bus.closed
        /\ Subscribe(bus, <<"provision", "requested">>, "worker").closed = bus.closed
        /\ Unsubscribe(bus, <<"provision", "requested">>, "worker").closed = bus.closed
        /\ Close(bus).closed = TRUE
    <2>1. /\ <<"connect", "requested">> \in Events /\ <<"provision", "requested">> \in Events
          /\ "connect" \in Kinds /\ "provision" \in Kinds /\ "worker" \in Handlers
      BY <1>1
    <2> QED BY <1>1, <2>1, TrackersSubscribe, SubscribeAppends, UnsubscribeLeavesListeners,
               EmptyBuses
  <1>3. CASE MainStep
    <2>1. UNCHANGED <<go, trackers>>
      BY <1>3 DEF MainStep, CreateDatabaseStore, CreateInfrastructureServices,
         CreateDomainServices, CreateApplicationServices, StartWorker, StartScheduler,
         StartAPI, WaitForShutdown, Stop
    <2>2. bus.closed => bus'.closed
      BY <1>2, <1>3 DEF MainStep, CreateDatabaseStore, CreateInfrastructureServices,
         CreateDomainServices, CreateApplicationServices, StartWorker, StartScheduler,
         StartAPI, WaitForShutdown, Stop
    <2>3. pc["main"] \in {"wait", "exit"} => pc'["main"] \in {"wait", "exit"}
      BY <1>1, <1>3 DEF MainStep, CreateDatabaseStore, CreateInfrastructureServices,
         CreateDomainServices, CreateApplicationServices, StartWorker, StartScheduler,
         StartAPI, WaitForShutdown, Stop
    <2> QED BY <2>1, <2>2, <2>3, ControlKeepsRequests
  <1>4. CASE HandlerStep
    <2>1. UNCHANGED <<go, trackers>>
      BY <1>4 DEF HandlerStep, StopStep, HandleSignals, Stop, StopAPI, Drain, StopChecks,
         CleanupActiveNodes, CloseBus, CloseStore, Cancel, WaitGroup
    <2>2. bus.closed => bus'.closed
      BY <1>2, <1>4 DEF HandlerStep, StopStep, HandleSignals, Stop, StopAPI, Drain, StopChecks,
         CleanupActiveNodes, CloseBus, CloseStore, Cancel, WaitGroup
    <2>3. pc'["main"] = pc["main"]
      BY <1>1, <1>4 DEF HandlerStep, StopStep, HandleSignals, Stop, StopAPI, Drain, StopChecks,
         CleanupActiveNodes, CloseBus, CloseStore, Cancel, WaitGroup, Goto, Returned
    <2> QED BY <2>1, <2>2, <2>3, ControlKeepsRequests
  <1>5. CASE StartConnectionWorker \/ StopWorker
    BY <1>2, <1>5, ControlKeepsRequests DEF StartConnectionWorker, StopWorker, process
  <1>6. CASE \/ ListenFails \/ Signal \/ Expire \/ EndLoop \/ UNCHANGED vars
             \/ \E k \in CheckKinds : Tick(k) \/ StartCheck(k) \/ EndCheck(k)
    BY <1>6, ControlKeepsRequests DEF ListenFails, Signal, Expire, EndLoop, Tick, StartCheck,
       EndCheck, vars, process, trackers
  <1>7. CASE Kill
    <2>1. ASSUME NEW r \in Requests
          PROVE  RequestInv(r)' /\ JobInv(r)'
      <3>1. go'[<<"api", r>>] = NoRoutine /\ go'[<<"job", r>>] = NoRoutine
        BY <1>7, IdsApart DEF Kill
      <3>2. nodes'[NodeOf(r)] = "absent"
        BY <1>7, IdsApart DEF Kill
      <3> QED BY <3>1, <3>2 DEF RequestInv, JobInv, NoRoutine
    <2> QED BY <2>1
  <1>8. ASSUME NEW r \in Requests, Arrive(r)
        PROVE  \A q \in Requests : RequestInv(q)' /\ JobInv(q)'
    BY <1>8, ArriveKeeps
  <1>9. ASSUME NEW x \in Routines, RoutineStep(x)
        PROVE  \A q \in Requests : RequestInv(q)' /\ JobInv(q)'
    BY <1>9, RoutineKeeps DEF Kept
  <1> QED BY <1>3, <1>4, <1>5, <1>6, <1>7, <1>8, <1>9 DEF Next, Over

\* It holds at the start.
LEMMA InitInv == Init => Inv
  <1> SUFFICES ASSUME Init PROVE Inv
    OBVIOUS
  <1>1. /\ NoRoutine \in Routine /\ NoRoutine.pc = "none" /\ NoRoutine.stage = "requested"
    <2>1. <<>> \in UNION {[1..n -> Handlers] : n \in 0..2}
      BY LeftsAreLeft DEF Lefts
    <2> QED BY <2>1 DEF NoRoutine, Routine, Stages
  <1>2. TypeOK
    <2>1. ProcessTyped
      BY DEF Init, ProcessTyped, PCs, MainPCs
    <2>2. ShutdownTyped /\ SchedTyped /\ APITyped /\ WorkerTyped /\ store \in BOOLEAN
      <3>1. 0 \in 0..MaxSignals
        BY RuntimeAssumption
      <3>2. ShutdownTyped
        BY <3>1 DEF Init, ShutdownTyped, SignalsTyped
      <3>3. SchedTyped
        BY DEF Init, SchedTyped
      <3> QED BY <3>2, <3>3 DEF Init, APITyped, WorkerTyped
    <2>3. ChecksTyped
      BY RuntimeAssumption DEF Init, ChecksTyped
    <2>4. RequestsTyped
      BY <1>1 DEF Init, RequestsTyped, CT!Entry, PT!Entry
    <2>5. bus.closed \in BOOLEAN
      BY EmptyBuses DEF Init, IsBus
    <2> QED BY <2>1, <2>2, <2>3, <2>4, <2>5, TypeParts
  <1>3. Positions
    BY DEF Init, Positions, Early, MainPCs, Kinds
  <1>4. ~ Serving
    BY <1>1, IdsApart DEF Init, Serving
  <1>5. Shutdown
    BY <1>4 DEF Init, Shutdown, Stopping, StopPCs, Drained, Stopped
  <1>6. Listeners
    <2>1. ASSUME NEW s \in Stages
          PROVE  HeardBy(bus.listeners, pc["main"], worker, s)
      <3>1. <<"connect", s>> \in Events /\ <<"provision", s>> \in Events
        BY DEF Events, Kinds
      <3>2. bus.listeners[<<"connect", s>>] = <<>> /\ bus.listeners[<<"provision", s>>] = <<>>
        BY <3>1, EmptyBuses DEF Init
      <3> QED BY <3>2 DEF Init, HeardBy, Heard, Early
    <2> QED BY <2>1, EmptyBuses, ListenersAre DEF Init
  <1>7. ASSUME NEW r \in Requests
        PROVE  RequestInv(r) /\ JobInv(r)
    <2>1. /\ go[<<"api", r>>] = NoRoutine /\ go[<<"job", r>>] = NoRoutine
          /\ nodes[NodeOf(r)] = "absent"
      BY IdsApart DEF Init
    <2> QED BY <1>1, <2>1 DEF RequestInv, JobInv
  <1> QED BY <1>2, <1>3, <1>5, <1>6, <1>7 DEF Inv

\* Every step keeps it.
LEMMA NextInv == Inv /\ [Next]_vars => Inv'
  BY TypesKept, PositionsKept, ShutdownKept, ListenersKept, RequestsKept DEF Inv

\* The inductive invariant, for any number of requests, checks and signals:
\* where main and the handler are, who listens to the bus, and how far each
\* request and its job have come (service.go, service_factory.go).
THEOREM InvHolds == Spec => []Inv
  <1>1. Init => Inv
    BY InitInv
  <1>2. Inv /\ [Next]_vars => Inv'
    BY NextInv
  <1> QED BY <1>1, <1>2, PTL DEF Spec

\* Every variable keeps its type.
THEOREM TypeCorrect == Spec => []TypeOK
  <1>1. Inv => TypeOK
    BY DEF Inv
  <1> QED BY <1>1, InvHolds, PTL

\* Whenever the signal comes, and however often, the handler never receives
\* from a closed channel, and Stop takes the store away from nobody who was
\* not told (service.go, Stop and handleSignals).
THEOREM StoppingIsSafe == Spec => []StopIsSafe
  <1>1. Inv => StopIsSafe
    <2> SUFFICES ASSUME Inv PROVE StopIsSafe
      OBVIOUS
    <2>1. NoPanic
      BY DEF Inv, Shutdown, StopPCs, NoPanic
    <2>2. StoreClosedQuietly
      BY DEF Inv, Shutdown, Drained, Stopped, StoreClosedQuietly, SchedulerDone
    <2> QED BY <2>1, <2>2 DEF StopIsSafe
  <1> QED BY <1>1, InvHolds, PTL

\* A connection that was accepted is known to the tracker, and a job that
\* has ended left its outcome there, for any number of requests at once.
THEOREM TrackersAreSound == Spec => []TrackersSound
  <1>1. Inv => TrackersSound
    <2> SUFFICES ASSUME Inv PROVE TrackersSound
      OBVIOUS
    <2>1. AcceptedIsTracked
      BY DEF Inv, RequestInv, JobInv, Known, AcceptedIsTracked
    <2>2. OutcomeIsTracked
      BY DEF Inv, JobInv, Outcome, OutcomeIsTracked
    <2> QED BY <2>1, <2>2 DEF TrackersSound
  <1> QED BY <1>1, InvHolds, PTL

\* Stop waits for the handler that runs it: a service stopped by a signal
\* always waits out its shutdown timeout.
THEOREM StopWaits == Spec => StopWaitsItOut
  <1>1. ASSUME [Next]_vars, running, ~ running'
        PROVE  expired
    <2>1. WaitGroup
      <3>1. CASE MainStep
        BY <1>1, <3>1 DEF MainStep, CreateDatabaseStore, CreateInfrastructureServices,
           CreateDomainServices, CreateApplicationServices, StartWorker, StartScheduler,
           StartAPI, WaitForShutdown, Stop
      <3>2. CASE HandlerStep
        BY <1>1, <3>2 DEF HandlerStep, StopStep, HandleSignals, Stop, StopAPI, Drain,
           StopChecks, CleanupActiveNodes, CloseBus, CloseStore, Cancel
      <3>3. ASSUME NEW x \in Routines, RoutineStep(x)
            PROVE  FALSE
        BY <1>1, <3>3 DEF RoutineStep, Publish, FireEvent, CallTracker, CallWorker, Work,
           process
      <3>4. CASE \/ StartConnectionWorker \/ ListenFails \/ Signal \/ Kill \/ Expire
                 \/ EndLoop \/ StopWorker \/ UNCHANGED vars
                 \/ \E k \in CheckKinds : Tick(k) \/ StartCheck(k) \/ EndCheck(k)
                 \/ \E r \in Requests : Arrive(r)
        BY <1>1, <3>4 DEF StartConnectionWorker, ListenFails, Signal, Kill, Expire, EndLoop,
           StopWorker, Tick, StartCheck, EndCheck, Arrive, vars, process
      <3> QED BY <1>1, <3>1, <3>2, <3>3, <3>4 DEF Next, Over
    <2> QED BY <2>1 DEF WaitGroup, Waiting
  <1>2. [Next]_vars => [running /\ ~ running' => expired]_vars
    BY <1>1
  <1> QED BY <1>2, PTL DEF Spec, StopWaitsItOut
=============================================================================
