-------------------------- MODULE RemoteAccessProofs --------------------------
(***************************************************************************)
(* Proofs about RemoteAccess, for any number of hosts and goroutines, any  *)
(* number of retries, any threshold and any list of health commands.       *)
(***************************************************************************)
EXTENDS RemoteAccess, FiniteSetTheorems, FunctionTheorems,
        WellFoundedInduction, TLAPS

-----------------------------------------------------------------------------
(***************************************************************************)
(* The circuit breaker as a value.                                         *)
(***************************************************************************)

\* What every breaker the interactor holds satisfies: a deadline that is
\* still to come belongs to an open breaker, and a closed one has counted
\* fewer failures than the threshold.
Sane(b) ==
  /\ b \in Breaker
  /\ ~ b.due => b.state = "open"
  /\ b.state = "closed" => b.failureCount < FailureThreshold

\* A new breaker is sane.
LEMMA NewIsSane == Sane(NewCircuitBreaker)
  BY ThresholdAssumption DEF Sane, NewCircuitBreaker, Breaker

\* recordResult keeps a breaker sane, whatever state the result finds it in.
LEMMA RecordIsSane ==
  ASSUME NEW b, Sane(b), NEW ok \in BOOLEAN
  PROVE  Sane(recordResult(b, ok))
  <1> USE ThresholdAssumption
  <1>1. Sane(onSuccess(b))
    <2>1. CASE b.state = "open"
      BY <2>1 DEF onSuccess
    <2>2. CASE b.state # "open"
      <3> DEFINE d == [b EXCEPT !.state = "closed", !.failureCount = 0]
      <3>1. onSuccess(b) = d
        BY <2>2 DEF onSuccess
      <3>a. b \in Breaker /\ 0 \in 0..FailureThreshold
        BY DEF Sane
      <3>2. /\ d \in Breaker /\ d.state = "closed" /\ d.failureCount = 0
            /\ d.due = b.due
        BY <3>a DEF Breaker
      <3> HIDE DEF d
      <3> QED BY <2>2, <3>1, <3>2 DEF Sane
    <2> QED BY <2>1, <2>2
  <1>2. Sane(onFailure(b))
    <2> DEFINE k == IF b.failureCount < FailureThreshold
                    THEN b.failureCount + 1 ELSE b.failureCount
               c == [b EXCEPT !.failureCount = k]
    <2>1. /\ c \in Breaker /\ c.state = b.state /\ c.due = b.due
          /\ c.failureCount = k /\ k \in Nat
      BY DEF Sane, Breaker
    <2>2. /\ Opened(c) \in Breaker /\ Opened(c).state = "open"
      BY <2>1 DEF Opened, Breaker
    <2>3. LET d == [c EXCEPT !.state = "half_open"]
          IN  d \in Breaker /\ d.state = "half_open" /\ d.due = c.due
      BY <2>1 DEF Breaker
    <2>4. onFailure(b) =
            CASE b.state = "closed" /\ c.failureCount >= FailureThreshold -> Opened(c)
              [] b.state = "half_open" -> Opened(c)
              [] b.state = "open" /\ b.due -> [c EXCEPT !.state = "half_open"]
              [] OTHER -> c
      BY DEF onFailure
    <2>5. Sane(Opened(c))
      BY <2>2 DEF Sane
    <2>6. b.state = "open" /\ b.due => Sane([c EXCEPT !.state = "half_open"])
      BY <2>1, <2>3 DEF Sane
    <2>7. /\ b.state = "closed" /\ c.failureCount < FailureThreshold => Sane(c)
          /\ b.state = "open" => Sane(c)
      BY <2>1 DEF Sane
    <2>8. b.state \in {"closed", "open", "half_open"}
      BY DEF Sane, Breaker
    <2>9. CASE b.state = "closed" /\ c.failureCount >= FailureThreshold
      BY <2>4, <2>5, <2>9
    <2>10. CASE b.state = "closed" /\ ~(c.failureCount >= FailureThreshold)
      <3>1. onFailure(b) = c
        BY <2>4, <2>10
      <3>2. c.failureCount < FailureThreshold
        BY <2>1, <2>10
      <3> QED BY <2>7, <2>10, <3>1, <3>2
    <2>11. CASE b.state = "half_open"
      BY <2>4, <2>5, <2>11
    <2>12. CASE b.state = "open" /\ b.due
      BY <2>4, <2>6, <2>12
    <2>13. CASE b.state = "open" /\ ~ b.due
      <3>1. onFailure(b) = c
        BY <2>4, <2>13
      <3> QED BY <2>7, <2>13, <3>1
    <2> QED BY <2>8, <2>9, <2>10, <2>11, <2>12, <2>13
  <1> QED BY <1>1, <1>2 DEF recordResult
-----------------------------------------------------------------------------
(***************************************************************************)
(* Names of clients.                                                       *)
(***************************************************************************)

\* A non-empty set of natural numbers has a least element.
LEMMA LeastNat ==
  ASSUME NEW T, T \subseteq Nat, T # {}
  PROVE  Min(T) \in T
  <1>1. PICK m \in T : \A k \in T : ~(<<k, m>> \in OpToRel(<, Nat))
    BY NatLessThanWellFounded, WFMin
  <1>2. \A k \in T : ~(k < m)
    BY <1>1 DEF OpToRel
  <1>3. \A k \in T : m =< k
    BY <1>2
  <1> QED BY <1>3 DEF Min

\* The values of a function on a finite set are at most as many as its
\* arguments.
LEMMA ImageSize ==
  ASSUME NEW S, IsFiniteSet(S), NEW f, f \in [S -> {f[s] : s \in S}]
  PROVE  /\ IsFiniteSet({f[s] : s \in S})
         /\ Cardinality({f[s] : s \in S}) <= Cardinality(S)
  <1>1. f \in Surjection(S, {f[s] : s \in S})
    BY DEF Surjection
  <1> QED BY <1>1, FS_Surjection

\* A worker without a client finds a name for a new one: the pool holds at
\* most one client per host and the other workers at most one each.
LEMMA FreshExists ==
  ASSUME TypeOK, NEW x \in Workers, proc[x].client = None
  PROVE  /\ Fresh \in Clients
         /\ ~ Held(Fresh)
         /\ \A h \in Hosts : pool[h] # Fresh
  <1> DEFINE Others == Workers \ {x}
             f == [w \in Others |-> proc[w].client]
             A == {f[w] : w \in Others}
             B == {pool[h] : h \in Hosts}
             Free == {c \in Clients : ~ Held(c) /\ \A h \in Hosts : pool[h] # c}
  <1>1. /\ IsFiniteSet(Hosts) /\ IsFiniteSet(Workers) /\ Clients \subseteq Nat
        /\ Cardinality(Clients) >= Cardinality(Hosts) + Cardinality(Workers)
        /\ None \notin Clients
    BY RemoteAssumption
  <1>2. /\ IsFiniteSet(Others)
        /\ Cardinality(Others) = Cardinality(Workers) - 1
    BY <1>1, FS_RemoveElement
  <1>3. IsFiniteSet(A) /\ Cardinality(A) <= Cardinality(Others)
    <2>1. f \in [Others -> {f[w] : w \in Others}]
      OBVIOUS
    <2> HIDE DEF f, Others
    <2> QED BY <1>2, <2>1, ImageSize
  <1>4. IsFiniteSet(B) /\ Cardinality(B) <= Cardinality(Hosts)
    <2>1. pool \in [Hosts -> {pool[h] : h \in Hosts}]
      BY DEF TypeOK
    <2> QED BY <1>1, <2>1, ImageSize
  <1>5. Free # {}
    <2> SUFFICES ASSUME Free = {} PROVE FALSE
      OBVIOUS
    <2>1. \A c \in Clients : c \in A \cup B
      <3> SUFFICES ASSUME NEW c \in Clients, c \notin B PROVE c \in A
        OBVIOUS
      <3>1. PICK w \in Workers : proc[w].client = c
        BY DEF Held
      <3>2. w \in Others /\ f[w] = c
        BY <1>1, <3>1
      <3> QED BY <3>2
    <2>2. Clients \in SUBSET (A \cup B)
      BY <2>1
    <2> HIDE DEF A, B, Free, Others
    <2>3. /\ IsFiniteSet(A \cup B)
          /\ Cardinality(A \cup B) =
                Cardinality(A) + Cardinality(B) - Cardinality(A \cap B)
      BY <1>3, <1>4, FS_Union
    <2>4. IsFiniteSet(Clients) /\ Cardinality(Clients) <= Cardinality(A \cup B)
      BY <2>2, <2>3, FS_Subset
    <2>5. IsFiniteSet(A \cap B)
      BY <1>3, FS_Intersection
    <2>6. /\ Cardinality(A) \in Nat /\ Cardinality(B) \in Nat
          /\ Cardinality(A \cap B) \in Nat /\ Cardinality(A \cup B) \in Nat
          /\ Cardinality(Clients) \in Nat /\ Cardinality(Hosts) \in Nat
          /\ Cardinality(Workers) \in Nat
      BY <1>1, <1>3, <1>4, <2>3, <2>4, <2>5, FS_CardinalityType
    <2> QED BY <1>1, <1>2, <1>3, <1>4, <2>3, <2>4, <2>6
  <1>6. Fresh \in Free
    <2>1. Free \subseteq Nat
      BY <1>1
    <2> QED BY <1>5, <2>1, LeastNat DEF Fresh
  <1> QED BY <1>6
-----------------------------------------------------------------------------
(***************************************************************************)
(* The inductive invariant.                                                *)
(***************************************************************************)

\* What a worker's frame holds at each of its positions: a host from its
\* first step on, a client from the pool's answer till the result is counted,
\* a caller's failure only between the failure and the count, and the breaker
\* of a caller's host exists.
GoodFrame(p, b) ==
  /\ p.pc # "idle" => p.host \in Hosts
  /\ p.client \in Clients <=> p.pc \in {"run", "session", "close", "closing", "record"}
  /\ p.pc \in {"close", "closing"} => p.closes \in 1..2
  /\ p.pc = "backoff" => p.kind = "call"
  /\ p.kind = "call" =>
        /\ p.pc \in {"close", "closing"} => p.closes = 1
        /\ p.pc \notin {"close", "closing", "record"} => p.ok
        /\ p.pc # "idle" => b[p.host] # None

Inv ==
  /\ TypeOK
  /\ \A h \in Hosts : breakers[h] # None => Sane(breakers[h])
  /\ \A x \in Workers : GoodFrame(proc[x], breakers)
  /\ PoolSound

\* Closing a client that nobody runs a command on, a fresh name or none at
\* all leaves the connections of the running commands alone.
LEMMA CloseIsSafe ==
  ASSUME Inv, NEW c, \A y \in Workers : proc[y].pc = "session" => proc[y].client # c
  PROVE  \A y \in Workers : proc[y].pc = "session" => Closed(c)[proc[y].client]
  <1>1. \A y \in Workers : proc[y].pc = "session" =>
           proc[y].client \in Clients /\ conn[proc[y].client]
    BY DEF Inv, GoodFrame, PoolSound, RunningNotClosed
  <1> QED BY <1>1 DEF Closed

\* What a step of one worker has to show for the invariant: what it writes
\* itself, and what it does to the clients the others are using.
LEMMA StepKeeps ==
  ASSUME Inv, NEW x \in Workers, NEW q \in Proc,
         proc' = [proc EXCEPT ![x] = q],
         breakers' \in [Hosts -> Breaker \union {None}],
         \A h \in Hosts : breakers'[h] # None => Sane(breakers'[h]),
         \A h \in Hosts : breakers[h] # None => breakers'[h] # None,
         pool' \in [Hosts -> Clients \union {None}],
         mutex' \in Workers \union {Cleaner, None},
         conn' \in [Clients -> BOOLEAN],
         GoodFrame(q, breakers'),
         q.pc = "session" => conn'[q.client],
         q.kind = "call" /\ q.pc = "record" /\ ~ q.ok => pool'[q.host] # q.client,
         \A y \in Workers \ {x} : proc[y].pc = "session" => conn'[proc[y].client],
         \A y \in Workers \ {x} :
            proc[y].kind = "call" /\ proc[y].pc = "record" /\ ~ proc[y].ok =>
               pool'[proc[y].host] # proc[y].client
  PROVE  Inv'
  <1>1. /\ proc \in [Workers -> Proc]
        /\ proc'[x] = q /\ \A y \in Workers \ {x} : proc'[y] = proc[y]
    BY DEF Inv, TypeOK
  <1>2. TypeOK'
    BY DEF Inv, TypeOK
  <1>3. ASSUME NEW y \in Workers
        PROVE  GoodFrame(proc'[y], breakers')
    <2>1. CASE y = x
      BY <1>1, <2>1
    <2>2. CASE y # x
      <3>1. GoodFrame(proc[y], breakers)
        BY DEF Inv
      <3> QED BY <1>1, <2>2, <3>1 DEF GoodFrame
    <2> QED BY <2>1, <2>2
  <1>4. RunningNotClosed'
    BY <1>1 DEF RunningNotClosed
  <1>5. FailedNotPooled'
    BY <1>1 DEF FailedNotPooled, Callers
  <1> QED BY <1>2, <1>3, <1>4, <1>5 DEF Inv, PoolSound

\* A new client in the pool leaves the clients of the others alone.
LEMMA CreateKeeps ==
  ASSUME Inv, NEW x \in Workers, proc[x].pc \in {"lookup", "evict"},
         \A y \in Workers : proc[y].pc = "session" => proc[y].client # pool[proc[x].host],
         createNewConnection(x), UNCHANGED breakers
  PROVE  Inv'
  <1>1. /\ proc[x] \in Proc /\ proc[x].host \in Hosts /\ proc[x].client = None
        /\ \A h \in Hosts : pool[h] \in Clients \union {None}
        /\ pool \in [Hosts -> Clients \union {None}]
        /\ conn \in [Clients -> BOOLEAN]
    BY DEF Inv, TypeOK, GoodFrame, Proc
  <1> DEFINE c == Fresh
             q == [proc[x] EXCEPT !.pc = "run", !.client = c]
  <1>2. c \in Clients /\ ~ Held(c) /\ \A h \in Hosts : pool[h] # c
    BY <1>1, FreshExists DEF Inv
  <1>3. /\ proc' = [proc EXCEPT ![x] = q]
        /\ pool' = [pool EXCEPT ![proc[x].host] = c]
        /\ mutex' = None
        /\ conn' = [n \in Clients |-> conn[n] /\ n \notin {c, pool[proc[x].host]}]
    BY DEF createNewConnection, Pooled
  <1> HIDE DEF c
  <1>4. /\ q \in Proc /\ q.pc = "run" /\ q.client = c /\ q.kind = proc[x].kind
        /\ q.host = proc[x].host /\ q.ok = proc[x].ok
    BY <1>1, <1>2 DEF Proc, PCs
  <1> HIDE DEF q
  <1>5. GoodFrame(q, breakers')
    <2>1. GoodFrame(proc[x], breakers)
      BY DEF Inv
    <2> QED BY <1>1, <1>2, <1>4, <2>1 DEF GoodFrame
  <1>6. \A y \in Workers \ {x} : proc[y].pc = "session" => conn'[proc[y].client]
    <2>1. \A y \in Workers : proc[y].pc = "session" =>
             proc[y].client \in Clients /\ conn[proc[y].client]
      BY DEF Inv, GoodFrame, PoolSound, RunningNotClosed
    <2> QED BY <1>2, <1>3, <2>1 DEF Held
  <1>7. \A y \in Workers \ {x} :
           proc[y].kind = "call" /\ proc[y].pc = "record" /\ ~ proc[y].ok =>
              pool'[proc[y].host] # proc[y].client
    <2>1. \A y \in Workers \ {x} :
             proc[y].kind = "call" /\ proc[y].pc = "record" /\ ~ proc[y].ok =>
                /\ pool[proc[y].host] # proc[y].client
                /\ proc[y].host \in Hosts
      BY DEF Inv, GoodFrame, PoolSound, FailedNotPooled, Callers
    <2> QED BY <1>1, <1>2, <1>3, <2>1 DEF Held
  <1>8. /\ pool' \in [Hosts -> Clients \union {None}]
        /\ conn' \in [Clients -> BOOLEAN]
    BY <1>1, <1>2, <1>3
  <1>9. /\ breakers' \in [Hosts -> Breaker \union {None}]
        /\ \A h \in Hosts : breakers'[h] # None => Sane(breakers'[h])
        /\ \A h \in Hosts : breakers[h] # None => breakers'[h] # None
    BY DEF Inv, TypeOK
  <1> QED BY <1>3, <1>4, <1>5, <1>6, <1>7, <1>8, <1>9, StepKeeps

\* The end of an attempt: another one after a pause, or no more.
LEMMA AfterFailureFrame ==
  ASSUME NEW p \in Proc, p.client = None, p.kind = "call"
  PROVE  LET q == AfterFailure(p)
         IN  /\ q \in Proc /\ q.pc \in {"backoff", "idle"}
             /\ q.client = None /\ q.kind = "call" /\ q.ok
             /\ q.pc # "idle" => q.host = p.host
  <1> DEFINE r == [p EXCEPT !.pc = "backoff", !.ok = TRUE]
  <1>1. /\ r \in Proc /\ r.pc = "backoff" /\ r.client = None
        /\ r.kind = "call" /\ r.ok /\ r.host = p.host
    BY DEF Proc, PCs
  <1>2. /\ Idle \in Proc /\ Idle.pc = "idle" /\ Idle.client = None
        /\ Idle.kind = "call" /\ Idle.ok
    BY DEF Idle, Proc, PCs
  <1>3. AfterFailure(p) \in {r, Idle}
    BY DEF AfterFailure
  <1> HIDE DEF r
  <1> QED BY <1>1, <1>2, <1>3

\* An attempt is let through to the pool only when the breaker says so.
LEMMA AdmitFrame ==
  ASSUME NEW p \in Proc, p.client = None, p.kind = "call", p.ok
  PROVE  LET q == Admit(p)
         IN  /\ q \in Proc /\ q.pc \in {"get", "backoff", "idle"}
             /\ q.client = None /\ q.kind = "call" /\ q.ok
             /\ q.pc # "idle" => q.host = p.host
             /\ q.pc = "get" => canExecute(getCircuitBreaker(p.host))
  <1> DEFINE r == [p EXCEPT !.pc = "get"]
  <1>1. /\ r \in Proc /\ r.pc = "get" /\ r.client = None
        /\ r.kind = "call" /\ r.ok /\ r.host = p.host
    BY DEF Proc, PCs
  <1>2. /\ canExecute(getCircuitBreaker(p.host)) => Admit(p) = r
        /\ ~ canExecute(getCircuitBreaker(p.host)) => Admit(p) = AfterFailure(p)
    BY DEF Admit
  <1> HIDE DEF r
  <1> QED BY <1>1, <1>2, AfterFailureFrame

\* A worker moves on and leaves pool, connections and breakers alone.
LEMMA LocalKeeps ==
  ASSUME Inv, NEW x \in Workers, NEW q \in Proc,
         proc' = [proc EXCEPT ![x] = q],
         UNCHANGED <<breakers, pool, conn>>,
         mutex' \in Workers \union {Cleaner, None},
         GoodFrame(q, breakers), q.pc # "session",
         ~ (q.kind = "call" /\ q.pc = "record" /\ ~ q.ok)
  PROVE  Inv'
  <1>1. /\ \A y \in Workers \ {x} : proc[y].pc = "session" => conn'[proc[y].client]
        /\ \A y \in Workers \ {x} :
              proc[y].kind = "call" /\ proc[y].pc = "record" /\ ~ proc[y].ok =>
                 pool'[proc[y].host] # proc[y].client
    BY DEF Inv, PoolSound, RunningNotClosed, FailedNotPooled, Callers
  <1>2. /\ breakers' \in [Hosts -> Breaker \union {None}]
        /\ \A h \in Hosts : breakers'[h] # None => Sane(breakers'[h])
        /\ \A h \in Hosts : breakers[h] # None => breakers'[h] # None
        /\ pool' \in [Hosts -> Clients \union {None}]
        /\ conn' \in [Clients -> BOOLEAN]
        /\ GoodFrame(q, breakers')
    BY DEF Inv, TypeOK
  <1> QED BY <1>1, <1>2, StepKeeps

\* What the invariant says of one worker.
LEMMA Frame ==
  ASSUME Inv, NEW x \in Workers
  PROVE  /\ proc[x] \in Proc /\ proc[x].pc \in PCs
         /\ GoodFrame(proc[x], breakers)
         /\ proc[x].client \in Clients \union {None}
         /\ proc[x].pc \in {"idle", "get", "lookup", "evict", "backoff"} =>
               proc[x].client = None
         /\ proc[x].pc \in {"run", "session", "close", "closing", "record"} =>
               proc[x].client \in Clients
         /\ None \notin Clients
  BY RemoteAssumption DEF Inv, TypeOK, Proc, GoodFrame, PCs

\* The command of the worker failed: the client is to be closed, once by a
\* caller, once or twice by a health check.
LEMMA BrokenFrame ==
  ASSUME Inv, NEW x \in Workers, proc[x].pc \in {"run", "session"}
  PROVE  \E q \in Proc : /\ Broken(x) = [proc EXCEPT ![x] = q]
                         /\ GoodFrame(q, breakers) /\ q.pc = "close"
  <1>1. /\ proc[x] \in Proc /\ GoodFrame(proc[x], breakers)
        /\ proc[x].client \in Clients
    BY Frame
  <1> DEFINE k == ClosesOf(x)
             b == proc[x].ok /\ ~ Spoils(x)
             q == [proc[x] EXCEPT !.pc = "close", !.ok = b, !.closes = k]
  <1>2. k \in 1..2 /\ (proc[x].kind = "call" => k = 1)
    BY DEF ClosesOf
  <1>3. Broken(x) = [proc EXCEPT ![x] = q]
    BY DEF Broken
  <1>4. b \in BOOLEAN
    BY <1>1 DEF Spoils
  <1> HIDE DEF k, b
  <1>5. /\ q \in Proc /\ q.pc = "close" /\ q.client = proc[x].client
        /\ q.closes = k /\ q.kind = proc[x].kind /\ q.host = proc[x].host
    <2>1. k \in 0..2 /\ "close" \in PCs
      BY <1>2 DEF PCs
    <2> QED BY <1>1, <1>4, <2>1 DEF Proc
  <1> HIDE DEF q
  <1>6. GoodFrame(q, breakers)
    BY <1>1, <1>2, <1>5 DEF GoodFrame
  <1> QED BY <1>3, <1>5, <1>6

\* A caller comes in, or comes back after a pause; its breaker exists then.
LEMMA EntryKeeps ==
  ASSUME Inv, NEW x \in Workers, NEW p \in Proc, p.client = None,
         p.kind = "call", p.ok, p.host \in Hosts, NEW h \in Hosts, p.host = h,
         proc' = [proc EXCEPT ![x] = Admit(p)],
         breakers' = [breakers EXCEPT ![h] = getCircuitBreaker(h)],
         UNCHANGED <<pool, mutex, conn>>
  PROVE  Inv'
  <1> DEFINE q == Admit(p)
  <1>1. /\ q \in Proc /\ q.pc \in {"get", "backoff", "idle"}
        /\ q.client = None /\ q.kind = "call" /\ q.ok
        /\ q.pc # "idle" => q.host = p.host
    BY AdmitFrame
  <1>2. /\ getCircuitBreaker(h) # None /\ Sane(getCircuitBreaker(h))
        /\ getCircuitBreaker(h) \in Breaker
    BY NewIsSane, RemoteAssumption DEF getCircuitBreaker, Inv, Sane
  <1>3. /\ breakers' \in [Hosts -> Breaker \union {None}]
        /\ \A g \in Hosts : breakers'[g] # None => Sane(breakers'[g])
        /\ \A g \in Hosts : breakers[g] # None => breakers'[g] # None
        /\ breakers'[h] # None
    BY <1>2 DEF Inv, TypeOK
  <1>4. GoodFrame(q, breakers')
    BY <1>1, <1>3, RemoteAssumption DEF GoodFrame
  <1>5. /\ \A y \in Workers \ {x} : proc[y].pc = "session" => conn'[proc[y].client]
        /\ \A y \in Workers \ {x} :
              proc[y].kind = "call" /\ proc[y].pc = "record" /\ ~ proc[y].ok =>
                 pool'[proc[y].host] # proc[y].client
    BY DEF Inv, PoolSound, RunningNotClosed, FailedNotPooled, Callers
  <1>6. /\ pool' \in [Hosts -> Clients \union {None}]
        /\ mutex' \in Workers \union {Cleaner, None}
        /\ conn' \in [Clients -> BOOLEAN]
    BY DEF Inv, TypeOK
  <1>7. proc' = [proc EXCEPT ![x] = q]
    OBVIOUS
  <1> HIDE DEF q
  <1> QED BY <1>1, <1>3, <1>4, <1>5, <1>6, <1>7, StepKeeps

\* A step that only moves the worker's position.
LEMMA GotoFrame ==
  ASSUME Inv, NEW x \in Workers, NEW pc \in PCs, Goto(x, pc)
  PROVE  \E q \in Proc : /\ proc' = [proc EXCEPT ![x] = q]
                         /\ q.pc = pc /\ q.client = proc[x].client
                         /\ q.host = proc[x].host /\ q.kind = proc[x].kind
                         /\ q.ok = proc[x].ok /\ q.closes = proc[x].closes
  <1> DEFINE q == [proc[x] EXCEPT !.pc = pc]
  <1>1. proc' = [proc EXCEPT ![x] = q]
    BY DEF Goto
  <1>2. proc[x] \in Proc
    BY Frame
  <1>3. /\ q \in Proc /\ q.pc = pc /\ q.client = proc[x].client
        /\ q.host = proc[x].host /\ q.kind = proc[x].kind
        /\ q.ok = proc[x].ok /\ q.closes = proc[x].closes
    BY <1>2 DEF Proc
  <1> HIDE DEF q
  <1> QED BY <1>1, <1>3

\* Every step of a worker inside a call or a health check keeps the
\* invariant.
LEMMA WorkerKeeps ==
  ASSUME Inv, NEW x \in Workers, Step(x)
  PROVE  Inv'
  <1>1. /\ proc[x] \in Proc /\ GoodFrame(proc[x], breakers) /\ None \notin Clients
        /\ proc[x].client \in Clients \union {None}
        /\ proc[x].host \in Hosts \union {None} /\ proc[x].ok \in BOOLEAN
        /\ proc[x].kind \in {"call", "check"} /\ proc[x].step \in Nat
        /\ proc[x].closes \in 0..2
    BY Frame DEF Proc
  <1>2. /\ proc \in [Workers -> Proc]
        /\ breakers \in [Hosts -> Breaker \union {None}]
        /\ pool \in [Hosts -> Clients \union {None}]
        /\ mutex \in Workers \union {Cleaner, None}
        /\ conn \in [Clients -> BOOLEAN]
    BY DEF Inv, TypeOK
  <1>3. /\ \A y \in Workers \ {x} : proc[y].pc = "session" =>
              proc[y].client \in Clients /\ conn[proc[y].client]
        /\ \A y \in Workers \ {x} :
              proc[y].kind = "call" /\ proc[y].pc = "record" /\ ~ proc[y].ok =>
                 /\ pool[proc[y].host] # proc[y].client
                 /\ proc[y].host \in Hosts /\ proc[y].client \in Clients
        /\ \A h \in Hosts : breakers[h] # None => Sane(breakers[h])
    BY DEF Inv, PoolSound, RunningNotClosed, FailedNotPooled, Callers, GoodFrame
  <1>5. CASE Backoff(x)
    <2>1. /\ proc[x].pc = "backoff" /\ proc[x].kind = "call" /\ proc[x].ok
          /\ proc[x].client = None /\ proc[x].host \in Hosts
          /\ breakers[proc[x].host] # None
          /\ UNCHANGED <<breakers, pool, mutex, conn>>
      BY <1>1, <1>5 DEF Backoff, GoodFrame
    <2>2. CASE proc' = [proc EXCEPT ![x] = Idle]
      <3>1. Idle \in Proc /\ GoodFrame(Idle, breakers) /\ Idle.pc = "idle"
        BY <1>1 DEF Idle, Proc, PCs, GoodFrame
      <3> QED BY <1>2, <2>1, <2>2, <3>1, LocalKeeps
    <2>3. CASE proc' = [proc EXCEPT ![x] = Admit([proc[x] EXCEPT !.step = @ + 1])]
      <3> DEFINE p == [proc[x] EXCEPT !.step = proc[x].step + 1]
      <3>1. proc' = [proc EXCEPT ![x] = Admit(p)]
        BY <2>3
      <3>2. /\ p \in Proc /\ p.client = None /\ p.kind = "call" /\ p.ok
            /\ p.host = proc[x].host
        BY <1>1, <2>1 DEF Proc
      <3> HIDE DEF p
      <3>3. breakers' = [breakers EXCEPT ![p.host] = getCircuitBreaker(p.host)]
        BY <1>2, <2>1, <3>2 DEF getCircuitBreaker
      <3> QED BY <2>1, <3>1, <3>2, <3>3, EntryKeeps
    <2> QED BY <1>5, <2>2, <2>3 DEF Backoff
  <1>6. CASE LockPool(x)
    <2> DEFINE pc == IF proc[x].pc = "get" THEN "lookup" ELSE "closing"
    <2>1. /\ proc[x].pc \in {"get", "close"} /\ Goto(x, pc)
          /\ mutex' = x /\ UNCHANGED <<breakers, pool, conn>>
      BY <1>6 DEF LockPool
    <2>2. PICK q \in Proc : /\ proc' = [proc EXCEPT ![x] = q]
                            /\ q.pc = pc /\ q.client = proc[x].client
                            /\ q.host = proc[x].host /\ q.kind = proc[x].kind
                            /\ q.ok = proc[x].ok /\ q.closes = proc[x].closes
      <3>1. pc \in PCs
        BY DEF PCs
      <3> HIDE DEF pc
      <3> QED BY <2>1, <3>1, GotoFrame
    <2>3. GoodFrame(q, breakers) /\ q.pc \in {"lookup", "closing"}
      BY <1>1, <2>1, <2>2 DEF GoodFrame
    <2> QED BY <2>1, <2>2, <2>3, LocalKeeps
  <1>7. CASE GetConnection(x)
    <2> DEFINE c == pool[proc[x].host]
    <2>1. /\ proc[x].pc = "lookup" /\ proc[x].host \in Hosts
          /\ proc[x].client = None /\ UNCHANGED breakers
          /\ c \in Clients \union {None}
      BY <1>1, <1>2, <1>7 DEF GetConnection, GoodFrame
    <2>2. CASE c = None /\ createNewConnection(x)
      <3>1. \A y \in Workers : proc[y].pc = "session" => proc[y].client # c
        BY <1>1, <2>1, <2>2, <1>3
      <3> QED BY <2>1, <2>2, <3>1, CreateKeeps
    <2>3. CASE c # None /\ ~ Busy(c) /\ Pooled(x, c) /\ UNCHANGED conn
      <3> DEFINE q == [proc[x] EXCEPT !.pc = "run", !.client = c]
      <3>1. /\ pool' = [pool EXCEPT ![proc[x].host] = c] /\ mutex' = None
            /\ proc' = [proc EXCEPT ![x] = q]
        BY <2>3 DEF Pooled
      <3>2. pool' = pool
        BY <1>2, <2>1, <3>1
      <3>3. /\ q \in Proc /\ q.pc = "run" /\ q.client = c /\ q.kind = proc[x].kind
            /\ q.host = proc[x].host /\ q.ok = proc[x].ok
        BY <1>1, <2>1 DEF Proc, PCs
      <3> HIDE DEF q
      <3>4. GoodFrame(q, breakers)
        BY <1>1, <2>1, <2>3, <3>3 DEF GoodFrame
      <3> QED BY <2>1, <2>3, <3>1, <3>2, <3>3, <3>4, LocalKeeps
    <2>4. CASE Goto(x, "evict") /\ UNCHANGED <<pool, mutex, conn>>
      <3>1. PICK q \in Proc : /\ proc' = [proc EXCEPT ![x] = q]
                              /\ q.pc = "evict" /\ q.client = proc[x].client
                              /\ q.host = proc[x].host /\ q.kind = proc[x].kind
                              /\ q.ok = proc[x].ok /\ q.closes = proc[x].closes
        BY <2>4, GotoFrame DEF PCs
      <3>2. GoodFrame(q, breakers)
        BY <1>1, <2>1, <3>1 DEF GoodFrame
      <3> QED BY <1>2, <2>1, <2>4, <3>1, <3>2, LocalKeeps
    <2> QED BY <1>7, <2>2, <2>3, <2>4 DEF GetConnection
  <1>8. CASE Evict(x)
    <2>1. /\ proc[x].pc = "evict" /\ createNewConnection(x) /\ UNCHANGED breakers
          /\ ~ Busy(pool[proc[x].host])
      BY <1>8 DEF Evict
    <2> QED BY <2>1, CreateKeeps DEF Busy
  <1>9. CASE RunCommand(x)
    <2>1. /\ proc[x].pc = "run" /\ proc[x].client \in Clients
          /\ ~ Busy(proc[x].client)
          /\ UNCHANGED <<breakers, pool, mutex>>
      BY <1>1, <1>9 DEF RunCommand, GoodFrame
    <2>2. CASE conn' = Connect(proc[x].client) /\ Goto(x, "session")
      <3>1. PICK q \in Proc : /\ proc' = [proc EXCEPT ![x] = q]
                              /\ q.pc = "session" /\ q.client = proc[x].client
                              /\ q.host = proc[x].host /\ q.kind = proc[x].kind
                              /\ q.ok = proc[x].ok /\ q.closes = proc[x].closes
        BY <2>2, GotoFrame DEF PCs
      <3>2. GoodFrame(q, breakers')
        BY <1>1, <2>1, <3>1 DEF GoodFrame
      <3>3. /\ conn' \in [Clients -> BOOLEAN] /\ conn'[q.client]
            /\ \A d \in Clients : conn[d] => conn'[d]
        BY <1>2, <2>1, <2>2, <3>1 DEF Connect
      <3> QED BY <1>2, <1>3, <2>1, <3>1, <3>2, <3>3, StepKeeps
    <2>3. CASE conn' = Closed(proc[x].client) /\ proc' = Broken(x)
      <3>1. PICK q \in Proc : /\ proc' = [proc EXCEPT ![x] = q]
                              /\ GoodFrame(q, breakers) /\ q.pc = "close"
        BY <2>1, <2>3, BrokenFrame
      <3>2. /\ conn' \in [Clients -> BOOLEAN]
            /\ \A y \in Workers : proc[y].pc = "session" => conn'[proc[y].client]
        <4>1. conn' \in [Clients -> BOOLEAN]
          BY <1>2, <2>3 DEF Closed
        <4>2. \A y \in Workers : proc[y].pc = "session" =>
                 proc[y].client # proc[x].client
          BY <2>1 DEF Busy
        <4> QED BY <2>3, <4>1, <4>2, CloseIsSafe
      <3>3. GoodFrame(q, breakers')
        BY <2>1, <3>1
      <3> QED BY <1>2, <1>3, <2>1, <3>1, <3>2, <3>3, StepKeeps
    <2> QED BY <1>9, <2>2, <2>3 DEF RunCommand
  <1>10. CASE Answer(x)
    <2>1. /\ proc[x].pc = "session" /\ UNCHANGED <<breakers, pool, mutex, conn>>
      BY <1>10 DEF Answer
    <2>2. CASE Goto(x, "record")
      <3>1. PICK q \in Proc : /\ proc' = [proc EXCEPT ![x] = q]
                              /\ q.pc = "record" /\ q.client = proc[x].client
                              /\ q.host = proc[x].host /\ q.kind = proc[x].kind
                              /\ q.ok = proc[x].ok /\ q.closes = proc[x].closes
        BY <2>2, GotoFrame DEF PCs
      <3>2. GoodFrame(q, breakers) /\ (q.kind = "call" => q.ok)
        BY <1>1, <2>1, <3>1 DEF GoodFrame
      <3> QED BY <1>2, <2>1, <3>1, <3>2, LocalKeeps
    <2>3. CASE proc' = Broken(x)
      <3>1. PICK q \in Proc : /\ proc' = [proc EXCEPT ![x] = q]
                              /\ GoodFrame(q, breakers) /\ q.pc = "close"
        BY <2>1, <2>3, BrokenFrame
      <3> QED BY <1>2, <2>1, <3>1, LocalKeeps
    <2> QED BY <1>10, <2>2, <2>3 DEF Answer
  <1>11. CASE CloseConnection(x)
    <2> DEFINE h == proc[x].host
               k == proc[x].closes - 1
               pc == IF proc[x].closes > 1 THEN "close" ELSE "record"
               q == [proc[x] EXCEPT !.closes = k, !.pc = pc]
    <2>1. /\ proc[x].pc = "closing" /\ h \in Hosts /\ proc[x].client \in Clients
          /\ proc[x].closes \in 1..2 /\ (proc[x].kind = "call" => proc[x].closes = 1)
      BY <1>1, <1>11 DEF CloseConnection, GoodFrame
    <2>2. /\ ~ Busy(pool[h]) /\ conn' = Closed(pool[h])
          /\ pool' = [pool EXCEPT ![h] = None] /\ mutex' = None
          /\ proc' = [proc EXCEPT ![x] = q] /\ UNCHANGED breakers
      BY <1>11 DEF CloseConnection
    <2>3. /\ k \in 0..2 /\ pc \in {"close", "record"}
          /\ pc = "close" => k \in 1..2
          /\ proc[x].kind = "call" => pc = "record"
      BY <2>1
    <2> HIDE DEF k, pc
    <2>4. /\ q \in Proc /\ q.pc = pc /\ q.client = proc[x].client
          /\ q.host = h /\ q.kind = proc[x].kind
          /\ q.ok = proc[x].ok /\ q.closes = k
      <3>1. pc \in PCs
        BY <2>3 DEF PCs
      <3> QED BY <1>1, <2>3, <3>1 DEF Proc
    <2> HIDE DEF q
    <2>5. GoodFrame(q, breakers')
      BY <1>1, <2>1, <2>2, <2>3, <2>4 DEF GoodFrame
    <2>6. /\ conn' \in [Clients -> BOOLEAN]
          /\ \A y \in Workers : proc[y].pc = "session" => conn'[proc[y].client]
      <3>1. conn' \in [Clients -> BOOLEAN]
        BY <1>2, <2>2 DEF Closed
      <3>2. \A y \in Workers : proc[y].pc = "session" => proc[y].client # pool[h]
        BY <2>2 DEF Busy
      <3> QED BY <2>2, <3>1, <3>2, CloseIsSafe
    <2>7. /\ pool' \in [Hosts -> Clients \union {None}] /\ pool'[h] = None
          /\ \A g \in Hosts : pool'[g] \in {pool[g], None}
      BY <1>2, <2>1, <2>2
    <2>8. \A y \in Workers \ {x} :
             proc[y].kind = "call" /\ proc[y].pc = "record" /\ ~ proc[y].ok =>
                pool'[proc[y].host] # proc[y].client
      BY <1>1, <1>3, <2>7
    <2>9. pool'[q.host] # q.client
      BY <1>1, <2>1, <2>4, <2>7
    <2> QED BY <1>2, <1>3, <2>2, <2>3, <2>4, <2>5, <2>6, <2>7, <2>8, <2>9, StepKeeps
  <1>12. ASSUME NEW q \in Proc, proc' = [proc EXCEPT ![x] = q],
                proc[x].pc = "record", conn' = Dropped(x),
                UNCHANGED <<pool, mutex>>,
                breakers' \in [Hosts -> Breaker \union {None}],
                \A h \in Hosts : breakers'[h] # None => Sane(breakers'[h]),
                \A h \in Hosts : breakers[h] # None => breakers'[h] # None,
                GoodFrame(q, breakers'), q.pc \in {"idle", "get", "backoff"}
         PROVE  Inv'
    <2>1. conn' \in [Clients -> BOOLEAN]
      BY <1>2, <1>12 DEF Dropped
    <2>2. \A y \in Workers \ {x} : proc[y].pc = "session" => conn'[proc[y].client]
      BY <1>3, <1>12 DEF Dropped
    <2> QED BY <1>2, <1>3, <1>12, <2>1, <2>2, StepKeeps
  <1> DEFINE old == [proc[x] EXCEPT !.client = None]
  <1>13. /\ old \in Proc /\ old.client = None /\ old.kind = proc[x].kind
         /\ old.host = proc[x].host
    BY <1>1 DEF Proc
  <1>14. Idle \in Proc /\ GoodFrame(Idle, breakers') /\ Idle.pc = "idle"
    BY <1>1 DEF Idle, Proc, PCs, GoodFrame
  <1>15. CASE RecordAttempt(x)
    <2>1. /\ proc[x].pc = "record" /\ proc[x].kind = "call"
          /\ proc[x].host \in Hosts /\ breakers[proc[x].host] # None
          /\ conn' = Dropped(x) /\ UNCHANGED <<pool, mutex>>
      BY <1>1, <1>15 DEF RecordAttempt, GoodFrame
    <2>2. /\ breakers' = [breakers EXCEPT ![proc[x].host] =
                             recordResult(breakers[proc[x].host], proc[x].ok)]
          /\ proc' = [proc EXCEPT ![x] = IF proc[x].ok THEN Idle ELSE AfterFailure(old)]
      BY <1>15 DEF RecordAttempt
    <2>3. Sane(recordResult(breakers[proc[x].host], proc[x].ok))
      BY <1>1, <1>3, <2>1, RecordIsSane
    <2>4. /\ breakers' \in [Hosts -> Breaker \union {None}]
          /\ \A h \in Hosts : breakers'[h] # None => Sane(breakers'[h])
          /\ \A h \in Hosts : breakers[h] # None => breakers'[h] # None
      BY <1>2, <1>3, <2>1, <2>2, <2>3, RemoteAssumption DEF Sane
    <2>5. CASE proc' = [proc EXCEPT ![x] = Idle]
      BY <1>12, <1>14, <2>1, <2>4, <2>5
    <2>6. CASE proc' = [proc EXCEPT ![x] = AfterFailure(old)]
      <3> DEFINE q == AfterFailure(old)
      <3>1. /\ q \in Proc /\ q.pc \in {"backoff", "idle"}
            /\ q.client = None /\ q.kind = "call" /\ q.ok
            /\ q.pc # "idle" => q.host = old.host
        <4> HIDE DEF old
        <4> QED BY <1>13, <2>1, AfterFailureFrame
      <3>2. proc' = [proc EXCEPT ![x] = q]
        BY <2>6
      <3> HIDE DEF q, old
      <3>3. GoodFrame(q, breakers')
        BY <1>1, <1>13, <2>1, <2>4, <3>1 DEF GoodFrame
      <3> QED BY <1>12, <2>1, <2>4, <3>1, <3>2, <3>3
    <2> QED BY <2>2, <2>5, <2>6
  <1>16. CASE RecordCheck(x)
    <2>1. /\ proc[x].pc = "record" /\ proc[x].kind = "check"
          /\ proc[x].host \in Hosts
          /\ conn' = Dropped(x) /\ UNCHANGED <<breakers, pool, mutex>>
      BY <1>1, <1>16 DEF RecordCheck, GoodFrame
    <2>2. /\ breakers' \in [Hosts -> Breaker \union {None}]
          /\ \A h \in Hosts : breakers'[h] # None => Sane(breakers'[h])
          /\ \A h \in Hosts : breakers[h] # None => breakers'[h] # None
      BY <1>2, <1>3, <2>1
    <2> DEFINE q == [proc[x] EXCEPT !.pc = "get", !.step = @ + 1,
                                    !.client = None]
    <2>3. proc' = [proc EXCEPT ![x] = Idle] \/ proc' = [proc EXCEPT ![x] = q]
      BY <1>16 DEF RecordCheck
    <2>4. /\ q \in Proc /\ q.pc = "get" /\ q.client = None
          /\ q.kind = "check" /\ q.host = proc[x].host
      <3>1. proc[x].step + 1 \in Nat /\ "get" \in PCs
        BY <1>1 DEF PCs
      <3> QED BY <1>1, <2>1, <3>1 DEF Proc
    <2> HIDE DEF q
    <2>5. GoodFrame(q, breakers')
      BY <1>1, <2>1, <2>4 DEF GoodFrame
    <2> QED BY <1>12, <1>14, <2>1, <2>2, <2>3, <2>4, <2>5
  <1> QED BY <1>5, <1>6, <1>7, <1>8, <1>9, <1>10, <1>11, <1>15, <1>16 DEF Step

\* A worker that is doing nothing.
LEMMA IdleFrame ==
  /\ Idle \in Proc /\ Idle.pc = "idle" /\ Idle.client = None
  /\ Idle.kind = "call" /\ Idle.ok
  BY DEF Idle, Proc, PCs

\* Entering a call or a health check keeps the invariant.
LEMMA ArrivalKeeps ==
  ASSUME Inv, NEW x \in Workers, NEW h \in Hosts,
         Call(x, h) \/ CheckNodeHealth(x, h)
  PROVE  Inv'
  <1>1. /\ proc[x].pc = "idle"
        /\ None \notin Clients /\ h # None
    BY RemoteAssumption DEF Call, CheckNodeHealth
  <1>2. CASE Call(x, h)
    <2> DEFINE p == [Idle EXCEPT !.host = h, !.step = 1]
    <2>1. /\ p \in Proc /\ p.client = None /\ p.kind = "call" /\ p.ok /\ p.host = h
      BY IdleFrame DEF Proc
    <2>2. /\ proc' = [proc EXCEPT ![x] = Admit(p)]
          /\ breakers' = [breakers EXCEPT ![h] = getCircuitBreaker(h)]
          /\ UNCHANGED <<pool, mutex, conn>>
      BY <1>2 DEF Call
    <2> HIDE DEF p
    <2> QED BY <2>1, <2>2, EntryKeeps
  <1>3. CASE CheckNodeHealth(x, h)
    <2> DEFINE q == [Idle EXCEPT !.pc = "get", !.kind = "check", !.host = h,
                                 !.step = 1]
    <2>1. /\ q \in Proc /\ q.pc = "get" /\ q.client = None /\ q.kind = "check"
          /\ q.host = h
      BY IdleFrame DEF Proc, PCs
    <2>2. /\ proc' = [proc EXCEPT ![x] = q]
          /\ UNCHANGED <<breakers, pool, mutex, conn>>
      BY <1>3 DEF CheckNodeHealth
    <2> HIDE DEF q
    <2>3. GoodFrame(q, breakers) /\ mutex' \in Workers \union {Cleaner, None}
      BY <1>1, <2>1, <2>2 DEF GoodFrame, Inv, TypeOK
    <2> QED BY <2>1, <2>2, <2>3, LocalKeeps
  <1> QED BY <1>2, <1>3

\* The clean-up and the passing of time keep the invariant.
LEMMA OthersKeep ==
  ASSUME Inv, \/ LockForCleanup \/ EndCleanup
              \/ \E h \in Hosts : CloseIdle(h) \/ ResetTimeout(h)
  PROVE  Inv'
  <1>1. ASSUME UNCHANGED proc,
               breakers' \in [Hosts -> Breaker \union {None}],
               \A h \in Hosts : breakers'[h] # None => Sane(breakers'[h]),
               \A h \in Hosts : breakers[h] # None => breakers'[h] # None,
               pool' \in [Hosts -> Clients \union {None}],
               \A h \in Hosts : pool'[h] \in {pool[h], None},
               mutex' \in Workers \union {Cleaner, None},
               conn' \in [Clients -> BOOLEAN],
               \A y \in Workers : proc[y].pc = "session" => conn'[proc[y].client]
        PROVE  Inv'
    <2>1. TypeOK' /\ RunningNotClosed'
      BY <1>1 DEF Inv, TypeOK, RunningNotClosed
    <2>2. \A x \in Workers : GoodFrame(proc'[x], breakers')
      BY <1>1 DEF Inv, GoodFrame
    <2>3. FailedNotPooled'
      <3> SUFFICES ASSUME NEW x \in Workers, proc[x].kind = "call",
                          proc[x].pc = "record", ~ proc[x].ok
                   PROVE  pool'[proc[x].host] # proc[x].client
        BY <1>1 DEF FailedNotPooled, Callers
      <3>1. /\ proc[x].host \in Hosts /\ proc[x].client # None
            /\ pool[proc[x].host] # proc[x].client
        BY Frame DEF Inv, GoodFrame, PoolSound, FailedNotPooled, Callers
      <3> QED BY <1>1, <3>1
    <2> QED BY <1>1, <2>1, <2>2, <2>3 DEF Inv, PoolSound
  <1>2. /\ breakers \in [Hosts -> Breaker \union {None}]
        /\ pool \in [Hosts -> Clients \union {None}]
        /\ mutex \in Workers \union {Cleaner, None}
        /\ conn \in [Clients -> BOOLEAN]
        /\ \A h \in Hosts : breakers[h] # None => Sane(breakers[h])
        /\ \A y \in Workers : proc[y].pc = "session" => conn[proc[y].client]
    BY DEF Inv, TypeOK, PoolSound, RunningNotClosed
  <1>3. CASE LockForCleanup \/ EndCleanup
    BY <1>1, <1>2, <1>3 DEF LockForCleanup, EndCleanup
  <1>4. ASSUME NEW h \in Hosts, CloseIdle(h)
        PROVE  Inv'
    <2>1. /\ ~ Busy(pool[h]) /\ conn' = Closed(pool[h])
          /\ pool' = [pool EXCEPT ![h] = None]
          /\ UNCHANGED <<breakers, mutex, proc>>
      BY <1>4 DEF CloseIdle
    <2>2. conn' \in [Clients -> BOOLEAN]
      BY <1>2, <2>1 DEF Closed
    <2>3. \A y \in Workers : proc[y].pc = "session" => conn'[proc[y].client]
      <3>1. \A y \in Workers : proc[y].pc = "session" => proc[y].client # pool[h]
        BY <2>1 DEF Busy
      <3> QED BY <2>1, <3>1, CloseIsSafe
    <2> QED BY <1>1, <1>2, <2>1, <2>2, <2>3
  <1>5. ASSUME NEW h \in Hosts, ResetTimeout(h)
        PROVE  Inv'
    <2> DEFINE b == [breakers[h] EXCEPT !.due = TRUE]
    <2>1. /\ breakers[h] # None /\ breakers' = [breakers EXCEPT ![h] = b]
          /\ UNCHANGED <<pool, mutex, conn, proc>>
      BY <1>5 DEF ResetTimeout
    <2>2. Sane(b)
      <3>1. Sane(breakers[h]) /\ breakers[h] \in Breaker
        BY <1>2, <2>1 DEF Sane
      <3>2. /\ b \in Breaker /\ b.due /\ b.state = breakers[h].state
            /\ b.failureCount = breakers[h].failureCount
        BY <3>1 DEF Breaker
      <3> HIDE DEF b
      <3> QED BY <3>1, <3>2 DEF Sane
    <2> HIDE DEF b
    <2>3. /\ breakers' \in [Hosts -> Breaker \union {None}]
          /\ \A g \in Hosts : breakers'[g] # None => Sane(breakers'[g])
          /\ \A g \in Hosts : breakers[g] # None => breakers'[g] # None
      BY <1>2, <2>1, <2>2, RemoteAssumption DEF Sane
    <2> QED BY <1>1, <1>2, <2>1, <2>3
  <1> QED BY <1>3, <1>4, <1>5

\* The invariant holds initially and every step keeps it.
LEMMA Invariance == Spec => []Inv
  <1>1. Init => Inv
    <2> SUFFICES ASSUME Init PROVE Inv
      OBVIOUS
    <2>1. /\ Idle \in Proc /\ Idle.pc = "idle" /\ GoodFrame(Idle, breakers)
      BY RemoteAssumption DEF Idle, Proc, PCs, GoodFrame
    <2>2. \A x \in Workers : proc[x] = Idle
      BY DEF Init
    <2>3. TypeOK
      BY <2>1 DEF Init, TypeOK
    <2>4. PoolSound
      BY <2>1, <2>2 DEF PoolSound, RunningNotClosed, FailedNotPooled, Callers
    <2> QED BY <2>1, <2>2, <2>3, <2>4 DEF Init, Inv
  <1>2. Inv /\ [Next]_vars => Inv'
    <2> SUFFICES ASSUME Inv, [Next]_vars PROVE Inv'
      OBVIOUS
    <2>1. CASE UNCHANGED vars
      BY <2>1 DEF vars, Inv, TypeOK, GoodFrame, PoolSound, RunningNotClosed,
                  FailedNotPooled, Callers
    <2> QED BY <2>1, WorkerKeeps, ArrivalKeeps, OthersKeep DEF Next
  <1> QED BY <1>1, <1>2, PTL DEF Spec

\* No operation on breakers, pool or clients ever meets a value it was not
\* written for, in whatever order the goroutines run.
THEOREM TypeCorrect == Spec => []TypeOK
  BY Invariance, PTL DEF Inv

\* No command loses its connection while it runs, whoever evicts, closes or
\* cleans up meanwhile, and a client that failed is out of the pool before
\* the failure is counted: for any number of goroutines on any number of
\* hosts.
THEOREM PoolIsSound == Spec => []PoolSound
  BY Invariance, PTL DEF Inv

\* Late reports of attempts admitted earlier never leave a closed breaker
\* with as many failures as the threshold, for every threshold.
THEOREM ClosedStaysBelow == Spec => []ClosedBelowThreshold
  <1>1. Inv => ClosedBelowThreshold
    BY DEF Inv, Sane, ClosedBelowThreshold
  <1> QED BY <1>1, Invariance, PTL

\* While a breaker is open and its deadline has not come, no caller gets
\* past it, neither a new call nor a retry.
THEOREM OpenAdmits == Spec => OpenAdmitsNone
  <1> DEFINE Shut == \A h \in Hosts :
                        breakers[h] # None /\ ~ breakers[h].due /\ ~ breakers'[h].due
                          => Inside(h)' \subseteq Inside(h)
  <1>1. Inv /\ [Next]_vars => [Shut]_vars
    <2> SUFFICES ASSUME Inv, Next PROVE Shut
      OBVIOUS
    <2> SUFFICES ASSUME NEW h \in Hosts, breakers[h] # None,
                        ~ breakers[h].due, NEW z \in Inside(h)'
                 PROVE  z \in Inside(h)
      OBVIOUS
    <2>0. /\ z \in Workers /\ proc'[z].kind = "call" /\ proc'[z].host = h
          /\ proc'[z].pc \notin {"idle", "backoff"}
          /\ proc[z] \in Proc /\ GoodFrame(proc[z], breakers)
          /\ proc \in [Workers -> Proc]
      BY Frame DEF Inside, Callers, Inv, TypeOK
    <2>1. ~ canExecute(getCircuitBreaker(h))
      BY DEF canExecute, getCircuitBreaker, Inv, Sane
    <2>2. CASE proc'[z] = proc[z]
      BY <2>0, <2>2 DEF Inside, Callers
    <2>3. ASSUME NEW p \in Proc, p.client = None, p.kind = "call", p.ok,
                 proc' = [proc EXCEPT ![z] = Admit(p)]
          PROVE  FALSE
      <3> DEFINE q == Admit(p)
      <3>1. /\ q.pc \in {"get", "backoff", "idle"}
            /\ q.pc # "idle" => q.host = p.host
            /\ q.pc = "get" => canExecute(getCircuitBreaker(p.host))
        BY <2>3, AdmitFrame
      <3>2. proc'[z] = q
        BY <2>0, <2>3
      <3> HIDE DEF q
      <3> QED BY <2>0, <2>1, <3>1, <3>2
    <2>4. ASSUME NEW q, proc' = [proc EXCEPT ![z] = q], q = Idle \/ q.kind # "call"
          PROVE  FALSE
      BY <2>0, <2>4 DEF Idle
    <2>5. ASSUME NEW q, proc' = [proc EXCEPT ![z] = q], q.host = proc[z].host,
                 q.kind = proc[z].kind, proc[z].pc \notin {"idle", "backoff"}
          PROVE  z \in Inside(h)
      BY <2>0, <2>5 DEF Inside, Callers
    <2>6. CASE \E g \in Hosts : Call(z, g)
      <3>1. PICK g \in Hosts : Call(z, g)
        BY <2>6
      <3> DEFINE p == [Idle EXCEPT !.host = g, !.step = 1]
      <3>2. p \in Proc /\ p.client = None /\ p.kind = "call" /\ p.ok
        BY IdleFrame DEF Proc
      <3>3. proc' = [proc EXCEPT ![z] = Admit(p)]
        BY <3>1 DEF Call
      <3> HIDE DEF p
      <3> QED BY <2>3, <3>2, <3>3
    <2>7. CASE \E g \in Hosts : CheckNodeHealth(z, g)
      <3>1. PICK g \in Hosts : CheckNodeHealth(z, g)
        BY <2>7
      <3> DEFINE q == [Idle EXCEPT !.pc = "get", !.kind = "check", !.host = g,
                                   !.step = 1]
      <3>2. q.kind = "check"
        BY DEF Idle
      <3>3. proc' = [proc EXCEPT ![z] = q]
        BY <3>1 DEF CheckNodeHealth
      <3> HIDE DEF q
      <3> QED BY <2>4, <3>2, <3>3
    <2>8. CASE Backoff(z)
      <3>1. CASE proc' = [proc EXCEPT ![z] = Idle]
        BY <2>4, <3>1
      <3>2. CASE proc' = [proc EXCEPT ![z] = Admit([proc[z] EXCEPT !.step = @ + 1])]
        <4> DEFINE p == [proc[z] EXCEPT !.step = proc[z].step + 1]
        <4>1. /\ proc[z].client = None /\ proc[z].kind = "call" /\ proc[z].ok
              /\ proc[z].step + 1 \in Nat
          BY <2>0, <2>8, Frame DEF Backoff, GoodFrame, Proc
        <4>2. p \in Proc /\ p.client = None /\ p.kind = "call" /\ p.ok
          BY <2>0, <4>1 DEF Proc
        <4>3. proc' = [proc EXCEPT ![z] = Admit(p)]
          BY <3>2
        <4> HIDE DEF p
        <4> QED BY <2>3, <4>2, <4>3
      <3> QED BY <2>8, <3>1, <3>2 DEF Backoff
    <2>9. CASE \/ LockPool(z) \/ GetConnection(z) \/ Evict(z)
               \/ RunCommand(z) \/ Answer(z) \/ CloseConnection(z)
      <3>1. proc[z].pc \notin {"idle", "backoff"}
        BY <2>9 DEF LockPool, GetConnection, Evict, RunCommand, Answer,
                    CloseConnection
      <3>2. /\ \A pc : Goto(z, pc) => proc'[z].host = proc[z].host
                                     /\ proc'[z].kind = proc[z].kind
            /\ \A c : Pooled(z, c) => proc'[z].host = proc[z].host
                                     /\ proc'[z].kind = proc[z].kind
            /\ proc' = Broken(z) => proc'[z].host = proc[z].host
                                     /\ proc'[z].kind = proc[z].kind
            /\ CloseConnection(z) => proc'[z].host = proc[z].host
                                     /\ proc'[z].kind = proc[z].kind
        BY <2>0 DEF Goto, Pooled, Broken, CloseConnection, Proc
      <3>3. proc'[z].host = proc[z].host /\ proc'[z].kind = proc[z].kind
        BY <2>9, <3>2 DEF LockPool, GetConnection, Evict, RunCommand, Answer,
                          createNewConnection
      <3> QED BY <2>0, <3>1, <3>3 DEF Inside, Callers
    <2>10. CASE RecordAttempt(z)
      <3> DEFINE old == [proc[z] EXCEPT !.client = None]
      <3>1. proc[z].kind = "call"
        BY <2>10 DEF RecordAttempt
      <3>2. old \in Proc /\ old.client = None /\ old.kind = "call"
        BY <2>0, <3>1 DEF Proc
      <3>3. proc' = [proc EXCEPT ![z] = IF proc[z].ok THEN Idle ELSE AfterFailure(old)]
        BY <2>10 DEF RecordAttempt
      <3> HIDE DEF old
      <3>4. AfterFailure(old).pc \in {"backoff", "idle"}
        BY <3>2, AfterFailureFrame
      <3> QED BY <2>0, <3>3, <3>4, IdleFrame
    <2>11. CASE RecordCheck(z)
      <3> DEFINE q == [proc[z] EXCEPT !.pc = "get", !.step = @ + 1, !.client = None]
      <3>1. proc' = [proc EXCEPT ![z] = IF proc[z].step < Len(HealthCommands)
                                        THEN q ELSE Idle]
        BY <2>11 DEF RecordCheck
      <3>2. q.kind = proc[z].kind /\ proc[z].kind = "check"
        BY <2>0, <2>11 DEF RecordCheck, Proc
      <3> HIDE DEF q
      <3> QED BY <2>0, <3>1, <3>2, IdleFrame
    <2>12. ASSUME NEW y \in Workers, y # z,
                  Step(y) \/ \E g \in Hosts : Call(y, g) \/ CheckNodeHealth(y, g)
           PROVE  proc'[z] = proc[z]
      <3>1. \E q : proc' = [proc EXCEPT ![y] = q]
        BY <2>12 DEF Step, Call, CheckNodeHealth, Backoff, LockPool,
                     GetConnection, Evict, RunCommand, Answer, CloseConnection,
                     RecordAttempt, RecordCheck, Goto, Pooled, Broken,
                     createNewConnection
      <3> QED BY <2>0, <2>12, <3>1
    <2>13. CASE \/ LockForCleanup \/ EndCleanup
                \/ \E g \in Hosts : CloseIdle(g) \/ ResetTimeout(g)
      BY <2>2, <2>13 DEF LockForCleanup, EndCleanup, CloseIdle, ResetTimeout
    <2> QED BY <2>0, <2>2, <2>6, <2>7, <2>8, <2>9, <2>10, <2>11, <2>12, <2>13
            DEF Next, Step
  <1> QED BY <1>1, Invariance, PTL DEF Spec, OpenAdmitsNone
=============================================================================
