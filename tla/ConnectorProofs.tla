--------------------------- MODULE ConnectorProofs ---------------------------
(***************************************************************************)
(* Proofs about Connector, for any number of client processes, attempts    *)
(* and polls, any plans, and every fault.                                  *)
(***************************************************************************)
EXTENDS Connector, TLAPS

-----------------------------------------------------------------------------
(***************************************************************************)
(* The inductive invariant.                                                *)
(*                                                                         *)
(* LaterIds     the ids of attempts that have not been made are unused     *)
(* FrameInv     what a process's position says of its fields               *)
(* JobInv       ... and of the job of its current attempt                  *)
(* RemovalInv   ... and of what its disconnection has left                 *)
(* KeyInv       every key in use was written to the key file by a process  *)
(* RowInv       a job has a key to insert; what counts as completed is     *)
(* Written      a configuration is one of a connection that was completed  *)
(***************************************************************************)
Num(p, a) == (p - 1) * Attempts + a

LaterIds(p) ==
    \A a \in Nat : a > proc[p].attempt /\ a <= Attempts
                      => job[Num(p, a)].pc = "none"

FrameInv(p) ==
    LET f == proc[p] IN
    /\ f.pc = "idle" => f = NewProc
    /\ f.sig \in {"off", "armed"} => f.tries = 0
    /\ f.sig = "remove" => f.tries < Attempts
    /\ f.peerID \in Ids => f.peerID = Id(p) /\ f.pc = "wait"
    /\ f.pc = "wait" /\ f.sig \in {"off", "armed"} => f.peerID = Id(p)
    /\ f.target \in Ids => f.settled
    /\ f.settled => /\ f.target = Id(p)
                    /\ f.pc \in {"wait", "ended"}
                    /\ f.sig \notin {"off", "armed"}
    /\ f.pc = "up" => conf # NoConf
    /\ iface.by = p => f.pc \in {"save", "wait", "ended"}

Unposted(f) ==
    f.pc \in {"idle", "post"} \/ (f.pc \in {"load", "create"} /\ f.next = "post")
Answered(f) ==
    f.pc = "write" \/ (f.pc \in {"load", "create"} /\ f.next = "write")

JobInv(p) ==
    LET f == proc[p] IN
    /\ Unposted(f) => job[Id(p)].pc = "none"
    /\ (Answered(f) /\ f.full) \/ f.pc \in {"up", "save", "wait"} \/ f.settled
          => job[Id(p)].pc = "done"
    /\ job[Id(p)].pc \in {"configure", "report", "done"}
          => row[Id(p)] # NoKey \/ f.settled

RemovalInv(p) ==
    LET f == proc[p] IN
    f.settled =>
       /\ f.sig \in {"down", "clean", "done"}
             => row[Id(p)] = NoKey \/ (f.warned /\ faults > 0)
       /\ f.sig \in {"clean", "done"} => iface.by # p
       /\ f.sig = "done" => state # Id(p)

Made(k) == k \in Procs /\ proc[k].made
KeyOf(r, k) == k = NoKey \/ Made(k) \/ Cmd(Owner(r)) = "generate"

FrameKey(p, f) ==
    /\ f.key # NoKey => Made(f.key)
    /\ f.pc = "write" => f.key # NoKey
    /\ f.pc \in {"post", "poll"} => f.key # NoKey \/ Cmd(p) = "generate"

KeyInv ==
    /\ key # NoKey => Made(key)
    /\ \A p \in Procs : FrameKey(p, proc[p])
    /\ \A r \in Ids : KeyOf(r, row[r]) /\ KeyOf(r, job[r].key)

RowInv ==
    /\ \A r \in Ids : job[r].pc = "work" => job[r].key # NoKey
    /\ \A r \in Ids : tracker[r] = "completed" => job[r].pc = "done"

Written(c) ==
    /\ Made(c.key)
    /\ \E q \in Procs : /\ c.peer = Id(q)
                        /\ proc[q].pc \in {"up", "save", "wait", "ended"}
                        /\ job[Id(q)].pc = "done"

FilesInv ==
    /\ conf # NoConf => Written(conf)
    /\ iface # NoIface => Written(iface)

Mine(p) == LaterIds(p) /\ FrameInv(p) /\ JobInv(p) /\ RemovalInv(p)

Inv ==
    /\ TypeOK
    /\ \A p \in Procs : Mine(p)
    /\ KeyInv
    /\ RowInv
    /\ FilesInv

-----------------------------------------------------------------------------
(***************************************************************************)
(* Request ids.                                                            *)
(***************************************************************************)
\* An attempt's id is an id of the service, and tells whose attempt it is.
LEMMA NumIds ==
  ASSUME NEW p \in Procs, NEW a \in 1 .. Attempts
  PROVE  Num(p, a) \in Ids /\ Owner(Num(p, a)) = p
  <1>1. (p - 1) * Attempts \in Nat /\ NumProcs * Attempts \in Nat
        /\ p * Attempts = (p - 1) * Attempts + Attempts
    BY ConnectorAssumption DEF Procs
  <1>2. p * Attempts <= NumProcs * Attempts
    BY ConnectorAssumption DEF Procs
  <1>3. Num(p, a) \in Ids
    BY <1>1, <1>2, ConnectorAssumption DEF Num
  <1>4. Owner(Num(p, a)) = p
    BY ConnectorAssumption DEF Num, Owner, Procs
  <1> QED BY <1>3, <1>4

\* No two attempts have the same id.
LEMMA NumDistinct ==
  ASSUME NEW p \in Procs, NEW a \in 1 .. Attempts,
         NEW q \in Procs, NEW b \in 1 .. Attempts, Num(p, a) = Num(q, b)
  PROVE  p = q /\ a = b
  <1>1. p = q
    BY NumIds
  <1> QED BY <1>1, ConnectorAssumption DEF Num, Procs

\* The id of a process's current attempt.
LEMMA CurrentId ==
  ASSUME TypeOK, NEW p \in Procs
  PROVE  /\ Id(p) = Num(p, proc[p].attempt) /\ proc[p].attempt \in 1 .. Attempts
         /\ Id(p) \in Ids /\ Id(p) # NoPeer /\ Id(p) # Mangled /\ Owner(Id(p)) = p
         /\ \A q \in Procs : q # p => Id(q) # Id(p)
         /\ \A q \in Procs, a \in 1 .. Attempts :
               Num(q, a) = Id(p) => q = p /\ a = proc[p].attempt
  <1>1. ASSUME NEW q \in Procs
        PROVE  proc[q].attempt \in 1 .. Attempts /\ Id(q) = Num(q, proc[q].attempt)
    BY DEF TypeOK, Proc, Id, Num
  <1>2. Id(p) \in Ids /\ Owner(Id(p)) = p
    BY <1>1, NumIds
  <1>3. Id(p) # NoPeer /\ Id(p) # Mangled
    BY <1>2, IdsAssumption DEF NoPeer, Mangled
  <1> QED BY <1>1, <1>2, <1>3, NumDistinct
-----------------------------------------------------------------------------
(***************************************************************************)
(* Frames.                                                                 *)
(***************************************************************************)
\* A process that ends keeps its attempt, whether it has written the key
\* file, and what a signal found; all else is as if it had not started.
LEMMA EndedFields ==
  ASSUME NEW f \in Proc
  PROVE  /\ Ended(f) \in Proc
         /\ Ended(f).pc = "ended" /\ Ended(f).key = NoKey
         /\ Ended(f).attempt = f.attempt /\ Ended(f).made = f.made
         /\ Ended(f).settled = f.settled /\ Ended(f).tries = 0
         /\ Ended(f).peerID = NoPeer
         /\ f.settled => /\ Ended(f).target = f.target /\ Ended(f).sig = f.sig
                         /\ Ended(f).warned = f.warned
         /\ ~f.settled => Ended(f).target = NoPeer /\ Ended(f).sig = "off"
  <1> DEFINE left == [NewProc EXCEPT !.pc = "ended", !.attempt = f.attempt,
                                     !.made = f.made]
  <1>1. NewProc \in Proc
    BY ConnectorAssumption DEF NewProc, Proc, NoKey, NoPeer
  <1>2. left \in Proc
    <2>1. ASSUME NEW a \in 1 .. Attempts, NEW m \in BOOLEAN
          PROVE  [NewProc EXCEPT !.pc = "ended", !.attempt = a, !.made = m] \in Proc
      BY <1>1, <2>1, ZenonT(60) DEF Proc
    <2>2. f.made \in BOOLEAN /\ f.attempt \in 1 .. Attempts
      BY DEF Proc
    <2> QED BY <2>1, <2>2
  <1>3. /\ left.pc = "ended" /\ left.key = NoKey /\ left.attempt = f.attempt
        /\ left.made = f.made /\ left.settled = FALSE /\ left.tries = 0
        /\ left.peerID = NoPeer /\ left.target = NoPeer /\ left.sig = "off"
    BY Zenon DEF NewProc
  <1> HIDE DEF left
  <1>4. CASE ~f.settled
    <2>1. Ended(f) = left /\ f.settled = FALSE
      BY <1>4 DEF Ended, left, Proc
    <2> QED BY <1>2, <1>3, <1>4, <2>1
  <1>5. CASE f.settled
    <2> DEFINE g == [left EXCEPT !.settled = TRUE, !.target = f.target,
                                 !.sig = f.sig, !.warned = f.warned]
    <2>1. Ended(f) = g /\ f.settled = TRUE
      BY <1>5 DEF Ended, left, Proc
    <2>2. g \in Proc
      <3>1. ASSUME NEW t \in Ids \cup {NoPeer, Mangled}, NEW w \in BOOLEAN,
                   NEW h \in {"off", "armed", "remove", "down", "clean",
                              "done", "error"}
            PROVE  [left EXCEPT !.settled = TRUE, !.target = t, !.sig = h,
                                !.warned = w] \in Proc
        BY <1>2, <3>1, ZenonT(60) DEF Proc
      <3>2. /\ f.target \in Ids \cup {NoPeer, Mangled} /\ f.warned \in BOOLEAN
            /\ f.sig \in {"off", "armed", "remove", "down", "clean", "done",
                          "error"}
        BY DEF Proc
      <3> QED BY <3>1, <3>2
    <2>3. /\ g.pc = left.pc /\ g.key = left.key /\ g.attempt = left.attempt
          /\ g.made = left.made /\ g.settled = TRUE /\ g.tries = left.tries
          /\ g.peerID = left.peerID /\ g.target = f.target /\ g.sig = f.sig
          /\ g.warned = f.warned
      BY <1>2, ZenonT(60) DEF Proc
    <2> HIDE DEF g
    <2> QED BY <1>3, <1>5, <2>1, <2>2, <2>3
  <1> QED BY <1>4, <1>5

\* The frame of one process becomes another frame.
LEMMA BecomeType ==
  ASSUME TypeOK, NEW p \in Procs, NEW g \in Proc, Become(p, g)
  PROVE  /\ proc' \in [Procs -> Proc] /\ proc'[p] = g
         /\ \A q \in Procs : q # p => proc'[q] = proc[q]
  BY DEF TypeOK, Become

Standing == {"up", "save", "wait", "ended"}

(***************************************************************************)
(* What a step of process p leaves alone of what others rely on: it        *)
(* touches the job and the row of its own current attempt only, writes its *)
(* own name and id into what is shared, and does not go back.              *)
(***************************************************************************)
OwnStep(p, g) ==
    /\ Become(p, g)
    /\ g.attempt >= proc[p].attempt
    /\ proc[p].made => g.made
    /\ proc[p].pc \in Standing => g.pc \in Standing /\ g.attempt = proc[p].attempt
    /\ \A r \in Ids \ {Id(p)} : job'[r] = job[r] /\ row'[r] = row[r]
    /\ job[Id(p)].pc = "done" => job'[Id(p)].pc = "done"
    /\ conf' = NoConf => conf = NoConf
    /\ iface' \in {iface, NoIface} \/ iface'.by = p
    /\ state' \in {state, NoPeer, Id(p)}
    /\ faults' >= faults
    /\ plan' = plan

\* Such a step leaves the other processes' part of the invariant true.
LEMMA OthersKeep ==
  ASSUME Inv, NEW p \in Procs, NEW g \in Proc, OwnStep(p, g),
         NEW q \in Procs, q # p, faults' \in Nat
  PROVE  Mine(q)'
  <1>0. TypeOK /\ Mine(q) /\ faults \in Nat
    BY DEF Inv, TypeOK
  <1>1. proc'[q] = proc[q] /\ Id(q)' = Id(q)
    BY <1>0, BecomeType DEF OwnStep, Id
  <1>2. /\ Id(q) \in Ids /\ Id(q) # Id(p) /\ Id(q) # NoPeer
        /\ proc[q].attempt \in 1 .. Attempts
        /\ \A a \in 1 .. Attempts : Num(q, a) \in Ids /\ Num(q, a) # Id(p)
    BY <1>0, CurrentId, NumIds
  <1>3. job'[Id(q)] = job[Id(q)] /\ row'[Id(q)] = row[Id(q)]
    BY <1>2 DEF OwnStep
  <1>4. LaterIds(q)'
    <2> SUFFICES ASSUME NEW a \in Nat, a > proc[q].attempt, a <= Attempts
                 PROVE  job'[Num(q, a)].pc = "none"
      BY <1>1 DEF LaterIds, Num
    <2>1. a \in 1 .. Attempts
      BY <1>2
    <2> QED BY <1>0, <1>2, <2>1 DEF Mine, LaterIds, OwnStep
  <1>5. iface'.by = q => iface.by = q
    BY ConnectorAssumption DEF OwnStep, NoIface, Procs
  <1>6. FrameInv(q)'
    BY <1>0, <1>1, <1>5 DEF Mine, FrameInv, OwnStep
  <1>7. JobInv(q)'
    BY <1>0, <1>1, <1>3 DEF Mine, JobInv, Unposted, Answered
  <1>8. RemovalInv(q)'
    BY <1>0, <1>1, <1>2, <1>3, <1>5 DEF Mine, RemovalInv, OwnStep
  <1> QED BY <1>4, <1>6, <1>7, <1>8 DEF Mine

\* Keys stay made, and what was written stays the configuration of a
\* connection that was completed.
LEMMA WrittenStays ==
  ASSUME Inv, NEW p \in Procs, NEW g \in Proc, OwnStep(p, g)
  PROVE  /\ \A k : Made(k) => Made(k)'
         /\ \A c : Written(c) => Written(c)'
  <1>0. TypeOK
    BY DEF Inv
  <1>1. ASSUME NEW k, Made(k) PROVE Made(k)'
    BY <1>0, <1>1, BecomeType DEF Made, OwnStep
  <1>2. ASSUME NEW c, Written(c) PROVE Written(c)'
    <2>1. PICK q \in Procs : /\ c.peer = Id(q)
                             /\ proc[q].pc \in {"up", "save", "wait", "ended"}
                             /\ job[Id(q)].pc = "done"
      BY <1>2 DEF Written
    <2>2. proc'[q].pc \in Standing /\ proc'[q].attempt = proc[q].attempt
      BY <1>0, <2>1, BecomeType DEF OwnStep, Standing
    <2>3. Id(q)' = Id(q)
      BY <2>2 DEF Id
    <2>4. job'[Id(q)].pc = "done"
      BY <1>0, <2>1, CurrentId DEF OwnStep
    <2>5. Made(c.key)'
      BY <1>1, <1>2 DEF Written
    <2> QED BY <2>1, <2>2, <2>3, <2>4, <2>5 DEF Written, Standing
  <1> QED BY <1>1, <1>2

\* What a step of p has to do itself for the invariant to stay.
LEMMA Assemble ==
  ASSUME Inv, NEW p \in Procs, NEW g \in Proc, OwnStep(p, g),
         faults' \in 0 .. plan.maxFaults,
         Mine(p)', FrameKey(p, proc[p])', ApiTypeOK', RowInv',
         \A r \in Ids : row'[r] \in {row[r], NoKey},
         \A r \in Ids : job'[r].key = job[r].key \/ KeyOf(r, job[r].key)',
         key' = key \/ Made(key)',
         conf' = conf \/ (conf' \in [key : Procs, peer : Ids] /\ Written(conf)'),
         \/ iface' \in {iface, NoIface}
         \/ iface' \in [key : Procs, peer : Ids, by : Procs] /\ Written(iface)'
  PROVE  Inv'
  <1>0. TypeOK /\ KeyInv /\ RowInv /\ FilesInv
    BY DEF Inv
  <1>1. /\ proc' \in [Procs -> Proc] /\ proc'[p] = g
        /\ \A q \in Procs : q # p => proc'[q] = proc[q]
        /\ \A k : Made(k) => Made(k)'
        /\ \A c : Written(c) => Written(c)'
        /\ \A q : Cmd(q)' = Cmd(q)
    BY <1>0, BecomeType, WrittenStays DEF OwnStep, Cmd
  <1>2. TypeOK'
    <2>1. key' \in Procs \cup {NoKey} /\ state' \in Ids \cup {NoPeer}
      BY <1>0, CurrentId DEF TypeOK, Made, OwnStep
    <2>2. /\ conf' \in [key : Procs, peer : Ids] \cup {NoConf}
          /\ iface' \in [key : Procs, peer : Ids, by : Procs] \cup {NoIface}
      BY <1>0 DEF TypeOK
    <2>3. plan' \in Plans /\ faults' \in 0 .. plan'.maxFaults
      BY <1>0 DEF TypeOK, OwnStep
    <2> QED BY <1>1, <2>1, <2>2, <2>3 DEF TypeOK
  <1>3. ASSUME NEW q \in Procs
        PROVE  FrameKey(q, proc[q])'
    <2>1. CASE q = p
      BY <1>1, <2>1 DEF FrameKey
    <2>2. CASE q # p
      <3>1. proc'[q] = proc[q] /\ FrameKey(q, proc[q])
        BY <1>0, <1>1, <2>2 DEF KeyInv
      <3> QED BY <1>1, <3>1 DEF FrameKey
    <2> QED BY <2>1, <2>2
  <1>4. ASSUME NEW r \in Ids
        PROVE  KeyOf(r, row[r])' /\ KeyOf(r, job[r].key)'
    <2>1. KeyOf(r, row[r]) /\ KeyOf(r, job[r].key)
      BY <1>0 DEF KeyInv
    <2> QED BY <1>1, <2>1 DEF KeyOf
  <1>5. (key # NoKey => Made(key))'
    BY <1>0, <1>1 DEF KeyInv
  <1>6. KeyInv'
    BY <1>3, <1>4, <1>5 DEF KeyInv
  <1>7. FilesInv'
    <2>1. (conf # NoConf => Written(conf))'
      BY <1>0, <1>1 DEF FilesInv
    <2>2. (iface # NoIface => Written(iface))'
      BY <1>0, <1>1 DEF FilesInv
    <2> QED BY <2>1, <2>2 DEF FilesInv
  <1>8. ASSUME NEW q \in Procs PROVE Mine(q)'
    <2>1. faults' \in Nat
      BY <1>0, ConnectorAssumption DEF TypeOK
    <2> QED BY <2>1, OthersKeep
  <1> QED BY <1>2, <1>6, <1>7, <1>8 DEF Inv

\* The same for a step that leaves the API alone.
LEMMA Moves ==
  ASSUME Inv, NEW p \in Procs, NEW g \in Proc, OwnStep(p, g),
         faults' \in 0 .. plan.maxFaults,
         Mine(p)', FrameKey(p, proc[p])', UNCHANGED api,
         key' = key \/ Made(key)',
         conf' = conf \/ (conf' \in [key : Procs, peer : Ids] /\ Written(conf)'),
         \/ iface' \in {iface, NoIface}
         \/ iface' \in [key : Procs, peer : Ids, by : Procs] /\ Written(iface)'
  PROVE  Inv'
  <1>1. UNCHANGED <<row, tracker, job>>
    BY DEF api
  <1>2. ApiTypeOK' /\ RowInv'
    BY <1>1 DEF Inv, TypeOK, ApiTypeOK, RowInv
  <1> QED BY <1>1, <1>2, Assemble

\* And for one that only changes p's frame.
LEMMA MovesAlone ==
  ASSUME Inv, NEW p \in Procs, NEW g \in Proc, Become(p, g),
         g.attempt >= proc[p].attempt, proc[p].made => g.made,
         proc[p].pc \in Standing => g.pc \in Standing /\ g.attempt = proc[p].attempt,
         faults' \in 0 .. plan.maxFaults, faults' >= faults,
         UNCHANGED <<api, machine, plan>>, Mine(p)', FrameKey(p, proc[p])'
  PROVE  Inv'
  <1>1. UNCHANGED <<row, tracker, job, key, conf, state, iface, plan>>
    BY DEF api, machine
  <1>2. OwnStep(p, g)
    BY <1>1 DEF OwnStep
  <1> QED BY <1>1, <1>2, Moves
-----------------------------------------------------------------------------
(***************************************************************************)
(* Requests, and what follows when they fail.                              *)
(***************************************************************************)
\* The API's part of a step of p: nothing, or its connect request.
Asks(p) ==
    \/ UNCHANGED api
    \/ At(p, "post") /\ ConnectPeerAsync(Id(p), proc[p].key)

\* A request starts a job with a key for an id that was not used before, or
\* nothing.
LEMMA AskedJob ==
  ASSUME Inv, NEW p \in Procs, Asks(p)
  PROVE  /\ ApiTypeOK' /\ RowInv' /\ row' = row
         /\ \A r \in Ids : r # Id(p) => job'[r] = job[r]
         /\ \/ job'[Id(p)] = job[Id(p)]
            \/ job[Id(p)].pc = "none" /\ job'[Id(p)].pc = "work"
         /\ plan' = plan /\ (\A k : Made(k) => Made(k)')
               => \A r \in Ids : job'[r].key = job[r].key \/ KeyOf(r, job[r].key)'
  <1>0. TypeOK /\ ApiTypeOK /\ KeyInv /\ RowInv /\ Mine(p)
    BY DEF Inv, TypeOK
  <1>1. CASE UNCHANGED api
    <2>1. UNCHANGED <<row, tracker, job>>
      BY <1>1 DEF api
    <2> QED BY <1>0, <2>1 DEF ApiTypeOK, RowInv
  <1>2. CASE At(p, "post") /\ ConnectPeerAsync(Id(p), proc[p].key)
    <2> DEFINE k == proc[p].key
               made == IF k = NoKey THEN Generated(Id(p)) ELSE k
               j == [pc |-> "work", key |-> made]
    <2>1. CASE UNCHANGED <<row, tracker, job>>
      BY <1>0, <2>1 DEF ApiTypeOK, RowInv
    <2>2. CASE /\ row' = row /\ tracker' = [tracker EXCEPT ![Id(p)] = "active"]
               /\ job' = [job EXCEPT ![Id(p)] = j]
      <3>1. Id(p) \in Ids /\ Id(p) # 0 /\ Id(p) \in Int /\ Owner(Id(p)) = p
        <4>1. Id(p) \in Ids /\ Owner(Id(p)) = p
          BY <1>0, CurrentId
        <4>2. \A r \in Ids : r \in Int /\ r # 0
          BY IdsAssumption
        <4> QED BY <4>1, <4>2
      <3>2. k \in Procs \cup {NoKey} /\ (k # NoKey => Made(k))
            /\ (k = NoKey => Cmd(p) = "generate")
        BY <1>0, <1>2 DEF KeyInv, FrameKey, At, TypeOK, Proc
      <3>3. made \in Int /\ made # NoKey
        BY <3>1, <3>2 DEF Generated, NoKey, Procs
      <3>4. j \in [pc : JobPCs, key : Int] /\ j.pc = "work" /\ j.key = made
        BY <3>3 DEF JobPCs
      <3>5. /\ job \in [Ids -> [pc : JobPCs, key : Int]]
            /\ tracker \in [Ids -> Seen]
        BY <1>0 DEF ApiTypeOK
      <3> HIDE DEF j
      <3>6. /\ job'[Id(p)] = j /\ tracker'[Id(p)] = "active"
            /\ \A r \in Ids : r # Id(p) => job'[r] = job[r] /\ tracker'[r] = tracker[r]
        BY <2>2, <3>1, <3>5
      <3>7. ApiTypeOK'
        BY <1>0, <2>2, <3>1, <3>4, <3>5 DEF ApiTypeOK, Seen
      <3>8. job[Id(p)].pc = "none"
        BY <1>0, <1>2 DEF Mine, JobInv, Unposted, At
      <3>9. RowInv'
        <4>1. \A r \in Ids : job'[r].pc = "work" => job'[r].key # NoKey
          BY <1>0, <3>3, <3>4, <3>6 DEF RowInv
        <4>2. \A r \in Ids : tracker'[r] = "completed" => job'[r].pc = "done"
          BY <1>0, <3>6 DEF RowInv
        <4> QED BY <1>0, <2>2, <4>1, <4>2 DEF RowInv
      <3>10. ASSUME plan' = plan, \A l : Made(l) => Made(l)',
                    NEW r \in Ids, r = Id(p)
             PROVE  KeyOf(r, job[r].key)'
        <4>1. Cmd(p)' = Cmd(p)
          BY <3>10 DEF Cmd
        <4>2. CASE k = NoKey
          BY <3>1, <3>2, <3>10, <4>1, <4>2 DEF KeyOf
        <4>3. CASE k # NoKey
          <5>1. job'[r].key = k
            BY <3>4, <3>6, <3>10, <4>3
          <5> QED BY <3>2, <3>10, <4>3, <5>1 DEF KeyOf
        <4> QED BY <4>2, <4>3
      <3> QED BY <2>2, <3>4, <3>6, <3>7, <3>8, <3>9, <3>10
    <2> QED BY <1>2, <2>1, <2>2 DEF ConnectPeerAsync, See
  <1> QED BY <1>1, <1>2 DEF Asks

\* So p can make its own step meanwhile.
LEMMA AsksAndMoves ==
  ASSUME Inv, NEW p \in Procs, NEW g \in Proc, Asks(p), Become(p, g),
         g.attempt >= proc[p].attempt, proc[p].made => g.made,
         proc[p].pc \in Standing => g.pc \in Standing /\ g.attempt = proc[p].attempt,
         faults' \in 0 .. plan.maxFaults, faults' >= faults,
         UNCHANGED <<machine, plan>>, Mine(p)', FrameKey(p, proc[p])'
  PROVE  Inv'
  <1>1. UNCHANGED <<key, conf, state, iface, plan>>
    BY DEF machine
  <1>2. /\ ApiTypeOK' /\ RowInv' /\ row' = row
        /\ \A r \in Ids : r # Id(p) => job'[r] = job[r]
        /\ job[Id(p)].pc = "done" => job'[Id(p)].pc = "done"
    BY AskedJob
  <1>3. OwnStep(p, g)
    BY <1>1, <1>2 DEF OwnStep
  <1>4. \A k : Made(k) => Made(k)'
    BY <1>3, WrittenStays
  <1>5. \A r \in Ids : job'[r].key = job[r].key \/ KeyOf(r, job[r].key)'
    BY <1>1, <1>4, AskedJob
  <1> QED BY <1>1, <1>2, <1>3, <1>5, Assemble

\* A process can end whenever it runs.
LEMMA EndKeeps ==
  ASSUME Inv, NEW p \in Procs, proc[p].pc # "idle", End(p), Asks(p),
         faults' \in 0 .. plan.maxFaults, faults' >= faults,
         UNCHANGED <<machine, plan>>
  PROVE  Inv'
  <1> DEFINE f == proc[p]
             g == Ended(f)
  <1>0. TypeOK /\ Mine(p) /\ f \in Proc /\ KeyInv
    BY DEF Inv, TypeOK
  <1>1. /\ g \in Proc /\ g.pc = "ended" /\ g.key = NoKey
        /\ g.attempt = f.attempt /\ g.made = f.made
        /\ g.settled = f.settled /\ g.tries = 0 /\ g.peerID = NoPeer
        /\ f.settled => g.target = f.target /\ g.sig = f.sig /\ g.warned = f.warned
        /\ ~f.settled => g.target = NoPeer /\ g.sig = "off"
    BY <1>0, EndedFields
  <1>2. Become(p, g)
    BY DEF End
  <1> HIDE DEF g
  <1>3. proc'[p] = g /\ Id(p)' = Id(p) /\ f.attempt \in Nat
    BY <1>0, <1>1, <1>2, BecomeType, CurrentId DEF Id
  <1>4. UNCHANGED <<key, conf, state, iface, plan>>
    BY DEF machine
  <1>5. /\ row' = row /\ \A r \in Ids : r # Id(p) => job'[r] = job[r]
        /\ \/ job'[Id(p)] = job[Id(p)]
           \/ job[Id(p)].pc = "none" /\ job'[Id(p)].pc = "work"
    BY AskedJob
  <1>6. Id(p) \in Ids /\ NoPeer \notin Ids
    BY <1>0, CurrentId, IdsAssumption DEF NoPeer
  <1>7. LaterIds(p)'
    <2> SUFFICES ASSUME NEW a \in Nat, a > f.attempt, a <= Attempts
                 PROVE  job'[Num(p, a)].pc = "none"
      BY <1>1, <1>3 DEF LaterIds, Num
    <2>1. a \in 1 .. Attempts
      BY <1>0, CurrentId
    <2> QED BY <1>0, <1>5, <2>1, NumIds, CurrentId DEF Mine, LaterIds
  <1>8. FrameInv(p)'
    <2>1. 0 < Attempts
      BY ConnectorAssumption
    <2> QED BY <1>0, <1>1, <1>3, <1>4, <1>6, <2>1 DEF Mine, FrameInv
  <1>9. JobInv(p)'
    BY <1>0, <1>1, <1>3, <1>5 DEF Mine, JobInv, Unposted, Answered
  <1>10. RemovalInv(p)'
    <2>1. faults > 0 => faults' > 0
      BY <1>0 DEF TypeOK
    <2> QED BY <1>0, <1>1, <1>3, <1>4, <1>5, <2>1 DEF Mine, RemovalInv
  <1>11. FrameKey(p, proc[p])'
    BY <1>1, <1>3 DEF FrameKey
  <1>12. Mine(p)'
    BY <1>7, <1>8, <1>9, <1>10 DEF Mine
  <1>13. g.attempt >= f.attempt
    BY <1>1, <1>3
  <1> QED BY <1>1, <1>2, <1>11, <1>12, <1>13, AsksAndMoves DEF Standing

\* A retry takes the next id, which is unused, or ends the process.
LEMMA RetryKeeps ==
  ASSUME Inv, NEW p \in Procs, proc[p].pc \in {"post", "poll"}, Retry(p), Asks(p),
         faults' \in 0 .. plan.maxFaults, faults' >= faults,
         UNCHANGED <<machine, plan>>
  PROVE  Inv'
  <1> DEFINE f == proc[p]
             n == f.attempt + 1
             g == [f EXCEPT !.pc = "post", !.attempt = n, !.polls = 0]
  <1>0. TypeOK /\ Mine(p) /\ f \in Proc /\ FrameKey(p, f)
    BY DEF Inv, TypeOK, KeyInv
  <1>1. f.attempt \in Nat /\ f.attempt \in 1 .. Attempts /\ Attempts \in Nat
    BY <1>0, CurrentId, ConnectorAssumption
  <1>2. CASE End(p)
    BY <1>2, EndKeeps
  <1>3. CASE f.attempt # Attempts /\ Become(p, g)
    <2>1. n \in 1 .. Attempts /\ n > f.attempt /\ n \in Nat /\ n # f.attempt
      BY <1>1, <1>3
    <2>2. 0 \in 0 .. MaxPolls - 1
      BY ConnectorAssumption
    <2> HIDE DEF n
    <2>3. ASSUME NEW m \in 0 .. MaxPolls - 1
          PROVE  [f EXCEPT !.pc = "post", !.attempt = n, !.polls = m] \in Proc
      BY <1>0, <2>1, <2>3, ZenonT(60) DEF Proc
    <2>4. g \in Proc
      BY <2>2, <2>3
    <2>5. /\ g.pc = "post" /\ g.attempt = n /\ g.key = f.key /\ g.made = f.made
          /\ g.sig = f.sig /\ g.tries = f.tries /\ g.peerID = f.peerID
          /\ g.target = f.target /\ g.settled = f.settled
      BY <1>0, ZenonT(60) DEF Proc
    <2> HIDE DEF g
    <2>6. /\ proc'[p] = g /\ Id(p)' = Num(p, n) /\ Num(p, n) \in Ids
          /\ Num(p, n) # Id(p) /\ Id(p) \in Ids
      BY <1>0, <1>3, <2>1, <2>4, <2>5, BecomeType, NumIds, CurrentId DEF Id, Num
    <2>7. /\ row' = row /\ \A r \in Ids : r # Id(p) => job'[r] = job[r]
          /\ UNCHANGED <<key, conf, state, iface, plan>>
      BY AskedJob DEF machine
    <2>8. \A a \in Nat : a > f.attempt /\ a <= Attempts => job'[Num(p, a)].pc = "none"
      <3> SUFFICES ASSUME NEW a \in Nat, a > f.attempt, a <= Attempts
                   PROVE  job'[Num(p, a)].pc = "none"
        OBVIOUS
      <3>1. a \in 1 .. Attempts
        BY <1>1
      <3> QED BY <1>0, <2>7, <3>1, NumIds, CurrentId DEF Mine, LaterIds
    <2>9. LaterIds(p)'
      BY <1>1, <2>1, <2>5, <2>6, <2>8 DEF LaterIds, Num
    <2>10. FrameInv(p)'
      BY <1>0, <2>5, <2>6, <2>7 DEF Mine, FrameInv
    <2>11. job'[Num(p, n)].pc = "none"
      BY <1>1, <2>1, <2>8
    <2>12. JobInv(p)'
      BY <1>0, <2>5, <2>6, <2>11 DEF Mine, FrameInv, JobInv, Unposted, Answered
    <2>13. RemovalInv(p)'
      BY <1>0, <2>5, <2>6 DEF Mine, FrameInv, RemovalInv
    <2>14. g.attempt >= f.attempt
      BY <1>1, <2>1, <2>5
    <2>15. OwnStep(p, g)
      BY <1>3, <2>5, <2>7, <2>14, AskedJob DEF OwnStep, Standing
    <2>16. FrameKey(p, proc[p])'
      <3>1. f.key # NoKey => Made(f.key)
        BY <1>0 DEF FrameKey
      <3>2. f.key # NoKey \/ Cmd(p) = "generate"
        BY <1>0 DEF FrameKey
      <3>3. \A k : Made(k) => Made(k)'
        BY <2>4, <2>15, WrittenStays
      <3> QED BY <2>5, <2>6, <2>7, <3>1, <3>2, <3>3 DEF FrameKey, Cmd
    <2> QED BY <1>3, <2>4, <2>5, <2>9, <2>10, <2>12, <2>13, <2>14, <2>16,
               AsksAndMoves DEF Mine, Standing
  <1>4. End(p) \/ (f.attempt # Attempts /\ Become(p, g))
    BY DEF Retry, End
  <1> QED BY <1>2, <1>3, <1>4

(***************************************************************************)
(* A step of main on its way to a connection: what p holds afterwards, for *)
(* a frame g that keeps what belongs to the signal handler.                *)
(***************************************************************************)
LEMMA MainMoves ==
  ASSUME Inv, NEW p \in Procs, NEW g \in Proc, proc'[p] = g,
         proc[p].pc \notin {"wait", "ended"}, g.pc # "idle",
         g.attempt = proc[p].attempt,
         g.sig = proc[p].sig, g.tries = proc[p].tries,
         g.target = proc[p].target, g.settled = proc[p].settled,
         g.peerID = IF g.pc = "wait" THEN Id(p) ELSE proc[p].peerID,
         g.pc = "up" => conf' # NoConf,
         iface'.by = p => g.pc \in {"save", "wait", "ended"},
         row' = row, \A r \in Ids : r # Id(p) => job'[r] = job[r],
         job'[Id(p)] = job[Id(p)] \/ job'[Id(p)].pc = "work",
         Unposted(g) => job'[Id(p)].pc = "none",
         (Answered(g) /\ g.full) \/ g.pc \in {"up", "save", "wait"}
            => job'[Id(p)].pc = "done"
  PROVE  Mine(p)'
  <1> DEFINE f == proc[p]
  <1>0. TypeOK /\ Mine(p) /\ f.attempt \in 1 .. Attempts /\ Id(p) \in Ids
        /\ Id(p)' = Id(p)
    <2>1. TypeOK /\ Mine(p)
      BY DEF Inv
    <2> QED BY <2>1, CurrentId DEF Id
  <1>1. ~f.settled /\ f.target \notin Ids /\ f.peerID \notin Ids
    BY <1>0 DEF Mine, FrameInv
  <1>2. LaterIds(p)'
    <2> SUFFICES ASSUME NEW a \in Nat, a > f.attempt, a <= Attempts
                 PROVE  job'[Num(p, a)].pc = "none"
      BY DEF LaterIds, Num
    <2>1. a \in 1 .. Attempts
      BY <1>0
    <2> QED BY <1>0, <2>1, NumIds, CurrentId DEF Mine, LaterIds
  <1>3. FrameInv(p)'
    BY <1>0, <1>1 DEF Mine, FrameInv
  <1>4. JobInv(p)'
    BY <1>0, <1>1 DEF Mine, JobInv
  <1>5. RemovalInv(p)'
    BY <1>1 DEF RemovalInv
  <1> QED BY <1>2, <1>3, <1>4, <1>5 DEF Mine
-----------------------------------------------------------------------------
(***************************************************************************)
(* The steps of main.                                                      *)
(***************************************************************************)
\* What the steps of main have in common.
LEMMA AboutMain ==
  ASSUME Inv, NEW p \in Procs
  PROVE  /\ TypeOK /\ Mine(p) /\ proc[p] \in Proc /\ FrameKey(p, proc[p])
         /\ proc[p].attempt \in 1 .. Attempts /\ Id(p) \in Ids
         /\ proc[p].next \in {"post", "write"} /\ proc[p].full \in BOOLEAN
         /\ faults \in 0 .. plan.maxFaults /\ faults \in Nat
         /\ iface.by = p => proc[p].pc \in {"save", "wait", "ended"}
         /\ \A h \in Proc : h.attempt = proc[p].attempt => h.attempt >= proc[p].attempt
  <1>1. TypeOK /\ Mine(p) /\ proc[p] \in Proc /\ FrameKey(p, proc[p])
    BY DEF Inv, TypeOK, KeyInv
  <1>2. proc[p].attempt \in 1 .. Attempts /\ Id(p) \in Ids
    BY <1>1, CurrentId
  <1>3. proc[p].next \in {"post", "write"} /\ proc[p].full \in BOOLEAN
    BY <1>1 DEF Proc
  <1>4. faults \in 0 .. plan.maxFaults /\ faults \in Nat
    BY <1>1, ConnectorAssumption DEF TypeOK
  <1>5. iface.by = p => proc[p].pc \in {"save", "wait", "ended"}
    BY <1>1 DEF Mine, FrameInv
  <1>6. \A h \in Proc : h.attempt = proc[p].attempt => h.attempt >= proc[p].attempt
    BY <1>2
  <1> QED BY <1>1, <1>2, <1>3, <1>4, <1>5, <1>6

\* LoadOrCreateKey finds the key a process has written.
LEMMA LoadKeyKeeps ==
  ASSUME Inv, NEW p \in Procs, LoadKey(p), UNCHANGED plan
  PROVE  Inv'
  <1> DEFINE f == proc[p]
             u == [f EXCEPT !.pc = "create"]
             w == [f EXCEPT !.pc = f.next, !.key = key]
  <1>0. /\ TypeOK /\ Mine(p) /\ f \in Proc /\ FrameKey(p, f) /\ f.pc = "load"
        /\ f.attempt \in 1 .. Attempts /\ f.next \in {"post", "write"}
        /\ key \in Procs \cup {NoKey} /\ (key # NoKey => Made(key))
        /\ iface.by # p
    BY AboutMain DEF LoadKey, At, TypeOK, Inv, KeyInv
  <1>1. UNCHANGED <<api, row, tracker, job, machine, key, conf, state, iface, faults, plan>>
    BY DEF LoadKey, api, machine
  <1>2. CASE Become(p, u)
    <2>1. u \in Proc
      BY <1>0, Zenon DEF Proc
    <2>2. /\ u.pc = "create" /\ u.next = f.next /\ u.attempt = f.attempt
          /\ u.key = f.key /\ u.made = f.made /\ u.full = f.full
          /\ u.sig = f.sig /\ u.tries = f.tries /\ u.peerID = f.peerID
          /\ u.target = f.target /\ u.settled = f.settled
      BY <1>0, ZenonT(60) DEF Proc
    <2> HIDE DEF u
    <2>3. proc'[p] = u
      BY <1>0, <1>2, <2>1, BecomeType
    <2>4. Mine(p)'
      BY <1>0, <1>1, <2>1, <2>2, <2>3, MainMoves
         DEF Mine, JobInv, Unposted, Answered
    <2>5. FrameKey(p, proc[p])'
      <3>1. (f.key # NoKey => Made(f.key)) /\ (f.key \in Procs => f.key # NoKey)
        BY <1>0 DEF FrameKey, NoKey, Procs
      <3>2. f.key # NoKey => Made(f.key)'
        BY <1>0, <1>2, <2>1, <2>2, <3>1, BecomeType DEF Made
      <3> QED BY <2>2, <2>3, <3>2 DEF FrameKey
    <2> QED BY <1>0, <1>1, <1>2, <2>1, <2>2, <2>4, <2>5, AboutMain, MovesAlone
            DEF Standing
  <1>3. CASE key # NoKey /\ Become(p, w)
    <2>1. w \in Proc
      <3>1. ASSUME NEW x \in {"post", "write"}, NEW k \in Procs \cup {NoKey}
            PROVE  [f EXCEPT !.pc = x, !.key = k] \in Proc
        BY <1>0, <3>1, ZenonT(60) DEF Proc
      <3> QED BY <1>0, <3>1
    <2>2. /\ w.pc = f.next /\ w.next = f.next /\ w.attempt = f.attempt
          /\ w.key = key /\ w.made = f.made /\ w.full = f.full
          /\ w.sig = f.sig /\ w.tries = f.tries /\ w.peerID = f.peerID
          /\ w.target = f.target /\ w.settled = f.settled
      BY <1>0, ZenonT(60) DEF Proc
    <2> HIDE DEF w
    <2>3. proc'[p] = w
      BY <1>0, <1>3, <2>1, BecomeType
    <2>4. Mine(p)'
      BY <1>0, <1>1, <2>1, <2>2, <2>3, MainMoves
         DEF Mine, JobInv, Unposted, Answered
    <2>5. Made(key)'
      BY <1>0, <1>1, <1>3, <2>1, <2>2, BecomeType DEF Made
    <2>6. FrameKey(p, proc[p])'
      BY <1>1, <1>3, <2>2, <2>3, <2>5 DEF FrameKey
    <2> QED BY <1>0, <1>1, <1>3, <2>1, <2>2, <2>4, <2>6, AboutMain, MovesAlone
            DEF Standing
  <1> QED BY <1>2, <1>3 DEF LoadKey

\* A key that a process writes is its own.
LEMMA CreateKeyKeeps ==
  ASSUME Inv, NEW p \in Procs, CreateKey(p), UNCHANGED plan
  PROVE  Inv'
  <1> DEFINE f == proc[p]
             g == [f EXCEPT !.pc = f.next, !.key = p, !.made = TRUE]
  <1>0. /\ TypeOK /\ Mine(p) /\ f \in Proc /\ f.pc = "create"
        /\ f.attempt \in 1 .. Attempts /\ f.next \in {"post", "write"}
        /\ iface.by # p
    BY AboutMain DEF CreateKey, At
  <1>1. /\ UNCHANGED <<api, row, tracker, job, conf, state, iface, faults, plan>>
        /\ key' = p /\ Become(p, g)
    BY DEF CreateKey, api
  <1>2. g \in Proc
    <2>1. ASSUME NEW x \in {"post", "write"}, NEW k \in Procs
          PROVE  [f EXCEPT !.pc = x, !.key = k, !.made = TRUE] \in Proc
      BY <1>0, <2>1, ZenonT(60) DEF Proc
    <2> QED BY <1>0, <2>1
  <1>3. /\ g.pc = f.next /\ g.next = f.next /\ g.attempt = f.attempt
        /\ g.key = p /\ g.made = TRUE /\ g.full = f.full
        /\ g.sig = f.sig /\ g.tries = f.tries /\ g.peerID = f.peerID
        /\ g.target = f.target /\ g.settled = f.settled
    BY <1>0, ZenonT(60) DEF Proc
  <1> HIDE DEF g
  <1>4. proc'[p] = g
    BY <1>0, <1>1, <1>2, BecomeType
  <1>5. Mine(p)'
    BY <1>0, <1>1, <1>2, <1>3, <1>4, MainMoves
       DEF Mine, JobInv, Unposted, Answered
  <1>6. Made(p)' /\ p # NoKey
    BY <1>3, <1>4 DEF Made, NoKey, Procs
  <1>7. FrameKey(p, proc[p])'
    BY <1>3, <1>4, <1>6 DEF FrameKey
  <1>8. (key # NoKey => Made(key))'
    BY <1>1, <1>6 DEF Made
  <1>9. OwnStep(p, g)
    BY <1>0, <1>1, <1>2, <1>3, AboutMain DEF OwnStep, Standing
  <1>10. key' = key \/ Made(key)'
    BY <1>1, <1>6, <1>8
  <1> QED BY <1>1, <1>2, <1>5, <1>7, <1>9, <1>10, AboutMain, Moves

\* Faults are counted.
LEMMA FaultsCount ==
  ASSUME Inv, NEW kind, Fault(kind) \/ Sound
  PROVE  faults' \in 0 .. plan.maxFaults /\ faults' >= faults
  <1>1. plan.maxFaults \in Nat /\ faults \in 0 .. plan.maxFaults
    BY ConnectorAssumption DEF Inv, TypeOK
  <1> QED BY <1>1 DEF Fault, Sound

\* connectPeerOnce: accepted, cancelled, or an attempt that failed.
LEMMA ConnectKeeps ==
  ASSUME Inv, NEW p \in Procs, connectPeerOnce(p), UNCHANGED plan
  PROVE  Inv'
  <1> DEFINE f == proc[p]
             g == [f EXCEPT !.pc = "poll"]
  <1>0. /\ TypeOK /\ Mine(p) /\ f \in Proc /\ FrameKey(p, f) /\ f.pc = "post"
        /\ f.attempt \in 1 .. Attempts /\ iface.by # p
    BY AboutMain DEF connectPeerOnce, At
  <1>1. /\ UNCHANGED <<machine, key, conf, state, iface, plan>> /\ Asks(p)
        /\ faults' \in 0 .. plan.maxFaults /\ faults' >= faults
    BY FaultsCount DEF connectPeerOnce, machine, Asks
  <1>2. CASE Goto(p, "poll")
    <2>1. g \in Proc
      BY <1>0, Zenon DEF Proc
    <2>2. /\ g.pc = "poll" /\ g.next = f.next /\ g.attempt = f.attempt
          /\ g.key = f.key /\ g.made = f.made /\ g.full = f.full
          /\ g.sig = f.sig /\ g.tries = f.tries /\ g.peerID = f.peerID
          /\ g.target = f.target /\ g.settled = f.settled
      BY <1>0, ZenonT(60) DEF Proc
    <2>3. Become(p, g)
      BY <1>0, <1>2 DEF Goto, Become, TypeOK
    <2> HIDE DEF g
    <2>4. proc'[p] = g
      BY <1>0, <2>1, <2>3, BecomeType
    <2>5. Mine(p)'
      BY <1>0, <1>1, <2>1, <2>2, <2>4, AskedJob, MainMoves
         DEF Mine, JobInv, Unposted, Answered
    <2>6. FrameKey(p, proc[p])'
      <3>1. (f.key # NoKey => Made(f.key)) /\ (f.key # NoKey \/ Cmd(p) = "generate")
        BY <1>0 DEF FrameKey
      <3>2. f.key # NoKey => Made(f.key)'
        BY <1>0, <2>1, <2>2, <2>3, <3>1, BecomeType DEF Made
      <3> QED BY <1>1, <2>2, <2>4, <3>1, <3>2 DEF FrameKey, Cmd
    <2> QED BY <1>0, <1>1, <2>1, <2>2, <2>3, <2>5, <2>6, AboutMain, AsksAndMoves
            DEF Standing
  <1>3. CASE End(p)
    BY <1>0, <1>1, <1>3, EndKeeps
  <1>4. CASE Retry(p)
    BY <1>0, <1>1, <1>4, RetryKeeps
  <1> QED BY <1>2, <1>3, <1>4 DEF connectPeerOnce

\* An answer is read from the tracker: complete only for a job that is done.
LEMMA PollKeeps ==
  ASSUME Inv, NEW p \in Procs, pollConnectionStatus(p), UNCHANGED plan
  PROVE  Inv'
  <1> DEFINE f == proc[p]
             seen == GetConnectionStatus(p)
             full == seen = "completed"
             n == f.polls + 1
             u == [f EXCEPT !.pc = "load", !.next = "write", !.full = full]
             w == [f EXCEPT !.polls = n]
  <1>0. /\ TypeOK /\ Mine(p) /\ f \in Proc /\ FrameKey(p, f) /\ f.pc = "poll"
        /\ f.attempt \in 1 .. Attempts /\ iface.by # p /\ Id(p) \in Ids
    BY AboutMain DEF pollConnectionStatus, At
  <1>1. /\ UNCHANGED <<api, row, tracker, job, machine, key, conf, state, iface, plan>>
        /\ Asks(p) /\ faults' \in 0 .. plan.maxFaults /\ faults' >= faults
    BY FaultsCount DEF pollConnectionStatus, machine, Asks, api
  <1>2. (f.key # NoKey => Made(f.key)) /\ (f.key # NoKey \/ Cmd(p) = "generate")
    BY <1>0 DEF FrameKey
  <1>3. full \in BOOLEAN /\ (full => job[Id(p)].pc = "done")
    BY <1>0 DEF Inv, RowInv, GetConnectionStatus
  <1>4. CASE Become(p, u)
    <2> HIDE DEF full
    <2>1. u \in Proc
      BY <1>0, <1>3, ZenonT(60) DEF Proc
    <2>2. /\ u.pc = "load" /\ u.next = "write" /\ u.attempt = f.attempt
          /\ u.key = f.key /\ u.made = f.made /\ u.full = full
          /\ u.sig = f.sig /\ u.tries = f.tries /\ u.peerID = f.peerID
          /\ u.target = f.target /\ u.settled = f.settled
      BY <1>0, ZenonT(60) DEF Proc
    <2> HIDE DEF u
    <2>3. proc'[p] = u
      BY <1>0, <1>4, <2>1, BecomeType
    <2>4. u.full => job[Id(p)].pc = "done"
      BY <1>3, <2>2
    <2>5. Mine(p)'
      BY <1>0, <1>1, <2>1, <2>2, <2>3, <2>4, MainMoves DEF Unposted
    <2>6. f.key # NoKey => Made(f.key)'
      BY <1>0, <1>2, <1>4, <2>1, <2>2, BecomeType DEF Made
    <2>7. FrameKey(p, proc[p])'
      BY <2>2, <2>3, <2>6 DEF FrameKey
    <2> QED BY <1>0, <1>1, <1>4, <2>1, <2>2, <2>5, <2>7, AboutMain, MovesAlone
            DEF Standing
  <1>5. CASE n # MaxPolls /\ Become(p, w)
    <2>1. n \in 0 .. MaxPolls - 1
      BY <1>0, <1>5, ConnectorAssumption DEF Proc
    <2> HIDE DEF n
    <2>2. w \in Proc
      BY <1>0, <2>1, ZenonT(60) DEF Proc
    <2>3. /\ w.pc = "poll" /\ w.next = f.next /\ w.attempt = f.attempt
          /\ w.key = f.key /\ w.made = f.made /\ w.full = f.full
          /\ w.sig = f.sig /\ w.tries = f.tries /\ w.peerID = f.peerID
          /\ w.target = f.target /\ w.settled = f.settled
      BY <1>0, ZenonT(60) DEF Proc
    <2> HIDE DEF w
    <2>4. proc'[p] = w
      BY <1>0, <1>5, <2>2, BecomeType
    <2>5. Mine(p)'
      BY <1>0, <1>1, <2>2, <2>3, <2>4, MainMoves DEF Unposted, Answered
    <2>6. f.key # NoKey => Made(f.key)'
      BY <1>0, <1>2, <1>5, <2>2, <2>3, BecomeType DEF Made
    <2>7. FrameKey(p, proc[p])'
      BY <1>1, <1>2, <2>3, <2>4, <2>6 DEF FrameKey, Cmd
    <2> QED BY <1>0, <1>1, <1>5, <2>2, <2>3, <2>5, <2>7, AboutMain, MovesAlone
            DEF Standing
  <1>6. CASE End(p)
    BY <1>0, <1>1, <1>6, EndKeeps
  <1>7. CASE Retry(p)
    BY <1>0, <1>1, <1>7, RetryKeeps
  <1>8. seen \in Seen
    BY <1>0 DEF GetConnectionStatus, TypeOK, ApiTypeOK
  <1>9. \/ End(p) \/ Retry(p) \/ Become(p, u) \/ (n # MaxPolls /\ Become(p, w))
    BY <1>8 DEF pollConnectionStatus, Seen
  <1> QED BY <1>4, <1>5, <1>6, <1>7, <1>9

\* A configuration that is written is the one of the answered connection.
LEMMA WriteKeeps ==
  ASSUME Inv, NEW p \in Procs, WriteConfig(p), UNCHANGED plan
  PROVE  Inv'
  <1> DEFINE f == proc[p]
             g == [f EXCEPT !.pc = "up", !.path = "conf"]
  <1>0. /\ TypeOK /\ Mine(p) /\ f \in Proc /\ FrameKey(p, f) /\ f.pc = "write"
        /\ f.attempt \in 1 .. Attempts /\ iface.by # p /\ Id(p) \in Ids
    BY AboutMain DEF WriteConfig, At
  <1>1. UNCHANGED <<api, row, tracker, job, key, state, iface, faults, plan>>
        /\ Asks(p)
    BY DEF WriteConfig, api, Asks
  <1>2. CASE End(p) /\ UNCHANGED conf
    <2>1. UNCHANGED machine
      BY <1>1, <1>2 DEF machine
    <2> QED BY <1>0, <1>1, <1>2, <2>1, AboutMain, EndKeeps
  <1>3. CASE f.full /\ conf' = [key |-> f.key, peer |-> Id(p)] /\ Become(p, g)
    <2>1. g \in Proc
      BY <1>0, Zenon DEF Proc
    <2>2. /\ g.pc = "up" /\ g.attempt = f.attempt /\ g.key = f.key
          /\ g.made = f.made
          /\ g.sig = f.sig /\ g.tries = f.tries /\ g.peerID = f.peerID
          /\ g.target = f.target /\ g.settled = f.settled
      BY <1>0, ZenonT(60) DEF Proc
    <2> HIDE DEF g
    <2>3. proc'[p] = g
      BY <1>0, <1>3, <2>1, BecomeType
    <2>4. f.key \in Procs /\ f.key # NoKey /\ Made(f.key)
      BY <1>0 DEF FrameKey, Made
    <2>5. /\ conf' \in [key : Procs, peer : Ids] /\ conf' # NoConf
          /\ conf'.key = f.key /\ conf'.peer = Id(p)
      BY <1>0, <1>3, <2>4 DEF NoConf
    <2>6. job[Id(p)].pc = "done"
      BY <1>0, <1>3 DEF Mine, JobInv, Answered
    <2>7. Mine(p)'
      BY <1>0, <1>1, <2>1, <2>2, <2>3, <2>5, <2>6, MainMoves
         DEF Unposted, Answered
    <2>8. Made(f.key)'
      BY <1>0, <1>3, <2>1, <2>2, <2>4, BecomeType DEF Made
    <2>9. FrameKey(p, proc[p])'
      BY <2>2, <2>3, <2>8 DEF FrameKey
    <2>10. OwnStep(p, g)
      BY <1>0, <1>1, <1>3, <2>1, <2>2, <2>5, AboutMain DEF OwnStep, Standing
    <2>11. Written(conf)'
      <3>1. Id(p)' = Id(p)
        BY <2>2, <2>3 DEF Id
      <3> QED BY <1>1, <2>2, <2>3, <2>5, <2>6, <2>8, <3>1 DEF Written
    <2>12. /\ conf' = conf \/ (conf' \in [key : Procs, peer : Ids] /\ Written(conf)')
           /\ iface' \in {iface, NoIface} /\ key' = key
           /\ faults' \in 0 .. plan.maxFaults
      BY <1>1, <2>5, <2>11, AboutMain
    <2> QED BY <1>1, <2>1, <2>7, <2>9, <2>10, <2>12, Moves
  <1> QED BY <1>2, <1>3 DEF WriteConfig, ValidateConfig

\* "wg-quick up" reads a configuration that somebody has written.
LEMMA ApplyKeeps ==
  ASSUME Inv, NEW p \in Procs, ApplyConfig(p), UNCHANGED plan
  PROVE  Inv'
  <1> DEFINE f == proc[p]
             g == [f EXCEPT !.pc = "save"]
  <1>0. /\ TypeOK /\ Mine(p) /\ f \in Proc /\ FrameKey(p, f) /\ f.pc = "up"
        /\ f.attempt \in 1 .. Attempts /\ Id(p) \in Ids
    BY AboutMain DEF ApplyConfig, At
  <1>1. /\ UNCHANGED <<api, row, tracker, job, key, conf, state, plan>> /\ Asks(p)
        /\ faults' \in 0 .. plan.maxFaults /\ faults' >= faults
    BY FaultsCount DEF ApplyConfig, api, Asks
  <1>2. CASE End(p) /\ UNCHANGED iface
    <2>1. UNCHANGED machine
      BY <1>1, <1>2 DEF machine
    <2> QED BY <1>0, <1>1, <1>2, <2>1, EndKeeps
  <1>3. CASE /\ iface' = [key |-> conf.key, peer |-> conf.peer, by |-> p]
             /\ Goto(p, "save")
    <2>1. g \in Proc
      BY <1>0, Zenon DEF Proc
    <2>2. /\ g.pc = "save" /\ g.attempt = f.attempt /\ g.key = f.key
          /\ g.made = f.made
          /\ g.sig = f.sig /\ g.tries = f.tries /\ g.peerID = f.peerID
          /\ g.target = f.target /\ g.settled = f.settled
      BY <1>0, ZenonT(60) DEF Proc
    <2>3. Become(p, g)
      BY <1>0, <1>3 DEF Goto, Become, TypeOK
    <2> HIDE DEF g
    <2>4. proc'[p] = g
      BY <1>0, <2>1, <2>3, BecomeType
    <2>5. conf # NoConf /\ Written(conf)
      BY <1>0 DEF Mine, FrameInv, Inv, FilesInv
    <2>6. conf.key \in Procs /\ conf.peer \in Ids
      BY <1>0, <2>5 DEF TypeOK
    <2>7. /\ iface' \in [key : Procs, peer : Ids, by : Procs]
          /\ iface'.by = p /\ iface'.key = conf.key /\ iface'.peer = conf.peer
      BY <1>3, <2>6
    <2>8. job[Id(p)].pc = "done"
      BY <1>0 DEF Mine, JobInv
    <2>9. Mine(p)'
      BY <1>0, <1>1, <2>1, <2>2, <2>4, <2>5, <2>7, <2>8, MainMoves
         DEF Unposted, Answered
    <2>10. FrameKey(p, proc[p])'
      <3>1. f.key # NoKey => Made(f.key)
        BY <1>0 DEF FrameKey
      <3>2. f.key # NoKey => Made(f.key)'
        BY <1>0, <2>1, <2>2, <2>3, <3>1, BecomeType DEF Made
      <3> QED BY <2>2, <2>4, <3>2 DEF FrameKey
    <2>11. OwnStep(p, g)
      BY <1>0, <1>1, <2>1, <2>2, <2>3, <2>7, AboutMain DEF OwnStep, Standing
    <2>12. Written(conf)'
      BY <1>1, <2>1, <2>5, <2>11, WrittenStays
    <2>13. Written(iface)'
      BY <1>1, <2>7, <2>12 DEF Written
    <2> QED BY <1>1, <2>1, <2>7, <2>9, <2>10, <2>11, <2>13, Moves
  <1> QED BY <1>2, <1>3 DEF ApplyConfig

\* A process that stands connected knows the id of its peer.
LEMMA SaveKeeps ==
  ASSUME Inv, NEW p \in Procs, SaveState(p), UNCHANGED plan
  PROVE  Inv'
  <1> DEFINE f == proc[p]
             i == Id(p)
             g == [f EXCEPT !.pc = "wait", !.peerID = i, !.path = "conf",
                            !.connected = TRUE]
  <1>0. /\ TypeOK /\ Mine(p) /\ f \in Proc /\ FrameKey(p, f) /\ f.pc = "save"
        /\ f.attempt \in 1 .. Attempts /\ i \in Ids
    BY AboutMain DEF SaveState, At
  <1>1. /\ UNCHANGED <<api, row, tracker, job, key, conf, iface, faults, plan>>
        /\ state' = i /\ Become(p, g)
    BY DEF SaveState, api
  <1> HIDE DEF i
  <1>2. g \in Proc
    BY <1>0, ZenonT(60) DEF Proc
  <1>3. /\ g.pc = "wait" /\ g.attempt = f.attempt /\ g.key = f.key
        /\ g.made = f.made
        /\ g.sig = f.sig /\ g.tries = f.tries /\ g.peerID = i
        /\ g.target = f.target /\ g.settled = f.settled
    BY <1>0, ZenonT(60) DEF Proc
  <1> HIDE DEF g
  <1>4. proc'[p] = g
    BY <1>0, <1>1, <1>2, BecomeType
  <1>5. job[Id(p)].pc = "done"
    BY <1>0 DEF Mine, JobInv
  <1>6. Mine(p)'
    BY <1>0, <1>1, <1>2, <1>3, <1>4, <1>5, MainMoves DEF i, Unposted, Answered
  <1>7. FrameKey(p, proc[p])'
    <2>1. f.key # NoKey => Made(f.key)
      BY <1>0 DEF FrameKey
    <2>2. f.key # NoKey => Made(f.key)'
      BY <1>0, <1>1, <1>2, <1>3, <2>1, BecomeType DEF Made
    <2> QED BY <1>3, <1>4, <2>2 DEF FrameKey
  <1>8. OwnStep(p, g)
    BY <1>0, <1>1, <1>2, <1>3, AboutMain DEF OwnStep, Standing, i
  <1> QED BY <1>1, <1>2, <1>6, <1>7, <1>8, AboutMain, Moves

\* All of main.
LEMMA MainKeeps ==
  ASSUME Inv, NEW p \in Procs, MainStep(p)
  PROVE  Inv'
  <1>0. UNCHANGED plan
    BY DEF MainStep
  <1>1. CASE Exit(p)
    <2>1. proc[p].pc = "wait" /\ End(p) /\ Asks(p) /\ UNCHANGED <<machine, faults>>
      BY <1>1 DEF Exit, At, Asks
    <2> QED BY <1>0, <2>1, AboutMain, EndKeeps
  <1> QED BY <1>0, <1>1, LoadKeyKeeps, CreateKeyKeeps, ConnectKeeps, PollKeeps,
             WriteKeeps, ApplyKeeps, SaveKeeps DEF MainStep
-----------------------------------------------------------------------------
(***************************************************************************)
(* The steps of the signal handler.                                        *)
(***************************************************************************)
\* What belongs to main.
SameMain(f, g) ==
    /\ g.pc = f.pc /\ g.next = f.next /\ g.attempt = f.attempt
    /\ g.key = f.key /\ g.made = f.made /\ g.full = f.full

\* What p holds after a step of its signal handler to the frame g.
LEMMA HandlerMoves ==
  ASSUME Inv, NEW p \in Procs, NEW g \in Proc, proc'[p] = g, Running(p),
         SameMain(proc[p], g),
         g.sig \notin {"off", "armed"}, g.sig = "remove" => g.tries < Attempts,
         g.peerID \in {proc[p].peerID, NoPeer},
         g.target \in Ids => g.settled,
         g.settled => g.target = Id(p) /\ g.pc = "wait",
         UNCHANGED <<tracker, job, conf, plan>>, iface' \in {iface, NoIface},
         row'[Id(p)] = row[Id(p)] \/ g.settled,
         proc[p].settled => g.settled,
         g.settled =>
            /\ g.sig \in {"down", "clean", "done"}
                  => row'[Id(p)] = NoKey \/ (g.warned /\ faults' > 0)
            /\ g.sig \in {"clean", "done"} => iface'.by # p
            /\ g.sig = "done" => state' # Id(p)
  PROVE  Mine(p)'
  <1> DEFINE f == proc[p]
  <1>0. TypeOK /\ Mine(p) /\ Id(p)' = Id(p)
    BY AboutMain DEF Id, SameMain
  <1>1. iface'.by = p => iface.by = p
    BY ConnectorAssumption DEF NoIface, Procs
  <1>2. Id(p) \in Ids /\ NoPeer \notin Ids
    BY AboutMain, IdsAssumption DEF NoPeer
  <1>3. LaterIds(p)'
    BY <1>0 DEF SameMain, Mine, LaterIds, Num
  <1>4. FrameInv(p)'
    BY <1>0, <1>1, <1>2 DEF SameMain, Mine, FrameInv, Running
  <1>5. JobInv(p)'
    BY <1>0 DEF SameMain, Mine, JobInv, Unposted, Answered
  <1>6. RemovalInv(p)'
    BY <1>0 DEF RemovalInv
  <1> QED BY <1>3, <1>4, <1>5, <1>6 DEF Mine

\* Its key is main's.
LEMMA HandlerKey ==
  ASSUME Inv, NEW p \in Procs, NEW g \in Proc, Become(p, g),
         SameMain(proc[p], g), UNCHANGED plan
  PROVE  /\ FrameKey(p, proc[p])' /\ proc'[p] = g /\ g.attempt >= proc[p].attempt
         /\ proc[p].made => g.made
         /\ proc[p].pc \in Standing => g.pc \in Standing
  <1> DEFINE f == proc[p]
  <1>0. TypeOK /\ FrameKey(p, f) /\ f.attempt \in Nat
    BY AboutMain
  <1>1. /\ proc'[p] = g /\ \A q \in Procs : q # p => proc'[q] = proc[q]
    BY <1>0, BecomeType
  <1>2. Made(f.key) => Made(f.key)'
    BY <1>1 DEF SameMain, Made
  <1>3. FrameKey(p, proc[p])'
    BY <1>0, <1>1, <1>2 DEF FrameKey, SameMain, Cmd
  <1>4. g.attempt >= f.attempt
    BY <1>0 DEF SameMain
  <1> QED BY <1>1, <1>3, <1>4 DEF SameMain

\* A signal finds the peer's id, if the process stands connected.
LEMMA SignalKeeps ==
  ASSUME Inv, NEW p \in Procs, Signal(p)
  PROVE  Inv'
  <1> DEFINE f == proc[p]
             t == f.peerID
             b == f.pc = "wait"
             g == [f EXCEPT !.sig = "remove", !.target = t, !.settled = b]
  <1>0. /\ TypeOK /\ Mine(p) /\ f \in Proc /\ Running(p) /\ f.sig = "armed"
        /\ faults \in 0 .. plan.maxFaults /\ faults \in Nat
    BY AboutMain DEF Signal
  <1>1. /\ UNCHANGED <<api, row, tracker, job, machine, conf, state, iface, faults, plan>>
        /\ Become(p, g)
    BY DEF Signal, api, machine, Disconnecting
  <1>2. t \in Ids \cup {NoPeer, Mangled} /\ b \in BOOLEAN
    BY <1>0 DEF Proc
  <1>3. /\ t \in Ids => b
        /\ b => t = Id(p)
        /\ ~f.settled /\ f.tries < Attempts
    BY <1>0, ConnectorAssumption DEF Mine, FrameInv
  <1>4. t = f.peerID /\ b = (f.pc = "wait")
    OBVIOUS
  <1> HIDE DEF t, b
  <1>5. g \in Proc
    BY <1>0, <1>2, ZenonT(60) DEF Proc
  <1>6. /\ g.sig = "remove" /\ g.tries = f.tries /\ g.peerID = f.peerID
        /\ g.target = t /\ g.settled = b /\ SameMain(f, g)
    BY <1>0, ZenonT(60) DEF Proc, SameMain
  <1> HIDE DEF g
  <1>7. proc'[p] = g /\ FrameKey(p, proc[p])'
    BY <1>1, <1>5, <1>6, HandlerKey
  <1>8. g.pc = f.pc
    BY <1>6 DEF SameMain
  <1>9. g.settled => g.target = Id(p) /\ g.pc = "wait"
    BY <1>3, <1>4, <1>6, <1>8
  <1>10. Mine(p)'
    BY <1>0, <1>1, <1>3, <1>5, <1>6, <1>7, <1>9, HandlerMoves
  <1>11. /\ g.attempt >= f.attempt /\ (f.made => g.made)
         /\ f.pc \in Standing => g.pc \in Standing /\ g.attempt = f.attempt
    BY <1>1, <1>5, <1>6, HandlerKey DEF SameMain
  <1> QED BY <1>0, <1>1, <1>5, <1>7, <1>10, <1>11, MovesAlone

\* The API's part of a disconnection: nothing, or the row of the target.
Removes(p) ==
    \/ UNCHANGED api
    \/ proc[p].target \in Ids /\ DisconnectPeer(proc[p].target)

\* The row that goes is that of p's own connection.
LEMMA RemovedRow ==
  ASSUME Inv, NEW p \in Procs, Running(p), Removes(p)
  PROVE  /\ ApiTypeOK' /\ RowInv' /\ UNCHANGED <<tracker, job>>
         /\ \A r \in Ids : row'[r] \in {row[r], NoKey}
         /\ \A r \in Ids : r # Id(p) => row'[r] = row[r]
         /\ row'[Id(p)] = row[Id(p)] \/ proc[p].settled
  <1>0. TypeOK /\ ApiTypeOK /\ RowInv /\ Mine(p) /\ Id(p) \in Ids
    BY AboutMain DEF Inv, TypeOK
  <1>1. CASE UNCHANGED api
    <2>1. UNCHANGED <<row, tracker, job>>
      BY <1>1 DEF api
    <2> QED BY <1>0, <2>1 DEF ApiTypeOK, RowInv
  <1>2. CASE proc[p].target \in Ids /\ DisconnectPeer(proc[p].target)
    <2>1. proc[p].settled /\ proc[p].target = Id(p)
      BY <1>0, <1>2 DEF Mine, FrameInv
    <2>2. row' = [row EXCEPT ![Id(p)] = NoKey] /\ UNCHANGED <<tracker, job>>
      BY <1>2, <2>1 DEF DisconnectPeer
    <2>3. row \in [Ids -> Int] /\ NoKey \in Int
      BY <1>0 DEF ApiTypeOK, NoKey
    <2>4. \A r \in Ids : row'[r] = IF r = Id(p) THEN NoKey ELSE row[r]
      BY <1>0, <2>2, <2>3
    <2>5. ApiTypeOK'
      BY <1>0, <2>2, <2>3 DEF ApiTypeOK
    <2>6. RowInv'
      BY <1>0, <2>2, <2>4 DEF RowInv
    <2> QED BY <2>1, <2>2, <2>4, <2>5, <2>6
  <1> QED BY <1>1, <1>2 DEF Removes

\* After an attempt to remove the peer it is gone, or there is a next
\* attempt, or a warning after a failure.
LEMMA RemovalMoves ==
  ASSUME Inv, NEW p \in Procs, NEW g \in Proc, Become(p, g), Running(p),
         proc[p].sig = "remove", SameMain(proc[p], g), Removes(p),
         g.peerID = proc[p].peerID, g.target = proc[p].target,
         g.settled = proc[p].settled, g.sig \in {"remove", "down"},
         g.sig = "remove" => g.tries < Attempts,
         g.settled /\ g.sig = "down"
            => row'[Id(p)] = NoKey \/ (g.warned /\ faults' > 0),
         faults' \in 0 .. plan.maxFaults, faults' >= faults,
         UNCHANGED <<machine, plan>>
  PROVE  Inv'
  <1> DEFINE f == proc[p]
  <1>0. TypeOK /\ Mine(p)
    BY AboutMain
  <1>1. UNCHANGED <<key, conf, state, iface, plan>>
    BY DEF machine
  <1>2. /\ ApiTypeOK' /\ RowInv' /\ UNCHANGED <<tracker, job>>
        /\ \A r \in Ids : row'[r] \in {row[r], NoKey}
        /\ \A r \in Ids : r # Id(p) => row'[r] = row[r]
        /\ row'[Id(p)] = row[Id(p)] \/ f.settled
    BY RemovedRow
  <1>3. /\ FrameKey(p, proc[p])' /\ proc'[p] = g /\ g.attempt >= f.attempt
        /\ f.made => g.made
        /\ f.pc \in Standing => g.pc \in Standing
    BY HandlerKey
  <1>4. g.target \in Ids => g.settled
    BY <1>0 DEF Mine, FrameInv
  <1>5. g.settled => g.target = Id(p) /\ g.pc = "wait"
    BY <1>0 DEF Mine, FrameInv, Running, SameMain
  <1>6. Mine(p)'
    BY <1>1, <1>2, <1>3, <1>4, <1>5, HandlerMoves
  <1>7. OwnStep(p, g)
    BY <1>1, <1>2, <1>3 DEF OwnStep, SameMain
  <1> QED BY <1>1, <1>2, <1>3, <1>6, <1>7, Assemble

\* Disconnect's requests to the server, with their retries.
LEMMA RemoveKeeps ==
  ASSUME Inv, NEW p \in Procs, RemoveFromServer(p), UNCHANGED plan
  PROVE  Inv'
  <1> DEFINE f == proc[p]
             n == f.tries + 1
             last == n = Attempts
             s == IF last THEN "down" ELSE "remove"
             down == [f EXCEPT !.sig = "down"]
             again == [f EXCEPT !.tries = n, !.warned = last, !.sig = s]
             warned == [f EXCEPT !.sig = "down", !.warned = TRUE]
  <1>0. /\ TypeOK /\ Mine(p) /\ f \in Proc /\ Running(p) /\ f.sig = "remove"
        /\ faults \in Nat /\ Id(p) \in Ids
    BY AboutMain DEF RemoveFromServer
  <1>1. UNCHANGED machine /\ faults' \in 0 .. plan.maxFaults /\ faults' >= faults
    BY FaultsCount DEF RemoveFromServer
  <1>2. Removes(p)
    BY DEF RemoveFromServer, Removes
  <1>3. f.settled => f.target = Id(p) /\ f.target \in Ids /\ f.target # NoPeer
    <2>1. NoPeer \notin Ids
      BY IdsAssumption DEF NoPeer
    <2> QED BY <1>0, <2>1 DEF Mine, FrameInv
  <1>4. f.tries < Attempts /\ n \in 0 .. Attempts /\ (~last => n < Attempts)
    BY <1>0, ConnectorAssumption DEF Mine, FrameInv, Proc
  <1>5. last \in BOOLEAN /\ s \in {"down", "remove"} /\ (s = "down" <=> last)
    OBVIOUS
  <1> HIDE DEF n, last, s
  <1>6. CASE /\ Become(p, down)
             /\ f.settled => row'[Id(p)] = NoKey
    <2>1. down \in Proc
      BY <1>0, Zenon DEF Proc
    <2>2. /\ down.sig = "down" /\ down.peerID = f.peerID
          /\ down.target = f.target /\ down.settled = f.settled
          /\ SameMain(f, down)
      BY <1>0, ZenonT(60) DEF Proc, SameMain
    <2> HIDE DEF down
    <2> QED BY <1>0, <1>1, <1>2, <1>6, <2>1, <2>2, RemovalMoves
  <1>7. CASE /\ Become(p, again)
             /\ f.settled => row'[Id(p)] = NoKey \/ faults' > 0
    <2>1. again \in Proc
      <3>1. f.tries \in 0 .. Attempts /\ s \in {"off", "armed", "remove", "down",
                                                "clean", "done", "error"}
        BY <1>0, <1>5 DEF Proc
      <3> QED BY <1>0, <1>4, <1>5, <3>1, ZenonT(60) DEF Proc
    <2>2. /\ again.sig = s /\ again.tries = n /\ again.peerID = f.peerID
          /\ again.target = f.target /\ again.settled = f.settled
          /\ again.warned = last /\ SameMain(f, again)
      BY <1>0, ZenonT(60) DEF Proc, SameMain
    <2> HIDE DEF again
    <2>3. again.sig = "remove" => again.tries < Attempts
      BY <1>4, <1>5, <2>2
    <2>4. again.settled /\ again.sig = "down"
             => row'[Id(p)] = NoKey \/ (again.warned /\ faults' > 0)
      BY <1>5, <1>7, <2>2
    <2>5. again.sig \in {"remove", "down"}
      BY <1>5, <2>2
    <2> QED BY <1>0, <1>1, <1>2, <1>7, <2>1, <2>2, <2>3, <2>4, <2>5, RemovalMoves
  <1>8. CASE Become(p, warned) /\ faults' > 0
    <2>1. warned \in Proc
      BY <1>0, Zenon DEF Proc
    <2>2. /\ warned.sig = "down" /\ warned.peerID = f.peerID
          /\ warned.target = f.target /\ warned.settled = f.settled
          /\ warned.warned = TRUE /\ SameMain(f, warned)
      BY <1>0, ZenonT(60) DEF Proc, SameMain
    <2> HIDE DEF warned
    <2> QED BY <1>0, <1>1, <1>2, <1>8, <2>1, <2>2, RemovalMoves
  <1>9. \A kind : Fault(kind) => faults' > 0
    BY <1>0 DEF Fault
  <1>10. \/ /\ Become(p, down)
            /\ f.settled => row'[Id(p)] = NoKey
         \/ /\ Become(p, again)
            /\ f.settled => row'[Id(p)] = NoKey \/ faults' > 0
         \/ Become(p, warned) /\ faults' > 0
    <2>1. CASE Sound /\ f.target = NoPeer /\ Become(p, down)
      BY <1>3, <2>1
    <2>2. CASE Sound /\ f.target \in Ids /\ Become(p, down) /\ DisconnectPeer(f.target)
      <3>1. f.settled => row' = [row EXCEPT ![Id(p)] = NoKey]
        BY <1>3, <2>2 DEF DisconnectPeer
      <3>2. row \in [Ids -> Int]
        BY <1>0 DEF TypeOK, ApiTypeOK
      <3> QED BY <1>0, <2>2, <3>1, <3>2
    <2>3. CASE /\ Become(p, again) /\ UNCHANGED api
               /\ ~(f.target \in Ids /\ row[f.target] # NoKey)
      BY <1>3, <2>3 DEF api
    <2>4. CASE Fault("lost") /\ Become(p, again)
      BY <1>9, <2>4
    <2>5. CASE Fault("hang") /\ Become(p, warned)
      BY <1>9, <2>5
    <2>6. TryAgain(p) => Become(p, again)
      BY DEF TryAgain, again, n, last, s
    <2> QED BY <2>1, <2>2, <2>3, <2>4, <2>5, <2>6 DEF RemoveFromServer
  <1> QED BY <1>6, <1>7, <1>8, <1>10

\* "wg-quick down": the interface is gone, or the handler gives up.
LEMMA RemoveConfigKeeps ==
  ASSUME Inv, NEW p \in Procs, RemoveConfig(p), UNCHANGED plan
  PROVE  Inv'
  <1> DEFINE f == proc[p]
             u == [f EXCEPT !.sig = "clean"]
             w == [f EXCEPT !.sig = "error", !.cancelled = TRUE]
  <1>0. /\ TypeOK /\ Mine(p) /\ f \in Proc /\ Running(p) /\ f.sig = "down"
        /\ faults \in Nat
    BY AboutMain DEF RemoveConfig
  <1>1. /\ UNCHANGED <<api, row, tracker, job, key, conf, state, plan>>
        /\ faults' \in 0 .. plan.maxFaults /\ faults' >= faults
    BY FaultsCount DEF RemoveConfig, api
  <1>2. /\ f.target \in Ids => f.settled
        /\ f.settled => f.target = Id(p) /\ f.pc = "wait"
        /\ f.settled => row[Id(p)] = NoKey \/ (f.warned /\ faults > 0)
    BY <1>0 DEF Mine, FrameInv, RemovalInv, Running
  <1>3. faults > 0 => faults' > 0
    BY <1>0, <1>1
  <1>4. CASE iface' = NoIface /\ Become(p, u)
    <2>1. u \in Proc
      BY <1>0, Zenon DEF Proc
    <2>2. /\ u.sig = "clean" /\ u.peerID = f.peerID /\ u.target = f.target
          /\ u.settled = f.settled /\ u.warned = f.warned /\ SameMain(f, u)
      BY <1>0, ZenonT(60) DEF Proc, SameMain
    <2> HIDE DEF u
    <2>3. /\ FrameKey(p, proc[p])' /\ proc'[p] = u /\ u.attempt >= f.attempt
          /\ f.made => u.made
          /\ f.pc \in Standing => u.pc \in Standing
      BY <1>1, <1>4, <2>1, <2>2, HandlerKey
    <2>4. iface'.by # p
      BY <1>4 DEF NoIface, Procs
    <2>5. u.pc = f.pc /\ u.attempt = f.attempt
      BY <2>2 DEF SameMain
    <2>6. Mine(p)'
      BY <1>0, <1>1, <1>2, <1>3, <1>4, <2>1, <2>2, <2>3, <2>4, <2>5, HandlerMoves
    <2>7. OwnStep(p, u)
      BY <1>1, <1>4, <2>3, <2>5 DEF OwnStep
    <2> QED BY <1>1, <1>4, <2>1, <2>3, <2>6, <2>7, Moves
  <1>5. CASE UNCHANGED iface /\ Become(p, w)
    <2>1. w \in Proc
      BY <1>0, Zenon DEF Proc
    <2>2. /\ w.sig = "error" /\ w.peerID = f.peerID /\ w.target = f.target
          /\ w.settled = f.settled /\ SameMain(f, w)
      BY <1>0, ZenonT(60) DEF Proc, SameMain
    <2> HIDE DEF w
    <2>3. /\ FrameKey(p, proc[p])' /\ proc'[p] = w /\ w.attempt >= f.attempt
          /\ f.made => w.made
          /\ f.pc \in Standing => w.pc \in Standing
      BY <1>1, <1>5, <2>1, <2>2, HandlerKey
    <2>4. w.pc = f.pc /\ w.attempt = f.attempt
      BY <2>2 DEF SameMain
    <2>5. Mine(p)'
      BY <1>0, <1>1, <1>2, <1>5, <2>1, <2>2, <2>3, <2>4, HandlerMoves
    <2>6. OwnStep(p, w)
      BY <1>1, <1>5, <2>3, <2>4 DEF OwnStep
    <2> QED BY <1>1, <1>5, <2>1, <2>3, <2>5, <2>6, Moves
  <1> QED BY <1>4, <1>5 DEF RemoveConfig

\* The state file goes last.
LEMMA CleanupKeeps ==
  ASSUME Inv, NEW p \in Procs, cleanupConnectionState(p), UNCHANGED plan
  PROVE  Inv'
  <1> DEFINE f == proc[p]
             g == [f EXCEPT !.sig = "done", !.cancelled = TRUE,
                            !.connected = FALSE, !.peerID = NoPeer]
  <1>0. /\ TypeOK /\ Mine(p) /\ f \in Proc /\ Running(p) /\ f.sig = "clean"
        /\ faults \in 0 .. plan.maxFaults /\ faults \in Nat
    BY AboutMain DEF cleanupConnectionState
  <1>1. /\ UNCHANGED <<api, row, tracker, job, key, conf, iface, faults, plan>>
        /\ state' = NoPeer /\ Become(p, g)
    BY DEF cleanupConnectionState, api
  <1>2. /\ f.target \in Ids => f.settled
        /\ f.settled => f.target = Id(p) /\ f.pc = "wait" /\ iface.by # p
        /\ f.settled => row[Id(p)] = NoKey \/ (f.warned /\ faults > 0)
    BY <1>0 DEF Mine, FrameInv, RemovalInv, Running
  <1>3. Id(p) # NoPeer
    BY <1>0, CurrentId
  <1>4. g \in Proc
    BY <1>0, ZenonT(60) DEF Proc
  <1>5. /\ g.sig = "done" /\ g.peerID = NoPeer /\ g.target = f.target
        /\ g.settled = f.settled /\ g.warned = f.warned /\ SameMain(f, g)
    BY <1>0, ZenonT(60) DEF Proc, SameMain
  <1> HIDE DEF g
  <1>6. /\ FrameKey(p, proc[p])' /\ proc'[p] = g /\ g.attempt >= f.attempt
        /\ f.made => g.made
        /\ f.pc \in Standing => g.pc \in Standing
    BY <1>1, <1>4, <1>5, HandlerKey
  <1>7. g.pc = f.pc /\ g.attempt = f.attempt
    BY <1>5 DEF SameMain
  <1>8. Mine(p)'
    BY <1>0, <1>1, <1>2, <1>3, <1>4, <1>5, <1>6, <1>7, HandlerMoves
  <1>9. OwnStep(p, g)
    BY <1>0, <1>1, <1>6, <1>7 DEF OwnStep
  <1> QED BY <1>0, <1>1, <1>4, <1>6, <1>8, <1>9, Moves

\* All of the handler.
LEMMA HandlerKeeps ==
  ASSUME Inv, NEW p \in Procs, HandlerStep(p)
  PROVE  Inv'
  BY RemoveKeeps, RemoveConfigKeeps, CleanupKeeps DEF HandlerStep

\* A process that is killed is one that ends.
LEMMA KillKeeps ==
  ASSUME Inv, NEW p \in Procs, Kill(p)
  PROVE  Inv'
  <1>1. proc[p].pc # "idle" /\ End(p) /\ Asks(p) /\ UNCHANGED <<machine, plan>>
    BY DEF Kill, Running, Asks
  <1>2. faults' \in 0 .. plan.maxFaults /\ faults' >= faults
    BY FaultsCount DEF Kill
  <1> QED BY <1>1, <1>2, EndKeeps

\* A command starts from scratch: what Reconnect finds in the state file is
\* nothing to connect with.
LEMMA RunKeeps ==
  ASSUME Inv, NEW p \in Procs, Run(p)
  PROVE  Inv'
  <1> DEFINE l == Loaded(NewProc)
             x == prepareConnectRequest(p)
             u == [l EXCEPT !.sig = "armed", !.pc = x]
             e == Ended(l)
  <1>0. /\ TypeOK /\ Mine(p) /\ proc[p] = NewProc /\ iface.by # p
        /\ faults \in 0 .. plan.maxFaults /\ faults \in Nat
        /\ UNCHANGED <<api, row, tracker, job, machine, key, conf, state, iface,
                       faults, plan>>
    BY AboutMain DEF Run, At, Mine, FrameInv, api, machine
  <1>1. /\ NewProc \in Proc /\ NewProc.pc = "idle" /\ NewProc.attempt = 1
        /\ NewProc.made = FALSE /\ NewProc.settled = FALSE
        /\ NewProc.connected = FALSE /\ NewProc.next = "post"
        /\ NewProc.tries = 0 /\ NewProc.target = NoPeer
        /\ NewProc.peerID = NoPeer /\ NewProc.key = NoKey
    <2>1. NewProc \in Proc
      BY <1>0, AboutMain
    <2>2. /\ NewProc.pc = "idle" /\ NewProc.attempt = 1
          /\ NewProc.made = FALSE /\ NewProc.settled = FALSE
          /\ NewProc.connected = FALSE /\ NewProc.next = "post"
          /\ NewProc.tries = 0 /\ NewProc.target = NoPeer
          /\ NewProc.peerID = NoPeer /\ NewProc.key = NoKey
      BY Zenon DEF NewProc
    <2> QED BY <2>1, <2>2
  <1>2. /\ l \in Proc /\ l.attempt = 1 /\ l.made = FALSE /\ l.settled = FALSE
        /\ l.connected = FALSE /\ l.next = "post" /\ l.tries = 0
        /\ l.target = NoPeer /\ l.key = NoKey /\ l.peerID \in {NoPeer, Mangled}
    <2> DEFINE m == [NewProc EXCEPT !.peerID = Mangled, !.path = "mangled"]
    <2>1. m \in Proc
      BY <1>1, ZenonT(40) DEF Proc
    <2>2. /\ m.attempt = NewProc.attempt /\ m.made = NewProc.made
          /\ m.settled = NewProc.settled /\ m.connected = NewProc.connected
          /\ m.next = NewProc.next /\ m.tries = NewProc.tries
          /\ m.target = NewProc.target /\ m.key = NewProc.key
          /\ m.peerID = Mangled
      BY <1>1, ZenonT(60) DEF Proc
    <2>3. l = NewProc \/ l = m
      BY DEF Loaded
    <2> HIDE DEF l, m
    <2> QED BY <1>1, <2>1, <2>2, <2>3
  <1>3. Become(p, u) \/ Become(p, e)
    BY <1>2 DEF Run, IsConnected
  <1>4. x \in {"post", "load"} /\ (x = "post" => Cmd(p) = "generate")
    BY DEF prepareConnectRequest
  <1>5. NoPeer \notin Ids /\ Mangled \notin Ids
    BY IdsAssumption DEF NoPeer, Mangled
  <1> HIDE DEF l, x
  <1>6. \A a \in Nat : a > 1 /\ a <= Attempts => job[Num(p, a)].pc = "none"
    BY <1>0, <1>1 DEF Mine, LaterIds
  <1>7. job[Id(p)].pc = "none"
    BY <1>0, <1>1 DEF Mine, JobInv, Unposted
  <1>8. CASE Become(p, u)
    <2>1. u \in Proc
      <3>1. ASSUME NEW y \in {"post", "load"}
            PROVE  [l EXCEPT !.sig = "armed", !.pc = y] \in Proc
        BY <1>2, <3>1, ZenonT(60) DEF Proc
      <3> QED BY <1>4, <3>1
    <2>2. /\ u.pc = x /\ u.sig = "armed" /\ u.next = l.next
          /\ u.attempt = l.attempt /\ u.key = l.key /\ u.made = l.made
          /\ u.tries = l.tries /\ u.peerID = l.peerID
          /\ u.target = l.target /\ u.settled = l.settled
      BY <1>2, ZenonT(60) DEF Proc
    <2> HIDE DEF u
    <2>3. proc'[p] = u /\ Id(p)' = Id(p)
      BY <1>0, <1>1, <1>2, <1>8, <2>1, <2>2, BecomeType DEF Id
    <2>4. LaterIds(p)'
      BY <1>0, <1>2, <1>6, <2>2, <2>3 DEF LaterIds, Num
    <2>5. FrameInv(p)'
      BY <1>0, <1>2, <1>4, <1>5, <2>2, <2>3, ConnectorAssumption DEF FrameInv
    <2>6. JobInv(p)' /\ RemovalInv(p)'
      BY <1>0, <1>2, <1>4, <1>7, <2>2, <2>3 DEF JobInv, RemovalInv, Answered
    <2>7. FrameKey(p, proc[p])'
      BY <1>0, <1>2, <1>4, <2>2, <2>3 DEF FrameKey, Cmd
    <2> QED BY <1>0, <1>1, <1>2, <1>8, <2>1, <2>2, <2>4, <2>5, <2>6, <2>7,
               MovesAlone DEF Mine, Standing
  <1>9. CASE Become(p, e)
    <2>1. /\ e \in Proc /\ e.pc = "ended" /\ e.key = NoKey
          /\ e.attempt = l.attempt /\ e.made = l.made
          /\ e.settled = l.settled /\ e.tries = 0 /\ e.peerID = NoPeer
          /\ e.target = NoPeer /\ e.sig = "off"
      BY <1>2, EndedFields
    <2> HIDE DEF e
    <2>3. proc'[p] = e /\ Id(p)' = Id(p)
      BY <1>0, <1>1, <1>2, <1>9, <2>1, BecomeType DEF Id
    <2>4. LaterIds(p)'
      BY <1>0, <1>2, <1>6, <2>1, <2>3 DEF LaterIds, Num
    <2>5. FrameInv(p)'
      BY <1>0, <1>2, <1>5, <2>1, <2>3, ConnectorAssumption DEF FrameInv
    <2>6. JobInv(p)' /\ RemovalInv(p)'
      BY <1>0, <1>2, <1>7, <2>1, <2>3 DEF JobInv, RemovalInv, Answered, Unposted
    <2>7. FrameKey(p, proc[p])'
      BY <2>1, <2>3 DEF FrameKey
    <2> QED BY <1>0, <1>1, <1>2, <1>9, <2>1, <2>4, <2>5, <2>6, <2>7,
               MovesAlone DEF Mine, Standing
  <1> QED BY <1>3, <1>8, <1>9
-----------------------------------------------------------------------------
(***************************************************************************)
(* The steps of the service.                                               *)
(***************************************************************************)
\* A step of the service is one the processes do not feel: an id that is
\* unused or done stays so, and so does the row of one that is done.
LEMMA ServiceMoves ==
  ASSUME Inv, UNCHANGED <<machine, proc, plan>>,
         faults' \in 0 .. plan.maxFaults, faults' >= faults,
         ApiTypeOK', RowInv',
         \A r \in Ids :
            /\ job[r].pc = "none" => job'[r].pc = "none"
            /\ job[r].pc = "done" => job'[r].pc = "done" /\ row'[r] = row[r]
            /\ job'[r].pc \in {"configure", "report", "done"} =>
                  \/ row'[r] # NoKey
                  \/ /\ job[r].pc \in {"configure", "report", "done"}
                     /\ row'[r] = row[r]
            /\ row'[r] \in {row[r], job[r].key, NoKey}
            /\ job'[r].key \in {job[r].key, NoKey}
  PROVE  Inv'
  <1>0. /\ TypeOK /\ KeyInv /\ FilesInv /\ (\A p \in Procs : Mine(p))
        /\ UNCHANGED <<key, conf, state, iface>>
        /\ faults \in 0 .. plan.maxFaults /\ faults \in Nat /\ faults' \in Nat
    BY ConnectorAssumption DEF Inv, TypeOK, machine
  <1>1. TypeOK'
    BY <1>0 DEF TypeOK
  <1>2. ASSUME NEW p \in Procs PROVE Mine(p)'
    <2>1. /\ Mine(p) /\ Id(p) \in Ids /\ Id(p)' = Id(p)
          /\ proc[p].attempt \in 1 .. Attempts
      BY <1>0, CurrentId DEF Id
    <2>2. LaterIds(p)'
      <3> SUFFICES ASSUME NEW a \in Nat, a > proc[p].attempt, a <= Attempts
                   PROVE  job'[Num(p, a)].pc = "none"
        BY DEF LaterIds, Num
      <3>1. a \in 1 .. Attempts
        BY <2>1
      <3>2. Num(p, a) \in Ids /\ job[Num(p, a)].pc = "none"
        BY <2>1, <3>1, NumIds DEF Mine, LaterIds
      <3> QED BY <3>2
    <2>3. FrameInv(p)'
      BY <1>0, <2>1 DEF Mine, FrameInv
    <2>4. JobInv(p)'
      BY <2>1 DEF Mine, JobInv, Unposted, Answered
    <2>5. RemovalInv(p)'
      <3>1. faults > 0 => faults' > 0
        BY <1>0
      <3>2. proc[p].settled => row'[Id(p)] = row[Id(p)]
        BY <2>1 DEF Mine, JobInv
      <3> QED BY <1>0, <2>1, <3>1, <3>2 DEF Mine, RemovalInv
    <2> QED BY <2>2, <2>3, <2>4, <2>5 DEF Mine
  <1>3. KeyInv'
    <2>1. \A k : Made(k)' = Made(k)
      BY DEF Made
    <2>2. \A q : Cmd(q)' = Cmd(q)
      BY DEF Cmd
    <2>3. \A p \in Procs : FrameKey(p, proc[p])'
      BY <1>0, <2>1, <2>2 DEF KeyInv, FrameKey
    <2>4. ASSUME NEW r \in Ids
          PROVE  KeyOf(r, row[r])' /\ KeyOf(r, job[r].key)'
      <3>1. KeyOf(r, row[r]) /\ KeyOf(r, job[r].key) /\ KeyOf(r, NoKey)
        BY <1>0 DEF KeyInv, KeyOf
      <3> QED BY <2>1, <2>2, <3>1 DEF KeyOf
    <2> QED BY <1>0, <2>1, <2>3, <2>4 DEF KeyInv
  <1>4. ASSUME NEW c, Written(c) PROVE Written(c)'
    <2>1. PICK q \in Procs : /\ c.peer = Id(q)
                             /\ proc[q].pc \in {"up", "save", "wait", "ended"}
                             /\ job[Id(q)].pc = "done"
      BY <1>4 DEF Written
    <2>2. Id(q)' = Id(q) /\ job'[Id(q)].pc = "done" /\ Made(c.key)'
      BY <1>0, <1>4, <2>1, CurrentId DEF Id, Written, Made
    <2> QED BY <2>1, <2>2 DEF Written
  <1>5. FilesInv'
    BY <1>0, <1>4 DEF FilesInv
  <1> QED BY <1>1, <1>2, <1>3, <1>5 DEF Inv

\* What a step of one job leaves alone.
JobMoves(r, pc, k) ==
    /\ job' = [job EXCEPT ![r] = [pc |-> pc, key |-> NoKey]]
    /\ row' = [row EXCEPT ![r] = k]

\* A job's step: the row it inserts has a key of a client or its own.
LEMMA ServiceKeeps ==
  ASSUME Inv, NEW r \in Ids, ServiceStep(r)
  PROVE  Inv'
  <1>0. /\ TypeOK /\ ApiTypeOK /\ RowInv /\ UNCHANGED <<machine, proc, plan, faults>>
        /\ row \in [Ids -> Int] /\ tracker \in [Ids -> Seen]
        /\ job \in [Ids -> [pc : JobPCs, key : Int]]
        /\ faults \in 0 .. plan.maxFaults /\ faults' >= faults
    BY ConnectorAssumption DEF Inv, TypeOK, ApiTypeOK, ServiceStep
  <1>1. ASSUME NEW pc \in JobPCs, NEW k \in Int, JobMoves(r, pc, k),
               NEW t \in Seen,
               tracker' = tracker \/ tracker' = [tracker EXCEPT ![r] = t],
               tracker'[r] = "completed" => pc = "done",
               pc # "work", job[r].pc \in {"work", "configure", "report"},
               pc \in {"configure", "report", "done"} =>
                  k # NoKey \/ (job[r].pc # "work" /\ k = row[r]),
               k \in {row[r], job[r].key, NoKey}
        PROVE  Inv'
    <2>1. /\ job'[r].pc = pc /\ job'[r].key = NoKey /\ row'[r] = k
          /\ \A s \in Ids : s # r => /\ job'[s] = job[s] /\ row'[s] = row[s]
                                     /\ tracker'[s] = tracker[s]
      BY <1>0, <1>1 DEF JobMoves
    <2>2. ApiTypeOK'
      BY <1>0, <1>1 DEF ApiTypeOK, JobMoves, NoKey
    <2>3. RowInv'
      <3>1. \A s \in Ids : job'[s].pc = "work" => job'[s].key # NoKey
        BY <1>0, <1>1, <2>1 DEF RowInv
      <3>2. \A s \in Ids : tracker'[s] = "completed" => job'[s].pc = "done"
        BY <1>0, <1>1, <2>1 DEF RowInv
      <3> QED BY <3>1, <3>2 DEF RowInv
    <2> QED BY <1>0, <1>1, <2>1, <2>2, <2>3, ServiceMoves
  <1>2. /\ row = [row EXCEPT ![r] = row[r]] /\ row[r] \in Int /\ NoKey \in Int
        /\ job[r].key \in Int
    BY <1>0 DEF NoKey
  <1>3. tracker[r] = "completed" => job[r].pc = "done"
    BY <1>0 DEF RowInv
  <1>4. \A t \in Seen : See(r, t) => tracker'[r] = t
    BY <1>0 DEF See
  <1>5. CASE CreatePeer(r)
    <2>1. CASE JobFails(r) /\ UNCHANGED row
      BY <1>1, <1>2, <1>4, <1>5, <2>1
         DEF CreatePeer, JobFails, JobGoto, See, JobMoves, JobPCs, Seen
    <2>2. CASE /\ GetByIdentifier(job[r].key) = {} /\ UNCHANGED tracker
               /\ row' = [row EXCEPT ![r] = job[r].key] /\ JobGoto(r, "configure")
      <3>1. job[r].key # NoKey /\ job[r].pc = "work"
        BY <1>0, <1>5 DEF RowInv, CreatePeer
      <3>2. JobMoves(r, "configure", job[r].key)
        BY <2>2 DEF JobGoto, JobMoves
      <3> QED BY <1>1, <1>2, <1>3, <2>2, <3>1, <3>2 DEF JobPCs, Seen
    <2> QED BY <1>5, <2>1, <2>2 DEF CreatePeer
  <1>6. CASE ConfigurePeer(r)
    <2>1. CASE See(r, "reported") /\ JobGoto(r, "report") /\ UNCHANGED row
      BY <1>1, <1>2, <1>4, <1>6, <2>1
         DEF ConfigurePeer, JobGoto, See, JobMoves, JobPCs, Seen
    <2>2. CASE JobFails(r) /\ row' = [row EXCEPT ![r] = NoKey]
      BY <1>1, <1>2, <1>4, <1>6, <2>2
         DEF ConfigurePeer, JobFails, JobGoto, See, JobMoves, JobPCs, Seen
    <2> QED BY <1>6, <2>1, <2>2 DEF ConfigurePeer
  <1>7. CASE ReportConnected(r)
    BY <1>1, <1>2, <1>4, <1>7
       DEF ReportConnected, JobGoto, See, JobMoves, JobPCs, Seen
  <1> QED BY <1>5, <1>6, <1>7 DEF ServiceStep, JobStep

\* A restart forgets the jobs that were under way; what is done is done.
LEMMA RestartKeeps ==
  ASSUME Inv, Restart
  PROVE  Inv'
  <1>0. /\ TypeOK /\ ApiTypeOK /\ RowInv /\ UNCHANGED <<machine, proc, plan, row>>
        /\ faults' \in 0 .. plan.maxFaults /\ faults' >= faults
        /\ job \in [Ids -> [pc : JobPCs, key : Int]]
    BY FaultsCount DEF Inv, TypeOK, ApiTypeOK, Restart, RestartService
  <1>1. ASSUME NEW r \in Ids
        PROVE  /\ tracker'[r] = "absent" /\ job'[r] \in [pc : JobPCs, key : Int]
               /\ \/ job'[r] = job[r] /\ job[r].pc \notin {"work", "configure", "report"}
                  \/ /\ job[r].pc \in {"work", "configure", "report"}
                     /\ job'[r].pc = "dead" /\ job'[r].key = NoKey
    BY <1>0 DEF Restart, RestartService, NoJob, JobPCs, NoKey
  <1>2. ApiTypeOK'
    BY <1>0, <1>1 DEF ApiTypeOK, Restart, RestartService, Seen
  <1>3. RowInv'
    BY <1>0, <1>1 DEF RowInv
  <1> QED BY <1>0, <1>1, <1>2, <1>3, ServiceMoves
-----------------------------------------------------------------------------
(***************************************************************************)
(* The invariant.                                                          *)
(***************************************************************************)
\* Nothing has started: every id is unused, and no file is there.
LEMMA InitInv ==
  ASSUME Init
  PROVE  Inv
  <1>1. /\ NewProc \in Proc
        /\ NewProc.pc = "idle" /\ NewProc.attempt = 1 /\ NewProc.key = NoKey
        /\ NewProc.settled = FALSE /\ NewProc.sig = "off" /\ NewProc.tries = 0
        /\ NewProc.peerID = NoPeer /\ NewProc.target = NoPeer
    <2>1. NewProc \in Proc
      BY ConnectorAssumption DEF NewProc, Proc, NoKey, NoPeer
    <2>2. /\ NewProc.pc = "idle" /\ NewProc.attempt = 1 /\ NewProc.key = NoKey
          /\ NewProc.settled = FALSE /\ NewProc.sig = "off" /\ NewProc.tries = 0
          /\ NewProc.peerID = NoPeer /\ NewProc.target = NoPeer
      BY Zenon DEF NewProc
    <2> QED BY <2>1, <2>2
  <1>2. /\ \A p \in Procs : proc[p] = NewProc
        /\ \A r \in Ids : /\ row[r] = NoKey /\ tracker[r] = "absent"
                          /\ job[r].pc = "none" /\ job[r].key = NoKey
        /\ key = NoKey /\ conf = NoConf /\ iface = NoIface /\ state = NoPeer
        /\ faults = 0
    BY DEF Init, ApiInit, NoJob
  <1>3. TypeOK
    <2>1. ApiTypeOK
      BY DEF Init, ApiInit, ApiTypeOK, NoKey, NoJob, Seen, JobPCs
    <2>2. proc \in [Procs -> Proc]
      BY <1>1 DEF Init
    <2>3. plan \in Plans /\ faults \in 0 .. plan.maxFaults
      BY ConnectorAssumption DEF Init
    <2> QED BY <1>2, <2>1, <2>2, <2>3 DEF TypeOK
  <1>4. ASSUME NEW p \in Procs PROVE Mine(p)
    <2>1. Id(p) \in Ids /\ proc[p] = NewProc /\ NoPeer \notin Ids
      BY <1>2, <1>3, CurrentId, IdsAssumption DEF NoPeer
    <2>2. LaterIds(p)
      <3> SUFFICES ASSUME NEW a \in Nat, a > proc[p].attempt, a <= Attempts
                   PROVE  job[Num(p, a)].pc = "none"
        BY DEF LaterIds
      <3>1. a \in 1 .. Attempts
        BY <1>1, <2>1
      <3> QED BY <1>2, <3>1, NumIds
    <2>3. iface.by # p
      BY <1>2 DEF NoIface, Procs
    <2>4. FrameInv(p)
      BY <1>1, <2>1, <2>3 DEF FrameInv
    <2>5. JobInv(p) /\ RemovalInv(p)
      BY <1>1, <1>2, <2>1 DEF JobInv, RemovalInv, Answered
    <2> QED BY <2>2, <2>4, <2>5 DEF Mine
  <1>5. KeyInv
    BY <1>1, <1>2 DEF KeyInv, FrameKey, KeyOf
  <1>6. RowInv /\ FilesInv
    BY <1>2 DEF RowInv, FilesInv
  <1> QED BY <1>3, <1>4, <1>5, <1>6 DEF Inv

\* Every step of the system, and a step that changes nothing.
LEMMA NextInv ==
  ASSUME Inv, [Next]_vars
  PROVE  Inv'
  <1>1. CASE UNCHANGED vars
    <2>1. /\ UNCHANGED <<machine, proc, plan, faults, row, tracker, job>>
          /\ TypeOK /\ RowInv /\ ApiTypeOK
          /\ faults \in 0 .. plan.maxFaults /\ faults >= faults
      BY <1>1, ConnectorAssumption DEF vars, api, Inv, TypeOK
    <2>2. ApiTypeOK' /\ RowInv'
      BY <2>1 DEF ApiTypeOK, RowInv
    <2> QED BY <2>1, <2>2, ServiceMoves
  <1>2. CASE Next
    BY <1>2, RunKeeps, MainKeeps, SignalKeeps, HandlerKeeps, KillKeeps,
       ServiceKeeps, RestartKeeps DEF Next
  <1> QED BY <1>1, <1>2

\* The invariant holds throughout, for every number of processes and
\* attempts, every plan and every fault.
THEOREM InvHolds == Spec => []Inv
  <1>1. Init => Inv
    BY InitInv
  <1>2. Inv /\ [Next]_vars => Inv'
    BY NextInv
  <1> QED BY <1>1, <1>2, PTL DEF Spec
-----------------------------------------------------------------------------
(***************************************************************************)
(* What follows.                                                           *)
(***************************************************************************)
\* The values are those the code keeps (connector.go, api/types.go).
THEOREM TypeCorrect == Spec => []TypeOK
  <1>1. Inv => TypeOK
    BY DEF Inv
  <1> QED BY <1>1, InvHolds, PTL

\* A tunnel that stands is one the service completed and still serves, but
\* while its own process takes it down or has failed to; and its private key
\* is that of the public key the service has (connector.go, keys.go).
THEOREM TunnelIsSound == Spec => []TunnelSound
  <1>1. ASSUME Inv, iface # NoIface
        PROVE  UpMeansServed /\ KeysMatch /\ OnlyComplete
    <2>1. Written(iface) /\ TypeOK /\ KeyInv
      BY <1>1 DEF Inv, FilesInv
    <2>2. PICK q \in Procs : iface.peer = Id(q) /\ job[Id(q)].pc = "done"
      BY <2>1 DEF Written
    <2>3. Mine(q) /\ Id(q) \in Ids /\ Owner(Id(q)) = q /\ proc[q] \in Proc
      BY <1>1, <2>1, CurrentId, AboutMain DEF Inv
    <2>4. UpMeansServed
      <3>1. row[Id(q)] # NoKey \/ proc[q].settled
        BY <2>2, <2>3 DEF Mine, JobInv
      <3>2. proc[q].settled => proc[q].sig \notin {"off", "armed"}
        BY <2>3 DEF Mine, FrameInv
      <3>3. proc[q].settled /\ proc[q].sig \in {"clean", "done"} => iface.by # q
        BY <2>3 DEF Mine, RemovalInv
      <3>4. proc[q].sig \in {"off", "armed", "remove", "down", "clean", "done",
                             "error"}
        BY <2>3 DEF Proc
      <3> QED BY <2>2, <2>3, <3>1, <3>2, <3>3, <3>4 DEF UpMeansServed, Own
    <2>5. KeysMatch
      <3>1. KeyOf(Id(q), row[Id(q)]) /\ Made(iface.key)
        BY <2>1, <2>3 DEF KeyInv, Written
      <3> QED BY <2>2, <2>3, <3>1 DEF KeysMatch, KeyOf, Made
    <2>6. OnlyComplete
      BY <2>2 DEF OnlyComplete
    <2> QED BY <2>4, <2>5, <2>6
  <1>2. iface = NoIface => UpMeansServed /\ KeysMatch /\ OnlyComplete
    BY DEF UpMeansServed, Own, KeysMatch, OnlyComplete
  <1>3. Inv => TunnelSound
    BY <1>1, <1>2 DEF TunnelSound
  <1> QED BY <1>3, InvHolds, PTL

\* After a disconnection that succeeded the tunnel and the state file are
\* gone, and the peer too, or the user has been warned after a failure
\* (Disconnect).
THEOREM ExitIsClean == Spec => []CleanExit
  <1>1. Inv => CleanExit
    BY DEF Inv, Mine, RemovalInv, CleanExit
  <1> QED BY <1>1, InvHolds, PTL
=============================================================================
