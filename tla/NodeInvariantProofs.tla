------------------------- MODULE NodeInvariantProofs -------------------------
(***************************************************************************)
(* What the goroutines of NodeLifecycle keep true together: the tracker    *)
(* agrees with the attempts under every fault, and LifecycleInv holds      *)
(* while provisioning meets only failures it has rollback steps for.       *)
(***************************************************************************)
EXTENDS NodeLifecycleProofs

-----------------------------------------------------------------------------
(***************************************************************************)
(* What the changes of a workflow frame do to its fields.                  *)
(***************************************************************************)

\* Goto changes the position only.
LEMMA GotoFields ==
  ASSUME TypeOK, NEW n \in NodeIds, NEW p, Goto(n, p)
  PROVE  /\ job'[n].pc = p
         /\ job'[n].pick = job[n].pick
         /\ job'[n].subnet = job[n].subnet
         /\ job'[n].cloud = job[n].cloud
         /\ job'[n].expired = job[n].expired
         /\ \A m \in NodeIds : m # n => job'[m] = job[m]
  <1>1. job \in [NodeIds -> Job] /\ job[n] \in Job
    BY DEF TypeOK
  <1> QED BY <1>1 DEF Goto, Job

\* Return empties the frame.
LEMMA ReturnFields ==
  ASSUME TypeOK, NEW n \in NodeIds, NEW p, Return(n, p)
  PROVE  /\ job'[n] = Returned(p)
         /\ job'[n].pc = p
         /\ ~job'[n].subnet /\ ~job'[n].cloud /\ ~job'[n].expired
         /\ \A m \in NodeIds : m # n => job'[m] = job[m]
  <1>1. job \in [NodeIds -> Job]
    BY DEF TypeOK
  <1>2. job'[n] = Returned(p) /\ \A m \in NodeIds : m # n => job'[m] = job[m]
    BY <1>1 DEF Return
  <1> QED BY <1>2 DEF Returned, NewJob

\* The three steps that set a field of the rollback record or the choice.
LEMMA FrameFields ==
  ASSUME TypeOK, NEW n \in NodeIds
  PROVE  /\ \A s : job' = [job EXCEPT ![n].pick = s, ![n].pc = "store"] =>
               /\ job'[n] = [job[n] EXCEPT !.pick = s, !.pc = "store"]
               /\ job'[n].pc = "store" /\ job'[n].pick = s
               /\ job'[n].subnet = job[n].subnet
               /\ job'[n].cloud = job[n].cloud
               /\ job'[n].expired = job[n].expired
         /\ job' = [job EXCEPT ![n].subnet = TRUE, ![n].pc = "cloud"] =>
               /\ job'[n] = [job[n] EXCEPT !.subnet = TRUE, !.pc = "cloud"]
               /\ job'[n].pc = "cloud" /\ job'[n].subnet
               /\ job'[n].pick = job[n].pick
               /\ job'[n].cloud = job[n].cloud
               /\ job'[n].expired = job[n].expired
         /\ job' = [job EXCEPT ![n].cloud = TRUE, ![n].pc = "details"] =>
               /\ job'[n] = [job[n] EXCEPT !.cloud = TRUE, !.pc = "details"]
               /\ job'[n].pc = "details" /\ job'[n].cloud
               /\ job'[n].pick = job[n].pick
               /\ job'[n].subnet = job[n].subnet
               /\ job'[n].expired = job[n].expired
  <1>1. job \in [NodeIds -> Job] /\ job[n] \in Job
    BY DEF TypeOK
  <1>2. ASSUME NEW s, job' = [job EXCEPT ![n].pick = s, ![n].pc = "store"]
        PROVE  /\ job'[n] = [job[n] EXCEPT !.pick = s, !.pc = "store"]
               /\ job'[n].pc = "store" /\ job'[n].pick = s
               /\ job'[n].subnet = job[n].subnet
               /\ job'[n].cloud = job[n].cloud
               /\ job'[n].expired = job[n].expired
    <2>1. job'[n] = [job[n] EXCEPT !.pick = s, !.pc = "store"]
      BY <1>1, <1>2
    <2> QED BY <1>1, <2>1 DEF Job
  <1>3. ASSUME job' = [job EXCEPT ![n].subnet = TRUE, ![n].pc = "cloud"]
        PROVE  /\ job'[n] = [job[n] EXCEPT !.subnet = TRUE, !.pc = "cloud"]
               /\ job'[n].pc = "cloud" /\ job'[n].subnet
               /\ job'[n].pick = job[n].pick
               /\ job'[n].cloud = job[n].cloud
               /\ job'[n].expired = job[n].expired
    <2>1. job'[n] = [job[n] EXCEPT !.subnet = TRUE, !.pc = "cloud"]
      BY <1>1, <1>3
    <2> QED BY <1>1, <2>1 DEF Job
  <1>4. ASSUME job' = [job EXCEPT ![n].cloud = TRUE, ![n].pc = "details"]
        PROVE  /\ job'[n] = [job[n] EXCEPT !.cloud = TRUE, !.pc = "details"]
               /\ job'[n].pc = "details" /\ job'[n].cloud
               /\ job'[n].pick = job[n].pick
               /\ job'[n].subnet = job[n].subnet
               /\ job'[n].expired = job[n].expired
    <2>1. job'[n] = [job[n] EXCEPT !.cloud = TRUE, !.pc = "details"]
      BY <1>1, <1>4
    <2> QED BY <1>1, <2>1 DEF Job
  <1> QED BY <1>2, <1>3, <1>4

\* So do they leave the frames of all other attempts.
LEMMA FrameOthers ==
  ASSUME TypeOK, NEW n \in NodeIds, ProvisionStep(n) \/ Expire(n)
  PROVE  \A m \in NodeIds : m # n => job'[m] = job[m]
  <1>1. job \in [NodeIds -> Job]
    BY DEF TypeOK
  <1>2. \E j : job' = [job EXCEPT ![n] = j]
    <2>1. \A p : /\ Goto(n, p) => \E j : job' = [job EXCEPT ![n] = j]
                 /\ Return(n, p) => \E j : job' = [job EXCEPT ![n] = j]
      BY DEF Goto, Return
    <2>2. FailStep(n) => \E j : job' = [job EXCEPT ![n] = j]
      BY <2>1 DEF FailStep
    <2> QED
      BY <2>1, <2>2
         DEF ProvisionStep, Expire, reportPhaseStart, createProvisioningRecord,
             FindSubnet, CreateSubnet, CreateServer, performHealthChecks,
             UndoServer, updateNodeDetails, waitForNodeReadiness, activateNode,
             PublishProvisionCompleted, RollbackCloud, RollbackSubnet, RollbackRow
  <1> QED BY <1>1, <1>2
-----------------------------------------------------------------------------
(***************************************************************************)
(* The tracker.                                                            *)
(***************************************************************************)

\* What the tracker says of one node agrees with the attempt.
Agrees(n) ==
  /\ tracker[n] = "running" <=> job[n].pc \in Working
  /\ tracker[n] = "completed" => job[n].pc = "done"

\* Node ids never stand for requests, so no progress event takes an entry of
\* a node over.
TrackerInv ==
  /\ BusOpen => \A n \in NodeIds : Agrees(n)
  /\ \A n \in NodeIds : tracker[n] \notin {"requested", "stale"}

\* A step of one attempt that reports what it does.
LEMMA TrackerKept ==
  ASSUME TypeOK, TrackerInv, UNCHANGED svc, NEW n \in NodeIds,
         \A m \in NodeIds : m # n => tracker'[m] = tracker[m] /\ job'[m] = job[m],
         BusOpen => Agrees(n)',
         tracker'[n] \notin {"requested", "stale"}
  PROVE  TrackerInv'
  BY DEF TrackerInv, Agrees, BusOpen

\* Steps that leave tracker and attempts alone, closing of the bus included.
LEMMA TrackerUntouched ==
  ASSUME TrackerInv, UNCHANGED <<tracker, job>>, BusOpen' => BusOpen
  PROVE  TrackerInv'
  BY DEF TrackerInv, Agrees

\* A step inside the workflow that publishes nothing.
LEMMA TrackerWorking ==
  ASSUME TypeOK, TrackerInv, UNCHANGED <<tracker, svc>>, NEW n \in NodeIds,
         \A m \in NodeIds : m # n => job'[m] = job[m],
         job[n].pc \in Working <=> job'[n].pc \in Working,
         job[n].pc # "done"
  PROVE  TrackerInv'
  <1>1. BusOpen => Agrees(n)'
    BY DEF TrackerInv, Agrees
  <1> QED BY <1>1, TrackerKept DEF TrackerInv

\* A failure is published with the error, before the rollback.
LEMMA TrackerFail ==
  ASSUME TypeOK, TrackerInv, NEW n \in NodeIds, UNCHANGED svc,
         Publish(handleProvisionFailed(tracker, n)),
         \A m \in NodeIds : m # n => job'[m] = job[m],
         job'[n].pc \notin Working
  PROVE  TrackerInv'
  <1>1. tracker \in [Requests \cup NodeIds -> Entry]
    BY DEF TypeOK
  <1>2. BusOpen => tracker'[n] = "failed"
    BY <1>1 DEF Publish, handleProvisionFailed
  <1>3. /\ \A m \in NodeIds : m # n => tracker'[m] = tracker[m]
        /\ tracker'[n] \notin {"requested", "stale"}
    BY <1>1 DEF Publish, handleProvisionFailed, TrackerInv
  <1>4. BusOpen => Agrees(n)'
    BY <1>2 DEF Agrees
  <1> QED BY <1>3, <1>4, TrackerKept

\* FailStep publishes the failure and leaves the working phases.
LEMMA FailStepTracked ==
  ASSUME TypeOK, TrackerInv, NEW n \in NodeIds, UNCHANGED svc, FailStep(n)
  PROVE  TrackerInv'
  <1> DEFINE pc == RollbackFrom(job[n])
  <1>1. pc \in {"failed", "rbCloud", "rbSubnet", "rbRow"}
    BY RollbackFromType
  <1>2. Return(n, pc) \/ Goto(n, pc)
    BY DEF FailStep
  <1>3. job'[n].pc = pc /\ \A m \in NodeIds : m # n => job'[m] = job[m]
    BY <1>2, GotoFields, ReturnFields
  <1>4. job'[n].pc \notin Working
    BY <1>1, <1>3 DEF Working
  <1> QED BY <1>3, <1>4, TrackerFail DEF FailStep

\* Every step of provisionNode keeps the tracker right.
LEMMA ProvisionTracked ==
  ASSUME TypeOK, TrackerInv, NEW n \in NodeIds, ProvisionStep(n)
  PROVE  TrackerInv'
  <1> USE DEF At
  <1>0. /\ tracker \in [Requests \cup NodeIds -> Entry]
        /\ \A m \in NodeIds : m # n => job'[m] = job[m]
    BY FrameOthers DEF TypeOK
  <1>a. ASSUME UNCHANGED <<tracker, svc>>, job[n].pc \in Working,
               NEW p \in Working, Goto(n, p)
        PROVE  TrackerInv'
    BY <1>a, GotoFields, TrackerWorking DEF Working
  <1>b. ASSUME UNCHANGED <<tracker, svc>>,
               job[n].pc \in {"rbCloud", "rbSubnet", "rbRow"},
               NEW p \in {"rbSubnet", "rbRow", "failed"}, Goto(n, p) \/ Return(n, p)
        PROVE  TrackerInv'
    BY <1>b, GotoFields, ReturnFields, TrackerWorking DEF Working
  <1> USE DEF Working
  <1>1. CASE reportPhaseStart(n)
    <2>1. job'[n].pc = "record"
      BY <1>1, GotoFields DEF reportPhaseStart
    <2>2. CASE BusOpen
      <3>1. tracker' \in handleProvisionProgress(tracker, n)
        BY <1>1, <2>2 DEF reportPhaseStart
      <3>2. \A r \in Fresh(tracker) : r \in Requests \cup NodeIds /\ r \notin NodeIds
        BY <1>0 DEF Fresh, TrackerInv
      <3>3. \A r \in Fresh(tracker) :
               LET t == [tracker EXCEPT ![n] = "running", ![r] = "absent"]
               IN  t[n] = "running" /\ \A m \in NodeIds : m # n => t[m] = tracker[m]
        BY <1>0, <3>2
      <3>4. LET t == [tracker EXCEPT ![n] = "running"]
            IN  t[n] = "running" /\ \A m \in NodeIds : m # n => t[m] = tracker[m]
        BY <1>0
      <3>5. tracker'[n] = "running" /\ \A m \in NodeIds : m # n => tracker'[m] = tracker[m]
        <4>1. \/ tracker' = [tracker EXCEPT ![n] = "running"]
              \/ \E r \in Fresh(tracker) :
                    tracker' = [tracker EXCEPT ![n] = "running", ![r] = "absent"]
          BY <3>1 DEF handleProvisionProgress
        <4> QED BY <3>3, <3>4, <4>1
      <3> QED BY <1>0, <1>1, <2>1, <3>5, TrackerKept DEF reportPhaseStart, Agrees
    <2>3. CASE ~BusOpen
      BY <1>0, <1>1, <2>3, TrackerKept DEF reportPhaseStart, TrackerInv
    <2> QED BY <2>2, <2>3
  <1>2. CASE createProvisioningRecord(n)
    <2>1. CASE Goto(n, "subnet") /\ UNCHANGED tracker
      BY <1>2, <1>a, <2>1 DEF createProvisioningRecord
    <2>2. CASE Publish(handleProvisionFailed(tracker, n)) /\ Return(n, "failed")
      BY <1>2, <2>2, TrackerFail, ReturnFields DEF createProvisioningRecord
    <2> QED BY <1>2, <2>1, <2>2 DEF createProvisioningRecord
  <1>3. CASE FindSubnet(n)
    BY <1>0, <1>3, FailStepTracked, FrameFields, TrackerWorking DEF FindSubnet
  <1>4. CASE CreateSubnet(n)
    BY <1>0, <1>4, FailStepTracked, FrameFields, TrackerWorking DEF CreateSubnet
  <1>5. CASE CreateServer(n)
    BY <1>5, <1>a, FailStepTracked DEF CreateServer
  <1>6. CASE performHealthChecks(n)
    BY <1>0, <1>6, <1>a, FrameFields, TrackerWorking DEF performHealthChecks
  <1>7. CASE UndoServer(n)
    BY <1>7, FailStepTracked DEF UndoServer
  <1>8. CASE updateNodeDetails(n)
    BY <1>8, <1>a, FailStepTracked DEF updateNodeDetails
  <1>9. CASE waitForNodeReadiness(n)
    BY <1>9, <1>a, FailStepTracked DEF waitForNodeReadiness
  <1>10. CASE activateNode(n)
    BY <1>10, <1>a, FailStepTracked DEF activateNode
  <1>11. CASE PublishProvisionCompleted(n)
    <2>1. job'[n].pc = "done"
      BY <1>11, ReturnFields DEF PublishProvisionCompleted
    <2>2. /\ BusOpen => tracker'[n] = "completed"
          /\ tracker'[n] \notin {"requested", "stale"}
          /\ \A m \in NodeIds : m # n => tracker'[m] = tracker[m]
      BY <1>0, <1>11 DEF PublishProvisionCompleted, Publish,
                         handleProvisionCompleted, TrackerInv
    <2> QED BY <1>0, <1>11, <2>1, <2>2, TrackerKept
            DEF PublishProvisionCompleted, Agrees
  <1>12. CASE RollbackCloud(n)
    BY <1>12, <1>b DEF RollbackCloud
  <1>13. CASE RollbackSubnet(n)
    BY <1>13, <1>b DEF RollbackSubnet
  <1>14. CASE RollbackRow(n)
    BY <1>14, <1>b DEF RollbackRow
  <1> QED
    BY <1>1, <1>2, <1>3, <1>4, <1>5, <1>6, <1>7, <1>8, <1>9, <1>10, <1>11,
       <1>12, <1>13, <1>14 DEF ProvisionStep

\* A new process starts with an empty tracker and no attempt.
LEMMA RestartTracked ==
  ASSUME TypeOK, Restart
  PROVE  TrackerInv'
  <1>1. /\ \A n \in NodeIds : tracker'[n] = "absent"
        /\ \A n \in NodeIds : job'[n].pc \notin Working
    <2>1. Returned("dead").pc = "dead"
      BY DEF Returned, NewJob
    <2>2. \A n \in NodeIds : job[n].pc \in Phases
      BY DEF TypeOK, Job
    <2> QED BY <2>1, <2>2 DEF Restart, TypeOK, Working, InFlight, Ended, Phases
  <1> QED BY <1>1 DEF TrackerInv, Agrees

\* Under every fault, while the event bus is open, the tracker says of every
\* node what its attempt is doing: IsProvisioning is true exactly while an
\* attempt has reported its start and not yet its end.
THEOREM TrackerIsRight == Spec => []TrackerAgrees
  <1>1. Init => TrackerInv
    BY DEF Init, TrackerInv, Agrees, NewJob, Working
  <1>2. TypeOK /\ TrackerInv /\ [Next]_vars => TrackerInv'
    <2> SUFFICES ASSUME TypeOK, TrackerInv, [Next]_vars PROVE TrackerInv'
      OBVIOUS
    <2>1. ASSUME NEW r \in Requests, handleProvisionRequest(r)
          PROVE  TrackerInv'
      <3>a. /\ tracker \in [Requests \cup NodeIds -> Entry]
            /\ tracker' = [tracker EXCEPT ![r] = "requested"]
        BY <2>1 DEF handleProvisionRequest, handleProvisionRequested, TypeOK
      <3>1. /\ \A n \in NodeIds : tracker'[n] = tracker[n]
            /\ UNCHANGED svc
        BY <2>1, <3>a, ConstantsAssumption DEF handleProvisionRequest
      <3>2. CASE UNCHANGED job
        BY <3>1, <3>2 DEF TrackerInv, Agrees, BusOpen
      <3>3. CASE \E n \in NodeIds : At(n, "idle") /\ Goto(n, "start")
        <4>1. PICK n \in NodeIds : At(n, "idle") /\ Goto(n, "start")
          BY <3>3
        <4>2. /\ job[n].pc = "idle" /\ job'[n].pc = "start"
              /\ \A m \in NodeIds : m # n => job'[m] = job[m]
          BY <4>1, GotoFields DEF At
        <4>3. BusOpen => Agrees(n)'
          BY <3>1, <4>2 DEF TrackerInv, Agrees, Working
        <4> QED BY <3>1, <4>2, <4>3, TrackerKept DEF TrackerInv
      <3> QED BY <2>1, <3>2, <3>3 DEF handleProvisionRequest
    <2>2. ASSUME NEW r \in Requests, RequestAges(r)
          PROVE  TrackerInv'
      <3>a. /\ tracker \in [Requests \cup NodeIds -> Entry]
            /\ tracker' = [tracker EXCEPT ![r] = "stale"]
        BY <2>2 DEF RequestAges, TypeOK
      <3>1. \A n \in NodeIds : tracker'[n] = tracker[n]
        BY <3>a, ConstantsAssumption
      <3> QED BY <2>2, <3>1 DEF RequestAges, TrackerInv, Agrees, BusOpen
    <2>3. ASSUME NEW n \in NodeIds, ProvisionStep(n)
          PROVE  TrackerInv'
      BY <2>3, ProvisionTracked
    <2>4. ASSUME NEW n \in NodeIds, Expire(n)
          PROVE  TrackerInv'
      <3>a. job \in [NodeIds -> Job] /\ job[n] \in Job
        BY DEF TypeOK
      <3>b. job'[n] = [job[n] EXCEPT !.expired = TRUE]
        BY <2>4, <3>a DEF Expire
      <3>1. job'[n].pc = job[n].pc /\ job[n].pc # "done"
        BY <2>4, <3>a, <3>b DEF Expire, Job, InFlight, Ended
      <3> QED BY <2>4, <3>1, FrameOthers, TrackerWorking DEF Expire
    <2>5. ASSUME NEW d \in Destroyers, ListOrphanedNodes(d)
          PROVE  TrackerInv'
      BY <2>5, TrackerUntouched DEF ListOrphanedNodes, BusOpen
    <2>6. ASSUME NEW d \in AllDestroyers, DestroyStep(d)
          PROVE  TrackerInv'
      BY <2>6, TrackerUntouched
         DEF DestroyStep, DestroyRead, DestroySave, DestroyCloud, DestroyRow, BusOpen
    <2>7. ASSUME NEW c \in Checkers, ListActiveNode(c) \/ CheckStep(c)
          PROVE  TrackerInv'
      BY <2>7, TrackerUntouched
         DEF ListActiveNode, CheckStep, CheckRead, CheckProbe, CheckReread,
             CheckWrite, BusOpen
    <2>8. ASSUME NEW c \in Cleaners, ListUnusedSubnets(c) \/ ReleaseUnusedSubnet(c)
          PROVE  TrackerInv'
      BY <2>8, TrackerUntouched DEF ListUnusedSubnets, ReleaseUnusedSubnet, BusOpen
    <2>9. CASE Stop \/ cleanupActiveNodes \/ CloseEventBus \/ CloseStore
      BY <2>9, TrackerUntouched
         DEF Stop, cleanupActiveNodes, CloseEventBus, CloseStore, BusOpen
    <2>10. CASE Exit \/ Crash
      BY <2>10, RestartTracked DEF Exit, Crash
    <2>11. CASE UNCHANGED vars
      BY <2>11, TrackerUntouched DEF vars, BusOpen
    <2> QED BY <2>1, <2>2, <2>3, <2>4, <2>5, <2>6, <2>7, <2>8, <2>9, <2>10, <2>11
            DEF Next
  <1>3. TrackerInv => TrackerAgrees
    BY DEF TrackerInv, TrackerAgrees, Agrees
  <1> QED BY <1>1, <1>2, <1>3, TypeCorrect, PTL DEF Spec
-----------------------------------------------------------------------------
(***************************************************************************)
(* LifecycleInv, under the assumptions of the run that checks it.          *)
(***************************************************************************)

\* Provisioning meets only failures it has rollback steps for, the rollback
\* is switched on, and no subnet cleaner runs.
Quiet == Honest /\ CleanupOnFailure /\ Cleaners = {}

\* Then no call to the database or to delete a server fails.
LEMMA QuietCalls ==
  ASSUME Quiet, svc = "running"
  PROVE  /\ StoreOpen /\ BusOpen /\ CallWorks
         /\ \A w : ~CallFails(w) /\ ~CloudFails(w)
         /\ "lost" \notin Faults /\ "destroy" \notin Faults
         /\ "db" \notin Faults /\ "timeout" \notin Faults
         /\ "crash" \notin Faults /\ "stop" \notin Faults
  BY DEF Quiet, Honest, StoreOpen, BusOpen, CallWorks, CallFails, CloudFails,
         Cancelled

\* A node whose row is active, or anything else than provisioning, was
\* activated by its attempt.
LEMMA ListedIsLiving ==
  ASSUME TypeOK, LifecycleInv, NEW n \in NodeIds,
         HasRow(n), rows[n].status # "provisioning"
  PROVE  n \in Living
  <1>1. AttemptInv(n) /\ job[n].pc \in Phases
    BY DEF LifecycleInv, TypeOK, Job
  <1> QED BY <1>1 DEF AttemptInv, Living, Phases, Holds, HasRow, Provisioning

\* A step of one attempt touches the tables and the cloud at its own node.
LEMMA ProvisionOnly ==
  ASSUME TypeOK, NEW n \in NodeIds, ProvisionStep(n)
  PROVE  /\ \A m \in NodeIds : m # n => /\ rows'[m] = rows[m]
                                        /\ subnets'[m] = subnets[m]
                                        /\ servers'[m] = servers[m]
         /\ UNCHANGED <<destroyer, checker, svc>>
  <1>1. /\ rows \in [NodeIds -> Row \cup {NoRow}]
        /\ subnets \in [NodeIds -> Subnets \cup {None}]
        /\ servers \in [NodeIds -> Subnets \cup {None}]
    BY DEF TypeOK
  <1>2. /\ \A s, b : UpdateRow(n, s, b) =>
              \A m \in NodeIds : m # n => rows'[m] = rows[m]
        /\ CreateRow(n) => \A m \in NodeIds : m # n => rows'[m] = rows[m]
        /\ DeleteRow(n) => \A m \in NodeIds : m # n =>
              rows'[m] = rows[m] /\ subnets'[m] = subnets[m]
        /\ \A s : subnets' = [subnets EXCEPT ![n] = s] =>
              \A m \in NodeIds : m # n => subnets'[m] = subnets[m]
        /\ StartServer(n) \/ DeleteServer(n) =>
              \A m \in NodeIds : m # n => servers'[m] = servers[m]
    BY <1>1 DEF UpdateRow, CreateRow, DeleteRow, StartServer, DeleteServer
  <1>3. UNCHANGED <<destroyer, checker, svc>>
    BY DEF ProvisionStep, reportPhaseStart, createProvisioningRecord,
           FindSubnet, CreateSubnet, CreateServer, performHealthChecks,
           UndoServer, updateNodeDetails, waitForNodeReadiness, activateNode,
           PublishProvisionCompleted, RollbackCloud, RollbackSubnet, RollbackRow
  <1>4. CASE \/ reportPhaseStart(n) \/ createProvisioningRecord(n)
             \/ FindSubnet(n) \/ CreateSubnet(n)
    BY <1>2, <1>3, <1>4 DEF reportPhaseStart, createProvisioningRecord,
       FindSubnet, CreateSubnet
  <1>5. CASE \/ CreateServer(n) \/ performHealthChecks(n) \/ UndoServer(n)
             \/ updateNodeDetails(n) \/ waitForNodeReadiness(n)
    BY <1>2, <1>3, <1>5 DEF CreateServer, performHealthChecks, UndoServer,
       updateNodeDetails, waitForNodeReadiness
  <1>6. CASE \/ activateNode(n) \/ PublishProvisionCompleted(n)
             \/ RollbackCloud(n) \/ RollbackSubnet(n) \/ RollbackRow(n)
    BY <1>2, <1>3, <1>6 DEF activateNode, PublishProvisionCompleted,
       RollbackCloud, RollbackSubnet, RollbackRow
  <1> QED BY <1>4, <1>5, <1>6 DEF ProvisionStep

\* With the rollback switched on, a failure leads to the rollback of exactly
\* what the record says was allocated.
LEMMA QuietFail ==
  ASSUME Quiet, TypeOK, NEW n \in NodeIds, FailStep(n)
  PROVE  /\ job'[n].pc = IF job[n].cloud THEN "rbCloud"
                         ELSE IF job[n].subnet THEN "rbSubnet" ELSE "rbRow"
         /\ job'[n].pick = job[n].pick
         /\ job'[n].subnet = job[n].subnet
         /\ job'[n].cloud = job[n].cloud
         /\ job'[n].expired = job[n].expired
  <1> DEFINE pc == IF job[n].cloud THEN "rbCloud"
                   ELSE IF job[n].subnet THEN "rbSubnet" ELSE "rbRow"
  <1>1. RollbackFrom(job[n]) = pc
    BY DEF Quiet, RollbackFrom
  <1>2. Goto(n, pc)
    BY <1>1 DEF FailStep
  <1> QED BY <1>2, GotoFields

\* The attempt's own node: its resources are what its new position says.
LEMMA ProvisionAttempt ==
  ASSUME Quiet, TypeOK, svc = "running", NEW n \in NodeIds, AttemptInv(n),
         LivingInv(n), ProvisionStep(n)
  PROVE  /\ AttemptInv(n)' /\ LivingInv(n)'
         /\ n \in Living => n \in Living' /\ servers'[n] = servers[n]
  <1> USE QuietCalls DEF At
  <1> DEFINE Moved(p) == /\ job'[n].pc = p
                         /\ job'[n].pick = job[n].pick
                         /\ job'[n].subnet = job[n].subnet
                         /\ job'[n].cloud = job[n].cloud
                         /\ job'[n].expired = job[n].expired
  <1>1. /\ job[n] \in Job /\ job[n].pick \in Subnets \cup {None}
        /\ rows \in [NodeIds -> Row \cup {NoRow}]
        /\ subnets \in [NodeIds -> Subnets \cup {None}]
        /\ servers \in [NodeIds -> Subnets \cup {None}]
        /\ None \notin Subnets
    BY DEF TypeOK, Job, Subnets, None
  <1>2. DbWorks(n) /\ ~DbFails(n) /\ ~job[n].expired
    BY DEF AttemptInv, DbWorks, DbFails
  <1>a. ASSUME NEW p, Goto(n, p)
        PROVE  Moved(p)
    BY <1>a, GotoFields
  <1>3. ASSUME job[n].pc \notin {"finish", "done"},
               job'[n].pc \notin {"finish", "done"}, AttemptInv(n)'
        PROVE  /\ AttemptInv(n)' /\ LivingInv(n)'
               /\ n \in Living => n \in Living' /\ servers'[n] = servers[n]
    BY <1>3 DEF LivingInv, Living
  <1>4. CASE reportPhaseStart(n)
    <2>1. Moved("record") /\ job[n].pc = "start"
          /\ UNCHANGED <<rows, subnets, servers>>
      BY <1>4, <1>a DEF reportPhaseStart
    <2>2. AttemptInv(n)'
      BY <2>1 DEF AttemptInv, Holds, Allocated
    <2> QED BY <1>3, <2>1, <2>2
  <1>5. CASE createProvisioningRecord(n)
    <2>1. Goto(n, "subnet") /\ rows'[n] = Provisioning(FALSE)
      BY <1>1, <1>2, <1>5
         DEF createProvisioningRecord, CreateRow, NewNode, Provisioning
    <2>2. Moved("subnet") /\ job[n].pc = "record" /\ UNCHANGED <<subnets, servers>>
      BY <1>5, <1>a, <2>1 DEF createProvisioningRecord
    <2>3. AttemptInv(n)'
      BY <2>1, <2>2 DEF AttemptInv, Holds, Allocated
    <2> QED BY <1>3, <2>2, <2>3
  <1>6. CASE FindSubnet(n)
    <2>1. CASE FailStep(n)
      <3>1. AttemptInv(n)' /\ job'[n].pc = "rbRow"
        BY <1>6, <2>1, QuietFail DEF FindSubnet, AttemptInv, Holds, Allocated
      <3> QED BY <1>3, <1>6, <3>1 DEF FindSubnet
    <2>2. CASE /\ Subnets \ Used # {}
               /\ job' = [job EXCEPT ![n].pick = FindNextAvailableSubnet,
                                     ![n].pc = "store"]
      <3>1. PICK s \in Subnets : job' = [job EXCEPT ![n].pick = s, ![n].pc = "store"]
        BY <2>2, FindSubnetType
      <3>a. job'[n] = [job[n] EXCEPT !.pick = s, !.pc = "store"]
        BY <3>1 DEF TypeOK
      <3>2. /\ job'[n].pc = "store" /\ job'[n].pick \in Subnets
            /\ job'[n].subnet = job[n].subnet
            /\ job'[n].cloud = job[n].cloud
            /\ job'[n].expired = job[n].expired
        BY <1>1, <3>a DEF Job
      <3>3. job[n].pc = "subnet" /\ UNCHANGED <<rows, subnets, servers>>
        BY <1>6 DEF FindSubnet
      <3>4. AttemptInv(n)'
        BY <3>2, <3>3 DEF AttemptInv, Holds, Allocated
      <3> QED BY <1>3, <3>2, <3>3, <3>4
    <2> QED BY <1>6, <2>1, <2>2 DEF FindSubnet
  <1>7. CASE CreateSubnet(n)
    <2>1. CASE FailStep(n) /\ UNCHANGED subnets
      <3>1. AttemptInv(n)' /\ job'[n].pc = "rbRow"
        BY <1>7, <2>1, QuietFail DEF CreateSubnet, AttemptInv, Holds, Allocated
      <3> QED BY <1>3, <1>7, <3>1 DEF CreateSubnet
    <2>2. CASE /\ subnets' = [subnets EXCEPT ![n] = job[n].pick]
               /\ job' = [job EXCEPT ![n].subnet = TRUE, ![n].pc = "cloud"]
      <3>1. /\ job'[n].pc = "cloud" /\ job'[n].subnet
            /\ job'[n].pick = job[n].pick
            /\ job'[n].cloud = job[n].cloud
            /\ job'[n].expired = job[n].expired
            /\ subnets'[n] = job[n].pick
        BY <1>1, <2>2, FrameFields
      <3>2. AttemptInv(n)'
        BY <1>1, <1>7, <3>1 DEF CreateSubnet, AttemptInv, Holds, Allocated
      <3> QED BY <1>3, <1>7, <3>1, <3>2 DEF CreateSubnet
    <2> QED BY <1>7, <2>1, <2>2 DEF CreateSubnet
  <1>8. CASE CreateServer(n)
    <2>1. CASE StartServer(n) /\ Goto(n, "boot")
      <3>1. servers'[n] = job[n].pick
        BY <1>1, <2>1 DEF StartServer
      <3>2. Moved("boot") /\ job[n].pc = "cloud" /\ UNCHANGED <<rows, subnets>>
        BY <1>8, <1>a, <2>1 DEF CreateServer
      <3>3. AttemptInv(n)'
        BY <3>1, <3>2 DEF AttemptInv, Holds, Allocated
      <3> QED BY <1>3, <3>2, <3>3
    <2>2. CASE FailStep(n) /\ UNCHANGED servers
      <3>1. AttemptInv(n)' /\ job'[n].pc = "rbSubnet"
        BY <1>8, <2>2, QuietFail DEF CreateServer, AttemptInv, Holds, Allocated
      <3> QED BY <1>3, <1>8, <3>1 DEF CreateServer
    <2> QED BY <1>8, <2>1, <2>2 DEF CreateServer
  <1>9. CASE performHealthChecks(n)
    <2>1. CASE Goto(n, "undo")
      <3>1. Moved("undo") /\ job[n].pc = "boot"
            /\ UNCHANGED <<rows, subnets, servers>>
        BY <1>9, <1>a, <2>1 DEF performHealthChecks
      <3>2. AttemptInv(n)'
        BY <3>1 DEF AttemptInv, Holds, Allocated
      <3> QED BY <1>3, <3>1, <3>2
    <2>2. CASE job' = [job EXCEPT ![n].cloud = TRUE, ![n].pc = "details"]
      <3>1. /\ job'[n].pc = "details" /\ job'[n].cloud
            /\ job'[n].pick = job[n].pick
            /\ job'[n].subnet = job[n].subnet
            /\ job'[n].expired = job[n].expired
        BY <2>2, FrameFields
      <3>2. job[n].pc = "boot" /\ UNCHANGED <<rows, subnets, servers>>
        BY <1>9 DEF performHealthChecks
      <3>3. AttemptInv(n)'
        BY <3>1, <3>2 DEF AttemptInv, Holds, Allocated
      <3> QED BY <1>3, <3>1, <3>2, <3>3
    <2> QED BY <1>9, <2>1, <2>2 DEF performHealthChecks
  <1>10. CASE UndoServer(n)
    <2>1. FailStep(n) /\ servers'[n] = None
      BY <1>1, <1>2, <1>10 DEF UndoServer, DeleteServer
    <2>2. AttemptInv(n)' /\ job'[n].pc = "rbSubnet"
      BY <1>10, <2>1, QuietFail DEF UndoServer, AttemptInv, Holds, Allocated
    <2> QED BY <1>3, <1>10, <2>2 DEF UndoServer
  <1>11. CASE updateNodeDetails(n)
    <2>1. Goto(n, "readiness") /\ rows'[n] = Provisioning(TRUE)
      <3>1. HasRow(n)
        BY <1>11 DEF updateNodeDetails, AttemptInv, Holds, HasRow,
                     Provisioning, NoRow
      <3> QED BY <1>1, <1>2, <1>11, <3>1
              DEF updateNodeDetails, UpdateRow, Provisioning
    <2>2. Moved("readiness") /\ job[n].pc = "details"
          /\ UNCHANGED <<subnets, servers>>
      BY <1>11, <1>a, <2>1 DEF updateNodeDetails
    <2>3. AttemptInv(n)'
      BY <2>1, <2>2 DEF AttemptInv, Holds, Allocated
    <2> QED BY <1>3, <2>2, <2>3
  <1>12. CASE waitForNodeReadiness(n)
    <2>1. CASE FailStep(n)
      <3>1. AttemptInv(n)' /\ job'[n].pc = "rbCloud"
        BY <1>12, <2>1, QuietFail
           DEF waitForNodeReadiness, AttemptInv, Holds, Allocated
      <3> QED BY <1>3, <1>12, <3>1 DEF waitForNodeReadiness
    <2>2. CASE Goto(n, "activate")
      <3>1. Moved("activate") /\ job[n].pc = "readiness"
            /\ UNCHANGED <<rows, subnets, servers>>
        BY <1>12, <1>a, <2>2 DEF waitForNodeReadiness
      <3>2. AttemptInv(n)'
        BY <3>1 DEF AttemptInv, Holds, Allocated
      <3> QED BY <1>3, <3>1, <3>2
    <2> QED BY <1>12, <2>1, <2>2 DEF waitForNodeReadiness
  <1>13. CASE activateNode(n)
    <2>1. /\ Goto(n, "finish")
          /\ rows'[n] = [status |-> "active", server |-> TRUE]
      <3>1. HasRow(n)
        BY <1>13 DEF activateNode, AttemptInv, Holds, HasRow, Provisioning, NoRow
      <3> QED BY <1>1, <1>2, <1>13, <3>1 DEF activateNode, UpdateRow
    <2>2. job[n].pc = "activate" /\ UNCHANGED <<subnets, servers>>
      BY <1>13 DEF activateNode
    <2>a. Moved("finish")
      BY <1>a, <2>1
    <2>3. AttemptInv(n)'
      BY <2>a, <2>2 DEF AttemptInv, Holds, Allocated
    <2>4. /\ rows'[n].server /\ rows'[n].status = "active" /\ rows'[n] # NoRow
          /\ servers'[n] # None /\ subnets'[n] = servers'[n]
      BY <2>1, <2>2 DEF AttemptInv, Holds, Allocated, NoRow
    <2>5. LivingInv(n)'
      BY <2>4 DEF LivingInv, HasRow
    <2> QED BY <2>2, <2>3, <2>5 DEF Living
  <1>14. CASE PublishProvisionCompleted(n)
    <2>1. /\ job'[n].pc = "done" /\ job[n].pc = "finish"
          /\ UNCHANGED <<rows, subnets, servers, destroyer>>
          /\ ~job'[n].subnet /\ ~job'[n].cloud /\ ~job'[n].expired
      BY <1>14, ReturnFields DEF PublishProvisionCompleted
    <2>2. AttemptInv(n)'
      BY <2>1 DEF AttemptInv, Holds, Allocated
    <2>3. n \in Living /\ n \in Living'
      BY <2>1 DEF Living
    <2>4. LivingInv(n)'
      BY <2>1, <2>3 DEF LivingInv, HasRow
    <2> QED BY <2>1, <2>2, <2>3, <2>4
  <1>15. CASE RollbackCloud(n)
    <2>1. Goto(n, "rbSubnet") /\ servers'[n] = None
      BY <1>1, <1>2, <1>15
         DEF RollbackCloud, DeleteServer, AttemptInv, Allocated
    <2>2. Moved("rbSubnet") /\ job[n].pc = "rbCloud" /\ UNCHANGED <<rows, subnets>>
      BY <1>15, <1>a, <2>1 DEF RollbackCloud
    <2>3. AttemptInv(n)'
      BY <2>1, <2>2 DEF AttemptInv, Holds, Allocated
    <2> QED BY <1>3, <2>2, <2>3
  <1>16. CASE RollbackSubnet(n)
    <2>1. Goto(n, "rbRow") /\ subnets'[n] = None
      BY <1>1, <1>2, <1>16 DEF RollbackSubnet
    <2>2. Moved("rbRow") /\ job[n].pc = "rbSubnet" /\ UNCHANGED <<rows, servers>>
      BY <1>16, <1>a, <2>1 DEF RollbackSubnet
    <2>3. AttemptInv(n)'
      BY <2>1, <2>2 DEF AttemptInv, Holds, Allocated
    <2> QED BY <1>3, <2>2, <2>3
  <1>17. CASE RollbackRow(n)
    <2>1. Return(n, "failed") /\ rows'[n] = NoRow /\ subnets'[n] = None
      BY <1>1, <1>2, <1>17 DEF RollbackRow, DeleteRow
    <2>2. /\ job'[n].pc = "failed" /\ job[n].pc = "rbRow" /\ UNCHANGED servers
          /\ ~job'[n].subnet /\ ~job'[n].cloud /\ ~job'[n].expired
      BY <1>17, <2>1, ReturnFields DEF RollbackRow
    <2>3. AttemptInv(n)'
      BY <2>1, <2>2 DEF AttemptInv, Holds, Allocated
    <2> QED BY <1>3, <2>2, <2>3
  <1> QED
    BY <1>4, <1>5, <1>6, <1>7, <1>8, <1>9, <1>10, <1>11, <1>12, <1>13, <1>14,
       <1>15, <1>16, <1>17 DEF ProvisionStep

\* What one node's part of the invariant depends on.
LEMMA NodeUntouched ==
  ASSUME NEW n \in NodeIds, job'[n] = job[n], AttemptInv(n), LivingInv(n),
         rows'[n] = rows[n], subnets'[n] = subnets[n], servers'[n] = servers[n],
         \A d \in AllDestroyers : destroyer[d].node = n /\ destroyer[d].pc = "delete"
                                     => destroyer'[d] = destroyer[d]
  PROVE  AttemptInv(n)' /\ LivingInv(n)'
  <1>1. AttemptInv(n)'
    BY DEF AttemptInv, Holds
  <1>2. LivingInv(n)'
    BY DEF LivingInv, Living, HasRow
  <1> QED BY <1>1, <1>2

\* What is done to the resources of an activated node is no concern of its
\* attempt.
LEMMA AttemptOver ==
  ASSUME NEW n \in NodeIds, job'[n] = job[n], AttemptInv(n), n \in Living
  PROVE  AttemptInv(n)'
  BY DEF AttemptInv, Living, Allocated

\* A step of an attempt keeps the invariant: its own node by
\* ProvisionAttempt, the others and the workers because it does not touch
\* an activated node.
LEMMA ProvisionKeeps ==
  ASSUME Quiet, TypeOK, LifecycleInv, NEW n \in NodeIds, ProvisionStep(n)
  PROVE  LifecycleInv'
  <1>1. /\ AttemptInv(n)' /\ LivingInv(n)'
        /\ n \in Living => n \in Living' /\ servers'[n] = servers[n]
    BY ProvisionAttempt DEF LifecycleInv, WorkersInv
  <1>2. /\ \A m \in NodeIds : m # n =>
              /\ job'[m] = job[m] /\ rows'[m] = rows[m]
              /\ subnets'[m] = subnets[m] /\ servers'[m] = servers[m]
        /\ UNCHANGED <<destroyer, checker, svc>>
    BY FrameOthers, ProvisionOnly
  <1>3. \A m \in NodeIds : AttemptInv(m)' /\ LivingInv(m)'
    BY <1>1, <1>2, NodeUntouched DEF LifecycleInv
  <1>4. \A m \in Living : m \in Living' /\ servers'[m] = servers[m]
    BY <1>1, <1>2 DEF Living
  <1>5. WorkersInv'
    <2>1. ASSUME NEW d \in AllDestroyers
          PROVE  /\ destroyer'[d].todo \subseteq Living'
                 /\ destroyer'[d].pc # "idle" => /\ destroyer'[d].node \in Living'
                                                 /\ destroyer'[d].server
                 /\ destroyer'[d].pc = "delete" => servers'[destroyer'[d].node] = None
      BY <1>2, <1>4 DEF LifecycleInv, WorkersInv
    <2>2. ASSUME NEW c \in Checkers
          PROVE  /\ checker'[c].pc # "idle" => checker'[c].node \in Living'
                 /\ checker'[c].pc = "write" => checker'[c].server
      BY <1>2, <1>4 DEF LifecycleInv, WorkersInv
    <2> QED BY <1>2, <2>1, <2>2 DEF LifecycleInv, WorkersInv
  <1> QED BY <1>3, <1>5 DEF LifecycleInv

\* The loops over nodes: what one frame becomes when it is assigned.
LEMMA DestroyerFrames ==
  ASSUME TypeOK, NEW d \in AllDestroyers
  PROVE  /\ \A e \in AllDestroyers : e # d =>
               /\ \A f : destroyer' = [destroyer EXCEPT ![d] = f] =>
                            destroyer'[e] = destroyer[e]
         /\ destroyer[d] \in DestroyerFrame
         /\ \A p : destroyer' = [destroyer EXCEPT ![d].pc = p] =>
               /\ destroyer'[d].pc = p
               /\ destroyer'[d].node = destroyer[d].node
               /\ destroyer'[d].server = destroyer[d].server
               /\ destroyer'[d].todo = destroyer[d].todo
         /\ \A s : destroyer' = [destroyer EXCEPT ![d].todo = s] =>
               /\ destroyer'[d].todo = s
               /\ destroyer'[d].pc = destroyer[d].pc
               /\ destroyer'[d].node = destroyer[d].node
               /\ destroyer'[d].server = destroyer[d].server
         /\ NextNode(d) =>
               /\ destroyer'[d].pc = "idle"
               /\ destroyer'[d].todo = destroyer[d].todo
  <1>1. destroyer \in [AllDestroyers -> DestroyerFrame] /\ destroyer[d] \in DestroyerFrame
    BY DEF TypeOK
  <1>2. ASSUME NEW p, destroyer' = [destroyer EXCEPT ![d].pc = p]
        PROVE  /\ destroyer'[d].pc = p
               /\ destroyer'[d].node = destroyer[d].node
               /\ destroyer'[d].server = destroyer[d].server
               /\ destroyer'[d].todo = destroyer[d].todo
    <2>1. destroyer'[d] = [destroyer[d] EXCEPT !.pc = p]
      BY <1>1, <1>2
    <2> QED BY <1>1, <2>1 DEF DestroyerFrame
  <1>3. ASSUME NEW s, destroyer' = [destroyer EXCEPT ![d].todo = s]
        PROVE  /\ destroyer'[d].todo = s
               /\ destroyer'[d].pc = destroyer[d].pc
               /\ destroyer'[d].node = destroyer[d].node
               /\ destroyer'[d].server = destroyer[d].server
    <2>1. destroyer'[d] = [destroyer[d] EXCEPT !.todo = s]
      BY <1>1, <1>3
    <2> QED BY <1>1, <2>1 DEF DestroyerFrame
  <1>4. ASSUME NextNode(d)
        PROVE  destroyer'[d].pc = "idle" /\ destroyer'[d].todo = destroyer[d].todo
    <2>1. destroyer'[d] = [destroyer[d] EXCEPT !.pc = "idle", !.node = "none",
                                               !.server = FALSE]
      BY <1>1, <1>4 DEF NextNode
    <2> QED BY <1>1, <2>1 DEF DestroyerFrame
  <1>5. \A e \in AllDestroyers : e # d =>
           \A f : destroyer' = [destroyer EXCEPT ![d] = f] =>
                     destroyer'[e] = destroyer[e]
    BY <1>1
  <1> QED BY <1>1, <1>2, <1>3, <1>4, <1>5

\* A step of DestroyNode, or of the listing before it, changes one frame.
LEMMA DestroyOnly ==
  ASSUME TypeOK, NEW d \in AllDestroyers, ListOrphanedNodes(d) \/ DestroyStep(d)
  PROVE  /\ \A e \in AllDestroyers : e # d => destroyer'[e] = destroyer[e]
         /\ UNCHANGED <<job, checker, svc>>
  <1>1. \E f : destroyer' = [destroyer EXCEPT ![d] = f]
    BY DEF ListOrphanedNodes, DestroyStep, DestroyRead, DestroySave,
           DestroyCloud, DestroyRow, NextNode
  <1>2. UNCHANGED <<job, checker, svc>>
    BY DEF ListOrphanedNodes, DestroyStep, DestroyRead, DestroySave,
           DestroyCloud, DestroyRow
  <1> QED BY <1>1, <1>2, DestroyerFrames

\* Enough for such a step to keep the invariant: the nodes as they are, this
\* frame, and no server coming back.
LEMMA DestroyEnough ==
  ASSUME TypeOK, LifecycleInv, NEW d \in AllDestroyers,
         ListOrphanedNodes(d) \/ DestroyStep(d),
         \A n \in NodeIds : AttemptInv(n)' /\ LivingInv(n)',
         \A n \in NodeIds : servers[n] = None => servers'[n] = None,
         destroyer'[d].todo \subseteq Living,
         destroyer'[d].pc # "idle" =>
            destroyer'[d].node \in Living /\ destroyer'[d].server,
         destroyer'[d].pc = "delete" => servers'[destroyer'[d].node] = None
  PROVE  LifecycleInv'
  <1>1. /\ \A e \in AllDestroyers : e # d => destroyer'[e] = destroyer[e]
        /\ UNCHANGED <<job, checker, svc>>
    BY DestroyOnly
  <1>2. Living' = Living
    BY <1>1 DEF Living
  <1>3. \A e \in AllDestroyers : e # d /\ destroyer[e].pc = "delete" =>
           servers'[destroyer[e].node] = None
    BY DEF LifecycleInv, WorkersInv, Living
  <1>4. ASSUME NEW e \in AllDestroyers
        PROVE  /\ destroyer'[e].todo \subseteq Living'
               /\ destroyer'[e].pc # "idle" => /\ destroyer'[e].node \in Living'
                                               /\ destroyer'[e].server
               /\ destroyer'[e].pc = "delete" => servers'[destroyer'[e].node] = None
    <2>1. CASE e = d
      BY <1>2, <2>1
    <2>2. CASE e # d
      BY <1>1, <1>2, <1>3, <2>2 DEF LifecycleInv, WorkersInv
    <2> QED BY <2>1, <2>2
  <1>5. WorkersInv'
    BY <1>1, <1>2, <1>4 DEF LifecycleInv, WorkersInv
  <1> QED BY <1>5 DEF LifecycleInv

\* Every step of DestroyNode keeps the invariant: it reads a server id that
\* is set, removes the server before the row, and finds no one else's
\* resources under the id.
LEMMA DestroyKeeps ==
  ASSUME Quiet, TypeOK, LifecycleInv, NEW d \in AllDestroyers, DestroyStep(d)
  PROVE  LifecycleInv'
  <1>1. /\ \A e \in AllDestroyers : e # d => destroyer'[e] = destroyer[e]
        /\ UNCHANGED <<job, checker, svc>>
    BY DestroyOnly
  <1>2. /\ \A n \in NodeIds : AttemptInv(n) /\ LivingInv(n)
        /\ destroyer[d].todo \subseteq Living
        /\ destroyer[d].pc # "idle" =>
              destroyer[d].node \in Living /\ destroyer[d].server
        /\ destroyer[d].pc = "delete" => servers[destroyer[d].node] = None
        /\ CallWorks /\ ~CallFails(d) /\ ~CloudFails(d)
    BY QuietCalls DEF LifecycleInv, WorkersInv
  <1>3. /\ rows \in [NodeIds -> Row \cup {NoRow}]
        /\ servers \in [NodeIds -> Subnets \cup {None}]
        /\ subnets \in [NodeIds -> Subnets \cup {None}]
        /\ Living \subseteq NodeIds
    BY DEF TypeOK, Living
  <1>4. CASE DestroyRead(d)
    <2>1. /\ destroyer[d].pc = "idle"
          /\ UNCHANGED <<rows, subnets, servers>>
      BY <1>4 DEF DestroyRead
    <2>2. \A n \in NodeIds : AttemptInv(n)' /\ LivingInv(n)'
      BY <1>1, <1>2, <2>1, NodeUntouched
    <2>3. PICK n \in destroyer[d].todo :
            \/ /\ HasRow(n)
               /\ destroyer' = [destroyer EXCEPT
                      ![d] = [pc |-> "save", todo |-> @.todo \ {n}, node |-> n,
                              server |-> rows[n].server]]
            \/ destroyer' = [destroyer EXCEPT ![d].todo = @ \ {n}]
      BY <1>4 DEF DestroyRead
    <2>4. n \in Living
      BY <1>2, <2>3
    <2>5. CASE /\ HasRow(n)
               /\ destroyer' = [destroyer EXCEPT
                      ![d] = [pc |-> "save", todo |-> @.todo \ {n}, node |-> n,
                              server |-> rows[n].server]]
      <3>1. destroyer'[d] = [pc |-> "save", todo |-> destroyer[d].todo \ {n},
                             node |-> n, server |-> rows[n].server]
        BY <2>5 DEF TypeOK
      <3>2. rows[n].server
        BY <1>2, <1>3, <2>4, <2>5 DEF LivingInv
      <3> QED BY <1>2, <2>1, <2>2, <2>4, <3>1, <3>2, DestroyEnough
    <2>6. CASE destroyer' = [destroyer EXCEPT ![d].todo = @ \ {n}]
      <3>1. /\ destroyer'[d].todo = destroyer[d].todo \ {n}
            /\ destroyer'[d].pc = "idle"
        BY <2>1, <2>6, DestroyerFrames
      <3> QED BY <1>2, <2>1, <2>2, <3>1, DestroyEnough
    <2> QED BY <2>3, <2>5, <2>6
  <1>5. CASE DestroySave(d)
    <2> DEFINE n == destroyer[d].node
    <2>1. /\ destroyer[d].pc = "save" /\ n \in Living /\ destroyer[d].server
          /\ UNCHANGED <<subnets, servers>>
      BY <1>2, <1>5 DEF DestroySave
    <2>2. /\ UpdateRow(n, "destroying", destroyer[d].server)
          /\ destroyer' = [destroyer EXCEPT ![d].pc = "cloud"]
      BY <1>2, <1>5, <2>1 DEF DestroySave
    <2>3. /\ destroyer'[d].pc = "cloud" /\ destroyer'[d].node = n
          /\ destroyer'[d].server /\ destroyer'[d].todo = destroyer[d].todo
      BY <2>1, <2>2, DestroyerFrames, ZenonT(40)
    <2>4. /\ \A m \in NodeIds : m # n => rows'[m] = rows[m]
          /\ HasRow(n) => rows'[n].server /\ rows'[n].status = "destroying"
                          /\ rows'[n] # NoRow
          /\ ~HasRow(n) => rows'[n] = NoRow
      BY <1>3, <2>1, <2>2 DEF UpdateRow, HasRow, NoRow
    <2>5. ASSUME NEW m \in NodeIds
          PROVE  AttemptInv(m)' /\ LivingInv(m)'
      <3>1. CASE m = n
        <4>1. AttemptInv(m)'
          BY <1>1, <1>2, <2>1, <3>1, AttemptOver
        <4>2. \A e \in AllDestroyers :
                 destroyer[e].node = n /\ destroyer[e].pc = "delete" =>
                    destroyer'[e] = destroyer[e]
          BY <1>1, <2>1
        <4>3. LivingInv(n)
          BY <1>2, <1>3, <2>1
        <4>4. LivingInv(m)'
          BY <2>1, <2>4, <3>1, <4>2, <4>3 DEF LivingInv, HasRow
        <4> QED BY <4>1, <4>4
      <3>2. CASE m # n
        BY <1>1, <1>2, <2>1, <2>4, <3>2, NodeUntouched
      <3> QED BY <3>1, <3>2
    <2> QED BY <1>2, <2>1, <2>3, <2>5, DestroyEnough
  <1>6. CASE DestroyCloud(d)
    <2> DEFINE n == destroyer[d].node
    <2>1. /\ destroyer[d].pc = "cloud" /\ n \in Living /\ destroyer[d].server
          /\ UNCHANGED <<rows, subnets>>
          /\ DeleteServer(n)
          /\ destroyer' = [destroyer EXCEPT ![d].pc = "delete"]
      BY <1>2, <1>6 DEF DestroyCloud
    <2>2. /\ destroyer'[d].pc = "delete" /\ destroyer'[d].node = n
          /\ destroyer'[d].server /\ destroyer'[d].todo = destroyer[d].todo
      BY <2>1, DestroyerFrames, ZenonT(40)
    <2>3. servers'[n] = None /\ \A m \in NodeIds : m # n => servers'[m] = servers[m]
      BY <1>3, <2>1 DEF DeleteServer
    <2>4. ASSUME NEW m \in NodeIds
          PROVE  AttemptInv(m)' /\ LivingInv(m)'
      <3>1. CASE m = n
        <4>1. AttemptInv(m)'
          BY <1>1, <1>2, <2>1, <3>1, AttemptOver
        <4>2. LivingInv(n)
          BY <1>2, <1>3, <2>1
        <4>3. LivingInv(m)'
          BY <2>1, <2>2, <2>3, <3>1, <4>2 DEF LivingInv, HasRow
        <4> QED BY <4>1, <4>3
      <3>2. CASE m # n
        BY <1>1, <1>2, <2>1, <2>3, <3>2, NodeUntouched
      <3> QED BY <3>1, <3>2
    <2> QED BY <1>2, <1>3, <2>1, <2>2, <2>3, <2>4, DestroyEnough
  <1>7. CASE DestroyRow(d)
    <2> DEFINE n == destroyer[d].node
    <2>1. /\ destroyer[d].pc = "delete" /\ n \in Living
          /\ servers[n] = None
          /\ UNCHANGED servers
          /\ DeleteRow(n) /\ NextNode(d)
      BY <1>2, <1>7 DEF DestroyRow
    <2>2. destroyer'[d].pc = "idle" /\ destroyer'[d].todo = destroyer[d].todo
      BY <2>1, DestroyerFrames
    <2>3. /\ rows'[n] = NoRow
          /\ \A m \in NodeIds : m # n =>
                rows'[m] = rows[m] /\ subnets'[m] = subnets[m]
      BY <1>3, <2>1 DEF DeleteRow
    <2>4. ASSUME NEW m \in NodeIds
          PROVE  AttemptInv(m)' /\ LivingInv(m)'
      <3>1. CASE m = n
        <4>1. AttemptInv(m)'
          BY <1>1, <1>2, <2>1, <3>1, AttemptOver
        <4>2. LivingInv(m)'
          BY <2>1, <2>3, <3>1 DEF LivingInv, HasRow
        <4> QED BY <4>1, <4>2
      <3>2. CASE m # n
        BY <1>1, <1>2, <2>1, <2>3, <3>2, NodeUntouched
      <3> QED BY <3>1, <3>2
    <2> QED BY <1>2, <2>1, <2>2, <2>4, DestroyEnough
  <1> QED BY <1>4, <1>5, <1>6, <1>7 DEF DestroyStep

\* Listing orphaned nodes picks activated nodes only.
LEMMA OrphansKeep ==
  ASSUME Quiet, TypeOK, LifecycleInv, NEW d \in Destroyers, ListOrphanedNodes(d)
  PROVE  LifecycleInv'
  <1>1. /\ d \in AllDestroyers
        /\ destroyer[d] = IdleDestroyer
        /\ UNCHANGED <<rows, subnets, servers, job>>
    BY DEF ListOrphanedNodes, AllDestroyers
  <1>2. PICK todo \in SUBSET {n \in NodeIds : rows[n].status = "active"} :
           destroyer' = [destroyer EXCEPT ![d].todo = todo]
    BY DEF ListOrphanedNodes
  <1>3. destroyer'[d].todo = todo /\ destroyer'[d].pc = "idle"
    <2>1. destroyer'[d] = [destroyer[d] EXCEPT !.todo = todo]
      BY <1>1, <1>2 DEF TypeOK
    <2> QED BY <1>1, <2>1 DEF IdleDestroyer
  <1>4. ASSUME NEW n \in todo
        PROVE  n \in Living
    <2>1. n \in NodeIds /\ rows[n].status = "active"
      BY <1>2
    <2>2. HasRow(n)
      BY <2>1 DEF HasRow, NoRow
    <2> QED BY <2>1, <2>2, ListedIsLiving
  <1>5. \A n \in NodeIds : AttemptInv(n)' /\ LivingInv(n)'
    <2>1. \A e \in AllDestroyers : destroyer[e].pc = "delete" =>
             destroyer'[e] = destroyer[e]
      BY <1>1, DestroyOnly DEF IdleDestroyer
    <2> QED BY <1>1, <2>1, NodeUntouched DEF LifecycleInv
  <1> QED BY <1>1, <1>3, <1>4, <1>5, DestroyEnough

\* A health check writes the server id it has read, and only to a node that
\* was activated.
LEMMA CheckKeeps ==
  ASSUME Quiet, TypeOK, LifecycleInv, NEW c \in Checkers,
         ListActiveNode(c) \/ CheckStep(c)
  PROVE  LifecycleInv'
  <1>1. /\ checker \in [Checkers -> CheckerFrame] /\ checker[c] \in CheckerFrame
        /\ rows \in [NodeIds -> Row \cup {NoRow}]
        /\ Living \subseteq NodeIds
    BY DEF TypeOK, Living
  <1>2. /\ UNCHANGED <<subnets, servers, job, destroyer, svc>>
        /\ Living' = Living
    BY DEF ListActiveNode, CheckStep, CheckRead, CheckProbe, CheckReread,
           CheckWrite, Living
  <1>3. /\ \A n \in NodeIds : AttemptInv(n) /\ LivingInv(n)
        /\ checker[c].pc # "idle" => checker[c].node \in Living
        /\ checker[c].pc = "write" => checker[c].server
        /\ CallWorks /\ ~CallFails(c)
    BY QuietCalls DEF LifecycleInv, WorkersInv
  <1>4. ASSUME NEW f, checker' = [checker EXCEPT ![c] = f],
               f.pc # "idle" => f.node \in Living,
               f.pc = "write" => f.server,
               \A n \in NodeIds : AttemptInv(n)' /\ LivingInv(n)'
        PROVE  LifecycleInv'
    <2>1. checker'[c] = f /\ \A e \in Checkers : e # c => checker'[e] = checker[e]
      BY <1>1, <1>4
    <2>2. ASSUME NEW e \in Checkers
          PROVE  /\ checker'[e].pc # "idle" => checker'[e].node \in Living'
                 /\ checker'[e].pc = "write" => checker'[e].server
      <3>1. CASE e = c
        BY <1>2, <1>4, <2>1, <3>1
      <3>2. CASE e # c
        BY <1>2, <2>1, <3>2 DEF LifecycleInv, WorkersInv
      <3> QED BY <3>1, <3>2
    <2>3. WorkersInv'
      BY <1>2, <2>2 DEF LifecycleInv, WorkersInv
    <2> QED BY <1>4, <2>3 DEF LifecycleInv
  <1>5. UNCHANGED rows => \A n \in NodeIds : AttemptInv(n)' /\ LivingInv(n)'
    BY <1>2, <1>3, NodeUntouched
  <1>6. ASSUME EndCheck(c), \A n \in NodeIds : AttemptInv(n)' /\ LivingInv(n)'
        PROVE  LifecycleInv'
    BY <1>4, <1>6 DEF EndCheck, IdleChecker
  <1>7. CASE ListActiveNode(c)
    <2>1. PICK n \in NodeIds :
             /\ rows[n].status = "active"
             /\ checker' = [checker EXCEPT ![c].pc = "read", ![c].node = n]
      BY <1>7 DEF ListActiveNode
    <2>2. n \in Living
      <3>1. HasRow(n)
        BY <2>1 DEF HasRow, NoRow
      <3> QED BY <2>1, <3>1, ListedIsLiving
    <2> DEFINE f == [checker[c] EXCEPT !.pc = "read", !.node = n]
    <2>3. checker' = [checker EXCEPT ![c] = f]
      BY <1>1, <2>1
    <2>4. f.pc = "read" /\ f.node = n
      BY <1>1 DEF CheckerFrame
    <2> HIDE DEF f
    <2> QED BY <1>4, <1>5, <1>7, <2>2, <2>3, <2>4 DEF ListActiveNode
  <1>8. CASE CheckRead(c)
    <2>1. CASE EndCheck(c)
      BY <1>5, <1>6, <1>8, <2>1 DEF CheckRead
    <2>2. CASE checker' = [checker EXCEPT ![c].pc = "probe",
                                          ![c].was = rows[checker[c].node].status]
      <3> DEFINE f == [checker[c] EXCEPT !.pc = "probe",
                                         !.was = rows[checker[c].node].status]
      <3>1. checker' = [checker EXCEPT ![c] = f]
        BY <1>1, <2>2
      <3>2. f.pc = "probe" /\ f.node = checker[c].node
        BY <1>1 DEF CheckerFrame
      <3>3. checker[c].node \in Living
        BY <1>3, <1>8 DEF CheckRead
      <3> HIDE DEF f
      <3> QED BY <1>4, <1>5, <1>8, <3>1, <3>2, <3>3 DEF CheckRead
    <2> QED BY <1>8, <2>1, <2>2 DEF CheckRead
  <1>9. CASE CheckProbe(c)
    <2>1. CASE EndCheck(c)
      BY <1>5, <1>6, <1>9, <2>1 DEF CheckProbe
    <2>2. ASSUME NEW v, checker' = [checker EXCEPT ![c].pc = "reread",
                                                   ![c].was = "none",
                                                   ![c].verdict = v]
          PROVE  LifecycleInv'
      <3> DEFINE f == [checker[c] EXCEPT !.pc = "reread", !.was = "none",
                                         !.verdict = v]
      <3>1. checker' = [checker EXCEPT ![c] = f]
        BY <1>1, <2>2
      <3>2. f.pc = "reread" /\ f.node = checker[c].node
        BY <1>1 DEF CheckerFrame
      <3>3. checker[c].node \in Living
        BY <1>3, <1>9 DEF CheckProbe
      <3> HIDE DEF f
      <3> QED BY <1>4, <1>5, <1>9, <3>1, <3>2, <3>3 DEF CheckProbe
    <2> QED BY <1>9, <2>1, <2>2 DEF CheckProbe
  <1>10. CASE CheckReread(c)
    <2>1. CASE EndCheck(c)
      BY <1>5, <1>6, <1>10, <2>1 DEF CheckReread
    <2>2. CASE /\ HasRow(checker[c].node)
               /\ checker' = [checker EXCEPT ![c].pc = "write",
                                 ![c].server = rows[checker[c].node].server]
      <3> DEFINE f == [checker[c] EXCEPT !.pc = "write",
                                         !.server = rows[checker[c].node].server]
      <3>1. checker' = [checker EXCEPT ![c] = f]
        BY <1>1, <2>2
      <3>2. /\ f.pc = "write" /\ f.node = checker[c].node
            /\ f.server = rows[checker[c].node].server
        BY <1>1 DEF CheckerFrame
      <3>3. checker[c].node \in Living
        BY <1>3, <1>10 DEF CheckReread
      <3>4. rows[checker[c].node].server
        BY <1>1, <1>3, <2>2, <3>3 DEF LivingInv
      <3> HIDE DEF f
      <3> QED BY <1>4, <1>5, <1>10, <3>1, <3>2, <3>3, <3>4 DEF CheckReread
    <2> QED BY <1>10, <2>1, <2>2 DEF CheckReread
  <1>11. CASE CheckWrite(c)
    <2> DEFINE n == checker[c].node
    <2>1. /\ n \in Living /\ checker[c].server
          /\ checker[c].verdict \in {"active", "unhealthy"}
          /\ UpdateRow(n, checker[c].verdict, checker[c].server)
          /\ EndCheck(c)
      BY <1>1, <1>3, <1>11 DEF CheckWrite, CheckerFrame
    <2>2. /\ \A m \in NodeIds : m # n => rows'[m] = rows[m]
          /\ HasRow(n) => /\ rows'[n].server /\ rows'[n].status # "provisioning"
                          /\ rows'[n] # NoRow
          /\ ~HasRow(n) => rows'[n] = NoRow
      BY <1>1, <2>1 DEF UpdateRow, HasRow, NoRow
    <2>3. ASSUME NEW m \in NodeIds
          PROVE  AttemptInv(m)' /\ LivingInv(m)'
      <3>1. CASE m = n
        <4>1. AttemptInv(m)'
          BY <1>2, <1>3, <2>1, <3>1, AttemptOver
        <4>2. LivingInv(n)
          BY <1>1, <1>3, <2>1
        <4>3. LivingInv(m)'
          BY <1>2, <2>1, <2>2, <3>1, <4>2 DEF LivingInv, HasRow
        <4> QED BY <4>1, <4>3
      <3>2. CASE m # n
        BY <1>2, <1>3, <2>2, <3>2, NodeUntouched
      <3> QED BY <3>1, <3>2
    <2> QED BY <1>6, <2>1, <2>3
  <1> QED BY <1>7, <1>8, <1>9, <1>10, <1>11 DEF CheckStep

\* A request starts an attempt that holds nothing yet.
LEMMA RequestKeeps ==
  ASSUME Quiet, TypeOK, LifecycleInv, NEW r \in Requests,
         handleProvisionRequest(r) \/ RequestAges(r)
  PROVE  LifecycleInv'
  <1>1. UNCHANGED <<rows, subnets, servers, destroyer, checker, svc>>
    BY DEF handleProvisionRequest, RequestAges
  <1>2. CASE UNCHANGED job
    <2>1. Living' = Living
      BY <1>2 DEF Living
    <2>2. \A n \in NodeIds : AttemptInv(n)' /\ LivingInv(n)'
      BY <1>1, <1>2, NodeUntouched DEF LifecycleInv
    <2> QED BY <1>1, <2>1, <2>2 DEF LifecycleInv, WorkersInv
  <1>3. CASE \E n \in NodeIds : At(n, "idle") /\ Goto(n, "start")
    <2>1. PICK n \in NodeIds : At(n, "idle") /\ Goto(n, "start")
      BY <1>3
    <2>2. /\ job[n].pc = "idle" /\ job'[n].pc = "start"
          /\ job'[n].pick = job[n].pick
          /\ job'[n].subnet = job[n].subnet
          /\ job'[n].cloud = job[n].cloud
          /\ job'[n].expired = job[n].expired
          /\ \A m \in NodeIds : m # n => job'[m] = job[m]
      BY <2>1, GotoFields DEF At
    <2>3. Living' = Living
      BY <2>2 DEF Living
    <2>4. AttemptInv(n)' /\ LivingInv(n)'
      <3>1. AttemptInv(n)
        BY DEF LifecycleInv
      <3>2. AttemptInv(n)'
        BY <1>1, <2>2, <3>1 DEF AttemptInv, Holds, Allocated
      <3>3. n \notin Living'
        BY <2>2 DEF Living
      <3> QED BY <3>2, <3>3 DEF LivingInv
    <2>5. \A m \in NodeIds : AttemptInv(m)' /\ LivingInv(m)'
      BY <1>1, <2>2, <2>4, NodeUntouched DEF LifecycleInv
    <2> QED BY <1>1, <2>3, <2>5 DEF LifecycleInv, WorkersInv
  <1> QED BY <1>2, <1>3 DEF handleProvisionRequest, RequestAges

\* While provisioning meets only failures it has rollback steps for, every
\* attempt holds exactly the row, subnet and server its position in
\* provisionNode says, and every activated node keeps the three together
\* until DestroyNode has removed the server: for any number of nodes,
\* clean-ups and health checks at a time.
THEOREM LifecycleHolds == ASSUME Quiet PROVE Spec => []LifecycleInv
  <1>1. Init => LifecycleInv
    <2> SUFFICES ASSUME Init PROVE LifecycleInv
      OBVIOUS
    <2>1. \A n \in NodeIds : AttemptInv(n) /\ n \notin Living
      BY DEF Init, AttemptInv, Living, NewJob, Holds, Allocated
    <2>2. WorkersInv
      BY DEF Init, WorkersInv, IdleDestroyer, IdleChecker
    <2> QED BY <2>1, <2>2 DEF LifecycleInv, LivingInv
  <1>2. TypeOK /\ LifecycleInv /\ [Next]_vars => LifecycleInv'
    <2> SUFFICES ASSUME TypeOK, LifecycleInv, [Next]_vars PROVE LifecycleInv'
      OBVIOUS
    <2>0. svc = "running"
      BY DEF LifecycleInv, WorkersInv
    <2>1. ASSUME NEW n \in NodeIds, Expire(n)
          PROVE  LifecycleInv'
      BY <2>0, <2>1, QuietCalls DEF Expire
    <2>2. ASSUME NEW c \in Cleaners
          PROVE  LifecycleInv'
      BY <2>2 DEF Quiet
    <2>3. CASE Stop \/ cleanupActiveNodes \/ CloseEventBus \/ CloseStore
      BY <2>0, <2>3, QuietCalls
         DEF Stop, cleanupActiveNodes, CloseEventBus, CloseStore
    <2>4. CASE Exit \/ Crash
      BY <2>0, <2>4, QuietCalls DEF Exit, Crash
    <2>5. CASE UNCHANGED vars
      <3>1. /\ UNCHANGED <<rows, subnets, servers, job, destroyer, checker, svc>>
            /\ Living' = Living
        BY <2>5 DEF vars, Living
      <3>2. \A n \in NodeIds : AttemptInv(n)' /\ LivingInv(n)'
        BY <3>1, NodeUntouched DEF LifecycleInv
      <3> QED BY <3>1, <3>2 DEF LifecycleInv, WorkersInv
    <2> QED BY <2>1, <2>2, <2>3, <2>4, <2>5, RequestKeeps, ProvisionKeeps,
               OrphansKeep, DestroyKeeps, CheckKeeps DEF Next
  <1> QED BY <1>1, <1>2, TypeCorrect, PTL DEF Spec

\* Every running server is configured with the subnet that its node's row of
\* node_subnets holds.
LEMMA ServerHasSubnet ==
  ASSUME TypeOK, LifecycleInv, NEW n \in NodeIds, servers[n] # None
  PROVE  subnets[n] = servers[n]
  <1>1. AttemptInv(n) /\ LivingInv(n) /\ job[n].pc \in Phases
    BY DEF LifecycleInv, TypeOK, Job
  <1>2. CASE n \in Living
    BY <1>1, <1>2 DEF LivingInv
  <1>3. CASE n \notin Living
    BY <1>1, <1>3 DEF AttemptInv, Living, Phases, Holds
  <1> QED BY <1>2, <1>3

\* No two running servers are ever configured with the same subnet: the
\* unique column of node_subnets and the order in which rollback and
\* DestroyNode release things.
THEOREM ServersAreDisjoint == ASSUME Quiet PROVE Spec => []ServersDisjoint
  <1>1. TypeOK /\ LifecycleInv /\ SubnetTableSound => ServersDisjoint
    <2> SUFFICES ASSUME TypeOK, LifecycleInv, SubnetTableSound,
                        NEW m \in NodeIds, NEW n \in NodeIds,
                        m # n, servers[m] # None, servers[m] = servers[n]
                 PROVE  FALSE
      BY DEF ServersDisjoint
    <2>1. subnets[m] = servers[m] /\ subnets[n] = servers[n]
      BY ServerHasSubnet
    <2> QED BY <2>1 DEF SubnetTableSound
  <1> QED BY <1>1, LifecycleHolds, SubnetsSound, TypeCorrect, PTL

\* An attempt that failed leaves no row, no subnet and no server, whatever
\* ran beside it.
THEOREM FailedHasNothing == ASSUME Quiet PROVE Spec => []FailedLeavesNothing
  <1>1. LifecycleInv => FailedLeavesNothing
    BY DEF LifecycleInv, AttemptInv, FailedLeavesNothing, Holds, HasRow
  <1> QED BY <1>1, LifecycleHolds, PTL
=============================================================================
