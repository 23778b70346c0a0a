------------------------- MODULE NodeLifecycleProofs -------------------------
(***************************************************************************)
(* Proofs about NodeLifecycle, for any sets of nodes, requests, destroyers, *)
(* checkers and cleaners and any number of subnets.                        *)
(***************************************************************************)
EXTENDS NodeLifecycle, WellFoundedInduction, TLAPS

USE ConstantsAssumption

-----------------------------------------------------------------------------
(***************************************************************************)
(* What the helpers do to the types of the variables.                      *)
(***************************************************************************)

\* NodeStatus: the row a new node gets is a row.
LEMMA NewNodeType == NewNode \in Row
  BY DEF NewNode, Row, Status

\* UpdateRow keeps the table typed when the caller's copy is.
LEMMA UpdateRowType ==
  ASSUME TypeOK, NEW n \in NodeIds, NEW s \in Status, NEW b \in BOOLEAN,
         UpdateRow(n, s, b)
  PROVE  rows' \in [NodeIds -> Row \cup {NoRow}]
  BY DEF TypeOK, UpdateRow, Row

\* DeleteRow keeps both tables typed.
LEMMA DeleteRowType ==
  ASSUME TypeOK, NEW n \in NodeIds, DeleteRow(n)
  PROVE  /\ rows' \in [NodeIds -> Row \cup {NoRow}]
         /\ subnets' \in [NodeIds -> Subnets \cup {None}]
  BY DEF TypeOK, DeleteRow

\* The workflow's program counter stays in Phases.
LEMMA GotoType ==
  ASSUME TypeOK, NEW n \in NodeIds, NEW p \in Phases, Goto(n, p)
  PROVE  job' \in [NodeIds -> Job]
  <1>1. job \in [NodeIds -> Job]
    BY DEF TypeOK
  <1>2. [job[n] EXCEPT !.pc = p] \in Job
    BY <1>1 DEF Job
  <1> QED BY <1>1, <1>2 DEF Goto

\* A frame that has returned is a frame.
LEMMA ReturnedType ==
  ASSUME NEW p \in Phases
  PROVE  Returned(p) \in Job
  BY DEF Returned, NewJob, Job

\* Return leaves a typed stack frame.
LEMMA ReturnType ==
  ASSUME TypeOK, NEW n \in NodeIds, NEW p \in Phases, Return(n, p)
  PROVE  job' \in [NodeIds -> Job]
  BY ReturnedType DEF TypeOK, Return

\* The tracker's handlers leave a tracker.
LEMMA TrackerType ==
  ASSUME TypeOK, NEW n \in NodeIds
  PROVE  /\ handleProvisionFailed(tracker, n) \in [Requests \cup NodeIds -> Entry]
         /\ handleProvisionCompleted(tracker, n) \in [Requests \cup NodeIds -> Entry]
         /\ \A t \in handleProvisionProgress(tracker, n) :
               t \in [Requests \cup NodeIds -> Entry]
  BY DEF TypeOK, handleProvisionFailed, handleProvisionCompleted,
         handleProvisionProgress, Fresh, Entry

\* A rollback starts at one of its three steps, or is switched off.
LEMMA RollbackFromType ==
  ASSUME NEW j
  PROVE  RollbackFrom(j) \in {"failed", "rbCloud", "rbSubnet", "rbRow"}
  BY DEF RollbackFrom

\* Reporting an error and starting the rollback keep job and tracker typed.
LEMMA FailStepType ==
  ASSUME TypeOK, NEW n \in NodeIds, FailStep(n)
  PROVE  /\ job' \in [NodeIds -> Job]
         /\ tracker' \in [Requests \cup NodeIds -> Entry]
  <1> DEFINE pc == RollbackFrom(job[n])
  <1>1. pc \in {"failed", "rbCloud", "rbSubnet", "rbRow"}
    BY RollbackFromType
  <1>2. pc \in Phases
    BY <1>1 DEF Phases
  <1>3. Return(n, pc) \/ Goto(n, pc)
    BY DEF FailStep
  <1>4. job' \in [NodeIds -> Job]
    BY <1>2, <1>3, ReturnType, GotoType
  <1>5. tracker' \in [Requests \cup NodeIds -> Entry]
    BY TrackerType DEF FailStep, Publish, TypeOK
  <1> QED BY <1>4, <1>5

\* Creating or deleting a server keeps the cloud typed.
LEMMA ServerType ==
  ASSUME TypeOK, NEW n \in NodeIds, StartServer(n) \/ DeleteServer(n)
  PROVE  servers' \in [NodeIds -> Subnets \cup {None}]
  BY DEF TypeOK, StartServer, DeleteServer, Job

\* A non-empty set of natural numbers has a least element.
LEMMA NatMin ==
  ASSUME NEW T, T \subseteq Nat, T # {}
  PROVE  \E i \in T : \A j \in T : i <= j
  <1>1. PICK x \in T : \A y \in T : ~(<<y, x>> \in OpToRel(<, Nat))
    BY NatLessThanWellFounded, WFMin
  <1>2. \A y \in T : ~(y < x)
    BY <1>1 DEF OpToRel
  <1> QED BY <1>2

\* FindNextAvailableSubnet returns a subnet that is not in use, if any.
LEMMA FindSubnetType ==
  ASSUME Subnets \ Used # {}
  PROVE  FindNextAvailableSubnet \in Subnets \ Used
  <1>1. Subnets \ Used \subseteq Nat
    BY DEF Subnets
  <1>2. \E i \in Subnets \ Used : \A j \in Subnets \ Used : i <= j
    BY <1>1, NatMin
  <1> QED BY <1>2 DEF FindNextAvailableSubnet

\* The three multi-field changes of a workflow frame.
LEMMA FrameType ==
  ASSUME TypeOK, NEW n \in NodeIds
  PROVE  /\ \A s \in Subnets :
               [job EXCEPT ![n].pick = s, ![n].pc = "store"] \in [NodeIds -> Job]
         /\ [job EXCEPT ![n].subnet = TRUE, ![n].pc = "cloud"] \in [NodeIds -> Job]
         /\ [job EXCEPT ![n].cloud = TRUE, ![n].pc = "details"] \in [NodeIds -> Job]
         /\ [job EXCEPT ![n].expired = TRUE] \in [NodeIds -> Job]
  <1>1. job \in [NodeIds -> Job] /\ job[n] \in Job
    BY DEF TypeOK
  <1>2. \A s \in Subnets : [job[n] EXCEPT !.pick = s, !.pc = "store"] \in Job
    BY <1>1 DEF Job, Phases
  <1>3. [job[n] EXCEPT !.subnet = TRUE, !.pc = "cloud"] \in Job
    BY <1>1 DEF Job, Phases
  <1>4. [job[n] EXCEPT !.cloud = TRUE, !.pc = "details"] \in Job
    BY <1>1 DEF Job, Phases
  <1>5. [job[n] EXCEPT !.expired = TRUE] \in Job
    BY <1>1 DEF Job
  <1> QED BY <1>1, <1>2, <1>3, <1>4, <1>5
-----------------------------------------------------------------------------
(***************************************************************************)
(* Type correctness, one step per action.                                  *)
(***************************************************************************)
LEMMA ProvisionType ==
  ASSUME TypeOK, NEW n \in NodeIds, ProvisionStep(n)
  PROVE  TypeOK'
  <1>1. CASE reportPhaseStart(n)
    <2>1. job' \in [NodeIds -> Job]
      BY <1>1, GotoType DEF reportPhaseStart, Phases
    <2>2. tracker' \in [Requests \cup NodeIds -> Entry]
      BY <1>1, TrackerType DEF reportPhaseStart, TypeOK
    <2> QED BY <1>1, <2>1, <2>2 DEF reportPhaseStart, TypeOK
  <1>2. CASE createProvisioningRecord(n)
    <2>1. job' \in [NodeIds -> Job]
      BY <1>2, GotoType, ReturnType DEF createProvisioningRecord, Phases
    <2>2. tracker' \in [Requests \cup NodeIds -> Entry]
      BY <1>2, TrackerType DEF createProvisioningRecord, Publish, TypeOK
    <2>3. rows' \in [NodeIds -> Row \cup {NoRow}]
      BY <1>2, NewNodeType DEF createProvisioningRecord, CreateRow, TypeOK
    <2> QED BY <1>2, <2>1, <2>2, <2>3 DEF createProvisioningRecord, TypeOK
  <1>3. CASE FindSubnet(n)
    <2>1. CASE FailStep(n)
      BY <1>3, <2>1, FailStepType DEF FindSubnet, TypeOK
    <2>2. CASE /\ Subnets \ Used # {}
               /\ job' = [job EXCEPT ![n].pick = FindNextAvailableSubnet,
                                     ![n].pc = "store"]
               /\ UNCHANGED tracker
      <3>1. FindNextAvailableSubnet \in Subnets
        BY <2>2, FindSubnetType
      <3>2. job' \in [NodeIds -> Job]
        BY <2>2, <3>1, FrameType
      <3> QED BY <1>3, <2>2, <3>2 DEF FindSubnet, TypeOK
    <2> QED BY <1>3, <2>1, <2>2 DEF FindSubnet
  <1>4. CASE CreateSubnet(n)
    <2>1. job' \in [NodeIds -> Job]
      BY <1>4, FailStepType, FrameType DEF CreateSubnet
    <2>2. tracker' \in [Requests \cup NodeIds -> Entry]
      BY <1>4, FailStepType DEF CreateSubnet, TypeOK
    <2>3. subnets' \in [NodeIds -> Subnets \cup {None}]
      BY <1>4 DEF CreateSubnet, TypeOK, Job
    <2> QED BY <1>4, <2>1, <2>2, <2>3 DEF CreateSubnet, TypeOK
  <1>5. CASE CreateServer(n)
    <2>1. job' \in [NodeIds -> Job]
      BY <1>5, GotoType, FailStepType DEF CreateServer, Phases
    <2>2. tracker' \in [Requests \cup NodeIds -> Entry]
      BY <1>5, FailStepType DEF CreateServer, TypeOK
    <2>3. servers' \in [NodeIds -> Subnets \cup {None}]
      BY <1>5, ServerType DEF CreateServer, TypeOK
    <2> QED BY <1>5, <2>1, <2>2, <2>3 DEF CreateServer, TypeOK
  <1>6. CASE performHealthChecks(n)
    <2>1. job' \in [NodeIds -> Job]
      BY <1>6, GotoType, FrameType DEF performHealthChecks, Phases
    <2> QED BY <1>6, <2>1 DEF performHealthChecks, TypeOK
  <1>7. CASE UndoServer(n)
    <2>1. /\ job' \in [NodeIds -> Job]
          /\ tracker' \in [Requests \cup NodeIds -> Entry]
      BY <1>7, FailStepType DEF UndoServer
    <2>2. servers' \in [NodeIds -> Subnets \cup {None}]
      BY <1>7, ServerType DEF UndoServer, TypeOK
    <2> QED BY <1>7, <2>1, <2>2 DEF UndoServer, TypeOK
  <1>8. CASE updateNodeDetails(n)
    <2>1. job' \in [NodeIds -> Job]
      BY <1>8, GotoType, FailStepType DEF updateNodeDetails, Phases
    <2>2. tracker' \in [Requests \cup NodeIds -> Entry]
      BY <1>8, FailStepType DEF updateNodeDetails, TypeOK
    <2>3. rows' \in [NodeIds -> Row \cup {NoRow}]
      BY <1>8, UpdateRowType DEF updateNodeDetails, TypeOK, Status
    <2> QED BY <1>8, <2>1, <2>2, <2>3 DEF updateNodeDetails, TypeOK
  <1>9. CASE waitForNodeReadiness(n)
    <2>1. job' \in [NodeIds -> Job]
      BY <1>9, GotoType, FailStepType DEF waitForNodeReadiness, Phases
    <2>2. tracker' \in [Requests \cup NodeIds -> Entry]
      BY <1>9, FailStepType DEF waitForNodeReadiness, TypeOK
    <2> QED BY <1>9, <2>1, <2>2 DEF waitForNodeReadiness, TypeOK
  <1>10. CASE activateNode(n)
    <2>1. job' \in [NodeIds -> Job]
      BY <1>10, GotoType, FailStepType DEF activateNode, Phases
    <2>2. tracker' \in [Requests \cup NodeIds -> Entry]
      BY <1>10, FailStepType DEF activateNode, TypeOK
    <2>3. rows' \in [NodeIds -> Row \cup {NoRow}]
      BY <1>10, UpdateRowType DEF activateNode, TypeOK, Status
    <2> QED BY <1>10, <2>1, <2>2, <2>3 DEF activateNode, TypeOK
  <1>11. CASE PublishProvisionCompleted(n)
    <2>1. job' \in [NodeIds -> Job]
      BY <1>11, ReturnType DEF PublishProvisionCompleted, Phases
    <2>2. tracker' \in [Requests \cup NodeIds -> Entry]
      BY <1>11, TrackerType DEF PublishProvisionCompleted, Publish, TypeOK
    <2> QED BY <1>11, <2>1, <2>2 DEF PublishProvisionCompleted, TypeOK
  <1>12. CASE RollbackCloud(n)
    <2>1. job' \in [NodeIds -> Job]
      BY <1>12, GotoType DEF RollbackCloud, Phases
    <2>2. servers' \in [NodeIds -> Subnets \cup {None}]
      BY <1>12, ServerType DEF RollbackCloud, TypeOK
    <2> QED BY <1>12, <2>1, <2>2 DEF RollbackCloud, TypeOK
  <1>13. CASE RollbackSubnet(n)
    <2>1. job' \in [NodeIds -> Job]
      BY <1>13, GotoType DEF RollbackSubnet, Phases
    <2>2. subnets' \in [NodeIds -> Subnets \cup {None}]
      BY <1>13 DEF RollbackSubnet, TypeOK
    <2> QED BY <1>13, <2>1, <2>2 DEF RollbackSubnet, TypeOK
  <1>14. CASE RollbackRow(n)
    <2>1. job' \in [NodeIds -> Job]
      BY <1>14, ReturnType DEF RollbackRow, Phases
    <2>2. /\ rows' \in [NodeIds -> Row \cup {NoRow}]
          /\ subnets' \in [NodeIds -> Subnets \cup {None}]
      BY <1>14, DeleteRowType DEF RollbackRow, TypeOK
    <2> QED BY <1>14, <2>1, <2>2 DEF RollbackRow, TypeOK
  <1> QED
    BY <1>1, <1>2, <1>3, <1>4, <1>5, <1>6, <1>7, <1>8, <1>9, <1>10, <1>11,
       <1>12, <1>13, <1>14 DEF ProvisionStep

\* The idle frames of a destroyer and a checker are frames.
LEMMA IdleTypes ==
  IdleDestroyer \in DestroyerFrame /\ IdleChecker \in CheckerFrame
  BY DEF IdleDestroyer, IdleChecker, DestroyerFrame, CheckerFrame

\* The rows a listed status comes from are rows, not NoRow.
LEMMA ListedRow ==
  ASSUME TypeOK, NEW n \in NodeIds, HasRow(n)
  PROVE  rows[n] \in Row /\ rows[n].status \in Status /\ rows[n].server \in BOOLEAN
  BY DEF TypeOK, HasRow, Row

\* Every step of a DestroyNode loop preserves the types.
LEMMA DestroyType ==
  ASSUME TypeOK, NEW d \in AllDestroyers, DestroyStep(d)
  PROVE  TypeOK'
  <1>0. /\ destroyer \in [AllDestroyers -> DestroyerFrame]
        /\ destroyer[d] \in DestroyerFrame
        /\ destroyer[d].todo \subseteq NodeIds
        /\ destroyer[d].server \in BOOLEAN
        /\ destroyer[d].node \in NodeIds \cup {"none"}
    BY DEF TypeOK, DestroyerFrame
  <1>1. ASSUME NextNode(d)
        PROVE  destroyer' \in [AllDestroyers -> DestroyerFrame]
    <2>1. [destroyer[d] EXCEPT !.pc = "idle", !.node = "none", !.server = FALSE]
              \in DestroyerFrame
      BY <1>0 DEF DestroyerFrame
    <2> QED BY <1>0, <1>1, <2>1 DEF NextNode
  <1>2. CASE DestroyRead(d)
    <2>1. PICK n \in destroyer[d].todo :
            \/ /\ HasRow(n)
               /\ destroyer' = [destroyer EXCEPT
                     ![d] = [pc |-> "save", todo |-> @.todo \ {n}, node |-> n,
                             server |-> rows[n].server]]
            \/ destroyer' = [destroyer EXCEPT ![d].todo = @ \ {n}]
      BY <1>2 DEF DestroyRead
    <2>2. n \in NodeIds
      BY <1>0, <2>1
    <2>3. HasRow(n) =>
            [pc |-> "save", todo |-> destroyer[d].todo \ {n}, node |-> n,
             server |-> rows[n].server] \in DestroyerFrame
      BY <1>0, <2>2, ListedRow DEF DestroyerFrame
    <2>4. [destroyer[d] EXCEPT !.todo = @ \ {n}] \in DestroyerFrame
      BY <1>0 DEF DestroyerFrame
    <2>5. destroyer' \in [AllDestroyers -> DestroyerFrame]
      BY <1>0, <2>1, <2>3, <2>4
    <2> QED BY <1>2, <2>5 DEF DestroyRead, TypeOK
  <1>3. CASE DestroySave(d)
    <2>1. [destroyer[d] EXCEPT !.pc = IF destroyer[d].server THEN "cloud" ELSE "delete"]
              \in DestroyerFrame
      BY <1>0, <1>3 DEF DestroySave, DestroyerFrame
    <2>2. destroyer' \in [AllDestroyers -> DestroyerFrame]
      BY <1>0, <1>1, <1>3, <2>1 DEF DestroySave
    <2>3. rows' \in [NodeIds -> Row \cup {NoRow}]
      BY <1>0, <1>3 DEF DestroySave, UpdateRow, TypeOK, Row, Status
    <2> QED BY <1>3, <2>2, <2>3 DEF DestroySave, TypeOK
  <1>4. CASE DestroyCloud(d)
    <2>1. [destroyer[d] EXCEPT !.pc = "delete"] \in DestroyerFrame
      BY <1>0, <1>4 DEF DestroyCloud, DestroyerFrame
    <2>2. destroyer' \in [AllDestroyers -> DestroyerFrame]
      BY <1>0, <1>4, <2>1 DEF DestroyCloud
    <2>3. servers' \in [NodeIds -> Subnets \cup {None}]
      BY <1>4 DEF DestroyCloud, DeleteServer, TypeOK
    <2> QED BY <1>4, <2>2, <2>3 DEF DestroyCloud, TypeOK
  <1>5. CASE DestroyRow(d)
    <2>1. /\ rows' \in [NodeIds -> Row \cup {NoRow}]
          /\ subnets' \in [NodeIds -> Subnets \cup {None}]
      BY <1>5 DEF DestroyRow, DeleteRow, TypeOK
    <2> QED BY <1>1, <1>5, <2>1 DEF DestroyRow, TypeOK
  <1> QED BY <1>2, <1>3, <1>4, <1>5 DEF DestroyStep

\* A destroyer may be handed any set of nodes.
LEMMA ListType ==
  ASSUME TypeOK, NEW d \in AllDestroyers, NEW todo \in SUBSET NodeIds
  PROVE  [destroyer EXCEPT ![d].todo = todo] \in [AllDestroyers -> DestroyerFrame]
  <1>1. destroyer \in [AllDestroyers -> DestroyerFrame] /\ destroyer[d] \in DestroyerFrame
    BY DEF TypeOK
  <1>2. [destroyer[d] EXCEPT !.todo = todo] \in DestroyerFrame
    BY <1>1 DEF DestroyerFrame
  <1> QED BY <1>1, <1>2

\* Every step of a health check preserves the types.
LEMMA CheckType ==
  ASSUME TypeOK, NEW c \in Checkers, ListActiveNode(c) \/ CheckStep(c)
  PROVE  TypeOK'
  <1>0. /\ checker \in [Checkers -> CheckerFrame]
        /\ checker[c] \in CheckerFrame
    BY DEF TypeOK
  <1>1. ASSUME EndCheck(c)
        PROVE  checker' \in [Checkers -> CheckerFrame]
    BY <1>0, <1>1, IdleTypes DEF EndCheck
  <1>2. CASE ListActiveNode(c)
    <2>1. \A n \in NodeIds :
            [checker[c] EXCEPT !.pc = "read", !.node = n] \in CheckerFrame
      BY <1>0 DEF CheckerFrame
    <2>2. checker' \in [Checkers -> CheckerFrame]
      BY <1>0, <1>2, <2>1 DEF ListActiveNode
    <2> QED BY <1>2, <2>2 DEF ListActiveNode, TypeOK
  <1>3. CASE CheckRead(c)
    <2>1. \A s \in Status \cup {"none"} :
            [checker[c] EXCEPT !.pc = "probe", !.was = s] \in CheckerFrame
      BY <1>0, <1>3 DEF CheckRead, CheckerFrame
    <2>2. checker[c].node \in NodeIds
      BY <1>0, <1>3 DEF CheckRead, CheckerFrame
    <2>3. rows[checker[c].node].status \in Status \cup {"none"}
      BY <2>2 DEF TypeOK, Row, NoRow
    <2>4. checker' \in [Checkers -> CheckerFrame]
      BY <1>0, <1>1, <1>3, <2>1, <2>3 DEF CheckRead
    <2> QED BY <1>3, <2>4 DEF CheckRead, TypeOK
  <1>4. CASE CheckProbe(c)
    <2>1. \A v \in {"active", "unhealthy"} :
            [checker[c] EXCEPT !.pc = "reread", !.was = "none", !.verdict = v]
                \in CheckerFrame
      BY <1>0, <1>4 DEF CheckProbe, CheckerFrame
    <2>2. checker' \in [Checkers -> CheckerFrame]
      BY <1>0, <1>1, <1>4, <2>1 DEF CheckProbe
    <2> QED BY <1>4, <2>2 DEF CheckProbe, TypeOK
  <1>5. CASE CheckReread(c)
    <2>1. \A b \in BOOLEAN :
            [checker[c] EXCEPT !.pc = "write", !.server = b] \in CheckerFrame
      BY <1>0, <1>5 DEF CheckReread, CheckerFrame
    <2>2. checker[c].node \in NodeIds
      BY <1>0, <1>5 DEF CheckReread, CheckerFrame
    <2>3. HasRow(checker[c].node) => rows[checker[c].node].server \in BOOLEAN
      BY <2>2, ListedRow
    <2>4. checker' \in [Checkers -> CheckerFrame]
      BY <1>0, <1>1, <1>5, <2>1, <2>3 DEF CheckReread
    <2> QED BY <1>5, <2>4 DEF CheckReread, TypeOK
  <1>6. CASE CheckWrite(c)
    <2>1. /\ checker[c].node \in NodeIds
          /\ checker[c].verdict \in Status
          /\ checker[c].server \in BOOLEAN
      BY <1>0, <1>6 DEF CheckWrite, CheckerFrame, Status
    <2>2. rows' \in [NodeIds -> Row \cup {NoRow}]
      BY <1>6, <2>1, UpdateRowType DEF CheckWrite, TypeOK
    <2> QED BY <1>1, <1>6, <2>2 DEF CheckWrite, TypeOK
  <1> QED BY <1>2, <1>3, <1>4, <1>5, <1>6 DEF CheckStep

\* A new process starts with empty memory.
LEMMA RestartType ==
  ASSUME TypeOK, Restart
  PROVE  TypeOK'
  <1>1. Returned("dead") \in Job
    BY ReturnedType DEF Phases
  <1>2. job' \in [NodeIds -> Job]
    BY <1>1 DEF Restart, TypeOK
  <1>3. tracker' \in [Requests \cup NodeIds -> Entry]
    BY DEF Restart, TypeOK, Entry
  <1>4. /\ destroyer' \in [AllDestroyers -> DestroyerFrame]
        /\ checker' \in [Checkers -> CheckerFrame]
        /\ cleaner' \in [Cleaners -> SUBSET NodeIds]
    BY IdleTypes DEF Restart
  <1> QED BY <1>2, <1>3, <1>4 DEF Restart, TypeOK, SvcStates

\* The service starts typed.
LEMMA InitType == Init => TypeOK
  <1> SUFFICES ASSUME Init PROVE TypeOK
    OBVIOUS
  <1>1. NewJob \in Job
    BY DEF NewJob, Job, Phases
  <1> QED BY <1>1, IdleTypes DEF Init, TypeOK, Entry, SvcStates

\* Every step of the service preserves the types.
LEMMA NextType == TypeOK /\ [Next]_vars => TypeOK'
  <1> SUFFICES ASSUME TypeOK, [Next]_vars PROVE TypeOK'
    OBVIOUS
  <1>1. ASSUME NEW r \in Requests, handleProvisionRequest(r)
        PROVE  TypeOK'
    <2>1. tracker' \in [Requests \cup NodeIds -> Entry]
      BY <1>1 DEF handleProvisionRequest, handleProvisionRequested, TypeOK, Entry
    <2>2. job' \in [NodeIds -> Job]
      BY <1>1, GotoType DEF handleProvisionRequest, TypeOK, Phases
    <2> QED BY <1>1, <2>1, <2>2 DEF handleProvisionRequest, TypeOK
  <1>2. ASSUME NEW r \in Requests, RequestAges(r)
        PROVE  TypeOK'
    BY <1>2 DEF RequestAges, TypeOK, Entry
  <1>3. ASSUME NEW n \in NodeIds, ProvisionStep(n)
        PROVE  TypeOK'
    BY <1>3, ProvisionType
  <1>4. ASSUME NEW n \in NodeIds, Expire(n)
        PROVE  TypeOK'
    BY <1>4, FrameType DEF Expire, TypeOK
  <1>5. ASSUME NEW d \in Destroyers, ListOrphanedNodes(d)
        PROVE  TypeOK'
    <2>1. PICK todo \in SUBSET NodeIds :
              destroyer' = [destroyer EXCEPT ![d].todo = todo]
      BY <1>5 DEF ListOrphanedNodes
    <2>2. destroyer' \in [AllDestroyers -> DestroyerFrame]
      BY <2>1, ListType DEF AllDestroyers
    <2> QED BY <1>5, <2>2 DEF ListOrphanedNodes, TypeOK
  <1>6. ASSUME NEW d \in AllDestroyers, DestroyStep(d)
        PROVE  TypeOK'
    BY <1>6, DestroyType
  <1>7. ASSUME NEW c \in Checkers, ListActiveNode(c) \/ CheckStep(c)
        PROVE  TypeOK'
    BY <1>7, CheckType
  <1>8. ASSUME NEW c \in Cleaners, ListUnusedSubnets(c)
        PROVE  TypeOK'
    BY <1>8 DEF ListUnusedSubnets, TypeOK
  <1>9. ASSUME NEW c \in Cleaners, ReleaseUnusedSubnet(c)
        PROVE  TypeOK'
    BY <1>9 DEF ReleaseUnusedSubnet, TypeOK
  <1>10. CASE Stop
    BY <1>10 DEF Stop, TypeOK, SvcStates
  <1>11. CASE cleanupActiveNodes
    <2>1. destroyer' \in [AllDestroyers -> DestroyerFrame]
      <3>1. CASE destroyer' = [destroyer EXCEPT ![Shutdown].todo =
                                              {n \in NodeIds : HasRow(n)}]
        BY <3>1, ListType DEF AllDestroyers
      <3>2. CASE UNCHANGED destroyer
        BY <3>2 DEF TypeOK
      <3> QED BY <1>11, <3>1, <3>2 DEF cleanupActiveNodes
    <2> QED BY <1>11, <2>1 DEF cleanupActiveNodes, TypeOK, SvcStates
  <1>12. CASE CloseEventBus
    BY <1>12 DEF CloseEventBus, TypeOK, SvcStates
  <1>13. CASE CloseStore
    BY <1>13 DEF CloseStore, TypeOK, SvcStates
  <1>14. CASE Exit \/ Crash
    BY <1>14, RestartType DEF Exit, Crash
  <1>15. CASE UNCHANGED vars
    BY <1>15 DEF vars, TypeOK
  <1> QED
    BY <1>1, <1>2, <1>3, <1>4, <1>5, <1>6, <1>7, <1>8, <1>9, <1>10, <1>11,
       <1>12, <1>13, <1>14, <1>15 DEF Next

\* Type correctness of the node lifecycle: every table, every frame of every
\* goroutine and the tracker keep their types, under every fault.
THEOREM TypeCorrect == Spec => []TypeOK
  BY InitType, NextType, PTL DEF Spec

-----------------------------------------------------------------------------
(***************************************************************************)
(* NodeLifecycle implements NodeTables, under every fault; and what        *)
(* follows for the two tables.                                             *)
(***************************************************************************)

tableVars == <<rows, subnets, Named>>

\* The instance's copy of NodeStatus is NodeStatus.
LEMMA SameStatus ==
  Tables!NoRow = NoRow /\ Tables!NewNode = NewNode /\ Tables!Status = Status
  BY DEF Tables!NoRow, Tables!NewNode, Tables!Status, NoRow, NewNode, Status

\* Reading or writing in memory is a stutter of the tables.
LEMMA NoTableChange ==
  ASSUME UNCHANGED <<rows, subnets>>, Named \subseteq Named'
  PROVE  [Tables!Next]_tableVars
  BY DEF Tables!Next, tableVars

\* An UPDATE is an Update of an existing row or changes nothing.
LEMMA UpdateRefines ==
  ASSUME TypeOK, NEW n \in NodeIds, NEW s \in Status, NEW b \in BOOLEAN,
         UpdateRow(n, s, b), UNCHANGED subnets, Named \subseteq Named'
  PROVE  [Tables!Next]_tableVars
  <1>1. CASE HasRow(n)
    <2>1. Tables!Update(n, s, b)
      BY <1>1, SameStatus DEF UpdateRow, HasRow, Tables!Update
    <2> QED BY <2>1, SameStatus DEF Tables!Next
  <1>2. CASE ~HasRow(n)
    BY <1>2, NoTableChange DEF UpdateRow
  <1> QED BY <1>1, <1>2

\* A DELETE of a node with its cascade is a Delete.
LEMMA DeleteRefines ==
  ASSUME NEW n \in NodeIds, DeleteRow(n), Named \subseteq Named'
  PROVE  [Tables!Next]_tableVars
  <1>1. Tables!Delete(n)
    BY SameStatus DEF DeleteRow, Tables!Delete
  <1> QED BY <1>1 DEF Tables!Next

\* A DELETE of a subnet row is a Release.
LEMMA ReleaseRefines ==
  ASSUME NEW n \in NodeIds, subnets' = [subnets EXCEPT ![n] = None],
         UNCHANGED rows, Named \subseteq Named'
  PROVE  [Tables!Next]_tableVars
  <1>1. Tables!Release(n)
    BY DEF Tables!Release
  <1> QED BY <1>1 DEF Tables!Next

\* Whatever changes job[n] alone and leaves it past the insertion keeps all
\* names.
LEMMA NamedJob ==
  ASSUME TypeOK, NEW n \in NodeIds,
         \A m \in NodeIds : m # n => job'[m] = job[m],
         n \in Named => job'[n].pc \notin {"idle", "start", "record"}
  PROVE  Named \subseteq Named'
  BY DEF Named

\* A step of one attempt leaves the frames of the others alone.
LEMMA GotoOther ==
  ASSUME TypeOK, NEW n \in NodeIds, NEW p, Goto(n, p) \/ Return(n, p)
  PROVE  /\ \A m \in NodeIds : m # n => job'[m] = job[m]
         /\ job'[n].pc = p
  <1>1. job \in [NodeIds -> Job] /\ job[n] \in Job
    BY DEF TypeOK
  <1>2. CASE Goto(n, p)
    BY <1>1, <1>2 DEF Goto, Job
  <1>3. CASE Return(n, p)
    <2>1. Returned(p).pc = p
      BY DEF Returned, NewJob
    <2> QED BY <1>1, <1>3, <2>1 DEF Return
  <1> QED BY <1>2, <1>3

\* An attempt that moves on past the insertion stays past it.
LEMMA NamedGoto ==
  ASSUME TypeOK, NEW n \in NodeIds, NEW p, Goto(n, p) \/ Return(n, p),
         p \in {"idle", "start", "record"} => n \notin Named
  PROVE  Named \subseteq Named'
  BY GotoOther, NamedJob

\* An attempt that fails stays past the insertion.
LEMMA NamedFail ==
  ASSUME TypeOK, NEW n \in NodeIds, FailStep(n)
  PROVE  Named \subseteq Named'
  <1> DEFINE pc == RollbackFrom(job[n])
  <1>1. pc \in {"failed", "rbCloud", "rbSubnet", "rbRow"}
    BY RollbackFromType
  <1>2. Return(n, pc) \/ Goto(n, pc)
    BY DEF FailStep
  <1> QED BY <1>1, <1>2, NamedGoto

\* Every step of provisionNode is a step of the tables or a stutter.
LEMMA ProvisionRefines ==
  ASSUME TypeOK, NEW n \in NodeIds, ProvisionStep(n)
  PROVE  [Tables!Next]_tableVars
  <1> USE DEF At
  <1>0. ASSUME NEW p \in Phases \ {"idle", "start", "record"},
               Goto(n, p) \/ Return(n, p)
        PROVE  Named \subseteq Named'
    BY <1>0, NamedGoto
  <1> USE DEF Phases
  <1>1. CASE reportPhaseStart(n)
    <2>1. n \notin Named
      BY <1>1 DEF reportPhaseStart, Named
    <2> QED BY <1>1, <2>1, NamedGoto, NoTableChange DEF reportPhaseStart
  <1>2. CASE createProvisioningRecord(n)
    <2>1. CASE CreateRow(n) /\ Goto(n, "subnet")
      <3>1. n \notin Named /\ n \in Named'
        BY <1>2, <2>1, GotoOther DEF createProvisioningRecord, Named
      <3>2. Tables!Create(n)
        BY <1>2, <2>1, <3>1, SameStatus DEF createProvisioningRecord, CreateRow, Tables!Create
      <3> QED BY <1>0, <2>1, <3>2 DEF Tables!Next
    <2>2. CASE UNCHANGED rows /\ Return(n, "failed")
      BY <1>0, <1>2, <2>2, NoTableChange DEF createProvisioningRecord
    <2> QED BY <1>2, <2>1, <2>2 DEF createProvisioningRecord
  <1>3. CASE FindSubnet(n)
    <2>1. CASE FailStep(n)
      BY <1>3, <2>1, NamedFail, NoTableChange DEF FindSubnet
    <2>2. CASE job' = [job EXCEPT ![n].pick = FindNextAvailableSubnet,
                                  ![n].pc = "store"]
      <3>1. job \in [NodeIds -> Job] /\ job[n] \in Job
        BY DEF TypeOK
      <3>2. Named \subseteq Named'
        BY <2>2, <3>1, NamedJob DEF Job
      <3> QED BY <1>3, <3>2, NoTableChange DEF FindSubnet
    <2> QED BY <1>3, <2>1, <2>2 DEF FindSubnet
  <1>4. CASE CreateSubnet(n)
    <2>1. CASE FailStep(n) /\ UNCHANGED subnets
      BY <1>4, <2>1, NamedFail, NoTableChange DEF CreateSubnet
    <2>2. CASE /\ CanStore(n, job[n].pick)
               /\ subnets' = [subnets EXCEPT ![n] = job[n].pick]
               /\ job' = [job EXCEPT ![n].subnet = TRUE, ![n].pc = "cloud"]
      <3>1. job \in [NodeIds -> Job] /\ job[n] \in Job
            /\ job[n].pick \in Subnets \cup {None}
        BY DEF TypeOK, Job
      <3>2. Named \subseteq Named'
        BY <2>2, <3>1, NamedJob DEF Job
      <3>3. CASE job[n].pick = None
        BY <1>4, <2>2, <3>2, <3>3, ReleaseRefines DEF CreateSubnet
      <3>4. CASE job[n].pick \in Subnets
        <4>1. \A m \in NodeIds : subnets[m] # job[n].pick
          BY <2>2, <3>4 DEF CanStore, Used, Subnets, None
        <4>2. Tables!Store(n, job[n].pick)
          BY <1>4, <2>2, <4>1, SameStatus DEF CreateSubnet, CanStore, HasRow, Tables!Store
        <4> QED BY <3>2, <3>4, <4>2 DEF Tables!Next
      <3> QED BY <3>1, <3>3, <3>4
    <2> QED BY <1>4, <2>1, <2>2 DEF CreateSubnet
  <1>5. CASE CreateServer(n)
    BY <1>0, <1>5, NamedFail, NoTableChange DEF CreateServer
  <1>6. CASE performHealthChecks(n)
    <2>1. CASE Goto(n, "undo")
      BY <1>0, <1>6, <2>1, NoTableChange DEF performHealthChecks
    <2>2. CASE job' = [job EXCEPT ![n].cloud = TRUE, ![n].pc = "details"]
      <3>1. job \in [NodeIds -> Job] /\ job[n] \in Job
        BY DEF TypeOK
      <3>2. Named \subseteq Named'
        BY <2>2, <3>1, NamedJob DEF Job
      <3> QED BY <1>6, <3>2, NoTableChange DEF performHealthChecks
    <2> QED BY <1>6, <2>1, <2>2 DEF performHealthChecks
  <1>7. CASE UndoServer(n)
    BY <1>7, NamedFail, NoTableChange DEF UndoServer
  <1>8. CASE updateNodeDetails(n)
    BY <1>0, <1>8, NamedFail, NoTableChange, UpdateRefines
       DEF updateNodeDetails, Status
  <1>9. CASE waitForNodeReadiness(n)
    BY <1>0, <1>9, NamedFail, NoTableChange DEF waitForNodeReadiness
  <1>10. CASE activateNode(n)
    BY <1>0, <1>10, NamedFail, NoTableChange, UpdateRefines
       DEF activateNode, Status
  <1>11. CASE PublishProvisionCompleted(n)
    BY <1>0, <1>11, NoTableChange DEF PublishProvisionCompleted
  <1>12. CASE RollbackCloud(n)
    BY <1>0, <1>12, NoTableChange DEF RollbackCloud
  <1>13. CASE RollbackSubnet(n)
    BY <1>0, <1>13, NoTableChange, ReleaseRefines DEF RollbackSubnet
  <1>14. CASE RollbackRow(n)
    BY <1>0, <1>14, NoTableChange, DeleteRefines DEF RollbackRow
  <1> QED
    BY <1>1, <1>2, <1>3, <1>4, <1>5, <1>6, <1>7, <1>8, <1>9, <1>10, <1>11,
       <1>12, <1>13, <1>14 DEF ProvisionStep

\* Every step of DestroyNode is a step of the tables or a stutter.
LEMMA DestroyRefines ==
  ASSUME TypeOK, NEW d \in AllDestroyers, DestroyStep(d)
  PROVE  [Tables!Next]_tableVars
  <1>0. Named \subseteq Named'
    BY DEF DestroyStep, DestroyRead, DestroySave, DestroyCloud, DestroyRow, Named
  <1>1. destroyer[d] \in DestroyerFrame
    BY DEF TypeOK
  <1>2. CASE DestroyRead(d)
    BY <1>0, <1>2, NoTableChange DEF DestroyRead
  <1>3. CASE DestroySave(d)
    <2>1. destroyer[d].node \in NodeIds /\ destroyer[d].server \in BOOLEAN
      BY <1>1, <1>3 DEF DestroySave, DestroyerFrame
    <2> QED BY <1>0, <1>3, <2>1, NoTableChange, UpdateRefines
            DEF DestroySave, Status
  <1>4. CASE DestroyCloud(d)
    BY <1>0, <1>4, NoTableChange DEF DestroyCloud
  <1>5. CASE DestroyRow(d)
    <2>1. destroyer[d].node \in NodeIds
      BY <1>1, <1>5 DEF DestroyRow, DestroyerFrame
    <2> QED BY <1>0, <1>5, <2>1, NoTableChange, DeleteRefines DEF DestroyRow
  <1> QED BY <1>2, <1>3, <1>4, <1>5 DEF DestroyStep

\* Every step of a health check is a step of the tables or a stutter.
LEMMA CheckRefines ==
  ASSUME TypeOK, NEW c \in Checkers, ListActiveNode(c) \/ CheckStep(c)
  PROVE  [Tables!Next]_tableVars
  <1>0. Named \subseteq Named'
    BY DEF ListActiveNode, CheckStep, CheckRead, CheckProbe, CheckReread,
           CheckWrite, Named
  <1>1. CASE CheckWrite(c)
    <2>1. /\ checker[c].node \in NodeIds
          /\ checker[c].verdict \in Status
          /\ checker[c].server \in BOOLEAN
      BY <1>1 DEF CheckWrite, CheckerFrame, Status, TypeOK
    <2> QED BY <1>0, <1>1, <2>1, NoTableChange, UpdateRefines DEF CheckWrite
  <1>2. CASE ListActiveNode(c) \/ CheckRead(c) \/ CheckProbe(c) \/ CheckReread(c)
    BY <1>0, <1>2, NoTableChange
       DEF ListActiveNode, CheckRead, CheckProbe, CheckReread
  <1> QED BY <1>1, <1>2 DEF CheckStep

\* Every step of the lifecycle is a step of the tables or a stutter.
LEMMA StepRefines == TypeOK /\ [Next]_vars => [Tables!Next]_tableVars
  <1> SUFFICES ASSUME TypeOK, [Next]_vars PROVE [Tables!Next]_tableVars
    OBVIOUS
  <1>1. ASSUME NEW r \in Requests, handleProvisionRequest(r)
        PROVE  [Tables!Next]_tableVars
    <2>1. CASE UNCHANGED job
      BY <1>1, <2>1, NoTableChange DEF handleProvisionRequest, Named
    <2>2. CASE \E n \in NodeIds : At(n, "idle") /\ Goto(n, "start")
      <3>1. PICK n \in NodeIds : At(n, "idle") /\ Goto(n, "start")
        BY <2>2
      <3>2. n \notin Named
        BY <3>1 DEF At, Named
      <3>3. Named \subseteq Named'
        BY <3>1, <3>2, NamedGoto
      <3> QED BY <1>1, <3>3, NoTableChange DEF handleProvisionRequest
    <2> QED BY <1>1, <2>1, <2>2 DEF handleProvisionRequest
  <1>2. ASSUME NEW r \in Requests, RequestAges(r)
        PROVE  [Tables!Next]_tableVars
    BY <1>2, NoTableChange DEF RequestAges, Named
  <1>3. ASSUME NEW n \in NodeIds, ProvisionStep(n)
        PROVE  [Tables!Next]_tableVars
    BY <1>3, ProvisionRefines
  <1>4. ASSUME NEW n \in NodeIds, Expire(n)
        PROVE  [Tables!Next]_tableVars
    <2>1. job \in [NodeIds -> Job] /\ job[n] \in Job
      BY DEF TypeOK
    <2>2. /\ \A m \in NodeIds : m # n => job'[m] = job[m]
          /\ job'[n].pc = job[n].pc
      BY <1>4, <2>1 DEF Expire, Job
    <2>3. Named \subseteq Named'
      BY <2>2 DEF Named
    <2> QED BY <1>4, <2>3, NoTableChange DEF Expire
  <1>5. ASSUME NEW d \in Destroyers, ListOrphanedNodes(d)
        PROVE  [Tables!Next]_tableVars
    BY <1>5, NoTableChange DEF ListOrphanedNodes, Named
  <1>6. ASSUME NEW d \in AllDestroyers, DestroyStep(d)
        PROVE  [Tables!Next]_tableVars
    BY <1>6, DestroyRefines
  <1>7. ASSUME NEW c \in Checkers, ListActiveNode(c) \/ CheckStep(c)
        PROVE  [Tables!Next]_tableVars
    BY <1>7, CheckRefines
  <1>8. ASSUME NEW c \in Cleaners, ListUnusedSubnets(c)
        PROVE  [Tables!Next]_tableVars
    BY <1>8, NoTableChange DEF ListUnusedSubnets, Named
  <1>9. ASSUME NEW c \in Cleaners, ReleaseUnusedSubnet(c)
        PROVE  [Tables!Next]_tableVars
    <2>1. Named \subseteq Named'
      BY <1>9 DEF ReleaseUnusedSubnet, Named
    <2>2. PICK n \in cleaner[c] :
            \/ subnets' = [subnets EXCEPT ![n] = None]
            \/ UNCHANGED subnets
      BY <1>9 DEF ReleaseUnusedSubnet
    <2>3. n \in NodeIds
      BY <2>2 DEF TypeOK
    <2> QED BY <1>9, <2>1, <2>2, <2>3, NoTableChange, ReleaseRefines
            DEF ReleaseUnusedSubnet
  <1>10. CASE Stop \/ cleanupActiveNodes \/ CloseEventBus \/ CloseStore
    BY <1>10, NoTableChange
       DEF Stop, cleanupActiveNodes, CloseEventBus, CloseStore, Named
  <1>11. CASE Exit \/ Crash
    <2>1. Restart
      BY <1>11 DEF Exit, Crash
    <2>2. Returned("dead").pc = "dead"
      BY DEF Returned, NewJob
    <2>3. Named \subseteq Named'
      BY <2>1, <2>2 DEF Restart, Named, InFlight
    <2> QED BY <2>1, <2>3, NoTableChange DEF Restart
  <1>12. CASE UNCHANGED vars
    BY <1>12 DEF vars, tableVars, Named
  <1> QED
    BY <1>1, <1>2, <1>3, <1>4, <1>5, <1>6, <1>7, <1>8, <1>9, <1>10, <1>11,
       <1>12 DEF Next

\* The service starts with empty tables and no id used.
LEMMA InitRefines == Init => Tables!Init
  BY SameStatus DEF Init, Tables!Init, Named, NewJob

\* The lifecycle, all goroutines and every fault included, implements the
\* table specification: no id is inserted twice or revived by a late UPDATE,
\* no subnet row outlives its node or repeats a subnet.
THEOREM LifecycleImplementsTables == Spec => ImplementsTables
  BY InitRefines, StepRefines, TypeCorrect, PTL
     DEF Spec, ImplementsTables, Tables!Spec, tableVars
-----------------------------------------------------------------------------
\* A step of the tables keeps foreign key and uniqueness.
LEMMA TablesKeepSound ==
  TypeOK /\ SubnetTableSound /\ [Tables!Next]_tableVars => SubnetTableSound'
  <1> SUFFICES ASSUME TypeOK, SubnetTableSound, [Tables!Next]_tableVars
               PROVE  SubnetTableSound'
    OBVIOUS
  <1> USE SameStatus DEF SubnetTableSound, HasRow, TypeOK
  <1>1. CASE UNCHANGED tableVars \/ UNCHANGED <<rows, subnets>>
    BY <1>1 DEF tableVars
  <1>2. ASSUME NEW n \in NodeIds, Tables!Create(n)
        PROVE  SubnetTableSound'
    BY <1>2 DEF Tables!Create, NewNode, NoRow
  <1>3. ASSUME NEW n \in NodeIds, Tables!Delete(n)
        PROVE  SubnetTableSound'
    BY <1>3 DEF Tables!Delete
  <1>4. ASSUME NEW n \in NodeIds, Tables!Release(n)
        PROVE  SubnetTableSound'
    BY <1>4 DEF Tables!Release
  <1>5. ASSUME NEW n \in NodeIds, NEW s \in Status, NEW b \in BOOLEAN,
               Tables!Update(n, s, b)
        PROVE  SubnetTableSound'
    BY <1>5 DEF Tables!Update, NoRow, Status
  <1>6. ASSUME NEW n \in NodeIds, NEW s \in Subnets, Tables!Store(n, s)
        PROVE  SubnetTableSound'
    BY <1>6 DEF Tables!Store
  <1> QED BY <1>1, <1>2, <1>3, <1>4, <1>5, <1>6 DEF Tables!Next

\* Under every fault, node_subnets keeps its foreign key and no two nodes
\* hold the same subnet.
THEOREM SubnetsSound == Spec => []SubnetTableSound
  <1>1. Init => SubnetTableSound
    BY DEF Init, SubnetTableSound
  <1>2. TypeOK /\ SubnetTableSound /\ [Next]_vars => SubnetTableSound'
    BY StepRefines, TablesKeepSound
  <1> QED BY <1>1, <1>2, TypeCorrect, PTL DEF Spec

\* Under every fault, a node row that is gone never comes back.
THEOREM DeletedStaysDeleted == Spec => NoResurrection
  <1> DEFINE Gone == \A n \in Named : ~HasRow(n) => rows'[n] = NoRow
  <1>1. TypeOK /\ [Next]_vars => [Gone]_vars
    <2> SUFFICES ASSUME TypeOK, [Tables!Next]_tableVars, NEW n \in Named,
                        ~HasRow(n)
                 PROVE  rows'[n] = NoRow
      BY StepRefines
    <2> USE SameStatus DEF HasRow, TypeOK, Named
    <2>1. CASE UNCHANGED tableVars \/ UNCHANGED <<rows, subnets>>
      BY <2>1 DEF tableVars
    <2>2. ASSUME NEW m \in NodeIds,
                 Tables!Create(m) \/ Tables!Delete(m) \/ Tables!Release(m)
          PROVE  rows'[n] = NoRow
      BY <2>2 DEF Tables!Create, Tables!Delete, Tables!Release
    <2>3. ASSUME NEW m \in NodeIds, NEW s, NEW b, Tables!Update(m, s, b)
          PROVE  rows'[n] = NoRow
      BY <2>3 DEF Tables!Update
    <2>4. ASSUME NEW m \in NodeIds, NEW s, Tables!Store(m, s)
          PROVE  rows'[n] = NoRow
      BY <2>4 DEF Tables!Store
    <2> QED BY <2>1, <2>2, <2>3, <2>4 DEF Tables!Next
  <1> QED BY <1>1, TypeCorrect, PTL DEF Spec, NoResurrection
=============================================================================
