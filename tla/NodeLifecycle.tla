---------------------------- MODULE NodeLifecycle ----------------------------
(***************************************************************************)
(* The life of VPN nodes: everything in the rotator that creates, changes  *)
(* or removes a row of "nodes", a row of "node_subnets" or a cloud server. *)
(*                                                                         *)
(*   job        ProvisioningService.provisionNode, one attempt per node id *)
(*   destroyer  node.Service.DestroyNode, called for a list of nodes by    *)
(*              cleanupOrphanedNodes and by the shutdown                   *)
(*   checker    node.Service.CheckNodeHealth / UpdateNodeStatus            *)
(*   cleaner    ResourceCleanupService.cleanupUnusedSubnets                *)
(*   svc        Service.Stop, and the process ending                       *)
(*                                                                         *)
(* They run in goroutines of one process and share only the database and   *)
(* the cloud.  One action is one database call, one cloud call or one      *)
(* remote call, with the local work that follows it up to the next call.   *)
(***************************************************************************)
EXTENDS Integers, FiniteSets, NodeStatus, ProvisioningTracker

CONSTANTS
    NodeIds,          \* node ids; each attempt takes one that was never used
    Requests,         \* request ids of provision.requested events
    NumSubnets,       \* IPConfig.MaxSubnets()
    Destroyers,       \* concurrent runs of cleanupOrphanedNodes
    Shutdown,         \* the run of cleanupActiveNodes
    Checkers,         \* concurrent health checks
    Cleaners,         \* concurrent runs of cleanupUnusedSubnets
    CleanupOnFailure, \* the configuration switch of the same name
    Faults            \* what the environment may do, a subset of AllFaults

(***************************************************************************)
(*   create   Hetzner refuses to create a server                           *)
(*   lost     Hetzner creates it, the answer is an error                   *)
(*   boot     the server never passes performHealthChecks                  *)
(*   unready  the node is not healthy within ReadinessTimeout              *)
(*   destroy  Hetzner fails to delete a server                             *)
(*   db       a database call fails                                        *)
(*   timeout  ProvisioningTimeout expires                                  *)
(*   crash    the process dies and is started again                        *)
(*   stop     the service is asked to stop                                 *)
(***************************************************************************)
AllFaults == {"create", "lost", "boot", "unready", "destroy", "db",
              "timeout", "crash", "stop"}

ASSUME ConstantsAssumption ==
    /\ NumSubnets \in Nat
    /\ Shutdown \notin Destroyers
    /\ NodeIds \cap Requests = {}
    /\ CleanupOnFailure \in BOOLEAN
    /\ Faults \subseteq AllFaults

Subnets == 0 .. (NumSubnets - 1)
None == -1

VARIABLES
    rows,      \* table nodes: NodeIds -> Row or NoRow
    subnets,   \* table node_subnets: NodeIds -> Subnets or None
    servers,   \* external: the subnet a running server was configured with
    tracker,   \* ProvisioningStateTracker.nodeStates
    job,       \* the stack frame of provisionNode and its rollback record
    destroyer, \* the stack frame of a DestroyNode loop
    checker,   \* the stack frame of CheckNodeHealth
    cleaner,   \* the nodes cleanupUnusedSubnets has still to release
    svc        \* how far Service.Stop has come

vars == <<rows, subnets, servers, tracker, job, destroyer, checker, cleaner,
          svc>>

Phases == {"idle", "start", "record", "subnet", "store", "cloud", "boot",
           "undo", "details", "readiness", "activate", "finish",
           "rbCloud", "rbSubnet", "rbRow", "done", "failed", "dead"}
Ended == {"done", "failed", "dead"}
InFlight == Phases \ (Ended \cup {"idle"})

\* pick: the subnet found; subnet, cloud: rollback.allocated; expired:
\* provisioningCtx is done.
Job == [pc : Phases, pick : Subnets \cup {None}, subnet : BOOLEAN,
        cloud : BOOLEAN, expired : BOOLEAN]
NewJob == [pc |-> "idle", pick |-> None, subnet |-> FALSE, cloud |-> FALSE,
           expired |-> FALSE]
\* What is left of a frame that has returned.
Returned(pc) == [NewJob EXCEPT !.pc = pc]

AllDestroyers == Destroyers \cup {Shutdown}
DestroyerFrame ==
    {f \in [pc : {"idle", "save", "cloud", "delete"}, todo : SUBSET NodeIds,
            node : NodeIds \cup {"none"}, server : BOOLEAN] :
        f.pc # "idle" => f.node \in NodeIds}
IdleDestroyer == [pc |-> "idle", todo |-> {}, node |-> "none", server |-> FALSE]
CheckerFrame ==
    {f \in [pc : {"idle", "read", "probe", "reread", "write"},
            node : NodeIds \cup {"none"}, was : Status \cup {"none"},
            verdict : {"active", "unhealthy", "none"}, server : BOOLEAN] :
        /\ f.pc # "idle" => f.node \in NodeIds
        /\ f.pc \in {"reread", "write"} => f.verdict # "none"}
IdleChecker == [pc |-> "idle", node |-> "none", was |-> "none",
                verdict |-> "none", server |-> FALSE]

SvcStates == {"running", "stopping", "destroying", "busClosed", "storeClosed"}

TypeOK ==
    /\ rows \in [NodeIds -> Row \cup {NoRow}]
    /\ subnets \in [NodeIds -> Subnets \cup {None}]
    /\ servers \in [NodeIds -> Subnets \cup {None}]
    /\ tracker \in [Requests \cup NodeIds -> Entry]
    /\ job \in [NodeIds -> Job]
    /\ destroyer \in [AllDestroyers -> DestroyerFrame]
    /\ checker \in [Checkers -> CheckerFrame]
    /\ cleaner \in [Cleaners -> SUBSET NodeIds]
    /\ svc \in SvcStates

Init ==
    /\ rows = [n \in NodeIds |-> NoRow]
    /\ subnets = [n \in NodeIds |-> None]
    /\ servers = [n \in NodeIds |-> None]
    /\ tracker = [k \in Requests \cup NodeIds |-> "absent"]
    /\ job = [n \in NodeIds |-> NewJob]
    /\ destroyer = [d \in AllDestroyers |-> IdleDestroyer]
    /\ checker = [c \in Checkers |-> IdleChecker]
    /\ cleaner = [c \in Cleaners |-> {}]
    /\ svc = "running"

-----------------------------------------------------------------------------
(***************************************************************************)
(* The repositories: what one statement does to the tables.                *)
(***************************************************************************)
HasRow(n) == rows[n] # NoRow

CreateRow(n) == rows' = [rows EXCEPT ![n] = NewNode]

(***************************************************************************)
(* UpdateNodeDetails writes the caller's copy whatever the row holds; when *)
(* there is no such row it changes nothing and reports no error (:exec).   *)
(***************************************************************************)
\* An upsert instead of an UPDATE.
BadUpdateRow(n, status, server) ==
    rows' = [rows EXCEPT ![n] = [status |-> status, server |-> server]]

UpdateRow(n, status, server) ==
    rows' = IF HasRow(n)
            THEN [rows EXCEPT ![n] = [status |-> status, server |-> server]]
            ELSE rows

\* Deleting a node without ON DELETE CASCADE on its subnet.
BadDeleteRow(n) ==
    /\ rows' = [rows EXCEPT ![n] = NoRow]
    /\ UNCHANGED subnets

DeleteRow(n) ==
    /\ rows' = [rows EXCEPT ![n] = NoRow]
    /\ subnets' = [subnets EXCEPT ![n] = None]

Used == {subnets[n] : n \in NodeIds} \ {None}

\* The index after the ones in use, counted from one.
BadFindNextAvailableSubnet == Cardinality(Used) + 1

\* The first index that is not in use (the loop over GenerateSubnetCIDR).
FindNextAvailableSubnet ==
    CHOOSE i \in Subnets \ Used : \A j \in Subnets \ Used : i <= j

\* INSERT into node_subnets: foreign key on nodes, UNIQUE subnet_cidr.
CanStore(n, s) == HasRow(n) /\ s \notin Used

StoreOpen == svc # "storeClosed"
BusOpen == svc \notin {"busClosed", "storeClosed"}

Publish(t) == tracker' = IF BusOpen THEN t ELSE tracker
-----------------------------------------------------------------------------
(***************************************************************************)
(* Provisioning.                                                           *)
(***************************************************************************)
DbWorks(n) == ~job[n].expired /\ StoreOpen
DbFails(n) == job[n].expired \/ ~StoreOpen \/ "db" \in Faults

At(n, pc) == job[n].pc = pc
Goto(n, pc) == job' = [job EXCEPT ![n].pc = pc]
Return(n, pc) == job' = [job EXCEPT ![n] = Returned(pc)]

\* Rollback undoes what the record says was allocated, the cloud first.
RollbackFrom(j) ==
    IF ~CleanupOnFailure THEN "failed"
    ELSE IF j.cloud THEN "rbCloud"
    ELSE IF j.subnet THEN "rbSubnet"
    ELSE "rbRow"

\* reportError, then performRollback.
FailStep(n) ==
    /\ Publish(handleProvisionFailed(tracker, n))
    /\ LET pc == RollbackFrom(job[n])
       IN  IF pc = "failed" THEN Return(n, pc) ELSE Goto(n, pc)

(***************************************************************************)
(* A provision.requested event: the tracker's handler, then the worker's,  *)
(* both inside Publish.  The worker reads IsProvisioning and starts a      *)
(* goroutine that has yet to send its first event.                         *)
(***************************************************************************)
handleProvisionRequest(r) ==
    /\ BusOpen
    /\ tracker' = handleProvisionRequested(tracker, r)
    /\ IF IsProvisioning(tracker)
       THEN UNCHANGED job
       ELSE \E n \in NodeIds : At(n, "idle") /\ Goto(n, "start")
    /\ UNCHANGED <<rows, subnets, servers, destroyer, checker, cleaner, svc>>

\* Five minutes pass since a request.
RequestAges(r) ==
    /\ tracker[r] = "requested"
    /\ tracker' = [tracker EXCEPT ![r] = "stale"]
    /\ UNCHANGED <<rows, subnets, servers, job, destroyer, checker, cleaner,
                   svc>>

reportPhaseStart(n) ==
    /\ At(n, "start")
    /\ IF BusOpen THEN tracker' \in handleProvisionProgress(tracker, n)
                  ELSE UNCHANGED tracker
    /\ Goto(n, "record")
    /\ UNCHANGED <<rows, subnets, servers, destroyer, checker, cleaner, svc>>

createProvisioningRecord(n) ==
    /\ At(n, "record")
    /\ \/ DbWorks(n) /\ CreateRow(n) /\ Goto(n, "subnet") /\ UNCHANGED tracker
       \/ /\ DbFails(n)
          /\ Publish(handleProvisionFailed(tracker, n))
          /\ Return(n, "failed")
          /\ UNCHANGED rows
    /\ UNCHANGED <<subnets, servers, destroyer, checker, cleaner, svc>>

\* AllocateNodeSubnet up to the choice.  The "node already has subnet" case
\* does not arise: the id is new.
FindSubnet(n) ==
    /\ At(n, "subnet")
    /\ \/ /\ DbWorks(n) /\ Subnets \ Used # {}
          /\ job' = [job EXCEPT ![n].pick = FindNextAvailableSubnet,
                                ![n].pc = "store"]
          /\ UNCHANGED tracker
       \/ DbFails(n) /\ FailStep(n)
       \/ DbWorks(n) /\ Subnets \subseteq Used /\ FailStep(n)
    /\ UNCHANGED <<rows, subnets, servers, destroyer, checker, cleaner, svc>>

\* CreateSubnet; another attempt may have stored the same choice meanwhile.
CreateSubnet(n) ==
    /\ At(n, "store")
    /\ \/ /\ DbWorks(n) /\ CanStore(n, job[n].pick)
          /\ subnets' = [subnets EXCEPT ![n] = job[n].pick]
          /\ job' = [job EXCEPT ![n].subnet = TRUE, ![n].pc = "cloud"]
          /\ UNCHANGED tracker
       \/ DbFails(n) /\ FailStep(n) /\ UNCHANGED subnets
       \/ /\ DbWorks(n) /\ ~CanStore(n, job[n].pick)
          /\ FailStep(n)
          /\ UNCHANGED subnets
    /\ UNCHANGED <<rows, servers, destroyer, checker, cleaner, svc>>

StartServer(n) == servers' = [servers EXCEPT ![n] = job[n].pick]
DeleteServer(n) == servers' = [servers EXCEPT ![n] = None]

\* HetznerProvisioner.ProvisionNode up to Server.Create; cloud-init carries
\* the subnet.
CreateServer(n) ==
    /\ At(n, "cloud")
    /\ \/ /\ ~job[n].expired
          /\ StartServer(n)
          /\ Goto(n, "boot")
          /\ UNCHANGED tracker
       \/ /\ job[n].expired \/ "create" \in Faults
          /\ FailStep(n)
          /\ UNCHANGED servers
       \/ "lost" \in Faults /\ StartServer(n) /\ FailStep(n)
    /\ UNCHANGED <<rows, subnets, destroyer, checker, cleaner, svc>>

\* performHealthChecks; it dials the server and never looks at the context.
performHealthChecks(n) ==
    /\ At(n, "boot")
    /\ \/ job' = [job EXCEPT ![n].cloud = TRUE, ![n].pc = "details"]
       \/ "boot" \in Faults /\ Goto(n, "undo")
    /\ UNCHANGED <<rows, subnets, servers, tracker, destroyer, checker,
                   cleaner, svc>>

\* A provisioner that leaves the failed server to its caller.
BadUndoServer(n) ==
    /\ At(n, "undo")
    /\ UNCHANGED servers
    /\ FailStep(n)
    /\ UNCHANGED <<rows, subnets, destroyer, checker, cleaner, svc>>

\* The provisioner's own clean-up of a server that never came up.  The
\* rollback does not know of this server.
UndoServer(n) ==
    /\ At(n, "undo")
    /\ \/ ~job[n].expired /\ DeleteServer(n)
       \/ (job[n].expired \/ "destroy" \in Faults) /\ UNCHANGED servers
    /\ FailStep(n)
    /\ UNCHANGED <<rows, subnets, destroyer, checker, cleaner, svc>>

updateNodeDetails(n) ==
    /\ At(n, "details")
    /\ \/ /\ DbWorks(n)
          /\ UpdateRow(n, "provisioning", TRUE)
          /\ Goto(n, "readiness")
          /\ UNCHANGED tracker
       \/ DbFails(n) /\ FailStep(n) /\ UNCHANGED rows
    /\ UNCHANGED <<subnets, servers, destroyer, checker, cleaner, svc>>

waitForNodeReadiness(n) ==
    /\ At(n, "readiness")
    /\ \/ /\ ~job[n].expired /\ servers[n] # None
          /\ Goto(n, "activate")
          /\ UNCHANGED tracker
       \/ /\ job[n].expired \/ servers[n] = None \/ "unready" \in Faults
          /\ FailStep(n)
    /\ UNCHANGED <<rows, subnets, servers, destroyer, checker, cleaner, svc>>

\* Activation of the record as it was created, without its server id.
BadActivateNode(n) ==
    /\ At(n, "activate")
    /\ DbWorks(n)
    /\ UpdateRow(n, "active", FALSE)
    /\ Goto(n, "finish")
    /\ UNCHANGED <<tracker, subnets, servers, destroyer, checker, cleaner, svc>>

activateNode(n) ==
    /\ At(n, "activate")
    /\ \/ /\ DbWorks(n)
          /\ UpdateRow(n, "active", TRUE)
          /\ Goto(n, "finish")
          /\ UNCHANGED tracker
       \/ DbFails(n) /\ FailStep(n) /\ UNCHANGED rows
    /\ UNCHANGED <<subnets, servers, destroyer, checker, cleaner, svc>>

PublishProvisionCompleted(n) ==
    /\ At(n, "finish")
    /\ Publish(handleProvisionCompleted(tracker, n))
    /\ Return(n, "done")
    /\ UNCHANGED <<rows, subnets, servers, destroyer, checker, cleaner, svc>>

\* provisioningRollback.execute: a step that fails is logged and skipped.
RollbackCloud(n) ==
    /\ At(n, "rbCloud")
    /\ \/ ~job[n].expired /\ DeleteServer(n)
       \/ (job[n].expired \/ "destroy" \in Faults) /\ UNCHANGED servers
    /\ Goto(n, IF job[n].subnet THEN "rbSubnet" ELSE "rbRow")
    /\ UNCHANGED <<rows, subnets, tracker, destroyer, checker, cleaner, svc>>

\* A rollback that retries the release until it succeeds.
BadRollbackSubnet(n) ==
    /\ At(n, "rbSubnet")
    /\ DbWorks(n)
    /\ subnets' = [subnets EXCEPT ![n] = None]
    /\ Goto(n, "rbRow")
    /\ UNCHANGED <<rows, servers, tracker, destroyer, checker, cleaner, svc>>

RollbackSubnet(n) ==
    /\ At(n, "rbSubnet")
    /\ \/ DbWorks(n) /\ subnets' = [subnets EXCEPT ![n] = None]
       \/ DbFails(n) /\ UNCHANGED subnets
    /\ Goto(n, "rbRow")
    /\ UNCHANGED <<rows, servers, tracker, destroyer, checker, cleaner, svc>>

RollbackRow(n) ==
    /\ At(n, "rbRow")
    /\ \/ DbWorks(n) /\ DeleteRow(n)
       \/ DbFails(n) /\ UNCHANGED <<rows, subnets>>
    /\ Return(n, "failed")
    /\ UNCHANGED <<servers, tracker, destroyer, checker, cleaner, svc>>

\* ProvisioningTimeout expires somewhere in the workflow, rollback included.
Expire(n) ==
    /\ "timeout" \in Faults
    /\ job[n].pc \in InFlight /\ ~job[n].expired
    /\ job' = [job EXCEPT ![n].expired = TRUE]
    /\ UNCHANGED <<rows, subnets, servers, tracker, destroyer, checker,
                   cleaner, svc>>

ProvisionStep(n) ==
    \/ reportPhaseStart(n)     \/ createProvisioningRecord(n)
    \/ FindSubnet(n)           \/ CreateSubnet(n)
    \/ CreateServer(n)         \/ performHealthChecks(n)
    \/ UndoServer(n)           \/ updateNodeDetails(n)
    \/ waitForNodeReadiness(n) \/ activateNode(n)
    \/ PublishProvisionCompleted(n)
    \/ RollbackCloud(n)        \/ RollbackSubnet(n) \/ RollbackRow(n)
-----------------------------------------------------------------------------
(***************************************************************************)
(* Callers other than the provisioning worker use the context of the       *)
(* scheduler or of an API request; the scheduler's is cancelled when the   *)
(* service stops.  The shutdown has a context of its own, whose deadline   *)
(* counts as fault "db" or "destroy".                                      *)
(***************************************************************************)
Cancelled(who) == svc # "running" /\ who # Shutdown
CallWorks == StoreOpen
CallFails(who) == Cancelled(who) \/ ~StoreOpen \/ "db" \in Faults
CloudFails(who) == Cancelled(who) \/ "destroy" \in Faults

\* cleanupOrphanedNodes lists active nodes and picks the ones without peers
\* that were last updated over an hour ago, while at least two other nodes
\* (of NodeIds or not) have peers.
ListOrphanedNodes(d) ==
    /\ svc = "running"
    /\ destroyer[d] = IdleDestroyer
    /\ \E todo \in SUBSET {n \in NodeIds : rows[n].status = "active"} \ {{}} :
           destroyer' = [destroyer EXCEPT ![d].todo = todo]
    /\ UNCHANGED <<rows, subnets, servers, tracker, job, checker, cleaner, svc>>

\* DestroyNode, GetByID and its validation; the loop goes on with the next
\* node when this one is refused.
DestroyRead(d) ==
    /\ destroyer[d].pc = "idle"
    /\ \E n \in destroyer[d].todo :
         \/ /\ CallWorks /\ HasRow(n) /\ ValidateForDestruction(rows[n])
            /\ CanTransitionTo(rows[n].status, "destroying")
            /\ destroyer' = [destroyer EXCEPT
                   ![d] = [pc |-> "save", todo |-> @.todo \ {n}, node |-> n,
                           server |-> rows[n].server]]
         \/ /\ \/ CallFails(d)
               \/ ~HasRow(n)
               \/ ~ValidateForDestruction(rows[n])
            /\ destroyer' = [destroyer EXCEPT ![d].todo = @ \ {n}]
    /\ UNCHANGED <<rows, subnets, servers, tracker, job, checker, cleaner, svc>>

\* The loop's state once DestroyNode has returned.
NextNode(d) ==
    destroyer' = [destroyer EXCEPT ![d].pc = "idle", ![d].node = "none",
                                   ![d].server = FALSE]

\* The test of ServerID turned round.
BadDestroySave(d) ==
    /\ destroyer[d].pc = "save"
    /\ UpdateRow(destroyer[d].node, "destroying", destroyer[d].server)
    /\ destroyer' = [destroyer EXCEPT
           ![d].pc = IF destroyer[d].server THEN "delete" ELSE "cloud"]
    /\ UNCHANGED <<subnets, servers, tracker, job, checker, cleaner, svc>>

DestroySave(d) ==
    /\ destroyer[d].pc = "save"
    /\ \/ /\ CallWorks
          /\ UpdateRow(destroyer[d].node, "destroying", destroyer[d].server)
          /\ destroyer' = [destroyer EXCEPT
                 ![d].pc = IF destroyer[d].server THEN "cloud" ELSE "delete"]
       \/ CallFails(d) /\ NextNode(d) /\ UNCHANGED rows
    /\ UNCHANGED <<subnets, servers, tracker, job, checker, cleaner, svc>>

\* DestroyNode returning when the cloud fails.
BadDestroyCloud(d) ==
    /\ destroyer[d].pc = "cloud"
    /\ \/ /\ DeleteServer(destroyer[d].node)
          /\ destroyer' = [destroyer EXCEPT ![d].pc = "delete"]
       \/ CloudFails(d) /\ NextNode(d) /\ UNCHANGED servers
    /\ UNCHANGED <<rows, subnets, tracker, job, checker, cleaner, svc>>

DestroyCloud(d) ==
    /\ destroyer[d].pc = "cloud"
    /\ \/ DeleteServer(destroyer[d].node)
       \/ CloudFails(d) /\ UNCHANGED servers
    /\ destroyer' = [destroyer EXCEPT ![d].pc = "delete"]
    /\ UNCHANGED <<rows, subnets, tracker, job, checker, cleaner, svc>>

DestroyRow(d) ==
    /\ destroyer[d].pc = "delete"
    /\ \/ CallWorks /\ DeleteRow(destroyer[d].node)
       \/ CallFails(d) /\ UNCHANGED <<rows, subnets>>
    /\ NextNode(d)
    /\ UNCHANGED <<servers, tracker, job, checker, cleaner, svc>>

DestroyStep(d) ==
    DestroyRead(d) \/ DestroySave(d) \/ DestroyCloud(d) \/ DestroyRow(d)
-----------------------------------------------------------------------------
(***************************************************************************)
(* Health checks, started by a rotation cycle or an admin request for a    *)
(* node that was listed as active.                                         *)
(***************************************************************************)
EndCheck(c) == checker' = [checker EXCEPT ![c] = IdleChecker]

ListActiveNode(c) ==
    /\ svc = "running"
    /\ checker[c].pc = "idle"
    /\ \E n \in NodeIds :
         /\ rows[n].status = "active"
         /\ checker' = [checker EXCEPT ![c].pc = "read", ![c].node = n]
    /\ UNCHANGED <<rows, subnets, servers, tracker, job, destroyer, cleaner, svc>>

CheckRead(c) ==
    LET n == checker[c].node IN
    /\ checker[c].pc = "read"
    /\ \/ /\ CallWorks /\ HasRow(n)
          /\ checker' = [checker EXCEPT ![c].pc = "probe",
                                        ![c].was = rows[n].status]
       \/ (CallFails(c) \/ ~HasRow(n)) /\ EndCheck(c)
    /\ UNCHANGED <<rows, subnets, servers, tracker, job, destroyer, cleaner, svc>>

\* The remote check: healthy only with a running server; an error ends the
\* check without touching the row.
CheckProbe(c) ==
    /\ checker[c].pc = "probe"
    /\ \/ \E v \in {"active", "unhealthy"} :
            /\ v = "active" => servers[checker[c].node] # None
            /\ IF checker[c].was = v
               THEN EndCheck(c)
               ELSE checker' = [checker EXCEPT ![c].pc = "reread",
                                               ![c].was = "none",
                                               ![c].verdict = v]
       \/ EndCheck(c)
    /\ UNCHANGED <<rows, subnets, servers, tracker, job, destroyer, cleaner, svc>>

\* UpdateNodeStatus: a second GetByID, the transition rule on the copy ...
CheckReread(c) ==
    LET n == checker[c].node IN
    /\ checker[c].pc = "reread"
    /\ \/ /\ CallWorks /\ HasRow(n)
          /\ CanTransitionTo(rows[n].status, checker[c].verdict)
          /\ checker' = [checker EXCEPT ![c].pc = "write",
                                        ![c].server = rows[n].server]
       \/ /\ \/ CallFails(c)
             \/ ~HasRow(n)
             \/ ~CanTransitionTo(rows[n].status, checker[c].verdict)
          /\ EndCheck(c)
    /\ UNCHANGED <<rows, subnets, servers, tracker, job, destroyer, cleaner, svc>>

\* ... and an Update that trusts it.
CheckWrite(c) ==
    /\ checker[c].pc = "write"
    /\ \/ /\ CallWorks
          /\ UpdateRow(checker[c].node, checker[c].verdict, checker[c].server)
       \/ CallFails(c) /\ UNCHANGED rows
    /\ EndCheck(c)
    /\ UNCHANGED <<subnets, servers, tracker, job, destroyer, cleaner, svc>>

CheckStep(c) ==
    CheckRead(c) \/ CheckProbe(c) \/ CheckReread(c) \/ CheckWrite(c)
-----------------------------------------------------------------------------
(***************************************************************************)
(* cleanupUnusedSubnets: list all nodes once, then release the subnet of   *)
(* each one that was neither active nor provisioning in that list.         *)
(***************************************************************************)
ListUnusedSubnets(c) ==
    /\ svc = "running"
    /\ cleaner[c] = {}
    /\ cleaner' = [cleaner EXCEPT ![c] =
           {n \in NodeIds : /\ rows[n].status \in {"unhealthy", "destroying"}
                            /\ subnets[n] # None}]
    /\ cleaner' # cleaner
    /\ UNCHANGED <<rows, subnets, servers, tracker, job, destroyer, checker, svc>>

ReleaseUnusedSubnet(c) ==
    /\ \E n \in cleaner[c] :
         /\ \/ CallWorks /\ subnets' = [subnets EXCEPT ![n] = None]
            \/ CallFails(c) /\ UNCHANGED subnets
         /\ cleaner' = [cleaner EXCEPT ![c] = @ \ {n}]
    /\ UNCHANGED <<rows, servers, tracker, job, destroyer, checker, svc>>
-----------------------------------------------------------------------------
(***************************************************************************)
(* Service.Stop: API and scheduler stop, every listed node is destroyed,   *)
(* then the event bus and the store close and the process exits.  Goroutines *)
(* of the provisioning worker are not waited for.                          *)
(***************************************************************************)
Stop ==
    /\ "stop" \in Faults
    /\ svc = "running"
    /\ svc' = "stopping"
    /\ UNCHANGED <<rows, subnets, servers, tracker, job, destroyer, checker,
                   cleaner>>

\* cleanupActiveNodes: the filter is empty, so nodes of every status.
cleanupActiveNodes ==
    /\ svc = "stopping"
    /\ svc' = "destroying"
    /\ \/ destroyer' = [destroyer EXCEPT ![Shutdown].todo =
                                             {n \in NodeIds : HasRow(n)}]
       \/ CallFails(Shutdown) /\ UNCHANGED destroyer
    /\ UNCHANGED <<rows, subnets, servers, tracker, job, checker, cleaner>>

CloseEventBus ==
    /\ svc = "destroying"
    /\ destroyer[Shutdown] = IdleDestroyer
    /\ svc' = "busClosed"
    /\ UNCHANGED <<rows, subnets, servers, tracker, job, destroyer, checker,
                   cleaner>>

CloseStore ==
    /\ svc = "busClosed"
    /\ svc' = "storeClosed"
    /\ UNCHANGED <<rows, subnets, servers, tracker, job, destroyer, checker,
                   cleaner>>

\* A new process: the tables and the cloud are all that is left.
Restart ==
    /\ tracker' = [k \in DOMAIN tracker |-> "absent"]
    /\ job' = [n \in NodeIds |->
                  IF job[n].pc \in InFlight THEN Returned("dead") ELSE job[n]]
    /\ destroyer' = [d \in AllDestroyers |-> IdleDestroyer]
    /\ checker' = [c \in Checkers |-> IdleChecker]
    /\ cleaner' = [c \in Cleaners |-> {}]
    /\ svc' = "running"
    /\ UNCHANGED <<rows, subnets, servers>>

Exit == svc = "storeClosed" /\ Restart
Crash == "crash" \in Faults /\ Restart

Next ==
    \/ \E r \in Requests : handleProvisionRequest(r) \/ RequestAges(r)
    \/ \E n \in NodeIds : ProvisionStep(n) \/ Expire(n)
    \/ \E d \in Destroyers : ListOrphanedNodes(d)
    \/ \E d \in AllDestroyers : DestroyStep(d)
    \/ \E c \in Checkers : ListActiveNode(c) \/ CheckStep(c)
    \/ \E c \in Cleaners : ListUnusedSubnets(c) \/ ReleaseUnusedSubnet(c)
    \/ Stop \/ cleanupActiveNodes \/ CloseEventBus \/ CloseStore
    \/ Exit \/ Crash

Spec == Init /\ [][Next]_vars

(***************************************************************************)
(* Every goroutine that has started goes on: the calls it makes return, as *)
(* each has a timeout or a bounded number of retries.  Nothing is assumed  *)
(* about requests, cycles, timeouts, crashes or the stop signal.           *)
(***************************************************************************)
Fairness ==
    /\ \A n \in NodeIds : WF_vars(ProvisionStep(n))
    /\ \A d \in AllDestroyers : WF_vars(DestroyStep(d))
    /\ \A c \in Checkers : WF_vars(CheckStep(c))

FairSpec == Spec /\ Fairness
-----------------------------------------------------------------------------
(***************************************************************************)
(* Properties that hold while provisioning only meets the failures it has  *)
(* rollback steps for (Honest) and no subnet cleaner runs.                 *)
(***************************************************************************)
Honest == Faults \subseteq {"create", "boot", "unready"}

\* Two running servers are never configured with the same subnet: what
\* FindNextAvailableSubnet, the UNIQUE column, the order of the rollback
\* (cloud, then subnet) and the order of DestroyNode (cloud, then row) are
\* for together.
ServersDisjoint ==
    \A m, n \in NodeIds :
        m # n /\ servers[m] # None => servers[m] # servers[n]

\* An attempt that failed leaves no row, no subnet and no server, whatever
\* ran beside it (provisioningRollback.execute).
FailedLeavesNothing ==
    \A n \in NodeIds : job[n].pc = "failed" =>
        ~HasRow(n) /\ subnets[n] = None /\ servers[n] = None

(***************************************************************************)
(* The inductive invariant behind the two: what the tables and the cloud   *)
(* hold at every point of an attempt.                                      *)
(***************************************************************************)
\* Nodes whose attempt has activated them: the ones others work on.
Living == {n \in NodeIds : job[n].pc \in {"finish", "done"}}

Holds(n, row, subnet, server) ==
    rows[n] = row /\ subnets[n] = subnet /\ servers[n] = server

Provisioning(server) == [status |-> "provisioning", server |-> server]

\* Phases in which rollback.allocated["subnet"] is set and not yet acted on.
Allocated == {"cloud", "boot", "undo", "details", "readiness", "activate",
              "rbCloud", "rbSubnet"}

\* Resources of an attempt that has not activated its node.
AttemptInv(n) ==
    LET j == job[n] IN
    /\ ~j.expired /\ j.pc # "dead"
    /\ j.pc \in Allocated => j.subnet /\ j.pick # None
    /\ j.subnet => j.pc \in Allocated \cup {"finish", "rbRow"}
    /\ j.cloud => j.pc \notin {"idle", "start", "record", "subnet", "store",
                              "cloud", "boot", "undo"}
    /\ j.pc \in {"details", "readiness", "activate"} => j.cloud
    /\ j.pc = "store" => j.pick \in Subnets
    /\ j.pc \in {"idle", "start", "record", "failed"} => Holds(n, NoRow, None, None)
    /\ j.pc \in {"subnet", "store"} => Holds(n, Provisioning(FALSE), None, None)
    /\ j.pc = "cloud" => Holds(n, Provisioning(FALSE), j.pick, None)
    /\ j.pc \in {"boot", "undo", "details"}
          => Holds(n, Provisioning(FALSE), j.pick, j.pick)
    /\ j.pc \in {"readiness", "activate"}
          => Holds(n, Provisioning(TRUE), j.pick, j.pick)
    /\ j.pc \in {"rbCloud", "rbSubnet", "rbRow"}
          => rows[n] \in {Provisioning(FALSE), Provisioning(TRUE)}
    /\ j.pc = "rbCloud" => subnets[n] = j.pick /\ servers[n] = j.pick
    /\ j.pc = "rbSubnet" => subnets[n] = j.pick /\ servers[n] = None
    /\ j.pc = "rbRow" => subnets[n] = None /\ servers[n] = None

\* Resources of a node that was activated, while others destroy it.
LivingInv(n) ==
    n \in Living =>
        /\ HasRow(n) => rows[n].server /\ rows[n].status # "provisioning"
        /\ servers[n] # None => HasRow(n) /\ subnets[n] = servers[n]
        /\ HasRow(n) /\ servers[n] = None =>
              \E d \in AllDestroyers : /\ destroyer[d].node = n
                                       /\ destroyer[d].pc = "delete"

\* Destroyers and checkers only hold activated nodes, a row is deleted only
\* after its server, and no shutdown runs.
WorkersInv ==
    /\ svc = "running"
    /\ \A d \in AllDestroyers :
          /\ destroyer[d].todo \subseteq Living
          /\ destroyer[d].pc # "idle" => /\ destroyer[d].node \in Living
                                         /\ destroyer[d].server
          /\ destroyer[d].pc = "delete" => servers[destroyer[d].node] = None
    /\ \A c \in Checkers :
          /\ checker[c].pc # "idle" => checker[c].node \in Living
          /\ checker[c].pc = "write" => checker[c].server

\* While only rolled-back failures happen, every attempt holds exactly the
\* row, subnet and server that its position in provisionNode says, and every
\* activated node keeps row, subnet and server together until DestroyNode
\* has removed the server.
LifecycleInv ==
    /\ WorkersInv
    /\ \A n \in NodeIds : AttemptInv(n) /\ LivingInv(n)

(***************************************************************************)
(* Properties that hold under every fault.                                 *)
(***************************************************************************)
\* Phases in which the workflow has reported progress and no error yet.
Working == {"record", "subnet", "store", "cloud", "boot", "undo", "details",
            "readiness", "activate", "finish"}

\* While the event bus is open the tracker says of every node exactly what
\* its attempt is doing, so IsProvisioning is true if and only if some
\* attempt has reported its start and not yet its end.
TrackerAgrees ==
    BusOpen => \A n \in NodeIds :
        /\ tracker[n] = "running" <=> job[n].pc \in Working
        /\ tracker[n] = "completed" => job[n].pc = "done"

\* Ids whose insertion into "nodes" was attempted, or will never be.
Named == {n \in NodeIds : job[n].pc \notin {"idle", "start", "record"}}

\* A node row that is gone does not come back: late Updates by the workflow,
\* by DestroyNode or by a health check find no row and create none.
NoResurrection ==
    [][\A n \in Named : ~HasRow(n) => rows'[n] = NoRow]_vars

\* The rows of node_subnets keep their foreign key and hold every subnet at
\* most once, whatever interleaving of choices, releases and deletions.
SubnetTableSound ==
    /\ \A n \in NodeIds : subnets[n] # None => HasRow(n)
    /\ \A m, n \in NodeIds :
          m # n /\ subnets[m] # None => subnets[m] # subnets[n]

\* All goroutines together, under every fault, use the two tables only in
\* the ways NodeTables allows.
Tables == INSTANCE NodeTables WITH used <- Named
ImplementsTables == Tables!Spec

\* Every attempt that was started ends, completed, failed and rolled back,
\* or lost with the process (provisionNode returns on every path).
AttemptsEnd ==
    \A n \in NodeIds : job[n].pc = "start" ~> job[n].pc \in Ended

\* A node marked "destroying" is deleted in the end (DestroyNode goes on to
\* the deletion whatever the cloud answers).
DestroyingIsDeleted ==
    \A n \in NodeIds : rows[n].status = "destroying" ~> ~HasRow(n)

(***************************************************************************)
(* What the documents and comments of the repository say of this code and  *)
(* the code does not do; violated by a run of its own.                     *)
(***************************************************************************)
\* status.go: "destroying" is a terminal state; a row leaves it only by
\* being deleted.
DestroyingIsTerminal ==
    [][\A n \in NodeIds : rows[n].status = "destroying" =>
                             rows'[n].status \in {"destroying", "none"}]_vars
=============================================================================
