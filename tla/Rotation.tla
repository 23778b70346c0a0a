------------------------------- MODULE Rotation -------------------------------
(***************************************************************************)
(* Rotating nodes, moving peers between nodes and making an interface      *)
(* agree with a list of peers.                                             *)
(*                                                                         *)
(*   cycle   NodeRotationService.RotateNodes, from the scheduler and from  *)
(*           ForceRotation                                                 *)
(*   mig     NodeRotationService.MigratePeersFromNode                      *)
(*   disc    PeerConnectionService.DisconnectPeer, meanwhile               *)
(*   clean   ResourceCleanupService.CleanupInactiveResourcesWithOptions,   *)
(*           for orphaned nodes and unused subnets (PeerConnection has the *)
(*           removal of inactive peers, an option of its own)              *)
(*   sync    SSHNodeInteractor.SyncPeers                                   *)
(*                                                                         *)
(* createReplacementNode asks for a node and always returns an error, so   *)
(* RotateNodes never gets to migratePeersWithRollback nor to the           *)
(* destruction of the old node: those calls are not part of it here.       *)
(* Node ids are numbers in the order of the rows' creation.                *)
(* Every database access, remote command or published event is an action.  *)
(***************************************************************************)
EXTENDS WireGuardCalls, NodeStatus, Sequences, FiniteSetsExt

CONSTANTS
    Active,        \* nodes that are active at the start, with subnets 0, 1, ..
    Home,          \* the node a peer is connected to at the start ...
    Offset,        \* ... and the place of its address in the node's range
    Cycles,        \* calls of RotateNodes
    Cleaners,      \* calls of the clean-up
    Migrations,    \* calls of MigratePeersFromNode ...
    Route,         \* ... and their source and target
    Disconnects,   \* calls of DisconnectPeer
    Syncs,         \* calls of SyncPeers and RestartWireGuard, for SyncNode
    SyncNode,
    Strays,        \* peers SyncNode's interface may have when SyncPeers starts
    Scenes,        \* which calls overlap: one of these sets is chosen
    MaxPeers,      \* MaxPeersPerNode
    MaxRequests    \* provisioning requests that are remembered

(***************************************************************************)
(* What Init may start from.  Nothing in the code keeps two migrations of  *)
(* one peer apart; whoever calls MigratePeersFromNode has to.              *)
(***************************************************************************)
ASSUME RotationAssumption ==
    /\ Active \subseteq Nodes \cap 1 .. MaxSubnets
    /\ Home \in [Peers -> Active]
    /\ Offset \in [Peers -> 0 .. SubnetSize - 4]
    /\ \A p, q \in Peers : p # q /\ Home[p] = Home[q] => Offset[p] # Offset[q]
    /\ Route \in [Migrations -> [source : Nodes, target : Nodes]]
    /\ \A l, m \in Migrations :
          /\ Route[l].source # Route[m].target
          /\ l # m => Route[l].source # Route[m].source
    /\ SyncNode \in Nodes /\ Strays \subseteq Peers
    /\ MaxRequests \in Nat

(***************************************************************************)
(* The goroutines, and which of them overlap: any of them, but SyncPeers   *)
(* has the rows and the interface to itself.  Nothing in the code sees to  *)
(* that: it is a limit of what is said here of SyncPeers.                  *)
(***************************************************************************)
ASSUME ScenesAssumption ==
    /\ Callers = Migrations \cup Disconnects \cup Syncs
    /\ Migrations \cap Disconnects = {} /\ Migrations \cap Syncs = {}
    /\ Disconnects \cap Syncs = {} /\ Cycles \cap Callers = {}
    /\ Cleaners \cap (Callers \cup Cycles) = {}
    /\ \A s \in Scenes : s \cap Syncs = {} \/ \E x \in Syncs : s = {x}

VARIABLES
    scene,      \* the calls of this behaviour
    status,     \* nodes.status; "none": not created yet, "deleted": row gone
    subnets,    \* table node_subnets
    peers,      \* table peers
    requests,   \* events provision.requested, not yet served
    clean,      \* stack frames of the clean-up
    cycle,      \* stack frames
    mig,
    disc,
    sync

tables == <<status, subnets, peers>>
frames == <<cycle, mig, disc, sync>>
vars == <<scene, tables, requests, clean, frames, calls>>

NoPeer == [node |-> NoNode, ip |-> NoAddress, status |-> "none"]
Present(p) == peers[p] # NoPeer
HasRow(n) == status[n] \in Status
Standing(n) == status[n] \notin {"destroying", "deleted"}
Db == Fault("db")

Subnet == {NewSubnet(a) : a \in Addresses}
PeerRow == [node : Nodes, ip : Addresses, status : {"active", "removing"}]
Clean == [pc : {"idle", "count", "destroy", "delete", "release",
               "done"},
          todo : SUBSET Nodes, orphans : SUBSET Nodes, used : SUBSET Nodes]
Chosen == [node : Nodes, priority : {1, 2}]
Cycle == [pc : {"idle", "check", "publish"} \cup Returned, todo : SUBSET Nodes,
          chosen : Seq(Chosen)]
Mig == [pc : {"idle", "capacity", "next", "check", "update", "getTarget",
              "add", "getSource", "remove", "ok", "failed"},
        todo : SUBSET Peers, peer : Peers \cup {"none"},
        ip : Addresses \cup {NoAddress},
        moved : SUBSET Peers, errors : SUBSET Peers, warned : SUBSET Peers]
Disc == [pc : {"idle", "getNode", "remove", "mark", "delete", "done"},
         peer : Peers \cup {"none"}, node : Nodes \cup {NoNode}]
Sync == [pc : {"idle", "run", "done", "failed"}, desired : Config,
         drop : SUBSET Peers, change : SUBSET Peers, add : SUBSET Peers,
         kept : SUBSET Peers,     \* auxiliary: the peers it leaves alone and
         clash : SUBSET Peers]    \* those whose address another one still has

Nobody == [p \in Peers |-> Absent]
NewCycle == [pc |-> "idle", todo |-> {}, chosen |-> <<>>]
NewClean == [pc |-> "idle", todo |-> {}, orphans |-> {}, used |-> {}]
NewMig == [pc |-> "idle", todo |-> {}, peer |-> "none", ip |-> NoAddress,
           moved |-> {}, errors |-> {}, warned |-> {}]
NewDisc == [pc |-> "idle", peer |-> "none", node |-> NoNode]
NewSync == [pc |-> "idle", desired |-> Nobody, drop |-> {}, change |-> {},
            add |-> {}, kept |-> {}, clash |-> {}]

\* The state is made of the values the code keeps.
TypeOK ==
    /\ scene \in Scenes
    /\ CallsTypeOK
    /\ status \in [Nodes -> Status \cup {"none", "deleted"}]
    /\ subnets \in [Nodes -> Subnet \cup {NoSubnet}]
    /\ \A n \in Nodes : \/ subnets[n] = NoSubnet
                        \/ ValidateSubnetAllocation(subnets[n])
    /\ peers \in [Peers -> PeerRow \cup {NoPeer}]
    /\ requests \in 0 .. MaxRequests
    /\ clean \in [Cleaners -> Clean]
    /\ cycle \in [Cycles -> Cycle]
    /\ mig \in [Migrations -> Mig]
    /\ disc \in [Disconnects -> Disc]
    /\ sync \in [Syncs -> Sync]

\* Where a node's rows say its interface stands.
Rows(n) == [p \in Peers |-> IF Present(p) /\ peers[p].node = n
                            THEN peers[p].ip ELSE Absent]

\* What an interface can look like after failed calls, for SyncPeers.
Drifted ==
    LET W == [Strays -> {peers[q].ip : q \in Strays} \cup {Absent}]
    IN  {[p \in Peers |-> IF p \in Strays THEN w[p] ELSE Absent] :
            w \in {v \in W : \A p, q \in Strays :
                                p # q /\ v[p] = v[q] => v[p] = Absent}}

Init ==
    /\ scene \in Scenes
    /\ status = [n \in Nodes |-> IF n \in Active THEN "active" ELSE "none"]
    /\ subnets = [n \in Nodes |-> IF n \in Active
                  THEN NewSubnet(GenerateSubnetCIDR(n - 1)) ELSE NoSubnet]
    /\ peers = [p \in Peers |-> [node |-> Home[p], status |-> "active",
                                 ip |-> subnets[Home[p]].start + Offset[p]]]
    /\ requests = 0
    /\ clean = [k \in Cleaners |-> NewClean]
    /\ cycle = [c \in Cycles |-> NewCycle]
    /\ mig = [m \in Migrations |-> NewMig]
    /\ disc = [d \in Disconnects |-> NewDisc]
    /\ sync = [s \in Syncs |-> NewSync]
    /\ \E w \in IF scene \cap Syncs = {} THEN {Rows(SyncNode)} ELSE Drifted :
          wg = [n \in Nodes |-> IF n = SyncNode THEN w ELSE Rows(n)]
    /\ file = wg
    /\ call = [c \in Callers |-> NoCall]
    /\ faults = 0
-----------------------------------------------------------------------------
(***************************************************************************)
(* RotateNodes.                                                            *)
(***************************************************************************)
\* node.NodeHealthStatus: what the thresholds of analyzeNodeForRotation tell
\* apart.
Band == {"low", "high", "critical"}
Health == [healthy : BOOLEAN, load : Band, memory : Band, disk : Band,
           slow : BOOLEAN]

\* 0: no reason to rotate.
analyzeNodeForRotation(h) ==
    LET bands == {h.load, h.memory, h.disk} IN
    IF ~h.healthy \/ "critical" \in bands THEN 1
    ELSE IF "high" \in bands \/ h.slow THEN 2 ELSE 0

Verdicts == {[healthy |-> h.healthy, priority |-> analyzeNodeForRotation(h)] :
                h \in Health}

\* The nested loops of the sort.  There are two priorities, so the inner loop
\* over j exchanges at most once: with the first more urgent place after i.
Pass(s, i, last) ==
    LET later == {j \in i + 1 .. last : s[j].priority < s[i].priority} IN
    IF later = {} THEN s
    ELSE [s EXCEPT ![i] = s[Min(later)], ![Min(later)] = s[i]]
Loops(s, last) ==
    LET After[i \in 0 .. last] == IF i = 0 THEN s ELSE Pass(After[i - 1], i, last)
    IN  After[last]

SortByPriority(s) == Loops(s, Len(s))

\* A call starts whenever the ticker or an administrator says so.
ListActiveNodes(c) ==
    LET found == {n \in Nodes : status[n] = "active"} IN
    /\ c \in scene /\ cycle[c].pc = "idle"
    /\ \/ Sound /\ cycle' = [cycle EXCEPT ![c].pc = IF found = {} THEN "ok"
                                 ELSE "check", ![c].todo = found]
       \/ Db /\ cycle' = [cycle EXCEPT ![c].pc = "failed"]
    /\ UNCHANGED <<scene, tables, requests, clean, mig, disc, sync, wg, file, call>>

\* CheckNodeHealth, the youngest node first (NodeLifecycle takes it apart);
\* an error leaves the node out: its row is gone, or nobody answers.
CheckNode(c) ==
    LET n == Max(cycle[c].todo) IN
    /\ cycle[c].pc = "check" /\ cycle[c].todo # {}
    /\ \/ \E v \in Verdicts :
              LET new == IF v.healthy THEN "active" ELSE "unhealthy" IN
                  /\ Sound /\ HasRow(n)
                  /\ status' = IF CanTransitionTo(status[n], new)
                               THEN [status EXCEPT ![n] = new] ELSE status
                  /\ cycle' = [cycle EXCEPT ![c].todo = @ \ {n},
                        ![c].chosen = IF v.priority = 0 THEN @ ELSE
                              Append(@, [node |-> n, priority |-> v.priority])]
       \/ /\ (Sound /\ ~Standing(n)) \/ Fault("ssh")
          /\ cycle' = [cycle EXCEPT ![c].todo = @ \ {n}]
          /\ UNCHANGED status
    /\ UNCHANGED <<scene, subnets, peers, requests, clean, mig, disc, sync, wg, file, call>>

\* The end of makeRotationDecision.
Decide(c) ==
    /\ cycle[c].pc = "check" /\ cycle[c].todo = {}
    /\ cycle' = [cycle EXCEPT ![c].chosen = SortByPriority(@),
                    ![c].pc = IF cycle[c].chosen = <<>> THEN "ok" ELSE "publish"]
    /\ UNCHANGED <<scene, tables, requests, clean, mig, disc, sync, calls>>

\* createReplacementNode: ask, and count it as an error.
createReplacementNode(c) ==
    LET rest == Tail(cycle[c].chosen) IN
    /\ cycle[c].pc = "publish"
    /\ requests' = IF requests < MaxRequests THEN requests + 1 ELSE requests
    /\ cycle' = [cycle EXCEPT ![c].chosen = rest,
                    ![c].pc = IF rest = <<>> THEN "failed" ELSE "publish"]
    /\ UNCHANGED <<scene, tables, clean, mig, disc, sync, calls>>

UsedCIDRs == {subnets[n].network : n \in Nodes}

\* A request is served (NodeLifecycle has the details): a new node with the
\* subnet AllocateNodeSubnet gives it, or none when they are used up.
Provision ==
    LET s == FindNextAvailableSubnet(UsedCIDRs)
        new == 1 + Max({n \in Nodes : status[n] # "none"} \cup {0}) IN
    /\ requests > 0
    /\ requests' = requests - 1
    /\ \/ /\ s # NoSubnet /\ ValidateSubnetAllocation(s)
          /\ new \in Nodes /\ status' = [status EXCEPT ![new] = "active"]
          /\ subnets' = [subnets EXCEPT ![new] = s]
       \/ s = NoSubnet /\ UNCHANGED <<status, subnets>>
    /\ UNCHANGED <<scene, peers, clean, frames, calls>>

CycleStep(c) == CheckNode(c) \/ Decide(c) \/ createReplacementNode(c)
-----------------------------------------------------------------------------
(***************************************************************************)
(* The clean-up: cleanupOrphanedNodes, then cleanupUnusedSubnets.  An      *)
(* error of either is remembered and the other one still done.             *)
(***************************************************************************)
GetActiveByNode(n) == {p \in Peers : peers[p].node = n /\ peers[p].status = "active"}

CleanupOrphanedNodes(k) ==
    /\ k \in scene /\ clean[k].pc = "idle"
    /\ \/ Sound /\ clean' = [clean EXCEPT ![k].pc = "count",
                          ![k].todo = {n \in Nodes : status[n] = "active"}]
       \/ Db /\ clean' = [clean EXCEPT ![k].pc = "destroy"]
    /\ UNCHANGED <<scene, tables, requests, frames, wg, file, call>>

\* CountActiveByNode; an empty node is an orphan when its row is an hour old.
\* A count that fails leaves the node out.
CountActiveByNode(k) ==
    LET n == Max(clean[k].todo)
        Counted(orphans, used) ==
            clean' = [clean EXCEPT ![k].todo = @ \ {n},
                          ![k].orphans = @ \cup orphans, ![k].used = @ \cup used]
    IN
    /\ clean[k].pc = "count" /\ clean[k].todo # {}
    /\ \/ /\ Sound
          /\ IF GetActiveByNode(n) = {} THEN \E old \in SUBSET {n} : Counted(old, {})
             ELSE Counted({}, {n})
       \/ Db /\ Counted({}, {})
    /\ UNCHANGED <<scene, tables, requests, frames, wg, file, call>>

\* With at most one node in use no orphan is destroyed.
OrphansCounted(k) ==
    LET f == clean[k] IN
    /\ f.pc = "count" /\ f.todo = {}
    /\ clean' = [clean EXCEPT ![k] = [NewClean EXCEPT !.pc = "destroy",
                    !.todo = IF Cardinality(f.used) <= 1 THEN {} ELSE f.orphans]]
    /\ UNCHANGED <<scene, tables, requests, frames, calls>>

\* DestroyNode, whatever has become of the node since it was counted
\* (NodeLifecycle takes it apart): mark the row ...
MarkDestroying(k) ==
    LET n == Max(clean[k].todo)
        fails == ~HasRow(n) \/ ~ValidateForDestruction([status |-> status[n]])
    IN
    /\ clean[k].pc = "destroy" /\ clean[k].todo # {}
    /\ \/ /\ Sound /\ ~fails
          /\ status' = [status EXCEPT ![n] = "destroying"]
          /\ clean' = [clean EXCEPT ![k].pc = "delete"]
       \/ /\ (Sound /\ fails) \/ Db
          /\ clean' = [clean EXCEPT ![k].todo = @ \ {n}] /\ UNCHANGED status
    /\ UNCHANGED <<scene, subnets, peers, requests, frames, wg, file, call>>

\* ... destroy the server and delete the row, with which its subnet and its
\* peers go (ON DELETE CASCADE).
DeleteNode(k) ==
    LET n == Max(clean[k].todo) IN
    /\ clean[k].pc = "delete"
    /\ \/ /\ Sound
          /\ status' = [status EXCEPT ![n] = "deleted"]
          /\ subnets' = [subnets EXCEPT ![n] = NoSubnet]
          /\ peers' = [p \in Peers |-> IF peers[p].node = n THEN NoPeer ELSE peers[p]]
          /\ wg' = [wg EXCEPT ![n] = Nobody]
          /\ file' = [file EXCEPT ![n] = Nobody]
       \/ Db /\ UNCHANGED <<tables, wg, file>>
    /\ clean' = [clean EXCEPT ![k].pc = "destroy", ![k].todo = @ \ {n}]
    /\ UNCHANGED <<scene, requests, frames, call>>

CleanupUnusedSubnets(k) ==
    LET unused == {n \in Nodes : status[n] \in Status \ {"active", "provisioning"}} IN
    /\ clean[k].pc = "destroy" /\ clean[k].todo = {}
    /\ \/ Sound /\ clean' = [clean EXCEPT ![k].pc = "release", ![k].todo = unused]
       \/ Db /\ clean' = [clean EXCEPT ![k].pc = "done"]
    /\ UNCHANGED <<scene, tables, requests, frames, wg, file, call>>

\* The node may be active again: only its subnet's row is looked at.  Its own
\* row and its peers' rows stay.
ReleaseNodeSubnet(k) ==
    LET n == Max(clean[k].todo) IN
    /\ clean[k].pc = "release" /\ clean[k].todo # {}
    /\ \/ Sound /\ subnets' = [subnets EXCEPT ![n] = NoSubnet]
       \/ Db /\ UNCHANGED subnets
    /\ clean' = [clean EXCEPT ![k].todo = @ \ {n}]
    /\ UNCHANGED <<scene, status, peers, requests, frames, wg, file, call>>

EndCleanup(k) ==
    /\ clean[k].pc = "release" /\ clean[k].todo = {}
    /\ clean' = [clean EXCEPT ![k].pc = "done"]
    /\ UNCHANGED <<scene, tables, requests, frames, calls>>

CleanStep(k) ==
    \/ CountActiveByNode(k) \/ OrphansCounted(k) \/ MarkDestroying(k)
    \/ DeleteNode(k) \/ CleanupUnusedSubnets(k) \/ ReleaseNodeSubnet(k)
    \/ EndCleanup(k)
-----------------------------------------------------------------------------
(***************************************************************************)
(* MigratePeersFromNode.                                                   *)
(***************************************************************************)
AllocatedIPs(n) == {peers[p].ip : p \in {q \in Peers : peers[q].node = n}}
IPTaken(i) == \E q \in Peers : peers[q].ip = i

MigGoto(m, pc) == mig' = [mig EXCEPT ![m].pc = pc]

MigratePeersFromNode(m) ==
    LET found == GetActiveByNode(Route[m].source) IN
    /\ m \in scene /\ mig[m].pc = "idle"
    /\ \/ Sound /\ mig' = [mig EXCEPT ![m].todo = found,
                          ![m].pc = IF found = {} THEN "ok" ELSE "capacity"]
       \/ Db /\ MigGoto(m, "failed")
    /\ UNCHANGED <<scene, tables, requests, clean, cycle, disc, sync, wg, file, call>>

\* nodes.connected_clients is 0 in every row: nothing updates it.
ValidateCapacity(n, count) == status[n] = "active" /\ count <= MaxPeers

ValidateNodeCapacity(m) ==
    LET fits == ValidateCapacity(Route[m].target, Cardinality(mig[m].todo)) IN
    /\ mig[m].pc = "capacity"
    /\ \/ Sound /\ MigGoto(m, IF fits THEN "next" ELSE "failed")
       \/ Db /\ MigGoto(m, "failed")
    /\ UNCHANGED <<scene, tables, requests, clean, cycle, disc, sync, wg, file, call>>

\* The loop goes on with the next peer.
MigrationError(m, p) ==
    mig' = [mig EXCEPT ![m].pc = "next", ![m].peer = "none", ![m].ip = NoAddress,
                       ![m].errors = @ \cup {p}]

\* migrateSinglePeer starts with AllocateClientIP: nothing is reserved.
AllocateClientIP(m) ==
    LET t == Route[m].target IN
    /\ mig[m].pc = "next"
    /\ \E p \in mig[m].todo :
         LET i == FindNextAvailableIP(subnets[t], AllocatedIPs(t))
             rest == mig[m].todo \ {p}
         IN  \/ /\ Sound /\ subnets[t] # NoSubnet /\ i # NoAddress
                /\ mig' = [mig EXCEPT ![m].pc = "check", ![m].todo = rest,
                                      ![m].peer = p, ![m].ip = i]
             \/ /\ (Sound /\ (subnets[t] = NoSubnet \/ i = NoAddress)) \/ Db
                /\ mig' = [mig EXCEPT ![m].todo = rest, ![m].errors = @ \cup {p}]
    /\ UNCHANGED <<scene, tables, requests, clean, cycle, disc, sync, wg, file, call>>

\* peer.Service.Migrate: the row exists and nobody else has the address ...
CheckIPConflict(m) ==
    LET f == mig[m]
        fails == ~Present(f.peer) \/ (IPTaken(f.ip) /\ peers[f.peer].ip # f.ip)
    IN
    /\ f.pc = "check"
    /\ \/ Sound /\ ~fails /\ MigGoto(m, "update")
       \/ ((Sound /\ fails) \/ Db) /\ MigrationError(m, f.peer)
    /\ UNCHANGED <<scene, tables, requests, clean, cycle, disc, sync, wg, file, call>>

\* ... and UpdatePeerNode, under the table's constraints; for a row that is
\* gone by now it changes nothing and reports success.
Moved(p, row) == IF Present(p) THEN [peers EXCEPT ![p] = row] ELSE peers

\* The address is taken from the node the peer leaves.
BadUpdateNode(m) ==
    LET f == mig[m] IN
    /\ f.pc = "update"
    /\ \/ /\ Sound
          /\ peers' = Moved(f.peer, [peers[f.peer] EXCEPT !.node = Route[m].target])
          /\ MigGoto(m, "getTarget")
       \/ Db /\ MigrationError(m, f.peer) /\ UNCHANGED peers
    /\ UNCHANGED <<scene, status, subnets, requests, clean, cycle, disc, sync, wg, file, call>>

UpdateNode(m) ==
    LET f == mig[m]
        t == Route[m].target
        taken == Present(f.peer) /\ (IPTaken(f.ip) \/ ~HasRow(t)) IN
    /\ f.pc = "update"
    /\ \/ /\ Sound /\ ~taken
          /\ peers' = Moved(f.peer, [peers[f.peer] EXCEPT !.node = t, !.ip = f.ip])
          /\ MigGoto(m, "getTarget")
       \/ /\ ((Sound /\ taken) \/ Db)
          /\ MigrationError(m, f.peer) /\ UNCHANGED peers
    /\ UNCHANGED <<scene, status, subnets, requests, clean, cycle, disc, sync, wg, file, call>>

\* GetNode(target), then AddPeer; the row is not moved back when it fails.
AddToTarget(m) ==
    LET f == mig[m]
        t == Route[m].target IN
    /\ f.pc = "getTarget"
    /\ \/ Sound /\ HasRow(t) /\ AddPeer(m, t, f.peer, f.ip)
          /\ MigGoto(m, "add")
       \/ /\ (Sound /\ ~HasRow(t)) \/ Db
          /\ MigrationError(m, f.peer) /\ UNCHANGED call
    /\ UNCHANGED <<scene, tables, requests, clean, cycle, disc, sync, wg, file>>

\* An answer that is not looked at.
BadAddReturned(m) ==
    /\ mig[m].pc = "add" /\ call[m].pc \in Returned
    /\ MigGoto(m, "getSource")
    /\ NoneFor(m)
    /\ UNCHANGED <<scene, tables, requests, clean, cycle, disc, sync, wg, file, faults>>

AddReturned(m) ==
    /\ mig[m].pc = "add" /\ call[m].pc \in Returned
    /\ IF call[m].pc = "ok" THEN MigGoto(m, "getSource")
       ELSE MigrationError(m, mig[m].peer)
    /\ NoneFor(m)
    /\ UNCHANGED <<scene, tables, requests, clean, cycle, disc, sync, wg, file, faults>>

\* The peer counts as migrated, whatever becomes of the removal.
MigrationDone(m, warnings) ==
    mig' = [mig EXCEPT ![m].pc = "next", ![m].peer = "none", ![m].ip = NoAddress,
                ![m].moved = @ \cup {mig[m].peer}, ![m].warned = @ \cup warnings]

RemoveFromSource(m) ==
    LET f == mig[m]
        s == Route[m].source IN
    /\ f.pc = "getSource"
    /\ \/ Sound /\ HasRow(s) /\ RemovePeer(m, s, f.peer)
          /\ MigGoto(m, "remove")
       \/ /\ (Sound /\ ~HasRow(s)) \/ Db
          /\ MigrationDone(m, {f.peer}) /\ UNCHANGED call
    /\ UNCHANGED <<scene, tables, requests, clean, cycle, disc, sync, wg, file>>

\* A migration that waits for a removal that succeeds.
BadRemoveReturned(m) ==
    /\ mig[m].pc = "remove" /\ call[m].pc = "ok"
    /\ MigrationDone(m, {})
    /\ NoneFor(m)
    /\ UNCHANGED <<scene, tables, requests, clean, cycle, disc, sync, wg, file, faults>>

RemoveReturned(m) ==
    /\ mig[m].pc = "remove" /\ call[m].pc \in Returned
    /\ MigrationDone(m, IF call[m].pc = "ok" THEN {} ELSE {mig[m].peer})
    /\ NoneFor(m)
    /\ UNCHANGED <<scene, tables, requests, clean, cycle, disc, sync, wg, file, faults>>

EndMigration(m) ==
    /\ mig[m].pc = "next" /\ mig[m].todo = {}
    /\ MigGoto(m, IF mig[m].errors = {} THEN "ok" ELSE "failed")
    /\ UNCHANGED <<scene, tables, requests, clean, cycle, disc, sync, calls>>

MigrationStep(m) ==
    \/ ValidateNodeCapacity(m) \/ AllocateClientIP(m) \/ CheckIPConflict(m)
    \/ UpdateNode(m) \/ AddToTarget(m) \/ AddReturned(m) \/ RemoveFromSource(m)
    \/ RemoveReturned(m) \/ EndMigration(m)
-----------------------------------------------------------------------------
(***************************************************************************)
(* DisconnectPeer of a peer that may be on its way to another node.        *)
(***************************************************************************)
DiscGoto(d, pc) == disc' = [disc EXCEPT ![d].pc = pc]

DisconnectPeer(d, p) ==
    /\ d \in scene /\ disc[d].pc = "idle" /\ Present(p)
    /\ disc' = [disc EXCEPT ![d] = [pc |-> "getNode", peer |-> p,
                                    node |-> peers[p].node]]
    /\ UNCHANGED <<scene, tables, requests, clean, cycle, mig, sync, calls>>

RemoveFromNode(d) ==
    LET n == disc[d].node IN
    /\ disc[d].pc = "getNode"
    /\ \/ Sound /\ HasRow(n) /\ RemovePeer(d, n, disc[d].peer)
          /\ DiscGoto(d, "remove")
       \/ /\ (Sound /\ ~HasRow(n)) \/ Db
          /\ DiscGoto(d, "mark") /\ UNCHANGED call
    /\ UNCHANGED <<scene, tables, requests, clean, cycle, mig, sync, wg, file>>

RemovedFromNode(d) ==
    /\ disc[d].pc = "remove" /\ call[d].pc \in Returned
    /\ DiscGoto(d, "mark")
    /\ NoneFor(d)
    /\ UNCHANGED <<scene, tables, requests, clean, cycle, mig, sync, wg, file, faults>>

\* peer.Service.Remove: mark, best effort, and delete.
MarkRemoving(d) ==
    LET p == disc[d].peer IN
    /\ disc[d].pc = "mark"
    /\ \/ /\ Sound /\ Present(p)
          /\ peers' = [peers EXCEPT ![p].status = "removing"]
          /\ DiscGoto(d, "delete")
       \/ Db /\ Present(p) /\ DiscGoto(d, "delete") /\ UNCHANGED peers
       \/ Sound /\ ~Present(p) /\ DiscGoto(d, "done") /\ UNCHANGED peers
    /\ UNCHANGED <<scene, status, subnets, requests, clean, cycle, mig, sync, wg, file, call>>

DeletePeer(d) ==
    /\ disc[d].pc = "delete"
    /\ \/ Sound /\ peers' = [peers EXCEPT ![disc[d].peer] = NoPeer]
       \/ Db /\ UNCHANGED peers
    /\ DiscGoto(d, "done")
    /\ UNCHANGED <<scene, status, subnets, requests, clean, cycle, mig, sync, wg, file, call>>

DisconnectStep(d) ==
    RemoveFromNode(d) \/ RemovedFromNode(d) \/ MarkRemoving(d) \/ DeletePeer(d)
-----------------------------------------------------------------------------
(***************************************************************************)
(* SyncPeers with the rows of the node.  The dump's first line, which is   *)
(* the interface itself, is parsed as a peer too and removed in vain; that *)
(* call is left out.  Errors of the single calls are only logged.          *)
(***************************************************************************)
\* live: the peers with an endpoint.  None is wanted, so they are always
\* updated.
peerNeedsUpdate(s, live, p) ==
    wg[SyncNode][p] # s[p] \/ p \in live

SyncPeers(s) ==
    LET current == {p \in Peers : wg[SyncNode][p] # Absent}
        desired == Rows(SyncNode)
        wanted == {p \in Peers : desired[p] # Absent}
    IN
    /\ s \in scene /\ sync[s].pc = "idle"
    /\ \/ \E live \in SUBSET current :
            LET change == {p \in current \cap wanted :
                              peerNeedsUpdate(desired, live, p)} IN
            /\ Sound
            /\ sync' = [sync EXCEPT ![s] = [pc |-> "run", desired |-> desired,
                   drop |-> current \ wanted, change |-> change,
                   add |-> wanted \ current,
                   kept |-> (current \cap wanted) \ change,
                   clash |-> {p \in wanted : \E q \in wanted \ {p} :
                                 wg[SyncNode][q] = desired[p]}]]
       \/ Fault("ssh") /\ sync' = [sync EXCEPT ![s].pc = "failed"]
    /\ UNCHANGED <<scene, tables, requests, clean, cycle, mig, disc, wg, file, call>>

\* First the peers nobody wants, then the list, in the caller's order.
SyncOne(s) ==
    LET f == sync[s] IN
    /\ f.pc = "run" /\ call[s] = NoCall
    /\ \/ \E p \in f.drop :
            /\ RemovePeer(s, SyncNode, p)
            /\ sync' = [sync EXCEPT ![s].drop = @ \ {p}]
       \/ /\ f.drop = {}
          /\ \E p \in f.change :
               /\ UpdatePeer(s, SyncNode, p, f.desired[p])
               /\ sync' = [sync EXCEPT ![s].change = @ \ {p}]
       \/ /\ f.drop = {}
          /\ \E p \in f.add :
               /\ AddPeer(s, SyncNode, p, f.desired[p])
               /\ sync' = [sync EXCEPT ![s].add = @ \ {p}]
    /\ UNCHANGED <<scene, tables, requests, clean, cycle, mig, disc, wg, file, faults>>

SyncReturned(s) ==
    /\ sync[s].pc = "run" /\ call[s].pc \in Returned
    /\ NoneFor(s)
    /\ UNCHANGED <<scene, tables, requests, clean, frames, wg, file, faults>>

EndSync(s) ==
    LET f == sync[s] IN
    /\ f.pc = "run" /\ call[s] = NoCall
    /\ f.drop \cup f.change \cup f.add = {}
    /\ sync' = [sync EXCEPT ![s].pc = "done"]
    /\ UNCHANGED <<scene, tables, requests, clean, cycle, mig, disc, calls>>

\* RestartWireGuard between two calls: the interface is what the file says.
RestartWireGuard(s) ==
    /\ s \in scene /\ sync[s].pc = "done"
    /\ \/ Sound /\ wg' = [wg EXCEPT ![SyncNode] = file[SyncNode]]
       \/ Fault("ssh") /\ UNCHANGED wg
    /\ UNCHANGED <<scene, tables, requests, clean, frames, file, call>>

SyncStep(s) == SyncOne(s) \/ SyncReturned(s) \/ EndSync(s)
-----------------------------------------------------------------------------
\* The server of a node that is being destroyed may be gone: every command
\* that is left fails.  Of those that save, nobody notices.
Unreachable(c) ==
    LET f == call[c] IN
    /\ f.pc \notin Returned \cup {"idle"} /\ ~Standing(f.node)
    /\ Goto(c, IF f.pc \in {"save", "show", "write"} /\ f.after = "ok"
               THEN "ok" ELSE "failed")
    /\ UNCHANGED <<wg, file, faults>>

RemoteStep(c) ==
    /\ \/ call[c].pc # "idle" /\ status[call[c].node] # "deleted" /\ CallStep(c)
       \/ Unreachable(c)
    /\ UNCHANGED <<scene, tables, requests, clean, frames>>

Next ==
    \/ \E c \in Cycles : ListActiveNodes(c) \/ CycleStep(c)
    \/ Provision
    \/ \E k \in Cleaners : CleanupOrphanedNodes(k) \/ CleanStep(k)
    \/ \E m \in Migrations : MigratePeersFromNode(m) \/ MigrationStep(m)
    \/ \E d \in Disconnects : \E p \in Peers : DisconnectPeer(d, p)
    \/ \E d \in Disconnects : DisconnectStep(d)
    \/ \E s \in Syncs : SyncPeers(s) \/ SyncStep(s) \/ RestartWireGuard(s)
    \/ \E c \in Callers : RemoteStep(c)

(***************************************************************************)
(* A goroutine that was started goes on, in its remote calls too: each is  *)
(* bounded by a timeout.                                                   *)
(***************************************************************************)
Fairness ==
    /\ \A c \in Cycles : WF_vars(CycleStep(c))
    /\ \A k \in Cleaners : WF_vars(CleanStep(k))
    /\ \A m \in Migrations : WF_vars(MigrationStep(m) \/ RemoteStep(m))
    /\ \A d \in Disconnects : WF_vars(DisconnectStep(d) \/ RemoteStep(d))
    /\ \A s \in Syncs : WF_vars(SyncStep(s) \/ RemoteStep(s))

Spec == Init /\ [][Next]_vars /\ Fairness
-----------------------------------------------------------------------------
(***************************************************************************)
(* What is checked.                                                        *)
(***************************************************************************)
Disconnected == {disc[d].peer : d \in Disconnects}
Migrated == UNION {mig[m].moved : m \in Migrations}
Logged == UNION {mig[m].errors \cup mig[m].warned : m \in Migrations}
OnTheWay == {mig[m].peer : m \in Migrations}
Moving == scene \cap Syncs = {}

\* However many nodes come and go, two subnets never share an address, and
\* every subnet has a gateway outside its range of client addresses
\* (GenerateSubnetCIDR, NewSubnet, FindNextAvailableSubnet).
SubnetsDisjoint ==
    \A n \in Nodes : subnets[n] # NoSubnet =>
        /\ subnets[n].gateway \notin subnets[n].start .. subnets[n].end
        /\ \A m \in Nodes \ {n} : subnets[m] # NoSubnet =>
              (subnets[n].network .. Broadcast(subnets[n].network))
              \cap (subnets[m].network .. Broadcast(subnets[m].network)) = {}

\* No two rows have one address, and a row is on a node that has one.  It has
\* a client address of that node's range, as long as the node has a range:
\* cleanupUnusedSubnets takes the range of a node that is not active away from
\* under the rows, and another node may get it (peer.Service.Migrate,
\* the UNIQUE and FOREIGN KEY constraints, ReleaseNodeSubnet).
AddressesSound ==
    \A p \in Peers : Present(p) =>
        LET s == subnets[peers[p].node] IN
        /\ HasRow(peers[p].node)
        /\ s # NoSubnet => peers[p].ip \in s.start .. s.end
        /\ \A q \in Peers : Present(q) /\ peers[q].ip = peers[p].ip => q = p

\* FindNextAvailableIP gives the lowest free client address, and fails only
\* when there is none; GetAvailableIPCount says how many there are.
AllocationExact ==
    \A n \in Nodes : subnets[n] # NoSubnet =>
        LET free == (subnets[n].start .. subnets[n].end) \ AllocatedIPs(n)
            i == FindNextAvailableIP(subnets[n], AllocatedIPs(n))
        IN  /\ AvailableIPs(Cardinality(AllocatedIPs(n))) = Cardinality(free)
            /\ IF free = {} THEN i = NoAddress
               ELSE i \in free /\ \A j \in free : i <= j

\* The address space stays sound whatever nodes are created, destroyed and
\* robbed of their subnets while migrations overlap: disjoint subnets, one
\* address per row, in its node's range while there is one, and an allocator
\* that misses no address of a range (ip/config.go, ip/allocation.go,
\* ip/service.go, services/resource_cleanup_service.go).
AddressSpaceSound == SubnetsDisjoint /\ AddressesSound /\ AllocationExact

\* The clean-up has not begun to destroy the source or the target of a
\* migration.  It may: a source whose rows have all been moved counts as an
\* orphan (cleanupOrphanedNodes), and takes with it the entry a peer depends on
\* until its target has it.
RoutesStand ==
    \A m \in Migrations \cap scene :
        Standing(Route[m].source) /\ Standing(Route[m].target)

\* A migration takes a peer off its old node only when the new one has it:
\* no peer that keeps its row is without a node to talk to, whatever fails.
NeverCutOff ==
    Moving => \A p \in Peers : Present(p) /\ p \notin Disconnected =>
        \E n \in Nodes : wg[n][p] \in Addresses

\* A peer that counts as migrated is configured where its row says, with the
\* row's address (migrateSinglePeer returned nil).
MigratedIsConfigured ==
    \A p \in Migrated \ Disconnected : Present(p) =>
        wg[peers[p].node][p] = peers[p].ip

\* A key left on a node other than its row's is one that a migration has in
\* hand, or that the log has an error or a warning for.
LeftBehindIsLogged ==
    Moving => \A n \in Nodes, p \in Peers \ Disconnected :
        wg[n][p] # Absent /\ ~(Present(p) /\ peers[p].node = n)
            => p \in Logged \cup OnTheWay

\* A migration that fails at any step, or meets another one, a disconnection,
\* a rotation or a clean-up, leaves every peer served, and nothing behind that
\* the log does not name - until its source or its target is being destroyed
\* (services/node_rotation_service.go, migrateSinglePeer).
MigrationSound ==
    RoutesStand => NeverCutOff /\ MigratedIsConfigured /\ LeftBehindIsLogged

\* While nothing fails, overlapping calls leave a file that agrees with the
\* interface of a node that is not being destroyed: a restart would lose nobody
\* and bring nobody back.
FileIsCurrent ==
    \A n \in Nodes :
        faults = 0 /\ Standing(n) /\ (\A c \in Callers : call[c].node = n => call[c].pc \in Returned)
            => file[n] = wg[n]

\* SyncPeers, without faults and alone, leaves exactly the wanted peers, from whatever
\* the interface was; but for those whose address another wanted peer had:
\* AddPeer refuses it unless that one's turn came first, and SyncPeers reports
\* success without them.
SyncConverges ==
    \A s \in Syncs : sync[s].pc = "done" /\ faults = 0 =>
        \A p \in Peers :
            \/ wg[SyncNode][p] = sync[s].desired[p]
            \/ p \in sync[s].clash /\ wg[SyncNode][p] = Absent

\* SyncPeers never touches a peer that was right and had no endpoint, even
\* when calls for the others fail.
SyncKeepsGood ==
    \A s \in Syncs : sync[s].pc = "run" =>
        \A p \in sync[s].kept : wg[SyncNode][p] = sync[s].desired[p]

\* The interface, its file and what a synchronisation was asked for agree
\* after overlapping calls (infrastructure/remote/wireguard.go).
InterfaceSound == FileIsCurrent /\ SyncConverges /\ SyncKeepsGood

\* Every call that was started returns, whatever fails.
CallsReturn ==
    /\ \A c \in Cycles : cycle[c].pc = "check" ~> cycle[c].pc \in Returned
    /\ \A k \in Cleaners : clean[k].pc = "count" ~> clean[k].pc = "done"
    /\ \A m \in Migrations : mig[m].pc = "capacity" ~> mig[m].pc \in Returned
    /\ \A d \in Disconnects : disc[d].pc = "getNode" ~> disc[d].pc = "done"
    /\ \A s \in Syncs : sync[s].pc = "run" ~> sync[s].pc = "done"
=============================================================================
