--------------------------- MODULE PeerConnection ---------------------------
(***************************************************************************)
(* Peers: everything that creates, changes or removes a row of "peers" or  *)
(* a peer of a node's WireGuard interface.                                 *)
(*                                                                         *)
(*   conn        PeerConnectionService.processConnectionRequest, one       *)
(*               goroutine per request, with AddPeer on the node           *)
(*   remover     PeerConnectionService.DisconnectPeer                      *)
(*   cleaner     ResourceCleanupService.cleanupInactivePeers               *)
(*   node        a node being found orphaned and destroyed (NodeLifecycle  *)
(*               has the details)                                          *)
(*                                                                         *)
(* One action is one database or remote call with the local work after it. *)
(***************************************************************************)
EXTENDS Integers, FiniteSets, ConnectionTracker

CONSTANTS
    Nodes,            \* nodes that are active at the start
    BusyElsewhere,    \* how many nodes not in Nodes have active peers
    Keys,             \* public keys of clients
    Requests,         \* request ids; also the ids of the peers they create
    NumIPs,           \* client addresses of a node's subnet
    MaxPeers,         \* MaxPeersPerNode
    Disconnectors,    \* concurrent calls of DisconnectPeer
    Cleaners,         \* concurrent runs of cleanupInactivePeers
    FromList,         \* ids to disconnect are also taken from ListPeers
    Faults            \* what the environment may do, a subset of AllFaults

(***************************************************************************)
(*   ssh      a remote command fails and has no effect                     *)
(*   lost     "wg set" takes effect, the answer is an error                *)
(*   db       a database call fails                                        *)
(*   orphan   a node without peers is found and destroyed                  *)
(*   destroy  Hetzner fails to delete a server                             *)
(*   crash    the process dies and is started again                        *)
(***************************************************************************)
AllFaults == {"ssh", "lost", "db", "orphan", "destroy", "crash"}

ASSUME PeerAssumption ==
    /\ NumIPs \in Nat
    /\ MaxPeers \in Nat \ {0}
    /\ BusyElsewhere \in Nat
    /\ FromList \in BOOLEAN
    /\ Faults \subseteq AllFaults
    /\ "none" \notin Nodes \cup Keys \cup Requests

IPs == 1 .. NumIPs
\* What "wg show" says of a key: no such peer, or its allowed IP; NoIP when
\* the address was given to another peer since.
Absent == -1
NoIP == 0

VARIABLES
    node,     \* the state of a node: its row and its server
    peers,    \* table peers: Requests -> Peer or NoPeer
    wg,       \* external: the WireGuard interfaces, Nodes -> Keys -> address
    tracker,  \* PeerConnectionStateTracker.connectionStates
    conn,     \* the stack frame of processConnectionRequest
    remover,  \* the stack frame of DisconnectPeer
    cleaner   \* the stack frame of cleanupInactivePeers

vars == <<node, peers, wg, tracker, conn, remover, cleaner>>

NoPeer == [node |-> "none", key |-> "none", ip |-> 0, status |-> "none"]
Peer == [node : Nodes, key : Keys, ip : IPs, status : {"active", "removing"}]

\* listed: about to be destroyed; down, kept: the server was deleted or could
\* not be; gone, left: the same with the row deleted.
NodeStates == {"active", "listed", "destroying", "down", "kept", "gone", "left"}

ConnPhases == {"idle", "select", "capacity", "allocate", "check", "create",
               "list", "set", "verify", "undo", "mark", "delete", "report",
               "known", "done", "failed", "dead"}
Ended == {"known", "done", "failed", "dead"}
\* Before a node is known, and once an address is.
NoNode == {"idle", "select", "known", "failed", "dead"}
WithIP == ConnPhases \ (NoNode \cup {"capacity", "allocate"})
Conn ==
    {f \in [pc : ConnPhases, key : Keys \cup {"none"},
            node : Nodes \cup {"none"}, ip : IPs \cup {0}] :
        /\ f.pc \notin {"idle", "dead"} => f.key \in Keys
        /\ f.pc \notin NoNode => f.node \in Nodes
        /\ f.pc \in WithIP => f.ip \in IPs}
NewConn == [pc |-> "idle", key |-> "none", node |-> "none", ip |-> 0]

Remover ==
    {f \in [pc : {"idle", "getNode", "remove", "mark", "delete"},
            peer : Requests \cup {"none"}, node : Nodes \cup {"none"},
            key : Keys \cup {"none"}] :
        f.pc # "idle" => f.peer \in Requests /\ f.node \in Nodes /\ f.key \in Keys}
IdleRemover == [pc |-> "idle", peer |-> "none", node |-> "none", key |-> "none"]

Cleaner == [current : Requests \cup {"none"}, todo : SUBSET Requests]
IdleCleaner == [current |-> "none", todo |-> {}]

TypeOK ==
    /\ node \in [Nodes -> NodeStates]
    /\ peers \in [Requests -> Peer \cup {NoPeer}]
    /\ wg \in [Nodes -> [Keys -> IPs \cup {NoIP, Absent}]]
    /\ tracker \in [Requests -> Entry]
    /\ conn \in [Requests -> Conn]
    /\ remover \in [Disconnectors -> Remover]
    /\ cleaner \in [Cleaners -> Cleaner]

Init ==
    /\ node = [n \in Nodes |-> "active"]
    /\ peers = [p \in Requests |-> NoPeer]
    /\ wg = [n \in Nodes |-> [k \in Keys |-> Absent]]
    /\ tracker = [r \in Requests |-> "absent"]
    /\ conn = [r \in Requests |-> NewConn]
    /\ remover = [d \in Disconnectors |-> IdleRemover]
    /\ cleaner = [c \in Cleaners |-> IdleCleaner]

-----------------------------------------------------------------------------
(***************************************************************************)
(* The tables and the interface.                                           *)
(***************************************************************************)
Present(p) == peers[p] # NoPeer
NodeActive(n) == node[n] \in {"active", "listed"}
HasNodeRow(n) == node[n] \notin {"gone", "left"}
Reachable(n) == node[n] \notin {"down", "gone"}

Db == "db" \in Faults
SshFails(n) == "ssh" \in Faults \/ ~Reachable(n)

\* nodes.connected_clients: NewNode sets it to zero and no caller of
\* UpdateConnectedClients or UpdateHealth exists.
ConnectedClients(n) == 0

\* Node.ValidateCapacity for one more peer.
ValidateCapacity(n) == NodeActive(n) /\ ConnectedClients(n) + 1 <= MaxPeers

AllocatedIPs(n) == {peers[p].ip : p \in {q \in Requests : peers[q].node = n}}

\* Allocation by count, with the gateway's address counted twice.
BadFindNextAvailableIP(n) == Cardinality(AllocatedIPs(n)) + 2

\* The first address of the range that no row of the node holds.
FindNextAvailableIP(n) ==
    CHOOSE i \in IPs \ AllocatedIPs(n) : \A j \in IPs \ AllocatedIPs(n) : i <= j

KeyTaken(k) == \E q \in Requests : peers[q].key = k
IPTaken(n, i) == \E q \in Requests : peers[q].node = n /\ peers[q].ip = i

\* External: "wg set peer k allowed-ips i".  An interface gives an address
\* to one peer only, the last one it was set for.
SetPeer(n, k, i) ==
    wg' = [wg EXCEPT ![n] = [q \in Keys |->
              IF q = k THEN i ELSE IF wg[n][q] = i THEN NoIP ELSE wg[n][q]]]

\* External: "wg set peer k remove".
UnsetPeer(n, k) == wg' = [wg EXCEPT ![n][k] = Absent]

(***************************************************************************)
(* SSHNodeInteractor.RemovePeer.  Its look at the existing peers and the   *)
(* removal have the effect of a removal at one of the two moments.         *)
(***************************************************************************)
\* A removal that reports success without doing anything.
BadRemovePeer(n, k) == UNCHANGED wg

RemovePeer(n, k) ==
    \/ Reachable(n) /\ UnsetPeer(n, k)
    \/ SshFails(n) /\ UNCHANGED wg

\* peer.Service.Remove: a row that exists is marked (best effort) ...
MarkRemoving(p) ==
    /\ Present(p)
    /\ \/ peers' = [peers EXCEPT ![p].status = "removing"]
       \/ Db /\ UNCHANGED peers

CannotRemove(p) == (Db \/ ~Present(p)) /\ UNCHANGED peers

\* ... and deleted; the statement does not care whether the row exists.
DeletePeer(p) ==
    \/ peers' = [peers EXCEPT ![p] = NoPeer]
    \/ Db /\ UNCHANGED peers
-----------------------------------------------------------------------------
(***************************************************************************)
(* Connecting.                                                             *)
(***************************************************************************)
At(r, pc) == conn[r].pc = pc
Goto(r, pc) == conn' = [conn EXCEPT ![r].pc = pc]
Progress(r) == tracker' = handleConnectProgress(tracker, r)

\* A return without handleConnectionError.
BadFail(r) == Goto(r, "failed") /\ UNCHANGED tracker

\* handleConnectionError and return.
Fail(r) ==
    /\ tracker' = handleConnectFailed(tracker, r)
    /\ Goto(r, "failed")

(***************************************************************************)
(* A request whose key has a row is answered at once, with a request id    *)
(* that no event is ever published for; a lookup that fails counts as "no  *)
(* such peer".  Otherwise the event reaches the tracker and the worker,    *)
(* which starts a goroutine.                                               *)
(***************************************************************************)
ConnectPeerAsync(r, k) ==
    /\ At(r, "idle")
    /\ \/ /\ KeyTaken(k)
          /\ conn' = [conn EXCEPT ![r].pc = "known", ![r].key = k]
          /\ UNCHANGED tracker
       \/ /\ ~KeyTaken(k) \/ Db
          /\ conn' = [conn EXCEPT ![r].pc = "select", ![r].key = k]
          /\ tracker' = handleConnectRequested(tracker, r)
    /\ UNCHANGED <<node, peers, wg, remover, cleaner>>

\* selectNodeWithProgress; the strategies differ in which of the candidates
\* they take.
selectNode(r) ==
    /\ At(r, "select")
    /\ \/ \E n \in Nodes :
            /\ ValidateCapacity(n)
            /\ conn' = [conn EXCEPT ![r].pc = "capacity", ![r].node = n]
            /\ Progress(r)
       \/ (Db \/ \A n \in Nodes : ~ValidateCapacity(n)) /\ Fail(r)
    /\ UNCHANGED <<node, peers, wg, remover, cleaner>>

ValidateNodeCapacity(r) ==
    /\ At(r, "capacity")
    /\ \/ ValidateCapacity(conn[r].node) /\ Goto(r, "allocate") /\ Progress(r)
       \/ (Db \/ ~ValidateCapacity(conn[r].node)) /\ Fail(r)
    /\ UNCHANGED <<node, peers, wg, remover, cleaner>>

\* The address is chosen from the rows and reserved by nothing.
AllocateClientIP(r) ==
    LET n == conn[r].node IN
    /\ At(r, "allocate")
    /\ \/ /\ HasNodeRow(n) /\ IPs \ AllocatedIPs(n) # {}
          /\ conn' = [conn EXCEPT ![r].pc = "check",
                                  ![r].ip = FindNextAvailableIP(n)]
          /\ Progress(r)
       \/ /\ Db \/ ~HasNodeRow(n) \/ IPs \subseteq AllocatedIPs(n)
          /\ Fail(r)
    /\ UNCHANGED <<node, peers, wg, remover, cleaner>>

\* peer.Service.Create: the two conflict checks ...
CheckConflicts(r) ==
    LET taken == KeyTaken(conn[r].key) \/ IPTaken(conn[r].node, conn[r].ip) IN
    /\ At(r, "check")
    /\ \/ ~taken /\ Goto(r, "create") /\ UNCHANGED tracker
       \/ (Db \/ taken) /\ Fail(r)
    /\ UNCHANGED <<node, peers, wg, remover, cleaner>>

\* An insertion that relies on the checks made before it.
BadCanInsert(f) == HasNodeRow(f.node)

\* ... and the insertion, under the table's constraints.
CanInsert(f) == /\ HasNodeRow(f.node)
                /\ ~KeyTaken(f.key)
                /\ ~IPTaken(f.node, f.ip)

Create(r) ==
    LET f == conn[r] IN
    /\ At(r, "create")
    /\ \/ /\ CanInsert(f)
          /\ peers' = [peers EXCEPT ![r] = [node |-> f.node, key |-> f.key,
                                            ip |-> f.ip, status |-> "active"]]
          /\ Goto(r, "list")
          /\ Progress(r)
       \/ (Db \/ ~CanInsert(f)) /\ Fail(r) /\ UNCHANGED peers
    /\ UNCHANGED <<node, wg, remover, cleaner>>

(***************************************************************************)
(* SSHNodeInteractor.AddPeer: refuse a key or an address the interface has *)
(* already - unless the list cannot be read -, set, look whether it is     *)
(* there, else remove it again.  A failure removes the row.                *)
(***************************************************************************)
ListPeers(r) ==
    LET f == conn[r]
        conflict == \E k \in Keys : \/ k = f.key /\ wg[f.node][k] # Absent
                                    \/ wg[f.node][k] = f.ip
    IN
    /\ At(r, "list")
    /\ \/ Reachable(f.node) /\ conflict /\ Goto(r, "mark")
       \/ Reachable(f.node) /\ ~conflict /\ Goto(r, "set")
       \/ SshFails(f.node) /\ Goto(r, "set")
    /\ UNCHANGED <<node, peers, wg, tracker, remover, cleaner>>

\* An error of the command that is logged and not returned.
BadSetCommand(r) ==
    LET f == conn[r] IN
    /\ At(r, "set")
    /\ \/ Reachable(f.node) /\ SetPeer(f.node, f.key, f.ip)
       \/ SshFails(f.node) /\ UNCHANGED wg
    /\ Goto(r, "report")
    /\ UNCHANGED <<node, peers, tracker, remover, cleaner>>

SetCommand(r) ==
    LET f == conn[r] IN
    /\ At(r, "set")
    /\ \/ Reachable(f.node) /\ SetPeer(f.node, f.key, f.ip) /\ Goto(r, "verify")
       \/ SshFails(f.node) /\ UNCHANGED wg /\ Goto(r, "mark")
       \/ /\ "lost" \in Faults /\ Reachable(f.node)
          /\ SetPeer(f.node, f.key, f.ip)
          /\ Goto(r, "mark")
    /\ UNCHANGED <<node, peers, tracker, remover, cleaner>>

validatePeerAddition(r) ==
    LET f == conn[r]
        listed == Reachable(f.node) /\ wg[f.node][f.key] # Absent
    IN
    /\ At(r, "verify")
    /\ \/ listed /\ Goto(r, "report")
       \/ (~listed \/ SshFails(f.node)) /\ Goto(r, "undo")
    /\ UNCHANGED <<node, peers, wg, tracker, remover, cleaner>>

UndoAddition(r) ==
    /\ At(r, "undo")
    /\ RemovePeer(conn[r].node, conn[r].key)
    /\ Goto(r, "mark")
    /\ UNCHANGED <<node, peers, tracker, remover, cleaner>>

\* The rollback of AddPeer's failure left out.
BadMarkFailed(r) ==
    /\ At(r, "mark")
    /\ Fail(r)
    /\ UNCHANGED <<node, peers, wg, remover, cleaner>>

MarkFailed(r) ==
    /\ At(r, "mark")
    /\ \/ MarkRemoving(r) /\ Goto(r, "delete") /\ UNCHANGED tracker
       \/ CannotRemove(r) /\ Fail(r)
    /\ UNCHANGED <<node, wg, remover, cleaner>>

DeleteFailed(r) ==
    /\ At(r, "delete")
    /\ DeletePeer(r)
    /\ Fail(r)
    /\ UNCHANGED <<node, wg, remover, cleaner>>

ReportConnected(r) ==
    /\ At(r, "report")
    /\ tracker' = handleConnected(tracker, r)
    /\ Goto(r, "done")
    /\ UNCHANGED <<node, peers, wg, remover, cleaner>>

ConnectStep(r) ==
    \/ selectNode(r) \/ ValidateNodeCapacity(r) \/ AllocateClientIP(r)
    \/ CheckConflicts(r) \/ Create(r) \/ ListPeers(r) \/ SetCommand(r)
    \/ validatePeerAddition(r) \/ UndoAddition(r) \/ MarkFailed(r)
    \/ DeleteFailed(r) \/ ReportConnected(r)
-----------------------------------------------------------------------------
(***************************************************************************)
(* Disconnecting.  A client knows its peer's id once it is connected; the  *)
(* ids of active rows can be had from ListPeers at any time.               *)
(***************************************************************************)
DisconnectPeer(d, p) ==
    /\ remover[d].pc = "idle"
    /\ At(p, "done") \/ (FromList /\ peers[p].status = "active")
    /\ Present(p)
    /\ remover' = [remover EXCEPT ![d] = [pc |-> "getNode", peer |-> p,
                                          node |-> peers[p].node,
                                          key |-> peers[p].key]]
    /\ UNCHANGED <<node, peers, wg, tracker, conn, cleaner>>

\* The node is asked only while it is active.
BadGetNode(d) ==
    LET n == remover[d].node IN
    /\ remover[d].pc = "getNode"
    /\ remover' = [remover EXCEPT ![d].pc =
                       IF NodeActive(n) THEN "remove" ELSE "mark"]
    /\ UNCHANGED <<node, peers, wg, tracker, conn, cleaner>>

\* Without its row the node cannot be asked.
GetNode(d) ==
    LET n == remover[d].node IN
    /\ remover[d].pc = "getNode"
    /\ \/ HasNodeRow(n) /\ remover' = [remover EXCEPT ![d].pc = "remove"]
       \/ (Db \/ ~HasNodeRow(n)) /\ remover' = [remover EXCEPT ![d].pc = "mark"]
    /\ UNCHANGED <<node, peers, wg, tracker, conn, cleaner>>

RemoveFromNode(d) ==
    /\ remover[d].pc = "remove"
    /\ RemovePeer(remover[d].node, remover[d].key)
    /\ remover' = [remover EXCEPT ![d].pc = "mark"]
    /\ UNCHANGED <<node, peers, tracker, conn, cleaner>>

MarkDisconnected(d) ==
    /\ remover[d].pc = "mark"
    /\ \/ /\ MarkRemoving(remover[d].peer)
          /\ remover' = [remover EXCEPT ![d].pc = "delete"]
       \/ /\ CannotRemove(remover[d].peer)
          /\ remover' = [remover EXCEPT ![d] = IdleRemover]
    /\ UNCHANGED <<node, wg, tracker, conn, cleaner>>

DeleteDisconnected(d) ==
    /\ remover[d].pc = "delete"
    /\ DeletePeer(remover[d].peer)
    /\ remover' = [remover EXCEPT ![d] = IdleRemover]
    /\ UNCHANGED <<node, wg, tracker, conn, cleaner>>

DisconnectStep(d) ==
    \/ GetNode(d) \/ RemoveFromNode(d) \/ MarkDisconnected(d)
    \/ DeleteDisconnected(d)
-----------------------------------------------------------------------------
(***************************************************************************)
(* cleanupInactivePeers.  GetInactivePeers takes an active row without a   *)
(* handshake time for inactive, and nothing ever writes that time.  Only   *)
(* the rows are removed.                                                   *)
(***************************************************************************)
GetInactive == {p \in Requests : peers[p].status = "active"}

ListInactive(c) ==
    /\ cleaner[c] = IdleCleaner
    /\ GetInactive # {}
    /\ cleaner' = [cleaner EXCEPT ![c].todo = GetInactive]
    /\ UNCHANGED <<node, peers, wg, tracker, conn, remover>>

MarkInactive(c) ==
    /\ cleaner[c].current = "none"
    /\ \E p \in cleaner[c].todo :
         \/ /\ MarkRemoving(p)
            /\ cleaner' = [cleaner EXCEPT ![c].current = p, ![c].todo = @ \ {p}]
         \/ CannotRemove(p) /\ cleaner' = [cleaner EXCEPT ![c].todo = @ \ {p}]
    /\ UNCHANGED <<node, wg, tracker, conn, remover>>

DeleteInactive(c) ==
    /\ cleaner[c].current # "none"
    /\ DeletePeer(cleaner[c].current)
    /\ cleaner' = [cleaner EXCEPT ![c].current = "none"]
    /\ UNCHANGED <<node, wg, tracker, conn, remover>>

CleanStep(c) == MarkInactive(c) \/ DeleteInactive(c)
-----------------------------------------------------------------------------
(***************************************************************************)
(* A node found orphaned and destroyed (cleanupOrphanedNodes, DestroyNode). *)
(***************************************************************************)
HasActivePeers(n) ==
    \E p \in Requests : peers[p].node = n /\ peers[p].status = "active"

Busy == {n \in Nodes : node[n] = "active" /\ HasActivePeers(n)}

\* Orphans are destroyed only while more than one other node is busy.
ListOrphaned(n) ==
    /\ "orphan" \in Faults
    /\ node[n] = "active"
    /\ ~HasActivePeers(n)
    /\ BusyElsewhere + Cardinality(Busy) > 1
    /\ node' = [node EXCEPT ![n] = "listed"]
    /\ UNCHANGED <<peers, wg, tracker, conn, remover, cleaner>>

\* ValidateForDestruction would refuse a node with connected clients.
MarkDestroying(n) ==
    /\ node[n] = "listed"
    /\ ConnectedClients(n) = 0
    /\ node' = [node EXCEPT ![n] = "destroying"]
    /\ UNCHANGED <<peers, wg, tracker, conn, remover, cleaner>>

\* The row is deleted whether or not the server could be.
DestroyServer(n) ==
    /\ node[n] = "destroying"
    /\ \/ /\ node' = [node EXCEPT ![n] = "down"]
          /\ wg' = [wg EXCEPT ![n] = [k \in Keys |-> Absent]]
       \/ /\ "destroy" \in Faults
          /\ node' = [node EXCEPT ![n] = "kept"]
          /\ UNCHANGED wg
    /\ UNCHANGED <<peers, tracker, conn, remover, cleaner>>

RowDeleted(n) ==
    /\ node[n] \in {"down", "kept"}
    /\ node' = [node EXCEPT ![n] = IF @ = "down" THEN "gone" ELSE "left"]

\* DELETE of the node without ON DELETE CASCADE.
BadDeleteNode(n) ==
    /\ RowDeleted(n)
    /\ UNCHANGED <<peers, wg, tracker, conn, remover, cleaner>>

\* DELETE of the node; its peers go with it.
DeleteNode(n) ==
    /\ RowDeleted(n)
    /\ peers' = [p \in Requests |->
                    IF peers[p].node = n THEN NoPeer ELSE peers[p]]
    /\ UNCHANGED <<wg, tracker, conn, remover, cleaner>>

\* A new process: the tables and the nodes are all that is left.
Crash ==
    /\ "crash" \in Faults
    /\ tracker' = [r \in Requests |-> "absent"]
    /\ conn' = [r \in Requests |->
                   IF conn[r].pc \in Ended \cup {"idle"} THEN conn[r]
                   ELSE [NewConn EXCEPT !.pc = "dead"]]
    /\ remover' = [d \in Disconnectors |-> IdleRemover]
    /\ cleaner' = [c \in Cleaners |-> IdleCleaner]
    /\ node' = [n \in Nodes |-> IF node[n] = "listed" THEN "active" ELSE node[n]]
    /\ UNCHANGED <<peers, wg>>

Next ==
    \/ \E r \in Requests : ConnectStep(r) \/ \E k \in Keys : ConnectPeerAsync(r, k)
    \/ \E d \in Disconnectors :
          DisconnectStep(d) \/ \E p \in Requests : DisconnectPeer(d, p)
    \/ \E c \in Cleaners : ListInactive(c) \/ CleanStep(c)
    \/ \E n \in Nodes : \/ ListOrphaned(n) \/ MarkDestroying(n)
                        \/ DestroyServer(n) \/ DeleteNode(n)
    \/ Crash

Spec == Init /\ [][Next]_vars

\* Goroutines that have started go on: every call has a timeout.
Fairness ==
    /\ \A r \in Requests : WF_vars(ConnectStep(r))
    /\ \A d \in Disconnectors : WF_vars(DisconnectStep(d))

FairSpec == Spec /\ Fairness
-----------------------------------------------------------------------------
(***************************************************************************)
(* Properties.                                                             *)
(***************************************************************************)
\* The table "peers" behaves as PeerTable says under every fault: goroutines
\* that choose the same key or address end with one row, late removals
\* change nothing, and peers go with their node.
BeforeCreate == {"idle", "select", "capacity", "allocate", "check", "create"}
Used == {r \in Requests : conn[r].pc \notin BeforeCreate}
Table == INSTANCE PeerTable WITH Ids <- Requests, Addresses <- IPs,
             used <- Used, nodes <- {n \in Nodes : HasNodeRow(n)}
ImplementsTable == Table!Spec

\* No two rows share a key or, on one node, an address, and every row has
\* its node, whatever the interleaving of choices, checks and insertions.
RowsSound == Table!Unique /\ Table!HasNode

\* The tracker tells every client the truth about its own request until it
\* is over: requested or running while the worker is, then its outcome.
TrackerAgrees ==
    "crash" \notin Faults =>
    \A r \in Requests :
        /\ tracker[r] = "completed" <=> conn[r].pc = "done"
        /\ tracker[r] = "failed" <=> conn[r].pc = "failed"
        /\ tracker[r] = "absent" <=> conn[r].pc \in {"idle", "known"}

\* Removers that have taken the peer off its node.
Removing(p) == \E d \in Disconnectors :
                   remover[d].peer = p /\ remover[d].pc \in {"mark", "delete"}

\* A peer reported as connected stays configured with its address until its
\* own disconnection takes it off the node, whoever else connects, fails or
\* rolls back meanwhile.
ConnectedIsConfigured ==
    \A p \in Requests :
        conn[p].pc = "done" /\ Present(p) /\ Reachable(peers[p].node) =>
            wg[peers[p].node][peers[p].key] = peers[p].ip \/ Removing(p)

\* Nothing stays on a node's interface without its row: the address that
\* FindNextAvailableIP hands out next is free on the node too.
ConfiguredHasRow ==
    \A n \in Nodes, k \in Keys : wg[n][k] # Absent =>
        \E p \in Requests : /\ peers[p].node = n /\ peers[p].key = k
                            /\ peers[p].ip = wg[n][k]

\* A connection that failed leaves no row: AddPeer's failures are followed
\* by the removal of the row, and the removal by the report.
FailedLeavesNoRow == \A p \in Requests : conn[p].pc = "failed" => ~Present(p)

(***************************************************************************)
(* The inductive invariant behind the last three: what a connection holds  *)
(* at each of its steps.                                                   *)
(***************************************************************************)
Row(f, status) ==
    [node |-> f.node, key |-> f.key, ip |-> f.ip, status |-> status]

Configured(f) == wg[f.node][f.key] = f.ip

HoldsRow(p) ==
    LET f == conn[p] IN
    /\ f.pc # "dead"
    /\ f.pc \in BeforeCreate \cup {"known", "failed"} => ~Present(p)
    /\ f.pc \in {"list", "set", "verify", "undo", "mark", "report"}
          /\ HasNodeRow(f.node) => peers[p] = Row(f, "active")
    /\ f.pc = "delete" /\ HasNodeRow(f.node) => peers[p] = Row(f, "removing")
    /\ Present(p) => peers[p] \in {Row(f, "active"), Row(f, "removing")}

HoldsConfig(p) ==
    LET f == conn[p] IN
    /\ f.pc \in {"verify", "undo", "report"}
          /\ HasNodeRow(f.node) /\ Reachable(f.node) => Configured(f)
    /\ f.pc = "done" /\ Present(p) /\ Reachable(f.node)
          => Configured(f) \/ Removing(p)

RemoverInv(d) ==
    LET f == remover[d] IN
    f.pc # "idle" =>
        /\ conn[f.peer].pc = "done"
        /\ conn[f.peer].node = f.node /\ conn[f.peer].key = f.key
        /\ HasNodeRow(f.node) => Present(f.peer)
        /\ f.pc = "delete" /\ Present(f.peer) => peers[f.peer].status = "removing"

\* A database that works, no crash, no clean-up of rows, and a client that
\* disconnects once, when it is connected.
Undisturbed ==
    /\ "db" \notin Faults /\ "crash" \notin Faults
    /\ Cleaners = {}
    /\ ~FromList
    /\ \A d, e \in Disconnectors : d = e

\* Then every connection holds the row and, from "wg set" on, the interface
\* entry that its position says, however remote commands fail.
ConnectionInv ==
    /\ \A p \in Requests : HoldsRow(p) /\ HoldsConfig(p)
    /\ \A d \in Disconnectors : RemoverInv(d)

Truthful == Undisturbed /\ Faults \subseteq {"orphan"}

NotYet(p) ==
    LET f == conn[p] IN
    f.pc \in {"list", "set", "mark", "delete"} /\ HasNodeRow(f.node)
        => wg[f.node][f.key] = Absent

TakenOff(d) ==
    LET f == remover[d] IN
    f.pc \in {"mark", "delete"} /\ HasNodeRow(f.node)
        => wg[f.node][f.key] = Absent

NodeClean(n) ==
    /\ node[n] \notin {"kept", "left"}
    /\ ~Reachable(n) => \A k \in Keys : wg[n][k] = Absent

\* And when remote commands tell the truth, nothing else is configured: a
\* connection holds no entry before "wg set", and none is left behind.
PeerInv ==
    /\ ConnectionInv
    /\ \A p \in Requests : NotYet(p)
    /\ \A d \in Disconnectors : TakenOff(d)
    /\ \A n \in Nodes : NodeClean(n)
    /\ ConfiguredHasRow

\* Every request that was published gets an answer (processConnectionRequest
\* reports on every path), unless the process dies.
RequestsAnswered ==
    \A r \in Requests : tracker[r] = "requested" ~>
                            tracker[r] \in {"completed", "failed"}

(***************************************************************************)
(* What the repository says of this code and the code does not do.         *)
(***************************************************************************)
\* "cannot destroy node with active peers": no server goes down while the
\* table has active peers on it.
DestroyedHaveNoPeers ==
    [][\A n \in Nodes : Reachable(n) /\ ~Reachable(n)'
                           => ~HasActivePeers(n)]_vars
=============================================================================
