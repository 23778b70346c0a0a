------------------------- MODULE PeerConnectionProofs -------------------------
(***************************************************************************)
(* Proofs about PeerConnection, for any sets of nodes, keys, requests,     *)
(* disconnectors and cleaners, any number of addresses and every fault:    *)
(* its state is typed, and it uses the table "peers" as PeerTable says.    *)
(***************************************************************************)
EXTENDS PeerConnection, WellFoundedInduction, TLAPS

USE PeerAssumption

-----------------------------------------------------------------------------
(***************************************************************************)
(* What the helpers do to the types of the variables.                      *)
(***************************************************************************)

\* A frame that moves to a position whose fields it has is a frame.
LEMMA GotoType ==
  ASSUME TypeOK, NEW r \in Requests, NEW p \in ConnPhases, Goto(r, p),
         p \notin {"idle", "dead"} => conn[r].key \in Keys,
         p \notin NoNode => conn[r].node \in Nodes,
         p \in WithIP => conn[r].ip \in IPs
  PROVE  conn' \in [Requests -> Conn]
  <1>1. conn \in [Requests -> Conn]
    BY DEF TypeOK
  <1>2. [conn[r] EXCEPT !.pc = p] \in Conn
    BY <1>1 DEF Conn
  <1> QED BY <1>1, <1>2 DEF Goto

\* The tracker's handlers leave a tracker.
LEMMA TrackerType ==
  ASSUME TypeOK, NEW r \in Requests
  PROVE  /\ handleConnectRequested(tracker, r) \in [Requests -> Entry]
         /\ handleConnectProgress(tracker, r) \in [Requests -> Entry]
         /\ handleConnected(tracker, r) \in [Requests -> Entry]
         /\ handleConnectFailed(tracker, r) \in [Requests -> Entry]
  BY DEF TypeOK, handleConnectRequested, handleConnectProgress,
         handleConnected, handleConnectFailed, Entry

\* What a frame knows at its position.
LEMMA FrameFields ==
  ASSUME TypeOK, NEW r \in Requests
  PROVE  /\ conn[r].pc \in ConnPhases
         /\ conn[r].pc \notin {"idle", "dead"} => conn[r].key \in Keys
         /\ conn[r].pc \notin NoNode => conn[r].node \in Nodes
         /\ conn[r].pc \in WithIP => conn[r].ip \in IPs
  BY DEF TypeOK, Conn

\* handleConnectionError keeps frame and tracker typed.
LEMMA FailType ==
  ASSUME TypeOK, NEW r \in Requests, Fail(r),
         conn[r].pc \notin {"idle", "dead"}
  PROVE  conn' \in [Requests -> Conn] /\ tracker' \in [Requests -> Entry]
  <1>1. conn' \in [Requests -> Conn]
    <2>1. Goto(r, "failed") /\ "failed" \in ConnPhases
          /\ "failed" \in NoNode /\ "failed" \notin WithIP
      BY DEF Fail, ConnPhases, NoNode, WithIP
    <2>2. conn[r].key \in Keys
      BY FrameFields
    <2> QED BY <2>1, <2>2, GotoType
  <1>2. tracker' \in [Requests -> Entry]
    BY TrackerType DEF Fail
  <1> QED BY <1>1, <1>2

\* Marking and deleting leave rows.
LEMMA RemovalType ==
  ASSUME TypeOK, NEW p \in Requests,
         MarkRemoving(p) \/ CannotRemove(p) \/ DeletePeer(p)
  PROVE  peers' \in [Requests -> Peer \cup {NoPeer}]
  <1>1. peers \in [Requests -> Peer \cup {NoPeer}]
    BY DEF TypeOK
  <1>2. CASE UNCHANGED peers
    BY <1>1, <1>2
  <1>3. CASE peers' = [peers EXCEPT ![p] = NoPeer]
    BY <1>1, <1>3
  <1>4. CASE Present(p) /\ peers' = [peers EXCEPT ![p].status = "removing"]
    <2>1. peers[p] \in Peer
      BY <1>1, <1>4 DEF Present
    <2>2. [peers[p] EXCEPT !.status = "removing"] \in Peer
      BY <2>1 DEF Peer
    <2> QED BY <1>1, <1>4, <2>2
  <1> QED BY <1>2, <1>3, <1>4 DEF MarkRemoving, CannotRemove, DeletePeer

\* "wg set" leaves an interface.
LEMMA SetType ==
  ASSUME TypeOK, NEW n \in Nodes, NEW k \in Keys, NEW i \in IPs,
         SetPeer(n, k, i)
  PROVE  wg' \in [Nodes -> [Keys -> IPs \cup {NoIP, Absent}]]
  BY DEF TypeOK, SetPeer

\* So does "wg set peer ... remove", and a removal over SSH.
LEMMA RemovePeerType ==
  ASSUME TypeOK, NEW n \in Nodes, NEW k \in Keys, RemovePeer(n, k)
  PROVE  wg' \in [Nodes -> [Keys -> IPs \cup {NoIP, Absent}]]
  <1>1. wg \in [Nodes -> [Keys -> IPs \cup {NoIP, Absent}]]
    BY DEF TypeOK
  <1>2. CASE UNCHANGED wg
    BY <1>1, <1>2
  <1>3. CASE wg' = [wg EXCEPT ![n][k] = Absent]
    <2>1. [wg[n] EXCEPT ![k] = Absent] \in [Keys -> IPs \cup {NoIP, Absent}]
      BY <1>1
    <2> QED BY <1>1, <1>3, <2>1
  <1> QED BY <1>2, <1>3 DEF RemovePeer, UnsetPeer

\* A non-empty set of natural numbers has a least element.
LEMMA LeastExists ==
  ASSUME NEW T, T \subseteq Nat, T # {}
  PROVE  \E i \in T : \A j \in T : i <= j
  <1>1. PICK x \in T : \A y \in T : ~(<<y, x>> \in OpToRel(<, Nat))
    BY NatLessThanWellFounded, WFMin
  <1>2. \A y \in T : ~(y < x)
    BY <1>1 DEF OpToRel
  <1> QED BY <1>2

\* FindNextAvailableIP returns a free address of the range, if any.
LEMMA FindIPType ==
  ASSUME NEW n, IPs \ AllocatedIPs(n) # {}
  PROVE  FindNextAvailableIP(n) \in IPs \ AllocatedIPs(n)
  <1>1. IPs \ AllocatedIPs(n) \subseteq Nat
    BY DEF IPs
  <1>2. \E i \in IPs \ AllocatedIPs(n) :
            \A j \in IPs \ AllocatedIPs(n) : i <= j
    BY <1>1, LeastExists
  <1> QED BY <1>2 DEF FindNextAvailableIP
-----------------------------------------------------------------------------
\* Every step of processConnectionRequest keeps the state typed.
LEMMA ConnectType ==
  ASSUME TypeOK, NEW r \in Requests, ConnectStep(r)
  PROVE  TypeOK'
  <1> DEFINE f == conn[r]
  <1>0. conn \in [Requests -> Conn] /\ f \in Conn
    BY DEF TypeOK
  <1> USE DEF At, ConnPhases, NoNode, WithIP
  <1>1. CASE selectNode(r)
    <2>1. f.pc = "select" /\ f.key \in Keys
      BY <1>1, FrameFields DEF selectNode
    <2>2. CASE Fail(r)
      <3>1. conn' \in [Requests -> Conn] /\ tracker' \in [Requests -> Entry]
        BY <2>1, <2>2, FailType
      <3> QED BY <1>1, <3>1 DEF selectNode, TypeOK
    <2>3. ASSUME NEW n \in Nodes, Progress(r),
                 conn' = [conn EXCEPT ![r].pc = "capacity", ![r].node = n]
          PROVE  TypeOK'
      <3>1. [f EXCEPT !.pc = "capacity", !.node = n] \in Conn
        BY <1>0, <2>1 DEF Conn
      <3>2. conn' \in [Requests -> Conn]
        BY <1>0, <2>3, <3>1
      <3>3. tracker' \in [Requests -> Entry]
        BY <2>3, TrackerType DEF Progress
      <3> QED BY <1>1, <3>2, <3>3 DEF selectNode, TypeOK
    <2> QED BY <1>1, <2>2, <2>3 DEF selectNode
  <1>2. CASE ValidateNodeCapacity(r)
    <2>1. f.pc = "capacity" /\ f.key \in Keys /\ f.node \in Nodes
      BY <1>2, FrameFields DEF ValidateNodeCapacity
    <2>2. CASE Fail(r)
      <3>1. conn' \in [Requests -> Conn] /\ tracker' \in [Requests -> Entry]
        BY <2>1, <2>2, FailType
      <3> QED BY <1>2, <3>1 DEF ValidateNodeCapacity, TypeOK
    <2>3. CASE Goto(r, "allocate") /\ Progress(r)
      <3>1. conn' \in [Requests -> Conn]
        BY <2>1, <2>3, GotoType
      <3>2. tracker' \in [Requests -> Entry]
        BY <2>3, TrackerType DEF Progress
      <3> QED BY <1>2, <3>1, <3>2 DEF ValidateNodeCapacity, TypeOK
    <2> QED BY <1>2, <2>2, <2>3 DEF ValidateNodeCapacity
  <1>3. CASE AllocateClientIP(r)
    <2>1. f.pc = "allocate" /\ f.key \in Keys /\ f.node \in Nodes
      BY <1>3, FrameFields DEF AllocateClientIP
    <2>2. CASE Fail(r)
      <3>1. conn' \in [Requests -> Conn] /\ tracker' \in [Requests -> Entry]
        BY <2>1, <2>2, FailType
      <3> QED BY <1>3, <3>1 DEF AllocateClientIP, TypeOK
    <2>3. CASE /\ IPs \ AllocatedIPs(f.node) # {}
               /\ conn' = [conn EXCEPT ![r].pc = "check",
                                       ![r].ip = FindNextAvailableIP(f.node)]
               /\ Progress(r)
      <3> DEFINE i == FindNextAvailableIP(f.node)
      <3>1. i \in IPs
        BY <2>3, FindIPType
      <3>2. [f EXCEPT !.pc = "check", !.ip = i] \in Conn
        <4> HIDE DEF i
        <4> QED BY <1>0, <2>1, <3>1 DEF Conn
      <3>3. conn' \in [Requests -> Conn]
        BY <1>0, <2>3, <3>2
      <3>4. tracker' \in [Requests -> Entry]
        BY <2>3, TrackerType DEF Progress
      <3> QED BY <1>3, <3>3, <3>4 DEF AllocateClientIP, TypeOK
    <2> QED BY <1>3, <2>2, <2>3 DEF AllocateClientIP
  <1>4. CASE CheckConflicts(r)
    <2>1. f.pc = "check" /\ f.key \in Keys /\ f.node \in Nodes /\ f.ip \in IPs
      BY <1>4, FrameFields DEF CheckConflicts
    <2>2. CASE Fail(r)
      <3>1. conn' \in [Requests -> Conn] /\ tracker' \in [Requests -> Entry]
        BY <2>1, <2>2, FailType
      <3> QED BY <1>4, <3>1 DEF CheckConflicts, TypeOK
    <2>3. CASE Goto(r, "create") /\ UNCHANGED tracker
      <3>1. conn' \in [Requests -> Conn]
        BY <2>1, <2>3, GotoType
      <3> QED BY <1>4, <2>3, <3>1 DEF CheckConflicts, TypeOK
    <2> QED BY <1>4, <2>2, <2>3 DEF CheckConflicts
  <1>5. CASE Create(r)
    <2>1. f.pc = "create" /\ f.key \in Keys /\ f.node \in Nodes /\ f.ip \in IPs
      BY <1>5, FrameFields DEF Create
    <2>2. CASE Fail(r) /\ UNCHANGED peers
      <3>1. conn' \in [Requests -> Conn] /\ tracker' \in [Requests -> Entry]
        BY <2>1, <2>2, FailType
      <3> QED BY <1>5, <2>2, <3>1 DEF Create, TypeOK
    <2>3. CASE /\ peers' = [peers EXCEPT ![r] =
                     [node |-> f.node, key |-> f.key, ip |-> f.ip,
                      status |-> "active"]]
               /\ Goto(r, "list") /\ Progress(r)
      <3>1. conn' \in [Requests -> Conn]
        BY <2>1, <2>3, GotoType
      <3>2. tracker' \in [Requests -> Entry]
        BY <2>3, TrackerType DEF Progress
      <3>3. peers' \in [Requests -> Peer \cup {NoPeer}]
        BY <2>1, <2>3 DEF TypeOK, Peer
      <3> QED BY <1>5, <3>1, <3>2, <3>3 DEF Create, TypeOK
    <2> QED BY <1>5, <2>2, <2>3 DEF Create
  <1>6. CASE ListPeers(r)
    <2>1. f.pc = "list" /\ f.key \in Keys /\ f.node \in Nodes /\ f.ip \in IPs
      BY <1>6, FrameFields DEF ListPeers
    <2>2. conn' \in [Requests -> Conn]
      BY <1>6, <2>1, GotoType DEF ListPeers
    <2> QED BY <1>6, <2>2 DEF ListPeers, TypeOK
  <1>7. CASE SetCommand(r)
    <2>1. f.pc = "set" /\ f.key \in Keys /\ f.node \in Nodes /\ f.ip \in IPs
      BY <1>7, FrameFields DEF SetCommand
    <2>2. conn' \in [Requests -> Conn]
      BY <1>7, <2>1, GotoType DEF SetCommand
    <2>3. wg' \in [Nodes -> [Keys -> IPs \cup {NoIP, Absent}]]
      BY <1>7, <2>1, SetType DEF SetCommand, TypeOK
    <2> QED BY <1>7, <2>2, <2>3 DEF SetCommand, TypeOK
  <1>8. CASE validatePeerAddition(r)
    <2>1. f.pc = "verify" /\ f.key \in Keys /\ f.node \in Nodes /\ f.ip \in IPs
      BY <1>8, FrameFields DEF validatePeerAddition
    <2>2. conn' \in [Requests -> Conn]
      BY <1>8, <2>1, GotoType DEF validatePeerAddition
    <2> QED BY <1>8, <2>2 DEF validatePeerAddition, TypeOK
  <1>9. CASE UndoAddition(r)
    <2>1. f.pc = "undo" /\ f.key \in Keys /\ f.node \in Nodes /\ f.ip \in IPs
      BY <1>9, FrameFields DEF UndoAddition
    <2>2. conn' \in [Requests -> Conn]
      BY <1>9, <2>1, GotoType DEF UndoAddition
    <2>3. wg' \in [Nodes -> [Keys -> IPs \cup {NoIP, Absent}]]
      BY <1>9, <2>1, RemovePeerType DEF UndoAddition
    <2> QED BY <1>9, <2>2, <2>3 DEF UndoAddition, TypeOK
  <1>10. CASE MarkFailed(r)
    <2>1. f.pc = "mark" /\ f.key \in Keys /\ f.node \in Nodes /\ f.ip \in IPs
      BY <1>10, FrameFields DEF MarkFailed
    <2>2. peers' \in [Requests -> Peer \cup {NoPeer}]
      BY <1>10, RemovalType DEF MarkFailed
    <2>3. CASE Fail(r)
      <3>1. conn' \in [Requests -> Conn] /\ tracker' \in [Requests -> Entry]
        BY <2>1, <2>3, FailType
      <3> QED BY <1>10, <2>2, <3>1 DEF MarkFailed, TypeOK
    <2>4. CASE Goto(r, "delete") /\ UNCHANGED tracker
      <3>1. conn' \in [Requests -> Conn]
        BY <2>1, <2>4, GotoType
      <3> QED BY <1>10, <2>2, <2>4, <3>1 DEF MarkFailed, TypeOK
    <2> QED BY <1>10, <2>3, <2>4 DEF MarkFailed
  <1>11. CASE DeleteFailed(r)
    <2>1. f.pc = "delete"
      BY <1>11 DEF DeleteFailed
    <2>2. peers' \in [Requests -> Peer \cup {NoPeer}]
      BY <1>11, RemovalType DEF DeleteFailed
    <2>3. conn' \in [Requests -> Conn] /\ tracker' \in [Requests -> Entry]
      BY <1>11, <2>1, FailType DEF DeleteFailed
    <2> QED BY <1>11, <2>2, <2>3 DEF DeleteFailed, TypeOK
  <1>12. CASE ReportConnected(r)
    <2>1. f.pc = "report" /\ f.key \in Keys /\ f.node \in Nodes /\ f.ip \in IPs
      BY <1>12, FrameFields DEF ReportConnected
    <2>2. conn' \in [Requests -> Conn]
      BY <1>12, <2>1, GotoType DEF ReportConnected
    <2>3. tracker' \in [Requests -> Entry]
      BY <1>12, TrackerType DEF ReportConnected
    <2> QED BY <1>12, <2>2, <2>3 DEF ReportConnected, TypeOK
  <1> QED BY <1>1, <1>2, <1>3, <1>4, <1>5, <1>6, <1>7, <1>8, <1>9, <1>10,
             <1>11, <1>12 DEF ConnectStep

\* So does accepting a request.
LEMMA AcceptType ==
  ASSUME TypeOK, NEW r \in Requests, NEW k \in Keys, ConnectPeerAsync(r, k)
  PROVE  TypeOK'
  <1> DEFINE f == conn[r]
  <1>0. conn \in [Requests -> Conn] /\ f \in Conn
    BY DEF TypeOK
  <1>1. /\ [f EXCEPT !.pc = "known", !.key = k] \in Conn
        /\ [f EXCEPT !.pc = "select", !.key = k] \in Conn
    BY <1>0 DEF Conn, ConnPhases, NoNode, WithIP
  <1>2. conn' \in [Requests -> Conn]
    BY <1>0, <1>1 DEF ConnectPeerAsync
  <1>3. tracker' \in [Requests -> Entry]
    BY TrackerType DEF ConnectPeerAsync, TypeOK
  <1> QED BY <1>2, <1>3 DEF ConnectPeerAsync, TypeOK

\* Disconnecting keeps the state typed.
LEMMA DisconnectType ==
  ASSUME TypeOK, NEW d \in Disconnectors,
         DisconnectStep(d) \/ \E p \in Requests : DisconnectPeer(d, p)
  PROVE  TypeOK'
  <1> DEFINE f == remover[d]
  <1>0. /\ remover \in [Disconnectors -> Remover] /\ f \in Remover
        /\ IdleRemover \in Remover
        /\ f.pc # "idle" => f.peer \in Requests /\ f.node \in Nodes /\ f.key \in Keys
    BY DEF TypeOK, Remover, IdleRemover
  <1>1. ASSUME NEW p \in Requests, DisconnectPeer(d, p)
        PROVE  TypeOK'
    <2>1. peers[p] \in Peer
      BY <1>1 DEF DisconnectPeer, TypeOK, Present
    <2>2. [pc |-> "getNode", peer |-> p, node |-> peers[p].node,
           key |-> peers[p].key] \in Remover
      BY <2>1 DEF Peer, Remover
    <2> QED BY <1>0, <1>1, <2>2 DEF DisconnectPeer, TypeOK
  <1>2. ASSUME f.pc # "idle", NEW pc \in {"remove", "mark", "delete"}
        PROVE  [remover EXCEPT ![d].pc = pc] \in [Disconnectors -> Remover]
    <2>1. [f EXCEPT !.pc = pc] \in Remover
      BY <1>0, <1>2 DEF Remover
    <2> QED BY <1>0, <2>1
  <1>3. CASE GetNode(d)
    BY <1>2, <1>3 DEF GetNode, TypeOK
  <1>4. CASE RemoveFromNode(d)
    <2>1. wg' \in [Nodes -> [Keys -> IPs \cup {NoIP, Absent}]]
      BY <1>0, <1>4, RemovePeerType DEF RemoveFromNode
    <2> QED BY <1>2, <1>4, <2>1 DEF RemoveFromNode, TypeOK
  <1>5. CASE MarkDisconnected(d)
    <2>1. peers' \in [Requests -> Peer \cup {NoPeer}]
      BY <1>0, <1>5, RemovalType DEF MarkDisconnected
    <2>2. remover' \in [Disconnectors -> Remover]
      BY <1>0, <1>2, <1>5 DEF MarkDisconnected
    <2> QED BY <1>5, <2>1, <2>2 DEF MarkDisconnected, TypeOK
  <1>6. CASE DeleteDisconnected(d)
    <2>1. peers' \in [Requests -> Peer \cup {NoPeer}]
      BY <1>0, <1>6, RemovalType DEF DeleteDisconnected
    <2> QED BY <1>0, <1>6, <2>1 DEF DeleteDisconnected, TypeOK
  <1> QED BY <1>1, <1>3, <1>4, <1>5, <1>6 DEF DisconnectStep

\* So does the clean-up of inactive peers.
LEMMA CleanType ==
  ASSUME TypeOK, NEW c \in Cleaners, ListInactive(c) \/ CleanStep(c)
  PROVE  TypeOK'
  <1>0. cleaner \in [Cleaners -> Cleaner] /\ cleaner[c] \in Cleaner
    BY DEF TypeOK
  <1>1. CASE ListInactive(c)
    <2>1. [cleaner[c] EXCEPT !.todo = GetInactive] \in Cleaner
      BY <1>0 DEF Cleaner, GetInactive
    <2> QED BY <1>0, <1>1, <2>1 DEF ListInactive, TypeOK
  <1>2. CASE MarkInactive(c)
    <2>1. PICK p \in cleaner[c].todo :
             \/ /\ MarkRemoving(p)
                /\ cleaner' = [cleaner EXCEPT ![c].current = p, ![c].todo = @ \ {p}]
             \/ CannotRemove(p) /\ cleaner' = [cleaner EXCEPT ![c].todo = @ \ {p}]
      BY <1>2 DEF MarkInactive
    <2>2. p \in Requests
      BY <1>0 DEF Cleaner
    <2>3. /\ [cleaner[c] EXCEPT !.current = p, !.todo = @ \ {p}] \in Cleaner
          /\ [cleaner[c] EXCEPT !.todo = @ \ {p}] \in Cleaner
      BY <1>0, <2>2 DEF Cleaner
    <2>4. cleaner' \in [Cleaners -> Cleaner]
      BY <1>0, <2>1, <2>3
    <2>5. peers' \in [Requests -> Peer \cup {NoPeer}]
      BY <2>1, <2>2, RemovalType
    <2> QED BY <1>2, <2>4, <2>5 DEF MarkInactive, TypeOK
  <1>3. CASE DeleteInactive(c)
    <2>1. cleaner[c].current \in Requests
      BY <1>0, <1>3 DEF DeleteInactive, Cleaner
    <2>2. peers' \in [Requests -> Peer \cup {NoPeer}]
      BY <1>3, <2>1, RemovalType DEF DeleteInactive
    <2>3. [cleaner[c] EXCEPT !.current = "none"] \in Cleaner
      BY <1>0 DEF Cleaner
    <2>4. cleaner' \in [Cleaners -> Cleaner]
      BY <1>0, <1>3, <2>3 DEF DeleteInactive
    <2> QED BY <1>3, <2>2, <2>4 DEF DeleteInactive, TypeOK
  <1> QED BY <1>1, <1>2, <1>3 DEF CleanStep

NodeStep(n) ==
    ListOrphaned(n) \/ MarkDestroying(n) \/ DestroyServer(n) \/ DeleteNode(n)

\* So does the destruction of a node.
LEMMA NodeType ==
  ASSUME TypeOK, NEW n \in Nodes, NodeStep(n)
  PROVE  TypeOK'
  <1> USE DEF NodeStates
  <1>1. CASE ListOrphaned(n)
    BY <1>1 DEF ListOrphaned, TypeOK
  <1>2. CASE MarkDestroying(n)
    BY <1>2 DEF MarkDestroying, TypeOK
  <1>3. CASE DestroyServer(n)
    <2>1. node' \in [Nodes -> NodeStates]
      BY <1>3 DEF DestroyServer, TypeOK
    <2>2. wg' \in [Nodes -> [Keys -> IPs \cup {NoIP, Absent}]]
      BY <1>3 DEF DestroyServer, TypeOK
    <2> QED BY <1>3, <2>1, <2>2 DEF DestroyServer, TypeOK
  <1>4. CASE DeleteNode(n)
    <2>1. node' \in [Nodes -> NodeStates]
      BY <1>4 DEF DeleteNode, RowDeleted, TypeOK
    <2>2. peers' \in [Requests -> Peer \cup {NoPeer}]
      BY <1>4 DEF DeleteNode, TypeOK
    <2> QED BY <1>4, <2>1, <2>2 DEF DeleteNode, TypeOK
  <1> QED BY <1>1, <1>2, <1>3, <1>4 DEF NodeStep

\* So does a restart.
LEMMA CrashType ==
  ASSUME TypeOK, Crash
  PROVE  TypeOK'
  <1>1. tracker' \in [Requests -> Entry]
    BY DEF Crash, Entry
  <1>2. conn' \in [Requests -> Conn]
    <2>1. [NewConn EXCEPT !.pc = "dead"] \in Conn
      BY DEF NewConn, Conn, ConnPhases, NoNode, WithIP
    <2> QED BY <2>1 DEF Crash, TypeOK
  <1>3. remover' \in [Disconnectors -> Remover]
    BY DEF Crash, Remover, IdleRemover
  <1>4. cleaner' \in [Cleaners -> Cleaner]
    BY DEF Crash, Cleaner, IdleCleaner
  <1>5. node' \in [Nodes -> NodeStates]
    BY DEF Crash, TypeOK, NodeStates
  <1> QED BY <1>1, <1>2, <1>3, <1>4, <1>5 DEF Crash, TypeOK

\* Next by actor.
LEMMA NextSplit ==
  ASSUME Next
  PROVE  \/ \E r \in Requests : ConnectStep(r)
         \/ \E r \in Requests, k \in Keys : ConnectPeerAsync(r, k)
         \/ \E d \in Disconnectors :
               DisconnectStep(d) \/ \E p \in Requests : DisconnectPeer(d, p)
         \/ \E c \in Cleaners : ListInactive(c) \/ CleanStep(c)
         \/ \E n \in Nodes : NodeStep(n)
         \/ Crash
  BY DEF Next, NodeStep

\* Every state of every behaviour is typed: the choices of nodes, addresses
\* and frames stay in their sets, for any numbers of everything.
THEOREM TypeCorrect == Spec => []TypeOK
  <1>1. Init => TypeOK
    <2>1. NewConn \in Conn
      BY DEF NewConn, Conn, ConnPhases, NoNode, WithIP
    <2>2. IdleRemover \in Remover /\ IdleCleaner \in Cleaner
      BY DEF IdleRemover, Remover, IdleCleaner, Cleaner
    <2> QED BY <2>1, <2>2 DEF Init, TypeOK, NodeStates, Entry
  <1>2. TypeOK /\ [Next]_vars => TypeOK'
    <2> SUFFICES ASSUME TypeOK, [Next]_vars PROVE TypeOK'
      OBVIOUS
    <2>1. CASE UNCHANGED vars
      BY <2>1 DEF vars, TypeOK
    <2>2. CASE Next
      BY <2>2, NextSplit, ConnectType, AcceptType, DisconnectType, CleanType,
         NodeType, CrashType
    <2> QED BY <2>1, <2>2
  <1> QED BY <1>1, <1>2, PTL DEF Spec

-----------------------------------------------------------------------------
(***************************************************************************)
(* PeerConnection implements PeerTable under every fault, and what follows *)
(* for the rows.                                                           *)
(***************************************************************************)

NodeRows == {n \in Nodes : HasNodeRow(n)}
tableVars == <<peers, Used, NodeRows>>

\* The instance's names for rows are this module's.
LEMMA SameRows == Table!NoPeer = NoPeer /\ Table!Peer = Peer
  BY DEF Table!NoPeer, Table!Peer, NoPeer, Peer

\* A row is present when it has a node, or a status.
LEMMA PresentRow ==
  ASSUME TypeOK, NEW p \in Requests
  PROVE  /\ Table!Present(p) <=> Present(p)
         /\ Present(p) <=> peers[p] \in Peer
         /\ Present(p) <=> peers[p].node \in Nodes
         /\ Present(p) <=> peers[p].status # "none"
         /\ ~Present(p) => peers[p] = NoPeer
  <1>1. peers[p] \in Peer \cup {NoPeer}
    BY DEF TypeOK
  <1>2. NoPeer.node \notin Nodes /\ NoPeer.status = "none"
    BY DEF NoPeer
  <1>3. \A x \in Peer : x.node \in Nodes /\ x.status # "none"
    BY DEF Peer
  <1> QED BY <1>1, <1>2, <1>3, SameRows DEF Present, Table!Present

\* Work that changes no row gives up ids at most.
LEMMA NoTableChange ==
  ASSUME UNCHANGED peers, NodeRows' = NodeRows, Used \subseteq Used'
  PROVE  [Table!Next]_tableVars
  <1>1. Used' \in SUBSET Requests /\ Used' = Used \cup Used'
    BY DEF Used
  <1>2. Table!Abandon(Used')
    BY <1>1 DEF Table!Abandon, NodeRows
  <1> QED BY <1>1, <1>2 DEF Table!Next

\* The two halves of a removal are a Mark and a Delete, or nothing.
LEMMA RemovalRefines ==
  ASSUME TypeOK, NEW p \in Requests,
         MarkRemoving(p) \/ CannotRemove(p) \/ DeletePeer(p),
         NodeRows' = NodeRows, Used' = Used
  PROVE  [Table!Next]_tableVars
  <1>1. CASE UNCHANGED peers
    BY <1>1, NoTableChange
  <1>2. CASE Present(p) /\ peers' = [peers EXCEPT ![p].status = "removing"]
    <2>1. Table!Mark(p)
      BY <1>2, PresentRow DEF Table!Mark, NodeRows
    <2> QED BY <2>1 DEF Table!Next
  <1>3. CASE peers' = [peers EXCEPT ![p] = NoPeer]
    <2>1. Table!Delete(p)
      BY <1>3, SameRows DEF Table!Delete, NodeRows
    <2> QED BY <2>1 DEF Table!Next
  <1> QED BY <1>1, <1>2, <1>3 DEF MarkRemoving, CannotRemove, DeletePeer

\* A frame that moves leaves the others alone.
LEMMA GotoOthers ==
  ASSUME TypeOK, NEW r \in Requests, NEW pc, Goto(r, pc)
  PROVE  /\ \A q \in Requests : q # r => conn'[q] = conn[q]
         /\ conn'[r].pc = pc /\ conn'[r].key = conn[r].key
         /\ conn'[r].node = conn[r].node /\ conn'[r].ip = conn[r].ip
  <1>1. conn \in [Requests -> Conn] /\ conn[r] \in Conn
    BY DEF TypeOK
  <1> QED BY <1>1 DEF Goto, Conn

\* Used grows by the frame that moves past the insertion.
LEMMA UsedMoves ==
  ASSUME TypeOK, NEW r \in Requests,
         \A q \in Requests : q # r => conn'[q] = conn[q]
  PROVE  /\ conn[r].pc \in BeforeCreate => Used \subseteq Used'
         /\ conn'[r].pc \notin BeforeCreate => Used' = Used \cup {r}
         /\ conn[r].pc \in BeforeCreate /\ conn'[r].pc \in BeforeCreate
               => Used' = Used
  BY DEF Used

\* Every step of processConnectionRequest is a step of the table.
LEMMA ConnectRefines ==
  ASSUME TypeOK, NEW r \in Requests, ConnectStep(r)
  PROVE  [Table!Next]_tableVars
  <1> DEFINE f == conn[r]
  <1>0. NodeRows' = NodeRows
    BY DEF ConnectStep, selectNode, ValidateNodeCapacity, AllocateClientIP,
           CheckConflicts, Create, ListPeers, SetCommand,
           validatePeerAddition, UndoAddition, MarkFailed, DeleteFailed,
           ReportConnected, NodeRows, HasNodeRow
  <1> USE DEF At, BeforeCreate
  <1>1. CASE Fail(r) /\ UNCHANGED peers
    <2>1. Goto(r, "failed")
      BY <1>1 DEF Fail
    <2>2. Used' = Used \cup {r}
      BY <2>1, GotoOthers, UsedMoves
    <2> QED BY <1>0, <1>1, <2>2, NoTableChange
  <1>2. CASE selectNode(r)
    <2>1. CASE \E n \in Nodes :
                 conn' = [conn EXCEPT ![r].pc = "capacity", ![r].node = n]
      <3>1. \A q \in Requests : q # r => conn'[q] = conn[q]
        BY <2>1 DEF TypeOK
      <3>2. Used \subseteq Used'
        BY <1>2, <3>1, UsedMoves DEF selectNode
      <3> QED BY <1>0, <1>2, <3>2, NoTableChange DEF selectNode
    <2> QED BY <1>1, <1>2, <2>1 DEF selectNode
  <1>3. CASE ValidateNodeCapacity(r)
    <2>1. CASE Goto(r, "allocate")
      <3>1. Used \subseteq Used'
        BY <1>3, <2>1, GotoOthers, UsedMoves DEF ValidateNodeCapacity
      <3> QED BY <1>0, <1>3, <3>1, NoTableChange DEF ValidateNodeCapacity
    <2> QED BY <1>1, <1>3, <2>1 DEF ValidateNodeCapacity
  <1>4. CASE AllocateClientIP(r)
    <2>1. CASE conn' = [conn EXCEPT ![r].pc = "check",
                                    ![r].ip = FindNextAvailableIP(f.node)]
      <3>1. \A q \in Requests : q # r => conn'[q] = conn[q]
        BY <2>1 DEF TypeOK
      <3>2. Used \subseteq Used'
        BY <1>4, <3>1, UsedMoves DEF AllocateClientIP
      <3> QED BY <1>0, <1>4, <3>2, NoTableChange DEF AllocateClientIP
    <2> QED BY <1>1, <1>4, <2>1 DEF AllocateClientIP
  <1>5. CASE CheckConflicts(r)
    <2>1. CASE Goto(r, "create")
      <3>1. Used \subseteq Used'
        BY <1>5, <2>1, GotoOthers, UsedMoves DEF CheckConflicts
      <3> QED BY <1>0, <1>5, <3>1, NoTableChange DEF CheckConflicts
    <2> QED BY <1>1, <1>5, <2>1 DEF CheckConflicts
  <1>6. CASE Create(r)
    <2> DEFINE row == [node |-> f.node, key |-> f.key, ip |-> f.ip,
                       status |-> "active"]
    <2>1. CASE /\ CanInsert(f)
               /\ peers' = [peers EXCEPT ![r] = row]
               /\ Goto(r, "list")
      <3>1. f.pc = "create" /\ f.key \in Keys /\ f.node \in Nodes /\ f.ip \in IPs
        BY <1>6, FrameFields DEF Create, NoNode, WithIP, ConnPhases
      <3>2. row \in Table!Peer /\ row.status = "active"
        BY <3>1, SameRows DEF Peer
      <3>3. r \notin Used
        BY <3>1 DEF Used
      <3>4. Used' = Used \cup {r}
        BY <2>1, GotoOthers, UsedMoves
      <3>5. row.node \in NodeRows
        BY <2>1, <3>1 DEF CanInsert, NodeRows
      <3>6. \A q \in Requests : /\ peers[q].key # row.key
                                /\ peers[q].node = row.node => peers[q].ip # row.ip
        BY <2>1 DEF CanInsert, KeyTaken, IPTaken
      <3>7. Table!Insert(r, row)
        BY <1>0, <2>1, <3>3, <3>4, <3>5, <3>6 DEF Table!Insert, NodeRows
      <3> QED BY <3>2, <3>7 DEF Table!Next
    <2> QED BY <1>1, <1>6, <2>1 DEF Create
  <1>7. ASSUME NEW pc, Goto(r, pc), f.pc \notin BeforeCreate, pc \notin BeforeCreate
        PROVE  Used' = Used
    <2>1. Used' = Used \cup {r}
      BY <1>7, GotoOthers, UsedMoves
    <2> QED BY <1>7, <2>1 DEF Used
  <1>8. CASE ListPeers(r) \/ SetCommand(r) \/ validatePeerAddition(r)
             \/ UndoAddition(r) \/ ReportConnected(r)
    <2>1. UNCHANGED peers /\ f.pc \notin BeforeCreate
      BY <1>8 DEF ListPeers, SetCommand, validatePeerAddition, UndoAddition,
                  ReportConnected
    <2>2. \E pc \in {"mark", "set", "verify", "report", "undo", "done"} : Goto(r, pc)
      BY <1>8 DEF ListPeers, SetCommand, validatePeerAddition, UndoAddition,
                  ReportConnected
    <2>3. Used' = Used
      BY <1>7, <2>1, <2>2
    <2> QED BY <1>0, <2>1, <2>3, NoTableChange
  <1>9. CASE MarkFailed(r) \/ DeleteFailed(r)
    <2>1. /\ f.pc \notin BeforeCreate
          /\ Goto(r, "delete") \/ Goto(r, "failed")
          /\ MarkRemoving(r) \/ CannotRemove(r) \/ DeletePeer(r)
      BY <1>9 DEF MarkFailed, DeleteFailed, Fail
    <2>2. Used' = Used
      BY <1>7, <2>1
    <2> QED BY <1>0, <2>1, <2>2, RemovalRefines
  <1> QED BY <1>2, <1>3, <1>4, <1>5, <1>6, <1>8, <1>9 DEF ConnectStep

\* So is every other step.
LEMMA StepRefines == TypeOK /\ [Next]_vars => [Table!Next]_tableVars
  <1> SUFFICES ASSUME TypeOK, [Next]_vars PROVE [Table!Next]_tableVars
    OBVIOUS
  <1>0. ASSUME UNCHANGED <<conn, node>>
        PROVE  Used' = Used /\ NodeRows' = NodeRows
    BY <1>0 DEF Used, NodeRows, HasNodeRow
  <1>1. CASE UNCHANGED vars
    BY <1>0, <1>1, NoTableChange DEF vars
  <1>2. ASSUME NEW r \in Requests, ConnectStep(r)
        PROVE  [Table!Next]_tableVars
    BY <1>2, ConnectRefines
  <1>3. ASSUME NEW r \in Requests, NEW k \in Keys, ConnectPeerAsync(r, k)
        PROVE  [Table!Next]_tableVars
    <2>1. \A q \in Requests : q # r => conn'[q] = conn[q]
      BY <1>3 DEF ConnectPeerAsync, TypeOK
    <2>2. Used \subseteq Used'
      BY <1>3, <2>1, UsedMoves DEF ConnectPeerAsync, At, BeforeCreate
    <2>3. UNCHANGED <<peers, NodeRows>>
      BY <1>3 DEF ConnectPeerAsync, NodeRows, HasNodeRow
    <2> QED BY <2>2, <2>3, NoTableChange
  <1>4. ASSUME NEW d \in Disconnectors,
               DisconnectStep(d) \/ \E p \in Requests : DisconnectPeer(d, p)
        PROVE  [Table!Next]_tableVars
    <2>0. UNCHANGED <<conn, node>>
      BY <1>4 DEF DisconnectStep, DisconnectPeer, GetNode, RemoveFromNode,
                  MarkDisconnected, DeleteDisconnected
    <2>1. CASE UNCHANGED peers
      BY <1>0, <2>0, <2>1, NoTableChange
    <2>2. CASE MarkDisconnected(d) \/ DeleteDisconnected(d)
      <3>1. remover[d].peer \in Requests
        BY <2>2 DEF MarkDisconnected, DeleteDisconnected, TypeOK, Remover
      <3> QED BY <1>0, <2>0, <2>2, <3>1, RemovalRefines
              DEF MarkDisconnected, DeleteDisconnected
    <2> QED BY <1>4, <2>1, <2>2 DEF DisconnectStep, DisconnectPeer, GetNode,
                                    RemoveFromNode
  <1>5. ASSUME NEW c \in Cleaners, ListInactive(c) \/ CleanStep(c)
        PROVE  [Table!Next]_tableVars
    <2>0. UNCHANGED <<conn, node>>
      BY <1>5 DEF ListInactive, CleanStep, MarkInactive, DeleteInactive
    <2>1. CASE UNCHANGED peers
      BY <1>0, <2>0, <2>1, NoTableChange
    <2>2. CASE MarkInactive(c)
      <3>1. cleaner[c].todo \subseteq Requests
        BY DEF TypeOK, Cleaner
      <3>2. \E p \in cleaner[c].todo : MarkRemoving(p) \/ CannotRemove(p)
        BY <2>2 DEF MarkInactive
      <3> QED BY <1>0, <2>0, <3>1, <3>2, RemovalRefines
    <2>3. CASE DeleteInactive(c)
      <3>1. cleaner[c].current \in Requests
        BY <2>3 DEF DeleteInactive, TypeOK, Cleaner
      <3> QED BY <1>0, <2>0, <2>3, <3>1, RemovalRefines DEF DeleteInactive
    <2> QED BY <1>5, <2>1, <2>2, <2>3 DEF ListInactive, CleanStep
  <1>6. ASSUME NEW n \in Nodes, NodeStep(n)
        PROVE  [Table!Next]_tableVars
    <2>0. Used' = Used
      BY <1>6 DEF NodeStep, ListOrphaned, MarkDestroying, DestroyServer,
                  DeleteNode, Used
    <2>1. CASE DeleteNode(n)
      <3>1. NodeRows' = NodeRows \ {n}
        BY <2>1 DEF DeleteNode, RowDeleted, NodeRows, HasNodeRow, TypeOK
      <3>2. Table!DeleteNode(n)
        BY <2>0, <2>1, <3>1, SameRows DEF DeleteNode, Table!DeleteNode, NodeRows
      <3> QED BY <3>2 DEF Table!Next
    <2>2. CASE ListOrphaned(n) \/ MarkDestroying(n) \/ DestroyServer(n)
      <3>1. NodeRows' = NodeRows /\ UNCHANGED peers
        BY <2>2 DEF ListOrphaned, MarkDestroying, DestroyServer, NodeRows,
                    HasNodeRow, TypeOK
      <3> QED BY <2>0, <3>1, NoTableChange
    <2> QED BY <1>6, <2>1, <2>2 DEF NodeStep
  <1>7. CASE Crash
    <2>1. NodeRows' = NodeRows
      BY <1>7 DEF Crash, NodeRows, HasNodeRow
    <2>2. Used \subseteq Used'
      BY <1>7 DEF Crash, Used, BeforeCreate, Ended, NewConn
    <2> QED BY <1>7, <2>1, <2>2, NoTableChange DEF Crash
  <1> QED BY <1>1, <1>2, <1>3, <1>4, <1>5, <1>6, <1>7, NextSplit

\* The start is the start of the table.
LEMMA InitRefines == Init => Table!Init
  BY SameRows DEF Init, Table!Init, Used, BeforeCreate, NewConn, HasNodeRow

\* Connections, disconnections, clean-ups, destructions and restarts, in any
\* number and interleaving and under every fault, implement PeerTable.
THEOREM ConnectionImplementsTable == Spec => ImplementsTable
  BY InitRefines, StepRefines, TypeCorrect, PTL
     DEF Spec, ImplementsTable, Table!Spec, tableVars, NodeRows
-----------------------------------------------------------------------------
\* A step of the table keeps uniqueness and the foreign key.
LEMMA TableKeepsSound ==
  ASSUME TypeOK, TypeOK', RowsSound, [Table!Next]_tableVars
  PROVE  RowsSound'
  <1>0. Table!Unique /\ Table!HasNode /\ peers \in [Requests -> Peer \cup {NoPeer}]
    BY DEF RowsSound, TypeOK
  <1> USE SameRows DEF Table!Unique, Table!HasNode, Table!Present, RowsSound
  <1>1. CASE UNCHANGED tableVars
    BY <1>0, <1>1 DEF tableVars, NodeRows
  <1>2. ASSUME NEW p \in Requests, NEW row \in Peer, Table!Insert(p, row)
        PROVE  RowsSound'
    BY <1>0, <1>2 DEF Table!Insert
  <1>3. ASSUME NEW S \in SUBSET Requests, Table!Abandon(S)
        PROVE  RowsSound'
    BY <1>0, <1>3 DEF Table!Abandon
  <1>4. ASSUME NEW p \in Requests, Table!Mark(p)
        PROVE  RowsSound'
    <2>1. \A q \in Requests :
             /\ peers'[q].key = peers[q].key /\ peers'[q].ip = peers[q].ip
             /\ peers'[q].node = peers[q].node
             /\ peers'[q] # NoPeer => peers[q] # NoPeer
      BY <1>0, <1>4 DEF Table!Mark, Peer, NoPeer
    <2> QED BY <1>0, <1>4, <2>1 DEF Table!Mark
  <1>5. ASSUME NEW p \in Requests, Table!Delete(p)
        PROVE  RowsSound'
    BY <1>0, <1>5 DEF Table!Delete
  <1>6. ASSUME NEW n \in Nodes, Table!DeleteNode(n)
        PROVE  RowsSound'
    <2>1. \A q \in Requests : peers'[q] # NoPeer
                               => peers'[q] = peers[q] /\ peers[q].node # n
      BY <1>0, <1>6 DEF Table!DeleteNode
    <2> QED BY <1>0, <1>6, <2>1 DEF Table!DeleteNode
  <1> QED BY <1>1, <1>2, <1>3, <1>4, <1>5, <1>6 DEF Table!Next

\* Under every fault, no two rows share a key or an address of a node, and
\* every row has its node.
THEOREM RowsStaySound == Spec => []RowsSound
  <1>1. Init => RowsSound
    BY SameRows DEF Init, RowsSound, Table!Unique, Table!HasNode, Table!Present
  <1>2. TypeOK /\ TypeOK' /\ RowsSound /\ [Next]_vars => RowsSound'
    BY StepRefines, TableKeepsSound
  <1> QED BY <1>1, <1>2, TypeCorrect, PTL DEF Spec
=============================================================================
