------------------------- MODULE PeerInvariantProofs -------------------------
(***************************************************************************)
(* What a connection holds at each of its steps.                           *)
(***************************************************************************)
EXTENDS PeerConnectionProofs

USE PeerAssumption

-----------------------------------------------------------------------------
(***************************************************************************)
(* A failed connection leaves no row, whatever else goes on, as long as    *)
(* the database works.                                                     *)
(***************************************************************************)
Rowless == BeforeCreate \cup {"known", "failed"}
NoRowYet == \A p \in Requests : conn[p].pc \in Rowless => ~Present(p)

\* Rows appear only where a connection inserts its own.
LEMMA RowsAppear ==
  ASSUME TypeOK, Next, NEW p \in Requests, ~Present(p), Present(p)'
  PROVE  Create(p)
  <1>0. peers \in [Requests -> Peer \cup {NoPeer}]
    BY DEF TypeOK
  <1>1. ASSUME NEW q \in Requests,
               MarkRemoving(q) \/ CannotRemove(q) \/ DeletePeer(q)
        PROVE  FALSE
    BY <1>0, <1>1 DEF MarkRemoving, CannotRemove, DeletePeer, Present
  <1>2. ASSUME UNCHANGED peers PROVE FALSE
    BY <1>2 DEF Present
  <1>3. ASSUME NEW r \in Requests, ConnectStep(r)
        PROVE  Create(p)
    <2>1. CASE Create(r)
      <3>1. CASE r = p
        BY <2>1, <3>1
      <3>2. CASE r # p
        BY <1>0, <2>1, <3>2 DEF Create, Present
      <3> QED BY <3>1, <3>2
    <2>2. CASE MarkFailed(r) \/ DeleteFailed(r)
      BY <1>1, <2>2 DEF MarkFailed, DeleteFailed
    <2> QED BY <1>2, <1>3, <2>1, <2>2
            DEF ConnectStep, selectNode, ValidateNodeCapacity,
                AllocateClientIP, CheckConflicts, ListPeers, SetCommand,
                validatePeerAddition, UndoAddition, ReportConnected
  <1>4. ASSUME NEW d \in Disconnectors,
               DisconnectStep(d) \/ \E q \in Requests : DisconnectPeer(d, q)
        PROVE  FALSE
    <2>1. CASE MarkDisconnected(d) \/ DeleteDisconnected(d)
      <3>1. remover[d].peer \in Requests
        BY <2>1 DEF MarkDisconnected, DeleteDisconnected, TypeOK, Remover
      <3> QED BY <1>1, <2>1, <3>1 DEF MarkDisconnected, DeleteDisconnected
    <2> QED BY <1>2, <1>4, <2>1 DEF DisconnectStep, DisconnectPeer, GetNode,
                                    RemoveFromNode
  <1>5. ASSUME NEW c \in Cleaners, ListInactive(c) \/ CleanStep(c)
        PROVE  FALSE
    <2>1. CASE MarkInactive(c)
      <3>1. cleaner[c].todo \subseteq Requests
        BY DEF TypeOK, Cleaner
      <3>2. \E q \in cleaner[c].todo : MarkRemoving(q) \/ CannotRemove(q)
        BY <2>1 DEF MarkInactive
      <3> QED BY <1>1, <3>1, <3>2
    <2>2. CASE DeleteInactive(c)
      <3>1. cleaner[c].current \in Requests
        BY <2>2 DEF DeleteInactive, TypeOK, Cleaner
      <3> QED BY <1>1, <2>2, <3>1 DEF DeleteInactive
    <2> QED BY <1>2, <1>5, <2>1, <2>2 DEF ListInactive, CleanStep
  <1>6. ASSUME NEW n \in Nodes, NodeStep(n)
        PROVE  FALSE
    <2>1. CASE DeleteNode(n)
      BY <1>0, <2>1 DEF DeleteNode, Present
    <2> QED BY <1>2, <1>6, <2>1 DEF NodeStep, ListOrphaned, MarkDestroying,
                                    DestroyServer
  <1>7. ASSUME NEW r \in Requests, NEW k \in Keys, ConnectPeerAsync(r, k)
        PROVE  FALSE
    BY <1>2, <1>7 DEF ConnectPeerAsync
  <1>8. CASE Crash
    BY <1>2, <1>8 DEF Crash
  <1> QED BY <1>3, <1>4, <1>5, <1>6, <1>7, <1>8, NextSplit

\* A connection that comes to be without a row had none or deletes it.
LEMMA FailsWithoutRow ==
  ASSUME TypeOK, "db" \notin Faults, Next, NEW p \in Requests,
         conn[p].pc \notin Rowless, conn'[p].pc \in Rowless
  PROVE  ~Present(p)'
  <1>0. conn' # conn
    OBVIOUS
  <1>1. ASSUME NEW r \in Requests, ConnectStep(r)
        PROVE  ~Present(p)'
    <2>1. CASE r # p
      <3>1. conn'[p] = conn[p]
        BY <1>1, <2>1 DEF ConnectStep, selectNode, ValidateNodeCapacity,
             AllocateClientIP, CheckConflicts, Create, ListPeers, SetCommand,
             validatePeerAddition, UndoAddition, MarkFailed, DeleteFailed,
             ReportConnected, Goto, Fail, TypeOK
      <3> QED BY <3>1
    <2>2. CASE r = p
      <3>1. CASE MarkFailed(p)
        <4>1. ~Goto(p, "delete")
          BY GotoOthers DEF Rowless, BeforeCreate
        <4> QED BY <3>1, <4>1 DEF MarkFailed, CannotRemove, Present, Db
      <3>2. CASE DeleteFailed(p)
        BY <3>2 DEF DeleteFailed, DeletePeer, Db, Present, TypeOK
      <3>3. CASE \E pc \in ConnPhases \ Rowless : Goto(p, pc)
        BY <3>3, GotoOthers
      <3>4. CASE conn[p].pc \in BeforeCreate
        BY <3>4 DEF Rowless
      <3> QED BY <1>1, <2>2, <3>1, <3>2, <3>3, <3>4
              DEF ConnectStep, selectNode, ValidateNodeCapacity,
                  AllocateClientIP, CheckConflicts, Create, ListPeers,
                  SetCommand, validatePeerAddition, UndoAddition,
                  ReportConnected, At, BeforeCreate, Rowless, ConnPhases
    <2> QED BY <2>1, <2>2
  <1>2. ASSUME NEW r \in Requests, NEW k \in Keys, ConnectPeerAsync(r, k)
        PROVE  FALSE
    <2>1. conn[r].pc \in Rowless
      BY <1>2 DEF ConnectPeerAsync, At, Rowless, BeforeCreate
    <2>2. r # p => conn'[p] = conn[p]
      BY <1>2 DEF ConnectPeerAsync, TypeOK
    <2> QED BY <2>1, <2>2
  <1>3. CASE Crash
    BY <1>3 DEF Crash, NewConn, Rowless, BeforeCreate, Ended
  <1>4. ASSUME UNCHANGED conn PROVE FALSE
    BY <1>0, <1>4
  <1> QED BY <1>1, <1>2, <1>3, <1>4, NextSplit
          DEF DisconnectStep, DisconnectPeer, GetNode, RemoveFromNode,
              MarkDisconnected, DeleteDisconnected, ListInactive, CleanStep,
              MarkInactive, DeleteInactive, NodeStep, ListOrphaned,
              MarkDestroying, DestroyServer, DeleteNode

\* With a database that works, a connection that failed has no row: also
\* with clean-ups, any number of disconnections, lost answers and crashes.
THEOREM FailureLeavesNoRow ==
  ASSUME "db" \notin Faults
  PROVE  Spec => []FailedLeavesNoRow
  <1>1. Init => NoRowYet
    BY DEF Init, NoRowYet, Present
  <1>2. TypeOK /\ NoRowYet /\ [Next]_vars => NoRowYet'
    <2> SUFFICES ASSUME TypeOK, NoRowYet, [Next]_vars, NEW p \in Requests,
                        conn'[p].pc \in Rowless
                 PROVE  ~Present(p)'
      BY DEF NoRowYet, Rowless, BeforeCreate
    <2>1. CASE UNCHANGED vars
      BY <2>1 DEF vars, NoRowYet, Present
    <2>2. CASE Next /\ conn[p].pc \in Rowless
      <3>1. ~Present(p)
        BY <2>2 DEF NoRowYet
      <3>2. ASSUME Create(p), Present(p)' PROVE FALSE
        <4>1. ~Goto(p, "list")
          BY GotoOthers DEF Rowless, BeforeCreate
        <4> QED BY <3>1, <3>2, <4>1 DEF Create, Present
      <3> QED BY <2>2, <3>1, <3>2, RowsAppear
    <2>3. CASE Next /\ conn[p].pc \notin Rowless
      BY <2>3, FailsWithoutRow
    <2> QED BY <2>1, <2>2, <2>3
  <1>3. NoRowYet => FailedLeavesNoRow
    BY DEF NoRowYet, FailedLeavesNoRow, Rowless
  <1> QED BY <1>1, <1>2, <1>3, TypeCorrect, PTL DEF Spec
-----------------------------------------------------------------------------
(***************************************************************************)
(* The tracker.  Every step of processConnectionRequest reports what it    *)
(* did in the same step, so nothing needs to be added to TrackerAgrees.    *)
(***************************************************************************)
\* What the tracker may say of a request whose goroutine is at pc.
Tells(what, pc) ==
    /\ what = "completed" <=> pc = "done"
    /\ what = "failed" <=> pc = "failed"
    /\ what = "absent" <=> pc \in {"idle", "known"}

\* One request moves, and the tracker with it; the others keep both.
LEMMA TellsForOne ==
  ASSUME TypeOK, NEW r \in Requests, NEW f,
         conn' = [conn EXCEPT ![r] = f],
         \A q \in Requests \ {r} : tracker'[q] = tracker[q],
         Tells(tracker'[r], f.pc),
         \A q \in Requests : Tells(tracker[q], conn[q].pc)
  PROVE  \A q \in Requests : Tells(tracker'[q], conn'[q].pc)
  BY DEF TypeOK

\* A step of processConnectionRequest leaves the tracker right.
LEMMA ConnectTells ==
  ASSUME TypeOK, NEW r \in Requests, ConnectStep(r),
         \A q \in Requests : Tells(tracker[q], conn[q].pc)
  PROVE  \A q \in Requests : Tells(tracker'[q], conn'[q].pc)
  <1>0. /\ conn \in [Requests -> Conn] /\ tracker \in [Requests -> Entry]
        /\ conn[r] \in Conn /\ tracker[r] \in Entry
    BY DEF TypeOK
  <1>1. conn[r].pc \notin {"idle", "known", "done", "failed"}
    BY DEF ConnectStep, selectNode, ValidateNodeCapacity, AllocateClientIP,
           CheckConflicts, Create, ListPeers, SetCommand, UndoAddition,
           validatePeerAddition, MarkFailed, DeleteFailed, ReportConnected, At
  <1>2. tracker[r] \in {"requested", "running"}
    BY <1>0, <1>1 DEF Tells, Entry
  <1>3. CASE Fail(r)
    <2>1. /\ conn' = [conn EXCEPT ![r] = [conn[r] EXCEPT !.pc = "failed"]]
          /\ [conn[r] EXCEPT !.pc = "failed"].pc = "failed"
      BY <1>0, <1>3 DEF Fail, Goto, Conn
    <2>2. /\ tracker'[r] = "failed"
          /\ \A q \in Requests \ {r} : tracker'[q] = tracker[q]
      BY <1>0, <1>3 DEF Fail, handleConnectFailed
    <2> DEFINE g == [conn[r] EXCEPT !.pc = "failed"]
    <2>3. g.pc = "failed" /\ conn' = [conn EXCEPT ![r] = g]
      BY <2>1
    <2> HIDE DEF g
    <2> QED BY <2>2, <2>3, TellsForOne DEF Tells
  <1>4. CASE ReportConnected(r)
    <2> DEFINE g == [conn[r] EXCEPT !.pc = "done"]
    <2>1. g.pc = "done" /\ conn' = [conn EXCEPT ![r] = g]
      BY <1>0, <1>4 DEF ReportConnected, Goto, Conn
    <2>2. /\ tracker'[r] = "completed"
          /\ \A q \in Requests \ {r} : tracker'[q] = tracker[q]
      BY <1>0, <1>4 DEF ReportConnected, handleConnected
    <2> HIDE DEF g
    <2> QED BY <2>1, <2>2, TellsForOne DEF Tells
  <1>5. CASE /\ Progress(r) \/ UNCHANGED tracker
             /\ conn'[r].pc \notin {"idle", "known", "done", "failed"}
             /\ \A q \in Requests \ {r} : conn'[q] = conn[q]
    <2>1. /\ tracker'[r] \in {"requested", "running"}
          /\ \A q \in Requests \ {r} : tracker'[q] = tracker[q]
      BY <1>0, <1>2, <1>5 DEF Progress, handleConnectProgress
    <2>2. Tells(tracker'[r], conn'[r].pc)
      BY <1>5, <2>1 DEF Tells
    <2>3. ASSUME NEW q \in Requests \ {r}
          PROVE  Tells(tracker'[q], conn'[q].pc)
      BY <1>5, <2>1, <2>3
    <2> QED BY <2>2, <2>3
  <1>6. ASSUME NEW pc \in ConnPhases \ {"idle", "known", "done", "failed"}, Goto(r, pc)
        PROVE  /\ conn'[r].pc \notin {"idle", "known", "done", "failed"}
               /\ \A q \in Requests \ {r} : conn'[q] = conn[q]
    BY <1>0, <1>6 DEF Goto, Conn
  <1>7. CASE selectNode(r)
    <2>1. CASE Fail(r)
      BY <1>3, <2>1
    <2>2. ASSUME NEW n \in Nodes, Progress(r),
                 conn' = [conn EXCEPT ![r].pc = "capacity", ![r].node = n]
          PROVE  \A q \in Requests : Tells(tracker'[q], conn'[q].pc)
      BY <1>0, <1>5, <2>2 DEF Conn
    <2> QED BY <1>7, <2>1, <2>2 DEF selectNode
  <1>8. CASE AllocateClientIP(r)
    <2>1. CASE Fail(r)
      BY <1>3, <2>1
    <2>2. CASE /\ Progress(r)
               /\ conn' = [conn EXCEPT ![r].pc = "check",
                               ![r].ip = FindNextAvailableIP(conn[r].node)]
      BY <1>0, <1>5, <2>2 DEF Conn
    <2> QED BY <1>8, <2>1, <2>2 DEF AllocateClientIP
  <1>9. CASE ValidateNodeCapacity(r) \/ CheckConflicts(r) \/ Create(r)
    BY <1>3, <1>5, <1>6, <1>9
       DEF ValidateNodeCapacity, CheckConflicts, Create, ConnPhases
  <1>10. CASE ListPeers(r) \/ SetCommand(r) \/ validatePeerAddition(r)
              \/ UndoAddition(r)
    BY <1>5, <1>6, <1>10
       DEF ListPeers, SetCommand, validatePeerAddition, UndoAddition, ConnPhases
  <1>11. CASE MarkFailed(r) \/ DeleteFailed(r)
    BY <1>3, <1>5, <1>6, <1>11 DEF MarkFailed, DeleteFailed, ConnPhases
  <1> QED BY <1>4, <1>7, <1>8, <1>9, <1>10, <1>11 DEF ConnectStep

\* Unless the process dies, the tracker always tells every client the truth
\* about its own request, under every other fault and for any number of
\* everything: no progress event ever overtakes an outcome.
THEOREM TrackerIsRight == Spec => []TrackerAgrees
  <1>1. Init => TrackerAgrees
    BY DEF Init, TrackerAgrees, NewConn
  <1>2. TypeOK /\ TrackerAgrees /\ [Next]_vars => TrackerAgrees'
    <2> SUFFICES ASSUME TypeOK, "crash" \notin Faults, [Next]_vars,
                        \A q \in Requests : Tells(tracker[q], conn[q].pc)
                 PROVE  \A q \in Requests : Tells(tracker'[q], conn'[q].pc)
      BY DEF TrackerAgrees, Tells
    <2>1. CASE UNCHANGED <<conn, tracker>>
      BY <2>1
    <2>2. ASSUME NEW r \in Requests, NEW k \in Keys, ConnectPeerAsync(r, k)
          PROVE  \A q \in Requests : Tells(tracker'[q], conn'[q].pc)
      <3>1. conn \in [Requests -> Conn] /\ tracker \in [Requests -> Entry]
            /\ conn[r] \in Conn /\ tracker[r] \in Entry
        BY DEF TypeOK
      <3>2. conn[r].pc = "idle" /\ tracker[r] = "absent"
        BY <2>2 DEF ConnectPeerAsync, At, Tells
      <3>3. CASE /\ conn' = [conn EXCEPT ![r].pc = "known", ![r].key = k]
                 /\ UNCHANGED tracker
        BY <3>1, <3>2, <3>3 DEF Conn, Tells
      <3>4. CASE /\ conn' = [conn EXCEPT ![r].pc = "select", ![r].key = k]
                 /\ tracker' = handleConnectRequested(tracker, r)
        BY <3>1, <3>4 DEF Conn, Tells, handleConnectRequested
      <3> QED BY <2>2, <3>3, <3>4 DEF ConnectPeerAsync
    <2>3. CASE \/ UNCHANGED vars
               \/ \E d \in Disconnectors :
                    DisconnectStep(d) \/ \E p \in Requests : DisconnectPeer(d, p)
               \/ \E c \in Cleaners : ListInactive(c) \/ CleanStep(c)
               \/ \E n \in Nodes : NodeStep(n)
      BY <2>1, <2>3
         DEF vars, DisconnectStep, DisconnectPeer, GetNode, RemoveFromNode,
             MarkDisconnected, DeleteDisconnected, ListInactive, CleanStep,
             MarkInactive, DeleteInactive, NodeStep, ListOrphaned,
             MarkDestroying, DestroyServer, DeleteNode
    <2>4. ~Crash
      BY DEF Crash
    <2> QED BY <2>2, <2>3, <2>4, ConnectTells, NextSplit
  <1> QED BY <1>1, <1>2, TypeCorrect, PTL DEF Spec
-----------------------------------------------------------------------------
(***************************************************************************)
(* ConnectionInv.  Two connections that hold rows differ in key and, on    *)
(* one node, in address: that is why "wg set" and the removal of one leave *)
(* the interface entry of the other alone.                                 *)
(***************************************************************************)
Holder(p) ==
    Present(p) /\ peers[p] \in {Row(conn[p], "active"), Row(conn[p], "removing")}

\* What is known of the row and of the frame of a connection that holds one.
LEMMA HolderFields ==
  ASSUME NEW p \in Requests, Holder(p)
  PROVE  /\ peers[p].node = conn[p].node /\ peers[p].key = conn[p].key
         /\ peers[p].ip = conn[p].ip
  BY DEF Holder, Row

\* From the insertion on a connection holds its row, as long as its node has
\* one.
LEMMA HoldsAfterCreate ==
  ASSUME ConnectionInv, NEW p \in Requests,
         \/ /\ conn[p].pc \in {"list", "set", "verify", "undo", "mark",
                              "report", "delete"}
            /\ HasNodeRow(conn[p].node)
         \/ Present(p)
  PROVE  Holder(p)
  <1>1. HoldsRow(p)
    BY DEF ConnectionInv
  <1>2. \A s \in {"active", "removing"} : Row(conn[p], s) # NoPeer
    BY DEF Row, NoPeer
  <1> QED BY <1>1, <1>2 DEF HoldsRow, Holder, Present

\* Uniqueness of the rows, said of their holders.
LEMMA HoldersDiffer ==
  ASSUME TypeOK, RowsSound, NEW p \in Requests, NEW q \in Requests, p # q,
         Holder(p), Holder(q)
  PROVE  /\ conn[p].key # conn[q].key
         /\ conn[p].node = conn[q].node => conn[p].ip # conn[q].ip
  <1>1. Present(p) /\ Present(q)
    BY DEF Holder
  <1>2. /\ peers[p].key # peers[q].key
        /\ peers[p].node = peers[q].node => peers[p].ip # peers[q].ip
    BY <1>1, PresentRow DEF RowsSound, Table!Unique
  <1> QED BY <1>2, HolderFields

\* A holder's node has its row.
LEMMA HolderNode ==
  ASSUME TypeOK, RowsSound, NEW p \in Requests, Holder(p)
  PROVE  conn[p].node \in Nodes /\ HasNodeRow(conn[p].node)
  <1>1. Present(p) /\ peers[p].node = conn[p].node
    BY HolderFields DEF Holder
  <1> QED BY <1>1, PresentRow DEF RowsSound, Table!HasNode

\* A connection whose frame, row, node and interface entry stay as they are
\* keeps what it holds, unless a remover that had taken it off forgets it.
LEMMA Unaffected ==
  ASSUME TypeOK, ConnectionInv, NEW p \in Requests,
         conn'[p] = conn[p], peers'[p] = peers[p],
         conn[p].node \in Nodes =>
             /\ HasNodeRow(conn[p].node)' <=> HasNodeRow(conn[p].node)
             /\ Reachable(conn[p].node)' => Reachable(conn[p].node)
             /\ Reachable(conn[p].node)' /\ Holder(p) /\ Configured(conn[p])
                   => Configured(conn[p])',
         Removing(p) => Removing(p)'
  PROVE  HoldsRow(p)' /\ HoldsConfig(p)'
  <1>1. HoldsRow(p) /\ HoldsConfig(p)
    BY DEF ConnectionInv
  <1>2. CASE conn[p].pc \in NoNode
    BY <1>1, <1>2 DEF HoldsRow, HoldsConfig, Present, Row, NoNode
  <1>3. CASE conn[p].pc \notin NoNode
    <2>1. conn[p].node \in Nodes
      BY <1>3, FrameFields
    <2>2. HoldsRow(p)'
      BY <1>1, <2>1 DEF HoldsRow, Present, Row
    <2>3. CASE conn[p].pc \in {"verify", "undo", "report"}
               /\ HasNodeRow(conn[p].node) /\ Reachable(conn[p].node)'
      <3>1. Holder(p) /\ Configured(conn[p])
        BY <1>1, <2>1, <2>3, HoldsAfterCreate DEF HoldsConfig
      <3>2. wg'[conn'[p].node][conn'[p].key] = conn'[p].ip
        BY <2>1, <2>3, <3>1 DEF Configured
      <3> QED BY <2>2, <2>3, <3>2 DEF HoldsConfig, Configured
    <2>4. CASE conn[p].pc = "done" /\ Present(p) /\ Reachable(conn[p].node)'
      <3>1. Holder(p) /\ (Configured(conn[p]) \/ Removing(p))
        BY <1>1, <2>1, <2>4, HoldsAfterCreate DEF HoldsConfig
      <3>2. wg'[conn'[p].node][conn'[p].key] = conn'[p].ip \/ Removing(p)'
        BY <2>1, <2>4, <3>1 DEF Configured
      <3> QED BY <2>2, <2>4, <3>2 DEF HoldsConfig, Configured
    <2>5. HoldsConfig(p)'
      BY <2>1, <2>3, <2>4 DEF HoldsConfig, Present
    <2> QED BY <2>2, <2>5
  <1> QED BY <1>2, <1>3

\* A remover whose peer's frame and row stay as they are is right about them.
LEMMA RemoverUnaffected ==
  ASSUME ConnectionInv, NEW d \in Disconnectors, remover'[d] = remover[d],
         remover[d].pc # "idle" =>
             /\ conn'[remover[d].peer] = conn[remover[d].peer]
             /\ peers'[remover[d].peer] = peers[remover[d].peer]
             /\ HasNodeRow(remover[d].node)' => HasNodeRow(remover[d].node)
  PROVE  RemoverInv(d)'
  <1>1. RemoverInv(d)
    BY DEF ConnectionInv
  <1> QED BY <1>1 DEF RemoverInv, Present

\* "wg set" for a connection that holds its row, or for one whose node has
\* lost its row, spares every other holder.
LEMMA SetSpares ==
  ASSUME TypeOK, RowsSound, ConnectionInv, NEW r \in Requests,
         NEW p \in Requests, p # r, conn[r].pc = "set",
         SetPeer(conn[r].node, conn[r].key, conn[r].ip),
         UNCHANGED node, conn'[p] = conn[p], Holder(p), Configured(conn[p])
  PROVE  Configured(conn[p])'
  <1>1. conn[r].node \in Nodes /\ conn[r].key \in Keys
    BY FrameFields DEF ConnPhases, NoNode
  <1>2. conn[p].node \in Nodes /\ HasNodeRow(conn[p].node)
    BY HolderNode
  <1>3. conn[p].key \in Keys
    <2>1. peers[p] \in Peer
      BY PresentRow DEF Holder
    <2> QED BY <2>1, HolderFields DEF Peer
  <1>4. CASE conn[p].node # conn[r].node
    BY <1>1, <1>2, <1>4 DEF SetPeer, Configured, TypeOK
  <1>5. CASE conn[p].node = conn[r].node
    <2>1. Holder(r)
      BY <1>2, <1>5, HoldsAfterCreate
    <2>2. conn[p].key # conn[r].key /\ conn[p].ip # conn[r].ip
      BY <1>5, <2>1, HoldersDiffer
    <2>3. wg[conn[p].node][conn[p].key] # conn[r].ip
      BY <2>2 DEF Configured
    <2>4. wg'[conn[p].node][conn[p].key] = wg[conn[p].node][conn[p].key]
      BY <1>2, <1>3, <1>5, <2>2, <2>3 DEF SetPeer, TypeOK
    <2> QED BY <2>4 DEF Configured
  <1> QED BY <1>4, <1>5

\* So does a removal of the key of a holder, or of one whose node has lost
\* its row.
LEMMA RemovalSpares ==
  ASSUME TypeOK, RowsSound, NEW r \in Requests,
         NEW p \in Requests, p # r, conn[r].node \in Nodes, conn[r].key \in Keys,
         HasNodeRow(conn[r].node) => Holder(r),
         RemovePeer(conn[r].node, conn[r].key),
         conn'[p] = conn[p], Holder(p), Configured(conn[p])
  PROVE  Configured(conn[p])'
  <1>1. conn[p].node \in Nodes /\ HasNodeRow(conn[p].node)
    BY HolderNode
  <1>2. conn[p].key \in Keys
    <2>1. peers[p] \in Peer
      BY PresentRow DEF Holder
    <2> QED BY <2>1, HolderFields DEF Peer
  <1>3. conn[p].node = conn[r].node => conn[p].key # conn[r].key
    BY <1>1, HoldersDiffer
  <1>4. wg'[conn[p].node][conn[p].key] = wg[conn[p].node][conn[p].key]
    BY <1>1, <1>2, <1>3 DEF RemovePeer, UnsetPeer, TypeOK
  <1> QED BY <1>4 DEF Configured

\* A step of one connection keeps what the others and the removers rely on.
LEMMA ConnectSpares ==
  ASSUME TypeOK, RowsSound, ConnectionInv, NEW r \in Requests, ConnectStep(r)
  PROVE  /\ UNCHANGED <<node, remover>> /\ conn[r].pc # "done"
         /\ \A p \in Requests : p # r =>
               /\ conn'[p] = conn[p] /\ peers'[p] = peers[p]
               /\ HoldsRow(p)' /\ HoldsConfig(p)'
         /\ \A d \in Disconnectors : RemoverInv(d)'
  <1>1. UNCHANGED <<node, remover>> /\ conn[r].pc # "done"
    BY DEF ConnectStep, selectNode, ValidateNodeCapacity, AllocateClientIP,
           CheckConflicts, Create, ListPeers, SetCommand, At,
           validatePeerAddition, UndoAddition, MarkFailed, DeleteFailed,
           ReportConnected
  <1>2. ASSUME NEW p \in Requests, p # r PROVE conn'[p] = conn[p]
    BY <1>2 DEF ConnectStep, selectNode, ValidateNodeCapacity, AllocateClientIP,
           CheckConflicts, Create, ListPeers, SetCommand,
           validatePeerAddition, UndoAddition, MarkFailed, DeleteFailed,
           ReportConnected, Goto, Fail, TypeOK
  <1>3. ASSUME NEW p \in Requests, p # r PROVE peers'[p] = peers[p]
    BY <1>3 DEF ConnectStep, selectNode, ValidateNodeCapacity, AllocateClientIP,
           CheckConflicts, Create, ListPeers, SetCommand,
           validatePeerAddition, UndoAddition, MarkFailed, DeleteFailed,
           ReportConnected, MarkRemoving, CannotRemove, DeletePeer, TypeOK
  <1>4. ASSUME NEW p \in Requests, p # r, Holder(p), Configured(conn[p])
        PROVE  Configured(conn[p])'
    <2>1. CASE UNCHANGED wg
      BY <1>2, <1>4, <2>1 DEF Configured
    <2>2. CASE SetCommand(r)
      BY <1>1, <1>2, <1>4, <2>1, <2>2, SetSpares DEF SetCommand, At
    <2>3. CASE UndoAddition(r)
      <3>1. conn[r].pc = "undo" /\ conn[r].node \in Nodes /\ conn[r].key \in Keys
        BY <2>3, FrameFields DEF UndoAddition, At, ConnPhases, NoNode
      <3>2. HasNodeRow(conn[r].node) => Holder(r)
        BY <3>1, HoldsAfterCreate
      <3> QED BY <1>2, <1>4, <2>3, <3>1, <3>2, RemovalSpares DEF UndoAddition
    <2> QED BY <2>1, <2>2, <2>3
            DEF ConnectStep, selectNode, ValidateNodeCapacity,
                AllocateClientIP, CheckConflicts, Create, ListPeers,
                validatePeerAddition, MarkFailed, DeleteFailed,
                ReportConnected
  <1>5. ASSUME NEW p \in Requests, p # r
        PROVE  HoldsRow(p)' /\ HoldsConfig(p)'
    <2>1. conn'[p] = conn[p] /\ peers'[p] = peers[p]
      BY <1>2, <1>3, <1>5
    <2>2. /\ HasNodeRow(conn[p].node)' <=> HasNodeRow(conn[p].node)
          /\ Reachable(conn[p].node)' <=> Reachable(conn[p].node)
          /\ Removing(p) => Removing(p)'
      BY <1>1, <2>1 DEF HasNodeRow, Reachable, Removing
    <2>3. Holder(p) /\ Configured(conn[p]) => Configured(conn[p])'
      BY <1>4, <1>5
    <2> QED BY <2>1, <2>2, <2>3, Unaffected
  <1>6. ASSUME NEW d \in Disconnectors PROVE RemoverInv(d)'
    <2>1. remover[d].pc # "idle" => remover[d].peer \in Requests \ {r}
      BY <1>1 DEF ConnectionInv, RemoverInv, TypeOK, Remover
    <2>2. HasNodeRow(remover[d].node)' => HasNodeRow(remover[d].node)
      BY <1>1 DEF HasNodeRow
    <2> QED BY <1>1, <1>2, <1>3, <2>1, <2>2, RemoverUnaffected
  <1> QED BY <1>1, <1>2, <1>3, <1>5, <1>6

\* The connection itself moves from what it holds at one step to what it
\* holds at the next.
LEMMA ConnectHolds ==
  ASSUME TypeOK, RowsSound, ConnectionInv, "db" \notin Faults,
         NEW r \in Requests, ConnectStep(r)
  PROVE  HoldsRow(r)' /\ HoldsConfig(r)'
  <1> DEFINE f == conn[r]
  <1>0. /\ HoldsRow(r) /\ HoldsConfig(r) /\ peers \in [Requests -> Peer \cup {NoPeer}]
        /\ UNCHANGED node /\ ~Db
    BY ConnectSpares DEF ConnectionInv, TypeOK, Db
  <1>1. ASSUME NEW pc, Goto(r, pc)
        PROVE  /\ conn'[r].pc = pc /\ conn'[r].node = f.node
               /\ conn'[r].key = f.key /\ conn'[r].ip = f.ip
               /\ \A s : Row(conn'[r], s) = Row(f, s)
    BY <1>1, GotoOthers DEF Row
  <1>2. ASSUME ~Present(r)', conn'[r].pc \in BeforeCreate \cup {"failed"}
        PROVE  HoldsRow(r)' /\ HoldsConfig(r)'
    BY <1>2 DEF HoldsRow, HoldsConfig, BeforeCreate
  <1>3. ASSUME Fail(r), ~Present(r)'
        PROVE  HoldsRow(r)' /\ HoldsConfig(r)'
    BY <1>1, <1>2, <1>3 DEF Fail
  <1>4. CASE f.pc \in BeforeCreate /\ UNCHANGED peers
    <2>1. ~Present(r)'
      BY <1>0, <1>4 DEF HoldsRow, Present
    <2>2. Fail(r) \/ conn'[r].pc \in BeforeCreate
      <3>1. conn \in [Requests -> Conn] /\ f \in Conn
        BY DEF TypeOK
      <3>2. CASE selectNode(r)
        BY <3>1, <3>2 DEF selectNode, BeforeCreate, Conn
      <3>3. CASE AllocateClientIP(r)
        BY <3>1, <3>3 DEF AllocateClientIP, BeforeCreate, Conn
      <3>4. CASE Create(r) /\ ~Fail(r)
        BY <1>4, <2>1, <3>4, <1>0 DEF Create, Present, NoPeer
      <3> QED BY <1>1, <1>4, <3>2, <3>3, <3>4
              DEF ConnectStep, ValidateNodeCapacity, CheckConflicts, ListPeers,
                  SetCommand, validatePeerAddition, UndoAddition, MarkFailed,
                  DeleteFailed, ReportConnected, At, BeforeCreate
    <2> QED BY <1>2, <1>3, <2>1, <2>2
  <1>5. CASE Create(r)
    <2>1. CASE Goto(r, "list") /\ peers' = [peers EXCEPT ![r] = Row(f, "active")]
      <3>1. peers'[r] = Row(conn'[r], "active") /\ conn'[r].pc = "list"
        BY <1>0, <1>1, <2>1
      <3> QED BY <3>1 DEF HoldsRow, HoldsConfig, BeforeCreate
    <2>2. CASE UNCHANGED peers
      BY <1>4, <1>5, <2>2 DEF Create, At, BeforeCreate
    <2> QED BY <1>5, <2>1, <2>2 DEF Create, Row
  <1>6. CASE ListPeers(r)
    <2>1. /\ Goto(r, "set") \/ Goto(r, "mark")
          /\ UNCHANGED peers /\ f.pc = "list"
      BY <1>6 DEF ListPeers, At
    <2> QED BY <1>0, <1>1, <2>1
            DEF HoldsRow, HoldsConfig, HasNodeRow, Present, BeforeCreate
  <1>7. CASE SetCommand(r)
    <2>1. f.pc = "set" /\ UNCHANGED peers
      BY <1>7 DEF SetCommand, At
    <2>2. f.node \in Nodes /\ f.key \in Keys
      BY <2>1, FrameFields DEF ConnPhases, NoNode
    <2>3. CASE Goto(r, "mark")
      BY <1>0, <1>1, <2>1, <2>3
         DEF HoldsRow, HoldsConfig, HasNodeRow, Present, BeforeCreate
    <2>4. CASE Goto(r, "verify") /\ SetPeer(f.node, f.key, f.ip)
      <3>1. wg'[f.node][f.key] = f.ip
        BY <2>2, <2>4 DEF SetPeer, TypeOK
      <3>2. Configured(conn[r])'
        BY <1>1, <2>4, <3>1 DEF Configured
      <3> QED BY <1>0, <1>1, <2>1, <2>4, <3>2
              DEF HoldsRow, HoldsConfig, HasNodeRow, Present, BeforeCreate
    <2> QED BY <1>7, <2>3, <2>4 DEF SetCommand
  <1>8. CASE validatePeerAddition(r)
    <2>1. /\ Goto(r, "report") \/ Goto(r, "undo")
          /\ UNCHANGED <<peers, wg>> /\ f.pc = "verify"
      BY <1>8 DEF validatePeerAddition, At
    <2>2. Configured(conn[r]) => Configured(conn[r])'
      BY <1>1, <2>1 DEF Configured
    <2> QED BY <1>0, <1>1, <2>1, <2>2
            DEF HoldsRow, HoldsConfig, HasNodeRow, Reachable, Present,
                BeforeCreate
  <1>9. CASE UndoAddition(r)
    BY <1>0, <1>1, <1>9 DEF UndoAddition, At, HoldsRow, HoldsConfig,
                            HasNodeRow, Present, BeforeCreate
  <1>10. CASE MarkFailed(r)
    <2>1. f.pc = "mark"
      BY <1>10 DEF MarkFailed, At
    <2>2. CASE CannotRemove(r) /\ Fail(r)
      BY <1>0, <1>3, <2>2 DEF CannotRemove, Present
    <2>3. CASE MarkRemoving(r) /\ Goto(r, "delete")
      <3>1. /\ peers'[r] = [peers[r] EXCEPT !.status = "removing"]
            /\ peers[r] \in {Row(f, "active"), Row(f, "removing")}
        BY <1>0, <2>3 DEF MarkRemoving, HoldsRow
      <3>2. peers'[r] = Row(conn'[r], "removing") /\ conn'[r].pc = "delete"
        BY <1>1, <2>3, <3>1 DEF Row
      <3> QED BY <3>2 DEF HoldsRow, HoldsConfig, BeforeCreate
    <2> QED BY <1>10, <2>2, <2>3 DEF MarkFailed
  <1>11. CASE DeleteFailed(r)
    BY <1>0, <1>3, <1>11 DEF DeleteFailed, DeletePeer, Present
  <1>12. CASE ReportConnected(r)
    <2>1. f.pc = "report" /\ Goto(r, "done") /\ UNCHANGED <<peers, wg>>
      BY <1>12 DEF ReportConnected, At
    <2>2. Configured(conn[r]) => Configured(conn[r])'
      BY <1>1, <2>1 DEF Configured
    <2>3. Present(r) => HasNodeRow(f.node)
      BY HoldsAfterCreate, HolderNode
    <2> QED BY <1>0, <1>1, <2>1, <2>2, <2>3
            DEF HoldsRow, HoldsConfig, HasNodeRow, Reachable, Present,
                BeforeCreate
  <1> QED BY <1>4, <1>5, <1>6, <1>7, <1>8, <1>9, <1>10, <1>11, <1>12
          DEF ConnectStep, selectNode, ValidateNodeCapacity, AllocateClientIP,
              CheckConflicts, At, BeforeCreate

\* A request that is accepted has held nothing yet.
LEMMA AcceptHolds ==
  ASSUME TypeOK, ConnectionInv, NEW r \in Requests, NEW k \in Keys,
         ConnectPeerAsync(r, k)
  PROVE  ConnectionInv'
  <1>1. /\ UNCHANGED <<node, peers, wg, remover>> /\ conn[r].pc = "idle"
        /\ conn'[r].pc \in {"known", "select"}
        /\ \A p \in Requests : p # r => conn'[p] = conn[p]
    BY DEF ConnectPeerAsync, At, TypeOK, Conn
  <1>2. HoldsRow(r)' /\ HoldsConfig(r)'
    <2>1. ~Present(r)'
      BY <1>1 DEF ConnectionInv, HoldsRow, Present, BeforeCreate
    <2> QED BY <1>1, <2>1 DEF HoldsRow, HoldsConfig
  <1>3. ASSUME NEW p \in Requests, p # r
        PROVE  HoldsRow(p)' /\ HoldsConfig(p)'
    <2>1. conn'[p] = conn[p] /\ peers'[p] = peers[p]
          /\ (Removing(p) => Removing(p)')
      BY <1>1, <1>3 DEF Removing
    <2>2. /\ HasNodeRow(conn[p].node)' <=> HasNodeRow(conn[p].node)
          /\ Reachable(conn[p].node)' => Reachable(conn[p].node)
          /\ Configured(conn[p]) => Configured(conn[p])'
      BY <1>1, <2>1 DEF HasNodeRow, Reachable, Configured
    <2> QED BY <2>1, <2>2, Unaffected
  <1>4. ASSUME NEW d \in Disconnectors PROVE RemoverInv(d)'
    <2>1. remover[d].pc # "idle" => remover[d].peer \in Requests \ {r}
      BY <1>1 DEF ConnectionInv, RemoverInv, TypeOK, Remover
    <2> QED BY <1>1, <2>1, RemoverUnaffected DEF HasNodeRow
  <1> QED BY <1>2, <1>3, <1>4 DEF ConnectionInv

\* The one disconnection takes its own peer off, and no other.
LEMMA DisconnectHolds ==
  ASSUME TypeOK, RowsSound, ConnectionInv, Undisturbed, NEW d \in Disconnectors,
         DisconnectStep(d) \/ \E p \in Requests : DisconnectPeer(d, p)
  PROVE  ConnectionInv'
  <1> DEFINE f == remover[d]
  <1>0. /\ remover \in [Disconnectors -> Remover] /\ f \in Remover
        /\ f.pc # "idle" => f.peer \in Requests /\ f.node \in Nodes /\ f.key \in Keys
        /\ peers \in [Requests -> Peer \cup {NoPeer}]
        /\ \A e \in Disconnectors : e = d
        /\ RemoverInv(d) /\ ~Db /\ ~FromList
    BY DEF TypeOK, Remover, ConnectionInv, Undisturbed, Db
  <1>1. UNCHANGED <<node, conn>>
    BY DEF DisconnectStep, DisconnectPeer, GetNode, RemoveFromNode,
           MarkDisconnected, DeleteDisconnected
  <1>2. ASSUME NEW q \in Requests
        PROVE  /\ Removing(q) <=> f.peer = q /\ f.pc \in {"mark", "delete"}
               /\ Removing(q)' <=> remover'[d].peer = q
                                     /\ remover'[d].pc \in {"mark", "delete"}
    BY <1>0 DEF Removing
  <1>3. ASSUME NEW q \in Requests, peers'[q] = peers[q], Removing(q) => Removing(q)',
               Holder(q) /\ Configured(conn[q]) => Configured(conn[q])'
        PROVE  HoldsRow(q)' /\ HoldsConfig(q)'
    BY <1>1, <1>3, Unaffected DEF HasNodeRow, Reachable
  <1>4. ASSUME NEW q \in Requests, UNCHANGED wg
        PROVE  Configured(conn[q]) => Configured(conn[q])'
    BY <1>1, <1>4 DEF Configured
  <1>5. ASSUME RemoverInv(d)', \A q \in Requests : HoldsRow(q)' /\ HoldsConfig(q)'
        PROVE  ConnectionInv'
    BY <1>0, <1>5 DEF ConnectionInv
  <1>6. ASSUME NEW p \in Requests, DisconnectPeer(d, p)
        PROVE  ConnectionInv'
    <2>1. /\ f.pc = "idle" /\ UNCHANGED <<peers, wg>>
          /\ conn[p].pc = "done" /\ Present(p)
          /\ remover'[d] = [pc |-> "getNode", peer |-> p,
                            node |-> peers[p].node, key |-> peers[p].key]
      BY <1>0, <1>6 DEF DisconnectPeer, At
    <2>2. RemoverInv(d)'
      <3>1. peers[p].node = conn[p].node /\ peers[p].key = conn[p].key
        BY <2>1, HoldsAfterCreate, HolderFields
      <3> QED BY <1>1, <2>1, <3>1 DEF RemoverInv, Present
    <2>3. \A q \in Requests : HoldsRow(q)' /\ HoldsConfig(q)'
      BY <1>2, <1>3, <1>4, <2>1
    <2> QED BY <1>5, <2>2, <2>3
  <1>7. CASE GetNode(d)
    <2>1. /\ f.pc = "getNode" /\ UNCHANGED <<peers, wg>>
          /\ remover'[d].pc \in {"remove", "mark"} /\ remover'[d].peer = f.peer
          /\ remover'[d].node = f.node /\ remover'[d].key = f.key
      BY <1>0, <1>7 DEF GetNode, Remover
    <2>2. RemoverInv(d)'
      BY <1>0, <1>1, <2>1 DEF RemoverInv, Present, HasNodeRow
    <2>3. \A q \in Requests : HoldsRow(q)' /\ HoldsConfig(q)'
      BY <1>2, <1>3, <1>4, <2>1
    <2> QED BY <1>5, <2>2, <2>3
  <1>8. CASE RemoveFromNode(d)
    <2>1. /\ f.pc = "remove" /\ UNCHANGED peers
          /\ remover'[d].pc = "mark" /\ remover'[d].peer = f.peer
          /\ remover'[d].node = f.node /\ remover'[d].key = f.key
      BY <1>0, <1>8 DEF RemoveFromNode, Remover
    <2>2. RemoverInv(d)'
      BY <1>0, <1>1, <2>1 DEF RemoverInv, Present, HasNodeRow
    <2>3. ASSUME NEW q \in Requests, q # f.peer
          PROVE  HoldsRow(q)' /\ HoldsConfig(q)'
      <3>1. /\ f.peer \in Requests /\ conn[f.peer].node \in Nodes
            /\ conn[f.peer].key \in Keys
            /\ RemovePeer(conn[f.peer].node, conn[f.peer].key)
            /\ HasNodeRow(conn[f.peer].node) => Holder(f.peer)
        BY <1>0, <1>8, <2>1, HoldsAfterCreate DEF RemoveFromNode, RemoverInv
      <3>2. Holder(q) /\ Configured(conn[q]) => Configured(conn[q])'
        BY <1>1, <2>3, <3>1, RemovalSpares
      <3> QED BY <1>2, <1>3, <2>1, <3>2
    <2>4. ASSUME NEW q \in Requests, q = f.peer
          PROVE  HoldsRow(q)' /\ HoldsConfig(q)'
      <3>1. HoldsRow(q) /\ conn[q].pc = "done" /\ Removing(q)'
        BY <1>0, <1>2, <2>1, <2>4 DEF ConnectionInv, RemoverInv
      <3> QED BY <1>1, <2>1, <3>1
              DEF HoldsRow, HoldsConfig, Present, BeforeCreate
    <2> QED BY <1>5, <2>2, <2>3, <2>4
  <1>9. CASE MarkDisconnected(d) \/ DeleteDisconnected(d)
    <2>0. PICK p \in Requests : p = f.peer
      BY <1>0, <1>9 DEF MarkDisconnected, DeleteDisconnected
    <2>1. /\ conn[p].pc = "done" /\ UNCHANGED wg /\ HoldsRow(p)
          /\ conn[p].node = f.node /\ conn[p].key = f.key
          /\ HasNodeRow(f.node) => Present(p)
      BY <1>0, <1>9, <2>0 DEF MarkDisconnected, DeleteDisconnected,
                              ConnectionInv, RemoverInv
    <2>2. \A q \in Requests : q # p => peers'[q] = peers[q]
      BY <1>0, <1>9, <2>0 DEF MarkDisconnected, DeleteDisconnected, MarkRemoving,
                        CannotRemove, DeletePeer
    <2>3. ASSUME NEW q \in Requests, q # p
          PROVE  HoldsRow(q)' /\ HoldsConfig(q)'
      BY <1>2, <1>3, <1>4, <2>0, <2>1, <2>2, <2>3
    <2>4. CASE ~Present(p)' /\ remover'[d] = IdleRemover
      <3>1. HoldsRow(p)' /\ HoldsConfig(p)'
        BY <1>1, <2>1, <2>4 DEF HoldsRow, HoldsConfig, BeforeCreate
      <3>2. RemoverInv(d)'
        BY <2>4 DEF RemoverInv, IdleRemover
      <3> QED BY <1>5, <2>3, <3>1, <3>2
    <2>5. CASE /\ Present(p) /\ peers'[p] = [peers[p] EXCEPT !.status = "removing"]
               /\ remover'[d] = [f EXCEPT !.pc = "delete"]
      <3>1. peers'[p] = Row(conn[p], "removing")
        BY <2>1, <2>5 DEF HoldsRow, Row
      <3>2. /\ remover'[d].pc = "delete" /\ remover'[d].peer = p
            /\ remover'[d].node = f.node /\ remover'[d].key = f.key
        BY <1>0, <2>0, <2>5 DEF Remover
      <3>3. HoldsRow(p)' /\ HoldsConfig(p)'
        BY <1>1, <1>2, <2>1, <3>1, <3>2 DEF HoldsRow, HoldsConfig, BeforeCreate
      <3>4. Present(p)' /\ peers'[p].status = "removing"
        BY <3>1 DEF Present, Row, NoPeer
      <3>5. RemoverInv(d)'
        BY <1>1, <2>1, <3>2, <3>4 DEF RemoverInv
      <3> QED BY <1>5, <2>3, <3>3, <3>5
    <2> QED BY <1>0, <1>9, <2>0, <2>4, <2>5
            DEF MarkDisconnected, DeleteDisconnected, MarkRemoving,
                CannotRemove, DeletePeer, Present
  <1> QED BY <1>6, <1>7, <1>8, <1>9 DEF DisconnectStep

\* A node that is destroyed takes its peers' rows and entries with it.
LEMMA NodeHolds ==
  ASSUME TypeOK, RowsSound, ConnectionInv, NEW n \in Nodes, NodeStep(n)
  PROVE  ConnectionInv'
  <1>0. /\ node \in [Nodes -> NodeStates] /\ UNCHANGED <<conn, remover>>
        /\ wg \in [Nodes -> [Keys -> IPs \cup {NoIP, Absent}]]
        /\ peers \in [Requests -> Peer \cup {NoPeer}]
    BY DEF TypeOK, NodeStep, ListOrphaned, MarkDestroying, DestroyServer,
           DeleteNode
  <1>1. \A p \in Requests : Removing(p) => Removing(p)'
    BY <1>0 DEF Removing
  <1>2. ASSUME NEW m \in Nodes
        PROVE  Reachable(m)' => Reachable(m)
    BY <1>0 DEF NodeStep, ListOrphaned, MarkDestroying, DestroyServer,
                DeleteNode, RowDeleted, Reachable
  <1>3. CASE ~DeleteNode(n)
    <2>1. UNCHANGED peers
      BY <1>3 DEF NodeStep, ListOrphaned, MarkDestroying, DestroyServer
    <2>2. ASSUME NEW m \in Nodes
          PROVE  HasNodeRow(m)' <=> HasNodeRow(m)
      BY <1>0, <1>3 DEF NodeStep, ListOrphaned, MarkDestroying, DestroyServer,
                        HasNodeRow
    <2>3. ASSUME NEW m \in Nodes, Reachable(m)'
          PROVE  wg'[m] = wg[m]
      BY <1>0, <1>3, <2>3
         DEF NodeStep, ListOrphaned, MarkDestroying, DestroyServer, Reachable
    <2>4. \A p \in Requests : HoldsRow(p)' /\ HoldsConfig(p)'
      BY <1>0, <1>1, <1>2, <2>1, <2>2, <2>3, Unaffected DEF Configured
    <2>5. \A d \in Disconnectors : RemoverInv(d)'
      <3>1. \A d \in Disconnectors :
               remover[d].pc # "idle" => remover[d].node \in Nodes
        BY DEF TypeOK, Remover
      <3> QED BY <1>0, <2>1, <2>2, <3>1, RemoverUnaffected
    <2> QED BY <2>4, <2>5 DEF ConnectionInv
  <1>4. CASE DeleteNode(n)
    <2>1. /\ UNCHANGED wg /\ ~HasNodeRow(n)'
          /\ \A m \in Nodes : m # n => (HasNodeRow(m)' <=> HasNodeRow(m))
          /\ \A p \in Requests :
                peers'[p] = IF peers[p].node = n THEN NoPeer ELSE peers[p]
      BY <1>0, <1>4 DEF DeleteNode, RowDeleted, HasNodeRow
    <2>2. ASSUME NEW p \in Requests, conn[p].node = n
          PROVE  ~Present(p)'
      BY <2>1, <2>2, HoldsAfterCreate, HolderFields DEF Present
    <2>3. ASSUME NEW p \in Requests, conn[p].node # n
          PROVE  peers'[p] = peers[p]
      BY <2>1, <2>3, HoldsAfterCreate, HolderFields DEF Present
    <2>4. ASSUME NEW p \in Requests
          PROVE  HoldsRow(p)' /\ HoldsConfig(p)'
      <3>1. CASE conn[p].node = n
        <4>1. conn[p].pc # "dead"
          BY DEF ConnectionInv, HoldsRow
        <4> QED BY <1>0, <2>1, <2>2, <3>1, <4>1 DEF HoldsRow, HoldsConfig
      <3>2. CASE conn[p].node # n
        BY <1>0, <1>1, <1>2, <2>1, <2>3, <3>2, Unaffected DEF Configured
      <3> QED BY <3>1, <3>2
    <2>5. ASSUME NEW d \in Disconnectors PROVE RemoverInv(d)'
      <3> DEFINE f == remover[d]
      <3>1. CASE f.pc # "idle" /\ f.node = n
        <4>1. /\ f.peer \in Requests /\ conn[f.peer].node = n
              /\ conn[f.peer].pc = "done" /\ conn[f.peer].key = f.key
          BY <3>1 DEF ConnectionInv, RemoverInv, TypeOK, Remover
        <4> QED BY <1>0, <2>1, <2>2, <3>1, <4>1 DEF RemoverInv
      <3>2. CASE f.pc # "idle" /\ f.node # n
        <4>1. f.peer \in Requests /\ f.node \in Nodes /\ conn[f.peer].node # n
          BY <3>2 DEF ConnectionInv, RemoverInv, TypeOK, Remover
        <4> QED BY <1>0, <2>1, <2>3, <3>2, <4>1, RemoverUnaffected
      <3>3. CASE f.pc = "idle"
        BY <1>0, <3>3 DEF RemoverInv
      <3> QED BY <3>1, <3>2, <3>3
    <2> QED BY <2>4, <2>5 DEF ConnectionInv
  <1> QED BY <1>3, <1>4

\* In an undisturbed system every connection holds the row and, from
\* "wg set" on, the interface entry that its position says: for any numbers
\* of nodes, keys, requests and addresses, and however SSH commands and the
\* deletion of servers fail.
THEOREM ConnectionsHold ==
  ASSUME Undisturbed
  PROVE  Spec => []ConnectionInv
  <1>1. Init => ConnectionInv
    BY DEF Init, ConnectionInv, HoldsRow, HoldsConfig, RemoverInv, NewConn,
           IdleRemover, BeforeCreate, Present
  <1>2. TypeOK /\ RowsSound /\ ConnectionInv /\ [Next]_vars => ConnectionInv'
    <2> SUFFICES ASSUME TypeOK, RowsSound, ConnectionInv, [Next]_vars
                 PROVE  ConnectionInv'
      OBVIOUS
    <2>1. CASE UNCHANGED vars
      BY <2>1 DEF vars, ConnectionInv, HoldsRow, HoldsConfig, RemoverInv,
                  Present, HasNodeRow, Reachable, Configured, Removing
    <2>2. ASSUME NEW r \in Requests, ConnectStep(r)
          PROVE  ConnectionInv'
      BY <2>2, ConnectSpares, ConnectHolds DEF ConnectionInv, Undisturbed
    <2>3. ~Crash /\ Cleaners = {}
      BY DEF Crash, Undisturbed
    <2> QED BY <2>1, <2>2, <2>3, NextSplit, AcceptHolds, DisconnectHolds,
               NodeHolds
  <1> QED BY <1>1, <1>2, TypeCorrect, RowsStaySound, PTL DEF Spec

\* So a peer reported as connected stays configured until its own
\* disconnection takes it off.
THEOREM ConnectedStaysConfigured ==
  ASSUME Undisturbed
  PROVE  Spec => []ConnectedIsConfigured
  <1>1. ConnectionInv => ConnectedIsConfigured
    <2> SUFFICES ASSUME ConnectionInv, NEW p \in Requests, conn[p].pc = "done",
                        Present(p), Reachable(peers[p].node)
                 PROVE  \/ wg[peers[p].node][peers[p].key] = peers[p].ip
                        \/ Removing(p)
      BY DEF ConnectedIsConfigured
    <2>1. /\ peers[p].node = conn[p].node /\ peers[p].key = conn[p].key
          /\ peers[p].ip = conn[p].ip
      BY HoldsAfterCreate, HolderFields
    <2> QED BY <2>1 DEF ConnectionInv, HoldsConfig, Configured
  <1> QED BY <1>1, ConnectionsHold, PTL
-----------------------------------------------------------------------------
(***************************************************************************)
(* PeerInv.  With remote commands that tell the truth only "wg set" adds   *)
(* to an interface; every other step must not take away a row whose entry  *)
(* stays.                                                                  *)
(***************************************************************************)
Shrinks == \A n \in Nodes, k \in Keys : wg'[n][k] \in {wg[n][k], Absent}
SameRow(p) == /\ peers'[p].node = peers[p].node /\ peers'[p].key = peers[p].key
              /\ peers'[p].ip = peers[p].ip
NodesOnlyGo == \A n \in Nodes : HasNodeRow(n)' => HasNodeRow(n)

\* Entries keep their rows when rows are kept or lose their entries.
LEMMA EntriesKeepRows ==
  ASSUME TypeOK, ConfiguredHasRow, Shrinks,
         \A p \in Requests :
            Present(p) => SameRow(p) \/ wg'[peers[p].node][peers[p].key] = Absent
  PROVE  ConfiguredHasRow'
  <1> SUFFICES ASSUME NEW n \in Nodes, NEW k \in Keys, wg'[n][k] # Absent
               PROVE  \E p \in Requests : /\ peers'[p].node = n /\ peers'[p].key = k
                                          /\ peers'[p].ip = wg'[n][k]
    BY DEF ConfiguredHasRow
  <1>1. wg'[n][k] = wg[n][k]
    BY DEF Shrinks
  <1>2. PICK p \in Requests : /\ peers[p].node = n /\ peers[p].key = k
                              /\ peers[p].ip = wg[n][k]
    BY <1>1 DEF ConfiguredHasRow
  <1>3. Present(p)
    BY <1>2, PresentRow
  <1> QED BY <1>1, <1>2, <1>3 DEF SameRow

\* A connection that stays where it is, on an interface that shrinks.
LEMMA NotYetStays ==
  ASSUME TypeOK, PeerInv, Shrinks, NodesOnlyGo, NEW p \in Requests,
         conn'[p] = conn[p]
  PROVE  NotYet(p)'
  <1>1. NotYet(p)
    BY DEF PeerInv
  <1>2. CASE conn[p].pc \in {"list", "set", "mark", "delete"}
    <2>1. conn[p].node \in Nodes /\ conn[p].key \in Keys
      BY <1>2, FrameFields DEF ConnPhases, NoNode
    <2> QED BY <1>1, <2>1 DEF NotYet, Shrinks, NodesOnlyGo
  <1> QED BY <1>2 DEF NotYet

\* The same for a remover.
LEMMA TakenOffStays ==
  ASSUME TypeOK, PeerInv, Shrinks, NodesOnlyGo, NEW d \in Disconnectors,
         remover'[d] = remover[d]
  PROVE  TakenOff(d)'
  <1>1. TakenOff(d)
    BY DEF PeerInv
  <1>2. CASE remover[d].pc \in {"mark", "delete"}
    <2>1. remover[d].node \in Nodes /\ remover[d].key \in Keys
      BY <1>2 DEF TypeOK, Remover
    <2> QED BY <1>1, <2>1 DEF TakenOff, Shrinks, NodesOnlyGo
  <1> QED BY <1>2 DEF TakenOff

\* An interface that shrinks stays clean.
LEMMA CleanStays ==
  ASSUME PeerInv, Shrinks, UNCHANGED node, NEW n \in Nodes
  PROVE  NodeClean(n)'
  BY DEF PeerInv, NodeClean, Shrinks, Reachable

\* A removal only takes away, and takes away its entry: from a node that
\* cannot be reached it is gone already.
LEMMA RemovalShrinks ==
  ASSUME TypeOK, PeerInv, Truthful, NEW n \in Nodes, NEW k \in Keys,
         RemovePeer(n, k)
  PROVE  Shrinks /\ wg'[n][k] = Absent
  <1>1. wg \in [Nodes -> [Keys -> IPs \cup {NoIP, Absent}]]
    BY DEF TypeOK
  <1>2. CASE UnsetPeer(n, k)
    BY <1>1, <1>2 DEF UnsetPeer, Shrinks
  <1>3. CASE SshFails(n) /\ UNCHANGED wg
    <2>1. ~Reachable(n)
      BY <1>3 DEF SshFails, Truthful
    <2> QED BY <1>3, <2>1 DEF PeerInv, NodeClean, Shrinks
  <1> QED BY <1>2, <1>3 DEF RemovePeer

\* A node that can be reached has its row.
LEMMA ReachableHasRow ==
  ASSUME PeerInv, NEW n \in Nodes, Reachable(n)
  PROVE  HasNodeRow(n)
  BY DEF PeerInv, NodeClean, Reachable, HasNodeRow

\* "wg set" adds an entry whose row is there, and takes no other's address:
\* the addresses on the interface belong to rows.
LEMMA SetKeeps ==
  ASSUME TypeOK, RowsSound, PeerInv, NEW r \in Requests, conn[r].pc = "set",
         Reachable(conn[r].node), UNCHANGED <<node, peers>>,
         SetPeer(conn[r].node, conn[r].key, conn[r].ip)
  PROVE  /\ \A n \in Nodes, k \in Keys :
               n # conn[r].node \/ k # conn[r].key => wg'[n][k] = wg[n][k]
         /\ Holder(r)
         /\ ConfiguredHasRow'
         /\ \A n \in Nodes : NodeClean(n)'
  <1> DEFINE f == conn[r]
  <1>1. f.node \in Nodes /\ f.key \in Keys /\ f.ip \in IPs
    BY FrameFields DEF ConnPhases, NoNode, WithIP
  <1>2. wg \in [Nodes -> [Keys -> IPs \cup {NoIP, Absent}]]
    BY DEF TypeOK
  <1>3. Holder(r)
    BY <1>1, ReachableHasRow, HoldsAfterCreate DEF PeerInv
  <1>4. ASSUME NEW k \in Keys, k # f.key PROVE wg[f.node][k] # f.ip
    <2> SUFFICES ASSUME wg[f.node][k] = f.ip PROVE FALSE
      OBVIOUS
    <2>1. wg[f.node][k] # Absent
      BY <1>1 DEF IPs, Absent
    <2>2. PICK p \in Requests : /\ peers[p].node = f.node /\ peers[p].key = k
                                /\ peers[p].ip = f.ip
      BY <1>1, <2>1 DEF PeerInv, ConfiguredHasRow
    <2>3. /\ Present(p) /\ Present(r) /\ peers[r].node = f.node
          /\ peers[r].key = f.key /\ peers[r].ip = f.ip
      BY <1>1, <1>3, <2>2, PresentRow, HolderFields DEF Holder
    <2>4. p # r
      BY <1>4, <2>2, <2>3
    <2> QED BY <2>2, <2>3, <2>4, PresentRow DEF RowsSound, Table!Unique
  <1>5. /\ wg'[f.node][f.key] = f.ip
        /\ \A n \in Nodes, k \in Keys :
              n # f.node \/ k # f.key => wg'[n][k] = wg[n][k]
    BY <1>1, <1>2, <1>4 DEF SetPeer
  <1>6. ConfiguredHasRow'
    <2> SUFFICES ASSUME NEW n \in Nodes, NEW k \in Keys, wg'[n][k] # Absent
                 PROVE  \E p \in Requests : /\ peers[p].node = n /\ peers[p].key = k
                                            /\ peers[p].ip = wg'[n][k]
      BY DEF ConfiguredHasRow
    <2>1. CASE n = f.node /\ k = f.key
      BY <1>3, <1>5, <2>1, HolderFields
    <2>2. CASE n # f.node \/ k # f.key
      BY <1>5, <2>2 DEF PeerInv, ConfiguredHasRow
    <2> QED BY <2>1, <2>2
  <1>7. ASSUME NEW n \in Nodes PROVE NodeClean(n)'
    BY <1>5 DEF PeerInv, NodeClean, Reachable
  <1> QED BY <1>3, <1>5, <1>6, <1>7

\* What the interfaces and the rows must satisfy besides ConnectionInv.
Clean == /\ \A p \in Requests : NotYet(p)
         /\ \A d \in Disconnectors : TakenOff(d)
         /\ \A n \in Nodes : NodeClean(n)
         /\ ConfiguredHasRow

\* The one step that adds to an interface.
LEMMA SetClean ==
  ASSUME TypeOK, RowsSound, PeerInv, NEW r \in Requests, SetCommand(r),
         Reachable(conn[r].node), Goto(r, "verify"),
         SetPeer(conn[r].node, conn[r].key, conn[r].ip)
  PROVE  Clean'
  <1>1. conn[r].pc = "set" /\ UNCHANGED <<node, peers, remover>>
    BY DEF SetCommand, At
  <1>2. /\ \A n \in Nodes, k \in Keys :
              n # conn[r].node \/ k # conn[r].key => wg'[n][k] = wg[n][k]
        /\ Holder(r) /\ ConfiguredHasRow' /\ \A n \in Nodes : NodeClean(n)'
    BY <1>1, SetKeeps
  <1>3. ASSUME NEW p \in Requests, p # r, Holder(p)
        PROVE  conn[p].key # conn[r].key
    BY <1>2, <1>3, HoldersDiffer
  <1>4. ASSUME NEW p \in Requests PROVE NotYet(p)'
    <2>1. CASE p = r
      BY <2>1, GotoOthers DEF NotYet
    <2>2. CASE /\ p # r /\ conn[p].pc \in {"list", "set", "mark", "delete"}
               /\ HasNodeRow(conn[p].node)
      <3>1. /\ conn[p].node \in Nodes /\ conn[p].key \in Keys
            /\ conn[p].key # conn[r].key
        BY <1>3, <2>2, FrameFields, HoldsAfterCreate
           DEF ConnPhases, NoNode, PeerInv
      <3> QED BY <1>2, <2>2, <3>1, GotoOthers DEF NotYet, PeerInv
    <2>3. CASE p # r /\ ~(/\ conn[p].pc \in {"list", "set", "mark", "delete"}
                          /\ HasNodeRow(conn[p].node))
      BY <1>1, <2>3, GotoOthers DEF NotYet, HasNodeRow
    <2> QED BY <2>1, <2>2, <2>3
  <1>5. ASSUME NEW d \in Disconnectors PROVE TakenOff(d)'
    <2>1. CASE remover[d].pc \in {"mark", "delete"} /\ HasNodeRow(remover[d].node)
      <3>1. /\ remover[d].peer \in Requests /\ remover[d].node \in Nodes
            /\ remover[d].key \in Keys /\ RemoverInv(d)
        BY <2>1 DEF TypeOK, Remover, PeerInv, ConnectionInv
      <3>2. Holder(remover[d].peer) /\ remover[d].peer # r
            /\ conn[remover[d].peer].key = remover[d].key
        BY <1>1, <2>1, <3>1, HoldsAfterCreate DEF RemoverInv, PeerInv
      <3> QED BY <1>1, <1>2, <1>3, <2>1, <3>1, <3>2 DEF TakenOff, PeerInv
    <2> QED BY <1>1, <2>1 DEF TakenOff, HasNodeRow
  <1> QED BY <1>2, <1>4, <1>5 DEF Clean

\* The other steps of a connection.
LEMMA ConnectClean ==
  ASSUME TypeOK, RowsSound, PeerInv, Truthful, NEW r \in Requests, ConnectStep(r)
  PROVE  Clean'
  <1> DEFINE f == conn[r]
  <1>0. /\ ConnectionInv /\ NotYet(r) /\ ~Db /\ UNCHANGED <<node, remover>>
        /\ \A p \in Requests : p # r => conn'[p] = conn[p] /\ peers'[p] = peers[p]
        /\ peers \in [Requests -> Peer \cup {NoPeer}] /\ NodesOnlyGo
    BY ConnectSpares DEF PeerInv, TypeOK, Truthful, Undisturbed, Db,
                         NodesOnlyGo, HasNodeRow
  <1>1. ASSUME Shrinks, NotYet(r)',
               Present(r) => SameRow(r)
                             \/ wg'[peers[r].node][peers[r].key] = Absent
        PROVE  Clean'
    <2>1. ConfiguredHasRow'
      BY <1>0, <1>1, EntriesKeepRows DEF PeerInv, SameRow
    <2>2. \A p \in Requests : NotYet(p)'
      BY <1>0, <1>1, NotYetStays
    <2>3. \A d \in Disconnectors : TakenOff(d)'
      BY <1>0, <1>1, TakenOffStays
    <2>4. \A n \in Nodes : NodeClean(n)'
      BY <1>0, <1>1, CleanStays
    <2> QED BY <2>1, <2>2, <2>3, <2>4 DEF Clean
  <1>2. UNCHANGED wg => Shrinks
    BY DEF Shrinks
  <1>3. UNCHANGED peers => SameRow(r)
    BY DEF SameRow
  <1>4. ASSUME conn'[r].pc \notin {"list", "set", "mark", "delete"}
        PROVE  NotYet(r)'
    BY <1>4 DEF NotYet
  <1>5. ASSUME NEW pc, Goto(r, pc)
        PROVE  /\ conn'[r].pc = pc /\ conn'[r].node = f.node
               /\ conn'[r].key = f.key
    BY <1>5, GotoOthers
  <1>6. Fail(r) => NotYet(r)'
    BY <1>4, <1>5 DEF Fail
  <1>7. CASE selectNode(r) \/ AllocateClientIP(r)
    <2>1. conn \in [Requests -> Conn] /\ f \in Conn
      BY DEF TypeOK
    <2>2. Fail(r) \/ conn'[r].pc \in {"capacity", "check"}
      BY <1>7, <2>1 DEF selectNode, AllocateClientIP, Conn
    <2>3. UNCHANGED <<peers, wg>>
      BY <1>7 DEF selectNode, AllocateClientIP
    <2> QED BY <1>1, <1>2, <1>3, <1>4, <1>6, <2>2, <2>3
  <1>8. CASE ValidateNodeCapacity(r) \/ CheckConflicts(r) \/ ReportConnected(r)
    <2>1. UNCHANGED <<peers, wg>>
          /\ (Fail(r) \/ \E pc \in {"allocate", "create", "done"} : Goto(r, pc))
      BY <1>8 DEF ValidateNodeCapacity, CheckConflicts, ReportConnected
    <2> QED BY <1>1, <1>2, <1>3, <1>4, <1>5, <1>6, <2>1
  <1>9. CASE Create(r)
    <2>1. ~Present(r) /\ UNCHANGED wg
      BY <1>0, <1>9 DEF ConnectionInv, HoldsRow, Create, At, BeforeCreate
    <2>2. CASE Goto(r, "list") /\ CanInsert(f)
      <3>1. f.node \in Nodes /\ f.key \in Keys
        BY <1>9, FrameFields DEF Create, At, ConnPhases, NoNode
      <3>2. wg[f.node][f.key] = Absent
        BY <2>2, <3>1 DEF CanInsert, KeyTaken, PeerInv, ConfiguredHasRow
      <3>3. NotYet(r)'
        BY <1>5, <2>1, <2>2, <3>2 DEF NotYet
      <3> QED BY <1>1, <1>2, <2>1, <3>3
    <2>3. CASE Fail(r)
      BY <1>1, <1>2, <1>6, <2>1, <2>3
    <2> QED BY <1>9, <2>2, <2>3 DEF Create
  <1>10. CASE ListPeers(r)
    <2>1. /\ Goto(r, "set") \/ Goto(r, "mark")
          /\ UNCHANGED <<peers, wg>> /\ f.pc = "list"
      BY <1>10 DEF ListPeers, At
    <2>2. NotYet(r)'
      BY <1>0, <1>5, <2>1 DEF NotYet, HasNodeRow
    <2> QED BY <1>1, <1>2, <1>3, <2>1, <2>2
  <1>11. CASE SetCommand(r)
    <2>1. CASE UNCHANGED wg /\ Goto(r, "mark")
      <3>1. f.pc = "set" /\ UNCHANGED peers
        BY <1>11 DEF SetCommand, At
      <3>2. NotYet(r)'
        BY <1>0, <1>5, <2>1, <3>1 DEF NotYet, HasNodeRow
      <3> QED BY <1>1, <1>2, <1>3, <2>1, <3>1, <3>2
    <2>2. "lost" \notin Faults
      BY DEF Truthful
    <2> QED BY <1>11, <2>1, <2>2, SetClean DEF SetCommand
  <1>12. CASE validatePeerAddition(r)
    <2>1. /\ Goto(r, "report") \/ Goto(r, "undo")
          /\ UNCHANGED <<peers, wg>>
      BY <1>12 DEF validatePeerAddition
    <2> QED BY <1>1, <1>2, <1>3, <1>4, <1>5, <2>1
  <1>13. CASE UndoAddition(r)
    <2>1. /\ Goto(r, "mark") /\ UNCHANGED peers /\ RemovePeer(f.node, f.key)
          /\ f.node \in Nodes /\ f.key \in Keys
      BY <1>13, FrameFields DEF UndoAddition, At, ConnPhases, NoNode
    <2>2. Shrinks /\ wg'[f.node][f.key] = Absent
      BY <2>1, RemovalShrinks
    <2>3. NotYet(r)'
      BY <1>5, <2>1, <2>2 DEF NotYet
    <2> QED BY <1>1, <1>3, <2>1, <2>2, <2>3
  <1>14. CASE MarkFailed(r)
    <2>1. UNCHANGED wg /\ f.pc = "mark"
      BY <1>14 DEF MarkFailed, At
    <2>2. CASE Fail(r) /\ UNCHANGED peers
      BY <1>1, <1>2, <1>3, <1>6, <2>1, <2>2
    <2>3. CASE MarkRemoving(r) /\ Goto(r, "delete")
      <3>1. NotYet(r)'
        BY <1>0, <1>5, <2>1, <2>3 DEF NotYet, HasNodeRow
      <3>2. SameRow(r)
        BY <1>0, <2>3, PresentRow DEF MarkRemoving, SameRow, Peer
      <3> QED BY <1>1, <1>2, <2>1, <3>1, <3>2
    <2> QED BY <1>14, <2>2, <2>3 DEF MarkFailed, CannotRemove
  <1>15. CASE DeleteFailed(r)
    <2>1. UNCHANGED wg /\ f.pc = "delete" /\ Fail(r)
      BY <1>15 DEF DeleteFailed, At
    <2>2. Present(r) => wg[peers[r].node][peers[r].key] = Absent
      <3> SUFFICES ASSUME Present(r) PROVE wg[peers[r].node][peers[r].key] = Absent
        OBVIOUS
      <3>1. Holder(r)
        BY <1>0, HoldsAfterCreate
      <3> QED BY <1>0, <2>1, <3>1, HolderFields, HolderNode DEF NotYet
    <2> QED BY <1>1, <1>2, <1>6, <2>1, <2>2
  <1> QED BY <1>7, <1>8, <1>9, <1>10, <1>11, <1>12, <1>13, <1>14, <1>15
          DEF ConnectStep

\* Accepting a request touches neither rows nor interfaces.
LEMMA AcceptClean ==
  ASSUME TypeOK, PeerInv, NEW r \in Requests, NEW k \in Keys,
         ConnectPeerAsync(r, k)
  PROVE  Clean'
  <1>1. /\ UNCHANGED <<node, peers, wg, remover>>
        /\ conn'[r].pc \in {"known", "select"}
        /\ \A p \in Requests : p # r => conn'[p] = conn[p]
    BY DEF ConnectPeerAsync, TypeOK, Conn
  <1>2. Shrinks /\ NodesOnlyGo /\ ConfiguredHasRow'
    BY <1>1 DEF Shrinks, NodesOnlyGo, HasNodeRow, PeerInv, ConfiguredHasRow
  <1>3. \A p \in Requests : NotYet(p)'
    <2>1. NotYet(r)'
      BY <1>1 DEF NotYet
    <2> QED BY <1>1, <1>2, <2>1, NotYetStays
  <1> QED BY <1>1, <1>2, <1>3, TakenOffStays, CleanStays DEF Clean

\* A disconnection deletes the row once the entry is gone.
LEMMA DisconnectClean ==
  ASSUME TypeOK, RowsSound, PeerInv, Truthful, NEW d \in Disconnectors,
         DisconnectStep(d) \/ \E p \in Requests : DisconnectPeer(d, p)
  PROVE  Clean'
  <1> DEFINE f == remover[d]
  <1>0. /\ remover \in [Disconnectors -> Remover] /\ f \in Remover
        /\ f.pc # "idle" => f.peer \in Requests /\ f.node \in Nodes /\ f.key \in Keys
        /\ peers \in [Requests -> Peer \cup {NoPeer}]
        /\ \A e \in Disconnectors : e = d
        /\ RemoverInv(d) /\ TakenOff(d) /\ ConnectionInv /\ ~Db
    BY DEF TypeOK, Remover, PeerInv, ConnectionInv, Truthful, Undisturbed, Db
  <1>1. UNCHANGED <<node, conn>> /\ NodesOnlyGo
    BY DEF DisconnectStep, DisconnectPeer, GetNode, RemoveFromNode,
           MarkDisconnected, DeleteDisconnected, NodesOnlyGo, HasNodeRow
  <1>2. ASSUME Shrinks, TakenOff(d)',
               \A p \in Requests : Present(p) =>
                  SameRow(p) \/ wg'[peers[p].node][peers[p].key] = Absent
        PROVE  Clean'
    <2>1. ConfiguredHasRow'
      BY <1>2, EntriesKeepRows DEF PeerInv
    <2>2. \A p \in Requests : NotYet(p)'
      BY <1>1, <1>2, NotYetStays
    <2>3. \A n \in Nodes : NodeClean(n)'
      BY <1>1, <1>2, CleanStays
    <2> QED BY <1>0, <1>2, <2>1, <2>2, <2>3 DEF Clean
  <1>3. UNCHANGED wg => Shrinks
    BY DEF Shrinks
  <1>4. UNCHANGED peers => \A p \in Requests : SameRow(p)
    BY DEF SameRow
  <1>5. CASE (\E p \in Requests : DisconnectPeer(d, p)) \/ GetNode(d)
    <2>1. UNCHANGED <<peers, wg>>
      BY <1>5 DEF DisconnectPeer, GetNode
    <2>2. CASE remover'[d].pc \in {"getNode", "remove"}
      <3>1. TakenOff(d)'
        BY <2>2 DEF TakenOff
      <3> QED BY <1>2, <1>3, <1>4, <2>1, <3>1
    <2>3. CASE ~HasNodeRow(f.node) /\ remover' = [remover EXCEPT ![d].pc = "mark"]
      <3>1. remover'[d].node = f.node
        BY <1>0, <2>3 DEF Remover
      <3>2. TakenOff(d)'
        BY <1>1, <2>3, <3>1 DEF TakenOff, HasNodeRow
      <3> QED BY <1>2, <1>3, <1>4, <2>1, <3>2
    <2> QED BY <1>0, <1>5, <2>2, <2>3 DEF DisconnectPeer, GetNode, Remover
  <1>6. CASE RemoveFromNode(d)
    <2>1. /\ f.node \in Nodes /\ f.key \in Keys /\ UNCHANGED peers
          /\ RemovePeer(f.node, f.key)
          /\ remover'[d].node = f.node /\ remover'[d].key = f.key
      BY <1>0, <1>6 DEF RemoveFromNode, Remover
    <2>2. Shrinks /\ wg'[f.node][f.key] = Absent
      BY <2>1, RemovalShrinks
    <2>3. TakenOff(d)'
      BY <2>1, <2>2 DEF TakenOff
    <2> QED BY <1>2, <1>4, <2>1, <2>2, <2>3
  <1>7. CASE MarkDisconnected(d)
    <2>1. f.peer \in Requests /\ f.pc = "mark" /\ UNCHANGED wg
      BY <1>0, <1>7 DEF MarkDisconnected
    <2>2. TakenOff(d)'
      <3>1. \/ remover'[d].pc = "idle"
            \/ remover'[d].node = f.node /\ remover'[d].key = f.key
        BY <1>0, <1>7 DEF MarkDisconnected, IdleRemover, Remover
      <3> QED BY <1>0, <1>1, <2>1, <3>1 DEF TakenOff, HasNodeRow
    <2>3. \A p \in Requests : Present(p) => SameRow(p)
      <3>1. CASE MarkRemoving(f.peer)
        BY <1>0, <2>1, <3>1, PresentRow DEF MarkRemoving, SameRow, Peer
      <3> QED BY <1>4, <1>7, <3>1 DEF MarkDisconnected, CannotRemove
    <2> QED BY <1>2, <1>3, <2>1, <2>2, <2>3
  <1>8. CASE DeleteDisconnected(d)
    <2>1. /\ f.peer \in Requests /\ f.pc = "delete" /\ UNCHANGED wg
          /\ remover'[d].pc = "idle"
          /\ \A p \in Requests : p # f.peer => peers'[p] = peers[p]
      BY <1>0, <1>8 DEF DeleteDisconnected, IdleRemover, DeletePeer
    <2>2. Present(f.peer) => wg[peers[f.peer].node][peers[f.peer].key] = Absent
      <3> SUFFICES ASSUME Present(f.peer)
                   PROVE  wg[peers[f.peer].node][peers[f.peer].key] = Absent
        OBVIOUS
      <3>1. Holder(f.peer)
        BY <1>0, <2>1, HoldsAfterCreate
      <3>2. /\ HasNodeRow(f.node) /\ peers[f.peer].node = f.node
            /\ peers[f.peer].key = f.key
        BY <1>0, <2>1, <3>1, HolderFields, HolderNode DEF RemoverInv
      <3> QED BY <1>0, <2>1, <3>2 DEF TakenOff
    <2>3. TakenOff(d)'
      BY <2>1 DEF TakenOff
    <2> QED BY <1>2, <1>3, <2>1, <2>2, <2>3 DEF SameRow
  <1> QED BY <1>5, <1>6, <1>7, <1>8 DEF DisconnectStep

\* A node goes with its interface before its rows go.
LEMMA DestroyClean ==
  ASSUME TypeOK, PeerInv, Truthful, NEW n \in Nodes, NodeStep(n)
  PROVE  Clean'
  <1>0. /\ node \in [Nodes -> NodeStates] /\ UNCHANGED <<conn, remover>>
        /\ wg \in [Nodes -> [Keys -> IPs \cup {NoIP, Absent}]]
        /\ peers \in [Requests -> Peer \cup {NoPeer}]
        /\ "destroy" \notin Faults
    BY DEF TypeOK, NodeStep, ListOrphaned, MarkDestroying, DestroyServer,
           DeleteNode, Truthful
  <1>1. Shrinks
    BY <1>0 DEF Shrinks, NodeStep, ListOrphaned, MarkDestroying, DestroyServer,
                DeleteNode
  <1>2. NodesOnlyGo
    BY <1>0 DEF NodesOnlyGo, HasNodeRow, NodeStep, ListOrphaned, MarkDestroying,
                DestroyServer, DeleteNode, RowDeleted
  <1>3. ConfiguredHasRow'
    <2>1. ASSUME NEW p \in Requests, Present(p)
          PROVE  SameRow(p) \/ wg'[peers[p].node][peers[p].key] = Absent
      <3>1. CASE DeleteNode(n) /\ peers[p].node = n
        <4>1. peers[p].key \in Keys
          BY <2>1, PresentRow DEF Peer
        <4>2. ~Reachable(n) /\ UNCHANGED wg
          BY <3>1 DEF DeleteNode, RowDeleted, Reachable, PeerInv, NodeClean
        <4> QED BY <3>1, <4>1, <4>2 DEF PeerInv, NodeClean
      <3>2. CASE DeleteNode(n) /\ peers[p].node # n
        BY <1>0, <3>2 DEF DeleteNode, SameRow
      <3>3. CASE UNCHANGED peers
        BY <3>3 DEF SameRow
      <3> QED BY <3>1, <3>2, <3>3
              DEF NodeStep, ListOrphaned, MarkDestroying, DestroyServer
    <2> QED BY <1>1, <2>1, EntriesKeepRows DEF PeerInv
  <1>4. ASSUME NEW m \in Nodes PROVE NodeClean(m)'
    <2>1. CASE m # n
      <3>1. node'[m] = node[m]
        BY <1>0, <2>1 DEF NodeStep, ListOrphaned, MarkDestroying, DestroyServer,
                          DeleteNode, RowDeleted
      <3> QED BY <1>1, <3>1 DEF PeerInv, NodeClean, Reachable, Shrinks
    <2>2. CASE m = n /\ DestroyServer(n)
      BY <1>0, <2>2 DEF DestroyServer, NodeClean
    <2>3. CASE m = n /\ DeleteNode(n)
      <3>1. node[n] = "down" /\ node'[n] = "gone" /\ UNCHANGED wg
        BY <1>0, <2>3 DEF DeleteNode, RowDeleted, PeerInv, NodeClean
      <3> QED BY <2>3, <3>1 DEF PeerInv, NodeClean, Reachable
    <2>4. CASE m = n /\ (ListOrphaned(n) \/ MarkDestroying(n))
      BY <1>0, <2>4 DEF ListOrphaned, MarkDestroying, NodeClean, Reachable
    <2> QED BY <2>1, <2>2, <2>3, <2>4 DEF NodeStep
  <1>5. /\ \A p \in Requests : NotYet(p)'
        /\ \A d \in Disconnectors : TakenOff(d)'
    BY <1>0, <1>1, <1>2, NotYetStays, TakenOffStays
  <1> QED BY <1>3, <1>4, <1>5 DEF Clean

\* When besides remote commands tell the truth, connections hold nothing
\* more than ConnectionInv says, for any numbers of everything.
THEOREM NothingElseConfigured ==
  ASSUME Truthful
  PROVE  Spec => []PeerInv
  <1>0. Undisturbed
    BY DEF Truthful
  <1>1. Init => Clean
    BY DEF Init, Clean, NotYet, TakenOff, NodeClean, ConfiguredHasRow, NewConn,
           IdleRemover, Reachable, Absent
  <1>2. PeerInv <=> ConnectionInv /\ Clean
    BY DEF PeerInv, Clean
  <1>3. TypeOK /\ RowsSound /\ ConnectionInv /\ Clean /\ [Next]_vars => Clean'
    <2> SUFFICES ASSUME TypeOK, RowsSound, PeerInv, [Next]_vars PROVE Clean'
      BY <1>2
    <2>1. CASE UNCHANGED vars
      BY <1>2, <2>1 DEF vars, Clean, NotYet, TakenOff, NodeClean,
                        ConfiguredHasRow, HasNodeRow, Reachable
    <2>2. ~Crash /\ Cleaners = {}
      BY <1>0 DEF Crash, Undisturbed
    <2> QED BY <2>1, <2>2, NextSplit, ConnectClean, AcceptClean,
               DisconnectClean, DestroyClean
  <1>4. Spec => []ConnectionInv
    BY <1>0, ConnectionsHold
  <1> QED BY <1>1, <1>2, <1>3, <1>4, TypeCorrect, RowsStaySound, PTL DEF Spec

\* So no entry outlives its row: an address that is free in the table is
\* free on the node.
THEOREM EntriesHaveRows ==
  ASSUME Truthful
  PROVE  Spec => []ConfiguredHasRow
  <1>1. PeerInv => ConfiguredHasRow
    BY DEF PeerInv
  <1> QED BY <1>1, NothingElseConfigured, PTL
=============================================================================
