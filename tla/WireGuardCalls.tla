---------------------------- MODULE WireGuardCalls ----------------------------
(***************************************************************************)
(* internal/rotator/infrastructure/remote/wireguard.go: AddPeer,           *)
(* RemovePeer and UpdatePeer as sequences of remote commands, with saving  *)
(* the configuration.  A caller c has one call under way in call[c]; one   *)
(* action is one command.  wg and file are external: an interface and the  *)
(* configuration file it is started from.                                  *)
(***************************************************************************)
EXTENDS IPAllocation

CONSTANTS
    Nodes,       \* node ids
    Peers,       \* peers; a peer stands for its public key
    Callers,     \* goroutines that call the interactor
    Faults,      \* what may go wrong, a subset of {"ssh", "lost", "db"}
    MaxFaults    \* how often something goes wrong in one behaviour

ASSUME CallsAssumption ==
    /\ Faults \subseteq {"ssh", "lost", "db"}
    /\ MaxFaults \in Nat
    /\ Nodes \subseteq Nat \ {0} /\ IsFiniteSet(Nodes)
    /\ "none" \notin Peers

VARIABLES
    wg,      \* Nodes -> Peers -> allowed address, NoIP or Absent
    file,    \* the same, in the configuration file
    call,    \* Callers -> the call under way
    faults   \* what went wrong so far

calls == <<wg, file, call, faults>>

NoNode == 0
Absent == -1   \* no such peer
NoIP == -2     \* a peer whose address was given to another one

Config == [Peers -> Addresses \cup {Absent, NoIP}]
Returned == {"ok", "failed"}
Frame ==
    [pc : {"idle", "list", "set", "verify", "look", "unset", "save", "show",
           "write"} \cup Returned,
     node : Nodes \cup {NoNode}, peer : Peers \cup {"none"},
     ip : Addresses \cup {NoAddress},
     after : Returned \cup {"list"},      \* where a removal or a save leads
     text : Config \cup {<<>>}]           \* the output of "wg showconf"
NoCall == [pc |-> "idle", node |-> NoNode, peer |-> "none", ip |-> NoAddress,
           after |-> "ok", text |-> <<>>]

CallsTypeOK ==
    /\ wg \in [Nodes -> Config]
    /\ file \in [Nodes -> Config]
    /\ call \in [Callers -> Frame]
    /\ faults \in 0 .. MaxFaults

Fault(kind) == kind \in Faults /\ faults < MaxFaults /\ faults' = faults + 1
Sound == UNCHANGED faults

\* WireGuardProtocolManager hands a call on with the peer's key and address.
Calling(c, first, n, p, i, after) ==
    call' = [call EXCEPT ![c] = [NoCall EXCEPT !.pc = first, !.node = n,
                 !.peer = p, !.ip = i, !.after = after]]
AddPeer(c, n, p, i) == Calling(c, "list", n, p, i, "ok")
RemovePeer(c, n, p) == Calling(c, "look", n, p, NoAddress, "ok")
\* Remove, and add whether or not that failed.
UpdatePeer(c, n, p, i) == Calling(c, "look", n, p, i, "list")
NoneFor(c) == call' = [call EXCEPT ![c] = NoCall]

Goto(c, pc) == call' = [call EXCEPT ![c].pc = pc]
\* What comes after a removal, or after saving.
Return(c) == call' = [call EXCEPT ![c].pc = call[c].after, ![c].after = "ok",
                                  ![c].text = <<>>]
\* A removal that failed: UpdatePeer goes on, everyone else fails.
RemovalFailed(c) == IF call[c].after = "list" THEN Return(c) ELSE Goto(c, "failed")

\* External: "wg set".  An address belongs to the peer it was last set for.
Set(n, p, i) ==
    wg' = [wg EXCEPT ![n] = [q \in Peers |->
              IF q = p THEN i ELSE IF wg[n][q] = i THEN NoIP ELSE wg[n][q]]]
Unset(n, p) == wg' = [wg EXCEPT ![n][p] = Absent]
-----------------------------------------------------------------------------
\* AddPeer refuses a key or an address the interface has already ...
Conflict(n, p, i) == wg[n][p] # Absent \/ \E q \in Peers : wg[n][q] = i

\* ... unless the list cannot be read.
ListForAdd(c) ==
    LET f == call[c] IN
    /\ f.pc = "list"
    /\ \/ Sound /\ Goto(c, IF Conflict(f.node, f.peer, f.ip) THEN "failed"
                           ELSE "set")
       \/ Fault("ssh") /\ Goto(c, "set")
    /\ UNCHANGED <<wg, file>>

SetPeer(c) ==
    LET f == call[c] IN
    /\ f.pc = "set"
    /\ \/ Sound /\ Set(f.node, f.peer, f.ip) /\ Goto(c, "verify")
       \/ Fault("ssh") /\ Goto(c, "failed") /\ UNCHANGED wg
       \/ Fault("lost") /\ Set(f.node, f.peer, f.ip) /\ Goto(c, "failed")
    /\ UNCHANGED file

\* validatePeerAddition; what is not found is removed again.
Verify(c) ==
    LET f == call[c] IN
    /\ f.pc = "verify"
    /\ \/ Sound /\ wg[f.node][f.peer] # Absent /\ Goto(c, "save")
       \/ /\ (Sound /\ wg[f.node][f.peer] = Absent) \/ Fault("ssh")
          /\ call' = [call EXCEPT ![c].pc = "look", ![c].after = "failed"]
    /\ UNCHANGED <<wg, file>>

\* RemovePeer has nothing to do for a key that is not listed.
LookForPeer(c) ==
    LET f == call[c] IN
    /\ f.pc = "look"
    /\ \/ Sound /\ wg[f.node][f.peer] = Absent /\ Return(c)
       \/ Sound /\ wg[f.node][f.peer] # Absent /\ Goto(c, "unset")
       \/ Fault("ssh") /\ Goto(c, "unset")
    /\ UNCHANGED <<wg, file>>

\* A removal that is not saved.
BadUnsetPeer(c) ==
    LET f == call[c] IN
    /\ f.pc = "unset"
    /\ \/ Sound /\ Unset(f.node, f.peer) /\ Return(c)
       \/ Fault("ssh") /\ RemovalFailed(c) /\ UNCHANGED wg
       \/ Fault("lost") /\ Unset(f.node, f.peer) /\ RemovalFailed(c)
    /\ UNCHANGED file

\* What validatePeerRemoval finds is only logged.
UnsetPeer(c) ==
    LET f == call[c] IN
    /\ f.pc = "unset"
    /\ \/ Sound /\ Unset(f.node, f.peer) /\ Goto(c, "save")
       \/ Fault("ssh") /\ RemovalFailed(c) /\ UNCHANGED wg
       \/ Fault("lost") /\ Unset(f.node, f.peer) /\ RemovalFailed(c)
    /\ UNCHANGED file

\* SaveWireGuardConfig, and saveWireGuardConfigAlternative with its two
\* commands.  No failure of either is reported.
SaveConfig(c) ==
    LET f == call[c] IN
    /\ f.pc = "save"
    /\ \/ Sound /\ file' = [file EXCEPT ![f.node] = wg[f.node]] /\ Return(c)
       \/ Fault("ssh") /\ Goto(c, "show") /\ UNCHANGED file
    /\ UNCHANGED wg

ShowConf(c) ==
    LET f == call[c] IN
    /\ f.pc = "show"
    /\ \/ Sound /\ call' = [call EXCEPT ![c].pc = "write",
                                        ![c].text = wg[f.node]]
       \/ Fault("ssh") /\ Return(c)
    /\ UNCHANGED <<wg, file>>

WriteConf(c) ==
    LET f == call[c] IN
    /\ f.pc = "write"
    /\ \/ Sound /\ file' = [file EXCEPT ![f.node] = f.text]
       \/ Fault("ssh") /\ UNCHANGED file
    /\ Return(c)
    /\ UNCHANGED wg

CallStep(c) ==
    \/ ListForAdd(c) \/ SetPeer(c) \/ Verify(c) \/ LookForPeer(c)
    \/ UnsetPeer(c) \/ SaveConfig(c) \/ ShowConf(c) \/ WriteConf(c)
=============================================================================
