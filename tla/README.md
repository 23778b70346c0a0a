# TLA+ specifications of the VPN rotator

The VPN rotator (`src/internal/rotator`) is one Go process that creates VPN
servers ("nodes") in the Hetzner cloud, connects WireGuard peers to them and
removes both again.  It keeps its state in a SQLite database, in the cloud, on
the nodes themselves (their WireGuard interface) and in a few in-memory trackers
fed by an event bus.  Nothing but the database's own constraints serialises its
goroutines, so what is worth checking is how their steps interleave, and what a
failure in the middle of one of them leaves behind.

## Inventory

| component | state | operations | what makes it correct |
|---|---|---|---|
| provisioning workflow (`services/provisioning_service.go`) | goroutine frame, rollback record | request handler, six phases, rollback | all or nothing; every attempt ends |
| Hetzner provisioner (`infrastructure/provisioner`) | servers in the cloud | ProvisionNode, DestroyNode, health checks | removes a server that never came up |
| provisioning tracker (`node/provisioning_tracker.go`) | map of entries | requested / progress / completed / failed | agrees with the attempt it reports on |
| node service (`node/service.go`, `node/status.go`) | rows of `nodes` | DestroyNode, CheckNodeHealth, UpdateNodeStatus, SelectOptimalNode | transitions follow the table; rows stay deleted |
| IP service (`ip/`) | rows of `node_subnets`, IPs in `peers` | AllocateNodeSubnet, AllocateClientIP, release | two servers never route the same subnet, two peers never share an address |
| resource clean-up (`services/resource_cleanup_service.go`) | none | inactive peers, orphaned nodes, unused subnets | removes only what is unused |
| peers (`services/peer_connection_*.go`, `peer/`) | rows of `peers`, connection tracker | connect, disconnect, migrate, batch | a row has its WireGuard peer and the other way round |
| WireGuard management (`infrastructure/remote/wireguard.go`) | interface on the node | AddPeer, RemovePeer, UpdatePeer, SyncPeers | no two peers share an address |
| circuit breaker, retries, SSH pool (`infrastructure/remote`) | breaker per node, map of clients | Execute, executeWithRetry, GetConnection, CleanupIdle | opens at the threshold and admits nobody; no client is closed under a command |
| event bus (`pkg/events/bus.go`) | subscriptions | Publish, Subscribe, Unsubscribe, Close | handlers of a closed bus do not run |
| scheduler (`scheduler/`) | running flags, stop channel | Start, Stop, cycle loops | stops once, without a panic |
| service (`service.go`) | started / stopping | Start, Stop, signals | shuts down in order and in time |
| rotation (`services/node_rotation_service.go`) | none | RotateNodes, MigratePeersFromNode | a peer that is moved is never on no node |
| connector (`internal/connector`, `cmd/connector-cli`) | key, configuration and state file, interface | connect, poll, disconnect | the tunnel is one the service knows, under the same key |
| API, configuration, logging, errors | none | request conversion | |

How they interact: API handlers and the scheduler call the orchestrators, which
call the services above; `provision.requested` and `peer.connect.requested`
events start one goroutine per request, whose progress events update the
trackers; everything else is shared through the database and the cloud.

The hard behaviours, each with its line, are the `hazards` of `PROJECT.json`.

## Modules

Nodes:

* `NodeStatus` - the status constants, `CanTransitionTo`, the row of a new node
  and `ValidateForDestruction`.
* `ProvisioningTracker` - the tracker's map as a function and its handlers as
  operators on it.
* `NodeTables` - the abstract specification of the tables `nodes` and
  `node_subnets`: a node id is created at most once, a row is changed or deleted
  but never comes back, a subnet has one owner and goes with its row.
* `NodeLifecycle` - the workflow, the destroyers, the health checkers, the
  subnet cleaner and the shutdown over the shared tables and the cloud.
* `MCNodeLifecycle` - instances for TLC.
* `NodeLifecycleProofs`, `NodeInvariantProofs` - the theorems.

Peers:

* `ConnectionTracker` - the map of `PeerConnectionStateTracker` and its handlers.
* `PeerTable` - the abstract specification of the table `peers`: an id is
  inserted at most once, under the two uniqueness constraints and with its node;
  a row is marked and deleted, or goes with its node, and never comes back.
* `PeerConnection` - connections (`ConnectPeerAsync`, the worker's goroutine,
  `AddPeer` over SSH and the rollback), disconnections, the clean-up of inactive
  peers and the destruction of a node, over the table and the interfaces.
* `MCPeerConnection` - instances for TLC.
* `PeerConnectionProofs`, `PeerInvariantProofs` - the theorems.

Remote access:

* `CircuitBreaker` - a breaker and the two critical sections of `Execute`.
* `RemoteAccess` - `executeWithRetry` and the health check over the pool of SSH
  clients, with its idle clean-up, the pool's mutex and the clients' mutexes.
* `RemoteAccessProofs` - the theorems.

Service:

* `EventBus` - the wrapper's map and the event manager below it.
* `ServiceRuntime` - main from construction to exit, the signal handler, the
  scheduler with its checks, the API's requests and the jobs they start, over the
  bus and both trackers.
* `ServiceRuntimeProofs` - the theorems.

Rotation:

* `IPAllocation` - networks and addresses as numbers: `GenerateSubnetCIDR`,
  `FindNextAvailableSubnet`, `FindNextAvailableIP` and what they check.
* `WireGuardCalls` - `AddPeer`, `RemovePeer` and `UpdatePeer` command by command,
  over an interface and the file a restart reads.
* `Rotation` - the rotation cycle, the migration of peers, a disconnection and a
  clean-up of nodes and subnets meanwhile, and `SyncPeers` with a restart of
  WireGuard.
* `RotationProofs` - the theorems.

Client:

* `ConnectionAPI` - what a client can tell of the connect, disconnect and status
  handlers and of the job behind a request: `PeerConnection` at its coarsest.
* `Connector` - the processes of `connector-cli` on one machine, each with main
  and its signal handler, over the files and the interface they share.
* `ConnectorProofs` - the theorems.

Each has an MC module with the values for TLC.

In all models one action is one database, cloud or remote call with the local
work after it up to the next call; between two of them any other goroutine may
run.

State of `NodeLifecycle` and the code it stands for: `rows` and `subnets` are
the tables (only the status and whether the server id is recorded are kept of a
row); `servers` is the cloud, with the subnet each server's cloud-init was given;
`tracker` is `nodeStates`; `job`, `destroyer`, `checker` and `cleaner` are stack
frames, holding exactly the values the code read earlier and uses later; `svc`
is how far `Service.Stop` has come.

State of `PeerConnection`: `peers` is the table, a row for each request id (the
id of a peer is drawn by the request that creates it, so the two are one);
`wg` is the interface of each node: for a key its allowed address, `NoIP` when
the kernel gave the address to another peer since, or `Absent`; `node` is how
far a node has come from active to deleted, row and server together, which is
all that connections can see of `NodeLifecycle`; `tracker` is
`connectionStates`; `conn`, `remover` and `cleaner` are the stack frames of
`processConnectionRequest`, `DisconnectPeer` and `cleanupInactivePeers`.

State of `RemoteAccess`: `breakers`, `pool` and `mutex` are the maps and the lock
of the code; `conn` says whether a client holds a connection; `proc` is a frame.
Time is a flag of the breaker (`due`: the reset timeout has passed), and the
failure count stops at the threshold, beyond which nothing looks at it.  Whether a
command fails, a connection breaks or a client has been idle is open.  A client
that nobody refers to any more leaves the model.

State of `ServiceRuntime`: `pc` is where main and the signal handler are, `mu`,
`running`, `cancelled` and `signals` the service's lock, flag, context and
channel; `sched` and `checks` the scheduler and the checks under way, `api`,
`store` and `bus` what is open, `go` the goroutines of requests and jobs, `conns`
and `nodes` the two trackers with the handlers of `ConnectionTracker` and
`ProvisioningTracker`.

State of `Rotation`: `status`, `subnets` and `peers` are the tables; `wg`, `file`
and the frames of commands are those of `WireGuardCalls`; `cycle`, `mig`, `disc`,
`clean` and `sync` are stack frames.  A node is its number in the order of
creation.  The clean-up has its three steps as in the code: what
`cleanupOrphanedNodes` counted is destroyed later, one node after the other
(`MarkDestroying`, `DeleteNode`), and `cleanupUnusedSubnets` then releases the
subnets of nodes that are neither active nor provisioning, whose rows and peers
stay (`ReleaseNodeSubnet`).  Commands on a node that is being destroyed may fail
without counting as a fault (`Unreachable`), those on a deleted one always do.

State of `Connector`: `key`, `conf` and `state` are the three files, `iface` the
interface with what "wg-quick up" read and who ran it, `proc` the Connector of
each process with the positions of its two goroutines; `row`, `tracker` and `job`
are the service's side.

The environment is the constant `Faults`: each run says what may go wrong
(Hetzner refuses or loses an answer, the server does not boot, the node does not
become ready, an SSH command fails without or after its effect, the database
fails, the provisioning context expires, the process crashes, the service is
stopped).  A crash loses frames and trackers and keeps tables, cloud and
interfaces.

Two things the code computes are constant, and the model keeps them so:
`connected_clients` is zero because `UpdateConnectedClients` and `UpdateHealth`
have no caller, and an active peer is always "inactive" because nothing writes
`last_handshake_at`.

## Runs

Passing runs:

* `lifecycle_rollback` - two node ids, two overlapping clean-ups that destroy
  nodes and a health checker, every failure the rollback has a step for.
  `LifecycleInv` says, for every position of an attempt, which row, subnet and
  server it holds: every running server has a row and the subnet it was given, and
  an active node has a recorded server.  `ServersDisjoint` and
  `FailedLeavesNothing` are what that is for.
* `lifecycle_faults` - all faults, the shutdown, which destroys nodes too, and a
  subnet cleaner.  What still holds then: the tables' own rules
  (`SubnetTableSound`, `NoResurrection`, `ImplementsTables`) and
  that the tracker tells the truth about node ids (`TrackerAgrees`).
* `lifecycle_live` - under fairness every attempt ends (`AttemptsEnd`) and a node
  marked destroying is deleted (`DestroyingIsDeleted`).
* `peer_connect` - three requests for two keys on two nodes with two addresses
  each, a disconnector, and nodes that are destroyed as orphans under running
  connections.  `PeerInv` says which row and interface entry a connection and a
  disconnection hold at each step; `ConfiguredHasRow` is what it is for: no entry
  outlives its row.
* `peer_ssh` - two requests on one node when SSH commands fail or lose their
  answers and servers cannot be deleted.  Entries may then be left behind, but
  what connections rely on holds (`ConnectionInv`): a peer reported as connected
  is configured (`ConnectedIsConfigured`), a failed one has no row
  (`FailedLeavesNoRow`), the tracker says which (`TrackerAgrees`), and under
  fairness every request is answered (`RequestsAnswered`).
* `peer_faults` - every fault, crashes, the clean-up of inactive peers and
  disconnections of listed peers: the table's rules still hold (`RowsSound`,
  `ImplementsTable`).

* `remote_access` - two goroutines on one node, one of which also checks its
  health, and the idle clean-up, with commands that fail and connections that
  break at any time.  The pool is used soundly (`PoolSound`: a client is never
  closed while it runs a command, one whose command failed does not stay pooled);
  a closed breaker is below its threshold, an open one admits nobody before its
  time (`ClosedBelowThreshold`, `OpenAdmitsNone`); every call ends (`CallsEnd`),
  although the pool's mutex is held while another command runs.
* `service_runtime` - a connection and a provisioning request, overlapping checks
  and a signal at any moment from construction on.  Stopping is safe
  (`StopIsSafe`: no closed channel is used, the store is closed with nobody
  waited for inside), what the API accepted and what came of it is in the trackers
  (`TrackersSound`: `AcceptedIsTracked` and `OutcomeIsTracked`).  `Stop` after a
  signal always waits until its deadline (`StopWaitsItOut`), and the process ends
  (`SignalEndsProcess`).
* `rotation` - six scenes: a rotation cycle and a clean-up; two migrations to one
  node that has room for two of three peers; a migration with a disconnection, with
  a clean-up, and with a clean-up and a cycle; a synchronisation from any state of
  the interface and a restart.  Up to two failures, but none where three calls
  overlap.  Three invariants, each a conjunction of named parts, and liveness:
  `AddressSpaceSound` - subnets and addresses stay apart (`SubnetsDisjoint`,
  `AddressesSound`: an address is in its node's range as long as the node has one)
  and are given out as long as there are any (`AllocationExact`);
  `MigrationSound` - until the source or the target of a migration is being
  destroyed (`RoutesStand`), a peer being moved is always configured somewhere
  (`NeverCutOff`), where its row says once that is reported
  (`MigratedIsConfigured`), and what stays elsewhere is in the log
  (`LeftBehindIsLogged`);
  `InterfaceSound` - interface and file agree when nothing failed, on a node that is
  not being destroyed (`FileIsCurrent`), a synchronisation reaches its list
  (`SyncConverges`) and leaves alone what was right (`SyncKeepsGood`);
  `CallsReturn` - every call returns.
* `connector` - two client processes, one after the other with one fault, or
  together without; with every command, a signal at any moment, requests that are
  lost or hang, wg-quick failing, a client killed or the service restarted.  A
  tunnel that stands is sound (`TunnelSound`: its peer is on the server,
  `UpMeansServed`, under the tunnel's key, `KeysMatch`, and half an answer makes
  none, `OnlyComplete`), Ctrl+C removes both or says so (`CleanExit`), and every
  command connects or ends (`CommandsEnd`).

Violation runs, each a statement of the repository that the code does not keep
(the quotations are in `findings`):

| run | what TLC shows |
|---|---|
| `destroying_overwritten` | a health check puts a node from destroying back to active |
| `node_destroyed_with_peers` | a node is destroyed with an active peer on it |

Four more disagreements show when a fault or a worker is added to a passing run,
and are the reason why those runs are without it: an attempt whose context expired
rolls back with that context, so server, subnet and row stay
(`FailedLeavesNothing` with "timeout"); a subnet released by the cleaner while its
unhealthy node still runs is given to the next node (`ServersDisjoint` with a
cleaner); a second disconnection of one peer takes off a newer connection of the
same key (`ConnectedIsConfigured` with two disconnectors of one peer); a
disconnection during `AddPeer` leaves an entry without a row
(`ConfiguredHasRow` with a disconnector that takes ids from the list).

The models show further behaviour that a reader may not expect, visible in their
definitions and not kept as runs: the clean-up takes every active peer for
inactive (`GetInactive`), so it removes rows of peers that are being connected;
a lost answer of "wg set" leaves an entry without a row (the third case of
`SetCommand`), which is why `ConfiguredHasRow` is claimed only for commands that
tell the truth; a request for a key that has a row is answered with an id the
tracker does not know (`ConnectPeerAsync`); the capacity of a node is never
reached (`ConnectedClients`); two requests before the first progress event start
two attempts (`handleProvisionRequest`); an attempt that runs during `Stop`
creates its server afterwards; a node left in destroying by a crash is not listed
by any clean-up (`ListOrphanedNodes`).

Of the newer models:

* Remote access.  "Circuit open" is retried like a failed command, and a command
  is repeated after its answer was lost.  The breaker is never reset by a success alone: only a failure
  makes it look at its time.  A client that the pool replaced while its caller was
  about to use it is dialled again and belongs to nobody afterwards.  The health
  check goes around the breaker, and closes a failed connection twice.
* Service.  The signal handler is itself counted by the wait group that `Stop`
  waits for, so a shutdown always takes the whole timeout.  A request that comes
  before the worker has subscribed is tracked as requested and never worked on.
  Jobs are not waited for.  `ListenAndServe` failing after 100 ms is not noticed.
* Rotation.  `createReplacementNode` always returns an error - the replacement is
  only asked for - so `RotateNodes` reports failure whenever a node needs
  rotation, and never gets to migrating peers and destroying the old node; each
  cycle asks again.  A migration whose `AddPeer` fails leaves the row on the target
  and the peer on the source.  Moving a peer whose row has just gone reports
  success and configures a peer without a row; its address is free again by then,
  and another migration to that node may give it away before the "wg set" of the
  first one takes it back, which leaves the other peer without an address
  (`MigrationSound` fails in a scene of two migrations to one node and a
  disconnection, without any fault).  A source whose last row has just moved counts
  as an orphan; the clean-up may destroy it before `AddPeer` reaches the target, and
  the peer is then on no node.  A target it has counted as empty is destroyed with
  the rows that came since.  Both are what `RoutesStand` excludes
  (`MigrationSound` fails without it in the scenes with a clean-up).  A subnet
  released under the rows of an unhealthy node goes to the next new node, while the
  rows keep its addresses: `AllocateClientIP` offers them to peers of the new node,
  and their migration fails with a conflict.  A `wg set` whose save fails, or a crash
  between the two, leaves a file that a restart of WireGuard falls back to: a failed
  save is the fault `FileIsCurrent` excludes.  `SyncPeers` cannot exchange the
  addresses of two peers, since `AddPeer` refuses an address in use; the error is
  only logged, which is the exception (`clash`) in `SyncConverges`.
  `MigratePeersFromNode`, `SyncPeers` and `RestartWireGuard` have no caller.
* Connector.  `LoadConnectionState` does not restore `connected`, so the
  `disconnect` command never disconnects, and what it reads is not what was saved:
  `connector.go:452` uses the peer id as a format, and the file says
  `<id>%!(EXTRA ...)` (`Mangled`).  `--generate-keys` configures the tunnel with the
  key of the key file, which the service has never seen (an exception in
  `KeysMatch`), because the service does not send the key it made; the service makes a new key for
  each attempt, so every one that is repeated can leave a peer of its own.  A failed
  connection is a timeout for the client, three times over; and when an earlier
  attempt left its row, every further one is answered with an id that is not found.
  A poll between the last progress event and the connected event makes the client
  give up a connection that exists.  A signal while connecting removes nothing from
  the server, and main may go on to bring the tunnel up.

### Bounds

A node id stands for one attempt, and a request id for one request, since the
code draws a fresh UUID for each: the number of ids bounds how many attempts and
requests a behaviour has.  When they are used up nothing more may happen, so the
runs do not check deadlock; that nothing gets stuck is `AttemptsEnd` and
`RequestsAnswered`.

Nodes: two ids are needed for two attempts to compete for a subnet, and for a
new node to be given the subnet of one that is destroyed; one subnet for two ids
(`lifecycle_faults`) makes allocation fail, two (`lifecycle_rollback`) let both
live.  One worker of a kind is enough for a property about it meeting another
kind, two for it meeting itself.

Peers: three requests with two keys (`peer_connect`) give two that compete for a
key, or one that connects, is disconnected and connects again beside another; two addresses for
three requests (`NumIPs`) make two choose the same one and the third find none.
`MaxPeers` is `MaxPeersPerNode`.  `BusyElsewhere` counts nodes outside the model
that have active peers: orphans are destroyed only while more than one other node
is busy, and with `BusyElsewhere = 2` that condition never stops it.  The runs
with more faults are smaller; the invariants of `peer_connect` and `peer_ssh` are
proved for every size.

Remote access: one node, because nodes share only the pool's mutex, and two
callers, the cleaner and three clients (one pooled, one in each caller's hands)
for a client to be replaced under its user; two attempts and a threshold of two
let a breaker open within a call and between two.

Service: one request of each kind, since requests meet only in the trackers and
the bus; two checks of one kind overlap, the kinds being alike; one signal, a
second one kills the process.

Rotation: subnets of eight addresses, five for clients, four in the base network,
so that both run out.  `MaxPeers` 2 is what the target takes of the source, and `MaxRequests` caps what the
code does not.  `Strays` are the peers the interface
may have when a synchronisation starts.  A scene has one call of each member of
`Cycles`, `Cleaners` and so on.  All calls share tables and interfaces and nothing
keeps them apart, so `ScenesAssumption` lets any overlap but `SyncPeers`, of which
nothing is said here but what it does alone.  The scenes of the run are the pairs
with the most in common, and the triple in which the cycle can make a node
unhealthy, the clean-up release its subnet, and a new node get it, under a
migration; it is checked without failures and with at most one node chosen for
rotation (`Few`), which cuts off nothing of the other scenes.  The disconnection
meets one migration, and not two to one node, for the reason above.  Two things in
`Rotation` are coarser than the code: commands may fail as soon as the node's row
says destroying, although the server goes a little later, and `CheckNode` merges
reading and writing the status, which `NodeLifecycle` takes apart.
`RotationAssumption`: sources are distinct and no target is a source, as
nothing in the code keeps two migrations of one peer apart.
`NetworkAssumption`: the base network has no host bits and the mask of subnets does
not change, otherwise used and generated CIDRs cannot be compared.

Connector: two attempts for three, two polls for sixty: the last one and one
before it.  `SomePlans` are the commands of the two processes; a second process
that connects finds key, row, configuration and state of the first.  Two at once
are checked without faults.

Permutations of nodes, keys, requests and disconnectors map behaviours to
behaviours - `FindNextAvailableIP` orders addresses, which are not permuted - and
are used as symmetry in the runs without liveness properties.

### Fairness

`FairSpec` assumes weak fairness of each step of a goroutine that has started:
every call it makes has a timeout or a bounded number of retries, so it returns.
Nothing is assumed of requests, of the scheduler, of timeouts, crashes or
signals.

`RemoteAccess` needs strong fairness of each worker: a mutex is given and taken
back by others while it waits, and Go's mutex serves its waiters in order after a
millisecond.  `ServiceRuntime` assumes that main, the signal handler and the
shutdown deadline go on, and nothing of requests, jobs and checks, which the
process does not wait for.  `Rotation` assumes that each call goes on, remote
commands included.  `Connector` assumes that both goroutines of a process go on,
and nothing of the service: a request has a timeout.

## Proofs

All theorems hold for every value of the constants: any numbers of nodes,
requests, keys, subnets, addresses, workers, clients, attempts and signals.  Each
rests on the assumptions named in the modules that declare the constants, and on
what its statement assumes, which is given below.  In every case the property of
the runs is not inductive alone, and most of the work is in what has to be added.

**Nodes, under every fault** (`NodeLifecycleProofs`).  `TypeCorrect` is inductive as
it stands because the frames' types say which local values are set at which
position.  `NodeLifecycle` implements `NodeTables` (`LifecycleImplementsTables`),
hence `SubnetsSound` and `DeletedStaysDeleted`.  The step needs one fact beyond
the types: an id not yet inserted has no row and no subnet, so the abstract `used`
set (the ids past `createProvisioningRecord`) only grows and `CreateRow` maps to
the abstract creation.

**Nodes, further invariants** (`NodeInvariantProofs`).

* `TrackerIsRight`, under every fault: each event changes an attempt's frame and the
  tracker's entry together, and a crash loses both.  What has to be added is that
  node ids are no request ids, so that no progress event takes over an entry.
* `LifecycleHolds`, `ServersAreDisjoint` and `FailedHasNothing` assume `Quiet`: no
  lost answers, failing database, expired context or crash (`Honest`), roll-backs
  switched on (`CleanupOnFailure`), and no subnet cleaner.  They are
  false without: a roll-back
  whose context expired leaves server, subnet and row, and a cleaner releases the
  subnet of a server that runs.  `LifecycleInv` is the conjunction of what an attempt
  holds at each position (`AttemptInv`), what an activated node keeps (`LivingInv`)
  and what destroyers and checkers have read (`WorkersInv`).  For induction the last
  part had to say more than the properties need: a destroyer about to delete the
  row has no server left, and whoever has read a row has read a recorded server.

**Peers, under every fault.**  `PeerConnectionProofs` proves `TypeCorrect`; the one
fact that is not about records is that `FindNextAvailableIP` returns a free
address of the range when there is one, which needs the least element of a set
of naturals.  It also proves that `PeerConnection` implements `PeerTable`
(`ConnectionImplementsTable`) and from that `RowsStaySound`: uniqueness comes from
the insertion's own constraints, whatever the checks before it saw.

**Peers, under assumptions** (`PeerInvariantProofs`).

* `FailureLeavesNoRow` assumes only that the database works.  The invariant is
  that a connection before its insertion, or failed, has no row; rows appear only
  where a connection inserts its own.
* `ConnectionsHold` and `ConnectedStaysConfigured` assume `Undisturbed`: a
  database that works, no crash, no clean-up of rows, and one disconnection at a
  time, of a connected peer.  The two disagreements about disconnections described
  above are what happens without the last, and a cleaner takes rows from under their
  connections.  SSH may fail and lose answers, and nodes are destroyed meanwhile.
  `ConnectedIsConfigured` alone is not inductive; `ConnectionInv` adds what a
  connection holds at every earlier step.  The heart of the proof is that two
  connections that hold rows differ in key and, on one node, in address
  (`RowsStaySound`), so "wg set" and the removal of one spare the entry of the
  other (`SetSpares`, `RemovalSpares`); a node that has lost its row has no
  holders left.
* `NothingElseConfigured` and `EntriesHaveRows` assume `Truthful`: besides, remote
  commands do what they report and servers can be deleted: otherwise an entry is
  left behind.  `PeerInv` adds that before "wg set" and after the
  removal the entry is absent, that an unreachable node has no entries, and
  `ConfiguredHasRow` itself.  Only "wg set" adds an entry (`SetKeeps`); every
  other step is shown to delete no row whose entry stays (`EntriesKeepRows`).
* `TrackerIsRight` is about a process that does not crash, which would empty the
  tracker; it says of each request what its connection has come to, under every
  other fault.

**Remote access** (`RemoteAccessProofs`).  `TypeCorrect`, `PoolIsSound`,
`ClosedStaysBelow` and the action property `OpenAdmits`, for finite sets of hosts and
workers and with a name of a client for every reference there can be, so that a new
one always exists (`FreshExists`; the model reuses the names nobody refers to).
`ClosedBelowThreshold` follows from what a breaker can be (`Sane`): whatever calls
overlap between the two critical sections of `Execute`, each section leaves the
breaker sane.  `PoolSound` needs what a frame holds at each position (`GoodFrame`): a
client from the pool's answer until the result is counted, and how often it is still
to be closed; that a client is closed only when nobody runs a command on it is a
lemma of its own (`CloseIsSafe`).

**Service** (`ServiceRuntimeProofs`).  `TypeCorrect`, `StoppingIsSafe`,
`TrackersAreSound` and the action property `StopWaits`, from `RuntimeAssumption` alone:
ids of provisioned nodes differ from ids of requests, as the UUIDs they are.  The
invariant `Inv` has four parts besides the types.  `Positions`: where main is
decides whether handler, lock, store, worker and API exist; for it to be inductive
the store has to be open from the start of every early position on.  `Shutdown`:
each step of `Stop` leaves the mark the next one relies on.  `Listeners`: which
handlers the bus has for each event, exactly, at each step of start and stop - the
nested calls of `Subscribe` are followed one by one (`SubscriptionsKeepListeners`).
`RequestInv` and `JobInv`: because the tracker subscribes before the worker
(`TrackerFirst`), it has heard of a request before the worker starts its job, and of
the outcome before the job is done.  `StopWaits` follows because the signal handler
is itself counted by the wait group that `Stop` waits for.

**Connector** (`ConnectorProofs`).  `TypeCorrect`, `TunnelIsSound` and `ExitIsClean`,
from `ConnectorAssumption` alone, for any number of processes with every command and
fault.  The invariant (`InvHolds`) says that the ids of requests a process has not
made are unused, that the keys in use were written to the key file by a process, and
that a configuration that is written belongs to a connection the service completed
with that key.

**Rotation** (`RotationProofs`).  `TypeCorrect`, `AddressSpaceIsSound`,
`InterfaceIsSound` and `MigrationIsSound`, under every fault, for any address space,
nodes, peers, calls and scenes.  `ScenesAssumption` lets all calls overlap but
`SyncPeers`; in particular nodes are destroyed and subnets released during
migrations and disconnections.  Besides it, `NetworkAssumption`, `CallsAssumption`
and `RotationAssumption` they use `PowersAssumption`, four facts
about powers of two that the provers do not know and TLC evaluates for its values.

* `Core` is the invariant all of them share: the types, what a stack frame and its
  remote call have to do with each other (`FramesOK`), and the tables (`TablesInv`):
  a subnet is one that `GenerateSubnetCIDR` made of an index, no two of one index,
  a row has its node, and row and migration hold addresses of their node's range - as
  long as it has one, for the range can be released at any time
  (`SubnetsShrink`, `AddressesShrink`).
  `AddressSpaceIsSound` follows with arithmetic: networks of different indices do not
  meet (`NetworksApart`), and the least free address is found (`NextAddress`).
* `InterfaceInv` says for the file that, while nothing has failed, it is the interface
  or some call is about to save it (`FileInv`), and for a synchronisation
  (`SyncInv`) what has been reached: peers that are neither open nor in hand are as
  wanted, and the one in hand is as its call's position says (`Reached`, `Midway`).
  What makes `SyncConverges` inductive is that a peer to be changed can only be in
  the way of one listed in `clash`.
* `MovingInv` says where each peer's row and entries are at each stage of its
  migration (`Served`): before, at home only; half-way, row on the target and entry
  at home; after, entry on the target.  `SetsOK` says that each peer is at one stage,
  `Reserved` that no row of the target has the address about to be set, and `Effect`
  that an answer on its way means the command was carried out.  It is an invariant
  only as long as `RoutesStand`, which is why the theorem speaks of
  `RoutesStand => MovingInv`: a node that is being destroyed never stands again
  (`FallenStays`), so in a step after which all routes stand they stood before, and
  with them `MovingInv` (`RoutesStood`).  Commands on other nodes that go unanswered
  because of a destruction fail without effect (`UnansweredMoves`).
  Besides that condition, which is part of the property, `MigrationIsSound`
  assumes `Apart`: of the migrations that overlap a disconnection no two go to the
  same node.  It is false without (see above): the disconnection's deletion is what
  breaks `Reserved`.

Model-checked only:

* Liveness - `AttemptsEnd`, `DestroyingIsDeleted`, `RequestsAnswered`, `CallsEnd`,
  `SignalEndsProcess`, `CallsReturn`, `CommandsEnd`: fairness and `ENABLED` are out of
  the prover's reach.
* The two violation runs, which are counterexamples.

All other properties of the runs are theorems.

## Plan

All modules of the plan are built, and every invariant and action property of the
runs is proved.  What could be weakened are the assumptions of four groups of
theorems: `Quiet` for the nodes, `Undisturbed` and `Truthful` for the peers, and
`Apart` for migrations, with the condition `RoutesStand` of `MigrationSound`; each is
needed for its property as it is stated.

## Not modelled

Operations without a caller are left out where nothing depends on them: the batch
operations and status updates of peers, scheduled destruction and `BeginRotation`
of nodes, `ResetCircuitBreaker`.  The connector's renaming of its interface (macOS)
and its wait for a 503, which this service never answers to a connect request, are
left out, too, and so are its commands that only display.

Wording, logging, formatting, HTTP encoding, progress percentages, statistics
and configuration loading have no state that a property could be about.  The
generated query code is covered through the statements that change a table.
A database call is one step that fails without effect or succeeds; SQLite's own
recovery is trusted.  Node selection is any node with capacity: the strategies
differ only in which.
