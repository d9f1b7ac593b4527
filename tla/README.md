# Kubernetes State Aggregation: a TLA+ verification project

KSA mirrors the objects of many Kubernetes clusters into one table and answers
queries about them over gRPC. This directory models the parts of the repository that
keep state and run concurrently, checks them with TLC, and proves their safety
properties with TLAPS.

## 1. Inventory

| component | state | operations | talks to |
|---|---|---|---|
| Server daemon `cmd/server/main.go` | flags, context, wait group | open store, start API, start sync, wait, shut down | everything below |
| Manager `pkg/sync/manager.go` | a goroutine per active cluster | `Start`, `buildRESTConfig` | ClusterSyncer |
| ClusterSyncer `pkg/sync/syncer.go`, `syncer_hassynced.go` | `controllers`, a goroutine per discovered type | `Start`, `HasSynced` | discovery, client-go, DirectStore |
| Pipeline of one type `syncer.go:77-250` | Reflector position, DeltaFIFO, deltas in `Process` | list, watch, pop, `AddFunc`/`UpdateFunc`/`DeleteFunc` | API server, DirectStore |
| DirectStore `pkg/sync/store.go` | the key map | `InitializeKeys`, `Add`, `Update`, `Delete`, `Get*`, `ListKeys` | datastore |
| Discovery `pkg/k8s/discovery.go` | none | `DiscoverWatchableResources` | API server, filters |
| Configuration `pkg/config` | none | `LoadConfig`, `Validate`, `GetEffectiveFilters`, `Matches*` | |
| Postgres datastore `pkg/datastore/postgres` | the `resources` table | upsert, delete, list keys; get, list, graph walk | database |
| Memory datastore `pkg/datastore/memory` | a map under an `RWMutex` | the same; its graph is the flat list of roots | |
| gRPC API `pkg/server` | calls in flight | `GetResource`, `ListResources`, `FetchResourceGraph`, `Serve`, `GracefulStop` | datastore |
| `ksactl` `cmd/cli` | the tree it prints | get, describe, graph | gRPC API |

Four kinds of concurrency meet in the datastore: the process loops of the resource
types write rows, API calls read them, a start of a syncer loads its keys, and the
daemon closes it when it ends. Clusters and types share nothing else.

What makes each of them correct:

- *Pipeline, DirectStore*: the table follows the cluster, through crashes, missed
  deletes, edited filters and failing database calls; the key map knows every row,
  because the queue passes on deletions of known keys only.
- *ClusterSyncer, Manager, daemon*: nothing uses the datastore after it is closed;
  a signal ends the process; `HasSynced` means what its callers take it for.
- *Discovery, filters*: the types synced are those the configuration selects, once
  each; what is no longer synced does not linger.
- *Graph walk*: sound and complete although it is many statements without a
  transaction, never crossing clusters, and terminating.
- *Queries*: an answer is that of one moment, or an error, on either backend; failure,
  absence and ambiguity are not taken for each other; no lock is kept.
- *`ksactl graph`*: the tree shows what was answered, below each of its owners.

What is hard to test, line by line, is listed under `hazards` in `PROJECT.json`, with
the properties that cover it.

## 2. Modules

| module | models | kind |
|---|---|---|
| `ResourceKeys` | the keys `namespace/name` of one type | constants |
| `ClusterAPI` | an API server as List and Watch show it (external) | component |
| `DeltaFIFO` | client-go's queue as `syncer.go:211-239` uses it (external) | component |
| `DirectStore` | `store.go` and the rows of one type | component |
| `GVRSync` | the pipeline: composes the three above | composition |
| `StateMirror` | what the pipeline promises about rows | abstract specification |
| `ClusterSyncer` | goroutines per cluster and type | component |
| `Daemon` | `main.go`, `Manager.Start`, gRPC server: extends `ClusterSyncer` | composition |
| `Filters`, `Discovery` | `config.go`, `discovery.go`, types over restarts | component |
| `ResourceRecords` | rows, primary key, upsert, delete, query filters | shared definitions |
| `GraphWalk` | Postgres' `FetchResourceGraph` against a changing table | component |
| `GraphCommand` | `ksactl graph` and its call: extends `GraphWalk` | composition |
| `Backends` | get, list and list keys of both datastores, and their writers | component |
| `Queries` | handlers, `ksactl get` and `describe`, a starting syncer: extends `Backends` | composition |
| `QueryService` | what an answer may be | abstract specification |
| `MC*` | instances for TLC | |
| `GVRSyncProofs`, `InitialSyncProofs`, `MirrorProofs` | theorems about `GVRSync`, each extending the one before | proofs |
| `DaemonProofs`, `DiscoveryProofs`, `GraphWalkProofs`, `QueriesProofs` | theorems about the module each is named for | proofs |
| `GraphCommandProofs` | theorems about `GraphCommand`, extending `GraphWalkProofs` | proofs |

### Correspondence

*Pipeline.* `hist[n]` is the cluster at resource version `n`; a manifest is the
version that last changed it, so `rows[k] = hist[n][k]` says that the row shows the
object as of `n`. `pos` is the Reflector's last resource version. `FirstList` and
`Relist` are `ListFunc` followed by `DeltaFIFO.Replace`, `Watch` is one event, `Pop`
and `Process(k)` are `Pop` with the loop over the deltas at `syncer.go:221-238`; each
delta is a step, so that a crash can come between two database calls. `Pop` holds the
queue's lock while `Process` runs, hence `Idle` in the guards of the Reflector. `Handle`
reads the key map and calls `AddFunc`, `UpdateFunc` or `DeleteFunc`; these call
`DirectStore`, whose failing variants (`UpdateError`, `DeleteError`) either had no
effect (`"lost"`) or took effect before the error was reported (`"applied"`). `Crash`
stands for a shutdown too: everything but `rows` is lost. A restart may choose another
set of namespaces. `keys` after a tombstone keeps the key (`store.go:121`, `147`:
`MetaNamespaceKeyFunc` fails on a `DeletedFinalStateUnknown`).
`failed` and `base` are history variables: keys whose last database call returned an
error (which `syncer.go` only logs), and the version of the run's first list.

*Daemon.* One action per blocking point of each goroutine: `Main`, `ServeGoroutine`,
`StopGoroutine`, `Manager`, `Syncer(c)`, `Worker(c, g)`. `main = "closing"` is a return
before the wait, `"stopped cleanly"` the return after it; the deferred `Close` and `stop`
follow in that order. A worker in `"writing"` is inside a database call, which uses
`context.Background()` and is not interrupted. What a worker writes is `GVRSync`.

*Discovery.* `Start` is a start of the daemon: it reads a configuration, and watches
`Watchable` of the lists in `Answers`: the preferred ones, or after any error whatever
part of all versions comes back. `Sync(t)` is the pipeline of one type in one step. A
pattern is the set of strings it matches (`Matched`), which abstracts the globbing of
`matchPattern`.

*GraphWalk.* `FetchRoots` is the root query, `Visit` an iteration of the loop at
`fetcher.go:210-250` with its callback (any action, or an error), `LayerVisited` the
end of that loop, `FetchParents(cluster)` and `FetchChildren(k)` one SQL statement each,
`NextLayer` the end of an iteration of the outer loop, and `QueryFails` the error return
of any of the statements. `UpsertResource` and `DeleteResource` may change the table
between any two of them. The keys of `visited`, `parents` and `children` are pairs of
cluster and UID. The order of rows within a layer is arbitrary, as the database's is.
`expanded`, `ever` and `always` are history variables: the rows whose relatives were
looked up, and the rows that were in the table at some time, or all the time.

*GraphCommand.* The walk runs with the handler's callback, which includes everything.
`BuildTree` makes the map keyed by UID (the last item of a UID stays), `PrintNode` is
one call of `printNode`: a printed node is its path from a root, and siblings may come in
any order. `CallFails` ends the
command at any time, which the walk in the server need not notice.

*Queries.* A caller is a gRPC client, a command, or a syncer in `InitializeKeys`.
`Ask` sends a request, `PassOn` and `Refuse` are the head of a handler. On Postgres,
`Query` is the statement, which sees the table as it is then; `ReadNext` takes rows off
the cursor while the table goes on changing. On the memory backend, `RLock` enters the
loop, `ReadNext` reads an entry of the map as it is then, and the lock goes with the
return, by whichever path: `ScanEnds` or `QueryFails`. A writer is `BeginWrite`, `Lock`,
`WriteAndUnlock`; as in `sync.RWMutex`, a writer that waits keeps new readers out, and
its `Unlock` lets in those that wait. `Deliver` is the handler's status and what
`get` or `describe` make of the list; `ConnectionFails` loses the call or its answer.
The refinement mapping `CallOf` tells when a query saw the table: on Postgres at the
statement, whose rows are those still in the cursor and those read; on the memory
backend when the loop ends, since no writer was in since it began.

## 3. Runs

| run | checks | size | shows |
|---|---|---|---|
| `GVRSyncPipeline` | `TypeOK`, `Mirror`, `TrackedRows`, `InitialSyncReconciled`, `RestsOnlyWhenMirrored`, `RestartHeals`, `ImplementsMirror` | 186k states | a type through one crash, one database error, one expired watch, stale first lists, edited filters; it rests only when nothing is left to mirror, and every write is one `StateMirror` allows (refinement) |
| `GVRSyncMirror` | `ImplementsMirror` | 726k | with consistent first lists no row ever goes back, across restarts too (the same refinement, one more change) |
| `GVRSyncKeyLeak` | `KnownKeysHaveRows` *violated* | | a key without a row after a tombstone |
| `GraphCommand` | `TypeOK`, `Sound`, `Complete`, `Exact`, `TreeShowsAnswer`, `AlwaysAdvances`, `Terminates`, `CommandEnds` | 137k | the walk against a table that changes under it, with every callback decision, and the tree printed of its answer; each step brings the end of the walk closer |
| `Queries` | `TypeOK`, `ScanOfOneMap`, `ImplementsService`, `NobodyWaitsForever` | 102k | a user, a starting syncer and a writer on either backend, with failing queries and connections (refinement of `QueryService`) |
| `QueriesExamples` | `ExamplesFindResources` *violated* | | `ksactl get pods` finds nothing while a pod is stored |
| `DaemonLifecycle` | `TypeOK`, `StoreOutlivesUse`, `ShutdownNeverStuck`, `SignalEndsDaemon` | 52k | two clusters, three types, all start-up failures, a signal at any time |
| `DaemonComponentExit` | `ComponentExitEndsDaemon` *violated* | | the daemon outlives its components |
| `DaemonHasSynced` | `HasSyncedMeansAll` *violated* | | `HasSynced` before all types have started |
| `DiscoverySafety` | `TypeOK`, `ExclusionsHold`, `OneVersionUnlessError` | 127k | types, objects and configurations that change between starts |
| `DiscoveryGhosts` | `NoGhostRows` *violated* | | rows of types no longer discovered stay for good |
| `DiscoveryInclude` | `IncludedByEitherName` *violated* | | `include_resources: [pods]` syncs no pods |

Each violated property is what a comment, a test or the repository's README says of the
program; `findings` in `PROJECT.json` quotes the line. Deadlock is checked in the two
runs of `Queries`, where every caller can always ask again; the other systems may really
stop (the bounded cluster stops changing, the call returns, the process exits), and
their runs say `CHECK_DEADLOCK FALSE`.

### Bounds

- *Pipeline* (`MaxRV`, `MaxFaults`, two keys in two namespaces): three changes of the
  cluster are enough for create, delete and create again on one key, or to interleave
  two keys; one fault of each kind lets a crash follow an error, a relist follow a
  crash, and so on. The two namespaces let a restart exclude one key and include it
  again. Keys interact only through the queue's order and its count, so two suffice.
  With `MaxRV = 5` (1.6 million states) the same properties hold; the smaller bound keeps
  the run short with the liveness property. `GVRSyncMirror` uses `MaxRV = 5`.
- *GraphCommand* (`MaxChanges = 1`, `MaxDepth = 4`, seven rows, three callbacks): one
  change between two statements already mixes two states of the table; the rows include
  a diamond (a pod owned by a replica set and by the deployment that is the root), an
  owner that is not stored, a second version of a row, a second cluster that shares a
  UID, and a row that may come to own its own owner. The initial table is any that
  those rows and the primary key allow. No acyclic path of the seven rows is longer
  than four, so `MaxDepth` cuts off nothing but cycles, which the properties except.
- *Queries* (four rows, two callers, one writer): two pods of one name, so that a query
  for one finds two; two Events that a group tells apart, which `ListResourceKeys` does
  and the other queries do not. The user may make any of eight requests. Two readers and
  a writer are all the parties an `RWMutex` distinguishes; two writers exclude each
  other by the theorem `MapSafe`. The counters need no bound: a call starts anew.
- *Daemon* (`MaxCalls = 1`, two clusters with two and one types): one call in flight is
  what `GracefulStop` waits for; every subset of types may pass the filters and every
  subset of clusters be active.
- *Discovery* (`MaxChanges = 2`): two starts and two changes of the cluster in any order,
  four configurations, six types of which two share their objects.

### Fairness

- `GVRSync`: `Start` (the daemon is restarted after a crash), and the steps of
  the Reflector's goroutine and the process loop, which block only on each other's lock.
  No fairness for faults, for the cluster's users, or for `Relist`.
- `GraphCommand`: the handler's goroutine and the command keep running; the table's
  changes are bounded by `MaxChanges` and get no fairness.
- `Queries`: each call goes on (`CallStep`), and so does a worker that has called `Lock`
  (`LockStep`), which is what `sync.RWMutex` gives: neither side overtakes the other for
  ever. Nobody has to ask or to write.
- `Daemon`: weak fairness for every goroutine that can go on. `WorkerStops` has strong
  fairness: a worker alternates between `"running"` and `"writing"`, and after the signal
  `controller.Run` looks at the context between two calls of `Process`, with nothing new
  coming from the Reflector. Calls end, because queries end. No fairness for `Signal`,
  `ServeFails` or new calls.

## 4. Proofs

All for every value of the constants: any finite set of keys, any rows and requests, any
clusters, types, patterns and callbacks, any number of callers and writers, and every
bound.

| module | theorem | statement |
|---|---|---|
| `GVRSyncProofs` | `TypeCorrect` | `Spec => []TypeOK` |
| | `Invariance` | `Spec => []IInv`, the inductive invariant |
| | `MirrorAlways`, `RowsAreTracked` | `Spec => []Mirror`, `Spec => []TrackedRows` |
| | `CleanErrorsTrackEveryRow` | if a failed upsert never takes effect, every row is in the key map |
| `InitialSyncProofs` | `SyncInvariance` | `Spec => []SyncInv`, what `HasSynced` counts |
| | `InitialSyncSafe` | `Spec => []InitialSyncReconciled` |
| `MirrorProofs` | `ImplementsStateMirror` | `Spec => ImplementsMirror` |
| | `RestsMirrored` | `Spec => []RestsOnlyWhenMirrored` |
| `GraphWalkProofs` | `TypeCorrect` | `Spec => []TypeOK`; the table keeps its primary key |
| | `WalkSound`, `WalkComplete`, `WalkExact` | `Spec => []Sound`, `[]Complete`, `[]Exact` |
| | `WalkAdvances` | `Spec => AlwaysAdvances`, and `Keys` and `Rows` are finite |
| `GraphCommandProofs` | `CommandWalks` | `CommandSpec => Spec`: the theorems on walks hold of the command's |
| | `TreeShows` | `CommandSpec => []TreeShowsAnswer` |
| `QueriesProofs` | `TypeCorrect` | `Spec => []TypeOK` |
| | `MapSafe` | `Spec => []ScanOfOneMap` |
| | `ImplementsQueryService` | `Spec => ImplementsService` |
| `DaemonProofs` | `TypeCorrect`, `StoreSafe` | `Spec => []TypeOK`, `Spec => []StoreOutlivesUse` |
| | `NeverStuck` | `Spec => []ShutdownNeverStuck` |
| `DiscoveryProofs` | `TypeCorrect` | `Spec => []TypeOK` |
| | `ExclusionsSafe`, `OneVersion` | `Spec => []ExclusionsHold`, `Spec => []OneVersionUnlessError` |

Every safety property of a passing run is among them. The assumptions are the named
`ASSUME`s of the modules (finite keys, rows with finitely many owners, the types of the
constants, distinct ranks of the versions of a resource), which TLC evaluates in every
run.

### The arguments

*`Mirror`* says what the row of a *settled* key is, and is not inductive: what that row
shows was decided when the key's last delta was queued, possibly many steps earlier.
`IInv` adds `Pending` (the last delta waiting for a key, or being processed, leads to the
content at the Reflector's position), `TrackedRows` (the key map knows every row but those
of failed upserts; where the queue drops a deletion, or a list does not mention a key,
the key is unknown and so has no row), and `Life` (no position and no work in a process
that does not run, and no work before the first list).

*`InitialSyncReconciled`* is about a counter that knows no keys: the first `Replace` sets
it to the number of keys it touched and every `Pop` takes one away, whichever it pops.
`SyncInv` ties it to the keys: `Counted` says that a key whose row is older than the
first list is being processed or is among the first `initial` entries of the queue. That
needs `OneEntryPerKey` (the queue holds exactly the keys with deltas, each once), `Recent`
(no delta is older than the first list) and `Started`.

*`ImplementsMirror`* carries the order of versions through the queue: `Chained` says that
the deltas of a key lead to versions no older than their predecessors and the first list;
`OneBatch` that nothing is queued for a key being processed; `PastVersions` that an object
was last modified no later than it was seen. The refinement mapping gives `horizon` the
version of the first list and `following` the keys that have `CaughtUp`: the Reflector has
got to the row's version, and no delta of the key is known from older versions only. A
first list that is stale makes a row fall out of `following`, and its first write puts it
back, for as long as the process lives. With `~StaleLists`, `RowsBehind` says that every
key is caught up at any time, so that no row ever goes back.

*`RestsOnlyWhenMirrored`* is the safety half of `RestartHeals`: the pipeline does not stop
half-way. By `OneEntryPerKey` an empty queue leaves no delta behind, so every key is
settled and `Mirror` applies. What is left is that the Reflector's position is the
cluster's: `OneChange` says that from each version to the next some object changes, so
that a further version would be an event. That a new resource version is unlike the one
it replaces is `PastVersions` again.

*`Sound`* is stated by the smallest closed set, so the invariant quantifies over closed
sets: `OnPaths` says that layers, lookups and answer lie within every set of rows that
holds the roots and is closed under relatives among the rows *ever* seen. *`Complete`* is
its mirror image over the rows that were there *always*: `NothingMissed` says that a
relative of an expanded row is visited, in a layer, or will be found by a pending lookup.
*`Exact`* follows from both, with `OncePerKey`, where `ever` and `always` are the table.

*`AlwaysAdvances`* is the safety half of `Terminates`. Every step of the walk visits a key
for the first time, or leaves those as they are and makes a lookup, or failing that takes
the next layer, drops a row of the layer that was visited before, or ends a phase. That
is a lexicographic measure of finite sets, because the keys and rows are finitely many,
and changes of the table do not touch it. So a walk ends however often the table changes,
which TLC can check for `MaxChanges` changes only.

*`TreeShowsAnswer`*: what `printNode` is still to print and what it has printed are, at
any time, the paths below the roots that are printed or start with a path to print. At
the end, consider the items at which no path ends. If there were any, one of them would
have no owner among them, or they would be a cycle of owners; and one without such an
owner is a root, or is printed below the path of its owner. That is the induction over
the acyclic answer, done once, on a set.

*`ImplementsService`*: on the memory backend `ScanState` says that what a loop has read and
what is selected of the entries to come add up to what is selected of the map, which
`ScanOfOneMap` keeps from changing meanwhile; on Postgres the rows of cursor and records do
not change after the statement. Every step then maps to a step of `QueryService` or to none.

*`StoreOutlivesUse`* follows the order of starts and ends: what main has started
(`StartOrder`), how the server follows its goroutines (`ApiOrder`), that a goroutine ends
after those it started (`SyncOrder`), and that main leaves after `wg.Wait` or before the
Manager was started (`EndOrder`).

*`ShutdownNeverStuck`* is the safety half of `SignalEndsDaemon`: at any time after the
signal, whoever is waited for can go on, or waits for somebody who can. It follows from
`ApiOrder` and `SyncOrder`, which order the waiting: main waits for the server's two
goroutines and the Manager, the Manager for the syncers, a syncer for its workers, and
`GracefulStop` for the calls.

*`ExclusionsHold`* needs that what is watched, and the rows of what has caught up, pass the
filters of the configuration *in force* (`WatchedPass`, `RowsPass`), which a restart may
change because nothing is watched then (`NothingWatchedWhenDown`).

### Only model-checked

- Liveness: `RestartHeals`, `Terminates`, `CommandEnds`, `NobodyWaitsForever`,
  `SignalEndsDaemon`. Liveness under fairness and `ENABLED` are out of the prover's reach.
  Three of them have a safety half that is proved: `RestsOnlyWhenMirrored`,
  `AlwaysAdvances` and `ShutdownNeverStuck`. The guards these name (`AtRest`, `Event`,
  the `...CanGo` of `Daemon`) stand for `ENABLED`; that they agree with it was checked
  with TLC on the instances above.

## 5. Findings

| finding | where | shown by |
|---|---|---|
| after a tombstone the key stays in the key map | `store.go:121`, `147` | `GVRSyncKeyLeak` |
| `ksactl get pods`, as in the README, finds nothing: the kind is compared as stored | `get.go:61` | `QueriesExamples` |
| main does not notice that its components have exited | `main.go:174` | `DaemonComponentExit` |
| `HasSynced` is true before most controllers are registered | `syncer_hassynced.go:7` | `DaemonHasSynced` |
| rows of types no longer discovered are never reconciled | `syncer.go:75` | `DiscoveryGhosts` |
| an include rule must match both names of a type | `discovery.go:59` | `DiscoveryInclude` |

Properties that hold with an exception name it: a database error that `syncer.go` logs
leaves its key wrong until the next change or start (`failed`); a configuration that
cannot be loaded closes the datastore under the API (`StoreOutlivesUse`); of two items
with one UID the printed tree shows one, and items that own each other below a root
print for ever (`TreeShowsAnswer`, `CommandEnds`).

## 6. Plan

Done: every module of section 2, and the proof of every safety property. What would
come next, should the code grow that way:

1. Several types of one cluster in one model: `Discovery` with `GVRSync` in the place of
   its one-step `Sync`. Types share no state but the table's disjoint rows, so this adds
   nothing to check today; a shared queue or a transaction over types would change that.
2. Retries: a syncer whose discovery failed, a type whose keys could not be loaded and a
   handler whose database call failed are all given up today. `RestartHeals` without the
   restart is the property to state once there are any.

## 7. Not modelled

- Generated protocol code, `hack/` and `design/`: no program state.
- `cmd/cli/main.go` and the flags of both programs: they fill in the constants.
- The text of tables, YAML, JSON and of a described object (`get.go`, `describe.go`):
  formatting of what `Queries` calls `rows`. `describe` prints `<none>` for annotations
  because the Postgres backend stores none.
- JSON conversion of records but for its failure (`QueryFails`), SQL text, schema
  migration, logging.
- Objects whose manifest carries no kind: API servers send it with every object. The
  handlers fill in a missing one, but `DeleteFunc` (`syncer.go:193-204`) does not.
- `label_selector`: read from the file and used nowhere (`config.go:18`, `92-94`).
- The inside of client-go, gRPC and Postgres: modelled from how `src/` uses them, marked
  external in `PROJECT.json`. A statement is atomic; a watch delivers events in order.
