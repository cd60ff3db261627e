# Verification of mql's execution core

TLA+ models of the concurrent parts of mql, checked with TLC and, where stated,
proved with TLAPS. Paths below are relative to the repository root.

## 1. Inventory

mql compiles a query (`mqlc`), runs it on a virtual machine (`llx`) under a graph
executor (`exec`), and gets its data from provider plugins, which are separate
processes started and supervised by a coordinator (`providers`). `discovery`
connects to assets and explores the assets they lead to.

| component | state | operations | interacts with | hard behaviour | correct means |
|---|---|---|---|---|---|
| **graph executor** `exec/internal/graph.go, nodes.go, builder.go, queue.go` | node data, priority queue, `doneChan` | `Execute`: rounds of consume/recalculate | execution manager through `runQueue`, `resultChan`, `errChan` | results, done and errors in any order; first report wins | nil error only with complete, delivered results; always returns |
| **execution manager** `execution_manager.go, waitgroup.go` | per query: context, gate, wait group, error; channels | `Start`, `executeCodeBundle`, `sendResult`, `Stop` | worker goroutines, provider callbacks | deadline, late callback, panic, unknown checksum, full channel, Stop | no late or lost result; a panic stays in its query; Stop returns |
| **connection graph / restartable provider** `providers/running_provider.go` | connections, parent edges, collected nodes | `Connect`, `Disconnect`, `Reconnect` | provider process, runtimes | calls made after the lock is released | a connection in use, and its parents, stay connected |
| running provider `providers/running_provider.go` | closed, shutdown, failed flags, first diagnostic | heartbeat, `Shutdown`, `Reconnect`, `recordCrash` | provider process, coordinator | two locks, late heartbeats, restart | one diagnostic per crash; no lock cycle |
| **coordinator** `providers/coordinator.go` | running providers, runtimes by asset, unprocessed runtimes, last connection id | start, stop, `RuntimeFor`, `RemoveRuntime`, `Shutdown` | schema, runtimes, provider processes | check under a lock, create outside; ids in two places | a provider in use is not stopped; ids stay unique |
| extensible schema `providers/extensible_schema.go` | loaded schemas, aggregate | `Add`, `Lookup`, `Close` | coordinator | lazy loading under a lock | lock order; a loaded schema is found |
| **runtime, asset resolver** `providers/runtime.go, asset_resolver.go` | provider connections, sub-runtimes, resolved assets | `UseProvider`, `Connect`, `Close`, `connectedRuntime` | coordinator, providers | abandoned connects, lost races, close while resolving, shared `ConnectedProvider`s | no leaked runtime, no connection lost under its user |
| field cache `providers/field_cache.go` | answers by resource and field | load, store, drop | runtime | an answer that outlives its resource | - |
| provider installation `providers/providers.go` | installed list | list, install, update | file system, network | I/O | - |
| **asset explorer** `discovery/asset_explorer.go` | tracked assets, seen platform ids, one mutex | `NewAssetExplorer`, `Connect`, `CloseAsset`, `Shutdown` | coordinator, runtimes | deduplication of overlapping assets in any order; error paths under the mutex | no live asset covered by another; the mutex is released |
| **plugin service** `providers-sdk/v1/plugin/service.go` | runtimes by connection, last heartbeat | `AddRuntime`, `Disconnect`, `GetData`, `Heartbeat` | coordinator | two connects of one id; watchdog | one runtime per id; idle provider ends |
| **virtual machine** `llx/llx.go` | step cache, connected chains, block results | `run`, `runChain`, `triggerChain`, block calls | runtime, execution manager | evaluation by demand; nested blocks; errors and nulls | each datapoint reported, with the value the query denotes |
| compiler, printer, recording, self update, SBOM, vault, provider implementations | - | - | - | sequential or I/O | - |

`exec/internal/collector.go` (`BufferedCollector`) and `internal/workerpool` are used by
nothing in the repository but their own tests and are left out for that reason.

PROJECT.json lists the hazards of this code, each at its line, with the
properties that cover it.

## 2. Plan

Ordered by how much depends on the component and how hard it is to test. Runs are
kept few: one per question, several properties each.

1. `ExecutionManager`, `GraphExecutor` and its abstract `ExecuteContract`, with
   proofs. *Done.*
2. `RestartableProvider`: the connection graph against the connections the plugin
   process really has; `ConnectionGraph`: the sort it relies on. *Done, with proofs.*
3. `RunningProvider`: locks, heartbeat, shutdown, reconnect, crash record. *Done,
   with proofs.*
4. `Coordinator`, with its two users `AssetExplorer` and `AssetResolver`, composed in
   `Discovery`. *Done, with proofs.*
5. `Watchdog` and `PluginService`: the process on the other side. *Done, with proofs.*
6. `BlockExecutor`: the virtual machine, against what a query denotes. *Done,
   with proofs.*
7. Open. Modules: the switch of a runtime's provider after `Connect` and the providers a
   query adds to a runtime (`Runtime.addProvider`), blocks on single values and
   cancellation in the virtual machine, the recording.
   Composition: `RestartableProvider`'s set `alive` replaced by `PluginService`.

## 3. Modules

| module | models |
|---|---|
| `ExecutionManager` | `executionManager` and `WaitGroup`, and the goroutines of a query |
| `GraphExecutor` | `GraphExecutor.Execute`, its nodes and queue; extends `ExecutionManager`, so the two run composed |
| `ExecuteContract` | abstract: what the caller of `Execute` may rely on |
| `RestartableProvider` | `RestartableProvider` and `connectionGraph`, and the runtimes in the plugin process |
| `ConnectionGraph` | `topoSort`, extends `RestartableProvider` |
| `Coordinator` | coordinator and `Runtime`: start, connect, close, index, connection ids |
| `AssetExplorer` | the asset explorer; extends `Coordinator` |
| `AssetResolver` | cross-asset resolution; extends `Coordinator` |
| `Discovery` | the three composed, and what they promise together |
| `Watchdog` | heartbeats and the watchdog of a provider process |
| `PluginService` | the service in a provider process; extends `Watchdog` |
| `BlockExecutor` | the virtual machine of compiled queries |
| `RunningProvider` | `RunningProvider`: flags, two mutexes, heartbeat loops, restarts |
| `MC_*` | small instances of each for TLC |
| `ExecutionManager_proofs`, `GraphExecutor_proofs`, `RestartableProvider_proofs`, `RunningProvider_proofs`, `Discovery_proofs`, `PluginService_proofs`, `BlockExecutor_proofs`, `BlockExecutorValues_proofs` | theorems; the last extends the one before |

In some modules an operator is preceded by a variant of itself (`StopsAtBinding`
before `StopsAt`, `ReplayDoneAtOnce` before `ReplayDone`): the code with a plausible
bug. No specification uses the variants. Substituting one for its operator must
make a property fail; PROJECT.json says which, so every property is known to be
sensitive to the code.

### 3.1 Execution: `ExecutionManager`, `GraphExecutor`

**Who runs.** The manager goroutine (`Start`, control state `mpc`), one worker per
query (`run` inside `executeCodeBundle`, `wpc`), callbacks of provider goroutines
inside `sendResult` (`snd`, which doubles as `resultMu`: `{}` is unlocked), and
the goroutine of `Execute` (`gpc`). They meet in `runQueue`, `resultChan`,
`errChan`, `doneChan`, the query's context `ctx` and its gate `finished`.

| code | actions |
|---|---|
| `Start` | `CheckStop`, `TakeQuery`, `StopInSelect`, `ReturnFromQuery` |
| `executeCodeBundle` | `SendPropError`, `PropErrorsDone`, `Settle`, `CloseGate`, `FlushPanic`, `FlushDone`; deadline `Deadline` |
| `run` (worker) | `WorkerRan`, `WorkerPanics`, `WorkerReleased`, `WorkerUnregisters` |
| `sendResult` | `Callback`, `UnknownChecksum`, then `DeliverResult` or `AbortSend` |
| `Stop` | `RequestStop`, then the wait for `mpc = "exited"` |
| `Execute` | `Initialize`, `Recalculate*`, `EndRound`, `ReceiveResult/Done/Error`, `EndDrain`, `StopManager`, `Return` |
| the four node types | `RecalculateDatapoint/Query/Collector/Finisher`, each with the `consume` calls its edges make |

**Abstractions.** A result is a checksum and `"ok"` or `"err"`. A callback reports any
checksum with any value, at any time after its worker started, the end of the query
included: this is all `llx` and the providers can do to the manager. `Settle` is
lines 326-339 in one step (only the manager writes what they write). Cancelling
`em.ctx` and closing `stopChan` are one step. `Initialize` queues every node, and
nodes that wait since the start with the priority `math.MaxInt` (`hot`) are popped in
any order. The cast of a result to its expected type, debug output, panic reporting
and the skew policy are left out. The `recover` around the whole manager is not
reached: what can panic runs under the inner one.

`GraphAssumption` says what `Build` guarantees, or gets from its callers in this
repository: every datapoint, and so every property, is reported by some query, and the
ids of nodes differ. In the runs the graph has no cycle, which a compiled bundle
ensures. Two queries that share a datapoint are covered by the run of the manager
alone; in the graph the same effect, a second report with another value, comes from
repeated callbacks.

**Fairness.** For the manager alone: the manager, each goroutine inside `sendResult` and a
worker whose `WaitGroup.Wait` is over (runnable goroutines run), and deadlines (time
passes). For `Execute` less is needed: somebody among the graph, the manager and the
goroutines inside `sendResult` goes on, and deadlines pass. Nothing is assumed of workers, callbacks,
`Unregister` or the manager's owner: a query may hang for good.

### 3.2 Connections: `RestartableProvider`, `ConnectionGraph`

**State.** `nodes` and `collectedNodes` are the connection graph; `alive` is what the
plugin process has; the point of the model is that they are kept in step only by
calls made outside the lock. `pc` says where the runtime that owns a connection is,
`drop` which plugin calls a Disconnect still has to make.

| code | actions |
|---|---|
| `Connect` | `Register` (lines 206-235), `Recheck` (237-246), `Revive` (247), `AddImplicit` (249-260), `CallConnect` (262-267) |
| `Disconnect` | `Disconnect` (304-317), `CallDisconnect` (one plugin call each), `Disconnected` |
| `Reconnect` | `BeginReconnect`, `Replay` (one plugin call each, lock held), `EndReconnect` |
| the process | `Crash` |

Each lock section is one action and each plugin call is one, so every order of the
sections and calls of concurrent goroutines is explored.

**Abstractions.** The edges are `Parent` restricted to the nodes (both maps are always
written together). `topoSort` is the set `Needed` and any order with parents first:
`ConnectionGraph` computes the real depth-first sort, for every order of Go's map
iteration, in every state met, and checks that it is exactly that. `visit` ends because a
connection is not its own ancestor (`ForestAssumption`): ids come from a counter
(`coordinator.NextConnectionId`) and a request names a parent that has one. It also shows a
detail: a parent that has been collected appears in the sort (it is visited through
the edge of its child) but, being no node any more, is not replayed. `isClosed` is set
when the process dies; the time until somebody notices adds nothing, as calls fail
anyway. A call on the old `r.plugin` after a restart is a call that fails. A runtime
that failed to connect does not disconnect (`Runtime.tryShutdown`). A connection is
its own identity: one runtime owns it, connects it, may connect again, closes it once.

**Fairness.** What a goroutine inside `Connect`, `Disconnect` or `Reconnect` does under
the lock or after its last plugin call is weakly fair (`Recheck`, `AddImplicit`,
`Disconnected`, `EndReconnect`). A plugin call is not: `GRPCClient` makes `Connect` and
`Disconnect` without a deadline (`grpc.go:78-86`), and the plugin need not bound them. So
`CallsReturn` says what the lock order gives: a call returns if its own plugin calls
(`InPlugin`) are answered, whatever those of others do, and if no replay goes on for
ever. The latter is a condition the code does not ensure: a replay makes its plugin calls
under `r.lock`, and one that hangs holds up every `Connect` and `Disconnect`. Nobody has to
connect, disconnect, crash or restart.

`CHECK_DEADLOCK FALSE`: once every runtime is closed and the provider is down with its
restarts used up there is nothing left to do.

### 3.3 Supervision: `RunningProvider`

**State.** The two mutexes and who holds them; `isClosed`, `isShutdown`,
`heartbeatFailed`, `err`; `life`, the process behind `r.plugin`; `running`, the
processes that really run (an old one can outlive its replacement); one program
counter per thread. A thread is a heartbeat loop (one for each process ever started) or
a caller: a runtime that reports a crash or reconnects, or the coordinator that shuts
down.

| code | actions |
|---|---|
| `SupervisedRunningProvider` | `SPInit`, then the first beats by the starting caller |
| `heartbeat` | `Check`, `Send`, `Answered`, `Late`, `Broken`, `Flag`, `SelectDone`, `SelectTick` |
| `Shutdown` | `BeginShutdown`, `Kill`, `Mark`; `KillClient` after it, as in `coordinator.Shutdown` |
| `Reconnect` | `LockToReconnect`, `Reopen`, `Restart` or `RestartFails`, then first beats with both locks held |
| `crashError`, `recordCrash` | `SeeCrash`, `Record`, `BuildDiagnostic`, `Store` |

A step ends where another thread can interfere: at a lock, or at a call to the process.
`Reconnect` is reached from `Runtime.EnsureProvidersConnected`, an exported method used
by programs that embed mql.

**Abstractions.** Time: a beat is answered, late or broken; broken is any other error, of
a process that is gone or of one that runs (`Unimplemented`, `Internal`). A diagnostic is the life it
is about. `killedSelf`, `exitGraceExpired`, the process tracker and the crash log only
shape its text. The replay inside `Reconnect` is success or failure (3.2 has it in full).

**History.** `undead` holds the lives that were marked closed, or left marked closed, while
they ran: a process whose connections a Reconnect could not replay (`RestartFails`), and
one that ran when a diagnostic of a process before it was stored (`Closes`). `ClosedIsDown`
excepts these lives and no later one.

**Parameters.** `ReplayMayFail` allows a Reconnect that starts a process and then fails.
`CleanRestart` assumes that a process answers its first beats under Reconnect. It is
`TRUE` in the runs that ask about anything else, because `reconnect_self_deadlock`, the
run with `FALSE`, shows that the code locks itself up otherwise and every other
liveness question would get the same answer. The proofs assume neither.

**Fairness.** Strong fairness of a loop's steps, of its `ctx.Done` case and of a caller's
steps, but for those that wait for a plugin call without a deadline (`InPlugin`):
`Plugin.Shutdown` in `Kill`, which is made under `lock`, and the replay in `Restart`, under both
locks. Nothing bounds these but the plugin process, so the liveness properties have the
condition `PluginAnswers`: none of these calls is under way for ever. Go's mutexes switch to hand-over for a waiter that has waited 1 ms, and `select`
chooses at random between ready cases, so a thread whose step is enabled again and again
takes it; every beat returns, at the latest by its timeout. No call, and no crash, has to
happen.

`CHECK_DEADLOCK FALSE`: a provider that failed its first beats was never published and
nobody calls it.

### 3.4 Discovery: `Coordinator`, `AssetExplorer`, `AssetResolver`

**State.** A runtime is the number of its making. `stage` is how far it has come to be
connected, `phase` how far its `Close` has; `providers` says whose `ConnectedProvider`
it holds for each provider, since a runtime made from another copies the pointers.
`unprocessed` and `index` are the two places in which the coordinator knows runtimes,
`plug` the connections in each provider process, `stopped` the runtimes whose process
was stopped. `ex` is the explorer's operation under way (`AssetExplorer.mu`), `th` the
goroutines of queries.

| code | actions |
|---|---|
| `RuntimeFor` | `Found`, `Make` with `RefreshedIndex`, `RefreshedList` |
| `DetectProvider`, `UseProvider` | `StartProvider`, `UseProvider` |
| `Runtime.Connect` | `UseProvider` (the id), `CallConnect` |
| `Runtime.Close` | `Begin`, `CloseSub`, `SubClosed`, `SubsClosed`, `Disconnect` or `TimeOut` and `LateDisconnect`, `RemoveRuntime` |
| `NewAssetExplorer` | `ConnectRoot`, `RootConnected`, `Started`, `Failed` |
| `AssetExplorer.Connect` | `Connect` or `Duplicate`, then `ConnectedAsset`, `Failed`, `Kept` |
| `discoverChildren` | `DiscoverChild`, one child a step |
| `dedup`, `CloseAsset`, `Shutdown` | `Covered`, `Covering`, `CloseAsset`, `Shutdown`, `CloseNext`, `Closed` |
| `connectedRuntime`, `connectTarget` | `Miss`, `Reuse`, `MakeSub`, `Refused`, `Reached`, `Unreached`, `GiveUp`, `Store`, `Watch` |

Every step is one critical section of `coordinator.mutex` or `Runtime.mu`, or one call
into a plugin. The explorer's mutex is held from an operation's first step to its last,
and queries, late disconnects and the goroutines of timed-out connects run in between.
The loops of `dedup` and `Shutdown` close one runtime a step, in the order of `allAssets`
(`Turn`).

`ExplorerAssumption` names assets by where they are listed, once, by one parent or as a
root (two listings of one thing are two assets with the same ids), and excludes roots
whose ids the coordinator knows, on which `NewAssetExplorer` reads a nil (section 7).

**Abstractions.** An MRN is one more platform id. Two discoveries of one thing are two
assets with the same ids. A provider process is the set of its connection ids and does
not die by itself (3.2, 3.3). Builtin providers, the switch of the provider after
`Connect`, providers a query adds and `coordinator.Shutdown` are left out.

**Circles.** An asset may be reached from itself, and two from each other: `RuntimeFor` then
hands out a runtime that is known by its ids, which becomes a sub-runtime of itself, or of
its own sub-runtime. `closeSubRuntimes` guards against the first only, and `Close` is
under a `sync.Once`: in a circle of several runtimes each waits for the next for ever.
`Stuck` is exactly this state, or waiting for one in it. `CloseReturns` and
`MuIsReleased` except it, `close_cycle` shows it, and in `Quiet` only it may keep a Close
from its end, so that TLC reports every other deadlock.

**Fairness.** `WF(Proceed)`: somebody who has begun a call goes on, callers need not call
and timeouts need not expire. Each call takes finitely many steps, so weak fairness of
the disjunction is enough. Plugin calls count only if the code bounds them (`GoOn`): the
start of a process by its timeouts, the disconnects of a `Close` by `shutdownTimeout`
(`runtime.go:161`). A connect, a disconnect that is late and the `Plugin.Shutdown` with which
`RemoveRuntime` stops a provider (`coordinator.go:270`, under the coordinator's mutex) have no
deadline (`grpc.go:78-96`); connects are bounded only for queries (`asset_resolver.go:411`). So
`CloseReturns` has the condition that providers which are stopped answer (`Stopping`), and
`MuIsReleased` also that the connect does which the explorer waits for under its mutex
(`Connecting`, `discovery.go:76`). One that hangs keeps `AssetExplorer.mu` for ever.

### 3.5 The provider's side: `Watchdog`, `PluginService`

| code | actions |
|---|---|
| `Heartbeat` | `Heartbeat` (reads the clock), `StoreBeat` |
| `heartbeatWatchdog` | `Poll` with `Observed`, `ShouldExit`; `Retire` |
| `TrackRequest` | `Begin`, `End` |
| `AddRuntime` | `Connect`, `Create`, `Share`, `Store` |
| `GetData`, `StoreData` | `Serve`, `Served` |
| `Disconnect`, `Shutdown` | `Disconnect`, `Shutdown` and `CloseAll` |

Time is discrete: ages of the last beat (`silence`), of the last poll (`sincePoll`) and of
a clock value a `Heartbeat` handler has read (`beats`). While the host sleeps only
time passes. `quiet` (waking time without a beat), `naps` and `stale` are history, and
no guard reads them. `Delay` bounds how late a goroutine of an awake process runs;
`WatchdogAssumption` relates it to the budget of missed windows. `deprecatedAddRuntime`
and what resources contain are left out.

**Fairness.** `WF(Proceed)`: time passes, the host wakes up, the watchdog and a started
beat run. A request may hang for ever.

### 3.6 Queries: `BlockExecutor`

The state is a program, the executors of its block runs under way with their step
caches and connected chains, one call stack, and the first report of each datapoint.
An action is what one call does up to the next call it makes; its rest is a frame.
`run` is `ReportOuter` and `OuterReported` (the points of outer blocks, one a step),
`NextPoint`, `RunEnds`; `runChain` is `Cached`, `Connect`, `Compute`, `Ask`,
`CallBlock`; block calls are `StartRun`, `Update`; `triggerChain` is `Trigger`, `FollowUp`;
`triggerChainError` is `Blame`, also for a `WatchAndUpdate` that returns an error without
calling back (`builtin.go:942-959`), which is the field's answer `Bad`; `lookupValue`'s panic, and what the execution manager
makes of it, is `Panic`. There is one stack because `Runtime.WatchAndUpdate` calls back
before it returns: an answer is never late, and what varies is the order in which points
and chains demand the chunks.

Values are true, false, null and error. A chunk is a function of its dependencies, an
operator whose left side may settle it, a field of a resource, or a block called for
each element of a list; `ProgramAssumption` is what the compiler guarantees.
`Meaning` is the denotation that reports are compared with; it knows no order, no cache
and no executor. Cancellation, version skew, coverage gaps, strict mode and
blocks on single values are left out.

**Fairness.** `WF(Step)`: the goroutine of the query runs.

## 4. Runs

| run | instance | question | states |
|---|---|---|---|
| `execution_manager` | two queries sharing a datapoint, one with two; `ResultCap` 1 | the manager under any owner, including one that never reads or stops at any moment | 68,451 |
| `graph` | q2 reads both datapoints of q1, one of them resolved by the caller; `ResultCap` 1 | completeness, once-only execution on final values, one recalculation a round, termination, refinement of `ExecuteContract` | 596,390 |
| `connections` | a line of three connections, the youngest may be refused; two restarts | graph, runtimes and plugin agree; a call returns though those of others hang; `topoSort` is what 3.2 takes it for | 48,456 |
| `provider_restarts` | two callers, one restart, one late beat forgiven | flags, diagnostics and kills against the process | 260,372 (symmetry) |
| `provider_loops` | one caller, one restart, no late beat forgiven | calls return and replaced loops end, if the plugin answers | 7,533 |
| `reconnect_self_deadlock`, `heartbeat_kills_successor` | one caller, one restart | violated, see 6 | - |
| `discovery` | five assets with overlapping ids on two providers, three runtimes, two resolving goroutines; an asset that reaches itself and two that reach each other | runtimes, ids, connections, deduplication and Close against each other | 209,440 |
| `close_cycle` | two assets on one provider that reach each other | violated, see 6 | - |
| `failed_resolution` | the same; the host's query reaches the cloud account | violated, see 6 | - |
| `plugin_service` | a host and its container, two requests at a time; parents that beat, die, are busy or never beat; up to two sleeps | routing of connections, shared resources, the watchdog's judgement | 250,427 |
| `query_vm` | 10,780 programs: every query of three chunks over a resource with at most one block, a block in a block, and blocks that report what an `and` skips | every point reported, correctly, with nothing missing | 414,177 |

**Why the bounds are enough to be interesting.** A channel of capacity one is full as soon as
a second result comes, so every blocking send blocks; more capacity only hides it.
Two queries give a first and a next one, sharing and dependency; a query that reads two datapoints gives batches, a
resolved property, and two inputs arriving apart. Three generations of connections are
the least in which a grandparent is kept by a grandchild; a child that closes and
one that connects again stand for siblings, and two crashes give a second replay after
a failed one. One restart gives an old and a new process, the case every stale-state
hazard of the supervision needs. Two
callers suffice for the races of `recordCrash` and for Shutdown against Reconnect; with the
two heartbeat loops four threads compete for the locks. `SYMMETRY` is used only in
`provider_restarts`, which checks no liveness and never tells callers apart.
Three runtimes are an asset, the one that covers or duplicates it, and a resolved one:
enough for an index entry to be overwritten, for its first owner to be closed, and for
ids to be given out again after all providers stopped; two goroutines race for one
target. The window of the watchdog is two ticks, so that a poll falls inside and
outside it, and the two budgets (three and six windows) differ by more than a sleep.
Three chunks over a resource give every pair of users of one chunk in every order of
demand; the nested programs give values that pass two blocks.

The action properties and invariants that history variables serve (`worked`,
`doomed`, `unanswered`, `recorders`, `undead`, `stopped`, `rivals`) read them; no guard does.

## 5. Theorems

All for every value of the constants that satisfies the module's named assumption.

| module | theorem | inductive invariant |
|---|---|---|
| `ExecutionManager_proofs` | `EMTypeCorrect`, `DoneOnlyAfterSendHolds`, `GateIsTight`, `NilMeansDeliveredHolds`, `NoSecondAnswerHolds` | `EMTypeInv`: the types, and that `cur` is a query while the manager executes one (`Busy`). `GateInv`: once a gate is closed, only a result of the manager can be in `snd`; needed because `GateHolds` speaks of the send, which happens steps after the gate was tested. `DeliveryInv`: who answers for a checksum at each place of the manager. Before the worker every checksum is pending, in `sendResult` or sent, and only one of these; while the gate is open what is active is unsent; a worker that came past its `WaitGroup` without an error left nothing active; after a panic what is active is about to be sent |
| `GraphExecutor_proofs` | `GETypeCorrect`, `DoneIsClosedOnce`, `SuccessIsComplete`, `RunsOnceHolds`, `RunsOnReportedPropsHolds`, `OncePerRoundHolds`, `ExecuteNilMeansDelivered`, `ExecuteSendsOneAnswer`, `ExecuteImplementsContract` | `CompleteInv`: follows a datapoint from `dpVal` through `unreported` to `sunk`, says that whatever is invalidated is also queued, and that the loop is left for done only with an empty queue: this, not the order of the queue, is why success is complete. `RunInv`: a query is in `runQueue` only between its submission and its start, and has copied the first report of each property by then. `RoundInv`: an invalidated datapoint waits among the hot nodes, and as long as one does only datapoints have worked in this round. `GraphIsOwner`: a step of `Execute` is a step of an owner of the manager, so what is proved of the manager under any owner holds in the composition |
| `RestartableProvider_proofs` | `RPTypeCorrect`, `ConnectionsSurvive`, `GraphTellsTheTruth`, `NothingLeaks`, `CollectionSparesNeeded`, `SortIsReplayableHolds` | `RPInv`: which calls own an explicit node (`OwnerInv`), that a Disconnect only has plugin calls pending for connections whose runtime is gone, that everything in the graph is needed (`NeedInv`, so a replay reaches all of it), what is alive up to replay and doom (`AliveInv`), and that what is alive is in the graph, on its way in or on its way out (`LeakInv`). `Needed` is a least set, so its lemmas need no induction over the graph; for the sort see below |
| `RunningProvider_proofs` | `SPTypeCorrect`, `OneRecorderHolds`, `ClosedProviderIsDown`, `CrashesAreRecorded`, `FirstIsKilledForFailingHolds` | `SPInv`: types and `RecorderInv` (once a call was told it is first, the provider is closed with a diagnostic, and stays so in this life). `LockInv`: who kills, marks or restarts holds `lock`. `DownInv`: who is about to mark the provider closed has killed its process or found it closed, who is about to record a crash of the current process has seen it dead, and a closed provider's process is down or in `undead`. `FirstLife`: until a Reconnect one thread at a time beats, so the late beats the loop counts were left unanswered in a row, and one that failed otherwise counts as more than is forgiven |
| `Discovery_proofs` | `TypeOKHolds`, `UniqueIdsHold`, `ConnectionIsKeptHolds`, `OpenIsServedHolds`, `DedupHoldsAlways`, `NoLeakHolds`, `CachedIsOpenHolds` | see below |
| `PluginService_proofs` | `TypeCorrect`, `OpenConnectionsAreFound`, `ChildrenShare`, `TheLivingAreSpared` | `PSInv`. `WDInv` with `BudgetInv`: the observed silence is at most the waking time since the last beat plus what one unnoticed nap and two delays can add, which is below the budget. `RoutesInv`: a runtime is in the hands of at most one request, two in hand for one id are rivals, and a child's resources are those of the runtime its parent has, or had before a later connect |
| `BlockExecutor_proofs` | `MeaningIsWellDefined`, `StackInvHolds`, `EndedHasReported` | `StackInv`, see below |
| `BlockExecutorValues_proofs` | `ValueInvHolds`, `FirstReportIsRightHolds`, `OrderInvHolds`, `UsedInvHolds`, `NothingIsMissingHolds` | `ValueInv`, `OrderInv`, `UsedInv`, see below |

`ExecuteImplementsContract` is a refinement: each step of `Execute` composed with the
manager is a step of `ExecuteContract` or leaves its variables alone.

**The sort.** `RecursionIsDefined` shows once, for functions on any well-founded set, that a
recursive definition whose step looks only at what an argument needs has a solution; it
gives `visit` (a connection needs its parent) and the loop over the map (a number needs the
one before). `VisitIsRight` is the promise of one visit: the list stays free of repetitions
with parents first (`Ordered`), and gains the connection and nothing outside any set that holds it and
that the edges do not leave. Taking `Needed` for that set bounds the sort; taking
what does not descend from the connection (`NoneIsAboveItself`) shows that visiting
the parent does not list the child.

**Discovery.** The proofs are layered like the modules. To the coordinator every step of the
explorer, of a query or of a runtime is one of a few moves (`CoMove`: make a runtime, use a
provider, connect, cache or keep a sub-runtime, begin to close, go on closing), and
stages, phases and the number of runtimes only go forward (`Forward`). `Base` is what
the rest stands on:
the types; `CoRefs`, that lists, index and caches hold runtimes that were made and have the
stage they need; `TrackRefs`, `OpRefs` and `Tree`, that an asset is tracked once, has a
runtime exactly while it is connected, and what each operation of the explorer holds;
`ThRefs`, the same for queries. On it, one invariant for each promise:

- `ConnInv`, `OnePending` (`UniqueIds`): a runtime whose id is not reused got an id of its
  own, not above `lastId`, from the process that is up; an id left in a config belongs to an
  attempt that failed or to the one runtime that is connecting the asset. The counter
  starts again only when no process is up.
- `LostToOthers` (`ConnectionIsKept`): a missing connection has been closed by a runtime
  that held it or its id.
- `Served` (`OpenIsServed`): an open, connected runtime is in the list of unprocessed runtimes,
  or in the index under its ids, or another with one of its ids was connected.
- `Deduped` (`DedupHolds`): at most the asset the operation is about is covered, or covers others,
  and then exactly those are about to be closed.
- `Accounted` (`NoLeak`): an open runtime is held by the explorer, by a query or its goroutine, is in
  the list of sub-runtimes or of those to be closed of another one, or was refused.
- `PrivateRefs` (`CachedIsOpen`): a runtime without a known id is in the hands of one query until it is
  connected and cached, and only its parent closes it afterwards.

**Virtual machine.** The first half needs no values. `StackInv` says how the stack, the
executors and the reports fit together:

- The runs of executors are nested (`RunsAreNested`, `AllRun`), each right above the block
  call it is for (`RunsAreCalled`, `CallsRun`), whose frame agrees with what its executor
  knows of it (`CallAt`).
- While a call has no value, only its runs are above it (`OpenKeeps`); it has one exactly when
  its last run has reported every point (`ClosedIsComplete`). So the value a report sets is
  that of the call below, although the callback is an ordinary function that may come late.
- A chain goes on only after what it started has left its executor (`Quiet`), and a chunk that
  was run or connected and has no value is still awaited, by a frame or by a chunk that is
  (`ActiveIsAwaited`); the second kind is a chunk of smaller number, so with an empty stack nothing waits.
- What has a value was reported or is about to be, and `run` passes a point only when it
  was run (`ValuesAreReported`, `PointsAreRun`): `EndedHasReported` follows.

The second half compares with `Meaning`, a recursive function over the chunks.
`MeaningIsWellDefined` shows that its defining equation has a solution, by building one as a
union of partial solutions: what a chunk needs is before it or in the body it calls, and a set of chunks
without a least one under that order is empty, so no induction theorem with an operator
parameter is needed. `ValueInv` says that caches, connections, unfinished results, reports
and blames are right for every *sound* chunk, one that is not `Spoilt`. Its core is
`KnownEvaluation`: an evaluation that knows some of the values it uses stops at one
that is not there, or comes to what the chunk means. `Spoilt` is a least closed set;
that what a sound chunk uses is sound again needs only its closedness.

`NothingIsMissing` needs two invariants more. `OrderInv`: an executor runs the points of
its own block before those of outer blocks, and those one after the other, because refs
count through the blocks and what a body takes from outside comes before all of it
(`BodyIsLater`); what is connected leads to a point, so a trigger has something to report, and a
point of an outer block that is still to be reported has not been counted yet, so the call it
belongs to is still open. `UsedInv`: where a good value of a sound chunk is cached, what it
rests on can be found, there or in an ancestor; a block was called with good arguments, and
while the call is open lookups from its executor find them. A sound point of an outer block was
an argument, so it has a value in some caller, and so does what it would need if it were run
again: the chain that misses something is at a chunk of its own block, or at one that is `Spoilt`.

**Model-checked only.** All liveness (`StopReturns`, `NoStrandedWorker`, `ExecuteReturns`,
`CallsReturn`, `EveryCallReturns`, `OldLoopEnds`, `CloseReturns`, `MuIsReleased`,
`AbandonedExits`, `EveryPointIsReported`): the prover does not handle fairness.
Every safety property of a passing run is stated by a theorem.
`DoneOnlyAfterSend`, `DoneClosedOnce` and the type invariants `EMTypeOK`, `GETypeOK`,
`RPTypeOK` and that of `PluginService` are proved and not checked again by a run.

## 6. What the models found

Each of the first four is a run that must fail, on one property that quotes the
repository.

1. **Reconnect can wait for itself** (`reconnect_self_deadlock`). If a restarted process
   fails its first beats, `heartbeat` takes locks its own goroutine holds.
2. **An old heartbeat kills a new process** (`heartbeat_kills_successor`). A beat that failed
   is acted on after the restart.
3. **A failed resolution disconnects the asset that asked** (`failed_resolution`). A
   runtime made from another one inherits its `ConnectedProvider`s, connections included,
   and `tryShutdown` disconnects all of them when its own connect fails.
4. **Close can wait for itself** (`close_cycle`). Two runtimes that were resolved from each
   other are sub-runtimes of each other. `Close` of one closes the other inside its
   `sync.Once`, and that one closes the first again. The limit of
   the resolution chain (`maxAssetResolveDepth`) is meant for such cycles, and does not
   prevent this.

The others are written into the properties as named exceptions, so that the rest is
still checked. The runs reach the exceptions, except two that need a larger instance, in
which TLC reaches them: reused ids need a fourth runtime, roots that cover each other a
second root.

- A parent that a Disconnect collected is disconnected in the plugin after a Connect of
  another child has brought it back, and a restart between the plugin call that revives
  a parent and the lock under which it enters the graph leaves the parent unknown to the
  replay (`GraphIsAlive`, `doomed`).
- A node whose Connect failed stays in the graph (`GraphIsAlive`, `CleanWhenQuiet`).
- A Reconnect that fails while replaying leaves a running process marked closed, and a
  diagnostic that was built before a restart closes the successor when it is stored after
  it (`ClosedIsDown`, `undead`: these two lives alone are excepted).
- After a restart the diagnostic of the earlier crash is still there and is taken for the
  one of the next (`CrashIsRecorded`); `heartbeatFailed` is likewise not reset.
- A deadline that passes while the manager handles a panic (`execution_manager.go:331`)
  leaves both the panic's errors and the timeout: the graph can complete on the first
  and `Execute` return nil. `ExecuteReturns` and the contract allow either.
- The runtime of a resolution that `RuntimeFor` refused, and one stored in a parent that
  was closed meanwhile, are closed by nobody (`NoLeak`).
- An asset whose connect failed keeps the connection id in its config, and is connected
  with it again although others may have been given it (`UniqueIds`).
- Closing one of two runtimes of an asset takes its ids out of the index for both, and
  the provider of the other may be stopped under it (`OpenIsServed`).
- A runtime that can be found by a platform id may be closed by another user while it
  is cached for queries (`CachedIsOpen`, `Private`).
- Root assets are not deduplicated against each other (`DedupHolds`).
- Of two simultaneous Connects of one id the runtime that is stored first is dropped
  without being closed (`OpenIsFound`).
- A host that sleeps twice between two beats, too short each time to be noticed, or
  within a beat, can lose a provider whose parent is alive (`SparesTheLiving`).
- `and` with a false left side stores null for its right side, which another user of that
  chunk then sees or not, depending on the order of the datapoints (`FirstReportIsRight`,
  `Spoilt`).
- `run` works down all points of a block, those of outer blocks included, in an executor
  that has not cached them (`llx.go:428-451`). What an outer point depends on was computed
  before the block was called, except where `and` wrote null for it: then the block's run
  panics with "value not computed", and the query fails (`NothingIsMissing`, `Panic`).

## 7. Not modelled

In the components that are modelled in part: `coordinator.Shutdown`, builtin providers,
the switch of a provider after `Connect`, providers a query adds to a runtime, the field
cache (ids of resources name their content, so that what it could confuse is data);
`deprecatedAddRuntime`; cancellation, version skew, coverage gaps, strict mode and
single-value blocks of the virtual machine. The extensible schema merges data under one
lock. Unused code: `BufferedCollector`, `internal/workerpool`. Not worth a model: the
compiler and printer (sequential translation of large data), recording, self update,
provider installation, SBOM, vault and the provider implementations with their generated
resource code (file, network and API I/O), which are most of the repository's lines.

Left open in what is modelled: a graph whose property no query reports (no caller builds
one), a failed Connect that stays registered, a grandparent that is not revived when its
grandchild connects again, a root asset whose ids the coordinator knows already
(`asset_explorer.go:146` reads a nil), the unlocked copy of a parent's provider map (`coordinator.go:169`), and the
unsynchronised read of `r.plugin`.
