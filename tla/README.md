# Verification of the compositor core of the Chrome UI framework

The repository is a cut of Chromium that keeps what a desktop UI needs: `base`,
`ipc`, `url` and parts of `net`, the GPU command buffers (`gpu`), the compositor
(`cc`), the `ui` toolkit and a sample browser window (`cdosbrowser`). All paths
below are relative to `src/chrome_ui_framework/src/`.

This directory holds TLA+ models of its concurrent core, the TLC runs that check
them on small instances, and TLAPS proofs of what matters most for every
instance.

| Module | Models | Checked by | Proofs |
|---|---|---|---|
| `TaskGraphRunner` | `cc/raster/task_graph_runner.{h,cc}` | `MCTaskGraphRunner*.cfg` | `TaskGraphRunnerProofs` |
| `SchedulerStateMachine` | `cc/scheduler/scheduler_state_machine.{h,cc}`: operators on a record | through `Scheduler` and `ThreadProxy` | |
| `Scheduler` | `cc/scheduler/scheduler.{h,cc}`, with the proxies as its client | `MCScheduler*.cfg` | `SchedulerProofs` |
| `ThreadProxy` | `cc/trees/thread_proxy.cc`: both threads, composed with `Scheduler` as the impl thread | `MCThreadProxy*.cfg` | `ThreadProxyProofs` |
| `FenceSyncs` | what fence syncs promise: the abstract specification | `FenceSyncsSpec` in `MCSyncPointManager.cfg` | |
| `SyncPointManager` | `gpu/command_buffer/service/sync_point_manager.{h,cc}` and the fence syncs of `in_process_command_buffer.cc` | `MCSyncPointManager.cfg` | `SyncPointManagerProofs`, `FenceSyncsProofs` |
| `CommandStream` | what a command buffer promises: the abstract specification | `StreamSpec` in `MCCommandBuffer.cfg` | |
| `TransferRing` | `gpu/command_buffer/client/ring_buffer.cc`: operators on a record | through `CommandBuffer` | `TransferRingProofs` |
| `CommandBuffer` | `cmd_buffer_helper.cc`, `command_buffer_service.cc`, `gpu_scheduler.cc`, `cmd_parser.cc` and `in_process_command_buffer.cc` between them | `MCCommandBuffer*.cfg` | `CommandBufferProofs` |
| `SurfaceManager` | `cc/surfaces/surface*.cc`: what the methods do to a record of all surfaces and resources | through `Surfaces` | |
| `Surfaces` | a child, an embedder and the display using them: `surface_layer.cc`, `surface_display_output_surface.cc`, `surface_aggregator.cc`, `display.cc` | `MCSurfaces.cfg` | `SurfacesProofs` |

## 1. Inventory

### Components that carry the program's own logic

**Task graph runner** (`cc/raster/task_graph_runner.cc`). Worker threads run
graphs of raster tasks. State, all under one lock: a map of namespaces, each with
its graph, a heap of ready tasks, the running and the completed tasks; a heap of
namespaces with ready tasks; two condition variables. Operations:
`GetNamespaceToken`, `ScheduleTasks` (replaces a whole graph and cancels what is
not in the new one), `WaitForTasksToFinishRunning`, `CollectCompletedTasks`,
`Shutdown`, `FlushForTesting`, `Run`, `RunUntilIdle`. Hard: a graph is replaced
while its tasks run; a namespace is erased while threads refer to it; single
signals with several waiters. Correct if no task is lost, run twice or run
before its dependencies, counts stay exact, and every waiter and every worker is
woken.

**Scheduler** (`cc/scheduler`). On the impl thread, a state machine of some
forty members decides the next action, and a loop performs actions until there
is none. Inputs: calls of the client, begin frames, posted deadlines and retro
frames, acknowledgements of swaps. Hard: actions call the client, which calls
back; the deadline and the retro frame queue live beside the state machine and
must follow it; the output surface may be lost at any point. Correct if frames
do not overlap and always end, a surface is created only on a flushed pipeline,
the main thread is never blocked for ever, and what was asked for happens.

**Proxies** (`cc/trees/thread_proxy.cc`, `single_thread_proxy.cc`). The main and
the impl thread exchange requests, begin main frames and blocking commits
through posted tasks and completion events. State: pipeline stages (requested,
current and final), deferral and visibility on the main thread; the completion
event and the one held until activation on the impl thread; two queues of
tasks. Hard: requests made while a frame runs; the held event; a lost or
released output surface whose messages cross the frames in flight. Correct if no
request is lost, the main thread is never blocked for ever, and the scheduler
is told only what it can take.

**Fence syncs** (`gpu/command_buffer/service/sync_point_manager.cc` with
`in_process_command_buffer.cc`). Command buffers number their flushes from one
global counter. A GPU thread processes flushes in order, releases fence syncs
and blocks on those of other command buffers. State: per client the order
numbers with a queue of order fences, the last release with a queue of
callbacks. Hard: four locks and several threads; a wait is validated while the
other side finishes; contexts are lost in the middle of a flush; callbacks run
outside the locks. Correct if a wait returns only after its release or when
there will be none, exactly once, and always.

**Command buffer** (`gpu/command_buffer/client`, `service`). A client writes
commands into a ring and tells the service how far; it learns how far the
service has read from a state published after each flush. Memory for data is a
second ring, reused when a token has passed. State: `put_`, the last `get` seen,
room left, the token on the client; the parser's get and put offsets and the
error on the GPU thread; an event that resets itself. Hard: full and empty
rings look alike, tokens wrap, the cached get offset is stale, the wait and
the signal race, the context may be lost. Correct if each command is executed
once, in order, as written, memory is not reused too early, and waits end.

**Surfaces** (`cc/surfaces`). Surfaces hold the frame last submitted; frames
refer to other surfaces; sequences keep a destroyed surface alive while
somebody shows it; resources are counted by the factory and imported by the
display. Operations: create, submit, destroy, require and satisfy, aggregate,
draw, resize, lose the output surface. Hard: parties come and go in any order.
Correct if nothing shown is deleted, nothing leaks, resource counts agree and
every draw callback runs.

**Display scheduler** (`cc/surfaces/display_scheduler.cc`): deadlines of the
display. **IPC sync channel** (`ipc/ipc_sync_channel.cc`): nested synchronous
sends and dispatch while blocked. **Message loop**
(`base/message_loop/incoming_task_queue.cc`): the handshake between posters and
a sleeping loop. **SequencedWorkerPool** (`base/threading`). These are not
modelled.

### How they interact

`ui/compositor` owns a `LayerTreeHost`; a proxy connects it to
`LayerTreeHostImpl`. The scheduler tells the proxy when to animate, to send a
main frame, to commit, activate, draw and prepare tiles (`ThreadProxy` composed
with `Scheduler`). The tile manager hands graphs to the task graph runner and
reports back with `NotifyReadyToActivate/Draw`. A compositor draws either
through a GL context, that is, a command buffer, whose fence syncs order it
against other contexts, or into a surface, which the display aggregates. All
threads are message loops of `base`.

### Not modelled

Layers and property trees, animation curves, tiles and resources, quads and GL
renderers, decoders, text, URL and network helpers, widgets, skia glue, tools and
vendored code are data and geometry, sequential, pure I/O or generated;
`PROJECT.json` lists each one with the reason. They are nearly all of the
repository: its 1.2 million lines are Chromium with a small window on top, most
of it toolkit and library code, tests, tables and generated bindings.
The share of lines that the models stand for is therefore small, and would stay
small with every concurrent component modelled.

Concurrent and not modelled: the display scheduler, the synchronous IPC channel,
the incoming task queue, the sequenced worker pool, and the older sync points
(`GenerateSyncPoint` to `WaitSyncPoint`).

## 2. Plan

Done, in this order: the task graph runner with its inductive invariant and its
proofs; the scheduler with its state machine; fence syncs with their abstract
specification and the proof that they implement it; the command buffer with its
abstract specification; surfaces; the two threads of the proxy composed with the
scheduler; the proofs about the scheduler, about surfaces and about the proxy,
which implements the scheduler; the proofs about the command buffer and the
transfer ring, up to the memory that commands read.

Next:

`IncomingTaskQueue` of `base`, the display's scheduler, `SyncChannel` of `ipc`, the
older sync points.

Where an instance that is large enough for the safety questions is too large for
the liveness check, a smaller instance of its own answers the liveness questions.

## 3. TaskGraphRunner

State: the members of `TaskGraphRunner` and `TaskNamespace`, keyed by namespace,
plus the program counter and the local variables of each thread. The heaps are
sets with the comparison they use, so ties go either way. One action is one
critical section: `ScheduleTasks`, `StartTask` (the pop at the head of
`RunTaskWithLockAcquired`), `FinishTask` (what follows the unlocked
`RunOnWorkerThread`), the waits. A `Signal` wakes any one waiter of that
condition variable, as POSIX allows. Clients follow the protocol of
`tile_task_worker_pool.cc`: a task keeps its namespace and dependencies for life,
tasks that were collected are not scheduled again, and an origin thread does one
call at a time.

| Run | What it shows |
|---|---|
| `tgr` | Two workers, two origin threads (one runs tasks itself), four tasks with a join: the inductive invariant `IInv` holds, no task is lost (`NoTaskDropped`) or early (`DependenciesRanFirst`), a wait is a barrier (`WaitReturnsWhenDone`), an erased namespace is not in use (`ErasedNamespaceUnused`); ready tasks complete (`ReadyTaskCompletes`), waiters return (`WaiterReturns`), one `Shutdown` ends all workers (`WorkersExit`). |

Bounds: two namespaces are what the erase and the signal chains need; a join of
two tasks plus a task elsewhere gives cancellation of a part of a graph, a
dependent that becomes ready last, and ties. `MCSpec` keeps the instance small
enough for the liveness check: of the graphs of the first namespace the client
schedules three (all of it, one of the tasks that are joined, none), which still
cancel, keep and re-schedule tasks that run. It also keeps calls of origin threads
apart from `FlushForTesting`, as a test does whose one thread makes all of them
(section 9 says what an overlap does); the proofs have neither limit. Fairness: each worker's step, and
each step of an origin thread inside a call, is weakly fair, because threads are
scheduled by the operating system; nobody has to call anything.

*Proved* for every finite set of tasks, every acyclic dependency relation, any
number of workers and namespaces: `IInv` and the safety properties above. What
is to be shown, such as `FinishedMeansAllRan`, is not inductive: it needs
`DependenciesExact` (a node's count is the number of its dependencies in the
graph that have not run), `ReadyNamespacesExact` (the heap of namespaces is
exact), `GraphClosed`, `ReadyCounted`, `StartedInOrder` and `RunningThreads`. The
one place that needs acyclic graphs is the step from "nothing ready and nothing
running" to "all have run": a task of least `Rank` among the rest would be ready.

## 4. SchedulerStateMachine and Scheduler

`SchedulerStateMachine` is a record with the members of the class, a predicate
per const method and an operator per mutator; `NextAction` keeps the order of
the tests in the code. Frame numbers and counters that only tests and traces
read are left out.

`Scheduler` adds the members of `cc::Scheduler`: the retro frame queue and its
task, the deadline task and its cached mode, `needs_begin_frames`. A task of
the impl thread sets `resume`, which stands for the rest of the function that
called `ProcessScheduledActions`; the loop then performs one action per step.
An action that calls the client is split where the call is, and while it lasts
the client may call back (`ReentrantCalls`), with the nested
`ProcessScheduledActions` doing nothing, as `inside_process_scheduled_actions_`
makes it. A forced draw may swap with `ThreadProxy` only: `SingleThreadProxy` does
nothing there (section 9). The deadline task distinguishes "armed" (not cancelled, waiting for
`NotifyReadyToDraw`) from "posted". Time is abstract: a posted task may run at
any time and the estimates behind skipping a frame are choices.

| Run | Instance and what it shows |
|---|---|
| `sched_threaded` | The client is `ThreadProxy` with default settings, late begin frames, surfaces that allow one or two swaps: frames start ready (`FramesStartReady`), surfaces are created on a flushed pipeline (`QuiescentCreation`, `PipelineFlushed`), swaps stay within the limit across the loss of a surface (part of `IInv`, which is checked here too). |
| `sched_sync` | The synchronous compositor, with every call that only counts there: the `PrepareTiles` funnel never holds more than three fills, or two without that compositor (`PrepareTilesFunnelBounded`). |
| `sched_live_single` | `SingleThreadProxy` (commit to the active tree): a commit never replaces an undrawn tree (`CommitIsSafe`); main frames are sent (`MainFrameSent`) and get through the pipeline (`PipelineAdvances`), tiles are prepared (`TilesPrepared`), lost surfaces are replaced (`LostSurfaceRecreated`). |

Bounds: `MaxRetroFrames` 0 or 1 (one frame is being run, one is deferred behind
it), `MaxPendingSwaps` one, or one and two so that a new surface lowers the limit
while swaps are pending, one failed draw before a draw is forced. `Calls` differ
from run to run to keep each one small; together they cover all calls.

Fairness: the impl thread runs its loop to the end (weak); posted deadlines and
retro frames run, begin frames come while they are wanted, swaps are answered,
tiles get ready and the main thread answers. These are strong, since each is
enabled on and off between tasks but is a message that is in the queue or a
device that keeps ticking. The liveness runs use `SteadySpec`, in which the
compositor stays visible once it is; a client that hides and shows it for ever
may starve anything. Nothing obliges the client to call.

*Proved* for all settings, calls and bounds: the inductive invariant `IInv` and,
from it, `PipelineFlushed`. It is a conjunction: types, with swaps within the
limit; `SwapHasRoom`, which makes that inductive while a draw is split at its
call of the client; `FramesInOrder`, which ties the state of the frame, the
deadline task and the retro frames to the point where the function is that
`ProcessScheduledActions` interrupted; `NothingWhileCreating`;
`MainFrameHeldBack`, which ties the main frame to the trees; `CommitsAtOnce`
(without it a commit could be ready when a later task starts, after the active
tree was set waiting for a draw); and `FunnelWillNotOverflow`, which counts what
may still fill the funnel before a frame drains it.

Proved under hypotheses about the settings, which are constants:
`QuiescentCreation` without the synchronous compositor and without
`main_frame_before_activation_enabled` (with it the property fails, section 9; it
is off by default, `layer_tree_settings.cc:26`); `CommitIsSafe` unless
`commit_to_active_tree` is combined with that setting, which the code excludes
(`scheduler_state_machine.cc:494`); `PrepareTilesFunnelBounded` if that setting comes
only with the synchronous compositor; `FramesStartReady` without the
synchronous compositor, which runs frames of its own. The runs check the same
properties under the settings of their clients.

## 5. FenceSyncs and SyncPointManager

The client thread of a command buffer numbers a flush (`Flush`), publishes the
number under the lock (`SetUnprocessedOrderNumber`) and queues the task
(`QueueFlush`): three steps, since other threads act in between. A GPU thread
takes the first task of its queue: `BeginProcessingOrderNumber`, commands
(`FenceSyncRelease`, `WaitFenceSync` then `Wait` then `WaitReturns`, or
`LoseContext`), `FinishProcessingOrderNumber`. Order fences that expired are
released one at a time (`EnsureReleased`), and callbacks one at a time
(`RunCallback`), both outside the locks as in the code. Destruction is
`ReleaseAll`, `DestroySyncPointClient`, `DestroyOrderData`. `ThreadOf` says which
thread serves a command buffer: the Service passed in or the default
`GpuInProcessThread`. `UINT64_MAX` is one above the bound on releases.

Clients are well behaved: they wait for what has been flushed, which
`GLES2Implementation` checks before it hands out a sync token. A flush has at
most one wait. The mailbox manager is the default one, which uses no sync.

`sync_fences`: three command buffers on two threads; the one that may lose its
context and be destroyed shares its thread with another one. Order fences stay in range and callbacks have one
place (`IInv`, a part of `RInv`), callbacks are guarded by a fence (`CallbacksGuarded`), releases
are never forced while a context lives (`NeverForced`), waits return unless threads
wait for each other, or one for itself, since a client that is waited for has lost
its context (`WaitCompletes`), and `SyncPointManager` implements `FenceSyncs`.

`sync_one_thread`: two command buffers on one thread, the service that is made by
default. It shows that the exception in `WaitCompletes` is a real one:
`WaitIsCalledBack`, the promise of `sync_point_manager.h:198`, is violated.

Bounds: three order numbers let a flush release, a second one wait and a third
one come between numbering and publishing; one release is enough for the fence
and callback queues of one client to be raced. With larger bounds the liveness
check grows beyond minutes. Fairness: a GPU thread that can go on does, and a
client inside `Flush` returns from it; clients need not flush.

The refinement maps `released` to the executed release commands, `gone` to the
clients without a context or destroyed, and `waiting` to the token of the flush
that a thread is waiting for. The abstract `FinishWait` demands that the release
was executed or its client is gone, so a wait that is let through by an order
fence too early shows as a step that `FenceSyncs` does not have.

*Proved* for any clients, threads, assignment of the ones to the others and
bounds: `OrderFencesInRange`, the invariant that `sync_point_manager.h` states in
words, and `CallbacksGuarded`. They need `ThreadsBusy` (what a thread is in the
middle of belongs to one of its own clients; a client being destroyed has
released everything) and `OrderNumbersGrow` (a number drawn but not yet published
is above the published one). `CallbacksGuarded` says that each queued callback
has an order fence in the queue or in the local vector of a thread that is
releasing it; so a wait is lost only if that thread does not get to the fence.

*Proved* as well, in `FenceSyncsProofs`, for the same constants: `NeverForced`
and that `SyncPointManager` implements `FenceSyncs`. A thread learns from a
callback or a fence that it may go on, and whether that is in time depends on
every number and queue on the way; so the invariant `RInv`, which `sync_fences`
checks too, adds four layers to `IInv`, each proved from the ones before:

1. `FlushOrder`: a client's flushes are queued and processed in the order of their
   numbers, also while one is numbered and not yet queued, and the task that
   destroys the client is the last.
2. `ReleasesComeFirst`: each release that a fence, a queued flush or a thread
   counts on is executed, or is in a flush of the releasing client with a number
   below the waiting flush's, or its context is lost (`WillExecute`). This is where
   the order numbers do their work: the minimum that `ValidateReleaseOrderNumber`
   puts on the fence is a flush that has the release.
3. `NeverForced`: so when `FinishProcessingOrderNumber` takes the expired fences,
   their releases are executed. It is inductive only together with 1 and 2.
4. `CalledBackInTime`: each callback is in one place, a queue of releases, one
   thread's list or the event it has set; it is for the wait that its client is in,
   and once taken from the queue its release was executed or never will be.

The refinement follows step by step: `FenceSyncRelease` is the abstract `Release`,
`WaitFenceSync` is `StartWait` (if the client is still there), `WaitReturns` is
`FinishWait` by 4, the loss of a context and the last release of a client put it
in `gone`, and every other step stutters.

## 6. TransferRing, CommandStream and CommandBuffer

`CommandBuffer` has the client's thread and the GPU thread. The client's
functions run in one step up to the point where they block, because nothing of
theirs is shared before: `client.pc` says where a call waits
(`WaitForGetOffsetInRange`, `WaitForToken`) and `client.cmd` what it will write.
The GPU thread executes one command per step, then publishes its state
(`publish`) and signals (`signal`): two steps, since the client polls in
between. `entries` is the ring, with entries that are not the head of a command
marked as such, so that a parser that goes astray is seen. `helper.immediate` is
`immediate_entry_count_`; automatic flushes, `Flush`, `OrderingBarrier`,
`Finish`, `InsertToken` (with the wrap of tokens and the `Finish` it does),
`WaitForToken`, noops at the end of the ring and `FreeRingBuffer` are as in
the code. `TransferRing` is the class `RingBuffer` with its blocks, padding and
discarding; `Alloc`, `Release` and `DiscardBlock` of `CommandBuffer` are
what `ScopedTransferBufferPtr` does with it.

| Run | What it shows |
|---|---|
| `command_buffer` | The inductive invariant `MInv` of the proofs holds. `CommandBuffer` implements `CommandStream` (`StreamSpec`): commands are executed once, in order, as they were written, and `Finish` returns when all are. The parser meets no garbage (`NoParseError`), memory stays allocated while a command that reads it is not executed (`MemoryReadIsHeld`), waits end (`CallsReturn`). |
| `command_dropped` | *Violated*: a command is given up without an error (section 9). |

The refinement maps the abstract stream to `Unexecuted`, the commands found by
walking from the service's get offset to the client's put, noops left out: a stale
entry, an overwritten one or a wrong wrap shows as a stream that changed by something
else than an append or a removal at its head.

Bounds: sizes are scaled down. A ring of four entries with commands of one and
two makes wraps with and without noops, full rings and waits; a transfer ring of
three units makes padding and waits for tokens; `TokenLimit` two makes every
second token wrap, which is where the helper has to `Finish`. `MaxTasks` bounds
the tasks queued for the GPU thread when a ring is freed. A client stops after a
command was dropped or after it knows of a loss. Fairness is one weak condition:
some thread that can go on does.

*Proved* for rings, commands and transfer rings of any size, any tokens and any
number of queued tasks: the inductive invariant `IInv`, with it `NoParseError` and
the types; above it the refinement `StreamSpec`; and above both `MInv`, with it
`MemoryReadIsHeld`. `IInv` says

- `RingIsTiled`: whole commands and noops lie end to end from the service's get to
  put, and each queued flush ends at an edge between two of them;
- `OffsetsInOrder` and `PublishedInOrder`: going round the ring from the get offset
  that the client knows, one meets the published one, the service's, its put, the
  flushes in their order and the helper's put, in this order;
- `RoomIsFree`: what `immediate_entry_count_` lets the client write is before the
  service's get, although it is computed from a get offset that may be old;
- `WrapWaitsForStart`: the wait before put goes back to the start has seen the
  service pass the start;
- `ErrorsArePassedOn`, `TasksFollow` and `NothingWithoutRing`: who knows of an error,
  and that a ring is set up and taken away when nothing is left in it.

The client's functions call each other and may stop in a wait at several places.
They are operators on a record of the helper, the ring and the queue, and the
lemmas speak of these records: each function starts from one that is `Held` (or
`Bare`, without a ring) and leaves one that is, so one lemma, `LeavesKeeps`, covers
every step of the client's thread. The GPU thread executes at an edge and comes to
the next one (`NextCommandIs`), which is why it never meets what it cannot parse.
The transfer ring keeps its blocks end to end (`BlocksTile`, part of `TypeOK`) under
each of its operations, also the loop that frees the blocks that were passed.

The refinement adds that a `Finish` waits for the put offset that it flushed
(`RInv`). What waits in the ring is read by a recursion over lengths (`Unread`);
that it exists and what its values are is proved by least counterexamples, along
the tiles of the ring (`TileInduction`). From there: writing a command appends it
(`WaitingWritten`), executing one takes it from the head (`WaitingExecuted`), and
flushing, filling up with noops, wrapping and polling leave what waits alone
(`SamePending`, `FillPending`). `CommandGoes` sums up a call of the client: the
command is issued, given up, or waits for room.

`MInv` adds to both, for as long as no error has happened and no command was given
up, why shared memory is not reused too early:

- `ReadsComeFirst`: the block that a waiting command reads is in use, or waits for
  a token whose `SetToken` still waits behind that command;
- `NewestInUse`: only the newest block is in use, and a command that waits for room
  reads that one;
- `TokensInOrder`: the tokens that wait grow from above the one that was executed
  last up to the helper's. The numbers start again at 0 only while `Finish` runs
  for the token that wrapped (`Wrapping`), and the block gets this token when
  nothing waits any more;
- `TokenIsPublished`: where the published get offset is the service's, so is the
  published token, so that the `Finish` of a wrap also sees the last token;
- `OldestAwaited`: a wait for a token is for the oldest block, and returns once the
  published token has reached it.

A token that the client has read as passed is thus not above the executed one, while
one that a waiting command still needs is above it (`KeptIsLater`). Each operation
of the transfer ring keeps the blocks that are needed: `FreePassedKeeps` for the loop
that frees what has passed, `FreeOldestKeeps`, `AllocateAdds` and `DiscardTile`.

Not modelled: reallocation of `TransferBuffer`, `MappedMemoryManager` and
`FencedAllocator` (the same token protocol over other containers), preemption
and descheduling in `GpuScheduler` (not used in process), a ring replaced while
commands are in it (`FreeRingBuffer` is called only when put equals get).

## 7. SurfaceManager and Surfaces

`SurfaceManager` has an operator per method of `SurfaceManager`, `Surface`,
`SurfaceFactory` and `SurfaceResourceHolder` on one record `m`: the surfaces
with state (owned, destroyed and kept, deleted), frame, callback and
dependencies; the satisfied sequences; the counts of the resource holder.
Garbage collection keeps the live surfaces, the least set that has its roots and
is closed under what frames show: what the marking loop of the code computes.
`Surfaces` adds who calls: a child whose surfaces may show each other, an
embedder that shows one of them in a `SurfaceLayer` (tree of the main thread,
promises, active tree, output surface), and the display. Every call is
synchronous and is one action; what is hard is the order of the calls.

The embedder is `ui::Compositor`, which uses `SingleThreadProxy` and commits to
the active tree. `BeginCommit` always calls `ForceReclaimResources`, which
submits a frame without content to the surface and so drops its references; only
sequences keep the child's surface alive until the next draw. The sequence and
the promise that will satisfy it travel with the trees: satisfied when the swap
of a frame without the surface is done, broken when a main frame is aborted.
The callbacks of `SurfaceLayer` are implemented by its embedder outside the
tree and are marked external: `Require` adds a destruction dependency and
`Satisfy` marks the sequence.

`surfaces` shows that counts of resources agree with the frames and imports that
hold them (`ResourcesAccounted`), that what a frame shows exists
(`EmbeddedSurfacesExist`, with the exception of promises broken by an aborted
main frame, kept as history in `broken`), that a destroyed surface is kept only
while something needs it (`NothingLeaks`), and that a draw callback not yet run
belongs to a surface the display will meet or drop (`CallbacksTracked`).

Bounds: two surfaces per party (one replaces the other), two sequences, one
resource that may be sent twice before it is back and imported once. `IInv`, the
invariant behind these properties, is checked in the same run. Deadlock is
not checked since ids and sequences run out. Not modelled: locks and read
fences that defer the return of resources, copy requests, latency info,
`WillDrawSurface`, callbacks that call back, frames that refer to more than one
surface, damage: the display draws at some time after it was damaged.

*Proved* for any finite sets of surfaces and resources and all bounds:
`ResourcesAccounted`, `EmbeddedSurfacesExist`, `NothingLeaks` and
`CallbacksTracked`. They are inductive only together with the rest of `IInv`:

- `Tidy`: a surface that is not in the map holds nothing, and a root has neither
  resources nor dependencies. What is deleted gives back what it counted.
- `OwnersInOrder` and `AtRest`: the embedder owns exactly the root that its output
  surface submits to and the display draws; no destroyed root is left after a step.
- `ImportsKnown`: what the display has imported of a child is given back when it
  forgets that child.
- `SequencesInOrder` and `TreeHeld`: a sequence is in one place at a time (the
  layer, a queued promise, a promise of the active tree, the satisfied ones), so
  that a promise that is kept or broken never takes the sequence that holds what
  the active tree shows. `EmbeddedSurfacesExist` rests on this.

Nearly every step collects garbage in its middle, some twice, so the proof is by
lemmas about records: `Loose` is what a collection may start from, `Kept` what
it leaves (`CollectKeeps`), and each operation keeps `Kept`, as does each
composition of them (`SubmitKeeps`, `DestroyOutputKeeps`). What a collection
leaves is closed (`Live`), so nothing that something live shows goes, and it is
least, so nothing else stays. For the counts, sets of uses are compared: a frame
that is replaced changes the users of a resource by one (`UsersChange`), and a
draw replaces the imports it finds unused by one more per frame that it meets
(`ImportsChange`).

## 8. ThreadProxy

`ThreadProxy` INSTANCEs `Scheduler` on the same variables. The tasks of the impl
thread call its operators; `SchedulerSpec` (the abstract specification of this
composition) then says that all they do is what `Scheduler` lets its client do,
so what the `sched_*` runs assume of the client is discharged here for this
client. Main thread: `main` has the three pipeline stages, `defer_commits`,
`visible`, the state of the output surface and what it waits for; `BeginMainFrame`
is split where the page may call in (at each stage). Impl thread: `impl` has
`commit_completion_event`, the event held until activation and the blocking
completion of a task. `main_tasks` and `impl_tasks` are the queues. A failed
initialisation of a surface makes the page try again, as its hosts do.
`final_pipeline_stage` keeps the stale value it has in the code.

| Run | What it shows |
|---|---|
| `thread_proxy` | The page hides and shows itself, defers commits, requests frames, releases its surface: the inductive invariant `IInv` of the proofs holds, no request is lost on the way (`RequestsTravel`), and the composition implements `Scheduler` (`SchedulerSpec`). |
| `thread_proxy_live` | Commits held until activation, surfaces lost, swaps that are not answered while the main thread is busy: the completion event has exactly one holder (`EventWillBeSignaled`), the main thread is never blocked for ever (`MainReleased`), each request gets a frame (`RequestServed`). |
| `thread_proxy_lost` | *Violated*: a requested commit is cancelled as a no-op (section 9). |

Bounds: `MaxTasks` one means the page calls nothing while a task waits; messages
of the impl thread still cross. One swap, no deferred frames (the `sched_*` runs
have them). `DrawingSpec` leaves out checkerboards and lets `can_draw` become
true with the first active tree; `SteadySpec` keeps a page visible once it is.
A surface is reported lost once. Which stages the page requests differs: commit
in `thread_proxy`, layers in `thread_proxy_live`, all in `thread_proxy_lost`.
Fairness: the two message loops run their tasks, frames tick, tiles get ready,
swaps are answered (not while the main thread is busy, if `SwapAckWaitsForMain`),
the page makes a surface when asked.

Not modelled: `Start`, `Stop`, `FinishAllRendering`, input throttling, tree
priorities, `next_frame_is_newly_committed_frame`, and what is only passed on
(redraws, animation events, timing).

*Proved* for all settings of the threaded scheduler, any calls, swap limits and
number of tasks that wait: the inductive invariant `IInv`; `SchedulerSpec`, that
the composition implements `Scheduler`, whose theorems therefore hold of the impl
thread that `ThreadProxy` drives; `RequestsTravel`; `EventWillBeSignaled`; `TypeOK`.

A task of the impl thread is a step of `Scheduler` only if it finds the scheduler
as the client must: a frame may be committed or aborted only while one is sent, a
surface set up only while one is made, visibility and deferral only changed. What
was true when the task was posted need not be true when it runs, so the invariant
says where each of these is on its way:

- `MainFrameIsSomewhere`: a main frame that is sent is posted, run by the main
  thread, or posted back, in exactly one of the three.
- `OutputSurfaceIsSomewhere`: a surface that is made is asked for, wanted from the
  page, given to the impl thread, or has failed and is to be wanted again; an answer
  still waits in front of the next question (`AnswersFirst`).
- `MainThreadWaits`: the main thread waits for one blocking task, which is posted or
  about to return, or for its commit, never for both. `EventWillBeSignaled` rests on it.
- `VisibilityIsTold`, `DeferralIsTold`: the tasks that wait turn what the impl thread
  knows into what the main thread has set. The page may change the deferral many
  times meanwhile, so that one speaks of all of them: each is the opposite of the
  one before.

With `RequestsTravel` and `EventWillBeSignaled` these are inductive, given only that
the scheduler's members keep their types. For each action there is one lemma that
they are kept; another set of lemmas says which members of the state machine an
operator leaves alone (`Alike`, `KeepsTree`). `StepRefines` then does both halves
of a step: the facts make it a step of `Scheduler` or a stutter, so the invariant
of `Scheduler` is kept, by the instance of `SchedulerProofs` under the constants
and variables of the proxy (`SP`), and with it the types.

The assumptions: commits go to the pending tree (only `SingleThreadProxy` sets
`commit_to_active_tree`), and the synchronous compositor is left out, whose own
steps (drawing for the output surface, finishing a frame at once) are in
`Scheduler` but not in this module.

## 9. Disagreements found

Shown by runs:

- `command_dropped`: if a command would end exactly at the end of the ring while
  the service has not read the first entry, the wait in `WaitForAvailableEntries`
  (`cmd_buffer_helper.cc:315`) asks for a range that every offset is in, returns
  at once, and the `DCHECK_GE(immediate_entry_count_, count)` after it does not
  hold. `GetSpace` returns NULL without an error: the command is lost.
- `thread_proxy_lost`: `BeginMainFrame` forgets the requested stage
  (`thread_proxy.cc:683`) before it aborts a frame because the page is hidden or
  the surface lost. The scheduler retries the frame, which then has nothing to
  do and is cancelled as a no-op; the commit is made only when something asks
  again.

- `sync_one_thread`: "In all cases wait_complete_callback will be called
  eventually" (`sync_point_manager.h:198`), and `WaitFenceSyncOnGpuThread` blocks its
  GPU thread until it is (`in_process_command_buffer.cc:888`). A client is to release
  in one flush, has drawn the number of the next one, and loses its context in the
  first. Another client of the same thread, whose number is higher, queues its flush
  before that next one and waits: the wait is valid, its order fence is put at the
  next flush, and that is queued behind the waiter. All command buffers share one
  thread unless the embedder passes another service (`GetInitialService`,
  `in_process_command_buffer.cc:115`).

Read off the code, with the default settings:

- `SingleThreadProxy::ScheduledActionDrawAndSwapForced` is `NOTREACHED()`
  (`single_thread_proxy.cc:839`), but it is reached: its draws may return
  `DRAW_ABORTED_CHECKERBOARD_ANIMATIONS` like those of `ThreadProxy`, the setting
  that counts them is on by default (`layer_tree_settings.cc:41`) and is not turned
  off, and after enough of them, a commit and its activation the state machine
  decides for `ACTION_DRAW_AND_SWAP_FORCED` (`scheduler_state_machine.cc:544`).
  `Scheduler::DrawAndSwapForced` (`scheduler.cc:604`) ignores the result, so that
  where `NOTREACHED` does nothing the redraw is forgotten. The model of
  `sched_live_single` takes that step (`FinishDrawAndSwapForced` without a swap), and
  no property speaks of what a forced draw is to show.

With settings or callers that are not the default ones, and without a run:

- `FlushForTesting` (`task_graph_runner.cc:343`) can swallow the wakeup of a
  waiting origin thread. Test code only.
- With `main_frame_before_activation_enabled`, a main frame that ends without
  updates clears `has_pending_tree_` although the client has a pending tree
  (`scheduler_state_machine.cc:593`). Off by default.
- With the same setting and `SetNextCommitWaitsForActivation`, the main thread may
  wait for a held commit, the pending tree for the draw of the active one, the
  draw for a swap and the swap for the main thread:
  `SendingBeginMainFrameMightCauseDeadlock` (`scheduler_state_machine.cc:402`)
  does not count held commits. `MainReleased` holds with the default settings.

## 10. What is proved and what is not

Theorems: the inductive invariants of `TaskGraphRunner` (`IInv`), `Scheduler`
(`IInv`), `SyncPointManager` (`IInv`, and `RInv` above it), `Surfaces` (`IInv`),
`ThreadProxy` (`IInv`) and `CommandBuffer` (`IInv`, and `MInv` above it).
From the first, `DependenciesRanFirst`, `ErasedNamespaceUnused`, `NoTaskDropped` and
`WaitReturnsWhenDone`; from the second, `PipelineFlushed`, `QuiescentCreation`,
`CommitIsSafe`, `PrepareTilesFunnelBounded` and `FramesStartReady`; from the third,
`CallbacksGuarded`, `NeverForced` and the refinement `FenceSyncsSpec`; from the
fourth, `ResourcesAccounted`, `EmbeddedSurfacesExist`, `NothingLeaks` and
`CallbacksTracked`; from the fifth, `RequestsTravel`, `EventWillBeSignaled` and the
refinement `SchedulerSpec`; from the sixth, `NoParseError`, `MemoryReadIsHeld` and
the refinement `StreamSpec`. The runs check all of these too. Type correctness and the
exactness of counts, queues and fences are further theorems.

Every invariant, action property and refinement of a passing run is thus proved.
Only model-checked: the liveness properties, which are out of the prover's reach, and
what the runs that find a disagreement show. The proofs
assume only the named `ASSUME`s of the modules:
finite tasks and acyclic dependencies inside a namespace; Boolean settings and
bounds that are numbers; `ThreadOf` a function from clients to threads; `NoWait` no
token; finitely many surfaces, roots that are not children; a proxy that commits
to the pending tree and is not synchronous; rings with at least three entries, and
commands and blocks that are not empty and fit into them. TLC evaluates them in
every run. The hypotheses about settings of section 4 are stated in the theorems.
No module declares a recursive operator, so that each one can be proved about.

To run: `tlc -config MCTaskGraphRunner.cfg MCTaskGraphRunner` and likewise for the
other configurations; `tlapm` on `TaskGraphRunnerProofs.tla`,
`SchedulerProofs.tla`, `SyncPointManagerProofs.tla`, `FenceSyncsProofs.tla`,
`SurfacesProofs.tla`, `ThreadProxyProofs.tla`, `TransferRingProofs.tla` and
`CommandBufferProofs.tla` checks the proofs (all but the first three take minutes).
