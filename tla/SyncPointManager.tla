--------------------------- MODULE SyncPointManager ---------------------------
(***************************************************************************)
(* gpu::SyncPointManager (gpu/command_buffer/service/sync_point_manager.cc) *)
(* with the fence syncs of InProcessCommandBuffer, its user in this tree.  *)
(* A client thread numbers and queues flushes; a GPU thread runs the tasks *)
(* of the command buffers it serves, in the order they were queued.  A     *)
(* flush may release fence syncs and may wait for those of another client, *)
(* which may be served by another thread.                                  *)
(*                                                                         *)
(* Every action is one critical section of one lock, or what a thread does *)
(* between two of them.  Clients are well behaved: they wait only for      *)
(* releases whose flush has been queued, which GLES2Implementation checks  *)
(* with IsFenceSyncFlushed.  A flush has at most one wait.  The older sync *)
(* points (GenerateSyncPoint to WaitSyncPoint) are not in this module.     *)
(***************************************************************************)
EXTENDS Integers, Sequences, FiniteSets

CONSTANTS
  Client,      \* command buffers, each with its client thread
  Thread,      \* GPU threads
  ThreadOf,    \* the thread that runs the tasks of a client
  Leaving,     \* clients that may lose their context and be destroyed
  MaxOrder,    \* the bound on the order numbers
  MaxRelease,  \* the bound on the fence sync releases of a client
  NoWait

ASSUME SyncPointAssumption ==
  /\ ThreadOf \in [Client -> Thread]
  /\ Leaving \subseteq Client
  /\ MaxOrder \in Nat
  /\ MaxRelease \in Nat

Token == Client \X (1 .. MaxRelease)
ASSUME NoWaitAssumption == NoWait \notin Token

\* What ~SyncPointClient releases.
UINT64_MAX == MaxRelease + 1

VARIABLES
  \* The client threads.
  client_pc,                  \* "idle", in Flush(), or blocked in Destroy()
  flush,                      \* the task Flush() is about to queue
  global_order_num,           \* what GetNext() returns next
  next_fence_sync_release,
  flushed_fence_sync_release,
  \* The GPU threads.
  tasks,                      \* queued tasks; the first one is running, if any
  pc,
  executed,                   \* release commands of a client executed so far
  context_lost,
  fence_sync_wait_event,
  ensure_releases,            \* the local variable, as a set
  callback_list,              \* the local variable: waiters to call back
  \* SyncPointManager, SyncPointOrderData and SyncPointClientState.
  clients,                    \* the keys of client_maps_
  current_order_num,
  processed_order_num,
  unprocessed_order_num,
  destroyed,
  order_fence_queue,
  fence_sync_release,
  release_callback_queue

client_vars == <<client_pc, flush, global_order_num, next_fence_sync_release,
                 flushed_fence_sync_release>>
order_vars == <<current_order_num, processed_order_num, unprocessed_order_num,
                destroyed, order_fence_queue>>
vars == <<client_vars, order_vars, tasks, pc, executed, context_lost,
          fence_sync_wait_event, ensure_releases, callback_list, clients,
          fence_sync_release, release_callback_queue>>

\* The task that destroys c; its order number is the invalid one.
DestroyTask(c) ==
  [client |-> c, order_num |-> 0, release |-> 0, wait |-> NoWait]

Init ==
  /\ client_pc = [c \in Client |-> "idle"]
  /\ flush = [c \in Client |-> DestroyTask(c)]
  /\ global_order_num = 1
  /\ next_fence_sync_release = [c \in Client |-> 1]
  /\ flushed_fence_sync_release = [c \in Client |-> 0]
  /\ tasks = [th \in Thread |-> <<>>]
  /\ pc = [th \in Thread |-> "idle"]
  /\ executed = [c \in Client |-> 0]
  /\ context_lost = [c \in Client |-> FALSE]
  /\ fence_sync_wait_event = [c \in Client |-> FALSE]
  /\ ensure_releases = [th \in Thread |-> {}]
  /\ callback_list = [th \in Thread |-> {}]
  /\ clients = Client
  /\ current_order_num = [c \in Client |-> 0]
  /\ processed_order_num = [c \in Client |-> 0]
  /\ unprocessed_order_num = [c \in Client |-> 0]
  /\ destroyed = [c \in Client |-> FALSE]
  /\ order_fence_queue = [c \in Client |-> {}]
  /\ fence_sync_release = [c \in Client |-> 0]
  /\ release_callback_queue = [c \in Client |-> {}]

-----------------------------------------------------------------------------
(* The thread of a client.                                                 *)

\* GetInitialService, at construction.
Service(c) == ThreadOf[c]

\* Seeded bug: a release counts as flushed once it has a number.
GeneratedTokens == {t \in Token : t[2] < next_fence_sync_release[t[1]]}

\* IsFenceSyncFlushed.
FlushedTokens == {t \in Token : t[2] =< flushed_fence_sync_release[t[1]]}

\* The fence syncs that the commands release are numbered while the commands
\* are written; Flush gives the commands written since the last one an order
\* number.
Flush(c) ==
  /\ client_pc[c] = "idle"
  /\ global_order_num =< MaxOrder
  /\ client_pc' = [client_pc EXCEPT ![c] = "numbered"]
  /\ \E release \in next_fence_sync_release[c] - 1 .. MaxRelease,
        wait \in FlushedTokens \cup {NoWait} :
       /\ flush' = [flush EXCEPT ![c] =
                      [client |-> c, order_num |-> global_order_num,
                       release |-> release, wait |-> wait]]
       /\ next_fence_sync_release' =
            [next_fence_sync_release EXCEPT ![c] = release + 1]
  /\ global_order_num' = global_order_num + 1
  /\ UNCHANGED <<flushed_fence_sync_release, order_vars, tasks, pc, executed,
                 context_lost, fence_sync_wait_event, ensure_releases,
                 callback_list, clients, fence_sync_release,
                 release_callback_queue>>

\* The rest of GenerateUnprocessedOrderNumber, under the lock.
SetUnprocessedOrderNumber(c) ==
  /\ client_pc[c] = "numbered"
  /\ client_pc' = [client_pc EXCEPT ![c] = "unprocessed"]
  /\ unprocessed_order_num' =
       [unprocessed_order_num EXCEPT ![c] = flush[c].order_num]
  /\ UNCHANGED <<flush, global_order_num, next_fence_sync_release,
                 flushed_fence_sync_release, current_order_num,
                 processed_order_num, destroyed, order_fence_queue, tasks, pc,
                 executed, context_lost, fence_sync_wait_event, ensure_releases,
                 callback_list, clients, fence_sync_release,
                 release_callback_queue>>

\* The rest of Flush.
QueueFlush(c) ==
  /\ client_pc[c] = "unprocessed"
  /\ client_pc' = [client_pc EXCEPT ![c] = "idle"]
  /\ tasks' = [tasks EXCEPT ![Service(c)] = Append(@, flush[c])]
  /\ flushed_fence_sync_release' =
       [flushed_fence_sync_release EXCEPT ![c] = next_fence_sync_release[c] - 1]
  /\ UNCHANGED <<flush, global_order_num, next_fence_sync_release, order_vars,
                 pc, executed, context_lost, fence_sync_wait_event,
                 ensure_releases, callback_list, clients, fence_sync_release,
                 release_callback_queue>>

\* The client thread waits for the task, and uses the command buffer no more.
Destroy(c) ==
  /\ c \in Leaving
  /\ client_pc[c] = "idle"
  /\ client_pc' = [client_pc EXCEPT ![c] = "destroying"]
  /\ tasks' = [tasks EXCEPT ![Service(c)] = Append(@, DestroyTask(c))]
  /\ UNCHANGED <<flush, global_order_num, next_fence_sync_release,
                 flushed_fence_sync_release, order_vars, pc, executed,
                 context_lost, fence_sync_wait_event, ensure_releases,
                 callback_list, clients, fence_sync_release,
                 release_callback_queue>>

-----------------------------------------------------------------------------
(* SyncPointClientState and SyncPointOrderData, used by a GPU thread.      *)

\* Seeded bug: a callback for exactly this release stays queued.
CallbacksBelow(d, release) ==
  {cb \in release_callback_queue[d] : cb.release < release}

CallbacksUpTo(d, release) ==
  {cb \in release_callback_queue[d] : cb.release =< release}

CallbacksAbove(d, release) ==
  release_callback_queue[d] \ CallbacksUpTo(d, release)

\* ReleaseFenceSyncLocked: the caller runs the callbacks once it has let go of
\* the lock.
ReleaseFenceSyncLocked(th, d, release) ==
  /\ fence_sync_release' = [fence_sync_release EXCEPT ![d] = release]
  /\ release_callback_queue' =
       [release_callback_queue EXCEPT ![d] = CallbacksAbove(d, release)]
  /\ callback_list' =
       [callback_list EXCEPT ![th] = {cb.waiter : cb \in CallbacksUpTo(d, release)}]

ExpectedOrderNumber(d, wait_order_num) ==
  IF unprocessed_order_num[d] < wait_order_num
    THEN unprocessed_order_num[d] ELSE wait_order_num

\* ValidateReleaseOrderNumber, its tests.
IsValidRelease(d, wait_order_num) ==
  /\ ~destroyed[d]
  /\ processed_order_num[d] + 1 < wait_order_num
  /\ processed_order_num[d] < unprocessed_order_num[d]

-----------------------------------------------------------------------------
(* The tasks of a GPU thread.                                              *)

Current(th) == Head(tasks[th])

\* No function that th has called has anything left to do.
Ready(th) == ensure_releases[th] = {} /\ callback_list[th] = {}

\* th is between two commands of a flush.
BetweenCommands(th) == pc[th] = "run" /\ Ready(th)

\* Seeded bug: the fences of the order number that begins are expired too.
ExpiredAtBeginEarly(d, order_num) ==
  {f \in order_fence_queue[d] : f.order_num =< order_num}

ExpiredAtBegin(d, order_num) ==
  {f \in order_fence_queue[d] : f.order_num < order_num}

BeginProcessingOrderNumber(th) ==
  /\ pc[th] = "idle"
  /\ tasks[th] # <<>>
  /\ Current(th).order_num > 0
  /\ LET c == Current(th).client
         expired == ExpiredAtBegin(c, Current(th).order_num)
     IN /\ current_order_num' =
             [current_order_num EXCEPT ![c] = Current(th).order_num]
        /\ order_fence_queue' = [order_fence_queue EXCEPT ![c] = @ \ expired]
        /\ ensure_releases' = [ensure_releases EXCEPT ![th] = expired]
  /\ pc' = [pc EXCEPT ![th] = "run"]
  /\ UNCHANGED <<client_vars, processed_order_num, unprocessed_order_num,
                 destroyed, tasks, executed, context_lost,
                 fence_sync_wait_event, callback_list, clients,
                 fence_sync_release, release_callback_queue>>

\* OrderFence::operator>.
LeastFence(f, S) ==
  \A g \in S : \/ f.order_num < g.order_num
               \/ f.order_num = g.order_num /\ f.release =< g.release

EnsureReleased(th) ==
  /\ callback_list[th] = {}
  /\ \E f \in ensure_releases[th] :
       /\ LeastFence(f, ensure_releases[th])
       /\ ensure_releases' = [ensure_releases EXCEPT ![th] = @ \ {f}]
       /\ IF f.release =< fence_sync_release[Current(th).client]
            THEN UNCHANGED <<fence_sync_release, release_callback_queue,
                             callback_list>>
            ELSE ReleaseFenceSyncLocked(th, Current(th).client, f.release)
  /\ UNCHANGED <<client_vars, order_vars, tasks, pc, executed, context_lost,
                 fence_sync_wait_event, clients>>

\* The callback of WaitFenceSyncOnGpuThread signals the event of the waiter.
RunCallback(th) ==
  \E c \in callback_list[th] :
    /\ callback_list' = [callback_list EXCEPT ![th] = @ \ {c}]
    /\ fence_sync_wait_event' = [fence_sync_wait_event EXCEPT ![c] = TRUE]
    /\ UNCHANGED <<client_vars, order_vars, tasks, pc, executed, context_lost,
                   ensure_releases, clients, fence_sync_release,
                   release_callback_queue>>

\* FenceSyncReleaseOnGpuThread.
FenceSyncRelease(th) ==
  LET c == Current(th).client IN
  /\ BetweenCommands(th)
  /\ ~context_lost[c]
  /\ executed[c] < Current(th).release
  /\ executed' = [executed EXCEPT ![c] = @ + 1]
  /\ ReleaseFenceSyncLocked(th, c, executed[c] + 1)
  /\ UNCHANGED <<client_vars, order_vars, tasks, pc, context_lost,
                 fence_sync_wait_event, ensure_releases, clients>>

\* WaitFenceSyncOnGpuThread, up to GetSyncPointClientState.
WaitFenceSync(th) ==
  /\ BetweenCommands(th)
  /\ ~context_lost[Current(th).client]
  /\ Current(th).wait # NoWait
  /\ IF Current(th).wait[1] \in clients
       THEN /\ pc' = [pc EXCEPT ![th] = "found"]
            /\ UNCHANGED tasks
       ELSE /\ tasks' = [tasks EXCEPT ![th][1].wait = NoWait]
            /\ UNCHANGED pc
  /\ UNCHANGED <<client_vars, order_vars, executed, context_lost,
                 fence_sync_wait_event, ensure_releases, callback_list, clients,
                 fence_sync_release, release_callback_queue>>

\* The wait is called back at once: it has been released, or it is invalid.
NotifiedAtOnce(c, d, release) ==
  \/ release =< fence_sync_release[d]
  \/ c = d
  \/ ~IsValidRelease(d, current_order_num[c])

\* SyncPointClient::Wait.
Wait(th) ==
  LET c == Current(th).client
      d == Current(th).wait[1]
      release == Current(th).wait[2]
  IN /\ pc[th] = "found"
     /\ pc' = [pc EXCEPT ![th] = "waiting"]
     /\ IF NotifiedAtOnce(c, d, release)
          THEN /\ fence_sync_wait_event' =
                    [fence_sync_wait_event EXCEPT ![c] = TRUE]
               /\ UNCHANGED <<order_fence_queue, release_callback_queue>>
          ELSE /\ order_fence_queue' =
                    [order_fence_queue EXCEPT ![d] = @ \cup
                       {[order_num |-> ExpectedOrderNumber(d, current_order_num[c]),
                         release |-> release]}]
               /\ release_callback_queue' =
                    [release_callback_queue EXCEPT ![d] = @ \cup
                       {[release |-> release, waiter |-> c]}]
               /\ UNCHANGED fence_sync_wait_event
     /\ UNCHANGED <<client_vars, current_order_num, processed_order_num,
                    unprocessed_order_num, destroyed, tasks, executed,
                    context_lost, ensure_releases, callback_list, clients,
                    fence_sync_release>>

\* fence_sync_wait_event_.Wait() returns, and resets the event.
WaitReturns(th) ==
  LET c == Current(th).client IN
  /\ pc[th] = "waiting"
  /\ fence_sync_wait_event[c]
  /\ fence_sync_wait_event' = [fence_sync_wait_event EXCEPT ![c] = FALSE]
  /\ tasks' = [tasks EXCEPT ![th][1].wait = NoWait]
  /\ pc' = [pc EXCEPT ![th] = "run"]
  /\ UNCHANGED <<client_vars, order_vars, executed, context_lost,
                 ensure_releases, callback_list, clients, fence_sync_release,
                 release_callback_queue>>

\* The commands that are left are not executed, nor are those of any later
\* flush.
LoseContext(th) ==
  LET c == Current(th).client IN
  /\ BetweenCommands(th)
  /\ c \in Leaving
  /\ ~context_lost[c]
  /\ context_lost' = [context_lost EXCEPT ![c] = TRUE]
  /\ UNCHANGED <<client_vars, order_vars, tasks, pc, executed,
                 fence_sync_wait_event, ensure_releases, callback_list, clients,
                 fence_sync_release, release_callback_queue>>

CommandsDone(task) ==
  \/ context_lost[task.client]
  \/ executed[task.client] = task.release /\ task.wait = NoWait

\* Seeded bug: the fences of the order number that ends are kept.
ExpiredAtFinishLate(d, order_num) ==
  {f \in order_fence_queue[d] : f.order_num < order_num}

ExpiredAtFinish(d, order_num) ==
  {f \in order_fence_queue[d] : f.order_num =< order_num}

FinishProcessingOrderNumber(th) ==
  /\ BetweenCommands(th)
  /\ CommandsDone(Current(th))
  /\ LET c == Current(th).client
         expired == ExpiredAtFinish(c, Current(th).order_num)
     IN /\ processed_order_num' =
             [processed_order_num EXCEPT ![c] = Current(th).order_num]
        /\ order_fence_queue' = [order_fence_queue EXCEPT ![c] = @ \ expired]
        /\ ensure_releases' = [ensure_releases EXCEPT ![th] = expired]
  /\ pc' = [pc EXCEPT ![th] = "finish"]
  /\ UNCHANGED <<client_vars, current_order_num, unprocessed_order_num,
                 destroyed, tasks, executed, context_lost,
                 fence_sync_wait_event, callback_list, clients,
                 fence_sync_release, release_callback_queue>>

\* DestroyOnGpuThread, up to ReleaseFenceSync in ~SyncPointClient.
ReleaseAll(th) ==
  /\ pc[th] = "idle"
  /\ tasks[th] # <<>>
  /\ Current(th).order_num = 0
  /\ ReleaseFenceSyncLocked(th, Current(th).client, UINT64_MAX)
  /\ pc' = [pc EXCEPT ![th] = "destroy"]
  /\ UNCHANGED <<client_vars, order_vars, tasks, executed, context_lost,
                 fence_sync_wait_event, ensure_releases, clients>>

DestroySyncPointClient(th) ==
  /\ pc[th] = "destroy"
  /\ Ready(th)
  /\ clients' = clients \ {Current(th).client}
  /\ pc' = [pc EXCEPT ![th] = "erased"]
  /\ UNCHANGED <<client_vars, order_vars, tasks, executed, context_lost,
                 fence_sync_wait_event, ensure_releases, callback_list,
                 fence_sync_release, release_callback_queue>>

\* SyncPointOrderData::Destroy.
DestroyOrderData(th) ==
  LET c == Current(th).client IN
  /\ pc[th] = "erased"
  /\ destroyed' = [destroyed EXCEPT ![c] = TRUE]
  /\ order_fence_queue' = [order_fence_queue EXCEPT ![c] = {}]
  /\ pc' = [pc EXCEPT ![th] = "finish"]
  /\ UNCHANGED <<client_vars, current_order_num, processed_order_num,
                 unprocessed_order_num, tasks, executed, context_lost,
                 fence_sync_wait_event, ensure_releases, callback_list, clients,
                 fence_sync_release, release_callback_queue>>

\* The thread is free for its next task.
FinishTask(th) ==
  /\ pc[th] = "finish"
  /\ Ready(th)
  /\ tasks' = [tasks EXCEPT ![th] = Tail(@)]
  /\ pc' = [pc EXCEPT ![th] = "idle"]
  /\ UNCHANGED <<client_vars, order_vars, executed, context_lost,
                 fence_sync_wait_event, ensure_releases, callback_list, clients,
                 fence_sync_release, release_callback_queue>>

-----------------------------------------------------------------------------
ClientNext(c) ==
  \/ Flush(c)
  \/ SetUnprocessedOrderNumber(c)
  \/ QueueFlush(c)
  \/ Destroy(c)

GpuNext(th) ==
  \/ BeginProcessingOrderNumber(th)
  \/ EnsureReleased(th)
  \/ RunCallback(th)
  \/ FenceSyncRelease(th)
  \/ WaitFenceSync(th)
  \/ Wait(th)
  \/ WaitReturns(th)
  \/ LoseContext(th)
  \/ FinishProcessingOrderNumber(th)
  \/ ReleaseAll(th)
  \/ DestroySyncPointClient(th)
  \/ DestroyOrderData(th)
  \/ FinishTask(th)

Next ==
  \/ \E c \in Client : ClientNext(c)
  \/ \E th \in Thread : GpuNext(th)

Spec == Init /\ [][Next]_vars

\* A GPU thread that can go on does, and a client thread inside Flush() comes
\* to its end.  Nothing obliges a client to flush or to destroy.
Fairness ==
  /\ \A th \in Thread : WF_vars(GpuNext(th))
  /\ \A c \in Client : WF_vars(SetUnprocessedOrderNumber(c) \/ QueueFlush(c))

FairSpec == Spec /\ Fairness
-----------------------------------------------------------------------------
(* Properties.                                                             *)

Release == 0 .. UINT64_MAX
OrderNumber == 0 .. MaxOrder
GpuTask == [client : Client, order_num : OrderNumber, release : 0 .. MaxRelease,
            wait : Token \cup {NoWait}]
OrderFence == [order_num : OrderNumber, release : 1 .. MaxRelease]
ReleaseCallback == [release : 1 .. MaxRelease, waiter : Client]

\* The types of the variables of the client threads.
ClientThreadsTyped ==
  /\ client_pc \in [Client -> {"idle", "numbered", "unprocessed", "destroying"}]
  /\ flush \in [Client -> GpuTask]
  /\ \A c \in Client : flush[c].client = c
  /\ global_order_num \in 1 .. MaxOrder + 1
  /\ next_fence_sync_release \in [Client -> 1 .. MaxRelease + 1]
  /\ flushed_fence_sync_release \in [Client -> 0 .. MaxRelease]

\* s holds tasks that th may run.
IsTaskQueue(s, th) ==
  /\ s \in Seq(GpuTask)
  /\ \A i \in DOMAIN s : ThreadOf[s[i].client] = th

\* The types of the variables of the GPU threads.
GpuThreadsTyped ==
  /\ DOMAIN tasks = Thread
  /\ \A th \in Thread : IsTaskQueue(tasks[th], th)
  /\ pc \in [Thread -> {"idle", "run", "found", "waiting", "finish", "destroy",
                        "erased"}]
  /\ executed \in [Client -> 0 .. MaxRelease]
  /\ context_lost \in [Client -> BOOLEAN]
  /\ fence_sync_wait_event \in [Client -> BOOLEAN]
  /\ ensure_releases \in [Thread -> SUBSET OrderFence]
  /\ callback_list \in [Thread -> SUBSET Client]

\* The types of the variables of SyncPointManager and what it manages.
SyncPointsTyped ==
  /\ clients \subseteq Client
  /\ current_order_num \in [Client -> OrderNumber]
  /\ processed_order_num \in [Client -> OrderNumber]
  /\ unprocessed_order_num \in [Client -> OrderNumber]
  /\ destroyed \in [Client -> BOOLEAN]
  /\ order_fence_queue \in [Client -> SUBSET OrderFence]
  /\ fence_sync_release \in [Client -> Release]
  /\ release_callback_queue \in [Client -> SUBSET ReleaseCallback]

\* Every variable keeps its type, and each thread runs the tasks of its own
\* clients.
TypeOK == ClientThreadsTyped /\ GpuThreadsTyped /\ SyncPointsTyped

\* A thread that is not idle has a task, one that waits has a token to wait for,
\* and one that destroys a client has released all of its fence syncs.
ThreadsBusy ==
  \A th \in Thread :
    /\ tasks[th] = <<>> => pc[th] = "idle"
    /\ pc[th] = "idle" => Ready(th)
    /\ pc[th] \in {"found", "waiting"} => Current(th).wait # NoWait
    /\ pc[th] \in {"destroy", "erased"} =>
         fence_sync_release[Current(th).client] = UINT64_MAX

\* "All order numbers (n) in order_fence_queue_ must follow the invariant:
\* processed_order_num_ < n <= unprocessed_order_num_" (sync_point_manager.h),
\* although the threads of other clients add to the queue at any time.
OrderFencesInRange ==
  \A c \in Client : \A f \in order_fence_queue[c] :
    processed_order_num[c] < f.order_num /\ f.order_num =< unprocessed_order_num[c]

\* The numbers that a client's flushes get grow.
OrderNumbersGrow ==
  \A c \in Client :
    /\ flush[c].order_num < global_order_num
    /\ unprocessed_order_num[c] < global_order_num
    /\ client_pc[c] = "numbered" =>
         unprocessed_order_num[c] < flush[c].order_num

\* A fence sync that is waited for is released by its own command and not by
\* force: as long as a client has its context, its releases are the ones it has
\* executed, so that each release is new (the DCHECKs of
\* FenceSyncReleaseOnGpuThread and ReleaseFenceSyncLocked).
NeverForced ==
  \A c \in Client :
    \/ context_lost[c]
    \/ fence_sync_release[c] \in {executed[c], UINT64_MAX}

\* Fences that c's thread has still to release.
FencesToRelease(c) ==
  order_fence_queue[c] \cup
    {f \in ensure_releases[ThreadOf[c]] : Current(ThreadOf[c]).client = c}

\* Every callback that is queued is one that its client will call: the release
\* is still to come, and if its command is never executed there is a fence for
\* it.
CallbacksGuarded ==
  \A c \in Client : \A cb \in release_callback_queue[c] :
    /\ cb.release > fence_sync_release[c]
    /\ \E f \in FencesToRelease(c) : f.release = cb.release

\* The strengthening of the invariants above that every step preserves.
IInv ==
  /\ TypeOK
  /\ ThreadsBusy
  /\ OrderNumbersGrow
  /\ OrderFencesInRange
  /\ CallbacksGuarded

\* The fence syncs as their users see them: see FenceSyncs.
Gone == {c \in Client : context_lost[c] \/ fence_sync_release[c] = UINT64_MAX}

WaitingFor ==
  [c \in Client |->
     IF pc[ThreadOf[c]] \in {"found", "waiting"} /\ Current(ThreadOf[c]).client = c
       THEN Current(ThreadOf[c]).wait ELSE NoWait]

Abstract == INSTANCE FenceSyncs WITH released <- executed, gone <- Gone,
                                     waiting <- WaitingFor

\* What the refinement needs to know of task queues.  IsSorted: the flushes of a
\* client are queued in their order, and the task that destroys it is the last.
IsSorted(s) ==
  \A i, j \in DOMAIN s :
    i < j /\ s[i].client = s[j].client =>
      /\ s[i].order_num > 0
      /\ s[j].order_num > 0 => s[i].order_num < s[j].order_num

\* The numbers of the flushes of c in s.
FlushesIn(s, c) ==
  {u \in [order_num : OrderNumber, release : 0 .. MaxRelease] :
     /\ u.order_num > 0
     /\ \E i \in DOMAIN s : /\ s[i].client = c
                            /\ s[i].order_num = u.order_num
                            /\ s[i].release = u.release}

Flushes(c) == FlushesIn(tasks[ThreadOf[c]], c)

DestroyQueued(c) ==
  \E i \in DOMAIN tasks[ThreadOf[c]] :
    tasks[ThreadOf[c]][i].client = c /\ tasks[ThreadOf[c]][i].order_num = 0

\* c has drawn an order number for a flush that is not queued yet.
Flushing(c) == client_pc[c] \in {"numbered", "unprocessed"}

\* The thread of c has done what c's flush number n asks for.
Finishing(c, n) ==
  LET th == ThreadOf[c] IN
  /\ pc[th] = "finish"
  /\ Current(th).client = c
  /\ Current(th).order_num = n

\* Flushes are numbered, queued and processed in the same order, and none comes
\* after the destruction of its client.
ThreadInOrder(th) ==
  /\ IsSorted(tasks[th])
  /\ pc[th] \in {"run", "found", "waiting"} =>
       /\ Current(th).order_num > 0
       /\ current_order_num[Current(th).client] = Current(th).order_num
  /\ pc[th] \in {"destroy", "erased"} => Current(th).order_num = 0

ClientInOrder(c) ==
  /\ processed_order_num[c] =< unprocessed_order_num[c]
  /\ Flushing(c) => /\ flush[c].order_num > processed_order_num[c]
                    /\ flush[c].release = next_fence_sync_release[c] - 1
  /\ client_pc[c] = "unprocessed" => unprocessed_order_num[c] = flush[c].order_num
  /\ \A u \in Flushes(c) :
       /\ u.order_num =< unprocessed_order_num[c]
       /\ client_pc[c] = "unprocessed" => u.order_num < flush[c].order_num
       /\ u.order_num > processed_order_num[c] \/ Finishing(c, u.order_num)
  /\ DestroyQueued(c) => client_pc[c] = "destroying"
  /\ destroyed[c] => fence_sync_release[c] = UINT64_MAX
  /\ fence_sync_release[c] = UINT64_MAX =>
       client_pc[c] = "destroying" /\ Flushes(c) = {}

FlushOrder ==
  /\ \A th \in Thread : ThreadInOrder(th)
  /\ \A c \in Client : ClientInOrder(c)

\* The command that releases c's fence sync is executed, or it is in a flush up
\* to number n, unless c has lost its context.
WillExecute(c, release, n) ==
  \/ context_lost[c]
  \/ release =< executed[c]
  \/ \E u \in Flushes(c) : release =< u.release /\ u.order_num =< n

\* A flush waits only for releases of flushes with a smaller number.
WaitCovered(t) ==
  t.wait # NoWait => WillExecute(t.wait[1], t.wait[2], t.order_num - 1)

\* The order fences of c expire only when the flush that releases them has been
\* processed.
ClientCovered(c) ==
  /\ WillExecute(c, flushed_fence_sync_release[c], unprocessed_order_num[c])
  /\ Flushing(c) => WaitCovered(flush[c])
  /\ \A f \in order_fence_queue[c] : WillExecute(c, f.release, f.order_num)

\* What a thread is about to release has been executed.
ThreadCovered(th) ==
  LET c == Current(th).client IN
  /\ \A i \in DOMAIN tasks[th] : WaitCovered(tasks[th][i])
  /\ \A f \in ensure_releases[th] : context_lost[c] \/ f.release =< executed[c]
  /\ pc[th] = "finish" /\ Current(th).order_num > 0 =>
       context_lost[c] \/ Current(th).release =< executed[c]

\* No wait runs ahead of the flush that releases it.
ReleasesComeFirst ==
  /\ \A c \in Client : ClientCovered(c)
  /\ \A th \in Thread : ThreadCovered(th)

\* c's thread waits for token, inside a flush of c.
WaitsFor(c, token) ==
  /\ pc[ThreadOf[c]] = "waiting"
  /\ Current(ThreadOf[c]).client = c
  /\ Current(ThreadOf[c]).wait = token

MayGoOn(c) == \E token \in Token : WaitsFor(c, token) /\ Abstract!Signaled(token)

CalledBack(c) == fence_sync_wait_event[c] \/ \E th \in Thread : c \in callback_list[th]

CallbackQueued(c) ==
  \E d \in Client : \E cb \in release_callback_queue[d] : cb.waiter = c

\* A client is called back only while it waits, once for each wait, and only
\* when what it waits for has been executed or never will be.
CalledBackInTime ==
  /\ \A d \in Client : \A cb \in release_callback_queue[d] :
       WaitsFor(cb.waiter, <<d, cb.release>>)
  /\ \A c \in Client : CalledBack(c) => MayGoOn(c) /\ ~CallbackQueued(c)
  /\ \A th \in Thread : \A c \in callback_list[th] :
       /\ ~fence_sync_wait_event[c]
       /\ \A other \in Thread \ {th} : c \notin callback_list[other]

\* Flushes are processed in the order of their numbers, no wait runs ahead of the
\* flush that releases it, no release is forced, and a wait is called back once
\* and not early: the strengthening of IInv from which the refinement follows.
RInv ==
  /\ IInv
  /\ FlushOrder
  /\ ReleasesComeFirst
  /\ NeverForced
  /\ CalledBackInTime

\* A wait returns only when the release it waits for has been executed, or its
\* client is gone.
FenceSyncsSpec == Abstract!Spec

\* The thread that runs the flushes of the client that th waits for.
WaitsForThread(th) == ThreadOf[Current(th).wait[1]]

\* Every thread of S waits for one of S, itself perhaps, and none is called back.
Deadlocked(S) ==
  \A th \in S :
    /\ pc[th] = "waiting"
    /\ ~CalledBack(Current(th).client)
    /\ WaitsForThread(th) \in S

\* A wait ends, although releases are dropped with the context of their client,
\* clients are destroyed and order fences are queued while numbers are handed
\* out: threads never wait for each other in a circle, unless a client that is
\* waited for has lost its context, whose order fence may then be left to a
\* flush behind the wait.
WaitCompletes ==
  \A th \in Thread :
    pc[th] = "waiting" ~>
      \/ pc[th] # "waiting"
      \/ \E S \in SUBSET Thread :
           /\ th \in S
           /\ Deadlocked(S)
           /\ \E u \in S : context_lost[Current(u).wait[1]]

\* "In all cases wait_complete_callback will be called eventually", which is
\* what a wait on the GPU thread relies on.
WaitIsCalledBack == \A th \in Thread : pc[th] = "waiting" ~> pc[th] # "waiting"
=============================================================================
