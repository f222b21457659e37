------------------------ MODULE SyncPointManagerProofs ------------------------
(* Proofs about SyncPointManager, for any clients, threads and bounds. *)
EXTENDS SyncPointManager, TLAPS

-----------------------------------------------------------------------------
(* Task queues.                                                            *)

\* The first task of a queue is one of the tasks of the thread.
LEMMA QueueHead ==
  ASSUME NEW th \in Thread, NEW s, IsTaskQueue(s, th), s # <<>>
  PROVE  /\ Head(s) \in GpuTask
         /\ Head(s) = s[1] /\ 1 \in DOMAIN s
         /\ ThreadOf[Head(s).client] = th
  BY DEF IsTaskQueue

\* A task is queued behind the others.
LEMMA QueueAppend ==
  ASSUME NEW th \in Thread, NEW s, IsTaskQueue(s, th),
         NEW t \in GpuTask, ThreadOf[t.client] = th
  PROVE  /\ IsTaskQueue(Append(s, t), th)
         /\ Append(s, t) # <<>>
         /\ s # <<>> => Head(Append(s, t)) = Head(s)
  BY DEF IsTaskQueue

\* The first task is taken off.
LEMMA QueueTail ==
  ASSUME NEW th \in Thread, NEW s, IsTaskQueue(s, th), s # <<>>
  PROVE  IsTaskQueue(Tail(s), th)
  BY DEF IsTaskQueue

\* The wait of the first task is done.
LEMMA QueueWaited ==
  ASSUME NEW th \in Thread, NEW s, IsTaskQueue(s, th), s # <<>>
  PROVE  /\ IsTaskQueue([s EXCEPT ![1].wait = NoWait], th)
         /\ [s EXCEPT ![1].wait = NoWait] # <<>>
         /\ Head([s EXCEPT ![1].wait = NoWait]).client = Head(s).client
  <1> DEFINE r == [s EXCEPT ![1].wait = NoWait]
  <1>1. s \in Seq(GpuTask) /\ Len(s) > 0 /\ 1 \in DOMAIN s /\ s[1] \in GpuTask
    BY DEF IsTaskQueue
  <1>2. [s[1] EXCEPT !.wait = NoWait] \in GpuTask
        /\ [s[1] EXCEPT !.wait = NoWait].client = s[1].client
    BY <1>1 DEF GpuTask
  <1>3. DOMAIN r = DOMAIN s /\ \A i \in DOMAIN s : r[i] \in GpuTask
                                                /\ r[i].client = s[i].client
    BY <1>1, <1>2
  <1>4. r \in Seq(GpuTask) /\ Len(r) = Len(s)
    BY <1>1, <1>3
  <1>5. IsTaskQueue(r, th)
    BY <1>1, <1>3, <1>4 DEF IsTaskQueue
  <1>6. r # <<>> /\ Head(r) = r[1] /\ Head(s) = s[1]
    BY <1>1, <1>4
  <1> QED
    BY <1>1, <1>3, <1>5, <1>6

\* What IInv says of the task that a thread is running.
LEMMA Running ==
  ASSUME TypeOK, ThreadsBusy, NEW th \in Thread, pc[th] # "idle" \/ tasks[th] # <<>>
  PROVE  /\ tasks[th] # <<>>
         /\ Current(th) \in GpuTask
         /\ Current(th).client \in Client
         /\ Current(th).order_num \in OrderNumber
         /\ Current(th).release \in 0 .. MaxRelease
         /\ Current(th).wait \in Token \cup {NoWait}
         /\ ThreadOf[Current(th).client] = th
  <1>1. tasks[th] # <<>> /\ IsTaskQueue(tasks[th], th)
    BY DEF TypeOK, GpuThreadsTyped, ThreadsBusy
  <1>2. Current(th) \in GpuTask /\ ThreadOf[Current(th).client] = th
    BY <1>1, QueueHead DEF Current
  <1> QED
    BY <1>1, <1>2 DEF GpuTask

-----------------------------------------------------------------------------
(* The invariant holds at first.                                           *)

LEMMA InitIInv == Init => IInv
  <1> SUFFICES ASSUME Init PROVE IInv
    OBVIOUS
  <1> USE SyncPointAssumption
  <1>1. \A c \in Client : DestroyTask(c) \in GpuTask /\ DestroyTask(c).client = c
                          /\ DestroyTask(c).order_num = 0
    BY DEF DestroyTask, GpuTask, OrderNumber
  <1>2. ClientThreadsTyped
    BY <1>1 DEF Init, ClientThreadsTyped
  <1>3. GpuThreadsTyped
    BY DEF Init, GpuThreadsTyped, IsTaskQueue
  <1>4. SyncPointsTyped
    BY DEF Init, SyncPointsTyped, OrderNumber, Release, UINT64_MAX
  <1>5. ThreadsBusy
    BY DEF Init, ThreadsBusy, Ready
  <1>6. OrderNumbersGrow
    BY <1>1 DEF Init, OrderNumbersGrow
  <1>7. OrderFencesInRange /\ CallbacksGuarded
    BY DEF Init, OrderFencesInRange, CallbacksGuarded
  <1> QED
    BY <1>2, <1>3, <1>4, <1>5, <1>6, <1>7 DEF IInv, TypeOK

-----------------------------------------------------------------------------
(* The steps of a client thread.                                           *)

LEMMA FlushStep == ASSUME IInv, NEW c \in Client, Flush(c) PROVE IInv'
  <1> USE SyncPointAssumption DEF IInv, TypeOK
  <1>0. /\ GpuThreadsTyped' /\ SyncPointsTyped' /\ ThreadsBusy'
        /\ OrderFencesInRange' /\ CallbacksGuarded'
    BY DEF Flush, order_vars, GpuThreadsTyped, SyncPointsTyped, ThreadsBusy, Ready,
       Current, OrderFencesInRange, CallbacksGuarded, FencesToRelease
  <1>1. PICK release \in next_fence_sync_release[c] - 1 .. MaxRelease,
             wait \in FlushedTokens \cup {NoWait} :
          /\ flush' = [flush EXCEPT ![c] =
                         [client |-> c, order_num |-> global_order_num,
                          release |-> release, wait |-> wait]]
          /\ next_fence_sync_release' =
               [next_fence_sync_release EXCEPT ![c] = release + 1]
    BY DEF Flush
  <1>2. release \in 0 .. MaxRelease /\ wait \in Token \cup {NoWait}
        /\ global_order_num \in 1 .. MaxOrder
    BY DEF Flush, ClientThreadsTyped, FlushedTokens
  <1>3. [client |-> c, order_num |-> global_order_num, release |-> release,
         wait |-> wait] \in GpuTask
    BY <1>2 DEF GpuTask, OrderNumber
  <1>4. ClientThreadsTyped'
    BY <1>1, <1>2, <1>3 DEF Flush, ClientThreadsTyped
  <1>5. OrderNumbersGrow'
    <2>1. \A d \in Client :
            /\ flush[d].order_num \in Nat /\ unprocessed_order_num[d] \in Nat
            /\ flush'[d].order_num = IF d = c THEN global_order_num
                                               ELSE flush[d].order_num
      BY <1>1 DEF ClientThreadsTyped, SyncPointsTyped, GpuTask, OrderNumber
    <2>2. /\ global_order_num' = global_order_num + 1
          /\ unprocessed_order_num' = unprocessed_order_num
          /\ \A d \in Client : d # c => client_pc'[d] = client_pc[d]
      BY DEF Flush, order_vars, ClientThreadsTyped
    <2>3. ASSUME NEW d \in Client
          PROVE  /\ flush'[d].order_num < global_order_num'
                 /\ unprocessed_order_num'[d] < global_order_num'
                 /\ client_pc'[d] = "numbered" =>
                      unprocessed_order_num'[d] < flush'[d].order_num
      <3>1. /\ flush[d].order_num < global_order_num
            /\ unprocessed_order_num[d] < global_order_num
            /\ client_pc[d] = "numbered" =>
                 unprocessed_order_num[d] < flush[d].order_num
        BY DEF OrderNumbersGrow
      <3>2. global_order_num \in Nat /\ global_order_num < global_order_num'
        BY <1>2, <2>2
      <3>3. CASE d = c
        BY <2>1, <2>2, <3>1, <3>2, <3>3
      <3>4. CASE d # c
        BY <2>1, <2>2, <3>1, <3>2, <3>4
      <3> QED
        BY <3>3, <3>4
    <2> QED
      BY <2>3 DEF OrderNumbersGrow
  <1> QED
    BY <1>0, <1>4, <1>5

LEMMA SetUnprocessedOrderNumberStep ==
  ASSUME IInv, NEW c \in Client, SetUnprocessedOrderNumber(c) PROVE IInv'
  <1> USE SyncPointAssumption DEF IInv, TypeOK
  <1>0. GpuThreadsTyped' /\ ThreadsBusy' /\ CallbacksGuarded'
    BY DEF SetUnprocessedOrderNumber, GpuThreadsTyped, ThreadsBusy, Ready,
       Current, CallbacksGuarded, FencesToRelease
  <1>1. flush[c].order_num \in OrderNumber
    BY DEF ClientThreadsTyped, GpuTask
  <1>2. ClientThreadsTyped'
    BY DEF SetUnprocessedOrderNumber, ClientThreadsTyped
  <1>3. SyncPointsTyped'
    BY <1>1 DEF SetUnprocessedOrderNumber, SyncPointsTyped
  <1>4. OrderNumbersGrow'
    BY <1>1 DEF SetUnprocessedOrderNumber, OrderNumbersGrow, SyncPointsTyped,
       ClientThreadsTyped
  <1>5. OrderFencesInRange'
    BY <1>1 DEF SetUnprocessedOrderNumber, OrderNumbersGrow, SyncPointsTyped,
       OrderNumber, OrderFencesInRange, OrderFence
  <1> QED
    BY <1>0, <1>2, <1>3, <1>4, <1>5

\* The task t of c is queued; the variables of the GPU threads stay.
LEMMA QueueStep ==
  ASSUME IInv, NEW c \in Client, NEW t \in GpuTask, t.client = c,
         tasks' = [tasks EXCEPT ![Service(c)] = Append(@, t)],
         UNCHANGED <<order_vars, pc, executed, context_lost,
                     fence_sync_wait_event, ensure_releases, callback_list,
                     clients, fence_sync_release, release_callback_queue>>
  PROVE  /\ GpuThreadsTyped' /\ SyncPointsTyped' /\ ThreadsBusy'
         /\ OrderFencesInRange' /\ CallbacksGuarded'
  <1> USE SyncPointAssumption DEF IInv, TypeOK
  <1>1. SyncPointsTyped' /\ OrderFencesInRange'
    BY DEF order_vars, SyncPointsTyped, OrderFencesInRange
  <1>2. \A th \in Thread :
          /\ IsTaskQueue(tasks[th], th)' /\ (tasks[th] # <<>> => tasks'[th] # <<>>)
          /\ tasks[th] # <<>> => Current(th)' = Current(th)
    BY QueueAppend DEF GpuThreadsTyped, Service, Current
  <1>3. GpuThreadsTyped'
    BY <1>2 DEF GpuThreadsTyped
  <1>4. ThreadsBusy'
    BY <1>2 DEF ThreadsBusy, Ready
  <1>5. \A d \in Client : FencesToRelease(d) \subseteq FencesToRelease(d)'
    <2> SUFFICES ASSUME NEW d \in Client, NEW f \in ensure_releases[ThreadOf[d]],
                        Current(ThreadOf[d]).client = d
                 PROVE  Current(ThreadOf[d])' = Current(ThreadOf[d])
      BY DEF FencesToRelease, order_vars
    <2>1. ThreadOf[d] \in Thread /\ pc[ThreadOf[d]] # "idle"
      BY DEF ThreadsBusy, Ready
    <2> QED
      BY <2>1, <1>2 DEF ThreadsBusy
  <1>6. CallbacksGuarded'
    BY <1>5 DEF CallbacksGuarded, order_vars
  <1> QED
    BY <1>1, <1>3, <1>4, <1>6

LEMMA QueueFlushStep == ASSUME IInv, NEW c \in Client, QueueFlush(c) PROVE IInv'
  <1> USE SyncPointAssumption DEF IInv, TypeOK
  <1>1. flush[c] \in GpuTask /\ flush[c].client = c
    BY DEF ClientThreadsTyped
  <1>2. /\ GpuThreadsTyped' /\ SyncPointsTyped' /\ ThreadsBusy'
        /\ OrderFencesInRange' /\ CallbacksGuarded'
    BY <1>1, QueueStep DEF QueueFlush
  <1>3. ClientThreadsTyped'
    BY DEF QueueFlush, ClientThreadsTyped
  <1>4. OrderNumbersGrow'
    BY DEF QueueFlush, OrderNumbersGrow, order_vars
  <1> QED
    BY <1>2, <1>3, <1>4

LEMMA DestroyStep == ASSUME IInv, NEW c \in Client, Destroy(c) PROVE IInv'
  <1> USE SyncPointAssumption DEF IInv, TypeOK
  <1>1. DestroyTask(c) \in GpuTask /\ DestroyTask(c).client = c
    BY DEF DestroyTask, GpuTask, OrderNumber
  <1>2. /\ GpuThreadsTyped' /\ SyncPointsTyped' /\ ThreadsBusy'
        /\ OrderFencesInRange' /\ CallbacksGuarded'
    BY <1>1, QueueStep DEF Destroy
  <1>3. ClientThreadsTyped'
    BY DEF Destroy, ClientThreadsTyped
  <1>4. OrderNumbersGrow'
    BY DEF Destroy, OrderNumbersGrow, order_vars
  <1> QED
    BY <1>2, <1>3, <1>4

-----------------------------------------------------------------------------
(* The steps of a GPU thread.                                              *)

\* They leave alone what the client threads write.
LEMMA ClientSide ==
  ASSUME IInv, UNCHANGED client_vars, UNCHANGED unprocessed_order_num
  PROVE  ClientThreadsTyped' /\ OrderNumbersGrow'
  BY DEF IInv, TypeOK, client_vars, ClientThreadsTyped, OrderNumbersGrow

\* Callbacks stay guarded if no fence is lost.
LEMMA FencesKept ==
  ASSUME CallbacksGuarded, UNCHANGED <<fence_sync_release, release_callback_queue>>,
         \A d \in Client : FencesToRelease(d) \subseteq FencesToRelease(d)'
  PROVE  CallbacksGuarded'
  BY DEF CallbacksGuarded

\* A release wakes those who wait for it or for an earlier one; the callbacks
\* that stay are for later ones.
LEMMA ReleaseLocked ==
  ASSUME SyncPointsTyped, GpuThreadsTyped, NEW th \in Thread, NEW d \in Client,
         NEW release \in Release, ReleaseFenceSyncLocked(th, d, release)
  PROVE  /\ fence_sync_release' \in [Client -> Release]
         /\ release_callback_queue' \in [Client -> SUBSET ReleaseCallback]
         /\ callback_list' \in [Thread -> SUBSET Client]
         /\ fence_sync_release'[d] = release
         /\ \A cb \in release_callback_queue'[d] :
              cb \in release_callback_queue[d] /\ cb.release > release
         /\ \A x \in Client \ {d} :
              /\ fence_sync_release'[x] = fence_sync_release[x]
              /\ release_callback_queue'[x] = release_callback_queue[x]
         /\ \A x \in Thread \ {th} : callback_list'[x] = callback_list[x]
  <1>1. release_callback_queue[d] \subseteq ReleaseCallback
    BY DEF SyncPointsTyped
  <1>2. CallbacksAbove(d, release) \subseteq ReleaseCallback
        /\ \A cb \in CallbacksAbove(d, release) :
             cb \in release_callback_queue[d] /\ cb.release > release
    BY <1>1, SyncPointAssumption
    DEF CallbacksAbove, CallbacksUpTo, ReleaseCallback, Release, UINT64_MAX
  <1>3. {cb.waiter : cb \in CallbacksUpTo(d, release)} \subseteq Client
    BY <1>1 DEF CallbacksUpTo, ReleaseCallback
  <1> QED
    BY <1>2, <1>3 DEF ReleaseFenceSyncLocked, SyncPointsTyped, GpuThreadsTyped

LEMMA BeginProcessingOrderNumberStep ==
  ASSUME IInv, NEW th \in Thread, BeginProcessingOrderNumber(th) PROVE IInv'
  <1> USE SyncPointAssumption DEF IInv, TypeOK
  <1> DEFINE c == Current(th).client
             expired == ExpiredAtBegin(c, Current(th).order_num)
  <1>1. /\ c \in Client /\ ThreadOf[c] = th
        /\ Current(th).order_num \in OrderNumber
        /\ pc[th] = "idle" /\ Ready(th) /\ tasks[th] # <<>>
    BY Running DEF BeginProcessingOrderNumber, ThreadsBusy
  <1>2. ClientThreadsTyped' /\ OrderNumbersGrow'
    BY ClientSide DEF BeginProcessingOrderNumber
  <1>3. expired \subseteq order_fence_queue[c]
    BY DEF ExpiredAtBegin
  <1>4. GpuThreadsTyped'
    BY <1>1, <1>3 DEF BeginProcessingOrderNumber, GpuThreadsTyped, SyncPointsTyped
  <1>5. SyncPointsTyped'
    BY <1>1, <1>3 DEF BeginProcessingOrderNumber, SyncPointsTyped
  <1>6. ThreadsBusy'
    BY <1>1 DEF BeginProcessingOrderNumber, ThreadsBusy, Ready, Current,
       GpuThreadsTyped
  <1>7. OrderFencesInRange'
    BY <1>1 DEF BeginProcessingOrderNumber, OrderFencesInRange, SyncPointsTyped
  <1>8. \A d \in Client : FencesToRelease(d) \subseteq FencesToRelease(d)'
    BY <1>1 DEF BeginProcessingOrderNumber, FencesToRelease, Ready, Current,
       SyncPointsTyped, GpuThreadsTyped
  <1>9. CallbacksGuarded'
    BY <1>8, FencesKept DEF BeginProcessingOrderNumber
  <1> QED
    BY <1>2, <1>4, <1>5, <1>6, <1>7, <1>9

LEMMA EnsureReleasedStep ==
  ASSUME IInv, NEW th \in Thread, EnsureReleased(th) PROVE IInv'
  <1> USE SyncPointAssumption DEF IInv, TypeOK
  <1> DEFINE c == Current(th).client
  <1>1. PICK f \in ensure_releases[th] :
          /\ ensure_releases' = [ensure_releases EXCEPT ![th] = @ \ {f}]
          /\ IF f.release =< fence_sync_release[c]
               THEN UNCHANGED <<fence_sync_release, release_callback_queue,
                                callback_list>>
               ELSE ReleaseFenceSyncLocked(th, c, f.release)
    BY DEF EnsureReleased
  <1>2. pc[th] # "idle"
    BY DEF ThreadsBusy, Ready
  <1>3. c \in Client /\ ThreadOf[c] = th
    BY <1>2, Running
  <1>4. f \in OrderFence /\ f.release \in Release
    BY DEF GpuThreadsTyped, OrderFence, Release, UINT64_MAX
  <1>5. ClientThreadsTyped' /\ OrderNumbersGrow'
    BY ClientSide DEF EnsureReleased, order_vars
  <1>6. /\ fence_sync_release' \in [Client -> Release]
        /\ release_callback_queue' \in [Client -> SUBSET ReleaseCallback]
        /\ callback_list' \in [Thread -> SUBSET Client]
        /\ \A x \in Client \ {c} :
             /\ fence_sync_release'[x] = fence_sync_release[x]
             /\ release_callback_queue'[x] = release_callback_queue[x]
        /\ \A x \in Thread \ {th} : callback_list'[x] = callback_list[x]
        /\ fence_sync_release[c] =< fence_sync_release'[c]
        /\ \A cb \in release_callback_queue'[c] :
             /\ cb \in release_callback_queue[c]
             /\ cb.release > fence_sync_release'[c]
             /\ cb.release # f.release
    <2>1. fence_sync_release[c] \in Release
          /\ \A cb \in release_callback_queue[c] :
               cb.release \in 1 .. MaxRelease /\ cb.release > fence_sync_release[c]
      BY <1>3 DEF SyncPointsTyped, CallbacksGuarded, ReleaseCallback
    <2>2. CASE f.release =< fence_sync_release[c]
      BY <1>1, <1>3, <1>4, <2>1, <2>2
      DEF SyncPointsTyped, GpuThreadsTyped, Release, UINT64_MAX
    <2>3. CASE ~(f.release =< fence_sync_release[c])
      <3>1. ReleaseFenceSyncLocked(th, c, f.release)
        BY <1>1, <2>3
      <3> QED
        BY <3>1, <1>3, <1>4, <2>1, <2>3, ReleaseLocked DEF Release, UINT64_MAX
    <2> QED
      BY <2>2, <2>3
  <1>7. GpuThreadsTyped'
    BY <1>1, <1>6 DEF EnsureReleased, GpuThreadsTyped
  <1>8. SyncPointsTyped'
    BY <1>6 DEF EnsureReleased, SyncPointsTyped, order_vars
  <1>9. ThreadsBusy'
    <2>1. \A x \in Thread : Ready(x) => Ready(x)'
      BY <1>1, <1>6 DEF EnsureReleased, Ready, GpuThreadsTyped
    <2>2. fence_sync_release[c] = UINT64_MAX => fence_sync_release'[c] = UINT64_MAX
      BY <1>3, <1>6 DEF SyncPointsTyped, Release, UINT64_MAX
    <2>3. \A x \in Thread : pc[x] # "idle" => Current(x).client \in Client
      BY Running
    <2> QED
      BY <1>6, <2>1, <2>2, <2>3 DEF EnsureReleased, ThreadsBusy, Current
  <1>10. OrderFencesInRange'
    BY DEF EnsureReleased, OrderFencesInRange, order_vars
  <1>11. CallbacksGuarded'
    <2> SUFFICES ASSUME NEW d \in Client, NEW cb \in release_callback_queue'[d]
                 PROVE  /\ cb.release > fence_sync_release'[d]
                        /\ \E g \in FencesToRelease(d)' : g.release = cb.release
      BY DEF CallbacksGuarded
    <2>1. /\ cb \in release_callback_queue[d]
          /\ cb.release > fence_sync_release'[d]
          /\ d = c => cb.release # f.release
      BY <1>6 DEF CallbacksGuarded
    <2>2. PICK g \in FencesToRelease(d) : g.release = cb.release
      BY <2>1 DEF CallbacksGuarded
    <2>3. g \in FencesToRelease(d)'
      BY <1>1, <1>3, <2>1, <2>2
      DEF EnsureReleased, FencesToRelease, Current, order_vars, GpuThreadsTyped
    <2> QED
      BY <2>1, <2>2, <2>3
  <1> QED
    BY <1>5, <1>7, <1>8, <1>9, <1>10, <1>11

LEMMA RunCallbackStep ==
  ASSUME IInv, NEW th \in Thread, RunCallback(th) PROVE IInv'
  <1> USE SyncPointAssumption DEF IInv, TypeOK
  <1>1. ClientThreadsTyped' /\ OrderNumbersGrow'
    BY ClientSide DEF RunCallback, order_vars
  <1>2. GpuThreadsTyped' /\ SyncPointsTyped' /\ OrderFencesInRange'
    BY DEF RunCallback, order_vars, GpuThreadsTyped, SyncPointsTyped,
       OrderFencesInRange
  <1>3. ThreadsBusy'
    BY DEF RunCallback, ThreadsBusy, Ready, Current, GpuThreadsTyped
  <1>4. CallbacksGuarded'
    BY DEF RunCallback, order_vars, CallbacksGuarded, FencesToRelease, Current
  <1> QED
    BY <1>1, <1>2, <1>3, <1>4

\* Clients of other threads, and other clients of th, keep their callbacks and
\* fences when th releases fence syncs of the client it serves.
LEMMA ReleaseGuarded ==
  ASSUME IInv, NEW th \in Thread, pc[th] # "idle" \/ tasks[th] # <<>>,
         NEW release \in Release, Ready(th),
         ReleaseFenceSyncLocked(th, Current(th).client, release),
         UNCHANGED <<tasks, order_vars, ensure_releases>>
  PROVE  CallbacksGuarded'
  <1> DEFINE c == Current(th).client
  <1>1. c \in Client
    BY Running DEF IInv
  <1> SUFFICES ASSUME NEW d \in Client, NEW cb \in release_callback_queue'[d]
               PROVE  /\ cb.release > fence_sync_release'[d]
                      /\ \E g \in FencesToRelease(d)' : g.release = cb.release
    BY DEF CallbacksGuarded
  <1>2. cb \in release_callback_queue[d] /\ cb.release > fence_sync_release'[d]
    BY <1>1, ReleaseLocked DEF IInv, TypeOK, CallbacksGuarded
  <1>3. FencesToRelease(d)' = FencesToRelease(d)
    BY DEF FencesToRelease, Current, order_vars
  <1> QED
    BY <1>2, <1>3 DEF IInv, CallbacksGuarded

LEMMA FenceSyncReleaseStep ==
  ASSUME IInv, NEW th \in Thread, FenceSyncRelease(th) PROVE IInv'
  <1> USE SyncPointAssumption DEF IInv, TypeOK
  <1> DEFINE c == Current(th).client
  <1>1. /\ c \in Client /\ ThreadOf[c] = th
        /\ pc[th] = "run" /\ Ready(th)
        /\ executed[c] \in 0 .. MaxRelease /\ executed[c] + 1 \in 1 .. MaxRelease
    <2>1. /\ pc[th] = "run" /\ Ready(th) /\ executed[c] < Current(th).release
      BY DEF FenceSyncRelease, BetweenCommands
    <2>2. c \in Client /\ ThreadOf[c] = th /\ Current(th).release \in 0 .. MaxRelease
      BY <2>1, Running
    <2>3. executed[c] \in 0 .. MaxRelease
      BY <2>2 DEF GpuThreadsTyped
    <2> QED
      BY <2>1, <2>2, <2>3
  <1>2. ReleaseFenceSyncLocked(th, c, executed[c] + 1)
        /\ executed[c] + 1 \in Release
    BY <1>1 DEF FenceSyncRelease, Release, UINT64_MAX
  <1>3. ClientThreadsTyped' /\ OrderNumbersGrow'
    BY ClientSide DEF FenceSyncRelease, order_vars
  <1>4. GpuThreadsTyped' /\ SyncPointsTyped'
    BY <1>1, <1>2, ReleaseLocked
    DEF FenceSyncRelease, GpuThreadsTyped, SyncPointsTyped, order_vars
  <1>5. ThreadsBusy'
    <2>1. \A x \in Thread : pc[x] # "idle" => Current(x).client \in Client
                                              /\ ThreadOf[Current(x).client] = x
      BY Running
    <2> QED
      BY <1>1, <1>2, <2>1, ReleaseLocked
      DEF FenceSyncRelease, ThreadsBusy, Ready, Current
  <1>6. OrderFencesInRange'
    BY DEF FenceSyncRelease, OrderFencesInRange, order_vars
  <1>7. CallbacksGuarded'
    BY <1>1, <1>2, ReleaseGuarded DEF FenceSyncRelease
  <1> QED
    BY <1>3, <1>4, <1>5, <1>6, <1>7

LEMMA WaitFenceSyncStep ==
  ASSUME IInv, NEW th \in Thread, WaitFenceSync(th) PROVE IInv'
  <1> USE SyncPointAssumption DEF IInv, TypeOK
  <1>1. /\ pc[th] = "run" /\ Ready(th) /\ tasks[th] # <<>>
        /\ IsTaskQueue(tasks[th], th) /\ Current(th).wait # NoWait
    BY Running DEF WaitFenceSync, BetweenCommands, GpuThreadsTyped
  <1>2. ClientThreadsTyped' /\ OrderNumbersGrow'
    BY ClientSide DEF WaitFenceSync, order_vars
  <1>3. SyncPointsTyped' /\ OrderFencesInRange'
    BY DEF WaitFenceSync, SyncPointsTyped, OrderFencesInRange, order_vars
  <1>4. CASE Current(th).wait[1] \in clients
    <2>1. pc' = [pc EXCEPT ![th] = "found"] /\ tasks' = tasks
      BY <1>4 DEF WaitFenceSync
    <2>2. GpuThreadsTyped'
      BY <2>1 DEF WaitFenceSync, GpuThreadsTyped
    <2>3. ThreadsBusy'
      BY <1>1, <2>1 DEF WaitFenceSync, ThreadsBusy, Ready, Current, GpuThreadsTyped
    <2>4. CallbacksGuarded'
      BY <2>1 DEF WaitFenceSync, CallbacksGuarded, FencesToRelease, Current, order_vars
    <2> QED
      BY <1>2, <1>3, <2>2, <2>3, <2>4
  <1>5. CASE Current(th).wait[1] \notin clients
    <2>1. pc' = pc /\ tasks' = [tasks EXCEPT ![th][1].wait = NoWait]
      BY <1>5 DEF WaitFenceSync
    <2>2. /\ DOMAIN tasks' = Thread
          /\ IsTaskQueue(tasks'[th], th) /\ tasks'[th] # <<>>
          /\ Current(th)'.client = Current(th).client
          /\ \A x \in Thread \ {th} : tasks'[x] = tasks[x]
      BY <1>1, <2>1, QueueWaited DEF GpuThreadsTyped, Current
    <2>3. GpuThreadsTyped'
      BY <2>1, <2>2 DEF WaitFenceSync, GpuThreadsTyped
    <2>4. ThreadsBusy'
      BY <1>1, <2>1, <2>2 DEF WaitFenceSync, ThreadsBusy, Ready, Current
    <2>5. CallbacksGuarded'
      BY <2>2 DEF WaitFenceSync, CallbacksGuarded, FencesToRelease, Current, order_vars
    <2> QED
      BY <1>2, <1>3, <2>3, <2>4, <2>5
  <1> QED
    BY <1>4, <1>5

LEMMA WaitStep == ASSUME IInv, NEW th \in Thread, Wait(th) PROVE IInv'
  <1> USE SyncPointAssumption DEF IInv, TypeOK
  <1> DEFINE c == Current(th).client
             d == Current(th).wait[1]
             release == Current(th).wait[2]
             fence == [order_num |-> ExpectedOrderNumber(d, current_order_num[c]),
                       release |-> release]
             callback == [release |-> release, waiter |-> c]
  <1>1. /\ pc[th] = "found" /\ tasks[th] # <<>>
        /\ c \in Client /\ ThreadOf[c] = th
        /\ d \in Client /\ release \in 1 .. MaxRelease
    BY Running DEF Wait, ThreadsBusy, Token
  <1>2. ClientThreadsTyped' /\ OrderNumbersGrow'
    BY ClientSide DEF Wait
  <1>3. ThreadsBusy'
    BY <1>1 DEF Wait, ThreadsBusy, Ready, Current, GpuThreadsTyped
  <1>4. GpuThreadsTyped'
    BY <1>1 DEF Wait, GpuThreadsTyped
  <1>5. CASE NotifiedAtOnce(c, d, release)
    <2>1. UNCHANGED <<order_fence_queue, release_callback_queue>>
      BY <1>5 DEF Wait
    <2>2. SyncPointsTyped' /\ OrderFencesInRange'
      BY <2>1 DEF Wait, SyncPointsTyped, OrderFencesInRange
    <2>3. CallbacksGuarded'
      BY <2>1 DEF Wait, CallbacksGuarded, FencesToRelease, Current
    <2> QED
      BY <1>2, <1>3, <1>4, <2>2, <2>3
  <1>6. CASE ~NotifiedAtOnce(c, d, release)
    <2>1. /\ order_fence_queue' = [order_fence_queue EXCEPT ![d] = @ \cup {fence}]
          /\ release_callback_queue' =
               [release_callback_queue EXCEPT ![d] = @ \cup {callback}]
      BY <1>6 DEF Wait
    <2>2. /\ release > fence_sync_release[d]
          /\ processed_order_num[d] + 1 < current_order_num[c]
          /\ processed_order_num[d] < unprocessed_order_num[d]
      BY <1>1, <1>6
      DEF NotifiedAtOnce, IsValidRelease, SyncPointsTyped, Release, UINT64_MAX
    <2>3. /\ fence.order_num \in OrderNumber
          /\ processed_order_num[d] < fence.order_num
          /\ fence.order_num =< unprocessed_order_num[d]
      BY <1>1, <2>2 DEF ExpectedOrderNumber, SyncPointsTyped, OrderNumber
    <2>4. SyncPointsTyped'
      BY <1>1, <2>1, <2>3 DEF Wait, SyncPointsTyped, OrderFence, ReleaseCallback
    <2>5. OrderFencesInRange'
      BY <1>1, <2>1, <2>3 DEF Wait, OrderFencesInRange, SyncPointsTyped
    <2>6. \A x \in Client :
            FencesToRelease(x)' = FencesToRelease(x) \cup (IF x = d THEN {fence} ELSE {})
      BY <1>1, <2>1 DEF Wait, FencesToRelease, Current, SyncPointsTyped
    <2>7. CallbacksGuarded'
      <3> SUFFICES ASSUME NEW x \in Client, NEW cb \in release_callback_queue'[x]
                   PROVE  /\ cb.release > fence_sync_release'[x]
                          /\ \E g \in FencesToRelease(x)' : g.release = cb.release
        BY DEF CallbacksGuarded
      <3>1. fence_sync_release' = fence_sync_release
        BY DEF Wait
      <3>2. CASE cb \in release_callback_queue[x]
        BY <2>6, <3>1, <3>2 DEF CallbacksGuarded
      <3>3. CASE cb \notin release_callback_queue[x]
        <4>1. x = d /\ cb = callback
          BY <1>1, <2>1, <3>3 DEF SyncPointsTyped
        <4>2. fence \in FencesToRelease(x)' /\ fence.release = cb.release
          BY <2>6, <4>1
        <4> QED
          BY <2>2, <3>1, <4>1, <4>2
      <3> QED
        BY <3>2, <3>3
    <2> QED
      BY <1>2, <1>3, <1>4, <2>4, <2>5, <2>7
  <1> QED
    BY <1>5, <1>6

LEMMA WaitReturnsStep ==
  ASSUME IInv, NEW th \in Thread, WaitReturns(th) PROVE IInv'
  <1> USE SyncPointAssumption DEF IInv, TypeOK
  <1>1. /\ pc[th] = "waiting" /\ tasks[th] # <<>>
        /\ IsTaskQueue(tasks[th], th)
    BY Running DEF WaitReturns, GpuThreadsTyped
  <1>2. ClientThreadsTyped' /\ OrderNumbersGrow'
    BY ClientSide DEF WaitReturns, order_vars
  <1>3. SyncPointsTyped' /\ OrderFencesInRange'
    BY DEF WaitReturns, SyncPointsTyped, OrderFencesInRange, order_vars
  <1>4. /\ DOMAIN tasks' = Thread
        /\ IsTaskQueue(tasks'[th], th) /\ tasks'[th] # <<>>
        /\ Current(th)'.client = Current(th).client
        /\ \A x \in Thread \ {th} : tasks'[x] = tasks[x]
    BY <1>1, QueueWaited DEF WaitReturns, GpuThreadsTyped, Current
  <1>5. GpuThreadsTyped'
    BY <1>1, <1>4 DEF WaitReturns, GpuThreadsTyped
  <1>6. ThreadsBusy'
    BY <1>1, <1>4 DEF WaitReturns, ThreadsBusy, Ready, Current, GpuThreadsTyped
  <1>7. CallbacksGuarded'
    BY <1>4 DEF WaitReturns, CallbacksGuarded, FencesToRelease, Current, order_vars
  <1> QED
    BY <1>2, <1>3, <1>5, <1>6, <1>7

LEMMA LoseContextStep ==
  ASSUME IInv, NEW th \in Thread, LoseContext(th) PROVE IInv'
  <1> USE SyncPointAssumption DEF IInv, TypeOK
  <1>1. ClientThreadsTyped' /\ OrderNumbersGrow'
    BY ClientSide DEF LoseContext, order_vars
  <1>2. GpuThreadsTyped' /\ SyncPointsTyped' /\ OrderFencesInRange'
    BY DEF LoseContext, order_vars, GpuThreadsTyped, SyncPointsTyped,
       OrderFencesInRange
  <1>3. ThreadsBusy' /\ CallbacksGuarded'
    BY DEF LoseContext, order_vars, ThreadsBusy, Ready, Current, CallbacksGuarded,
       FencesToRelease
  <1> QED
    BY <1>1, <1>2, <1>3

LEMMA FinishProcessingOrderNumberStep ==
  ASSUME IInv, NEW th \in Thread, FinishProcessingOrderNumber(th) PROVE IInv'
  <1> USE SyncPointAssumption DEF IInv, TypeOK
  <1> DEFINE c == Current(th).client
             n == Current(th).order_num
             expired == ExpiredAtFinish(c, n)
  <1>1. /\ pc[th] = "run" /\ Ready(th)
        /\ c \in Client /\ ThreadOf[c] = th /\ n \in OrderNumber
    BY Running DEF FinishProcessingOrderNumber, BetweenCommands
  <1>2. ClientThreadsTyped' /\ OrderNumbersGrow'
    BY ClientSide DEF FinishProcessingOrderNumber
  <1>3. expired \subseteq order_fence_queue[c]
        /\ \A f \in order_fence_queue[c] \ expired : f.order_num > n
    BY <1>1 DEF ExpiredAtFinish, SyncPointsTyped, OrderFence, OrderNumber
  <1>4. GpuThreadsTyped'
    BY <1>1, <1>3 DEF FinishProcessingOrderNumber, GpuThreadsTyped, SyncPointsTyped
  <1>5. SyncPointsTyped'
    BY <1>1, <1>3 DEF FinishProcessingOrderNumber, SyncPointsTyped
  <1>6. ThreadsBusy'
    BY <1>1 DEF FinishProcessingOrderNumber, ThreadsBusy, Ready, Current,
       GpuThreadsTyped
  <1>7. OrderFencesInRange'
    BY <1>1, <1>3 DEF FinishProcessingOrderNumber, OrderFencesInRange,
       SyncPointsTyped
  <1>8. \A d \in Client : FencesToRelease(d) \subseteq FencesToRelease(d)'
    BY <1>1 DEF FinishProcessingOrderNumber, FencesToRelease, Ready, Current,
       SyncPointsTyped, GpuThreadsTyped
  <1>9. CallbacksGuarded'
    BY <1>8, FencesKept DEF FinishProcessingOrderNumber
  <1> QED
    BY <1>2, <1>4, <1>5, <1>6, <1>7, <1>9

LEMMA ReleaseAllStep ==
  ASSUME IInv, NEW th \in Thread, ReleaseAll(th) PROVE IInv'
  <1> USE SyncPointAssumption DEF IInv, TypeOK
  <1> DEFINE c == Current(th).client
  <1>1. /\ c \in Client /\ ThreadOf[c] = th
        /\ pc[th] = "idle" /\ Ready(th) /\ tasks[th] # <<>>
    BY Running DEF ReleaseAll, ThreadsBusy
  <1>2. ReleaseFenceSyncLocked(th, c, UINT64_MAX) /\ UINT64_MAX \in Release
    BY DEF ReleaseAll, Release, UINT64_MAX
  <1>3. ClientThreadsTyped' /\ OrderNumbersGrow'
    BY ClientSide DEF ReleaseAll, order_vars
  <1>4. GpuThreadsTyped' /\ SyncPointsTyped'
    BY <1>1, <1>2, ReleaseLocked
    DEF ReleaseAll, GpuThreadsTyped, SyncPointsTyped, order_vars
  <1>5. ThreadsBusy'
    <2>1. /\ tasks' = tasks /\ ensure_releases' = ensure_releases
          /\ pc' = [pc EXCEPT ![th] = "destroy"]
          /\ fence_sync_release' = [fence_sync_release EXCEPT ![c] = UINT64_MAX]
          /\ \A x \in Thread \ {th} : callback_list'[x] = callback_list[x]
      BY <1>2 DEF ReleaseAll, ReleaseFenceSyncLocked, GpuThreadsTyped
    <2>2. /\ fence_sync_release'[c] = UINT64_MAX
          /\ \A d \in Client \ {c} : fence_sync_release'[d] = fence_sync_release[d]
          /\ pc'[th] = "destroy"
          /\ \A x \in Thread \ {th} : pc'[x] = pc[x]
      BY <1>1, <2>1 DEF GpuThreadsTyped, SyncPointsTyped
    <2>3. \A x \in Thread \ {th} :
            pc[x] # "idle" => Current(x).client \in Client \ {c}
      BY <1>1, Running
    <2>4. Current(th).client = c /\ \A x \in Thread : Current(x)' = Current(x)
      BY <2>1 DEF Current
    <2>5. ASSUME NEW x \in Thread \ {th}
          PROVE  /\ tasks'[x] = <<>> => pc'[x] = "idle"
                 /\ pc'[x] = "idle" => Ready(x)'
                 /\ pc'[x] \in {"found", "waiting"} => Current(x)'.wait # NoWait
                 /\ pc'[x] \in {"destroy", "erased"} =>
                      fence_sync_release'[Current(x)'.client] = UINT64_MAX
      BY <2>1, <2>2, <2>3, <2>4 DEF ThreadsBusy, Ready
    <2> QED
      BY <1>1, <2>1, <2>2, <2>4, <2>5 DEF ThreadsBusy
  <1>6. OrderFencesInRange'
    BY DEF ReleaseAll, OrderFencesInRange, order_vars
  <1>7. CallbacksGuarded'
    BY <1>1, <1>2, ReleaseGuarded DEF ReleaseAll
  <1> QED
    BY <1>3, <1>4, <1>5, <1>6, <1>7

LEMMA DestroySyncPointClientStep ==
  ASSUME IInv, NEW th \in Thread, DestroySyncPointClient(th) PROVE IInv'
  <1> USE SyncPointAssumption DEF IInv, TypeOK
  <1>1. ClientThreadsTyped' /\ OrderNumbersGrow'
    BY ClientSide DEF DestroySyncPointClient, order_vars
  <1>2. GpuThreadsTyped' /\ SyncPointsTyped' /\ OrderFencesInRange'
    BY DEF DestroySyncPointClient, order_vars, GpuThreadsTyped, SyncPointsTyped,
       OrderFencesInRange
  <1>3. ThreadsBusy'
    BY DEF DestroySyncPointClient, ThreadsBusy, Ready, Current, GpuThreadsTyped
  <1>4. CallbacksGuarded'
    BY DEF DestroySyncPointClient, order_vars, CallbacksGuarded, FencesToRelease,
       Current
  <1> QED
    BY <1>1, <1>2, <1>3, <1>4

LEMMA DestroyOrderDataStep ==
  ASSUME IInv, NEW th \in Thread, DestroyOrderData(th) PROVE IInv'
  <1> USE SyncPointAssumption DEF IInv, TypeOK
  <1> DEFINE c == Current(th).client
  <1>1. /\ pc[th] = "erased" /\ c \in Client /\ ThreadOf[c] = th
        /\ fence_sync_release[c] = UINT64_MAX
    BY Running DEF DestroyOrderData, ThreadsBusy
  <1>2. ClientThreadsTyped' /\ OrderNumbersGrow'
    BY ClientSide DEF DestroyOrderData
  <1>3. GpuThreadsTyped' /\ SyncPointsTyped'
    BY DEF DestroyOrderData, GpuThreadsTyped, SyncPointsTyped
  <1>4. ThreadsBusy'
    BY DEF DestroyOrderData, ThreadsBusy, Ready, Current, GpuThreadsTyped
  <1>5. OrderFencesInRange'
    BY DEF DestroyOrderData, OrderFencesInRange, SyncPointsTyped
  <1>6. release_callback_queue[c] = {}
    BY <1>1 DEF CallbacksGuarded, SyncPointsTyped, ReleaseCallback, UINT64_MAX
  <1>7. \A d \in Client \ {c} : FencesToRelease(d)' = FencesToRelease(d)
    BY DEF DestroyOrderData, FencesToRelease, Current, SyncPointsTyped
  <1>8. CallbacksGuarded'
    BY <1>6, <1>7 DEF DestroyOrderData, CallbacksGuarded
  <1> QED
    BY <1>2, <1>3, <1>4, <1>5, <1>8

LEMMA FinishTaskStep ==
  ASSUME IInv, NEW th \in Thread, FinishTask(th) PROVE IInv'
  <1> USE SyncPointAssumption DEF IInv, TypeOK
  <1>1. /\ pc[th] = "finish" /\ Ready(th) /\ tasks[th] # <<>>
        /\ IsTaskQueue(tasks[th], th)
    BY Running DEF FinishTask, GpuThreadsTyped
  <1>2. ClientThreadsTyped' /\ OrderNumbersGrow'
    BY ClientSide DEF FinishTask, order_vars
  <1>3. SyncPointsTyped' /\ OrderFencesInRange'
    BY DEF FinishTask, SyncPointsTyped, OrderFencesInRange, order_vars
  <1>4. GpuThreadsTyped'
    BY <1>1, QueueTail DEF FinishTask, GpuThreadsTyped
  <1>5. ThreadsBusy'
    BY <1>1 DEF FinishTask, ThreadsBusy, Ready, Current, GpuThreadsTyped
  <1>6. CallbacksGuarded'
    BY <1>1 DEF FinishTask, CallbacksGuarded, FencesToRelease, Ready, Current,
       order_vars, GpuThreadsTyped
  <1> QED
    BY <1>2, <1>3, <1>4, <1>5, <1>6

-----------------------------------------------------------------------------
(* The theorems.                                                           *)

LEMMA StepIInv == IInv /\ [Next]_vars => IInv'
  <1> SUFFICES ASSUME IInv, [Next]_vars PROVE IInv'
    OBVIOUS
  <1>1. ASSUME NEW c \in Client, ClientNext(c) PROVE IInv'
    BY <1>1, FlushStep, SetUnprocessedOrderNumberStep, QueueFlushStep, DestroyStep
    DEF ClientNext
  <1>2. ASSUME NEW th \in Thread, GpuNext(th) PROVE IInv'
    BY <1>2, BeginProcessingOrderNumberStep, EnsureReleasedStep, RunCallbackStep,
       FenceSyncReleaseStep, WaitFenceSyncStep, WaitStep, WaitReturnsStep,
       LoseContextStep, FinishProcessingOrderNumberStep, ReleaseAllStep,
       DestroySyncPointClientStep, DestroyOrderDataStep, FinishTaskStep
    DEF GpuNext
  <1>3. ASSUME UNCHANGED vars PROVE IInv'
    BY <1>3 DEF vars, client_vars, order_vars, IInv, TypeOK, ClientThreadsTyped,
       GpuThreadsTyped, SyncPointsTyped, ThreadsBusy, Ready, Current,
       OrderNumbersGrow, OrderFencesInRange, CallbacksGuarded, FencesToRelease
  <1> QED
    BY <1>1, <1>2, <1>3 DEF Next

\* The strengthened invariant holds in every reachable state, for any number of
\* command buffers and GPU threads, however they are shared out.
THEOREM IInvHolds == Spec => []IInv
  BY InitIInv, StepIInv, PTL DEF Spec

\* Every variable keeps its type.
THEOREM TypeCorrect == Spec => []TypeOK
  <1>1. IInv => TypeOK
    BY DEF IInv
  <1> QED
    BY <1>1, IInvHolds, PTL

\* The order fences of SyncPointOrderData stay between the last processed and
\* the last unprocessed order number, as sync_point_manager.h demands.
THEOREM OrderFencesStayInRange == Spec => []OrderFencesInRange
  <1>1. IInv => OrderFencesInRange
    BY DEF IInv
  <1> QED
    BY <1>1, IInvHolds, PTL

\* No callback is ever left in a release_callback_queue_ without an order fence
\* that will call it: the basis of the promise that each wait completes.
THEOREM CallbacksStayGuarded == Spec => []CallbacksGuarded
  <1>1. IInv => CallbacksGuarded
    BY DEF IInv
  <1> QED
    BY <1>1, IInvHolds, PTL
=============================================================================
