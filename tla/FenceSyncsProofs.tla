---------------------------- MODULE FenceSyncsProofs ----------------------------
(***************************************************************************)
(* SyncPointManager implements FenceSyncs, for any clients, threads and     *)
(* bounds.  The invariant RInv is proved in layers: the order of flushes    *)
(* (FlushOrder), the releases that come before the waits for them          *)
(* (ReleasesComeFirst, and from it NeverForced) and the callbacks          *)
(* (CalledBackInTime), each with the help of the ones before.              *)
(***************************************************************************)
EXTENDS SyncPointManagerProofs

-----------------------------------------------------------------------------
(* Task queues.                                                            *)

\* A queued flush is one of the flushes.
LEMMA InFlushes ==
  ASSUME NEW th \in Thread, NEW s, IsTaskQueue(s, th), NEW i \in DOMAIN s,
         s[i].order_num > 0
  PROVE  [order_num |-> s[i].order_num, release |-> s[i].release]
           \in FlushesIn(s, s[i].client)
  <1>1. s[i] \in GpuTask
    BY DEF IsTaskQueue
  <1> QED
    BY <1>1 DEF FlushesIn, GpuTask

\* Queued tasks have their types.
LEMMA QueueTyped ==
  ASSUME NEW th \in Thread, NEW s, IsTaskQueue(s, th)
  PROVE  \A i \in DOMAIN s : s[i] \in GpuTask /\ s[i].order_num \in Nat
  <1>1. \A i \in DOMAIN s : s[i] \in GpuTask
    BY DEF IsTaskQueue
  <1>2. \A t \in GpuTask : t.order_num \in Nat
    BY SyncPointAssumption DEF GpuTask, OrderNumber
  <1> QED
    BY <1>1, <1>2

\* A queue stays sorted if the new task comes after the others of its client.
LEMMA SortedAppend ==
  ASSUME NEW th \in Thread, NEW s, IsTaskQueue(s, th), IsSorted(s),
         NEW t \in GpuTask,
         \A i \in DOMAIN s : s[i].client = t.client => s[i].order_num > 0,
         t.order_num > 0 =>
           \A u \in FlushesIn(s, t.client) : u.order_num < t.order_num
  PROVE  IsSorted(Append(s, t))
  <1> DEFINE r == Append(s, t)
  <1>1. s \in Seq(GpuTask)
    BY DEF IsTaskQueue
  <1> SUFFICES ASSUME NEW i \in DOMAIN r, NEW j \in DOMAIN r, i < j,
                      r[i].client = r[j].client
               PROVE  /\ r[i].order_num > 0
                      /\ r[j].order_num > 0 => r[i].order_num < r[j].order_num
    BY DEF IsSorted
  <1>2. /\ i \in DOMAIN s /\ r[i] = s[i]
        /\ j \in DOMAIN s => r[j] = s[j]
        /\ j \notin DOMAIN s => r[j] = t
    BY <1>1
  <1>3. CASE j \in DOMAIN s
    BY <1>2, <1>3 DEF IsSorted
  <1>4. CASE j \notin DOMAIN s
    <2>1. r[i].order_num > 0
      BY <1>2, <1>4
    <2>2. [order_num |-> s[i].order_num, release |-> s[i].release]
            \in FlushesIn(s, t.client)
      BY <1>2, <1>4, <2>1, InFlushes
    <2> QED
      BY <1>2, <1>4, <2>1, <2>2
  <1> QED
    BY <1>3, <1>4

LEMMA FlushesAppend ==
  ASSUME NEW th \in Thread, NEW s, IsTaskQueue(s, th), NEW t \in GpuTask,
         NEW c \in Client
  PROVE  /\ FlushesIn(s, c) \subseteq FlushesIn(Append(s, t), c)
         /\ \A u \in FlushesIn(Append(s, t), c) :
              \/ u \in FlushesIn(s, c)
              \/ /\ t.client = c
                 /\ u.order_num = t.order_num
                 /\ u.release = t.release
         /\ t.order_num > 0 =>
              [order_num |-> t.order_num, release |-> t.release]
                \in FlushesIn(Append(s, t), t.client)
  <1> DEFINE r == Append(s, t)
  <1>1. s \in Seq(GpuTask)
    BY DEF IsTaskQueue
  <1>2. /\ \A i \in DOMAIN s : i \in DOMAIN r /\ r[i] = s[i]
        /\ \A i \in DOMAIN r : i \in DOMAIN s \/ r[i] = t
        /\ \E i \in DOMAIN r : r[i] = t
    <2>1. DOMAIN s = 1 .. Len(s) /\ DOMAIN r = 1 .. Len(s) + 1
          /\ r[Len(s) + 1] = t /\ Len(s) + 1 \in DOMAIN r
      BY <1>1
    <2> QED
      BY <1>1, <2>1
  <1>3. FlushesIn(s, c) \subseteq FlushesIn(r, c)
    BY <1>2 DEF FlushesIn
  <1>4. \A u \in FlushesIn(r, c) :
          \/ u \in FlushesIn(s, c)
          \/ t.client = c /\ u.order_num = t.order_num /\ u.release = t.release
    BY <1>2 DEF FlushesIn
  <1>5. t.order_num > 0 => [order_num |-> t.order_num, release |-> t.release]
                             \in FlushesIn(r, t.client)
    BY <1>2 DEF FlushesIn, GpuTask
  <1> QED
    BY <1>3, <1>4, <1>5

\* Waiting changes no flush.
LEMMA SortedWaited ==
  ASSUME NEW th \in Thread, NEW s, IsTaskQueue(s, th), s # <<>>, NEW c \in Client
  PROVE  LET r == [s EXCEPT ![1].wait = NoWait]
         IN /\ IsSorted(s) => IsSorted(r)
            /\ FlushesIn(r, c) = FlushesIn(s, c)
            /\ DOMAIN r = DOMAIN s
            /\ \A i \in DOMAIN s : /\ r[i].client = s[i].client
                                   /\ r[i].order_num = s[i].order_num
                                   /\ r[i].release = s[i].release
                                   /\ r[i].wait = IF i = 1 THEN NoWait ELSE s[i].wait
            /\ Head(r) = r[1] /\ Head(s) = s[1] /\ 1 \in DOMAIN s
  <1> DEFINE r == [s EXCEPT ![1].wait = NoWait]
  <1>1. s \in Seq(GpuTask) /\ 1 \in DOMAIN s /\ DOMAIN r = DOMAIN s
    BY DEF IsTaskQueue
  <1>2. \A i \in DOMAIN s : s[i] \in GpuTask
    BY <1>1
  <1>3. \A i \in DOMAIN s : /\ r[i].client = s[i].client
                            /\ r[i].order_num = s[i].order_num
                            /\ r[i].release = s[i].release
                            /\ r[i].wait = IF i = 1 THEN NoWait ELSE s[i].wait
    BY <1>1, <1>2 DEF GpuTask
  <1>4. IsSorted(s) => IsSorted(r)
    BY <1>1, <1>3 DEF IsSorted
  <1>5. FlushesIn(r, c) = FlushesIn(s, c)
    BY <1>1, <1>3 DEF FlushesIn
  <1>6. r \in Seq(GpuTask) /\ r # <<>>
    BY QueueWaited DEF IsTaskQueue
  <1>7. Head(r) = r[1] /\ Head(s) = s[1]
    BY <1>1, <1>6
  <1> QED
    BY <1>1, <1>3, <1>4, <1>5, <1>7

\* The first task has the smallest number of its client, and only it goes.
LEMMA SortedTail ==
  ASSUME NEW th \in Thread, NEW s, IsTaskQueue(s, th), s # <<>>, IsSorted(s),
         NEW c \in Client
  PROVE  /\ IsSorted(Tail(s))
         /\ FlushesIn(Tail(s), c) \subseteq FlushesIn(s, c)
         /\ \A u \in FlushesIn(s, c) :
              \/ u \in FlushesIn(Tail(s), c)
              \/ /\ c = Head(s).client
                 /\ u.order_num = Head(s).order_num
                 /\ u.release = Head(s).release
         /\ \A i \in DOMAIN Tail(s) : i + 1 \in DOMAIN s /\ Tail(s)[i] = s[i + 1]
  <1> DEFINE r == Tail(s)
  <1>1. s \in Seq(GpuTask) /\ Len(s) > 0 /\ Head(s) = s[1]
    BY DEF IsTaskQueue
  <1>2. /\ DOMAIN s = 1 .. Len(s) /\ DOMAIN r = 1 .. Len(s) - 1
        /\ \A i \in DOMAIN r : i + 1 \in DOMAIN s /\ r[i] = s[i + 1]
        /\ \A i \in DOMAIN s : i = 1 \/ (i - 1 \in DOMAIN r /\ s[i] = r[i - 1])
    <2>1. DOMAIN s = 1 .. Len(s) /\ DOMAIN r = 1 .. Len(s) - 1 /\ Len(s) \in Nat
      BY <1>1
    <2>2. \A i \in 1 .. Len(s) - 1 : r[i] = s[i + 1]
      BY <1>1
    <2>3. \A i \in 2 .. Len(s) : i - 1 \in 1 .. Len(s) - 1 /\ (i - 1) + 1 = i
      BY <2>1
    <2> QED
      BY <2>1, <2>2, <2>3
  <1>3. IsSorted(r)
    BY <1>2 DEF IsSorted
  <1>4. FlushesIn(r, c) \subseteq FlushesIn(s, c)
    BY <1>2 DEF FlushesIn
  <1>5. \A u \in FlushesIn(s, c) :
          \/ u \in FlushesIn(r, c)
          \/ c = Head(s).client /\ u.order_num = Head(s).order_num
             /\ u.release = Head(s).release
    BY <1>1, <1>2 DEF FlushesIn
  <1> QED
    BY <1>2, <1>3, <1>4, <1>5

LEMMA HeadFirst ==
  ASSUME NEW th \in Thread, NEW s, IsTaskQueue(s, th), s # <<>>, IsSorted(s)
  PROVE  /\ \A u \in FlushesIn(s, Head(s).client) :
              \/ u.order_num > Head(s).order_num
              \/ u.order_num = Head(s).order_num /\ u.release = Head(s).release
         /\ \A u \in FlushesIn(Tail(s), Head(s).client) :
              u.order_num > Head(s).order_num
         /\ Head(s).order_num = 0 => FlushesIn(s, Head(s).client) = {}
  <1>1. /\ s \in Seq(GpuTask) /\ Head(s) = s[1] /\ DOMAIN s = 1 .. Len(s)
        /\ 1 \in DOMAIN s
    BY DEF IsTaskQueue
  <1>2. \A i \in DOMAIN s : i # 1 /\ s[i].client = s[1].client =>
          /\ s[1].order_num > 0
          /\ s[i].order_num > 0 => s[1].order_num < s[i].order_num
    BY <1>1 DEF IsSorted
  <1>3. s[1].order_num \in Nat
    <2>1. s[1] \in GpuTask
      BY <1>1
    <2> QED
      BY <2>1, SyncPointAssumption DEF GpuTask, OrderNumber
  <1>4. \A u \in FlushesIn(s, s[1].client) :
          \/ u.order_num > s[1].order_num
          \/ u.order_num = s[1].order_num /\ u.release = s[1].release
    BY <1>2, <1>3 DEF FlushesIn, OrderNumber
  <1>5. \A i \in DOMAIN Tail(s) : i + 1 \in DOMAIN s /\ i + 1 # 1 /\ Tail(s)[i] = s[i + 1]
    BY <1>1
  <1>6. \A u \in FlushesIn(Tail(s), s[1].client) : u.order_num > s[1].order_num
    BY <1>2, <1>3, <1>5 DEF FlushesIn, OrderNumber
  <1>7. s[1].order_num = 0 => FlushesIn(s, s[1].client) = {}
    BY <1>2, <1>3 DEF FlushesIn, OrderNumber
  <1> QED
    BY <1>1, <1>4, <1>6, <1>7

-----------------------------------------------------------------------------
(* The order of flushes.                                                   *)

\* A client stays in order when only flushes leave its thread's queue.
LEMMA ClientKept ==
  ASSUME NEW d \in Client, ClientInOrder(d),
         /\ client_pc'[d] = client_pc[d]
         /\ flush'[d] = flush[d]
         /\ next_fence_sync_release'[d] = next_fence_sync_release[d]
         /\ processed_order_num'[d] = processed_order_num[d]
         /\ unprocessed_order_num'[d] = unprocessed_order_num[d]
         /\ destroyed'[d] = destroyed[d],
         fence_sync_release'[d] = UINT64_MAX => fence_sync_release[d] = UINT64_MAX,
         fence_sync_release[d] = UINT64_MAX => fence_sync_release'[d] = UINT64_MAX,
         Flushes(d)' \subseteq Flushes(d),
         DestroyQueued(d)' => DestroyQueued(d),
         \A u \in Flushes(d)' :
           Finishing(d, u.order_num) => Finishing(d, u.order_num)'
  PROVE  ClientInOrder(d)'
  BY DEF ClientInOrder, Flushing

\* A thread stays in order when it does nothing.
LEMMA ThreadKept ==
  ASSUME NEW x \in Thread, ThreadInOrder(x),
         tasks'[x] = tasks[x], pc'[x] = pc[x],
         pc[x] # "idle" => current_order_num'[Current(x).client] =
                             current_order_num[Current(x).client]
  PROVE  ThreadInOrder(x)'
  BY DEF ThreadInOrder, Current

\* The clients stay in order when no queue changes and no thread leaves a
\* finished flush.
LEMMA QueuesKept ==
  ASSUME FlushOrder,
         UNCHANGED <<client_vars, tasks, processed_order_num,
                     unprocessed_order_num, destroyed>>,
         \A x \in Thread : pc[x] = "finish" => pc'[x] = "finish",
         \A d \in Client : /\ fence_sync_release'[d] = UINT64_MAX =>
                                fence_sync_release[d] = UINT64_MAX
                           /\ fence_sync_release[d] = UINT64_MAX =>
                                fence_sync_release'[d] = UINT64_MAX
  PROVE  \A d \in Client : ClientInOrder(d)'
  <1> SUFFICES ASSUME NEW d \in Client PROVE ClientInOrder(d)'
    OBVIOUS
  <1>1. ThreadOf[d] \in Thread
    BY SyncPointAssumption
  <1>2. Flushes(d)' = Flushes(d) /\ (DestroyQueued(d)' => DestroyQueued(d))
    BY DEF Flushes, DestroyQueued
  <1>3. \A n : Finishing(d, n) => Finishing(d, n)'
    BY <1>1 DEF Finishing, Current
  <1>4. ClientInOrder(d)
    BY DEF FlushOrder
  <1> QED
    BY <1>2, <1>3, <1>4, ClientKept DEF client_vars

\* The flush that a thread runs is queued, so that its client is not destroyed.
LEMMA RunningFlush ==
  ASSUME IInv, FlushOrder, NEW th \in Thread,
         pc[th] \in {"run", "found", "waiting"}
  PROVE  /\ Current(th).order_num > 0
         /\ current_order_num[Current(th).client] = Current(th).order_num
         /\ [order_num |-> Current(th).order_num, release |-> Current(th).release]
              \in Flushes(Current(th).client)
         /\ fence_sync_release[Current(th).client] # UINT64_MAX
         /\ ~destroyed[Current(th).client]
  <1> DEFINE c == Current(th).client
  <1>1. /\ tasks[th] # <<>> /\ c \in Client /\ ThreadOf[c] = th
        /\ IsTaskQueue(tasks[th], th)
    BY Running DEF IInv, TypeOK, GpuThreadsTyped
  <1>2. Current(th).order_num > 0 /\ current_order_num[c] = Current(th).order_num
    BY DEF FlushOrder, ThreadInOrder
  <1>3. Current(th) = tasks[th][1] /\ 1 \in DOMAIN tasks[th]
    BY <1>1, QueueHead DEF Current
  <1>4. [order_num |-> Current(th).order_num, release |-> Current(th).release]
          \in Flushes(c)
    BY <1>1, <1>2, <1>3, InFlushes DEF Flushes
  <1>5. ClientInOrder(c)
    BY <1>1 DEF FlushOrder
  <1> QED
    BY <1>2, <1>4, <1>5 DEF ClientInOrder

\* What queueing t does to the flushes and to the tasks that run.
LEMMA QueuedTask ==
  ASSUME IInv, NEW c \in Client, NEW t \in GpuTask, t.client = c,
         tasks' = [tasks EXCEPT ![Service(c)] = Append(@, t)], pc' = pc
  PROVE  /\ \A x \in Thread : /\ IsTaskQueue(tasks[x], x)
                              /\ x # ThreadOf[c] => tasks'[x] = tasks[x]
                              /\ pc[x] # "idle" => Current(x)' = Current(x)
         /\ ThreadOf[c] \in Thread
         /\ tasks'[ThreadOf[c]] = Append(tasks[ThreadOf[c]], t)
         /\ \A d \in Client :
              /\ Flushes(d) \subseteq Flushes(d)'
              /\ d # c => Flushes(d)' = Flushes(d)
              /\ d # c => (DestroyQueued(d)' => DestroyQueued(d))
              /\ \A n : Finishing(d, n) => Finishing(d, n)'
         /\ \A u \in Flushes(c)' :
              \/ u \in Flushes(c)
              \/ t.order_num > 0 /\ u.order_num = t.order_num /\ u.release = t.release
         /\ t.order_num > 0 =>
              /\ [order_num |-> t.order_num, release |-> t.release] \in Flushes(c)'
              /\ DestroyQueued(c)' => DestroyQueued(c)
  <1>1. /\ ThreadOf[c] \in Thread /\ DOMAIN tasks = Thread
        /\ \A x \in Thread : IsTaskQueue(tasks[x], x)
    BY SyncPointAssumption DEF IInv, TypeOK, GpuThreadsTyped
  <1>2. /\ tasks'[ThreadOf[c]] = Append(tasks[ThreadOf[c]], t)
        /\ \A x \in Thread : x # ThreadOf[c] => tasks'[x] = tasks[x]
    BY <1>1 DEF Service
  <1>3. ASSUME NEW x \in Thread, pc[x] # "idle"
        PROVE  Current(x)' = Current(x)
    <2>1. tasks[x] # <<>>
      BY <1>3 DEF IInv, ThreadsBusy
    <2> QED
      BY <1>1, <1>2, <2>1, QueueAppend DEF Current
  <1>4. ASSUME NEW d \in Client, NEW n, Finishing(d, n) PROVE Finishing(d, n)'
    <2>1. ThreadOf[d] \in Thread
      BY SyncPointAssumption
    <2> QED
      BY <1>3, <1>4, <2>1 DEF Finishing
  <1>5. ASSUME NEW d \in Client
        PROVE  /\ Flushes(d) \subseteq Flushes(d)'
               /\ \A u \in Flushes(d)' :
                    \/ u \in Flushes(d)
                    \/ /\ t.client = d
                       /\ u.order_num = t.order_num
                       /\ u.release = t.release
    <2>1. CASE ThreadOf[d] # ThreadOf[c]
      <3>1. ThreadOf[d] \in Thread
        BY SyncPointAssumption
      <3> QED
        BY <1>2, <2>1, <3>1 DEF Flushes
    <2>2. CASE ThreadOf[d] = ThreadOf[c]
      <3> DEFINE q == tasks[ThreadOf[c]]
      <3>1. Flushes(d) = FlushesIn(q, d) /\ Flushes(d)' = FlushesIn(Append(q, t), d)
        BY <1>2, <2>2 DEF Flushes
      <3>2. IsTaskQueue(q, ThreadOf[c]) /\ ThreadOf[c] \in Thread
        BY <1>1
      <3>3. /\ FlushesIn(q, d) \subseteq FlushesIn(Append(q, t), d)
            /\ \A u \in FlushesIn(Append(q, t), d) :
                 \/ u \in FlushesIn(q, d)
                 \/ /\ t.client = d
                    /\ u.order_num = t.order_num
                    /\ u.release = t.release
        <4> HIDE DEF q
        <4> QED
          BY <3>2, FlushesAppend, Zenon
      <3> QED
        BY <3>1, <3>3
    <2> QED
      BY <2>1, <2>2
  <1>6. \A u \in Flushes(c)' : u.order_num > 0
    BY DEF Flushes, FlushesIn
  <1>7. t.order_num > 0 =>
          [order_num |-> t.order_num, release |-> t.release] \in Flushes(c)'
    BY <1>1, <1>2, FlushesAppend DEF Flushes
  <1>8. ASSUME NEW d \in Client, d # c \/ t.order_num > 0, DestroyQueued(d)'
        PROVE  DestroyQueued(d)
    <2> DEFINE x == ThreadOf[d]
    <2>1. x \in Thread
      BY SyncPointAssumption
    <2>2. PICK i \in DOMAIN tasks'[x] : /\ tasks'[x][i].client = d
                                        /\ tasks'[x][i].order_num = 0
      BY <1>8 DEF DestroyQueued
    <2>3. CASE x # ThreadOf[c]
      BY <1>2, <2>1, <2>2, <2>3 DEF DestroyQueued
    <2>4. CASE x = ThreadOf[c]
      <3>1. tasks[x] \in Seq(GpuTask) /\ tasks'[x] = Append(tasks[x], t)
        BY <1>1, <1>2, <2>4 DEF IsTaskQueue
      <3>2. (i \in DOMAIN tasks[x] /\ tasks'[x][i] = tasks[x][i]) \/ tasks'[x][i] = t
        BY <2>2, <3>1
      <3> QED
        BY <1>8, <2>2, <3>2 DEF DestroyQueued
    <2> QED
      BY <2>3, <2>4
  <1>9. \A d \in Client : d # c => Flushes(d)' = Flushes(d)
    BY <1>5
  <1>10. \A u \in Flushes(c)' :
           \/ u \in Flushes(c)
           \/ t.order_num > 0 /\ u.order_num = t.order_num /\ u.release = t.release
    BY <1>5, <1>6
  <1> QED
    BY <1>1, <1>2, <1>3, <1>4, <1>5, <1>7, <1>8, <1>9, <1>10

LEMMA FlushInOrder ==
  ASSUME IInv, FlushOrder, NEW c \in Client, Flush(c) PROVE FlushOrder'
  <1> USE SyncPointAssumption
  <1>1. /\ client_pc[c] = "idle" /\ client_pc'[c] = "numbered"
        /\ flush'[c].order_num = global_order_num
        /\ flush'[c].release = next_fence_sync_release'[c] - 1
        /\ \A d \in Client \ {c} :
             /\ client_pc'[d] = client_pc[d] /\ flush'[d] = flush[d]
             /\ next_fence_sync_release'[d] = next_fence_sync_release[d]
        /\ UNCHANGED <<order_vars, tasks, pc, fence_sync_release>>
    <2>1. PICK release \in next_fence_sync_release[c] - 1 .. MaxRelease,
               wait \in FlushedTokens \cup {NoWait} :
            /\ flush' = [flush EXCEPT ![c] =
                           [client |-> c, order_num |-> global_order_num,
                            release |-> release, wait |-> wait]]
            /\ next_fence_sync_release' =
                 [next_fence_sync_release EXCEPT ![c] = release + 1]
      BY DEF Flush
    <2>2. release \in Int
      BY DEF IInv, TypeOK, ClientThreadsTyped
    <2> QED
      BY <2>1, <2>2 DEF Flush, IInv, TypeOK, ClientThreadsTyped
  <1>2. ASSUME NEW x \in Thread PROVE ThreadInOrder(x)'
    BY <1>1, ThreadKept DEF FlushOrder, order_vars
  <1>3. \A d \in Client : /\ Flushes(d)' = Flushes(d)
                          /\ DestroyQueued(d)' => DestroyQueued(d)
                          /\ \A n : Finishing(d, n) => Finishing(d, n)'
    BY <1>1 DEF Flushes, DestroyQueued, Finishing, Current
  <1>4. ASSUME NEW d \in Client \ {c} PROVE ClientInOrder(d)'
    BY <1>1, <1>3, ClientKept DEF FlushOrder, order_vars
  <1>5. ClientInOrder(c)'
    <2>1. ClientInOrder(c)
      BY DEF FlushOrder
    <2>2. /\ processed_order_num[c] \in Nat /\ unprocessed_order_num[c] \in Nat
          /\ global_order_num \in Nat /\ unprocessed_order_num[c] < global_order_num
      BY DEF IInv, TypeOK, SyncPointsTyped, ClientThreadsTyped, OrderNumber,
         OrderNumbersGrow
    <2> QED
      BY <1>1, <1>3, <2>1, <2>2 DEF ClientInOrder, Flushing, order_vars
  <1> QED
    BY <1>2, <1>4, <1>5 DEF FlushOrder

LEMMA SetUnprocessedOrderNumberInOrder ==
  ASSUME IInv, FlushOrder, NEW c \in Client, SetUnprocessedOrderNumber(c)
  PROVE  FlushOrder'
  <1> USE SyncPointAssumption
  <1>1. /\ client_pc[c] = "numbered" /\ client_pc'[c] = "unprocessed"
        /\ unprocessed_order_num'[c] = flush[c].order_num
        /\ \A d \in Client \ {c} :
             /\ client_pc'[d] = client_pc[d]
             /\ unprocessed_order_num'[d] = unprocessed_order_num[d]
        /\ UNCHANGED <<flush, next_fence_sync_release, current_order_num,
                       processed_order_num, destroyed, tasks, pc,
                       fence_sync_release>>
    BY DEF SetUnprocessedOrderNumber, IInv, TypeOK, ClientThreadsTyped,
       SyncPointsTyped
  <1>2. ASSUME NEW x \in Thread PROVE ThreadInOrder(x)'
    BY <1>1, ThreadKept DEF FlushOrder
  <1>3. \A d \in Client : /\ Flushes(d)' = Flushes(d)
                          /\ DestroyQueued(d)' => DestroyQueued(d)
                          /\ \A n : Finishing(d, n) => Finishing(d, n)'
    BY <1>1 DEF Flushes, DestroyQueued, Finishing, Current
  <1>4. ASSUME NEW d \in Client \ {c} PROVE ClientInOrder(d)'
    BY <1>1, <1>3, ClientKept DEF FlushOrder
  <1>5. ClientInOrder(c)'
    <2>1. ClientInOrder(c)
      BY DEF FlushOrder
    <2>2. /\ processed_order_num[c] \in Nat /\ unprocessed_order_num[c] \in Nat
          /\ flush[c].order_num \in Nat
          /\ unprocessed_order_num[c] < flush[c].order_num
      BY <1>1 DEF IInv, TypeOK, SyncPointsTyped, ClientThreadsTyped, OrderNumber,
         OrderNumbersGrow, GpuTask
    <2>3. \A u \in Flushes(c) : u.order_num \in Nat
      BY DEF Flushes, FlushesIn, OrderNumber
    <2> QED
      BY <1>1, <1>3, <2>1, <2>2, <2>3 DEF ClientInOrder, Flushing
  <1> QED
    BY <1>2, <1>4, <1>5 DEF FlushOrder

LEMMA QueueFlushInOrder ==
  ASSUME IInv, FlushOrder, NEW c \in Client, QueueFlush(c) PROVE FlushOrder'
  <1> USE SyncPointAssumption
  <1> DEFINE t == flush[c]
             th == ThreadOf[c]
  <1>1. /\ client_pc[c] = "unprocessed" /\ client_pc'[c] = "idle"
        /\ \A d \in Client \ {c} : client_pc'[d] = client_pc[d]
        /\ tasks' = [tasks EXCEPT ![Service(c)] = Append(@, t)]
        /\ UNCHANGED <<flush, next_fence_sync_release, order_vars, pc,
                       fence_sync_release>>
        /\ t \in GpuTask /\ t.client = c
    BY DEF QueueFlush, IInv, TypeOK, ClientThreadsTyped
  <1>2. ClientInOrder(c)
    BY DEF FlushOrder
  <1>3. /\ processed_order_num[c] \in Nat /\ t.order_num \in Nat
        /\ t.order_num > processed_order_num[c] /\ t.order_num > 0
        /\ unprocessed_order_num[c] = t.order_num
    BY <1>1, <1>2 DEF IInv, TypeOK, SyncPointsTyped, OrderNumber, GpuTask,
       ClientInOrder, Flushing
  <1>4. /\ \A x \in Thread : /\ x # th => tasks'[x] = tasks[x]
                             /\ pc[x] # "idle" => Current(x)' = Current(x)
        /\ th \in Thread /\ tasks'[th] = Append(tasks[th], t)
        /\ IsTaskQueue(tasks[th], th)
        /\ \A d \in Client : /\ d # c => Flushes(d)' = Flushes(d)
                             /\ DestroyQueued(d)' => DestroyQueued(d)
                             /\ \A n : Finishing(d, n) => Finishing(d, n)'
        /\ \A u \in Flushes(c)' : u \in Flushes(c) \/ u.order_num = t.order_num
    BY <1>1, <1>3, QueuedTask
  <1>5. ASSUME NEW x \in Thread PROVE ThreadInOrder(x)'
    <2>1. ThreadInOrder(x)
      BY DEF FlushOrder
    <2>2. IsSorted(tasks'[x])
      <3>1. CASE x # th
        BY <1>4, <2>1, <3>1 DEF ThreadInOrder
      <3>2. CASE x = th
        <4>1. \A i \in DOMAIN tasks[th] :
                tasks[th][i].client = c => tasks[th][i].order_num > 0
          <5>1. ~DestroyQueued(c)
            BY <1>1, <1>2 DEF ClientInOrder
          <5>2. \A i \in DOMAIN tasks[th] : tasks[th][i].order_num \in Nat
            BY <1>4, QueueTyped
          <5> QED
            BY <5>1, <5>2 DEF DestroyQueued
        <4>2. \A u \in FlushesIn(tasks[th], c) : u.order_num < t.order_num
          BY <1>1, <1>2 DEF ClientInOrder, Flushes
        <4> QED
          BY <1>1, <1>4, <2>1, <3>2, <4>1, <4>2, SortedAppend DEF ThreadInOrder
      <3> QED
        BY <3>1, <3>2
    <2> QED
      BY <1>1, <1>4, <2>1, <2>2 DEF ThreadInOrder, order_vars
  <1>6. ASSUME NEW d \in Client \ {c} PROVE ClientInOrder(d)'
    BY <1>1, <1>4, ClientKept DEF FlushOrder, order_vars
  <1>7. ClientInOrder(c)'
    BY <1>1, <1>2, <1>3, <1>4 DEF ClientInOrder, Flushing, order_vars
  <1> QED
    BY <1>5, <1>6, <1>7 DEF FlushOrder

LEMMA DestroyInOrder ==
  ASSUME IInv, FlushOrder, NEW c \in Client, Destroy(c) PROVE FlushOrder'
  <1> USE SyncPointAssumption
  <1> DEFINE t == DestroyTask(c)
             th == ThreadOf[c]
  <1>1. /\ client_pc[c] = "idle" /\ client_pc'[c] = "destroying"
        /\ \A d \in Client \ {c} : client_pc'[d] = client_pc[d]
        /\ tasks' = [tasks EXCEPT ![Service(c)] = Append(@, t)]
        /\ UNCHANGED <<flush, next_fence_sync_release, order_vars, pc,
                       fence_sync_release>>
    BY DEF Destroy, IInv, TypeOK, ClientThreadsTyped
  <1>2. t \in GpuTask /\ t.client = c /\ t.order_num = 0 /\ ~(t.order_num > 0)
    BY DEF DestroyTask, GpuTask, OrderNumber
  <1>3. ClientInOrder(c)
    BY DEF FlushOrder
  <1> HIDE DEF t
  <1>4. /\ \A x \in Thread : /\ x # th => tasks'[x] = tasks[x]
                             /\ pc[x] # "idle" => Current(x)' = Current(x)
        /\ th \in Thread /\ tasks'[th] = Append(tasks[th], t)
        /\ IsTaskQueue(tasks[th], th)
        /\ \A d \in Client : /\ d # c => Flushes(d)' = Flushes(d)
                             /\ d # c => (DestroyQueued(d)' => DestroyQueued(d))
                             /\ \A n : Finishing(d, n) => Finishing(d, n)'
        /\ \A u \in Flushes(c)' : u \in Flushes(c) \/ t.order_num > 0
    BY <1>1, <1>2, QueuedTask
  <1>5. ASSUME NEW x \in Thread PROVE ThreadInOrder(x)'
    <2>1. ThreadInOrder(x)
      BY DEF FlushOrder
    <2>2. IsSorted(tasks'[x])
      <3>1. CASE x # th
        BY <1>4, <2>1, <3>1 DEF ThreadInOrder
      <3>2. CASE x = th
        <4>1. \A i \in DOMAIN tasks[th] :
                tasks[th][i].client = c => tasks[th][i].order_num > 0
          <5>1. ~DestroyQueued(c)
            BY <1>1, <1>3 DEF ClientInOrder
          <5>2. \A i \in DOMAIN tasks[th] : tasks[th][i].order_num \in Nat
            BY <1>4, QueueTyped
          <5> QED
            BY <5>1, <5>2 DEF DestroyQueued
        <4> QED
          BY <1>2, <1>4, <2>1, <3>2, <4>1, SortedAppend DEF ThreadInOrder
      <3> QED
        BY <3>1, <3>2
    <2> QED
      BY <1>1, <1>4, <2>1, <2>2 DEF ThreadInOrder, order_vars
  <1>6. ASSUME NEW d \in Client \ {c} PROVE ClientInOrder(d)'
    BY <1>1, <1>4, ClientKept DEF FlushOrder, order_vars
  <1>7. ClientInOrder(c)'
    BY <1>1, <1>2, <1>3, <1>4 DEF ClientInOrder, Flushing, order_vars
  <1> QED
    BY <1>5, <1>6, <1>7 DEF FlushOrder

\* The other threads serve other clients.
LEMMA OthersInOrder ==
  ASSUME IInv, FlushOrder, NEW th \in Thread, pc[th] # "idle" \/ tasks[th] # <<>>,
         \A x \in Thread \ {th} : tasks'[x] = tasks[x] /\ pc'[x] = pc[x],
         \A d \in Client \ {Current(th).client} :
           current_order_num'[d] = current_order_num[d]
  PROVE  \A x \in Thread \ {th} : ThreadInOrder(x)'
  <1> SUFFICES ASSUME NEW x \in Thread \ {th} PROVE ThreadInOrder(x)'
    OBVIOUS
  <1>1. pc[x] # "idle" => Current(x).client \in Client \ {Current(th).client}
    BY Running DEF IInv
  <1>2. ThreadInOrder(x)
    BY DEF FlushOrder
  <1> QED
    BY <1>1, <1>2, ThreadKept

LEMMA BeginProcessingOrderNumberInOrder ==
  ASSUME IInv, FlushOrder, NEW th \in Thread, BeginProcessingOrderNumber(th)
  PROVE  FlushOrder'
  <1> DEFINE c == Current(th).client
  <1>1. /\ pc[th] = "idle" /\ pc'[th] = "run" /\ tasks[th] # <<>>
        /\ Current(th).order_num > 0
        /\ current_order_num'[c] = Current(th).order_num
        /\ c \in Client /\ tasks' = tasks
        /\ \A x \in Thread \ {th} : pc'[x] = pc[x]
        /\ \A d \in Client \ {c} : current_order_num'[d] = current_order_num[d]
    BY Running DEF BeginProcessingOrderNumber, IInv, TypeOK, GpuThreadsTyped,
       SyncPointsTyped
  <1>2. \A x \in Thread \ {th} : ThreadInOrder(x)'
    BY <1>1, OthersInOrder
  <1>3. ThreadInOrder(th)'
    BY <1>1 DEF FlushOrder, ThreadInOrder, Current
  <1>4. \A d \in Client : ClientInOrder(d)'
    <2>1. UNCHANGED <<client_vars, tasks, processed_order_num,
                      unprocessed_order_num, destroyed, fence_sync_release>>
      BY DEF BeginProcessingOrderNumber
    <2>2. \A x \in Thread : pc[x] = "finish" => pc'[x] = "finish"
      BY <1>1
    <2> QED
      BY <2>1, <2>2, QueuesKept
  <1> QED
    BY <1>2, <1>3, <1>4 DEF FlushOrder

\* Only the destruction of a client raises its release to the last value.
LEMMA EnsureReleasedGone ==
  ASSUME IInv, NEW th \in Thread, EnsureReleased(th), NEW d \in Client
  PROVE  /\ fence_sync_release'[d] = UINT64_MAX => fence_sync_release[d] = UINT64_MAX
         /\ fence_sync_release[d] = UINT64_MAX => fence_sync_release'[d] = UINT64_MAX
  <1> DEFINE c == Current(th).client
  <1>1. PICK f \in ensure_releases[th] :
          IF f.release =< fence_sync_release[c]
            THEN UNCHANGED fence_sync_release
            ELSE ReleaseFenceSyncLocked(th, c, f.release)
    BY DEF EnsureReleased
  <1>2. f.release \in 1 .. MaxRelease
    BY DEF IInv, TypeOK, GpuThreadsTyped, OrderFence
  <1>3. CASE f.release =< fence_sync_release[c]
    BY <1>1, <1>3
  <1>4. CASE ~(f.release =< fence_sync_release[c])
    <2>1. c \in Client
      BY Running DEF IInv, ThreadsBusy, Ready
    <2>2. fence_sync_release[c] # UINT64_MAX /\ f.release # UINT64_MAX
      BY <1>2, <1>4, SyncPointAssumption DEF UINT64_MAX
    <2>3. /\ fence_sync_release'[c] = f.release
          /\ \A x \in Client \ {c} : fence_sync_release'[x] = fence_sync_release[x]
      BY <1>1, <1>4, <2>1 DEF ReleaseFenceSyncLocked, IInv, TypeOK, SyncPointsTyped
    <2> QED
      BY <2>2, <2>3
  <1> QED
    BY <1>3, <1>4

LEMMA EnsureReleasedInOrder ==
  ASSUME IInv, FlushOrder, NEW th \in Thread, EnsureReleased(th) PROVE FlushOrder'
  <1>1. /\ \A x \in Thread : ThreadInOrder(x)'
        /\ UNCHANGED <<client_vars, tasks, processed_order_num,
                       unprocessed_order_num, destroyed, pc>>
    BY ThreadKept DEF EnsureReleased, order_vars, FlushOrder
  <1>2. \A d \in Client : ClientInOrder(d)'
    BY <1>1, EnsureReleasedGone, QueuesKept
  <1> QED
    BY <1>1, <1>2 DEF FlushOrder

LEMMA FenceSyncReleaseInOrder ==
  ASSUME IInv, FlushOrder, NEW th \in Thread, FenceSyncRelease(th)
  PROVE  FlushOrder'
  <1> DEFINE c == Current(th).client
  <1>1. /\ \A x \in Thread : ThreadInOrder(x)'
        /\ UNCHANGED <<client_vars, tasks, processed_order_num,
                       unprocessed_order_num, destroyed, pc>>
        /\ pc[th] = "run"
    BY ThreadKept
    DEF FenceSyncRelease, BetweenCommands, order_vars, FlushOrder
  <1>2. fence_sync_release[c] # UINT64_MAX
    BY <1>1, RunningFlush
  <1>3. /\ c \in Client
        /\ fence_sync_release'[c] = executed[c] + 1
        /\ fence_sync_release'[c] # UINT64_MAX
        /\ \A d \in Client \ {c} : fence_sync_release'[d] = fence_sync_release[d]
    <2>1. c \in Client /\ Current(th).release \in 0 .. MaxRelease
      BY <1>1, Running DEF IInv
    <2>2. executed[c] < Current(th).release /\ executed[c] \in Nat
      BY <2>1 DEF FenceSyncRelease, IInv, TypeOK, GpuThreadsTyped
    <2> QED
      BY <2>1, <2>2, SyncPointAssumption
      DEF FenceSyncRelease, ReleaseFenceSyncLocked, IInv, TypeOK, SyncPointsTyped,
          UINT64_MAX
  <1>4. \A d \in Client : /\ fence_sync_release'[d] = UINT64_MAX =>
                               fence_sync_release[d] = UINT64_MAX
                          /\ fence_sync_release[d] = UINT64_MAX =>
                               fence_sync_release'[d] = UINT64_MAX
    BY <1>2, <1>3
  <1>5. \A d \in Client : ClientInOrder(d)'
    BY <1>1, <1>4, QueuesKept
  <1> QED
    BY <1>1, <1>5 DEF FlushOrder

\* The first wait of a queue is done; the flushes stay.
LEMMA WaitedQueue ==
  ASSUME IInv, FlushOrder, NEW th \in Thread, pc[th] \in {"run", "waiting"},
         tasks' = [tasks EXCEPT ![th][1].wait = NoWait]
  PROVE  /\ IsSorted(tasks'[th])
         /\ \A x \in Thread \ {th} : tasks'[x] = tasks[x]
         /\ \A x \in Thread : /\ Current(x)'.client = Current(x).client
                              /\ Current(x)'.order_num = Current(x).order_num
                              /\ Current(x)'.release = Current(x).release
                              /\ x # th => Current(x)' = Current(x)
         /\ Current(th)'.wait = NoWait
         /\ \A d \in Client : /\ Flushes(d)' = Flushes(d)
                              /\ DestroyQueued(d)' => DestroyQueued(d)
         /\ DOMAIN tasks'[th] = DOMAIN tasks[th]
         /\ \A i \in DOMAIN tasks[th] :
              /\ tasks'[th][i].order_num = tasks[th][i].order_num
              /\ tasks'[th][i].wait \in {NoWait, tasks[th][i].wait}
  <1> DEFINE s == tasks[th]
             r == [s EXCEPT ![1].wait = NoWait]
  <1>1. /\ s # <<>> /\ IsTaskQueue(s, th) /\ IsSorted(s) /\ DOMAIN tasks = Thread
    BY Running DEF IInv, TypeOK, GpuThreadsTyped, FlushOrder, ThreadInOrder
  <1>2. tasks'[th] = r /\ \A x \in Thread \ {th} : tasks'[x] = tasks[x]
    BY <1>1
  <1>4. Current(th).client \in Client
    BY Running DEF IInv
  <1> HIDE DEF s, r
  <1>5. /\ IsSorted(r) /\ DOMAIN r = DOMAIN s
        /\ \A d \in Client : FlushesIn(r, d) = FlushesIn(s, d)
        /\ \A i \in DOMAIN s : /\ r[i].client = s[i].client
                               /\ r[i].order_num = s[i].order_num
                               /\ r[i].release = s[i].release
                               /\ r[i].wait = IF i = 1 THEN NoWait ELSE s[i].wait
        /\ Head(r) = r[1] /\ Head(s) = s[1] /\ 1 \in DOMAIN s
    <2>1. ASSUME NEW d \in Client
          PROVE  /\ IsSorted(r) /\ DOMAIN r = DOMAIN s
                 /\ FlushesIn(r, d) = FlushesIn(s, d)
                 /\ \A i \in DOMAIN s :
                      /\ r[i].client = s[i].client
                      /\ r[i].order_num = s[i].order_num
                      /\ r[i].release = s[i].release
                      /\ r[i].wait = IF i = 1 THEN NoWait ELSE s[i].wait
                 /\ Head(r) = r[1] /\ Head(s) = s[1] /\ 1 \in DOMAIN s
      BY <1>1, SortedWaited DEF r
    <2> QED
      BY <1>4, <2>1
  <1>6. Current(th)' = r[1] /\ Current(th) = s[1]
    BY <1>2, <1>5 DEF Current, s
  <1>7. \A x \in Thread : x # th => Current(x)' = Current(x)
    BY <1>2 DEF Current
  <1>8. ASSUME NEW d \in Client
        PROVE  Flushes(d)' = Flushes(d) /\ (DestroyQueued(d)' => DestroyQueued(d))
    <2>1. ThreadOf[d] \in Thread
      BY SyncPointAssumption
    <2>2. CASE ThreadOf[d] # th
      BY <1>2, <2>1, <2>2 DEF Flushes, DestroyQueued
    <2>3. CASE ThreadOf[d] = th
      BY <1>2, <1>5, <2>3 DEF Flushes, DestroyQueued, s
    <2> QED
      BY <2>2, <2>3
  <1>9. /\ DOMAIN tasks'[th] = DOMAIN tasks[th]
        /\ \A i \in DOMAIN tasks[th] :
             /\ tasks'[th][i].order_num = tasks[th][i].order_num
             /\ tasks'[th][i].wait \in {NoWait, tasks[th][i].wait}
    BY <1>2, <1>5 DEF s
  <1> QED
    BY <1>2, <1>5, <1>6, <1>7, <1>8, <1>9

LEMMA WaitFenceSyncInOrder ==
  ASSUME IInv, FlushOrder, NEW th \in Thread, WaitFenceSync(th) PROVE FlushOrder'
  <1>1. /\ pc[th] = "run" /\ pc'[th] \in {"run", "found"}
        /\ \A x \in Thread \ {th} : pc'[x] = pc[x]
        /\ UNCHANGED <<client_vars, order_vars, fence_sync_release>>
    BY DEF WaitFenceSync, BetweenCommands, IInv, TypeOK, GpuThreadsTyped
  <1>2. tasks' = tasks \/ tasks' = [tasks EXCEPT ![th][1].wait = NoWait]
    BY DEF WaitFenceSync
  <1>3. /\ IsSorted(tasks'[th])
        /\ \A x \in Thread \ {th} : tasks'[x] = tasks[x]
        /\ \A x \in Thread : /\ Current(x)'.client = Current(x).client
                             /\ Current(x)'.order_num = Current(x).order_num
        /\ \A d \in Client : /\ Flushes(d)' = Flushes(d)
                             /\ DestroyQueued(d)' => DestroyQueued(d)
    <2>1. CASE tasks' = tasks
      BY <2>1 DEF FlushOrder, ThreadInOrder, Current, Flushes, DestroyQueued
    <2>2. CASE tasks' = [tasks EXCEPT ![th][1].wait = NoWait]
      BY <1>1, <2>2, WaitedQueue
    <2> QED
      BY <1>2, <2>1, <2>2
  <1>4. \A x \in Thread \ {th} : ThreadInOrder(x)'
    BY <1>1, <1>3, OthersInOrder DEF order_vars
  <1>5. ThreadInOrder(th)'
    BY <1>1, <1>3, RunningFlush DEF ThreadInOrder, order_vars
  <1>6. ASSUME NEW d \in Client PROVE ClientInOrder(d)'
    <2>1. \A n : Finishing(d, n) => Finishing(d, n)'
      BY <1>1, <1>3, SyncPointAssumption DEF Finishing
    <2> QED
      BY <1>1, <1>3, <2>1, ClientKept DEF FlushOrder, client_vars, order_vars
  <1> QED
    BY <1>4, <1>5, <1>6 DEF FlushOrder

LEMMA WaitReturnsInOrder ==
  ASSUME IInv, FlushOrder, NEW th \in Thread, WaitReturns(th) PROVE FlushOrder'
  <1>1. /\ pc[th] = "waiting" /\ pc'[th] = "run"
        /\ \A x \in Thread \ {th} : pc'[x] = pc[x]
        /\ UNCHANGED <<client_vars, order_vars, fence_sync_release>>
        /\ tasks' = [tasks EXCEPT ![th][1].wait = NoWait]
    BY DEF WaitReturns, IInv, TypeOK, GpuThreadsTyped
  <1>2. /\ IsSorted(tasks'[th])
        /\ \A x \in Thread \ {th} : tasks'[x] = tasks[x]
        /\ \A x \in Thread : /\ Current(x)'.client = Current(x).client
                             /\ Current(x)'.order_num = Current(x).order_num
        /\ \A d \in Client : /\ Flushes(d)' = Flushes(d)
                             /\ DestroyQueued(d)' => DestroyQueued(d)
    BY <1>1, WaitedQueue
  <1>3. \A x \in Thread \ {th} : ThreadInOrder(x)'
    BY <1>1, <1>2, OthersInOrder DEF order_vars
  <1>4. ThreadInOrder(th)'
    BY <1>1, <1>2, RunningFlush DEF ThreadInOrder, order_vars
  <1>5. ASSUME NEW d \in Client PROVE ClientInOrder(d)'
    <2>1. \A n : Finishing(d, n) => Finishing(d, n)'
      BY <1>1, <1>2, SyncPointAssumption DEF Finishing
    <2> QED
      BY <1>1, <1>2, <2>1, ClientKept DEF FlushOrder, client_vars, order_vars
  <1> QED
    BY <1>3, <1>4, <1>5 DEF FlushOrder

LEMMA WaitInOrder ==
  ASSUME IInv, FlushOrder, NEW th \in Thread, Wait(th) PROVE FlushOrder'
  <1>1. /\ pc[th] = "found" /\ pc'[th] = "waiting"
        /\ \A x \in Thread \ {th} : pc'[x] = pc[x]
        /\ UNCHANGED <<client_vars, tasks, processed_order_num, current_order_num,
                       unprocessed_order_num, destroyed, fence_sync_release>>
    BY DEF Wait, IInv, TypeOK, GpuThreadsTyped
  <1>2. \A x \in Thread \ {th} : ThreadInOrder(x)'
    BY <1>1, OthersInOrder
  <1>3. ThreadInOrder(th)'
    BY <1>1, RunningFlush DEF FlushOrder, ThreadInOrder, Current
  <1>4. \A x \in Thread : pc[x] = "finish" => pc'[x] = "finish"
    BY <1>1
  <1> QED
    BY <1>1, <1>2, <1>3, <1>4, QueuesKept DEF FlushOrder

LEMMA FinishProcessingOrderNumberInOrder ==
  ASSUME IInv, FlushOrder, NEW th \in Thread, FinishProcessingOrderNumber(th)
  PROVE  FlushOrder'
  <1> DEFINE task == Current(th)
  <1>0. PICK c \in Client, n \in Nat : c = task.client /\ n = task.order_num
    BY Running, SyncPointAssumption
    DEF FinishProcessingOrderNumber, BetweenCommands, IInv, OrderNumber
  <1>1. /\ pc[th] = "run" /\ pc'[th] = "finish"
        /\ ThreadOf[c] = th
        /\ tasks[th] # <<>> /\ IsTaskQueue(tasks[th], th)
        /\ processed_order_num'[c] = n
        /\ \A x \in Thread \ {th} : pc'[x] = pc[x]
        /\ \A d \in Client \ {c} : processed_order_num'[d] = processed_order_num[d]
        /\ UNCHANGED <<client_vars, tasks, current_order_num,
                       unprocessed_order_num, destroyed, fence_sync_release>>
    BY <1>0, Running
    DEF FinishProcessingOrderNumber, BetweenCommands, IInv, TypeOK, GpuThreadsTyped,
        SyncPointsTyped
  <1>2. \A x \in Thread \ {th} : ThreadInOrder(x)'
    BY <1>0, <1>1, OthersInOrder
  <1>3. ThreadInOrder(th)'
    BY <1>1 DEF FlushOrder, ThreadInOrder, Current
  <1>4. \A d \in Client : /\ Flushes(d)' = Flushes(d)
                          /\ DestroyQueued(d)' => DestroyQueued(d)
                          /\ \A m : Finishing(d, m) => Finishing(d, m)'
    BY <1>1, SyncPointAssumption DEF Flushes, DestroyQueued, Finishing, Current
  <1>5. ASSUME NEW d \in Client \ {c} PROVE ClientInOrder(d)'
    BY <1>1, <1>4, ClientKept DEF FlushOrder, client_vars
  <1>6. ClientInOrder(c)'
    <2>1. ClientInOrder(c)
      BY <1>1 DEF FlushOrder
    <2>2. /\ \A u \in Flushes(c) : u.order_num > n \/ u.order_num = n
          /\ [order_num |-> n, release |-> Current(th).release] \in Flushes(c)
      <3>1. IsSorted(tasks[th])
        BY DEF FlushOrder, ThreadInOrder
      <3> QED
        BY <1>0, <1>1, <3>1, HeadFirst, RunningFlush DEF Flushes, Current
    <2>3. Finishing(c, n)'
      BY <1>0, <1>1 DEF Finishing, Current
    <2>4. n =< unprocessed_order_num[c]
      BY <2>1, <2>2 DEF ClientInOrder
    <2>5. Flushing(c) => flush[c].order_num > n
      <3>1. CASE client_pc[c] = "unprocessed"
        BY <1>1, <2>1, <2>2, <3>1 DEF ClientInOrder
      <3>2. CASE client_pc[c] = "numbered"
        <4>1. flush[c].order_num \in Nat /\ unprocessed_order_num[c] \in Nat
          BY <1>1, SyncPointAssumption
          DEF IInv, TypeOK, ClientThreadsTyped, SyncPointsTyped, GpuTask, OrderNumber
        <4> QED
          BY <1>1, <2>4, <3>2, <4>1 DEF IInv, OrderNumbersGrow
      <3> QED
        BY <3>1, <3>2 DEF Flushing
    <2> QED
      BY <1>1, <1>4, <2>1, <2>2, <2>3, <2>4, <2>5
      DEF ClientInOrder, Flushing, client_vars
  <1> QED
    BY <1>2, <1>3, <1>5, <1>6 DEF FlushOrder

LEMMA ReleaseAllInOrder ==
  ASSUME IInv, FlushOrder, NEW th \in Thread, ReleaseAll(th) PROVE FlushOrder'
  <1>0. PICK c \in Client : c = Current(th).client
    BY Running DEF ReleaseAll, IInv
  <1>1. /\ pc[th] = "idle" /\ pc'[th] = "destroy"
        /\ ThreadOf[c] = th /\ Current(th).order_num = 0
        /\ tasks[th] # <<>> /\ IsTaskQueue(tasks[th], th)
        /\ fence_sync_release'[c] = UINT64_MAX
        /\ \A x \in Thread \ {th} : pc'[x] = pc[x]
        /\ \A d \in Client \ {c} : fence_sync_release'[d] = fence_sync_release[d]
        /\ UNCHANGED <<client_vars, tasks, order_vars>>
    BY <1>0, Running DEF ReleaseAll, ReleaseFenceSyncLocked, IInv, TypeOK, GpuThreadsTyped,
       SyncPointsTyped
  <1>2. \A x \in Thread \ {th} : ThreadInOrder(x)'
    BY <1>0, <1>1, OthersInOrder DEF order_vars
  <1>3. ThreadInOrder(th)'
    BY <1>1 DEF FlushOrder, ThreadInOrder, Current
  <1>4. \A d \in Client : /\ Flushes(d)' = Flushes(d)
                          /\ DestroyQueued(d)' => DestroyQueued(d)
                          /\ \A m : Finishing(d, m) => Finishing(d, m)'
    BY <1>1, SyncPointAssumption DEF Flushes, DestroyQueued, Finishing, Current
  <1>5. ASSUME NEW d \in Client \ {c} PROVE ClientInOrder(d)'
    BY <1>1, <1>4, ClientKept DEF FlushOrder, client_vars, order_vars
  <1>6. ClientInOrder(c)'
    <2>1. ClientInOrder(c)
      BY <1>1 DEF FlushOrder
    <2>2. Flushes(c) = {}
      <3>1. IsSorted(tasks[th])
        BY DEF FlushOrder, ThreadInOrder
      <3> QED
        BY <1>0, <1>1, <3>1, HeadFirst DEF Flushes, Current
    <2>3. DestroyQueued(c)
      <3>1. Current(th) = tasks[th][1] /\ 1 \in DOMAIN tasks[th]
        BY <1>1, QueueHead DEF Current
      <3> QED
        BY <1>0, <1>1, <3>1 DEF DestroyQueued
    <2> QED
      BY <1>1, <1>4, <2>1, <2>2, <2>3
      DEF ClientInOrder, Flushing, client_vars, order_vars
  <1> QED
    BY <1>2, <1>3, <1>5, <1>6 DEF FlushOrder

LEMMA DestroySyncPointClientInOrder ==
  ASSUME IInv, FlushOrder, NEW th \in Thread, DestroySyncPointClient(th)
  PROVE  FlushOrder'
  <1>1. /\ pc[th] = "destroy" /\ pc'[th] = "erased"
        /\ \A x \in Thread \ {th} : pc'[x] = pc[x]
        /\ UNCHANGED <<client_vars, tasks, processed_order_num, current_order_num,
                       unprocessed_order_num, destroyed, fence_sync_release>>
    BY DEF DestroySyncPointClient, order_vars, IInv, TypeOK, GpuThreadsTyped
  <1>2. \A x \in Thread \ {th} : ThreadInOrder(x)'
    BY <1>1, OthersInOrder
  <1>3. ThreadInOrder(th)'
    BY <1>1 DEF FlushOrder, ThreadInOrder, Current
  <1>4. \A x \in Thread : pc[x] = "finish" => pc'[x] = "finish"
    BY <1>1
  <1> QED
    BY <1>1, <1>2, <1>3, <1>4, QueuesKept DEF FlushOrder

LEMMA DestroyOrderDataInOrder ==
  ASSUME IInv, FlushOrder, NEW th \in Thread, DestroyOrderData(th)
  PROVE  FlushOrder'
  <1>0. PICK c \in Client : c = Current(th).client
    BY Running DEF DestroyOrderData, IInv
  <1>1. /\ pc[th] = "erased" /\ pc'[th] = "finish"
        /\ fence_sync_release[c] = UINT64_MAX
        /\ \A x \in Thread \ {th} : pc'[x] = pc[x]
        /\ \A d \in Client \ {c} : destroyed'[d] = destroyed[d]
        /\ UNCHANGED <<client_vars, tasks, processed_order_num, current_order_num,
                       unprocessed_order_num, fence_sync_release>>
    BY <1>0, Running DEF DestroyOrderData, IInv, TypeOK, GpuThreadsTyped, SyncPointsTyped,
       ThreadsBusy
  <1>2. \A x \in Thread \ {th} : ThreadInOrder(x)'
    BY <1>0, <1>1, OthersInOrder
  <1>3. ThreadInOrder(th)'
    BY <1>1 DEF FlushOrder, ThreadInOrder, Current
  <1>4. \A d \in Client : /\ Flushes(d)' = Flushes(d)
                          /\ DestroyQueued(d)' => DestroyQueued(d)
                          /\ \A m : Finishing(d, m) => Finishing(d, m)'
    BY <1>1, SyncPointAssumption DEF Flushes, DestroyQueued, Finishing, Current
  <1>5. ASSUME NEW d \in Client \ {c} PROVE ClientInOrder(d)'
    BY <1>1, <1>4, ClientKept DEF FlushOrder, client_vars
  <1>6. ClientInOrder(c)'
    BY <1>1, <1>4 DEF FlushOrder, ClientInOrder, Flushing, client_vars
  <1> QED
    BY <1>2, <1>3, <1>5, <1>6 DEF FlushOrder

\* What taking the first task off the queue does.
LEMMA TakenOff ==
  ASSUME IInv, FlushOrder, NEW th \in Thread, FinishTask(th)
  PROVE  /\ pc[th] = "finish" /\ pc'[th] = "idle" /\ Ready(th)
         /\ Current(th).client \in Client /\ ThreadOf[Current(th).client] = th
         /\ \A x \in Thread \ {th} : pc'[x] = pc[x] /\ tasks'[x] = tasks[x]
         /\ IsSorted(tasks'[th])
         /\ \A i \in DOMAIN tasks'[th] : /\ i + 1 \in DOMAIN tasks[th]
                                         /\ tasks'[th][i] = tasks[th][i + 1]
         /\ \A d \in Client :
              /\ Flushes(d)' \subseteq Flushes(d)
              /\ DestroyQueued(d)' => DestroyQueued(d)
              /\ \A u \in Flushes(d) :
                   \/ u \in Flushes(d)'
                   \/ /\ d = Current(th).client
                      /\ u.order_num = Current(th).order_num
                      /\ u.release = Current(th).release
              /\ d = Current(th).client =>
                   \A u \in Flushes(d)' : u.order_num > Current(th).order_num
  <1> DEFINE s == tasks[th]
             c == Current(th).client
  <1>1. /\ pc[th] = "finish" /\ pc'[th] = "idle" /\ Ready(th)
        /\ c \in Client /\ ThreadOf[c] = th
        /\ s # <<>> /\ IsTaskQueue(s, th) /\ IsSorted(s)
        /\ tasks'[th] = Tail(s)
        /\ \A x \in Thread \ {th} : pc'[x] = pc[x] /\ tasks'[x] = tasks[x]
    BY Running DEF FinishTask, IInv, TypeOK, GpuThreadsTyped, FlushOrder,
       ThreadInOrder
  <1>2. c = Head(s).client
    BY DEF Current
  <1>3. ASSUME NEW d \in Client
        PROVE  /\ IsSorted(Tail(s))
               /\ FlushesIn(Tail(s), d) \subseteq FlushesIn(s, d)
               /\ \A u \in FlushesIn(s, d) :
                    \/ u \in FlushesIn(Tail(s), d)
                    \/ /\ d = Head(s).client
                       /\ u.order_num = Head(s).order_num
                       /\ u.release = Head(s).release
               /\ \A i \in DOMAIN Tail(s) : i + 1 \in DOMAIN s
                                            /\ Tail(s)[i] = s[i + 1]
    BY <1>1, SortedTail
  <1>4. /\ IsSorted(tasks'[th])
        /\ \A i \in DOMAIN tasks'[th] : i + 1 \in DOMAIN s
                                        /\ tasks'[th][i] = s[i + 1]
    BY <1>1, <1>3
  <1>5. ASSUME NEW d \in Client
        PROVE  /\ Flushes(d)' \subseteq Flushes(d)
               /\ DestroyQueued(d)' => DestroyQueued(d)
               /\ \A u \in Flushes(d) :
                    \/ u \in Flushes(d)'
                    \/ /\ d = c
                       /\ u.order_num = Current(th).order_num
                       /\ u.release = Current(th).release
    <2>1. ThreadOf[d] \in Thread
      BY SyncPointAssumption
    <2>2. CASE ThreadOf[d] # th
      BY <1>1, <2>1, <2>2 DEF Flushes, DestroyQueued
    <2>3. CASE ThreadOf[d] = th
      <3>1. Flushes(d) = FlushesIn(s, d) /\ Flushes(d)' = FlushesIn(Tail(s), d)
        BY <1>1, <2>3 DEF Flushes
      <3>2. DestroyQueued(d)' => DestroyQueued(d)
        BY <1>4, <2>3 DEF DestroyQueued
      <3> QED
        BY <1>3, <3>1, <3>2 DEF Current
    <2> QED
      BY <2>2, <2>3
  <1>6. ASSUME NEW d \in Client, d = c
        PROVE  \A u \in Flushes(d)' : u.order_num > Current(th).order_num
    <2>1. Flushes(d)' = FlushesIn(Tail(s), Head(s).client)
      BY <1>1, <1>2, <1>6 DEF Flushes
    <2> QED
      BY <1>1, <2>1, HeadFirst DEF Current
  <1> QED
    BY <1>1, <1>4, <1>5, <1>6

LEMMA FinishTaskInOrder ==
  ASSUME IInv, FlushOrder, NEW th \in Thread, FinishTask(th) PROVE FlushOrder'
  <1>1. UNCHANGED <<client_vars, order_vars, fence_sync_release>>
    BY DEF FinishTask
  <1>2. \A x \in Thread \ {th} : ThreadInOrder(x)'
    BY <1>1, TakenOff, OthersInOrder DEF order_vars
  <1>3. ThreadInOrder(th)'
    BY TakenOff DEF ThreadInOrder
  <1>4. ASSUME NEW d \in Client PROVE ClientInOrder(d)'
    <2>1. ASSUME NEW u \in Flushes(d)', Finishing(d, u.order_num)
          PROVE  Finishing(d, u.order_num)'
      <3>1. ThreadOf[d] # th
        <4> SUFFICES ASSUME ThreadOf[d] = th PROVE FALSE
          OBVIOUS
        <4>1. Current(th).client = d /\ Current(th).order_num = u.order_num
          BY <2>1 DEF Finishing
        <4>2. u.order_num > Current(th).order_num /\ u.order_num \in Nat
          BY <4>1, TakenOff, SyncPointAssumption DEF Flushes, FlushesIn, OrderNumber
        <4> QED
          BY <4>1, <4>2
      <3>2. ThreadOf[d] \in Thread
        BY SyncPointAssumption
      <3> QED
        BY <2>1, <3>1, <3>2, TakenOff DEF Finishing, Current
    <2> QED
      BY <1>1, <2>1, TakenOff, ClientKept DEF FlushOrder, client_vars, order_vars
  <1> QED
    BY <1>2, <1>3, <1>4 DEF FlushOrder

LEMMA InitInOrder == Init => FlushOrder
  <1> SUFFICES ASSUME Init PROVE FlushOrder
    OBVIOUS
  <1>1. ASSUME NEW th \in Thread PROVE ThreadInOrder(th)
    BY DEF Init, ThreadInOrder, IsSorted
  <1>2. ASSUME NEW c \in Client PROVE ClientInOrder(c)
    <2>1. tasks[ThreadOf[c]] = <<>>
      BY SyncPointAssumption DEF Init
    <2>2. Flushes(c) = {} /\ ~DestroyQueued(c)
      BY <2>1 DEF Flushes, FlushesIn, DestroyQueued
    <2> QED
      BY <2>2, SyncPointAssumption DEF Init, ClientInOrder, Flushing, UINT64_MAX
  <1> QED
    BY <1>1, <1>2 DEF FlushOrder

LEMMA StepInOrder == IInv /\ FlushOrder /\ [Next]_vars => FlushOrder'
  <1> SUFFICES ASSUME IInv, FlushOrder, [Next]_vars PROVE FlushOrder'
    OBVIOUS
  <1>1. ASSUME NEW c \in Client, ClientNext(c) PROVE FlushOrder'
    BY <1>1, FlushInOrder, SetUnprocessedOrderNumberInOrder, QueueFlushInOrder,
       DestroyInOrder
    DEF ClientNext
  <1>2. ASSUME NEW th \in Thread, RunCallback(th) \/ LoseContext(th)
        PROVE  FlushOrder'
    BY <1>2 DEF RunCallback, LoseContext, client_vars, order_vars, FlushOrder,
       ThreadInOrder, Current, ClientInOrder, Flushing, Flushes, DestroyQueued,
       Finishing
  <1>3. ASSUME NEW th \in Thread, GpuNext(th) PROVE FlushOrder'
    BY <1>2, <1>3, BeginProcessingOrderNumberInOrder, EnsureReleasedInOrder,
       FenceSyncReleaseInOrder, WaitFenceSyncInOrder, WaitInOrder,
       WaitReturnsInOrder, FinishProcessingOrderNumberInOrder, ReleaseAllInOrder,
       DestroySyncPointClientInOrder, DestroyOrderDataInOrder, FinishTaskInOrder
    DEF GpuNext
  <1>4. ASSUME UNCHANGED vars PROVE FlushOrder'
    BY <1>4 DEF vars, client_vars, order_vars, FlushOrder, ThreadInOrder, Current,
       ClientInOrder, Flushing, Flushes, DestroyQueued, Finishing
  <1> QED
    BY <1>1, <1>3, <1>4 DEF Next

-----------------------------------------------------------------------------
(* The releases that come before the waits for them.                       *)

\* What will be executed can be promised of earlier releases and for later.
LEMMA WillExecuteSooner ==
  ASSUME IInv, NEW c \in Client, NEW r \in Int, NEW n \in Int, WillExecute(c, r, n),
         NEW q \in Int, NEW m \in Int, q =< r, n =< m
  PROVE  WillExecute(c, q, m)
  <1>1. executed[c] \in Int
    BY DEF IInv, TypeOK, GpuThreadsTyped
  <1>2. \A u \in Flushes(c) : u.release \in Int /\ u.order_num \in Int
    BY SyncPointAssumption DEF Flushes, FlushesIn, OrderNumber
  <1> QED
    BY <1>1, <1>2 DEF WillExecute

\* A step that takes off no flush of c before it is executed keeps what will be
\* executed.
LEMMA WillExecuteKept ==
  ASSUME IInv, IInv', NEW c \in Client,
         context_lost[c] => context_lost'[c], executed[c] =< executed'[c],
         \A u \in Flushes(c) :
           u \in Flushes(c)' \/ context_lost'[c] \/ u.release =< executed'[c],
         NEW r \in Int, NEW n \in Int, WillExecute(c, r, n)
  PROVE  WillExecute(c, r, n)'
  <1>1. executed[c] \in Int /\ executed'[c] \in Int
    BY DEF IInv, TypeOK, GpuThreadsTyped
  <1>2. \A u \in Flushes(c) : u.release \in Int
    BY SyncPointAssumption DEF Flushes, FlushesIn
  <1>3. CASE context_lost[c] \/ r =< executed[c]
    BY <1>1, <1>3 DEF WillExecute
  <1>4. CASE \E u \in Flushes(c) : r =< u.release /\ u.order_num =< n
    BY <1>1, <1>2, <1>4 DEF WillExecute
  <1> QED
    BY <1>3, <1>4 DEF WillExecute

\* No step takes back a lost context or an executed release, and none drops a
\* flush that has still something to release.
LEMMA ContextsProgress ==
  ASSUME IInv, FlushOrder, ReleasesComeFirst, Next, NEW c \in Client
  PROVE  /\ context_lost[c] => context_lost'[c]
         /\ executed[c] =< executed'[c]
         /\ \A u \in Flushes(c) :
              u \in Flushes(c)' \/ context_lost'[c] \/ u.release =< executed'[c]
  <1>1. executed \in [Client -> 0 .. MaxRelease] /\ executed[c] \in Int
        /\ context_lost \in [Client -> BOOLEAN] /\ ThreadOf[c] \in Thread
    BY SyncPointAssumption DEF IInv, TypeOK, GpuThreadsTyped
  <1>2. \A u \in Flushes(c) : u.order_num > 0
    BY DEF Flushes, FlushesIn
  <1>3. ASSUME NEW d \in Client, Flush(d) \/ SetUnprocessedOrderNumber(d)
        PROVE  UNCHANGED <<context_lost, executed, tasks>>
    BY <1>3 DEF Flush, SetUnprocessedOrderNumber
  <1>4. ASSUME NEW d \in Client, QueueFlush(d)
        PROVE  /\ UNCHANGED <<context_lost, executed>>
               /\ Flushes(c) \subseteq Flushes(c)'
    <2>1. /\ UNCHANGED <<context_lost, executed, pc>>
          /\ tasks' = [tasks EXCEPT ![Service(d)] = Append(@, flush[d])]
          /\ flush[d] \in GpuTask /\ flush[d].client = d
      BY <1>4 DEF QueueFlush, IInv, TypeOK, ClientThreadsTyped
    <2> QED
      BY <2>1, QueuedTask
  <1>5. ASSUME NEW d \in Client, Destroy(d)
        PROVE  /\ UNCHANGED <<context_lost, executed>>
               /\ Flushes(c) \subseteq Flushes(c)'
    <2>1. /\ UNCHANGED <<context_lost, executed, pc>>
          /\ tasks' = [tasks EXCEPT ![Service(d)] = Append(@, DestroyTask(d))]
      BY <1>5 DEF Destroy
    <2>2. DestroyTask(d) \in GpuTask /\ DestroyTask(d).client = d
      BY SyncPointAssumption DEF DestroyTask, GpuTask, OrderNumber
    <2> QED
      BY <2>1, <2>2, QueuedTask
  <1>6. ASSUME NEW th \in Thread,
               \/ BeginProcessingOrderNumber(th)
               \/ EnsureReleased(th)
               \/ RunCallback(th)
               \/ Wait(th)
               \/ FinishProcessingOrderNumber(th)
               \/ ReleaseAll(th)
               \/ DestroySyncPointClient(th)
               \/ DestroyOrderData(th)
        PROVE  UNCHANGED <<context_lost, executed, tasks>>
    BY <1>6 DEF BeginProcessingOrderNumber, EnsureReleased, RunCallback, Wait,
       FinishProcessingOrderNumber, ReleaseAll, DestroySyncPointClient,
       DestroyOrderData
  <1>7. ASSUME NEW th \in Thread, FenceSyncRelease(th)
        PROVE  UNCHANGED <<context_lost, tasks>> /\ executed[c] =< executed'[c]
    BY <1>1, <1>7 DEF FenceSyncRelease
  <1>8. ASSUME NEW th \in Thread, LoseContext(th)
        PROVE  /\ UNCHANGED <<executed, tasks>>
               /\ context_lost[c] => context_lost'[c]
    BY <1>1, <1>8 DEF LoseContext
  <1>9. ASSUME NEW th \in Thread, WaitFenceSync(th) \/ WaitReturns(th)
        PROVE  UNCHANGED <<context_lost, executed>> /\ Flushes(c)' = Flushes(c)
    <2>1. /\ UNCHANGED <<context_lost, executed>> /\ pc[th] \in {"run", "waiting"}
          /\ tasks' = tasks \/ tasks' = [tasks EXCEPT ![th][1].wait = NoWait]
      BY <1>9 DEF WaitFenceSync, WaitReturns, BetweenCommands
    <2>2. CASE tasks' = tasks
      BY <2>1, <2>2 DEF Flushes
    <2>3. CASE tasks' = [tasks EXCEPT ![th][1].wait = NoWait]
      BY <2>1, <2>3, WaitedQueue
    <2> QED
      BY <2>1, <2>2, <2>3
  <1>10. ASSUME NEW th \in Thread, FinishTask(th)
         PROVE  /\ UNCHANGED <<context_lost, executed>>
                /\ \A u \in Flushes(c) :
                     u \in Flushes(c)' \/ context_lost[c] \/ u.release =< executed[c]
    <2>1. UNCHANGED <<context_lost, executed>>
      BY <1>10 DEF FinishTask
    <2>2. ASSUME NEW u \in Flushes(c), u \notin Flushes(c)'
          PROVE  context_lost[c] \/ u.release =< executed[c]
      <3>1. /\ pc[th] = "finish" /\ c = Current(th).client
            /\ u.order_num = Current(th).order_num
            /\ u.release = Current(th).release
        BY <1>10, <2>2, TakenOff
      <3> QED
        BY <1>2, <3>1 DEF ReleasesComeFirst, ThreadCovered
    <2> QED
      BY <2>1, <2>2
  <1>11. tasks' = tasks => Flushes(c)' = Flushes(c)
    BY DEF Flushes
  <1>12. CASE \E d \in Client : ClientNext(d)
    BY <1>1, <1>3, <1>4, <1>5, <1>11, <1>12 DEF ClientNext
  <1>13. CASE \E th \in Thread : GpuNext(th)
    BY <1>1, <1>6, <1>7, <1>8, <1>9, <1>10, <1>11, <1>13 DEF GpuNext
  <1> QED
    BY <1>12, <1>13 DEF Next

\* What a step keeps of the promises.
Progress ==
  /\ \A c \in Client : /\ context_lost[c] => context_lost'[c]
                       /\ executed[c] =< executed'[c]
                       /\ executed[c] \in Int /\ executed'[c] \in Int
  /\ \A c \in Client, r \in Int, n \in Int :
       WillExecute(c, r, n) => WillExecute(c, r, n)'
  /\ \A t \in GpuTask : WaitCovered(t) => WaitCovered(t)'

LEMMA StepProgress ==
  ASSUME IInv, IInv', FlushOrder, ReleasesComeFirst, Next
  PROVE  Progress
  <1>1. ASSUME NEW c \in Client
        PROVE  /\ context_lost[c] => context_lost'[c]
               /\ executed[c] =< executed'[c]
               /\ executed[c] \in Int /\ executed'[c] \in Int
    BY ContextsProgress DEF IInv, TypeOK, GpuThreadsTyped
  <1>2. ASSUME NEW c \in Client, NEW r \in Int, NEW n \in Int, WillExecute(c, r, n)
        PROVE  WillExecute(c, r, n)'
    BY <1>2, ContextsProgress, WillExecuteKept
  <1>3. ASSUME NEW t \in GpuTask, WaitCovered(t) PROVE WaitCovered(t)'
    <2>1. CASE t.wait = NoWait
      BY <2>1 DEF WaitCovered
    <2>2. CASE t.wait # NoWait
      <3>1. t.wait[1] \in Client /\ t.wait[2] \in Int /\ t.order_num - 1 \in Int
        BY <2>2, SyncPointAssumption DEF GpuTask, Token, OrderNumber
      <3> QED
        BY <1>2, <1>3, <2>2, <3>1 DEF WaitCovered
    <2> QED
      BY <2>1, <2>2
  <1> QED
    BY <1>1, <1>2, <1>3 DEF Progress

LEMMA ClientCoveredKept ==
  ASSUME IInv, IInv', Progress, NEW d \in Client, ClientCovered(d),
         flushed_fence_sync_release'[d] = flushed_fence_sync_release[d],
         unprocessed_order_num[d] =< unprocessed_order_num'[d],
         Flushing(d)' => Flushing(d) /\ flush'[d] = flush[d],
         order_fence_queue'[d] \subseteq order_fence_queue[d]
  PROVE  ClientCovered(d)'
  <1>1. /\ flushed_fence_sync_release[d] \in Int
        /\ unprocessed_order_num[d] \in Int /\ unprocessed_order_num'[d] \in Int
        /\ flush[d] \in GpuTask
        /\ \A f \in order_fence_queue[d] : f.release \in Int /\ f.order_num \in Int
    BY SyncPointAssumption
    DEF IInv, TypeOK, ClientThreadsTyped, SyncPointsTyped, OrderNumber, OrderFence
  <1>2. WillExecute(d, flushed_fence_sync_release[d], unprocessed_order_num[d])'
    <2>1. WillExecute(d, flushed_fence_sync_release[d], unprocessed_order_num'[d])
      BY <1>1, WillExecuteSooner DEF ClientCovered
    <2> QED
      BY <1>1, <2>1 DEF Progress
  <1>3. Flushing(d)' => WaitCovered(flush[d])'
    BY <1>1 DEF Progress, ClientCovered
  <1>4. \A f \in order_fence_queue'[d] : WillExecute(d, f.release, f.order_num)'
    BY <1>1 DEF Progress, ClientCovered
  <1> QED
    BY <1>2, <1>3, <1>4 DEF ClientCovered

\* The tasks of a queue stay covered when some of them are taken off or have
\* waited.
LEMMA QueueCoveredKept ==
  ASSUME IInv, Progress, NEW x \in Thread, ThreadCovered(x),
         \A i \in DOMAIN tasks'[x] :
           \/ tasks'[x][i].wait = NoWait
           \/ \E j \in DOMAIN tasks[x] :
                /\ tasks'[x][i].wait = tasks[x][j].wait
                /\ tasks'[x][i].order_num = tasks[x][j].order_num
  PROVE  \A i \in DOMAIN tasks'[x] : WaitCovered(tasks[x][i])'
  <1> SUFFICES ASSUME NEW i \in DOMAIN tasks'[x] PROVE WaitCovered(tasks[x][i])'
    OBVIOUS
  <1>1. CASE tasks'[x][i].wait = NoWait
    BY <1>1 DEF WaitCovered
  <1>2. CASE tasks'[x][i].wait # NoWait
    <2>1. PICK j \in DOMAIN tasks[x] :
            /\ tasks'[x][i].wait = tasks[x][j].wait
            /\ tasks'[x][i].order_num = tasks[x][j].order_num
      BY <1>2
    <2>2. PICK t \in GpuTask : t = tasks[x][j]
      BY QueueTyped DEF IInv, TypeOK, GpuThreadsTyped
    <2>3. WaitCovered(t)
      BY <2>2 DEF ThreadCovered
    <2>4. WaitCovered(t)'
      BY <2>3 DEF Progress
    <2> QED
      BY <2>1, <2>2, <2>4 DEF WaitCovered
  <1> QED
    BY <1>1, <1>2

LEMMA ThreadCoveredKept ==
  ASSUME IInv, IInv', Progress, NEW x \in Thread, ThreadCovered(x),
         \A i \in DOMAIN tasks'[x] : WaitCovered(tasks[x][i])',
         pc[x] # "idle" => /\ Current(x)'.client = Current(x).client
                           /\ Current(x)'.order_num = Current(x).order_num
                           /\ Current(x)'.release = Current(x).release,
         ensure_releases'[x] \subseteq ensure_releases[x],
         pc'[x] = "finish" => pc[x] = "finish"
  PROVE  ThreadCovered(x)'
  <1>1. CASE pc[x] = "idle"
    <2>1. ensure_releases'[x] = {} /\ pc'[x] # "finish"
      BY <1>1 DEF IInv, ThreadsBusy, Ready
    <2> QED
      BY <2>1 DEF ThreadCovered
  <1>2. CASE pc[x] # "idle"
    <2>1. Current(x).client \in Client /\ Current(x).release \in Int
      BY <1>2, Running DEF IInv
    <2>2. PICK c \in Client : c = Current(x).client /\ c = Current(x)'.client
      BY <1>2, <2>1
    <2>3. /\ context_lost[c] => context_lost'[c]
          /\ executed[c] =< executed'[c]
          /\ executed[c] \in Int /\ executed'[c] \in Int
      BY DEF Progress
    <2>4. \A f \in ensure_releases[x] : f.release \in Int
      BY DEF IInv, TypeOK, GpuThreadsTyped, OrderFence
    <2> QED
      BY <1>2, <2>1, <2>2, <2>3, <2>4 DEF ThreadCovered
  <1> QED
    BY <1>1, <1>2

\* A thread that does nothing keeps its promises.
LEMMA ThreadCoveredStays ==
  ASSUME IInv, IInv', Progress, NEW x \in Thread, ThreadCovered(x),
         tasks'[x] = tasks[x], pc'[x] = pc[x],
         ensure_releases'[x] \subseteq ensure_releases[x]
  PROVE  ThreadCovered(x)'
  <1>1. \A i \in DOMAIN tasks'[x] : WaitCovered(tasks[x][i])'
    BY QueueCoveredKept
  <1>2. Current(x)' = Current(x)
    BY DEF Current
  <1> QED
    BY <1>1, <1>2, ThreadCoveredKept

\* A flush waits only for what is flushed, whose number is smaller.
LEMMA FlushCovered ==
  ASSUME IInv, IInv', Progress, ReleasesComeFirst, NEW c \in Client, Flush(c)
  PROVE  ReleasesComeFirst'
  <1> USE SyncPointAssumption
  <1>1. PICK release \in next_fence_sync_release[c] - 1 .. MaxRelease,
             wait \in FlushedTokens \cup {NoWait} :
          flush' = [flush EXCEPT ![c] =
                      [client |-> c, order_num |-> global_order_num,
                       release |-> release, wait |-> wait]]
    BY DEF Flush
  <1>2. /\ flush'[c].wait = wait /\ flush'[c].order_num = global_order_num
        /\ \A d \in Client \ {c} : client_pc'[d] = client_pc[d] /\ flush'[d] = flush[d]
        /\ UNCHANGED <<flushed_fence_sync_release, unprocessed_order_num,
                       order_fence_queue, tasks, pc, ensure_releases>>
    BY <1>1 DEF Flush, order_vars, IInv, TypeOK, ClientThreadsTyped
  <1>3. ASSUME NEW x \in Thread PROVE ThreadCovered(x)'
    BY <1>2, ThreadCoveredStays DEF ReleasesComeFirst
  <1>4. \A d \in Client : unprocessed_order_num[d] \in Int
    BY DEF IInv, TypeOK, SyncPointsTyped, OrderNumber
  <1>5. ASSUME NEW d \in Client \ {c} PROVE ClientCovered(d)'
    BY <1>2, <1>4, ClientCoveredKept DEF ReleasesComeFirst, Flushing
  <1>6. WaitCovered(flush[c])'
    <2>1. CASE wait = NoWait
      BY <1>2, <2>1 DEF WaitCovered
    <2>2. CASE wait # NoWait
      <3>1. PICK d \in Client, r \in Int : /\ wait[1] = d /\ wait[2] = r
                                           /\ r =< flushed_fence_sync_release[d]
        BY <2>2 DEF FlushedTokens, Token
      <3>2. PICK n \in Int : n = global_order_num - 1
        BY DEF IInv, TypeOK, ClientThreadsTyped
      <3>3. /\ unprocessed_order_num[d] =< n
            /\ flushed_fence_sync_release[d] \in Int
        BY <1>4, <3>2 DEF IInv, TypeOK, ClientThreadsTyped, OrderNumbersGrow
      <3>4. WillExecute(d, flushed_fence_sync_release[d], unprocessed_order_num[d])
        BY DEF ReleasesComeFirst, ClientCovered
      <3>5. WillExecute(d, r, n)
        BY <1>4, <3>1, <3>3, <3>4, WillExecuteSooner
      <3>6. WillExecute(d, r, n)'
        BY <3>5 DEF Progress
      <3> QED
        BY <1>2, <3>1, <3>2, <3>6 DEF WaitCovered
    <2> QED
      BY <2>1, <2>2
  <1>7. ClientCovered(c)'
    <2>1. WillExecute(c, flushed_fence_sync_release[c], unprocessed_order_num[c])'
      <3>1. PICK r \in Int, n \in Int : /\ r = flushed_fence_sync_release[c]
                                        /\ n = unprocessed_order_num[c]
        BY <1>4 DEF IInv, TypeOK, ClientThreadsTyped
      <3> QED
        BY <1>2, <3>1 DEF Progress, ReleasesComeFirst, ClientCovered
    <2>2. \A f \in order_fence_queue[c] : WillExecute(c, f.release, f.order_num)'
      <3>1. \A f \in order_fence_queue[c] : f.release \in Int /\ f.order_num \in Int
        BY DEF IInv, TypeOK, SyncPointsTyped, OrderNumber, OrderFence
      <3> QED
        BY <3>1 DEF Progress, ReleasesComeFirst, ClientCovered
    <2> QED
      BY <1>2, <1>6, <2>1, <2>2 DEF ClientCovered
  <1> QED
    BY <1>3, <1>5, <1>7 DEF ReleasesComeFirst

LEMMA SetUnprocessedOrderNumberCovered ==
  ASSUME IInv, IInv', Progress, ReleasesComeFirst,
         NEW c \in Client, SetUnprocessedOrderNumber(c)
  PROVE  ReleasesComeFirst'
  <1> USE SyncPointAssumption
  <1>1. /\ client_pc[c] = "numbered"
        /\ unprocessed_order_num'[c] = flush[c].order_num
        /\ \A d \in Client \ {c} :
             /\ client_pc'[d] = client_pc[d]
             /\ unprocessed_order_num'[d] = unprocessed_order_num[d]
        /\ UNCHANGED <<flush, flushed_fence_sync_release, order_fence_queue, tasks,
                       pc, ensure_releases>>
    BY DEF SetUnprocessedOrderNumber, IInv, TypeOK, ClientThreadsTyped,
       SyncPointsTyped
  <1>2. ASSUME NEW x \in Thread PROVE ThreadCovered(x)'
    BY <1>1, ThreadCoveredStays DEF ReleasesComeFirst
  <1>3. ASSUME NEW d \in Client PROVE ClientCovered(d)'
    <2>1. unprocessed_order_num[d] \in Int /\ flush[d].order_num \in Int
      BY DEF IInv, TypeOK, SyncPointsTyped, ClientThreadsTyped, GpuTask, OrderNumber
    <2>2. unprocessed_order_num[d] =< unprocessed_order_num'[d]
      BY <1>1, <2>1 DEF IInv, OrderNumbersGrow
    <2>3. Flushing(d)' => Flushing(d)
      BY <1>1 DEF Flushing
    <2> QED
      BY <1>1, <2>2, <2>3, ClientCoveredKept DEF ReleasesComeFirst
  <1> QED
    BY <1>2, <1>3 DEF ReleasesComeFirst

\* The promises when the task t of c, which is covered, is queued.
LEMMA QueuedCovered ==
  ASSUME IInv, IInv', Progress, ReleasesComeFirst,
         NEW c \in Client, NEW t \in GpuTask, t.client = c, WaitCovered(t),
         tasks' = [tasks EXCEPT ![Service(c)] = Append(@, t)],
         UNCHANGED <<pc, ensure_releases>>
  PROVE  \A x \in Thread : ThreadCovered(x)'
  <1> SUFFICES ASSUME NEW x \in Thread PROVE ThreadCovered(x)'
    OBVIOUS
  <1>1. /\ x # ThreadOf[c] => tasks'[x] = tasks[x]
        /\ pc[x] # "idle" => Current(x)' = Current(x)
        /\ tasks'[ThreadOf[c]] = Append(tasks[ThreadOf[c]], t)
        /\ IsTaskQueue(tasks[x], x)
    BY QueuedTask
  <1>2. \A i \in DOMAIN tasks'[x] : WaitCovered(tasks[x][i])'
    <2>1. CASE x # ThreadOf[c]
      BY <1>1, <2>1, QueueCoveredKept DEF ReleasesComeFirst
    <2>2. CASE x = ThreadOf[c]
      <3>1. \A i \in DOMAIN tasks'[x] :
              \/ i \in DOMAIN tasks[x] /\ tasks'[x][i] = tasks[x][i]
              \/ tasks'[x][i] = t
        BY <1>1, <2>2 DEF IsTaskQueue
      <3>2. WaitCovered(t)'
        BY DEF Progress
      <3>3. \A i \in DOMAIN tasks[x] :
              \E u \in GpuTask : u = tasks[x][i] /\ WaitCovered(u)'
        <4>1. \A i \in DOMAIN tasks[x] : tasks[x][i] \in GpuTask
          BY <1>1, QueueTyped
        <4>2. \A i \in DOMAIN tasks[x] : WaitCovered(tasks[x][i])
          BY DEF ReleasesComeFirst, ThreadCovered
        <4> QED
          BY <4>1, <4>2 DEF Progress
      <3> QED
        BY <3>1, <3>2, <3>3
    <2> QED
      BY <2>1, <2>2
  <1> QED
    BY <1>1, <1>2, ThreadCoveredKept DEF ReleasesComeFirst

LEMMA QueueFlushCovered ==
  ASSUME IInv, IInv', FlushOrder, Progress, ReleasesComeFirst,
         NEW c \in Client, QueueFlush(c)
  PROVE  ReleasesComeFirst'
  <1> USE SyncPointAssumption
  <1>1. /\ client_pc[c] = "unprocessed" /\ client_pc'[c] = "idle"
        /\ \A d \in Client \ {c} :
             /\ client_pc'[d] = client_pc[d]
             /\ flushed_fence_sync_release'[d] = flushed_fence_sync_release[d]
        /\ flushed_fence_sync_release'[c] = next_fence_sync_release[c] - 1
        /\ tasks' = [tasks EXCEPT ![Service(c)] = Append(@, flush[c])]
        /\ UNCHANGED <<flush, unprocessed_order_num, order_fence_queue, pc,
                       ensure_releases>>
        /\ flush[c] \in GpuTask /\ flush[c].client = c
    BY DEF QueueFlush, order_vars, IInv, TypeOK, ClientThreadsTyped
  <1>2. PICK t \in GpuTask : t = flush[c]
    BY <1>1
  <1>3. WaitCovered(t)
    BY <1>1, <1>2 DEF ReleasesComeFirst, ClientCovered, Flushing
  <1>4. \A x \in Thread : ThreadCovered(x)'
    BY <1>1, <1>2, <1>3, QueuedCovered
  <1>5. ASSUME NEW d \in Client \ {c} PROVE ClientCovered(d)'
    <2>1. unprocessed_order_num[d] \in Int
      BY DEF IInv, TypeOK, SyncPointsTyped, OrderNumber
    <2> QED
      BY <1>1, <2>1, ClientCoveredKept DEF ReleasesComeFirst, Flushing
  <1>6. ClientCovered(c)'
    <2>1. WillExecute(c, flushed_fence_sync_release[c], unprocessed_order_num[c])'
      <3>1. /\ t.order_num > 0 /\ t.order_num = unprocessed_order_num[c]
            /\ t.release = next_fence_sync_release[c] - 1
            /\ t.order_num \in Int /\ t.release \in Int
        <4>1. ClientInOrder(c)
          BY DEF FlushOrder
        <4>2. processed_order_num[c] \in Nat /\ t.order_num \in Int /\ t.release \in Int
          BY <1>2 DEF IInv, TypeOK, SyncPointsTyped, OrderNumber, GpuTask
        <4> QED
          BY <1>1, <1>2, <4>1, <4>2 DEF ClientInOrder, Flushing
      <3>2. [order_num |-> t.order_num, release |-> t.release] \in Flushes(c)'
        BY <1>1, <1>2, <3>1, QueuedTask
      <3> QED
        BY <1>1, <3>1, <3>2 DEF WillExecute
    <2>2. \A f \in order_fence_queue[c] : WillExecute(c, f.release, f.order_num)'
      <3>1. \A f \in order_fence_queue[c] : f.release \in Int /\ f.order_num \in Int
        BY DEF IInv, TypeOK, SyncPointsTyped, OrderNumber, OrderFence
      <3> QED
        BY <3>1 DEF Progress, ReleasesComeFirst, ClientCovered
    <2> QED
      BY <1>1, <2>1, <2>2 DEF ClientCovered, Flushing
  <1> QED
    BY <1>4, <1>5, <1>6 DEF ReleasesComeFirst

LEMMA DestroyCovered ==
  ASSUME IInv, IInv', Progress, ReleasesComeFirst, NEW c \in Client, Destroy(c)
  PROVE  ReleasesComeFirst'
  <1> USE SyncPointAssumption
  <1>1. /\ client_pc'[c] = "destroying"
        /\ \A d \in Client \ {c} : client_pc'[d] = client_pc[d]
        /\ tasks' = [tasks EXCEPT ![Service(c)] = Append(@, DestroyTask(c))]
        /\ UNCHANGED <<flush, flushed_fence_sync_release, unprocessed_order_num,
                       order_fence_queue, pc, ensure_releases>>
    BY DEF Destroy, order_vars, IInv, TypeOK, ClientThreadsTyped
  <1>2. PICK t \in GpuTask : t = DestroyTask(c) /\ t.client = c /\ t.wait = NoWait
    <2>1. /\ DestroyTask(c) \in GpuTask
          /\ DestroyTask(c).client = c /\ DestroyTask(c).wait = NoWait
      BY DEF DestroyTask, GpuTask, OrderNumber
    <2> QED
      BY <2>1
  <1>3. \A x \in Thread : ThreadCovered(x)'
    BY <1>1, <1>2, QueuedCovered DEF WaitCovered
  <1>4. ASSUME NEW d \in Client PROVE ClientCovered(d)'
    <2>1. unprocessed_order_num[d] \in Int
      BY DEF IInv, TypeOK, SyncPointsTyped, OrderNumber
    <2> QED
      BY <1>1, <2>1, ClientCoveredKept DEF ReleasesComeFirst, Flushing
  <1> QED
    BY <1>3, <1>4 DEF ReleasesComeFirst

\* The steps of a GPU thread that add no fence.
LEMMA ClientsCovered ==
  ASSUME IInv, IInv', Progress, ReleasesComeFirst,
         UNCHANGED <<client_vars, unprocessed_order_num>>,
         \A d \in Client : order_fence_queue'[d] \subseteq order_fence_queue[d]
  PROVE  \A d \in Client : ClientCovered(d)'
  <1> SUFFICES ASSUME NEW d \in Client PROVE ClientCovered(d)'
    OBVIOUS
  <1>1. unprocessed_order_num[d] \in Int
    BY SyncPointAssumption DEF IInv, TypeOK, SyncPointsTyped, OrderNumber
  <1> QED
    BY <1>1, ClientCoveredKept DEF ReleasesComeFirst, Flushing, client_vars

\* The steps of a GPU thread that leave the queues alone and release what is
\* covered.
LEMMA ThreadsCovered ==
  ASSUME IInv, IInv', Progress, ReleasesComeFirst, tasks' = tasks,
         \A x \in Thread : \/ ensure_releases'[x] \subseteq ensure_releases[x]
                           \/ \A f \in ensure_releases'[x] :
                                \/ context_lost'[Current(x)'.client]
                                \/ f.release =< executed'[Current(x)'.client],
         \A x \in Thread : pc'[x] = "finish" =>
           \/ pc[x] = "finish"
           \/ Current(x)'.order_num = 0
           \/ context_lost'[Current(x)'.client]
           \/ Current(x)'.release =< executed'[Current(x)'.client]
  PROVE  \A x \in Thread : ThreadCovered(x)'
  <1> SUFFICES ASSUME NEW x \in Thread PROVE ThreadCovered(x)'
    OBVIOUS
  <1>1. ThreadCovered(x) /\ Current(x)' = Current(x)
    BY DEF ReleasesComeFirst, Current
  <1>2. \A i \in DOMAIN tasks'[x] : WaitCovered(tasks[x][i])'
    BY <1>1, QueueCoveredKept
  <1>3. CASE pc[x] = "idle" /\ tasks[x] = <<>>
    <2>1. pc'[x] = "idle" /\ ensure_releases'[x] = {}
      BY <1>3 DEF IInv, ThreadsBusy, Ready
    <2> QED
      BY <1>2, <2>1 DEF ThreadCovered
  <1>4. CASE pc[x] # "idle" \/ tasks[x] # <<>>
    <2>1. PICK c \in Client : c = Current(x).client /\ c = Current(x)'.client
      BY <1>1, <1>4, Running DEF IInv
    <2>2. Current(x).release \in Int
      BY <1>4, Running DEF IInv
    <2>3. /\ context_lost[c] => context_lost'[c]
          /\ executed[c] =< executed'[c]
          /\ executed[c] \in Int /\ executed'[c] \in Int
      BY DEF Progress
    <2>4. \A f \in ensure_releases[x] : f.release \in Int
      BY DEF IInv, TypeOK, GpuThreadsTyped, OrderFence
    <2>5. \A f \in ensure_releases'[x] :
            context_lost'[c] \/ f.release =< executed'[c]
      BY <1>1, <2>1, <2>3, <2>4 DEF ThreadCovered
    <2>6. pc'[x] = "finish" /\ Current(x)'.order_num > 0 =>
            context_lost'[c] \/ Current(x)'.release =< executed'[c]
      BY <1>1, <2>1, <2>2, <2>3 DEF ThreadCovered
    <2> QED
      BY <1>2, <2>1, <2>5, <2>6 DEF ThreadCovered
  <1> QED
    BY <1>3, <1>4

\* The first task of a queue is the first of its client: what is promised of
\* earlier flushes has been executed.
LEMMA Settled ==
  ASSUME IInv, FlushOrder, NEW th \in Thread, tasks[th] # <<>>,
         NEW c \in Client, c = Current(th).client,
         NEW r \in Int, NEW n \in Int, WillExecute(c, r, n),
         \/ n < Current(th).order_num
         \/ n =< Current(th).order_num /\ Current(th).release =< executed[c]
  PROVE  context_lost[c] \/ r =< executed[c]
  <1>1. IsTaskQueue(tasks[th], th) /\ IsSorted(tasks[th])
    BY DEF IInv, TypeOK, GpuThreadsTyped, FlushOrder, ThreadInOrder
  <1>2. /\ ThreadOf[c] = th /\ executed[c] \in Int
        /\ Current(th).order_num \in Int /\ Current(th).release \in Int
    BY Running, SyncPointAssumption DEF IInv, TypeOK, GpuThreadsTyped, OrderNumber
  <1>3. \A u \in Flushes(c) :
          /\ u.order_num \in Int /\ u.release \in Int
          /\ \/ u.order_num > Current(th).order_num
             \/ u.order_num = Current(th).order_num /\ u.release = Current(th).release
    <2>1. \A u \in Flushes(c) : u.order_num \in Int /\ u.release \in Int
      BY SyncPointAssumption DEF Flushes, FlushesIn, OrderNumber
    <2>2. Flushes(c) = FlushesIn(tasks[th], Head(tasks[th]).client)
      BY <1>2 DEF Flushes, Current
    <2> QED
      BY <1>1, <2>1, <2>2, HeadFirst DEF Current
  <1> QED
    BY <1>2, <1>3 DEF WillExecute

\* What is promised of flushes that have been processed has been executed.
LEMMA ProcessedSettled ==
  ASSUME IInv, FlushOrder, ReleasesComeFirst, NEW c \in Client,
         NEW r \in Int, NEW n \in Int, WillExecute(c, r, n),
         n =< processed_order_num[c] \/ unprocessed_order_num[c] =< processed_order_num[c]
  PROVE  context_lost[c] \/ r =< executed[c]
  <1> SUFFICES ASSUME NEW u \in Flushes(c), r =< u.release, u.order_num =< n
               PROVE  context_lost[c] \/ r =< executed[c]
    BY DEF WillExecute
  <1> DEFINE th == ThreadOf[c]
  <1>1. /\ u.order_num \in Int /\ u.release \in Int /\ u.order_num > 0
        /\ processed_order_num[c] \in Int /\ unprocessed_order_num[c] \in Int
        /\ executed[c] \in Int /\ th \in Thread
    BY SyncPointAssumption
    DEF Flushes, FlushesIn, OrderNumber, IInv, TypeOK, SyncPointsTyped,
        GpuThreadsTyped
  <1>2. Finishing(c, u.order_num)
    BY <1>1 DEF FlushOrder, ClientInOrder
  <1>3. /\ pc[th] = "finish" /\ Current(th).client = c
        /\ Current(th).order_num = u.order_num
    BY <1>2 DEF Finishing
  <1>4. /\ tasks[th] # <<>> /\ IsTaskQueue(tasks[th], th) /\ IsSorted(tasks[th])
    BY <1>1, <1>3, Running
    DEF IInv, TypeOK, GpuThreadsTyped, FlushOrder, ThreadInOrder
  <1>5. u.release = Current(th).release
    <2>1. Flushes(c) = FlushesIn(tasks[th], Head(tasks[th]).client)
      BY <1>3 DEF Flushes, Current
    <2> QED
      BY <1>1, <1>3, <1>4, <2>1, HeadFirst DEF Current
  <1>6. context_lost[c] \/ Current(th).release =< executed[c]
    BY <1>1, <1>3 DEF ReleasesComeFirst, ThreadCovered
  <1> QED
    BY <1>1, <1>5, <1>6

LEMMA BeginProcessingOrderNumberCovered ==
  ASSUME IInv, IInv', FlushOrder, Progress, ReleasesComeFirst,
         NEW th \in Thread, BeginProcessingOrderNumber(th)
  PROVE  ReleasesComeFirst'
  <1>0. PICK c \in Client, n \in Int : /\ c = Current(th).client
                                       /\ n = Current(th).order_num
    BY Running, SyncPointAssumption
    DEF BeginProcessingOrderNumber, IInv, OrderNumber
  <1> DEFINE expired == ExpiredAtBegin(c, n)
  <1>1. /\ pc[th] = "idle" /\ pc'[th] = "run" /\ tasks[th] # <<>>
        /\ \A x \in Thread \ {th} : /\ pc'[x] = pc[x]
                                    /\ ensure_releases'[x] = ensure_releases[x]
        /\ ensure_releases'[th] = expired
        /\ order_fence_queue'[c] \subseteq order_fence_queue[c]
        /\ \A d \in Client \ {c} : order_fence_queue'[d] = order_fence_queue[d]
        /\ UNCHANGED <<client_vars, unprocessed_order_num, tasks, executed,
                       context_lost>>
    BY <1>0 DEF BeginProcessingOrderNumber, IInv, TypeOK, GpuThreadsTyped,
       SyncPointsTyped
  <1>2. \A d \in Client : ClientCovered(d)'
    BY <1>1, ClientsCovered
  <1>3. \A f \in expired : context_lost[c] \/ f.release =< executed[c]
    <2> SUFFICES ASSUME NEW f \in expired
                 PROVE  context_lost[c] \/ f.release =< executed[c]
      OBVIOUS
    <2>1. f \in order_fence_queue[c] /\ f.order_num < n
      BY DEF ExpiredAtBegin
    <2>2. f.release \in Int /\ f.order_num \in Int
      BY <2>1, SyncPointAssumption
      DEF IInv, TypeOK, SyncPointsTyped, OrderFence, OrderNumber
    <2>3. WillExecute(c, f.release, f.order_num)
      BY <2>1 DEF ReleasesComeFirst, ClientCovered
    <2> QED
      BY <1>0, <1>1, <2>1, <2>2, <2>3, Settled
  <1>4. Current(th)'.client = c
    BY <1>0, <1>1 DEF Current
  <1>5. \A x \in Thread : ThreadCovered(x)'
    BY <1>1, <1>3, <1>4, ThreadsCovered
  <1> QED
    BY <1>2, <1>5 DEF ReleasesComeFirst

LEMMA FinishProcessingOrderNumberCovered ==
  ASSUME IInv, IInv', FlushOrder, Progress, ReleasesComeFirst,
         NEW th \in Thread, FinishProcessingOrderNumber(th)
  PROVE  ReleasesComeFirst'
  <1>0. PICK c \in Client, n \in Int : /\ c = Current(th).client
                                       /\ n = Current(th).order_num
                                       /\ tasks[th] # <<>>
    BY Running, SyncPointAssumption
    DEF FinishProcessingOrderNumber, BetweenCommands, IInv, OrderNumber
  <1> DEFINE expired == ExpiredAtFinish(c, n)
  <1>1. /\ \A x \in Thread \ {th} : /\ pc'[x] = pc[x]
                                    /\ ensure_releases'[x] = ensure_releases[x]
        /\ ensure_releases'[th] = expired
        /\ order_fence_queue'[c] \subseteq order_fence_queue[c]
        /\ \A d \in Client \ {c} : order_fence_queue'[d] = order_fence_queue[d]
        /\ UNCHANGED <<client_vars, unprocessed_order_num, tasks, executed,
                       context_lost>>
    BY <1>0 DEF FinishProcessingOrderNumber, IInv, TypeOK, GpuThreadsTyped,
       SyncPointsTyped
  <1>2. \A d \in Client : ClientCovered(d)'
    BY <1>1, ClientsCovered
  <1>3. context_lost[c] \/ Current(th).release =< executed[c]
    <2>1. executed[c] \in Int
      BY DEF IInv, TypeOK, GpuThreadsTyped
    <2> QED
      BY <1>0, <2>1 DEF FinishProcessingOrderNumber, CommandsDone
  <1>4. \A f \in expired : context_lost[c] \/ f.release =< executed[c]
    <2> SUFFICES ASSUME NEW f \in expired, ~context_lost[c]
                 PROVE  f.release =< executed[c]
      OBVIOUS
    <2>1. f \in order_fence_queue[c] /\ f.order_num =< n
      BY DEF ExpiredAtFinish
    <2>2. f.release \in Int /\ f.order_num \in Int
      BY <2>1, SyncPointAssumption
      DEF IInv, TypeOK, SyncPointsTyped, OrderFence, OrderNumber
    <2>3. WillExecute(c, f.release, f.order_num)
      BY <2>1 DEF ReleasesComeFirst, ClientCovered
    <2> QED
      BY <1>0, <1>3, <2>1, <2>2, <2>3, Settled
  <1>5. Current(th)'.client = c /\ Current(th)'.release = Current(th).release
    BY <1>0, <1>1 DEF Current
  <1>6. \A x \in Thread : ThreadCovered(x)'
    BY <1>1, <1>3, <1>4, <1>5, ThreadsCovered
  <1> QED
    BY <1>2, <1>6 DEF ReleasesComeFirst

\* The steps that only release or are between commands.
LEMMA QuietCovered ==
  ASSUME IInv, IInv', FlushOrder, Progress, ReleasesComeFirst, NEW th \in Thread,
         \/ EnsureReleased(th)
         \/ RunCallback(th)
         \/ FenceSyncRelease(th)
         \/ LoseContext(th)
         \/ ReleaseAll(th)
         \/ DestroySyncPointClient(th)
         \/ DestroyOrderData(th)
  PROVE  ReleasesComeFirst'
  <1>1. UNCHANGED <<client_vars, unprocessed_order_num, tasks>>
    BY DEF EnsureReleased, RunCallback, FenceSyncRelease, LoseContext, ReleaseAll,
       DestroySyncPointClient, DestroyOrderData, order_vars
  <1>2. \A d \in Client : order_fence_queue'[d] \subseteq order_fence_queue[d]
    BY DEF EnsureReleased, RunCallback, FenceSyncRelease, LoseContext, ReleaseAll,
       DestroySyncPointClient, DestroyOrderData, order_vars, IInv, TypeOK,
       SyncPointsTyped
  <1>3. \A x \in Thread : ensure_releases'[x] \subseteq ensure_releases[x]
    BY DEF EnsureReleased, RunCallback, FenceSyncRelease, LoseContext, ReleaseAll,
       DestroySyncPointClient, DestroyOrderData, IInv, TypeOK, GpuThreadsTyped
  <1>4. ASSUME NEW x \in Thread, pc'[x] = "finish"
        PROVE  pc[x] = "finish" \/ Current(x)'.order_num = 0
    <2>1. CASE DestroyOrderData(th)
      <3>1. /\ pc[th] = "erased" /\ \A y \in Thread \ {th} : pc'[y] = pc[y]
        BY <2>1 DEF DestroyOrderData, IInv, TypeOK, GpuThreadsTyped
      <3>2. Current(th)'.order_num = 0
        BY <1>1, <3>1 DEF FlushOrder, ThreadInOrder, Current
      <3> QED
        BY <1>4, <3>1, <3>2
    <2>2. CASE ~DestroyOrderData(th)
      BY <1>4, <2>2
      DEF EnsureReleased, RunCallback, FenceSyncRelease, LoseContext, ReleaseAll,
          DestroySyncPointClient, IInv, TypeOK, GpuThreadsTyped
    <2> QED
      BY <2>1, <2>2
  <1>5. \A d \in Client : ClientCovered(d)'
    BY <1>1, <1>2, ClientsCovered
  <1>6. \A x \in Thread : ThreadCovered(x)'
    BY <1>1, <1>3, <1>4, ThreadsCovered
  <1> QED
    BY <1>5, <1>6 DEF ReleasesComeFirst

LEMMA WaitedCovered ==
  ASSUME IInv, IInv', FlushOrder, Progress, ReleasesComeFirst, NEW th \in Thread,
         WaitFenceSync(th) \/ WaitReturns(th)
  PROVE  ReleasesComeFirst'
  <1>1. /\ UNCHANGED <<client_vars, unprocessed_order_num, order_fence_queue,
                       ensure_releases>>
        /\ pc[th] \in {"run", "waiting"} /\ pc'[th] # "finish"
        /\ \A x \in Thread \ {th} : pc'[x] = pc[x]
        /\ tasks' = tasks \/ tasks' = [tasks EXCEPT ![th][1].wait = NoWait]
    BY DEF WaitFenceSync, WaitReturns, BetweenCommands, order_vars, IInv, TypeOK,
       GpuThreadsTyped
  <1>2. \A d \in Client : ClientCovered(d)'
    BY <1>1, ClientsCovered
  <1>3. CASE tasks' = tasks
    <2>1. \A x \in Thread : pc'[x] = "finish" => pc[x] = "finish"
      BY <1>1
    <2>2. \A x \in Thread : ThreadCovered(x)'
      BY <1>1, <1>3, <2>1, ThreadsCovered
    <2> QED
      BY <1>2, <2>2 DEF ReleasesComeFirst
  <1>4. CASE tasks' = [tasks EXCEPT ![th][1].wait = NoWait]
    <2> SUFFICES ASSUME NEW x \in Thread PROVE ThreadCovered(x)'
      BY <1>2 DEF ReleasesComeFirst
    <2>1. /\ Current(x)'.client = Current(x).client
          /\ Current(x)'.order_num = Current(x).order_num
          /\ Current(x)'.release = Current(x).release
          /\ x # th => tasks'[x] = tasks[x]
          /\ DOMAIN tasks'[th] = DOMAIN tasks[th]
          /\ \A i \in DOMAIN tasks[th] :
               /\ tasks'[th][i].order_num = tasks[th][i].order_num
               /\ tasks'[th][i].wait \in {NoWait, tasks[th][i].wait}
      BY <1>1, <1>4, WaitedQueue
    <2>2. \A i \in DOMAIN tasks'[x] : WaitCovered(tasks[x][i])'
      <3>1. ThreadCovered(x)
        BY DEF ReleasesComeFirst
      <3> QED
        BY <2>1, <3>1, QueueCoveredKept
    <2>3. pc'[x] = "finish" => pc[x] = "finish"
      BY <1>1
    <2> QED
      BY <1>1, <2>1, <2>2, <2>3, ThreadCoveredKept DEF ReleasesComeFirst
  <1> QED
    BY <1>1, <1>3, <1>4

LEMMA FinishTaskCovered ==
  ASSUME IInv, IInv', FlushOrder, Progress, ReleasesComeFirst, NEW th \in Thread,
         FinishTask(th)
  PROVE  ReleasesComeFirst'
  <1>1. UNCHANGED <<client_vars, unprocessed_order_num, order_fence_queue,
                    ensure_releases>>
    BY DEF FinishTask, order_vars
  <1>2. \A d \in Client : ClientCovered(d)'
    BY <1>1, ClientsCovered
  <1>3. ASSUME NEW x \in Thread \ {th} PROVE ThreadCovered(x)'
    BY <1>1, TakenOff, ThreadCoveredStays DEF ReleasesComeFirst
  <1>4. ThreadCovered(th)'
    <2>1. /\ pc'[th] = "idle" /\ ensure_releases'[th] = {}
          /\ \A i \in DOMAIN tasks'[th] : /\ i + 1 \in DOMAIN tasks[th]
                                          /\ tasks'[th][i] = tasks[th][i + 1]
      BY <1>1, TakenOff DEF Ready
    <2>2. \A i \in DOMAIN tasks'[th] : WaitCovered(tasks[th][i])'
      BY <2>1, QueueCoveredKept DEF ReleasesComeFirst
    <2> QED
      BY <2>1, <2>2 DEF ThreadCovered
  <1> QED
    BY <1>2, <1>3, <1>4 DEF ReleasesComeFirst

\* What the flush that waits is promised.
LEMMA WaiterPromised ==
  ASSUME IInv, ReleasesComeFirst, NEW th \in Thread, pc[th] \in {"found", "waiting"}
  PROVE  /\ Current(th).wait \in Token
         /\ WillExecute(Current(th).wait[1], Current(th).wait[2],
                        Current(th).order_num - 1)
  <1>1. /\ tasks[th] # <<>> /\ IsTaskQueue(tasks[th], th)
        /\ Current(th).wait # NoWait /\ Current(th).wait \in Token
    BY Running DEF IInv, TypeOK, GpuThreadsTyped, ThreadsBusy
  <1>2. WaitCovered(Current(th))
    BY <1>1, QueueHead DEF ReleasesComeFirst, ThreadCovered, Current
  <1> QED
    BY <1>1, <1>2 DEF WaitCovered

\* The same, of values that stay.
LEMMA WaiterValues ==
  ASSUME IInv, FlushOrder, ReleasesComeFirst, NEW th \in Thread,
         pc[th] \in {"found", "waiting"}
  PROVE  \E c \in Client, d \in Client, r \in 1 .. MaxRelease, n \in Int :
           /\ c = Current(th).client /\ ThreadOf[c] = th
           /\ Current(th).wait = <<d, r>>
           /\ n = Current(th).order_num /\ n = current_order_num[c]
           /\ WillExecute(d, r, n - 1)
  <1>1. /\ Current(th).client \in Client /\ ThreadOf[Current(th).client] = th
        /\ Current(th).order_num \in Int
    BY Running, SyncPointAssumption DEF IInv, OrderNumber
  <1>2. current_order_num[Current(th).client] = Current(th).order_num
    BY RunningFlush
  <1>3. PICK d \in Client, r \in 1 .. MaxRelease : Current(th).wait = <<d, r>>
    BY WaiterPromised DEF Token
  <1>4. WillExecute(d, r, Current(th).order_num - 1)
    BY <1>3, WaiterPromised
  <1> QED
    BY <1>1, <1>2, <1>3, <1>4

\* A fence that is added expires no earlier than the flush with the release.
LEMMA WaitFenceCovered ==
  ASSUME IInv, IInv', FlushOrder, Progress, ReleasesComeFirst,
         NEW th \in Thread, Wait(th)
  PROVE  ReleasesComeFirst'
  <1>0. PICK c \in Client, d \in Client, r \in 1 .. MaxRelease, n \in Int :
          /\ c = Current(th).client /\ Current(th).wait = <<d, r>>
          /\ n = Current(th).order_num /\ n = current_order_num[c]
          /\ WillExecute(d, r, n - 1)
    BY WaiterValues DEF Wait
  <1> DEFINE fence == [order_num |-> ExpectedOrderNumber(d, n), release |-> r]
  <1>1. /\ UNCHANGED <<client_vars, unprocessed_order_num, tasks, executed,
                       context_lost, ensure_releases>>
        /\ \A x \in Thread : pc'[x] = "finish" => pc[x] = "finish"
        /\ \A x \in Client : order_fence_queue'[x] \subseteq
             order_fence_queue[x] \cup (IF x = d THEN {fence} ELSE {})
    BY <1>0 DEF Wait, IInv, TypeOK, GpuThreadsTyped, SyncPointsTyped
  <1>2. \A x \in Thread : ThreadCovered(x)'
    BY <1>1, ThreadsCovered
  <1>3. fence.order_num \in Int /\ WillExecute(d, fence.release, fence.order_num)
    <2>1. unprocessed_order_num[d] \in Int
      BY SyncPointAssumption DEF IInv, TypeOK, SyncPointsTyped, OrderNumber
    <2>2. fence.order_num \in Int
      BY <2>1 DEF ExpectedOrderNumber
    <2>3. CASE context_lost[d] \/ r =< executed[d]
      BY <2>2, <2>3 DEF WillExecute
    <2>4. CASE \E u \in Flushes(d) : r =< u.release /\ u.order_num =< n - 1
      <3>1. PICK u \in Flushes(d) : r =< u.release /\ u.order_num =< n - 1
        BY <2>4
      <3>2. u.order_num =< unprocessed_order_num[d]
        BY DEF FlushOrder, ClientInOrder
      <3>3. u.order_num \in Int
        BY SyncPointAssumption DEF Flushes, FlushesIn, OrderNumber
      <3>4. u.order_num =< fence.order_num
        BY <2>1, <3>1, <3>2, <3>3 DEF ExpectedOrderNumber
      <3> QED
        BY <2>2, <3>1, <3>4 DEF WillExecute
    <2> QED
      BY <1>0, <2>2, <2>3, <2>4 DEF WillExecute
  <1>4. ASSUME NEW x \in Client PROVE ClientCovered(x)'
    <2>1. ClientCovered(x)
      BY DEF ReleasesComeFirst
    <2>2. /\ flushed_fence_sync_release[x] \in Int /\ unprocessed_order_num[x] \in Int
          /\ flush[x] \in GpuTask
          /\ \A f \in order_fence_queue[x] : f.release \in Int /\ f.order_num \in Int
      BY SyncPointAssumption
      DEF IInv, TypeOK, ClientThreadsTyped, SyncPointsTyped, OrderNumber, OrderFence
    <2>3. PICK m \in Int, k \in Int, t \in GpuTask :
            /\ m = flushed_fence_sync_release[x] /\ k = unprocessed_order_num[x]
            /\ t = flush[x]
      BY <2>2
    <2>4. /\ WillExecute(x, m, k)'
          /\ Flushing(x) => WaitCovered(t)'
      BY <2>1, <2>3 DEF ClientCovered, Progress
    <2>5. PICK e \in Int : e = fence.order_num
      BY <1>3
    <2>6. WillExecute(d, r, e)'
      BY <1>3, <2>5 DEF Progress
    <2>7. ASSUME NEW f \in order_fence_queue'[x]
          PROVE  WillExecute(x, f.release, f.order_num)'
      <3>1. CASE f \in order_fence_queue[x]
        BY <2>1, <2>2, <3>1 DEF ClientCovered, Progress
      <3>2. CASE f \notin order_fence_queue[x]
        <4>1. x = d /\ f.release = r /\ f.order_num = e
          BY <1>1, <2>5, <3>2
        <4> QED
          BY <2>6, <4>1
      <3> QED
        BY <3>1, <3>2
    <2> QED
      BY <1>1, <2>3, <2>4, <2>7 DEF ClientCovered, Flushing, client_vars
  <1> QED
    BY <1>2, <1>4 DEF ReleasesComeFirst

LEMMA InitCovered == Init => ReleasesComeFirst
  <1> SUFFICES ASSUME Init PROVE ReleasesComeFirst
    OBVIOUS
  <1>1. ASSUME NEW c \in Client PROVE ClientCovered(c)
    BY DEF Init, ClientCovered, WillExecute, Flushing
  <1>2. ASSUME NEW th \in Thread PROVE ThreadCovered(th)
    BY DEF Init, ThreadCovered
  <1> QED
    BY <1>1, <1>2 DEF ReleasesComeFirst

LEMMA StepCovered ==
  IInv /\ IInv' /\ FlushOrder /\ ReleasesComeFirst /\ [Next]_vars => ReleasesComeFirst'
  <1> SUFFICES ASSUME IInv, IInv', FlushOrder, ReleasesComeFirst, [Next]_vars
               PROVE  ReleasesComeFirst'
    OBVIOUS
  <1>1. Next => Progress
    BY StepProgress
  <1>2. ASSUME Next, NEW c \in Client, ClientNext(c) PROVE ReleasesComeFirst'
    BY <1>1, <1>2, FlushCovered, SetUnprocessedOrderNumberCovered,
       QueueFlushCovered, DestroyCovered
    DEF ClientNext
  <1>3. ASSUME Next, NEW th \in Thread, GpuNext(th) PROVE ReleasesComeFirst'
    BY <1>1, <1>3, BeginProcessingOrderNumberCovered,
       FinishProcessingOrderNumberCovered, QuietCovered, WaitedCovered,
       FinishTaskCovered, WaitFenceCovered
    DEF GpuNext
  <1>4. ASSUME UNCHANGED vars PROVE ReleasesComeFirst'
    BY <1>4 DEF vars, client_vars, order_vars, ReleasesComeFirst, ClientCovered,
       ThreadCovered, Current, WaitCovered, WillExecute, Flushing, Flushes
  <1> QED
    BY <1>2, <1>3, <1>4 DEF Next

-----------------------------------------------------------------------------
(* No release is forced.                                                   *)

\* A fence that is released by force is that of a client without a context.
LEMMA OnlyLostForced ==
  ASSUME IInv, ReleasesComeFirst, NeverForced, NEW th \in Thread,
         NEW f \in ensure_releases[th],
         ~(f.release =< fence_sync_release[Current(th).client])
  PROVE  context_lost[Current(th).client]
  <1>1. PICK c \in Client : c = Current(th).client
    BY Running DEF IInv, ThreadsBusy, Ready
  <1>2. /\ f.release \in 1 .. MaxRelease /\ executed[c] \in Int
        /\ fence_sync_release[c] \in Int
    BY SyncPointAssumption
    DEF IInv, TypeOK, GpuThreadsTyped, SyncPointsTyped, OrderFence, Release, UINT64_MAX
  <1>3. context_lost[c] \/ f.release =< executed[c]
    BY <1>1 DEF ReleasesComeFirst, ThreadCovered
  <1>4. context_lost[c] \/ fence_sync_release[c] \in {executed[c], UINT64_MAX}
    BY DEF NeverForced
  <1> QED
    BY <1>1, <1>2, <1>3, <1>4, SyncPointAssumption DEF UINT64_MAX

LEMMA StepNeverForced ==
  IInv /\ ReleasesComeFirst /\ NeverForced /\ [Next]_vars => NeverForced'
  <1> SUFFICES ASSUME IInv, ReleasesComeFirst, NeverForced, [Next]_vars
               PROVE  NeverForced'
    OBVIOUS
  <1>1. ASSUME NEW th \in Thread, EnsureReleased(th) PROVE NeverForced'
    <2>1. PICK f \in ensure_releases[th] :
            IF f.release =< fence_sync_release[Current(th).client]
              THEN UNCHANGED fence_sync_release
              ELSE ReleaseFenceSyncLocked(th, Current(th).client, f.release)
      BY <1>1 DEF EnsureReleased
    <2>2. UNCHANGED <<executed, context_lost>>
      BY <1>1 DEF EnsureReleased
    <2>3. CASE f.release =< fence_sync_release[Current(th).client]
      BY <2>1, <2>2, <2>3 DEF NeverForced
    <2>4. CASE ~(f.release =< fence_sync_release[Current(th).client])
      <3>1. context_lost[Current(th).client]
        BY <2>4, OnlyLostForced
      <3>2. \A d \in Client : d # Current(th).client =>
              fence_sync_release'[d] = fence_sync_release[d]
        BY <2>1, <2>4 DEF ReleaseFenceSyncLocked, IInv, TypeOK, SyncPointsTyped
      <3> QED
        BY <2>2, <3>1, <3>2 DEF NeverForced
    <2> QED
      BY <2>3, <2>4
  <1>2. ASSUME NEW th \in Thread, FenceSyncRelease(th) PROVE NeverForced'
    BY <1>2 DEF FenceSyncRelease, ReleaseFenceSyncLocked, NeverForced, IInv, TypeOK,
       GpuThreadsTyped, SyncPointsTyped
  <1>3. ASSUME NEW th \in Thread, ReleaseAll(th) PROVE NeverForced'
    BY <1>3 DEF ReleaseAll, ReleaseFenceSyncLocked, NeverForced, IInv, TypeOK,
       SyncPointsTyped
  <1>4. ASSUME NEW th \in Thread, LoseContext(th) PROVE NeverForced'
    BY <1>4 DEF LoseContext, NeverForced, IInv, TypeOK, GpuThreadsTyped
  <1>5. ASSUME UNCHANGED <<executed, context_lost, fence_sync_release>>
        PROVE  NeverForced'
    BY <1>5 DEF NeverForced
  <1>6. ASSUME NEW c \in Client, ClientNext(c) PROVE NeverForced'
    BY <1>5, <1>6 DEF ClientNext, Flush, SetUnprocessedOrderNumber, QueueFlush,
       Destroy
  <1>7. ASSUME NEW th \in Thread, GpuNext(th) PROVE NeverForced'
    BY <1>1, <1>2, <1>3, <1>4, <1>5, <1>7
    DEF GpuNext, BeginProcessingOrderNumber, RunCallback, WaitFenceSync, Wait,
        WaitReturns, FinishProcessingOrderNumber, DestroySyncPointClient,
        DestroyOrderData, FinishTask
  <1> QED
    BY <1>5, <1>6, <1>7 DEF Next, vars

\* A wait that is called back at once is for a release that has been executed,
\* or never will be.
LEMMA NotifiedInTime ==
  ASSUME IInv, FlushOrder, ReleasesComeFirst, NeverForced,
         NEW th \in Thread, pc[th] = "found",
         NEW c \in Client, NEW d \in Client, NEW r \in 1 .. MaxRelease,
         c = Current(th).client, Current(th).wait = <<d, r>>,
         NotifiedAtOnce(c, d, r)
  PROVE  context_lost[d] \/ r =< executed[d] \/ fence_sync_release[d] = UINT64_MAX
  <1>1. PICK n \in Int : /\ n = Current(th).order_num /\ n = current_order_num[c]
                         /\ WillExecute(d, r, n - 1)
    BY WaiterValues
  <1>2. CASE r =< fence_sync_release[d]
    BY <1>2 DEF NeverForced
  <1>3. CASE c = d
    <2>1. PICK m \in Int : m = n - 1
      BY <1>1
    <2>2. tasks[th] # <<>>
      BY Running DEF IInv
    <2>3. m < Current(th).order_num
      BY <1>1, <2>1
    <2>4. WillExecute(c, r, m)
      BY <1>1, <1>3, <2>1
    <2>5. context_lost[c] \/ r =< executed[c]
      BY <2>2, <2>3, <2>4, Settled
    <2> QED
      BY <1>3, <2>5
  <1>4. CASE ~IsValidRelease(d, n)
    <2>1. CASE destroyed[d]
      BY <2>1 DEF FlushOrder, ClientInOrder
    <2>2. CASE ~destroyed[d]
      <3>1. processed_order_num[d] \in Int /\ unprocessed_order_num[d] \in Int
        BY SyncPointAssumption DEF IInv, TypeOK, SyncPointsTyped, OrderNumber
      <3>2. \/ n - 1 =< processed_order_num[d]
            \/ unprocessed_order_num[d] =< processed_order_num[d]
        BY <1>4, <2>2, <3>1 DEF IsValidRelease
      <3> QED
        BY <1>1, <3>2, ProcessedSettled
    <2> QED
      BY <2>1, <2>2
  <1> QED
    BY <1>1, <1>2, <1>3, <1>4 DEF NotifiedAtOnce

-----------------------------------------------------------------------------
(* The callbacks.                                                          *)

LEMMA SignaledIs ==
  ASSUME NEW d \in Client, NEW r \in 1 .. MaxRelease
  PROVE  /\ Abstract!Signaled(<<d, r>>) <=>
              r =< executed[d] \/ context_lost[d] \/ fence_sync_release[d] = UINT64_MAX
         /\ Abstract!Signaled(<<d, r>>)' <=>
              \/ r =< executed'[d]
              \/ context_lost'[d]
              \/ fence_sync_release'[d] = UINT64_MAX
  BY DEF Abstract!Signaled, Gone

\* The steps of a GPU thread that do not end a wait.
GpuStays(th) ==
  \/ BeginProcessingOrderNumber(th)
  \/ EnsureReleased(th)
  \/ RunCallback(th)
  \/ FenceSyncRelease(th)
  \/ WaitFenceSync(th)
  \/ Wait(th)
  \/ LoseContext(th)
  \/ FinishProcessingOrderNumber(th)
  \/ ReleaseAll(th)
  \/ DestroySyncPointClient(th)
  \/ DestroyOrderData(th)
  \/ FinishTask(th)

\* What a step that ends no wait keeps.
WaitsKept ==
  \A c \in Client :
    /\ \A token \in Token : WaitsFor(c, token) => WaitsFor(c, token)'
    /\ MayGoOn(c) => MayGoOn(c)'

\* A client that is gone stays gone.
LEMMA GoneStays ==
  ASSUME IInv, IInv', FlushOrder, Next, NEW d \in Client,
         fence_sync_release[d] = UINT64_MAX
  PROVE  fence_sync_release'[d] = UINT64_MAX
  <1>1. ASSUME NEW th \in Thread, EnsureReleased(th)
        PROVE  fence_sync_release'[d] = UINT64_MAX
    BY <1>1, EnsureReleasedGone
  <1>2. ASSUME NEW th \in Thread, FenceSyncRelease(th)
        PROVE  fence_sync_release'[d] = UINT64_MAX
    <2>1. d # Current(th).client
      BY <1>2, RunningFlush DEF FenceSyncRelease, BetweenCommands
    <2> QED
      BY <1>2, <2>1
      DEF FenceSyncRelease, ReleaseFenceSyncLocked, IInv, TypeOK, SyncPointsTyped
  <1>3. ASSUME NEW th \in Thread, ReleaseAll(th)
        PROVE  fence_sync_release'[d] = UINT64_MAX
    BY <1>3 DEF ReleaseAll, ReleaseFenceSyncLocked, IInv, TypeOK, SyncPointsTyped
  <1>4. ASSUME NEW c \in Client, ClientNext(c)
        PROVE  fence_sync_release'[d] = UINT64_MAX
    BY <1>4 DEF ClientNext, Flush, SetUnprocessedOrderNumber, QueueFlush, Destroy
  <1>5. ASSUME NEW th \in Thread, GpuNext(th)
        PROVE  fence_sync_release'[d] = UINT64_MAX
    BY <1>1, <1>2, <1>3, <1>5
    DEF GpuNext, BeginProcessingOrderNumber, RunCallback, WaitFenceSync, Wait,
        WaitReturns, LoseContext, FinishProcessingOrderNumber,
        DestroySyncPointClient, DestroyOrderData, FinishTask
  <1> QED
    BY <1>4, <1>5 DEF Next

LEMMA SignaledStays ==
  ASSUME IInv, IInv', FlushOrder, ReleasesComeFirst, Next,
         NEW token \in Token, Abstract!Signaled(token)
  PROVE  Abstract!Signaled(token)'
  <1>1. PICK d \in Client, r \in 1 .. MaxRelease : token = <<d, r>>
    BY DEF Token
  <1>2. /\ context_lost[d] => context_lost'[d]
        /\ executed[d] =< executed'[d]
        /\ executed[d] \in Int /\ executed'[d] \in Int
    BY StepProgress DEF Progress
  <1> QED
    BY <1>1, <1>2, SignaledIs, GoneStays

\* A client goes on waiting until its thread returns from the wait.
LEMMA WaitsStay ==
  ASSUME IInv, IInv', FlushOrder, ReleasesComeFirst, Next,
         (\E d \in Client : ClientNext(d)) \/ (\E th \in Thread : GpuStays(th))
  PROVE  WaitsKept
  <1>1. ASSUME NEW c \in Client, NEW token \in Token, WaitsFor(c, token)
        PROVE  WaitsFor(c, token)'
    <2> DEFINE x == ThreadOf[c]
    <2>1. x \in Thread /\ pc[x] = "waiting"
      BY <1>1, SyncPointAssumption DEF WaitsFor
    <2> SUFFICES pc'[x] = "waiting" /\ Current(x)' = Current(x)
      BY <1>1 DEF WaitsFor
    <2>2. ASSUME NEW d \in Client, Flush(d) \/ SetUnprocessedOrderNumber(d)
          PROVE  pc'[x] = "waiting" /\ Current(x)' = Current(x)
      BY <2>1, <2>2 DEF Flush, SetUnprocessedOrderNumber, Current
    <2>3. ASSUME NEW d \in Client, QueueFlush(d)
          PROVE  pc'[x] = "waiting" /\ Current(x)' = Current(x)
      <3>1. /\ tasks' = [tasks EXCEPT ![Service(d)] = Append(@, flush[d])] /\ pc' = pc
            /\ flush[d] \in GpuTask /\ flush[d].client = d
        BY <2>3 DEF QueueFlush, IInv, TypeOK, ClientThreadsTyped
      <3> QED
        BY <2>1, <3>1, QueuedTask
    <2>4. ASSUME NEW d \in Client, Destroy(d)
          PROVE  pc'[x] = "waiting" /\ Current(x)' = Current(x)
      <3>1. DestroyTask(d) \in GpuTask /\ DestroyTask(d).client = d
        BY SyncPointAssumption DEF DestroyTask, GpuTask, OrderNumber
      <3>2. tasks' = [tasks EXCEPT ![Service(d)] = Append(@, DestroyTask(d))]
            /\ pc' = pc
        BY <2>4 DEF Destroy
      <3> QED
        BY <2>1, <3>1, <3>2, QueuedTask
    <2>5. ASSUME NEW th \in Thread, GpuStays(th), th # x
          PROVE  pc'[x] = "waiting" /\ Current(x)' = Current(x)
      <3>1. /\ DOMAIN tasks = Thread
            /\ pc \in [Thread -> {"idle", "run", "found", "waiting", "finish",
                                 "destroy", "erased"}]
        BY DEF IInv, TypeOK, GpuThreadsTyped
      <3>2. pc'[x] = pc[x]
        BY <2>1, <2>5, <3>1
        DEF GpuStays, BeginProcessingOrderNumber, EnsureReleased, RunCallback,
            FenceSyncRelease, WaitFenceSync, Wait, LoseContext,
            FinishProcessingOrderNumber, ReleaseAll, DestroySyncPointClient,
            DestroyOrderData, FinishTask
      <3>3. tasks'[x] = tasks[x]
        <4>1. CASE WaitFenceSync(th) \/ FinishTask(th)
          BY <2>1, <2>5, <3>1, <4>1 DEF WaitFenceSync, FinishTask
        <4>2. CASE ~(WaitFenceSync(th) \/ FinishTask(th))
          BY <2>5, <4>2
          DEF GpuStays, BeginProcessingOrderNumber, EnsureReleased, RunCallback,
              FenceSyncRelease, Wait, LoseContext, FinishProcessingOrderNumber,
              ReleaseAll, DestroySyncPointClient, DestroyOrderData
        <4> QED
          BY <4>1, <4>2
      <3> QED
        BY <2>1, <3>2, <3>3 DEF Current
    <2>6. ASSUME GpuStays(x)
          PROVE  pc'[x] = "waiting" /\ Current(x)' = Current(x)
      BY <2>1, <2>6
      DEF GpuStays, BeginProcessingOrderNumber, EnsureReleased, RunCallback,
          FenceSyncRelease, WaitFenceSync, Wait, LoseContext, BetweenCommands,
          FinishProcessingOrderNumber, ReleaseAll, DestroySyncPointClient,
          DestroyOrderData, FinishTask, Current
    <2> QED
      BY <2>2, <2>3, <2>4, <2>5, <2>6 DEF ClientNext
  <1>2. ASSUME NEW c \in Client, MayGoOn(c) PROVE MayGoOn(c)'
    <2>1. PICK token \in Token : WaitsFor(c, token) /\ Abstract!Signaled(token)
      BY <1>2 DEF MayGoOn
    <2>2. WaitsFor(c, token)' /\ Abstract!Signaled(token)'
      BY <1>1, <2>1, SignaledStays
    <2> QED
      BY <2>2 DEF MayGoOn
  <1> QED
    BY <1>1, <1>2 DEF WaitsKept

\* The callbacks of client d's queue that a release takes are called in time.
LEMMA ReleasedInTime ==
  ASSUME IInv, IInv', CalledBackInTime, WaitsKept, NEW th \in Thread,
         NEW d \in Client, NEW release \in Release,
         ReleaseFenceSyncLocked(th, d, release), callback_list[th] = {},
         UNCHANGED fence_sync_wait_event,
         \A r \in 1 .. MaxRelease : r =< release => Abstract!Signaled(<<d, r>>)'
  PROVE  CalledBackInTime'
  <1>1. /\ \A cb \in release_callback_queue'[d] :
             cb \in release_callback_queue[d] /\ cb.release > release
        /\ \A x \in Client \ {d} : release_callback_queue'[x] = release_callback_queue[x]
        /\ \A x \in Thread \ {th} : callback_list'[x] = callback_list[x]
        /\ release_callback_queue' \in [Client -> SUBSET ReleaseCallback]
        /\ callback_list' \in [Thread -> SUBSET Client]
    BY ReleaseLocked DEF IInv, TypeOK
  <1>2. callback_list'[th] = {cb.waiter : cb \in CallbacksUpTo(d, release)}
    BY DEF ReleaseFenceSyncLocked, IInv, TypeOK, GpuThreadsTyped
  <1>3. \A x \in Client : \A cb \in release_callback_queue[x] :
          /\ cb.waiter \in Client /\ cb.release \in 1 .. MaxRelease
          /\ <<x, cb.release>> \in Token
    BY DEF IInv, TypeOK, SyncPointsTyped, ReleaseCallback, Token
  <1>4. \A x \in Client : release_callback_queue'[x] \subseteq release_callback_queue[x]
    BY <1>1
  <1>5. ASSUME NEW x \in Client, NEW cb \in release_callback_queue'[x]
        PROVE  WaitsFor(cb.waiter, <<x, cb.release>>)'
    BY <1>3, <1>4 DEF CalledBackInTime, WaitsKept
  <1>6. ASSUME NEW c \in callback_list'[th]
        PROVE  /\ c \in Client /\ MayGoOn(c)' /\ ~CallbackQueued(c)' /\ ~CalledBack(c)
    <2>1. PICK cb \in release_callback_queue[d] : cb.waiter = c /\ cb.release =< release
      BY <1>2, <1>6 DEF CallbacksUpTo
    <2>2. c \in Client /\ WaitsFor(c, <<d, cb.release>>)
      BY <1>3, <2>1 DEF CalledBackInTime
    <2>3. MayGoOn(c)'
      BY <1>3, <2>1, <2>2 DEF WaitsKept, MayGoOn
    <2>4. ~CalledBack(c)
      BY <2>1, <2>2 DEF CalledBackInTime, CallbackQueued
    <2>5. ASSUME NEW x \in Client, NEW other \in release_callback_queue'[x],
                 other.waiter = c
          PROVE  FALSE
      <3>1. other \in release_callback_queue[x] /\ (x = d => other.release > release)
        BY <1>1, <1>4, <2>5
      <3>2. WaitsFor(c, <<x, other.release>>)
        BY <2>5, <3>1 DEF CalledBackInTime
      <3>3. x = d /\ other.release = cb.release
        BY <2>2, <3>2 DEF WaitsFor
      <3>4. cb.release \in Int /\ release \in Int
        <4>1. cb.release \in 1 .. MaxRelease
          BY <1>3, <2>1
        <4>2. release \in Int
          BY DEF Release
        <4> QED
          BY <4>1, <4>2
      <3> QED
        BY <2>1, <3>1, <3>3, <3>4
    <2> QED
      BY <2>2, <2>3, <2>4, <2>5 DEF CallbackQueued
  <1>7. ASSUME NEW c \in Client, CalledBack(c)'
        PROVE  MayGoOn(c)' /\ ~CallbackQueued(c)'
    <2>1. CASE c \in callback_list'[th]
      BY <1>6, <2>1
    <2>2. CASE c \notin callback_list'[th]
      <3>1. CalledBack(c)
        BY <1>1, <1>7, <2>2 DEF CalledBack
      <3> QED
        BY <1>4, <3>1 DEF CalledBackInTime, WaitsKept, CallbackQueued
    <2> QED
      BY <2>1, <2>2
  <1>8. ASSUME NEW x \in Thread, NEW c \in callback_list'[x]
        PROVE  /\ ~fence_sync_wait_event'[c]
               /\ \A other \in Thread \ {x} : c \notin callback_list'[other]
    <2>1. CASE x = th
      BY <1>1, <1>6, <1>8, <2>1 DEF CalledBack
    <2>2. CASE x # th
      <3>1. c \in callback_list[x] /\ c \notin callback_list'[th]
        BY <1>1, <1>6, <1>8, <2>2 DEF CalledBack
      <3> QED
        BY <1>1, <2>2, <3>1 DEF CalledBackInTime
    <2> QED
      BY <2>1, <2>2
  <1> QED
    BY <1>5, <1>7, <1>8 DEF CalledBackInTime

\* The steps that call nobody back.
LEMMA QuietInTime ==
  ASSUME IInv, CalledBackInTime, WaitsKept,
         UNCHANGED <<fence_sync_wait_event, callback_list, release_callback_queue>>
  PROVE  CalledBackInTime'
  <1>1. \A d \in Client : \A cb \in release_callback_queue[d] :
          cb.waiter \in Client /\ <<d, cb.release>> \in Token
    BY DEF IInv, TypeOK, SyncPointsTyped, ReleaseCallback, Token
  <1>2. \A c \in Client : /\ CalledBack(c)' = CalledBack(c)
                          /\ CallbackQueued(c)' = CallbackQueued(c)
    BY DEF CalledBack, CallbackQueued
  <1>3. \A d \in Client : \A cb \in release_callback_queue[d] :
          WaitsFor(cb.waiter, <<d, cb.release>>)'
    BY <1>1 DEF CalledBackInTime, WaitsKept
  <1>4. \A c \in Client : CalledBack(c)' => MayGoOn(c)' /\ ~CallbackQueued(c)'
    BY <1>2 DEF CalledBackInTime, WaitsKept
  <1>5. \A th \in Thread : \A c \in callback_list'[th] :
          /\ ~fence_sync_wait_event'[c]
          /\ \A other \in Thread \ {th} : c \notin callback_list'[other]
    BY DEF CalledBackInTime
  <1> QED
    BY <1>3, <1>4, <1>5 DEF CalledBackInTime

LEMMA EnsureReleasedInTime ==
  ASSUME IInv, IInv', ReleasesComeFirst, NeverForced, CalledBackInTime, WaitsKept,
         NEW th \in Thread, EnsureReleased(th)
  PROVE  CalledBackInTime'
  <1>0. PICK c \in Client : c = Current(th).client
    BY Running DEF EnsureReleased, IInv, ThreadsBusy, Ready
  <1>1. PICK f \in ensure_releases[th] :
          IF f.release =< fence_sync_release[c]
            THEN UNCHANGED <<fence_sync_release, release_callback_queue,
                             callback_list>>
            ELSE ReleaseFenceSyncLocked(th, c, f.release)
    BY <1>0 DEF EnsureReleased
  <1>2. /\ UNCHANGED <<fence_sync_wait_event, context_lost>> /\ callback_list[th] = {}
    BY DEF EnsureReleased
  <1>3. CASE f.release =< fence_sync_release[c]
    BY <1>1, <1>2, <1>3, QuietInTime
  <1>4. CASE ~(f.release =< fence_sync_release[c])
    <2>1. context_lost'[c]
      BY <1>0, <1>2, <1>4, OnlyLostForced
    <2>2. f.release \in Release
      BY SyncPointAssumption
      DEF IInv, TypeOK, GpuThreadsTyped, OrderFence, Release, UINT64_MAX
    <2>3. \A r \in 1 .. MaxRelease : Abstract!Signaled(<<c, r>>)'
      BY <2>1, SignaledIs
    <2>4. ReleaseFenceSyncLocked(th, c, f.release)
      BY <1>1, <1>4
    <2> QED
      BY <1>2, <2>2, <2>3, <2>4, ReleasedInTime
  <1> QED
    BY <1>3, <1>4

LEMMA FenceSyncReleaseInTime ==
  ASSUME IInv, IInv', CalledBackInTime, WaitsKept, NEW th \in Thread,
         FenceSyncRelease(th)
  PROVE  CalledBackInTime'
  <1>0. PICK c \in Client : c = Current(th).client /\ Current(th).release \in 0 .. MaxRelease
    BY Running DEF FenceSyncRelease, BetweenCommands, IInv
  <1>1. PICK release \in Int : release = executed[c] + 1
    BY DEF IInv, TypeOK, GpuThreadsTyped
  <1>2. /\ ReleaseFenceSyncLocked(th, c, release) /\ callback_list[th] = {}
        /\ UNCHANGED fence_sync_wait_event
        /\ executed'[c] = release /\ executed[c] < Current(th).release
        /\ executed[c] \in Nat
    BY <1>0, <1>1
    DEF FenceSyncRelease, BetweenCommands, Ready, IInv, TypeOK, GpuThreadsTyped
  <1>3. release \in Release
    BY <1>0, <1>1, <1>2, SyncPointAssumption DEF Release, UINT64_MAX
  <1>4. \A r \in 1 .. MaxRelease : r =< release => Abstract!Signaled(<<c, r>>)'
    BY <1>2, SignaledIs
  <1> QED
    BY <1>2, <1>3, <1>4, ReleasedInTime

LEMMA ReleaseAllInTime ==
  ASSUME IInv, IInv', CalledBackInTime, WaitsKept, NEW th \in Thread, ReleaseAll(th)
  PROVE  CalledBackInTime'
  <1>0. PICK c \in Client : c = Current(th).client
    BY Running DEF ReleaseAll, IInv
  <1>1. PICK release \in Release : release = UINT64_MAX
    BY SyncPointAssumption DEF Release, UINT64_MAX
  <1>2. /\ ReleaseFenceSyncLocked(th, c, release) /\ callback_list[th] = {}
        /\ UNCHANGED fence_sync_wait_event
        /\ fence_sync_release'[c] = UINT64_MAX
    BY <1>0, <1>1 DEF ReleaseAll, ReleaseFenceSyncLocked, Ready, IInv, TypeOK,
       ThreadsBusy, SyncPointsTyped
  <1>3. \A r \in 1 .. MaxRelease : Abstract!Signaled(<<c, r>>)'
    BY <1>2, SignaledIs
  <1> QED
    BY <1>2, <1>3, ReleasedInTime

LEMMA RunCallbackInTime ==
  ASSUME IInv, CalledBackInTime, WaitsKept, NEW th \in Thread, RunCallback(th)
  PROVE  CalledBackInTime'
  <1>1. PICK c \in callback_list[th] :
          /\ callback_list' = [callback_list EXCEPT ![th] = @ \ {c}]
          /\ fence_sync_wait_event' = [fence_sync_wait_event EXCEPT ![c] = TRUE]
          /\ UNCHANGED release_callback_queue
    BY DEF RunCallback
  <1>2. /\ c \in Client /\ callback_list'[th] = callback_list[th] \ {c}
        /\ \A x \in Thread \ {th} : callback_list'[x] = callback_list[x]
        /\ \A x \in Client \ {c} : fence_sync_wait_event'[x] = fence_sync_wait_event[x]
    BY <1>1 DEF IInv, TypeOK, GpuThreadsTyped
  <1>3. \A d \in Client : \A cb \in release_callback_queue[d] :
          cb.waiter \in Client /\ <<d, cb.release>> \in Token
    BY DEF IInv, TypeOK, SyncPointsTyped, ReleaseCallback, Token
  <1>4. \A d \in Client : \A cb \in release_callback_queue'[d] :
          WaitsFor(cb.waiter, <<d, cb.release>>)'
    BY <1>1, <1>3 DEF CalledBackInTime, WaitsKept
  <1>5. ASSUME NEW x \in Client, CalledBack(x)'
        PROVE  MayGoOn(x)' /\ ~CallbackQueued(x)'
    <2>1. CalledBack(x)
      <3>1. CASE x = c
        BY <3>1 DEF CalledBack
      <3>2. CASE x # c
        BY <1>2, <1>5, <3>2 DEF CalledBack
      <3> QED
        BY <3>1, <3>2
    <2> QED
      BY <1>1, <2>1 DEF CalledBackInTime, WaitsKept, CallbackQueued
  <1>6. ASSUME NEW x \in Thread, NEW y \in callback_list'[x]
        PROVE  /\ ~fence_sync_wait_event'[y]
               /\ \A other \in Thread \ {x} : y \notin callback_list'[other]
    <2>1. y \in callback_list[x] /\ y \in Client /\ y # c
      BY <1>2 DEF CalledBackInTime, IInv, TypeOK, GpuThreadsTyped
    <2> QED
      BY <1>2, <2>1 DEF CalledBackInTime
  <1> QED
    BY <1>4, <1>5, <1>6 DEF CalledBackInTime

\* A client that does not wait is not called back and has queued no callback.
LEMMA WaitInTime ==
  ASSUME IInv, FlushOrder, ReleasesComeFirst, NeverForced, CalledBackInTime,
         WaitsKept, NEW th \in Thread, Wait(th)
  PROVE  CalledBackInTime'
  <1>0. PICK c \in Client, d \in Client, r \in 1 .. MaxRelease :
          /\ c = Current(th).client /\ ThreadOf[c] = th
          /\ Current(th).wait = <<d, r>>
    BY WaiterValues DEF Wait
  <1> DEFINE callback == [release |-> r, waiter |-> c]
  <1>1. /\ pc[th] = "found" /\ pc'[th] = "waiting" /\ tasks' = tasks
        /\ UNCHANGED <<executed, context_lost, fence_sync_release, callback_list>>
    BY DEF Wait, IInv, TypeOK, GpuThreadsTyped
  <1>2. <<d, r>> \in Token /\ WaitsFor(c, <<d, r>>)'
    BY <1>0, <1>1 DEF WaitsFor, Current, Token
  <1>3. ~CalledBack(c) /\ ~CallbackQueued(c)
    <2>1. \A token : ~WaitsFor(c, token)
      BY <1>0, <1>1 DEF WaitsFor
    <2> QED
      BY <2>1 DEF CalledBackInTime, MayGoOn, CallbackQueued
  <1>4. \A x \in Client : \A cb \in release_callback_queue[x] :
          cb.waiter \in Client /\ <<x, cb.release>> \in Token
    BY DEF IInv, TypeOK, SyncPointsTyped, ReleaseCallback, Token
  <1>5. CASE NotifiedAtOnce(c, d, r)
    <2>1. /\ fence_sync_wait_event'[c]
          /\ \A x \in Client \ {c} : fence_sync_wait_event'[x] = fence_sync_wait_event[x]
          /\ UNCHANGED release_callback_queue
      BY <1>0, <1>5 DEF Wait, IInv, TypeOK, GpuThreadsTyped
    <2>2. Abstract!Signaled(<<d, r>>)'
      BY <1>0, <1>1, <1>5, NotifiedInTime, SignaledIs
    <2>3. MayGoOn(c)' /\ ~CallbackQueued(c)'
      BY <1>2, <1>3, <2>1, <2>2 DEF MayGoOn, CallbackQueued
    <2>4. \A x \in Client : \A cb \in release_callback_queue'[x] :
            WaitsFor(cb.waiter, <<x, cb.release>>)'
      BY <1>4, <2>1 DEF CalledBackInTime, WaitsKept
    <2>5. ASSUME NEW x \in Client, x # c, CalledBack(x)'
          PROVE  MayGoOn(x)' /\ ~CallbackQueued(x)'
      <3>1. CalledBack(x)
        BY <1>1, <2>1, <2>5 DEF CalledBack
      <3> QED
        BY <2>1, <3>1 DEF CalledBackInTime, WaitsKept, CallbackQueued
    <2>6. ASSUME NEW x \in Thread, NEW y \in callback_list'[x]
          PROVE  /\ ~fence_sync_wait_event'[y]
                 /\ \A other \in Thread \ {x} : y \notin callback_list'[other]
      <3>1. y \in callback_list[x] /\ y \in Client /\ y # c
        BY <1>1, <1>3 DEF CalledBack, IInv, TypeOK, GpuThreadsTyped
      <3> QED
        BY <1>1, <2>1, <3>1 DEF CalledBackInTime
    <2> QED
      BY <2>3, <2>4, <2>5, <2>6 DEF CalledBackInTime
  <1>6. CASE ~NotifiedAtOnce(c, d, r)
    <2>1. /\ UNCHANGED fence_sync_wait_event
          /\ \A x \in Client : release_callback_queue'[x] =
               release_callback_queue[x] \cup (IF x = d THEN {callback} ELSE {})
      BY <1>0, <1>6 DEF Wait, IInv, TypeOK, SyncPointsTyped
    <2>2. ASSUME NEW x \in Client, NEW cb \in release_callback_queue'[x]
          PROVE  WaitsFor(cb.waiter, <<x, cb.release>>)'
      <3>1. CASE cb \in release_callback_queue[x]
        BY <1>4, <3>1 DEF CalledBackInTime, WaitsKept
      <3>2. CASE cb \notin release_callback_queue[x]
        <4>1. x = d /\ cb = callback
          BY <2>1, <2>2, <3>2
        <4> QED
          BY <1>2, <4>1
      <3> QED
        BY <3>1, <3>2
    <2>3. ASSUME NEW x \in Client, CalledBack(x)'
          PROVE  MayGoOn(x)' /\ ~CallbackQueued(x)'
      <3>1. CalledBack(x) /\ x # c
        BY <1>1, <1>3, <2>1, <2>3 DEF CalledBack
      <3>2. \A y \in Client : \A cb \in release_callback_queue'[y] : cb.waiter # x
        BY <2>1, <3>1 DEF CalledBackInTime, CallbackQueued
      <3> QED
        BY <3>1, <3>2 DEF CalledBackInTime, WaitsKept, CallbackQueued
    <2>4. \A x \in Thread : \A y \in callback_list'[x] :
            /\ ~fence_sync_wait_event'[y]
            /\ \A other \in Thread \ {x} : y \notin callback_list'[other]
      BY <1>1, <2>1 DEF CalledBackInTime
    <2> QED
      BY <2>2, <2>3, <2>4 DEF CalledBackInTime
  <1> QED
    BY <1>5, <1>6

\* After its wait a client is called back no more.
LEMMA WaitReturnsInTime ==
  ASSUME IInv, IInv', FlushOrder, ReleasesComeFirst, CalledBackInTime, Next,
         NEW th \in Thread, WaitReturns(th)
  PROVE  CalledBackInTime'
  <1>0. PICK c \in Client : c = Current(th).client /\ ThreadOf[c] = th
    BY Running DEF WaitReturns, IInv
  <1>1. /\ pc[th] = "waiting" /\ fence_sync_wait_event[c]
        /\ ~fence_sync_wait_event'[c]
        /\ \A x \in Client \ {c} : fence_sync_wait_event'[x] = fence_sync_wait_event[x]
        /\ \A x \in Thread \ {th} : tasks'[x] = tasks[x] /\ pc'[x] = pc[x]
        /\ UNCHANGED <<callback_list, release_callback_queue>>
    BY <1>0 DEF WaitReturns, IInv, TypeOK, GpuThreadsTyped
  <1>2. ~CallbackQueued(c) /\ \A x \in Thread : c \notin callback_list[x]
    BY <1>1 DEF CalledBackInTime, CalledBack
  <1>3. ASSUME NEW x \in Client, x # c, NEW token, WaitsFor(x, token)
        PROVE  WaitsFor(x, token)'
    <2>1. ThreadOf[x] \in Thread \ {th}
      BY <1>0, <1>3, SyncPointAssumption DEF WaitsFor
    <2> QED
      BY <1>1, <1>3, <2>1 DEF WaitsFor, Current
  <1>4. ASSUME NEW x \in Client, x # c, MayGoOn(x) PROVE MayGoOn(x)'
    <2>1. PICK token \in Token : WaitsFor(x, token) /\ Abstract!Signaled(token)
      BY <1>4 DEF MayGoOn
    <2>2. WaitsFor(x, token)' /\ Abstract!Signaled(token)'
      BY <1>3, <1>4, <2>1, SignaledStays
    <2> QED
      BY <2>2 DEF MayGoOn
  <1>5. ASSUME NEW d \in Client, NEW cb \in release_callback_queue'[d]
        PROVE  WaitsFor(cb.waiter, <<d, cb.release>>)'
    <2>1. cb \in release_callback_queue[d] /\ cb.waiter \in Client
      BY <1>1 DEF IInv, TypeOK, SyncPointsTyped, ReleaseCallback
    <2>2. cb.waiter # c /\ WaitsFor(cb.waiter, <<d, cb.release>>)
      BY <1>2, <2>1 DEF CallbackQueued, CalledBackInTime
    <2> QED
      BY <1>3, <2>1, <2>2
  <1>6. ASSUME NEW x \in Client, CalledBack(x)'
        PROVE  MayGoOn(x)' /\ ~CallbackQueued(x)'
    <2>1. x # c /\ CalledBack(x)
      BY <1>1, <1>2, <1>6 DEF CalledBack
    <2> QED
      BY <1>1, <1>4, <2>1 DEF CalledBackInTime, CallbackQueued
  <1>7. ASSUME NEW x \in Thread, NEW y \in callback_list'[x]
        PROVE  /\ ~fence_sync_wait_event'[y]
               /\ \A other \in Thread \ {x} : y \notin callback_list'[other]
    <2>1. y \in Client /\ y # c /\ y \in callback_list[x]
      BY <1>1, <1>2 DEF IInv, TypeOK, GpuThreadsTyped
    <2> QED
      BY <1>1, <2>1 DEF CalledBackInTime
  <1> QED
    BY <1>5, <1>6, <1>7 DEF CalledBackInTime

LEMMA InitInTime == Init => CalledBackInTime
  BY DEF Init, CalledBackInTime, CalledBack

LEMMA StepInTime ==
  /\ IInv /\ IInv' /\ FlushOrder /\ ReleasesComeFirst /\ NeverForced
  /\ CalledBackInTime /\ [Next]_vars
  => CalledBackInTime'
  <1> SUFFICES ASSUME IInv, IInv', FlushOrder, ReleasesComeFirst, NeverForced,
                      CalledBackInTime, [Next]_vars
               PROVE  CalledBackInTime'
    OBVIOUS
  <1>1. ASSUME Next, NEW c \in Client, ClientNext(c) PROVE CalledBackInTime'
    <2>1. UNCHANGED <<fence_sync_wait_event, callback_list, release_callback_queue>>
      BY <1>1 DEF ClientNext, Flush, SetUnprocessedOrderNumber, QueueFlush, Destroy
    <2> QED
      BY <1>1, <2>1, WaitsStay, QuietInTime
  <1>2. ASSUME Next, NEW th \in Thread, GpuStays(th) PROVE CalledBackInTime'
    <2>1. WaitsKept
      BY <1>2, WaitsStay
    <2>2. CASE UNCHANGED <<fence_sync_wait_event, callback_list,
                           release_callback_queue>>
      BY <2>1, <2>2, QuietInTime
    <2>3. CASE \/ EnsureReleased(th) \/ RunCallback(th) \/ FenceSyncRelease(th)
               \/ Wait(th) \/ ReleaseAll(th)
      BY <2>1, <2>3, EnsureReleasedInTime, RunCallbackInTime,
         FenceSyncReleaseInTime, WaitInTime, ReleaseAllInTime
    <2> QED
      BY <1>2, <2>2, <2>3
      DEF GpuStays, BeginProcessingOrderNumber, WaitFenceSync, LoseContext,
          FinishProcessingOrderNumber, DestroySyncPointClient, DestroyOrderData,
          FinishTask
  <1>3. ASSUME Next, NEW th \in Thread, WaitReturns(th) PROVE CalledBackInTime'
    BY <1>3, WaitReturnsInTime
  <1>4. ASSUME UNCHANGED vars PROVE CalledBackInTime'
    BY <1>4 DEF vars, client_vars, order_vars, CalledBackInTime, CalledBack,
       CallbackQueued, MayGoOn, WaitsFor, Current, Abstract!Signaled, Gone
  <1> QED
    BY <1>1, <1>2, <1>3, <1>4 DEF Next, GpuNext, GpuStays

-----------------------------------------------------------------------------
(* The refinement.                                                         *)

\* The abstract variables stay when no client is lost and no wait begins or ends.
LEMMA AbstractStays ==
  ASSUME UNCHANGED executed,
         \A c \in Client :
           /\ context_lost'[c] <=> context_lost[c]
           /\ fence_sync_release'[c] = UINT64_MAX => fence_sync_release[c] = UINT64_MAX
           /\ fence_sync_release[c] = UINT64_MAX => fence_sync_release'[c] = UINT64_MAX,
         WaitingFor' = WaitingFor
  PROVE  UNCHANGED Abstract!vars
  <1>1. Gone' = Gone
    BY DEF Gone
  <1> QED
    BY <1>1 DEF Abstract!vars

\* What a client waits for stays when its thread waits as before.
LEMMA WaitingStays ==
  ASSUME \A x \in Thread :
           /\ pc'[x] \in {"found", "waiting"} => pc[x] \in {"found", "waiting"}
           /\ pc[x] \in {"found", "waiting"} =>
                pc'[x] \in {"found", "waiting"} /\ Current(x)' = Current(x)
  PROVE  WaitingFor' = WaitingFor
  <1>1. \A c \in Client : ThreadOf[c] \in Thread
    BY SyncPointAssumption
  <1>2. ASSUME NEW c \in Client PROVE WaitingFor'[c] = WaitingFor[c]
    BY <1>1 DEF WaitingFor
  <1> QED
    BY <1>2 DEF WaitingFor

LEMMA ClientRefines ==
  ASSUME IInv, NEW c \in Client, ClientNext(c) PROVE UNCHANGED Abstract!vars
  <1>1. UNCHANGED <<executed, context_lost, fence_sync_release, pc>>
    BY DEF ClientNext, Flush, SetUnprocessedOrderNumber, QueueFlush, Destroy
  <1>2. ASSUME NEW x \in Thread, pc[x] # "idle" PROVE Current(x)' = Current(x)
    <2>1. CASE Flush(c) \/ SetUnprocessedOrderNumber(c)
      BY <2>1 DEF Flush, SetUnprocessedOrderNumber, Current
    <2>2. CASE QueueFlush(c)
      <3>1. /\ tasks' = [tasks EXCEPT ![Service(c)] = Append(@, flush[c])]
            /\ flush[c] \in GpuTask /\ flush[c].client = c
        BY <2>2 DEF QueueFlush, IInv, TypeOK, ClientThreadsTyped
      <3> QED
        BY <1>1, <1>2, <3>1, QueuedTask
    <2>3. CASE Destroy(c)
      <3>1. DestroyTask(c) \in GpuTask /\ DestroyTask(c).client = c
        BY SyncPointAssumption DEF DestroyTask, GpuTask, OrderNumber
      <3>2. tasks' = [tasks EXCEPT ![Service(c)] = Append(@, DestroyTask(c))]
        BY <2>3 DEF Destroy
      <3> QED
        BY <1>1, <1>2, <3>1, <3>2, QueuedTask
    <2> QED
      BY <2>1, <2>2, <2>3 DEF ClientNext
  <1> QED
    BY <1>1, <1>2, WaitingStays, AbstractStays

\* What the flush that runs shows of its client.
LEMMA RunningClient ==
  ASSUME IInv, FlushOrder, NEW th \in Thread, pc[th] # "idle" \/ tasks[th] # <<>>
  PROVE  \E c \in Client :
           /\ c = Current(th).client /\ ThreadOf[c] = th
           /\ Current(th).release =< MaxRelease /\ Current(th).release \in Int
           /\ WaitingFor[c] = IF pc[th] \in {"found", "waiting"}
                                THEN Current(th).wait ELSE NoWait
           /\ pc[th] \in {"run", "found", "waiting"} =>
                fence_sync_release[c] # UINT64_MAX
  <1>1. /\ Current(th).client \in Client /\ ThreadOf[Current(th).client] = th
        /\ Current(th).release \in 0 .. MaxRelease
    BY Running DEF IInv
  <1>2. WaitingFor[Current(th).client] =
          IF pc[th] \in {"found", "waiting"} THEN Current(th).wait ELSE NoWait
    BY <1>1 DEF WaitingFor
  <1>3. pc[th] \in {"run", "found", "waiting"} =>
          fence_sync_release[Current(th).client] # UINT64_MAX
    BY RunningFlush
  <1>4. Current(th).release =< MaxRelease /\ Current(th).release \in Int
    BY <1>1, SyncPointAssumption
  <1> QED
    BY <1>1, <1>2, <1>3, <1>4

LEMMA FenceSyncReleaseRefines ==
  ASSUME IInv, FlushOrder, NEW th \in Thread, FenceSyncRelease(th)
  PROVE  Abstract!Next
  <1>1. PICK c \in Client :
          /\ c = Current(th).client /\ ThreadOf[c] = th
          /\ Current(th).release =< MaxRelease /\ Current(th).release \in Int
          /\ WaitingFor[c] = NoWait /\ fence_sync_release[c] # UINT64_MAX
    BY RunningClient DEF FenceSyncRelease, BetweenCommands
  <1>2. /\ ~context_lost[c] /\ executed[c] < Current(th).release
        /\ executed' = [executed EXCEPT ![c] = @ + 1]
        /\ fence_sync_release' = [fence_sync_release EXCEPT ![c] = executed[c] + 1]
        /\ UNCHANGED <<tasks, pc, context_lost>>
        /\ executed[c] \in Nat
    BY <1>1 DEF FenceSyncRelease, ReleaseFenceSyncLocked, IInv, TypeOK,
       GpuThreadsTyped
  <1>3. executed[c] < MaxRelease /\ executed[c] + 1 # UINT64_MAX
    BY <1>1, <1>2, SyncPointAssumption DEF UINT64_MAX
  <1>4. Gone' = Gone
    BY <1>1, <1>2, <1>3 DEF Gone, IInv, TypeOK, SyncPointsTyped
  <1>5. WaitingFor' = WaitingFor
    BY <1>2 DEF WaitingFor, Current
  <1>6. c \notin Gone
    BY <1>1, <1>2 DEF Gone
  <1>7. Abstract!Release(c)
    BY <1>1, <1>2, <1>3, <1>4, <1>5, <1>6 DEF Abstract!Release
  <1> QED
    BY <1>7 DEF Abstract!Next

LEMMA LoseContextRefines ==
  ASSUME IInv, FlushOrder, NEW th \in Thread, LoseContext(th)
  PROVE  Abstract!Next
  <1>1. PICK c \in Client :
          /\ c = Current(th).client
          /\ WaitingFor[c] = NoWait /\ fence_sync_release[c] # UINT64_MAX
    BY RunningClient DEF LoseContext, BetweenCommands
  <1>2. /\ ~context_lost[c]
        /\ context_lost' = [context_lost EXCEPT ![c] = TRUE]
        /\ UNCHANGED <<tasks, pc, executed, fence_sync_release>>
    BY <1>1 DEF LoseContext
  <1>3. Gone' = Gone \cup {c} /\ c \notin Gone
    BY <1>1, <1>2 DEF Gone, IInv, TypeOK, GpuThreadsTyped
  <1>4. WaitingFor' = WaitingFor
    BY <1>2 DEF WaitingFor, Current
  <1>5. Abstract!Leave(c)
    BY <1>1, <1>2, <1>3, <1>4 DEF Abstract!Leave
  <1> QED
    BY <1>5 DEF Abstract!Next

LEMMA ReleaseAllRefines ==
  ASSUME IInv, FlushOrder, NEW th \in Thread, ReleaseAll(th)
  PROVE  Abstract!Next \/ UNCHANGED Abstract!vars
  <1>1. PICK c \in Client : c = Current(th).client /\ WaitingFor[c] = NoWait
    BY RunningClient DEF ReleaseAll
  <1>2. /\ fence_sync_release' = [fence_sync_release EXCEPT ![c] = UINT64_MAX]
        /\ pc[th] = "idle" /\ pc'[th] = "destroy"
        /\ \A x \in Thread \ {th} : pc'[x] = pc[x]
        /\ UNCHANGED <<tasks, executed, context_lost>>
    BY <1>1 DEF ReleaseAll, ReleaseFenceSyncLocked, IInv, TypeOK, GpuThreadsTyped
  <1>3. Gone' = Gone \cup {c}
    BY <1>2 DEF Gone, IInv, TypeOK, SyncPointsTyped
  <1>4. WaitingFor' = WaitingFor
    BY <1>2, WaitingStays DEF Current
  <1>5. CASE c \in Gone
    BY <1>2, <1>3, <1>4, <1>5 DEF Abstract!vars
  <1>6. CASE c \notin Gone
    BY <1>1, <1>2, <1>3, <1>4, <1>6 DEF Abstract!Leave, Abstract!Next
  <1> QED
    BY <1>5, <1>6

LEMMA WaitFenceSyncRefines ==
  ASSUME IInv, FlushOrder, NEW th \in Thread, WaitFenceSync(th)
  PROVE  Abstract!Next \/ UNCHANGED Abstract!vars
  <1>1. PICK c \in Client :
          /\ c = Current(th).client /\ ThreadOf[c] = th
          /\ WaitingFor[c] = NoWait /\ fence_sync_release[c] # UINT64_MAX
    BY RunningClient DEF WaitFenceSync, BetweenCommands
  <1>2. /\ pc[th] = "run" /\ ~context_lost[c] /\ Current(th).wait # NoWait
        /\ UNCHANGED <<executed, context_lost, fence_sync_release>>
        /\ Current(th).wait \in Token
    <2>1. pc[th] = "run" /\ ~context_lost[c] /\ Current(th).wait # NoWait
      BY <1>1 DEF WaitFenceSync, BetweenCommands
    <2>2. Current(th).wait \in Token \cup {NoWait}
      BY <2>1, Running DEF IInv
    <2> QED
      BY <2>1, <2>2 DEF WaitFenceSync
  <1>3. Gone' = Gone /\ c \notin Gone
    BY <1>1, <1>2 DEF Gone
  <1>4. CASE pc' = [pc EXCEPT ![th] = "found"] /\ tasks' = tasks
    <2>1. pc'[th] = "found" /\ \A x \in Thread \ {th} : pc'[x] = pc[x]
      BY <1>4 DEF IInv, TypeOK, GpuThreadsTyped
    <2>2. ASSUME NEW d \in Client
          PROVE  WaitingFor'[d] = IF d = c THEN Current(th).wait ELSE WaitingFor[d]
      <3>1. ThreadOf[d] \in Thread
        BY SyncPointAssumption
      <3> QED
        BY <1>1, <1>2, <1>4, <2>1, <3>1 DEF WaitingFor, Current
    <2>3. WaitingFor' = [WaitingFor EXCEPT ![c] = Current(th).wait]
      BY <2>2 DEF WaitingFor
    <2>4. Abstract!StartWait(c, Current(th).wait)
      BY <1>1, <1>2, <1>3, <2>3 DEF Abstract!StartWait
    <2>5. Current(th).wait \in Abstract!Token
      BY <1>2 DEF Token, Abstract!Token
    <2> QED
      BY <2>4, <2>5 DEF Abstract!Next
  <1>5. CASE pc' = pc /\ tasks' = [tasks EXCEPT ![th][1].wait = NoWait]
    <2>1. \A x \in Thread : x # th => Current(x)' = Current(x)
      BY <1>2, <1>5, WaitedQueue
    <2>2. WaitingFor' = WaitingFor
      BY <1>2, <1>5, <2>1, WaitingStays
    <2> QED
      BY <1>2, <1>3, <2>2 DEF Abstract!vars
  <1> QED
    BY <1>4, <1>5 DEF WaitFenceSync

\* The event is signalled only when the wait may end.
LEMMA WaitReturnsRefines ==
  ASSUME IInv, FlushOrder, CalledBackInTime, NEW th \in Thread, WaitReturns(th)
  PROVE  Abstract!Next
  <1>1. PICK c \in Client :
          /\ c = Current(th).client /\ ThreadOf[c] = th
          /\ WaitingFor[c] = Current(th).wait
    BY RunningClient DEF WaitReturns
  <1>2. /\ pc[th] = "waiting" /\ pc'[th] = "run" /\ fence_sync_wait_event[c]
        /\ \A x \in Thread \ {th} : pc'[x] = pc[x]
        /\ tasks' = [tasks EXCEPT ![th][1].wait = NoWait]
        /\ UNCHANGED <<executed, context_lost, fence_sync_release>>
    BY <1>1 DEF WaitReturns, IInv, TypeOK, GpuThreadsTyped
  <1>3. WaitingFor[c] # NoWait /\ Abstract!Signaled(WaitingFor[c])
    <2>1. MayGoOn(c)
      BY <1>2 DEF CalledBackInTime, CalledBack
    <2>2. PICK token \in Token : WaitsFor(c, token) /\ Abstract!Signaled(token)
      BY <2>1 DEF MayGoOn
    <2>3. WaitingFor[c] = token
      BY <1>1, <2>2 DEF WaitsFor
    <2> QED
      BY <2>2, <2>3, NoWaitAssumption
  <1>4. Gone' = Gone
    BY <1>2 DEF Gone
  <1>5. ASSUME NEW d \in Client
        PROVE  WaitingFor'[d] = IF d = c THEN NoWait ELSE WaitingFor[d]
    <2>1. ThreadOf[d] \in Thread
      BY SyncPointAssumption
    <2>2. \A x \in Thread : x # th => Current(x)' = Current(x)
      BY <1>2, WaitedQueue
    <2> QED
      BY <1>1, <1>2, <2>1, <2>2 DEF WaitingFor
  <1>6. WaitingFor' = [WaitingFor EXCEPT ![c] = NoWait]
    BY <1>5 DEF WaitingFor
  <1>7. Abstract!FinishWait(c)
    BY <1>2, <1>3, <1>4, <1>6 DEF Abstract!FinishWait
  <1> QED
    BY <1>7 DEF Abstract!Next

LEMMA GpuRefines ==
  ASSUME IInv, FlushOrder, CalledBackInTime, NEW th \in Thread, GpuNext(th)
  PROVE  Abstract!Next \/ UNCHANGED Abstract!vars
  <1>1. pc \in [Thread -> {"idle", "run", "found", "waiting", "finish", "destroy",
                           "erased"}]
    BY DEF IInv, TypeOK, GpuThreadsTyped
  <1>2. CASE EnsureReleased(th)
    <2>1. UNCHANGED <<executed, context_lost, pc, tasks>>
      BY <1>2 DEF EnsureReleased
    <2>2. WaitingFor' = WaitingFor
      BY <2>1 DEF WaitingFor, Current
    <2> QED
      BY <1>2, <2>1, <2>2, EnsureReleasedGone, AbstractStays
  <1>3. CASE \/ BeginProcessingOrderNumber(th) \/ RunCallback(th) \/ Wait(th)
             \/ FinishProcessingOrderNumber(th) \/ DestroySyncPointClient(th)
             \/ DestroyOrderData(th)
    <2>1. UNCHANGED <<executed, context_lost, fence_sync_release, tasks>>
      BY <1>3 DEF BeginProcessingOrderNumber, RunCallback, Wait,
         FinishProcessingOrderNumber, DestroySyncPointClient, DestroyOrderData
    <2>2. \A x \in Thread :
            /\ pc'[x] \in {"found", "waiting"} => pc[x] \in {"found", "waiting"}
            /\ pc[x] \in {"found", "waiting"} => pc'[x] \in {"found", "waiting"}
      BY <1>1, <1>3 DEF BeginProcessingOrderNumber, RunCallback, Wait,
         FinishProcessingOrderNumber, DestroySyncPointClient, DestroyOrderData,
         BetweenCommands
    <2>3. WaitingFor' = WaitingFor
      BY <2>1, <2>2, WaitingStays DEF Current
    <2> QED
      BY <2>1, <2>3, AbstractStays
  <1>4. CASE FinishTask(th)
    <2>1. /\ UNCHANGED <<executed, context_lost, fence_sync_release>>
          /\ pc[th] = "finish" /\ pc'[th] = "idle"
          /\ \A x \in Thread \ {th} : pc'[x] = pc[x] /\ tasks'[x] = tasks[x]
      BY <1>4, TakenOff DEF FinishTask
    <2>2. WaitingFor' = WaitingFor
      BY <2>1, WaitingStays DEF Current
    <2> QED
      BY <2>1, <2>2, AbstractStays
  <1> QED
    BY <1>2, <1>3, <1>4, FenceSyncReleaseRefines, LoseContextRefines,
       ReleaseAllRefines, WaitFenceSyncRefines, WaitReturnsRefines
    DEF GpuNext

LEMMA InitRefines == Init => Abstract!Init
  <1> SUFFICES ASSUME Init PROVE Abstract!Init
    OBVIOUS
  <1>1. Gone = {}
    BY SyncPointAssumption DEF Init, Gone, UINT64_MAX
  <1>2. WaitingFor = [c \in Client |-> NoWait]
    BY SyncPointAssumption DEF Init, WaitingFor
  <1> QED
    BY <1>1, <1>2 DEF Init, Abstract!Init

LEMMA StepRefines == RInv /\ [Next]_vars => [Abstract!Next]_(Abstract!vars)
  <1> SUFFICES ASSUME RInv, [Next]_vars
               PROVE  Abstract!Next \/ UNCHANGED Abstract!vars
    OBVIOUS
  <1>1. CASE UNCHANGED vars
    BY <1>1 DEF vars, Abstract!vars, Gone, WaitingFor, Current
  <1> QED
    BY <1>1, ClientRefines, GpuRefines DEF RInv, Next

-----------------------------------------------------------------------------
(* The theorems.                                                           *)

LEMMA InitRInv == Init => RInv
  <1>1. Init => NeverForced
    BY DEF Init, NeverForced
  <1> QED
    BY <1>1, InitIInv, InitInOrder, InitCovered, InitInTime DEF RInv

LEMMA StepRInv == RInv /\ [Next]_vars => RInv'
  BY StepIInv, StepInOrder, StepCovered, StepNeverForced, StepInTime DEF RInv

\* What the refinement needs holds in every reachable state: flushes keep their
\* order, releases come before the waits for them, and callbacks come in time.
THEOREM RInvHolds == Spec => []RInv
  BY InitRInv, StepRInv, PTL DEF Spec

\* As long as a client has its context, its fence syncs are released by its own
\* commands, never by the order fences of those who wait.
THEOREM ReleasesNeverForced == Spec => []NeverForced
  <1>1. RInv => NeverForced
    BY DEF RInv
  <1> QED
    BY <1>1, RInvHolds, PTL

\* SyncPointManager and the command buffers keep the promise of fence syncs,
\* with order numbers, fences and callbacks in place of an oracle.
THEOREM ImplementsFenceSyncs == Spec => FenceSyncsSpec
  BY InitRefines, StepRefines, RInvHolds, PTL DEF Spec, FenceSyncsSpec, Abstract!Spec
=============================================================================
