--------------------------- MODULE TaskGraphRunner ---------------------------
(***************************************************************************)
(* cc::TaskGraphRunner (cc/raster/task_graph_runner.{h,cc}): worker        *)
(* threads run the tasks of dependency graphs that origin threads schedule *)
(* under namespace tokens.  One mutex protects the whole state, so each    *)
(* action below is one critical section, from taking the lock to releasing *)
(* it or waiting on a condition variable; RunOnWorkerThread runs unlocked, *)
(* between StartTask and FinishTask.                                       *)
(*                                                                         *)
(* A task belongs to one namespace and keeps its dependencies for life, as *)
(* the callers in tile_task_worker_pool.cc do; what changes from one graph *)
(* to the next is which tasks are in it and with what priorities.          *)
(***************************************************************************)
EXTENDS Integers, FiniteSets

CONSTANTS
  Worker,         \* threads inside Run()
  MaxNamespace,   \* bound on the tokens handed out
  Flusher,        \* threads that call FlushForTesting()
  SyncOrigin,     \* namespaces whose origin thread calls RunUntilIdle()
  Task,
  NamespaceOf,    \* the namespace a task is scheduled in
  Dependency,     \* pairs <<task, dependent>>: the edges of the graphs
  Rank,           \* witnesses that Dependency has no cycle
  Priorities,     \* the priority functions a client may give to its nodes
  NoTask

Namespace == 1..MaxNamespace
Origin == Namespace       \* each namespace has one origin thread
Thread == Worker \cup Origin \cup Flusher

ASSUME NamespaceAssumption == MaxNamespace \in Nat
ASSUME ThreadAssumption ==
  /\ Worker \cap (Origin \cup Flusher) = {}
  /\ Flusher \cap Origin = {}
  /\ SyncOrigin \subseteq Origin
ASSUME TaskAssumption ==
  /\ IsFiniteSet(Task)
  /\ NoTask \notin Task
  /\ NamespaceOf \in [Task -> Namespace]
  /\ Priorities \subseteq [Task -> Nat]
ASSUME DependencyAssumption ==
  /\ Dependency \subseteq Task \X Task
  /\ Rank \in [Task -> Nat]
  /\ \A e \in Dependency : /\ NamespaceOf[e[1]] = NamespaceOf[e[2]]
                           /\ Rank[e[1]] < Rank[e[2]]

VARIABLES
  next_namespace_id,       \* next token to hand out
  namespaces,              \* the keys of the map namespaces_
  nodes,                   \* nodes[ns]: tasks of the current graph of ns
  dependencies,            \* remaining dependencies of a task's node
  priority,                \* priority of a task's node
  ready_to_run_tasks,      \* heap of a namespace, as a set
  completed_tasks,         \* completed, not yet collected
  running_tasks,
  ready_to_run_namespaces, \* heap of namespaces, as a set
  shutdown,
  did_run,                 \* tasks whose DidRun() was called
  collected,               \* tasks handed back to the origin thread
  task,                    \* task[th]: the task thread th is running
  pc

\* Everything but shutdown and pc.
tasks == <<next_namespace_id, namespaces, nodes, dependencies, priority,
           ready_to_run_tasks, completed_tasks, running_tasks,
           ready_to_run_namespaces, did_run, collected, task>>
vars == <<tasks, shutdown, pc>>

(***************************************************************************)
(* Program counters.  "loop": at the top of Run()'s loop.  "ready_cv" and  *)
(* "finished_cv": inside ConditionVariable::Wait.  "run": running a task.  *)
(* "client": outside TaskGraphRunner.  "wait": woken, about to test the    *)
(* condition again.  "until_idle": at the top of RunUntilIdle()'s loop.    *)
(***************************************************************************)
PC == {"loop", "ready_cv", "run", "exited",
       "client", "wait", "finished_cv", "until_idle"}

TasksOf(ns) == {t \in Task : NamespaceOf[t] = ns}

\* Seeded bug: tasks that are still running are forgotten.
HasFinishedIgnoringRunning(ns) == ready_to_run_tasks[ns] = {}

HasFinishedRunningTasksInNamespace(ns) ==
  running_tasks[ns] = {} /\ ready_to_run_tasks[ns] = {}

\* Program counter of a thread that a condition variable lets go.
Woken(cv) == IF cv = "ready_cv" THEN "loop" ELSE "wait"

\* ConditionVariable::Signal: wakes one waiter, if there is one, and no
\* particular one.  The set of the program counters that may result.
Signal(cv, state) ==
  LET waiting == {th \in Thread : state[th] = cv}
  IN  IF waiting = {} THEN {state}
      ELSE {[state EXCEPT ![th] = Woken(cv)] : th \in waiting}

\* Predecessors of t among the tasks of S.
DependenciesIn(S, t) == {u \in S : <<u, t>> \in Dependency}

FirstNamespaceId == 1

Init ==
  /\ next_namespace_id = FirstNamespaceId
  /\ namespaces = {}
  /\ nodes = [ns \in Namespace |-> {}]
  /\ dependencies = [t \in Task |-> 0]
  /\ priority = [t \in Task |-> 0]
  /\ ready_to_run_tasks = [ns \in Namespace |-> {}]
  /\ completed_tasks = [ns \in Namespace |-> {}]
  /\ running_tasks = [ns \in Namespace |-> {}]
  /\ ready_to_run_namespaces = {}
  /\ shutdown = FALSE
  /\ did_run = {}
  /\ collected = {}
  /\ task = [th \in Thread |-> NoTask]
  /\ pc = [th \in Thread |-> IF th \in Worker THEN "loop" ELSE "client"]

GetNamespaceToken ==
  /\ next_namespace_id \in Namespace
  /\ next_namespace_id' = next_namespace_id + 1
  /\ UNCHANGED <<namespaces, nodes, dependencies, priority,
                 ready_to_run_tasks, completed_tasks, running_tasks,
                 ready_to_run_namespaces, shutdown, did_run, collected,
                 task, pc>>

-----------------------------------------------------------------------------
(* The origin thread of a namespace.                                       *)

\* What the callers guarantee of the tasks S of a graph: none was handed
\* back or canceled already (tile_manager.cc calls CheckForCompletedTasks
\* between two calls of ScheduleTasks), and a dependency that is not in the
\* graph has completed (InsertNodesForRasterTask skips it).
IsGraphOf(ns, S) ==
  /\ S \cap collected = {}
  /\ S \cap completed_tasks[ns] \subseteq did_run
  /\ \A e \in Dependency : e[2] \in S => e[1] \in S \cup (collected \cap did_run)

\* Seeded bug: running tasks are taken for completed ones.
DependenciesLessRunning(ns, S, t) ==
  Cardinality(DependenciesIn(S, t))
    - Cardinality(DependenciesIn(
        (completed_tasks[ns] \cup running_tasks[ns]) \cap S, t))

\* Nodes with dependencies left once the completed tasks are taken off.
InitialDependencies(ns, S, t) ==
  Cardinality(DependenciesIn(S, t))
    - Cardinality(DependenciesIn(completed_tasks[ns] \cap S, t))

\* Seeded bugs: canceled tasks are dropped; tasks that have run are canceled.
CanceledDropped(ns, S) == {}
CanceledAfterRun(ns, S) == (nodes[ns] \ S) \ running_tasks[ns]

\* Tasks of the old graph that are not in the new one and never started.
Canceled(ns, S) == (nodes[ns] \ S) \ (did_run \cup running_tasks[ns])

\* Seeded bug: new work wakes nobody.
WakeNobody(queue, state) == {state}

WakeWorkerIfReady(queue, state) ==
  IF queue = {} THEN {state} ELSE Signal("ready_cv", state)

ScheduleTasks(ns, S, prio) ==
  LET deps == [t \in Task |-> IF t \in S THEN InitialDependencies(ns, S, t)
                                         ELSE dependencies[t]]
      ready == {t \in S : deps[t] = 0} \ (did_run \cup running_tasks[ns])
  IN /\ pc[ns] = "client"
     /\ ns < next_namespace_id
     /\ ~shutdown
     /\ IsGraphOf(ns, S)
     /\ namespaces' = namespaces \cup {ns}
     /\ nodes' = [nodes EXCEPT ![ns] = S]
     /\ dependencies' = deps
     /\ priority' = [t \in Task |-> IF t \in S THEN prio[t] ELSE priority[t]]
     /\ ready_to_run_tasks' = [ready_to_run_tasks EXCEPT ![ns] = ready]
     /\ completed_tasks' = [completed_tasks EXCEPT ![ns] = @ \cup Canceled(ns, S)]
     /\ ready_to_run_namespaces' =
          {n \in namespaces' : ready_to_run_tasks'[n] # {}}
     /\ pc' \in WakeWorkerIfReady(ready_to_run_namespaces', pc)
     /\ UNCHANGED <<next_namespace_id, running_tasks, shutdown, did_run,
                    collected, task>>

\* Seeded bug: the wakeup is not passed on.
WaitWithoutSignal(ns) ==
  /\ pc[ns] \in {"client", "wait"}
  /\ ns \in namespaces
  /\ pc' = [pc EXCEPT ![ns] = IF HasFinishedRunningTasksInNamespace(ns)
                               THEN "client" ELSE "finished_cv"]
  /\ UNCHANGED <<tasks, shutdown>>

\* One turn of the while loop of WaitForTasksToFinishRunning, from the call
\* or from a wakeup; the caller that leaves passes the wakeup on.
WaitForTasksToFinishRunning(ns) ==
  /\ pc[ns] \in {"client", "wait"}
  /\ ns \in namespaces
  /\ IF HasFinishedRunningTasksInNamespace(ns)
       THEN pc' \in Signal("finished_cv", [pc EXCEPT ![ns] = "client"])
       ELSE pc' = [pc EXCEPT ![ns] = "finished_cv"]
  /\ UNCHANGED <<tasks, shutdown>>

CollectCompletedTasks(ns) ==
  /\ pc[ns] = "client"
  /\ ns \in namespaces
  /\ collected' = collected \cup completed_tasks[ns]
  /\ completed_tasks' = [completed_tasks EXCEPT ![ns] = {}]
  /\ IF HasFinishedRunningTasksInNamespace(ns)
       THEN /\ namespaces' = namespaces \ {ns}
            /\ nodes' = [nodes EXCEPT ![ns] = {}]
       ELSE UNCHANGED <<namespaces, nodes>>
  /\ UNCHANGED <<next_namespace_id, dependencies, priority,
                 ready_to_run_tasks, running_tasks, ready_to_run_namespaces,
                 shutdown, did_run, task, pc>>

\* The embedder shuts down once no namespace is left (the DCHECKs).
Shutdown ==
  /\ ready_to_run_namespaces = {}
  /\ namespaces = {}
  /\ ~shutdown
  /\ shutdown' = TRUE
  /\ pc' \in Signal("ready_cv", pc)
  /\ UNCHANGED tasks

\* One turn of the loop of FlushForTesting, which leaves without a Signal.
FlushForTesting(f) ==
  /\ pc[f] \in {"client", "wait"}
  /\ pc' = [pc EXCEPT ![f] =
              IF \A ns \in namespaces : HasFinishedRunningTasksInNamespace(ns)
                THEN "client" ELSE "finished_cv"]
  /\ UNCHANGED <<tasks, shutdown>>

RunUntilIdle(ns) ==
  /\ ns \in SyncOrigin
  /\ \/ pc[ns] = "client" /\ ready_to_run_namespaces # {}
        /\ pc' = [pc EXCEPT ![ns] = "until_idle"]
     \/ pc[ns] = "until_idle" /\ ready_to_run_namespaces = {}
        /\ pc' = [pc EXCEPT ![ns] = "client"]
  /\ UNCHANGED <<tasks, shutdown>>

-----------------------------------------------------------------------------
(* Threads inside Run() or RunUntilIdle().                                 *)

WaitForReadyTasks(w) ==
  /\ pc[w] = "loop"
  /\ ready_to_run_namespaces = {}
  /\ ~shutdown
  /\ pc' = [pc EXCEPT ![w] = "ready_cv"]
  /\ UNCHANGED <<tasks, shutdown>>

\* Seeded bug: the worker leaves without waking the next one.
ExitWithoutSignal(w) ==
  /\ pc[w] = "loop"
  /\ ready_to_run_namespaces = {}
  /\ shutdown
  /\ pc' = [pc EXCEPT ![w] = "exited"]
  /\ UNCHANGED <<tasks, shutdown>>

\* Shutdown() signals once: each worker that leaves wakes the next one.
ExitRun(w) ==
  /\ pc[w] = "loop"
  /\ ready_to_run_namespaces = {}
  /\ shutdown
  /\ pc' \in Signal("ready_cv", [pc EXCEPT ![w] = "exited"])
  /\ UNCHANGED <<tasks, shutdown>>

\* The fronts of the two heaps: no ready task is more favorable than t.
IsTopPriority(ns, t) ==
  /\ ns \in ready_to_run_namespaces
  /\ t \in ready_to_run_tasks[ns]
  /\ \A n \in ready_to_run_namespaces :
       \A u \in ready_to_run_tasks[n] : priority[t] =< priority[u]

\* RunTaskWithLockAcquired up to AutoUnlock.
StartTask(th, ns, t) ==
  /\ pc[th] \in {"loop", "until_idle"}
  /\ IsTopPriority(ns, t)
  /\ ready_to_run_tasks' = [ready_to_run_tasks EXCEPT ![ns] = @ \ {t}]
  /\ ready_to_run_namespaces' =
       IF ready_to_run_tasks'[ns] = {} THEN ready_to_run_namespaces \ {ns}
                                       ELSE ready_to_run_namespaces
  /\ running_tasks' = [running_tasks EXCEPT ![ns] = @ \cup {t}]
  /\ task' = [task EXCEPT ![th] = t]
  /\ pc' \in Signal("ready_cv", [pc EXCEPT ![th] = "run"])
  /\ UNCHANGED <<next_namespace_id, namespaces, nodes, dependencies, priority,
                 completed_tasks, shutdown, did_run, collected>>

\* Dependents of t in the graph its namespace has now, which may be another
\* one than when t was started.
DependentsOf(ns, t) ==
  {d \in nodes[ns] : t \in nodes[ns] /\ <<t, d>> \in Dependency}

\* RunTaskWithLockAcquired from where the lock is taken again.
FinishTask(th, t) ==
  LET ns == NamespaceOf[t]
      newly_ready == {d \in DependentsOf(ns, t) : dependencies[d] = 1}
  IN /\ pc[th] = "run"
     /\ t = task[th]
     /\ did_run' = did_run \cup {t}
     /\ running_tasks' = [running_tasks EXCEPT ![ns] = @ \ {t}]
     /\ dependencies' = [d \in Task |-> IF d \in DependentsOf(ns, t)
                                          THEN dependencies[d] - 1
                                          ELSE dependencies[d]]
     /\ ready_to_run_tasks' =
          [ready_to_run_tasks EXCEPT ![ns] = @ \cup newly_ready]
     /\ ready_to_run_namespaces' =
          IF newly_ready # {} /\ ready_to_run_tasks[ns] = {}
            THEN ready_to_run_namespaces \cup {ns}
            ELSE ready_to_run_namespaces
     /\ completed_tasks' = [completed_tasks EXCEPT ![ns] = @ \cup {t}]
     /\ task' = [task EXCEPT ![th] = NoTask]
     /\ LET resumed == [pc EXCEPT ![th] = IF th \in Worker THEN "loop"
                                                           ELSE "until_idle"]
        IN pc' \in IF HasFinishedRunningTasksInNamespace(ns)'
                     THEN Signal("finished_cv", resumed) ELSE {resumed}
     /\ UNCHANGED <<next_namespace_id, namespaces, nodes, priority, shutdown,
                    collected>>

\* ConditionVariable::Wait may return without a Signal.
SpuriousWakeup(th) ==
  /\ pc[th] \in {"ready_cv", "finished_cv"}
  /\ pc' = [pc EXCEPT ![th] = Woken(pc[th])]
  /\ UNCHANGED <<tasks, shutdown>>

-----------------------------------------------------------------------------
OriginNext(ns) ==
  \/ \E S \in SUBSET TasksOf(ns), prio \in Priorities : ScheduleTasks(ns, S, prio)
  \/ WaitForTasksToFinishRunning(ns)
  \/ CollectCompletedTasks(ns)
  \/ RunUntilIdle(ns)

RunNext(th) ==
  \/ \E ns \in Namespace, t \in Task : StartTask(th, ns, t)
  \/ \E t \in Task : FinishTask(th, t)

WorkerNext(w) == WaitForReadyTasks(w) \/ ExitRun(w) \/ RunNext(w)

\* All workers have left Run() and nothing can be scheduled any more.
Terminated ==
  /\ \A w \in Worker : pc[w] = "exited"
  /\ UNCHANGED vars

Next ==
  \/ GetNamespaceToken
  \/ \E ns \in Namespace : OriginNext(ns) \/ RunNext(ns)
  \/ \E w \in Worker : WorkerNext(w)
  \/ \E f \in Flusher : FlushForTesting(f)
  \/ Shutdown
  \/ \E th \in Thread : SpuriousWakeup(th)
  \/ Terminated

Spec == Init /\ [][Next]_vars

\* The operating system runs every thread that can take the lock, and every
\* task's RunOnWorkerThread returns.  Nothing obliges a client to call, and
\* no spurious wakeup is owed.
Fairness ==
  /\ \A w \in Worker : WF_vars(WorkerNext(w))
  /\ \A ns \in Origin :
       /\ WF_vars(pc[ns] = "wait" /\ WaitForTasksToFinishRunning(ns))
       /\ WF_vars(pc[ns] = "until_idle" /\ RunUntilIdle(ns))
       /\ WF_vars(RunNext(ns))
  /\ \A f \in Flusher : WF_vars(pc[f] = "wait" /\ FlushForTesting(f))

FairSpec == Spec /\ Fairness
-----------------------------------------------------------------------------
(* Properties.                                                             *)

\* The values each member may take.
TypeOK ==
  /\ next_namespace_id \in 1..(MaxNamespace + 1)
  /\ namespaces \subseteq Namespace
  /\ nodes \in [Namespace -> SUBSET Task]
  /\ dependencies \in [Task -> Int]
  /\ priority \in [Task -> Nat]
  /\ ready_to_run_tasks \in [Namespace -> SUBSET Task]
  /\ completed_tasks \in [Namespace -> SUBSET Task]
  /\ running_tasks \in [Namespace -> SUBSET Task]
  /\ ready_to_run_namespaces \subseteq Namespace
  /\ shutdown \in BOOLEAN
  /\ did_run \subseteq Task
  /\ collected \subseteq Task
  /\ task \in [Thread -> Task \cup {NoTask}]
  /\ pc \in [Thread -> PC]

\* Tasks of the graph that still wait for a dependency.
Waiting(ns) ==
  {t \in nodes[ns] : dependencies[t] > 0} \ (did_run \cup running_tasks[ns])

\* How the tasks of a namespace are spread over the places the runner keeps
\* them in.
Placed(ns) ==
  /\ nodes[ns] \cup running_tasks[ns] \cup completed_tasks[ns]
       \subseteq TasksOf(ns)
  /\ nodes[ns] \subseteq Waiting(ns) \cup ready_to_run_tasks[ns]
                           \cup running_tasks[ns] \cup did_run
  /\ did_run \cap TasksOf(ns) \subseteq completed_tasks[ns] \cup collected
  /\ ready_to_run_tasks[ns] \subseteq nodes[ns]
  /\ ready_to_run_tasks[ns] \cap (did_run \cup running_tasks[ns]) = {}
  /\ running_tasks[ns] \cap did_run = {}
  /\ (Waiting(ns) \cup ready_to_run_tasks[ns] \cup running_tasks[ns])
       \cap (completed_tasks[ns] \cup collected) = {}
  /\ completed_tasks[ns] \cap collected = {}
  /\ running_tasks[ns] = {task[th] : th \in {x \in Thread : pc[x] = "run"}}
                           \cap TasksOf(ns)

\* Every task in the current graph of a namespace, and every task whose
\* thread is still inside RunOnWorkerThread, is in exactly one of the places
\* the runner keeps tasks in: waiting for dependencies, ready, running, or
\* completed.  In particular swapping graphs under a running task neither
\* loses it nor starts it twice (WillRun's DCHECKs), and a task is completed
\* once only.
OnePlace == \A ns \in Namespace : Placed(ns)

\* A node's count is the number of tasks of its graph it still waits for, so
\* that it never goes below zero (the DCHECK_LT before each decrement) and a
\* task becomes ready when, and only when, the last one has finished.
DependenciesExact ==
  \A ns \in Namespace : \A t \in nodes[ns] :
    dependencies[t] = Cardinality(DependenciesIn(nodes[ns], t) \ did_run)

\* No task starts before the tasks it depends on have run, whatever graphs
\* were swapped in between.
DependenciesRanFirst ==
  \A ns \in Namespace : \A t \in running_tasks[ns] \cup ready_to_run_tasks[ns] :
    DependenciesIn(Task, t) \subseteq did_run

\* The queue of namespaces holds each namespace with a ready task, and holds
\* no other (the DCHECKs of CompareTaskNamespacePriority and of the worker).
ReadyNamespacesExact ==
  ready_to_run_namespaces = {ns \in Namespace : ready_to_run_tasks[ns] # {}}

\* A namespace is erased from the map only when nothing refers to it: no
\* worker that will take the lock again with a pointer to it, and no origin
\* thread that waits with a reference to it.
ErasedNamespaceUnused ==
  \A ns \in Namespace :
    /\ ns \notin namespaces =>
         /\ nodes[ns] = {} /\ completed_tasks[ns] = {}
         /\ HasFinishedRunningTasksInNamespace(ns)
    /\ pc[ns] \in {"wait", "finished_cv"} => ns \in namespaces

\* When a namespace has nothing running and nothing ready, every task of its
\* graph has run: a graph is not left half done with tasks still waiting for
\* a dependency that nobody will decrement.
FinishedMeansAllRan ==
  \A ns \in Namespace :
    HasFinishedRunningTasksInNamespace(ns) => nodes[ns] \subseteq did_run

\* A dependency of a task in the graph is in the graph too, or has run.
GraphClosed ==
  \A ns \in Namespace : \A e \in Dependency :
    e[2] \in nodes[ns] => e[1] \in nodes[ns] \cup did_run

\* A ready task has no dependency left to count.
ReadyCounted ==
  \A ns \in Namespace : \A t \in ready_to_run_tasks[ns] : dependencies[t] = 0

\* What has started has had its dependencies run.
StartedInOrder ==
  \A t \in Task : t \in did_run \cup running_tasks[NamespaceOf[t]] =>
    DependenciesIn(Task, t) \subseteq did_run

\* No two threads run the same task.
RunningThreads ==
  /\ \A x \in Thread : pc[x] = "run" => task[x] \in Task
  /\ \A x, y \in Thread :
       pc[x] = "run" /\ pc[y] = "run" /\ task[x] = task[y] => x = y

\* The strengthening of the invariants above that every step of the runner
\* preserves, whatever graphs the origin threads swap in.
IInv ==
  /\ TypeOK
  /\ OnePlace
  /\ DependenciesExact
  /\ ReadyNamespacesExact
  /\ ErasedNamespaceUnused
  /\ GraphClosed
  /\ ReadyCounted
  /\ StartedInOrder
  /\ RunningThreads

\* A call of WaitForTasksToFinishRunning returns only when all tasks of the
\* namespace have run or were canceled.
WaitReturnsWhenDone ==
  [][\A ns \in Origin :
       pc[ns] \in {"finished_cv", "wait"} /\ pc'[ns] = "client" =>
         /\ nodes[ns] \subseteq did_run
         /\ running_tasks[ns] = {}]_vars

\* Once scheduled, a task ends up in completed_tasks, or has been collected,
\* even if it gets canceled by another call (task_graph_runner.h:110): no
\* step drops a task.
NoTaskDropped ==
  [][\A ns \in Namespace :
       nodes[ns] \cup running_tasks[ns] \cup completed_tasks[ns] \subseteq
         (nodes[ns] \cup running_tasks[ns] \cup completed_tasks[ns])'
            \cup collected']_vars

\* Every task that is ready is completed or canceled in the end.
ReadyTaskCompletes ==
  \A t \in Task :
    t \in ready_to_run_tasks[NamespaceOf[t]] ~>
      t \in completed_tasks[NamespaceOf[t]] \cup collected

\* An origin thread that waits is woken in the end although the worker
\* signals one thread only, and not the one whose namespace has finished.
WaiterReturns ==
  \A ns \in Origin : pc[ns] = "finished_cv" ~> pc[ns] = "client"

\* One Signal of Shutdown() makes every worker leave Run().
WorkersExit == shutdown ~> \A w \in Worker : pc[w] = "exited"
=============================================================================
