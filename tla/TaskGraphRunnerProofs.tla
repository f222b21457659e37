----------------------- MODULE TaskGraphRunnerProofs -----------------------
(***************************************************************************)
(* Theorems about TaskGraphRunner, for any number of workers, namespaces   *)
(* and tasks and any acyclic dependencies.                                 *)
(***************************************************************************)
EXTENDS TaskGraphRunner, FiniteSetTheorems, WellFoundedInduction, TLAPS

-----------------------------------------------------------------------------
(* Operators the model is built from.                                      *)

\* A Signal moves at most one waiting thread, to the top of its loop.
LEMMA SignalMoves ==
  ASSUME NEW cv \in {"ready_cv", "finished_cv"},
         NEW s \in [Thread -> PC],
         NEW p \in Signal(cv, s)
  PROVE  /\ p \in [Thread -> PC]
         /\ \A th \in Thread : p[th] = s[th] \/ (s[th] = cv /\ p[th] = Woken(cv))
  BY DEF Signal, Woken, PC

\* The tasks that running threads have do not change when a Signal is sent.
LEMMA SignalKeepsRunning ==
  ASSUME NEW cv \in {"ready_cv", "finished_cv"},
         NEW s \in [Thread -> PC],
         NEW p \in Signal(cv, s)
  PROVE  \A th \in Thread : p[th] = "run" <=> s[th] = "run"
  BY SignalMoves DEF Woken

\* Origin threads that wait after a Signal waited before it.
LEMMA SignalKeepsWaiters ==
  ASSUME NEW cv \in {"ready_cv", "finished_cv"},
         NEW s \in [Thread -> PC],
         NEW p \in Signal(cv, s)
  PROVE  \A th \in Thread : p[th] \in {"wait", "finished_cv"}
                              => s[th] \in {"wait", "finished_cv"}
  BY SignalMoves DEF Woken

\* Counting the dependencies in a set of tasks gives a natural number.
LEMMA CountType ==
  ASSUME NEW S \in SUBSET Task, NEW t
  PROVE  /\ IsFiniteSet(DependenciesIn(S, t))
         /\ Cardinality(DependenciesIn(S, t)) \in Nat
  BY TaskAssumption, FS_Subset, FS_CardinalityType DEF DependenciesIn

\* ScheduleTasks counts, for each node, the dependencies that are not among
\* the completed tasks.
LEMMA InitialDependenciesCount ==
  ASSUME NEW ns \in Namespace, NEW S \in SUBSET Task, NEW t
  PROVE  /\ InitialDependencies(ns, S, t)
              = Cardinality(DependenciesIn(S \ completed_tasks[ns], t))
         /\ InitialDependencies(ns, S, t) \in Nat
<1> DEFINE D == DependenciesIn(S, t)
           C == DependenciesIn(completed_tasks[ns] \cap S, t)
<1>1. IsFiniteSet(D)
  BY CountType
<1>2. C = D \cap C /\ D \ C = DependenciesIn(S \ completed_tasks[ns], t)
  BY DEF DependenciesIn
<1>3. Cardinality(D \ C) = Cardinality(D) - Cardinality(D \cap C)
  BY <1>1, FS_Difference
<1> QED
  BY <1>1, <1>2, <1>3, CountType DEF InitialDependencies

-----------------------------------------------------------------------------
(* The inductive invariant.                                                *)

LEMMA InitInv == Init => IInv
<1> SUFFICES ASSUME Init PROVE IInv
  OBVIOUS
<1>1. TypeOK
  <2>1. next_namespace_id \in 1..(MaxNamespace + 1)
    BY NamespaceAssumption DEF Init, FirstNamespaceId
  <2>2. pc \in [Thread -> PC]
    BY DEF Init, PC
  <2>3. /\ nodes \in [Namespace -> SUBSET Task]
        /\ ready_to_run_tasks \in [Namespace -> SUBSET Task]
        /\ completed_tasks \in [Namespace -> SUBSET Task]
        /\ running_tasks \in [Namespace -> SUBSET Task]
    BY DEF Init
  <2>4. /\ dependencies \in [Task -> Int]
        /\ priority \in [Task -> Nat]
        /\ task \in [Thread -> Task \cup {NoTask}]
    BY DEF Init
  <2>5. /\ namespaces \subseteq Namespace
        /\ ready_to_run_namespaces \subseteq Namespace
        /\ shutdown \in BOOLEAN
        /\ did_run \subseteq Task
        /\ collected \subseteq Task
    BY DEF Init
  <2> QED
    BY <2>1, <2>2, <2>3, <2>4, <2>5 DEF TypeOK
<1>2. OnePlace
  BY ThreadAssumption DEF Init, OnePlace, Placed, Waiting, TasksOf
<1>3. DependenciesExact /\ ReadyNamespacesExact /\ GraphClosed
        /\ ReadyCounted /\ StartedInOrder
  BY TaskAssumption DEF Init, DependenciesExact, ReadyNamespacesExact,
     GraphClosed, ReadyCounted, StartedInOrder
<1>4. ErasedNamespaceUnused /\ RunningThreads
  BY ThreadAssumption DEF Init, ErasedNamespaceUnused, RunningThreads, Origin,
     Thread, HasFinishedRunningTasksInNamespace
<1> QED
  BY <1>1, <1>2, <1>3, <1>4 DEF IInv

\* Steps that only move threads between the points where they wait.
LEMMA ControlStep ==
  ASSUME IInv, UNCHANGED tasks,
         pc' \in [Thread -> PC], shutdown' \in BOOLEAN,
         \A th \in Thread : pc'[th] = "run" <=> pc[th] = "run",
         \A ns \in Namespace :
           pc'[ns] \in {"wait", "finished_cv"} => ns \in namespaces
  PROVE  IInv'
<1> USE DEF IInv, tasks
<1>1. TypeOK'
  BY DEF TypeOK
<1>2. OnePlace'
  <2>1. {x \in Thread : pc'[x] = "run"} = {x \in Thread : pc[x] = "run"}
    OBVIOUS
  <2> QED
    BY <2>1 DEF OnePlace, Placed, Waiting
<1>3. (DependenciesExact /\ ReadyNamespacesExact /\ GraphClosed
         /\ ReadyCounted /\ StartedInOrder)'
  BY DEF DependenciesExact, ReadyNamespacesExact, GraphClosed, ReadyCounted,
     StartedInOrder
<1>4. ErasedNamespaceUnused'
  BY DEF ErasedNamespaceUnused, HasFinishedRunningTasksInNamespace
<1>5. RunningThreads'
  BY DEF RunningThreads
<1> QED
  BY <1>1, <1>2, <1>3, <1>4, <1>5

LEMMA ScheduleStep ==
  ASSUME IInv, NEW ns \in Namespace, NEW S \in SUBSET TasksOf(ns),
         NEW prio \in Priorities, ScheduleTasks(ns, S, prio)
  PROVE  IInv'
<1> USE DEF IInv
<1> DEFINE ready == {t \in S : dependencies'[t] = 0}
                      \ (did_run \cup running_tasks[ns])
<1>1. /\ S \subseteq Task
      /\ \A t \in S : NamespaceOf[t] = ns
      /\ \A m \in Namespace \ {ns} : nodes[m] \cap S = {}
                                       /\ completed_tasks[m] \cap S = {}
                                       /\ running_tasks[m] \cap S = {}
  BY DEF TasksOf, OnePlace, Placed
<1>2. /\ nodes' = [nodes EXCEPT ![ns] = S]
      /\ ready_to_run_tasks' = [ready_to_run_tasks EXCEPT ![ns] = ready]
      /\ completed_tasks' =
           [completed_tasks EXCEPT ![ns] = @ \cup Canceled(ns, S)]
      /\ ready_to_run_namespaces' =
           {n \in namespaces' : ready_to_run_tasks'[n] # {}}
      /\ namespaces' = namespaces \cup {ns}
      /\ dependencies' = [t \in Task |-> IF t \in S
                            THEN InitialDependencies(ns, S, t)
                            ELSE dependencies[t]]
      /\ IsGraphOf(ns, S)
      /\ UNCHANGED <<next_namespace_id, running_tasks, shutdown, did_run,
                     collected, task>>
  BY <1>1 DEF ScheduleTasks, WakeWorkerIfReady
<1>3. /\ pc' \in [Thread -> PC]
      /\ \A th \in Thread : pc'[th] = "run" <=> pc[th] = "run"
      /\ \A th \in Thread : pc'[th] \in {"wait", "finished_cv"}
                              => pc[th] \in {"wait", "finished_cv"}
  <2>1. CASE pc' = pc
    BY <2>1 DEF TypeOK
  <2>2. CASE pc' \in Signal("ready_cv", pc)
    BY <2>2, SignalMoves, SignalKeepsRunning, SignalKeepsWaiters DEF TypeOK
  <2> QED
    BY <2>1, <2>2 DEF ScheduleTasks, WakeWorkerIfReady
<1>4. \A t \in S :
        /\ dependencies'[t] = Cardinality(DependenciesIn(S, t) \ did_run)
        /\ dependencies'[t] \in Nat
  <2>1. S \ completed_tasks[ns] = S \ did_run
    BY <1>1, <1>2 DEF IsGraphOf, OnePlace, Placed, TasksOf
  <2>2. \A t : DependenciesIn(S \ completed_tasks[ns], t)
                 = DependenciesIn(S, t) \ did_run
    BY <2>1 DEF DependenciesIn
  <2> SUFFICES ASSUME NEW t \in S
               PROVE  /\ dependencies'[t] = Cardinality(DependenciesIn(S, t) \ did_run)
                      /\ dependencies'[t] \in Nat
    OBVIOUS
  <2>3. dependencies'[t] = InitialDependencies(ns, S, t)
    BY <1>1, <1>2
  <2>4. S \in SUBSET Task
    BY <1>1
  <2> QED
    BY <2>2, <2>3, <2>4, InitialDependenciesCount
<1>5. TypeOK'
  <2>1. dependencies' \in [Task -> Int]
    <3>1. \A t \in Task : (IF t \in S THEN InitialDependencies(ns, S, t)
                                      ELSE dependencies[t]) \in Int
      <4>1. dependencies \in [Task -> Int]
        BY DEF TypeOK
      <4>2. \A t \in S : InitialDependencies(ns, S, t) \in Nat
        BY <1>1, InitialDependenciesCount
      <4> QED
        BY <4>1, <4>2
    <3>2. dependencies' = [t \in Task |-> IF t \in S
                            THEN InitialDependencies(ns, S, t)
                            ELSE dependencies[t]]
      BY <1>2
    <3> QED
      BY <3>1, <3>2
  <2>2. priority' \in [Task -> Nat]
    BY TaskAssumption DEF ScheduleTasks, WakeWorkerIfReady, TypeOK
  <2> QED
    BY <1>1, <1>2, <1>3, <2>1, <2>2 DEF TypeOK, Canceled
<1>6. OnePlace'
  <2>1. {x \in Thread : pc'[x] = "run"} = {x \in Thread : pc[x] = "run"}
    BY <1>3
  <2>2. ASSUME NEW m \in Namespace \ {ns}
        PROVE  /\ nodes'[m] = nodes[m]
               /\ ready_to_run_tasks'[m] = ready_to_run_tasks[m]
               /\ completed_tasks'[m] = completed_tasks[m]
               /\ Waiting(m)' = Waiting(m)
    BY <1>1, <1>2 DEF TypeOK, Waiting
  <2>3. /\ nodes'[ns] = S
        /\ ready_to_run_tasks'[ns] = ready
        /\ completed_tasks'[ns] = completed_tasks[ns] \cup Canceled(ns, S)
    BY <1>2 DEF TypeOK
  <2>4. Waiting(ns)' = {t \in S : dependencies'[t] > 0}
                         \ (did_run \cup running_tasks[ns])
    BY <1>2, <2>3 DEF Waiting
  <2>5. S \subseteq Waiting(ns)' \cup ready \cup running_tasks[ns] \cup did_run
    <3> SUFFICES ASSUME NEW t \in S, t \notin running_tasks[ns] \cup did_run
                 PROVE  t \in Waiting(ns)' \cup ready
      OBVIOUS
    <3>1. dependencies'[t] \in Nat
      BY <1>4
    <3>2. dependencies'[t] = 0 \/ dependencies'[t] > 0
      BY <3>1
    <3> QED
      BY <2>4, <3>2
  <2>6. Canceled(ns, S) \subseteq Waiting(ns) \cup ready_to_run_tasks[ns]
    BY DEF Canceled, OnePlace, Placed
  <2>7. /\ Canceled(ns, S) \cap (collected \cup S \cup running_tasks[ns]) = {}
        /\ Canceled(ns, S) \subseteq TasksOf(ns)
    BY <2>6 DEF Canceled, OnePlace, Placed
  <2>8. S \cap collected = {} /\ S \cap completed_tasks[ns] \subseteq did_run
    BY <1>2 DEF IsGraphOf
  <2>9. Placed(ns)'
    <3>1. Placed(ns)
      BY DEF OnePlace
    <3>2. S \subseteq TasksOf(ns)
      OBVIOUS
    <3>3. completed_tasks'[ns] \cap collected' = {}
      BY <1>2, <2>3, <2>7, <3>1 DEF Placed
    <3>4. (Waiting(ns)' \cup ready \cup running_tasks[ns])
            \cap (completed_tasks'[ns] \cup collected') = {}
      BY <1>2, <2>3, <2>4, <2>7, <2>8, <3>1 DEF Placed
    <3>5. running_tasks'[ns] =
            {task'[th] : th \in {x \in Thread : pc'[x] = "run"}} \cap TasksOf(ns)
      BY <1>2, <2>1, <3>1 DEF Placed
    <3>6. nodes'[ns] \cup running_tasks'[ns] \cup completed_tasks'[ns]
            \subseteq TasksOf(ns)
      BY <1>2, <2>3, <2>7, <3>1, <3>2 DEF Placed
    <3>7. /\ ready_to_run_tasks'[ns] \subseteq nodes'[ns]
          /\ ready_to_run_tasks'[ns] \cap (did_run' \cup running_tasks'[ns]) = {}
          /\ running_tasks'[ns] \cap did_run' = {}
          /\ did_run' \cap TasksOf(ns) \subseteq completed_tasks'[ns] \cup collected'
      BY <1>2, <2>3, <3>1 DEF Placed
    <3>8. nodes'[ns] \subseteq Waiting(ns)' \cup ready_to_run_tasks'[ns]
                                 \cup running_tasks'[ns] \cup did_run'
      BY <1>2, <2>3, <2>5
    <3>9. (Waiting(ns)' \cup ready_to_run_tasks'[ns] \cup running_tasks'[ns])
            \cap (completed_tasks'[ns] \cup collected') = {}
      BY <1>2, <2>3, <3>4
    <3> QED
      BY <3>3, <3>5, <3>6, <3>7, <3>8, <3>9 DEF Placed
  <2>10. ASSUME NEW m \in Namespace \ {ns} PROVE Placed(m)'
    BY <1>2, <2>1, <2>2 DEF OnePlace, Placed
  <2> QED
    BY <2>9, <2>10 DEF OnePlace
<1>7. DependenciesExact'
  BY <1>1, <1>2, <1>4 DEF DependenciesExact, TypeOK
<1>8. ReadyNamespacesExact'
  BY <1>2 DEF ReadyNamespacesExact, TypeOK, ErasedNamespaceUnused,
     HasFinishedRunningTasksInNamespace
<1>9. ErasedNamespaceUnused'
  BY <1>2, <1>3 DEF ErasedNamespaceUnused, TypeOK, Thread, Origin,
     HasFinishedRunningTasksInNamespace
<1>10. GraphClosed'
  BY <1>2 DEF GraphClosed, TypeOK, IsGraphOf
<1>11. ReadyCounted'
  BY <1>1, <1>2 DEF ReadyCounted, TypeOK, OnePlace, Placed
<1>12. StartedInOrder'
  BY <1>2 DEF StartedInOrder
<1>13. RunningThreads'
  BY <1>2, <1>3 DEF RunningThreads
<1> QED
  BY <1>5, <1>6, <1>7, <1>8, <1>9, <1>10, <1>11, <1>12, <1>13

LEMMA CollectStep ==
  ASSUME IInv, NEW ns \in Namespace, CollectCompletedTasks(ns)
  PROVE  IInv'
<1> USE DEF IInv
<1>1. /\ completed_tasks' = [completed_tasks EXCEPT ![ns] = {}]
      /\ collected' = collected \cup completed_tasks[ns]
      /\ UNCHANGED <<next_namespace_id, dependencies, priority,
           ready_to_run_tasks, running_tasks, ready_to_run_namespaces,
           shutdown, did_run, task, pc>>
      /\ pc[ns] = "client"
  BY DEF CollectCompletedTasks
<1>2. \/ /\ HasFinishedRunningTasksInNamespace(ns)
         /\ namespaces' = namespaces \ {ns}
         /\ nodes' = [nodes EXCEPT ![ns] = {}]
      \/ /\ UNCHANGED <<namespaces, nodes>>
  BY DEF CollectCompletedTasks
<1>3. /\ \A m \in Namespace : nodes'[m] \subseteq nodes[m]
      /\ \A m \in Namespace : nodes'[m] = nodes[m] \/ nodes'[m] = {}
      /\ \A m \in Namespace \ {ns} : nodes'[m] = nodes[m]
      /\ nodes' \in [Namespace -> SUBSET Task]
      /\ namespaces' \subseteq Namespace
  BY <1>2 DEF TypeOK
<1>4. TypeOK'
  BY <1>1, <1>3 DEF TypeOK
<1>5. OnePlace'
  <2> SUFFICES ASSUME NEW m \in Namespace PROVE Placed(m)'
    BY DEF OnePlace
  <2>1. Placed(m) /\ Placed(ns)
    BY DEF OnePlace
  <2>2. m # ns => TasksOf(m) \cap TasksOf(ns) = {}
    BY DEF TasksOf
  <2>3. completed_tasks'[m] \cap collected' = {}
    BY <1>1, <2>1, <2>2 DEF Placed, TypeOK
  <2>4. Waiting(m)' \subseteq Waiting(m)
    BY <1>1, <1>3 DEF Waiting
  <2>5. (Waiting(m) \cup ready_to_run_tasks[m] \cup running_tasks[m])
          \cap (completed_tasks'[m] \cup collected') = {}
    <3>1. CASE m = ns
      BY <1>1, <2>1, <3>1 DEF Placed, TypeOK
    <3>2. CASE m # ns
      <4>1. Waiting(m) \cup ready_to_run_tasks[m] \cup running_tasks[m]
              \subseteq TasksOf(m)
        BY <2>1 DEF Placed, Waiting
      <4>2. completed_tasks'[m] = completed_tasks[m]
        BY <1>1, <3>2 DEF TypeOK
      <4>3. completed_tasks[ns] \subseteq TasksOf(ns)
        BY <2>1 DEF Placed
      <4> QED
        BY <1>1, <2>1, <2>2, <3>2, <4>1, <4>2, <4>3 DEF Placed
    <3> QED
      BY <3>1, <3>2
  <2>6. did_run \cap TasksOf(m) \subseteq completed_tasks'[m] \cup collected'
    BY <1>1, <2>1 DEF Placed, TypeOK
  <2>7. ready_to_run_tasks[m] \subseteq nodes'[m]
    BY <1>2, <1>3, <2>1 DEF Placed, HasFinishedRunningTasksInNamespace, TypeOK
  <2>8. nodes'[m] \subseteq Waiting(m)' \cup ready_to_run_tasks[m]
                              \cup running_tasks[m] \cup did_run
    BY <1>1, <1>3, <2>1 DEF Placed, Waiting
  <2>9. completed_tasks'[m] \subseteq TasksOf(m)
    BY <1>1, <2>1 DEF Placed, TypeOK
  <2> QED
    BY <1>1, <1>3, <2>1, <2>3, <2>4, <2>5, <2>6, <2>7, <2>8, <2>9 DEF Placed
<1>6. DependenciesExact'
  BY <1>1, <1>3 DEF DependenciesExact
<1>7. ReadyNamespacesExact' /\ ReadyCounted' /\ StartedInOrder' /\ RunningThreads'
  BY <1>1 DEF ReadyNamespacesExact, ReadyCounted, StartedInOrder, RunningThreads
<1>8. ErasedNamespaceUnused'
  BY <1>1, <1>2 DEF ErasedNamespaceUnused, TypeOK,
     HasFinishedRunningTasksInNamespace
<1>9. GraphClosed'
  BY <1>1, <1>3 DEF GraphClosed
<1> QED
  BY <1>4, <1>5, <1>6, <1>7, <1>8, <1>9

LEMMA StartStep ==
  ASSUME IInv, NEW th \in Thread, NEW ns \in Namespace, NEW t \in Task,
         StartTask(th, ns, t)
  PROVE  IInv'
<1> USE DEF IInv
<1>1. /\ ready_to_run_tasks' = [ready_to_run_tasks EXCEPT ![ns] = @ \ {t}]
      /\ ready_to_run_namespaces' =
           IF ready_to_run_tasks'[ns] = {}
             THEN ready_to_run_namespaces \ {ns} ELSE ready_to_run_namespaces
      /\ running_tasks' = [running_tasks EXCEPT ![ns] = @ \cup {t}]
      /\ task' = [task EXCEPT ![th] = t]
      /\ UNCHANGED <<next_namespace_id, namespaces, nodes, dependencies,
           priority, completed_tasks, shutdown, did_run, collected>>
      /\ t \in ready_to_run_tasks[ns]
      /\ pc[th] # "run"
  BY DEF StartTask, IsTopPriority
<1>2. Placed(ns) /\ t \in TasksOf(ns) /\ t \in nodes[ns]
        /\ t \notin running_tasks[ns]
  BY <1>1 DEF OnePlace, Placed
<1>3. /\ pc' \in [Thread -> PC]
      /\ \A x \in Thread : pc'[x] = "run" <=> pc[x] = "run" \/ x = th
      /\ \A x \in Thread : pc'[x] \in {"wait", "finished_cv"}
                              => pc[x] \in {"wait", "finished_cv"}
  <2> DEFINE s == [pc EXCEPT ![th] = "run"]
  <2>1. s \in [Thread -> PC] /\ pc' \in Signal("ready_cv", s)
    BY DEF StartTask, TypeOK, PC
  <2>2. \A x \in Thread : s[x] = IF x = th THEN "run" ELSE pc[x]
    BY DEF TypeOK
  <2> HIDE DEF s
  <2> QED
    BY <2>1, <2>2, SignalMoves, SignalKeepsRunning, SignalKeepsWaiters
<1>4. TypeOK'
  BY <1>1, <1>3 DEF TypeOK
<1>5. /\ ready_to_run_tasks'[ns] = ready_to_run_tasks[ns] \ {t}
      /\ running_tasks'[ns] = running_tasks[ns] \cup {t}
      /\ \A m \in Namespace \ {ns} :
           /\ ready_to_run_tasks'[m] = ready_to_run_tasks[m]
           /\ running_tasks'[m] = running_tasks[m]
           /\ t \notin TasksOf(m)
  BY <1>1, <1>2 DEF TypeOK, TasksOf
<1>6. \A m \in Namespace :
        {task'[x] : x \in {y \in Thread : pc'[y] = "run"}} \cap TasksOf(m)
          = running_tasks'[m]
  <2>1. {task'[x] : x \in {y \in Thread : pc'[y] = "run"}}
          = {task[x] : x \in {y \in Thread : pc[y] = "run"}} \cup {t}
    <3>1. \A x \in Thread : task'[x] = IF x = th THEN t ELSE task[x]
      BY <1>1 DEF TypeOK
    <3> QED
      BY <1>1, <1>3, <3>1
  <2> QED
    BY <1>2, <1>5, <2>1 DEF OnePlace, Placed
<1>7. OnePlace'
  <2> SUFFICES ASSUME NEW m \in Namespace PROVE Placed(m)'
    BY DEF OnePlace
  <2>1. Placed(m)
    BY DEF OnePlace
  <2>2. Waiting(m)' = Waiting(m) \ (running_tasks'[m] \ running_tasks[m])
    BY <1>1, <1>5 DEF Waiting
  <2>3. CASE m = ns
    BY <1>1, <1>2, <1>5, <1>6, <2>1, <2>2, <2>3 DEF Placed
  <2>4. CASE m # ns
    BY <1>1, <1>5, <1>6, <2>1, <2>2, <2>4 DEF Placed
  <2> QED
    BY <2>3, <2>4
<1>8. DependenciesExact' /\ GraphClosed'
  BY <1>1 DEF DependenciesExact, GraphClosed
<1>9. ReadyCounted'
  BY <1>1, <1>5 DEF ReadyCounted
<1>10. ReadyNamespacesExact'
  BY <1>1, <1>5 DEF ReadyNamespacesExact, TypeOK
<1>11. ErasedNamespaceUnused'
  BY <1>1, <1>3, <1>5 DEF ErasedNamespaceUnused, Thread, Origin,
     HasFinishedRunningTasksInNamespace
<1>12. StartedInOrder'
  <2>1. DependenciesIn(nodes[ns], t) \ did_run = {}
    <3>1. Cardinality(DependenciesIn(nodes[ns], t) \ did_run) = 0
      BY <1>1, <1>2 DEF DependenciesExact, ReadyCounted
    <3>2. IsFiniteSet(DependenciesIn(nodes[ns], t) \ did_run)
      <4>1. nodes[ns] \in SUBSET Task
        BY DEF TypeOK
      <4>2. IsFiniteSet(DependenciesIn(nodes[ns], t))
        BY <4>1, CountType
      <4> QED
        BY <4>2, FS_Subset
    <3> QED
      BY <3>1, <3>2, FS_EmptySet
  <2>2. DependenciesIn(Task, t) \subseteq did_run
    <3> SUFFICES ASSUME NEW u \in Task, <<u, t>> \in Dependency
                 PROVE  u \in did_run
      BY DEF DependenciesIn
    <3>1. u \in nodes[ns] \cup did_run
      <4>1. <<u, t>>[1] = u /\ <<u, t>>[2] = t
        OBVIOUS
      <4> QED
        BY <1>2, <4>1 DEF GraphClosed
    <3> QED
      BY <2>1, <3>1 DEF DependenciesIn
  <2>3. \A x \in Task : x \in running_tasks'[NamespaceOf[x]] =>
          x = t \/ x \in running_tasks[NamespaceOf[x]]
    BY <1>1, TaskAssumption DEF TypeOK
  <2> QED
    BY <1>1, <2>2, <2>3 DEF StartedInOrder
<1>13. RunningThreads'
  <2>1. \A x \in Thread : task'[x] = IF x = th THEN t ELSE task[x]
    BY <1>1 DEF TypeOK
  <2>2. \A x \in Thread : pc[x] = "run" => task[x] # t
    BY <1>2 DEF Placed
  <2> QED
    BY <1>3, <2>1, <2>2 DEF RunningThreads
<1> QED
  BY <1>4, <1>7, <1>8, <1>9, <1>10, <1>11, <1>12, <1>13

LEMMA FinishStep ==
  ASSUME IInv, NEW th \in Thread, NEW t \in Task, FinishTask(th, t)
  PROVE  IInv'
<1> USE DEF IInv
<1> DEFINE ns == NamespaceOf[t]
           newly_ready == {d \in DependentsOf(ns, t) : dependencies[d] = 1}
<1>1. /\ did_run' = did_run \cup {t}
      /\ running_tasks' = [running_tasks EXCEPT ![ns] = @ \ {t}]
      /\ dependencies' = [d \in Task |-> IF d \in DependentsOf(ns, t)
                                           THEN dependencies[d] - 1
                                           ELSE dependencies[d]]
      /\ ready_to_run_tasks' =
           [ready_to_run_tasks EXCEPT ![ns] = @ \cup newly_ready]
      /\ ready_to_run_namespaces' =
           IF newly_ready # {} /\ ready_to_run_tasks[ns] = {}
             THEN ready_to_run_namespaces \cup {ns}
             ELSE ready_to_run_namespaces
      /\ completed_tasks' = [completed_tasks EXCEPT ![ns] = @ \cup {t}]
      /\ task' = [task EXCEPT ![th] = NoTask]
      /\ UNCHANGED <<next_namespace_id, namespaces, nodes, priority, shutdown,
                     collected>>
      /\ pc[th] = "run" /\ task[th] = t
  BY DEF FinishTask
<1>2. /\ ns \in Namespace
      /\ Placed(ns)
      /\ t \in TasksOf(ns)
      /\ t \in running_tasks[ns]
      /\ t \notin did_run
  <2>1. ns \in Namespace
    BY TaskAssumption
  <2>2. t \in TasksOf(ns)
    BY DEF TasksOf
  <2> QED
    BY <1>1, <2>1, <2>2 DEF OnePlace, Placed
<1>3. /\ pc' \in [Thread -> PC]
      /\ \A x \in Thread : pc'[x] = "run" <=> pc[x] = "run" /\ x # th
      /\ \A x \in Thread : pc'[x] \in {"wait", "finished_cv"}
                              => pc[x] \in {"wait", "finished_cv"}
  <2> DEFINE s == [pc EXCEPT ![th] = IF th \in Worker THEN "loop"
                                                       ELSE "until_idle"]
  <2>1. s \in [Thread -> PC]
    BY DEF TypeOK, PC
  <2>2. \A x \in Thread : s[x] = IF x = th THEN (IF th \in Worker THEN "loop"
                                                 ELSE "until_idle") ELSE pc[x]
    BY DEF TypeOK
  <2>3. pc' = s \/ pc' \in Signal("finished_cv", s)
    BY DEF FinishTask
  <2> HIDE DEF s
  <2>4. CASE pc' = s
    BY <2>1, <2>2, <2>4
  <2>5. CASE pc' \in Signal("finished_cv", s)
    BY <2>1, <2>2, <2>5, SignalMoves, SignalKeepsRunning, SignalKeepsWaiters
  <2> QED
    BY <2>3, <2>4, <2>5
<1>4. /\ ready_to_run_tasks'[ns] = ready_to_run_tasks[ns] \cup newly_ready
      /\ running_tasks'[ns] = running_tasks[ns] \ {t}
      /\ completed_tasks'[ns] = completed_tasks[ns] \cup {t}
      /\ \A m \in Namespace \ {ns} :
           /\ ready_to_run_tasks'[m] = ready_to_run_tasks[m]
           /\ running_tasks'[m] = running_tasks[m]
           /\ completed_tasks'[m] = completed_tasks[m]
           /\ t \notin TasksOf(m)
  BY <1>1, <1>2 DEF TypeOK, TasksOf
<1>5. TypeOK'
  <2>1. DependentsOf(ns, t) \subseteq Task
    BY <1>2 DEF DependentsOf, TypeOK
  <2>2. dependencies' \in [Task -> Int]
    BY <1>1 DEF TypeOK
  <2>3. newly_ready \subseteq Task
    BY <2>1
  <2>4. /\ ready_to_run_tasks' \in [Namespace -> SUBSET Task]
        /\ running_tasks' \in [Namespace -> SUBSET Task]
        /\ completed_tasks' \in [Namespace -> SUBSET Task]
        /\ ready_to_run_namespaces' \subseteq Namespace
        /\ task' \in [Thread -> Task \cup {NoTask}]
        /\ did_run' \subseteq Task
    BY <1>1, <1>2, <2>3 DEF TypeOK
  <2> QED
    BY <1>1, <1>3, <2>2, <2>4 DEF TypeOK
\* A dependent of t has not started: t would have run before.
<1>6. \A d \in DependentsOf(ns, t) :
        /\ d \in nodes[ns]
        /\ t \in DependenciesIn(nodes[ns], d) \ did_run
        /\ d \notin did_run
        /\ d \notin running_tasks[ns]
        /\ d # t
  <2> SUFFICES ASSUME NEW d \in DependentsOf(ns, t)
               PROVE  /\ d \in nodes[ns]
                      /\ t \in DependenciesIn(nodes[ns], d) \ did_run
                      /\ d \notin did_run \cup running_tasks[ns]
                      /\ d # t
    OBVIOUS
  <2>1. /\ d \in nodes[ns] /\ d \in Task /\ NamespaceOf[d] = ns
        /\ t \in DependenciesIn(nodes[ns], d)
        /\ t \in DependenciesIn(Task, d)
    BY <1>2 DEF DependentsOf, DependenciesIn, Placed, TasksOf
  <2>2. d \notin did_run \cup running_tasks[ns]
    BY <1>2, <2>1 DEF StartedInOrder
  <2> QED
    BY <1>2, <2>1, <2>2
<1>7. \A m \in Namespace : \A d \in nodes[m] :
        dependencies'[d] =
          Cardinality(DependenciesIn(nodes[m], d) \ (did_run \cup {t}))
  <2> SUFFICES ASSUME NEW m \in Namespace, NEW d \in nodes[m]
               PROVE  dependencies'[d] =
          Cardinality(DependenciesIn(nodes[m], d) \ (did_run \cup {t}))
    OBVIOUS
  <2> DEFINE D == DependenciesIn(nodes[m], d) \ did_run
  <2>1. d \in Task /\ dependencies[d] = Cardinality(D)
    BY DEF DependenciesExact, TypeOK
  <2>2. DependenciesIn(nodes[m], d) \ (did_run \cup {t}) = D \ {t}
    OBVIOUS
  <2>3. IsFiniteSet(D)
    <3>1. nodes[m] \in SUBSET Task
      BY DEF TypeOK
    <3> QED
      BY <3>1, CountType, FS_Subset
  <2>4. CASE d \in DependentsOf(ns, t)
    <3>1. m = ns
      BY <1>2, <1>6, <2>4 DEF OnePlace, Placed, TasksOf
    <3>2. t \in D
      BY <1>6, <2>4, <3>1
    <3>3. Cardinality(D \ {t}) = Cardinality(D) - 1
      BY <2>3, <3>2, FS_RemoveElement
    <3> QED
      BY <1>1, <2>1, <2>2, <2>4, <3>3
  <2>5. CASE d \notin DependentsOf(ns, t)
    <3>1. t \notin D
      <4>1. CASE m = ns
        BY <2>5, <4>1 DEF DependentsOf, DependenciesIn
      <4>2. CASE m # ns
        BY <1>2, <4>2 DEF OnePlace, Placed, TasksOf, DependenciesIn
      <4> QED
        BY <4>1, <4>2
    <3>2. D \ {t} = D
      BY <3>1
    <3> QED
      BY <1>1, <2>1, <2>2, <2>5, <3>2
  <2> QED
    BY <2>4, <2>5
<1>8. DependenciesExact'
  BY <1>1, <1>7 DEF DependenciesExact
<1>9. ReadyCounted'
  <2> SUFFICES ASSUME NEW m \in Namespace, NEW d \in ready_to_run_tasks'[m]
               PROVE  dependencies'[d] = 0
    BY DEF ReadyCounted
  <2>1. CASE d \in ready_to_run_tasks[m]
    <3>1. d \in nodes[m] /\ d \in Task /\ dependencies[d] = 0
      BY <2>1 DEF OnePlace, Placed, ReadyCounted, TypeOK
    <3>2. DependenciesIn(nodes[m], d) \ did_run = {}
      <4>1. nodes[m] \in SUBSET Task
        BY DEF TypeOK
      <4>2. IsFiniteSet(DependenciesIn(nodes[m], d) \ did_run)
        BY <4>1, CountType, FS_Subset
      <4>3. Cardinality(DependenciesIn(nodes[m], d) \ did_run) = 0
        BY <3>1 DEF DependenciesExact
      <4> QED
        BY <4>2, <4>3, FS_EmptySet
    <3>3. d \notin DependentsOf(ns, t)
      <4> SUFFICES ASSUME d \in DependentsOf(ns, t) PROVE FALSE
        OBVIOUS
      <4>1. d \in nodes[ns] /\ t \in DependenciesIn(nodes[ns], d) \ did_run
        BY <1>6
      <4>2. m = ns
        BY <1>2, <3>1, <4>1 DEF OnePlace, Placed, TasksOf
      <4> QED
        BY <3>2, <4>1, <4>2
    <3> QED
      BY <1>1, <3>1, <3>3
  <2>2. CASE d \in newly_ready /\ m = ns
    <3>1. d \in Task /\ d \in DependentsOf(ns, t) /\ dependencies[d] = 1
      BY <1>2, <1>6, <2>2 DEF TypeOK
    <3> QED
      BY <1>1, <3>1
  <2> QED
    BY <1>4, <2>1, <2>2
<1>10. \A m \in Namespace :
         running_tasks'[m] =
           {task'[x] : x \in {y \in Thread : pc'[y] = "run"}} \cap TasksOf(m)
  <2>1. \A x \in Thread : task'[x] = IF x = th THEN NoTask ELSE task[x]
    BY <1>1 DEF TypeOK
  <2>2. \A x \in Thread : pc'[x] = "run" => task'[x] = task[x] /\ task[x] # t
    BY <1>1, <1>3, <2>1 DEF RunningThreads
  <2>3. {task'[x] : x \in {y \in Thread : pc'[y] = "run"}}
          = {task[x] : x \in {y \in Thread : pc[y] = "run"}} \ {t}
    BY <1>1, <1>3, <2>2
  <2> QED
    BY <1>2, <1>4, <2>3 DEF OnePlace, Placed
<1>11. newly_ready \subseteq Waiting(ns)
  BY <1>6 DEF Waiting
<1>12. \A m \in Namespace : Waiting(m)' \subseteq Waiting(m) \ {t}
  <2> SUFFICES ASSUME NEW m \in Namespace, NEW d \in Waiting(m)'
               PROVE  d \in Waiting(m) /\ d # t
    OBVIOUS
  <2>1. d \in nodes[m] /\ d \in Task /\ dependencies'[d] > 0 /\ d # t
          /\ d \notin did_run /\ d \notin running_tasks'[m]
    BY <1>1 DEF Waiting, TypeOK
  <2>2. dependencies[d] > 0
    BY <1>1, <2>1 DEF TypeOK
  <2>3. d \notin running_tasks[m]
    BY <1>2, <1>4, <2>1
  <2> QED
    BY <2>1, <2>2, <2>3 DEF Waiting
<1>13. \A m \in Namespace \ {ns} : Waiting(m)' = Waiting(m)
  <2> SUFFICES ASSUME NEW m \in Namespace \ {ns} PROVE Waiting(m) \subseteq Waiting(m)'
    BY <1>12
  <2>1. \A d \in nodes[m] : d \in Task /\ d \notin DependentsOf(ns, t) /\ d # t
    BY <1>2, <1>6 DEF OnePlace, Placed, TasksOf
  <2>2. \A d \in nodes[m] : dependencies'[d] = dependencies[d]
    BY <1>1, <2>1
  <2> QED
    BY <1>1, <1>4, <2>1, <2>2 DEF Waiting
<1>14. Placed(ns)'
  <2>1. nodes[ns] \subseteq Waiting(ns)' \cup ready_to_run_tasks'[ns]
                              \cup running_tasks'[ns] \cup did_run'
    <3> SUFFICES ASSUME NEW d \in Waiting(ns), d # t, d \notin newly_ready
                 PROVE  d \in Waiting(ns)'
      BY <1>1, <1>2, <1>4 DEF Placed
    <3>1. d \in Task /\ d \in nodes[ns] /\ dependencies[d] > 0
            /\ d \notin did_run /\ d \notin running_tasks[ns]
      BY <1>2 DEF Waiting, TypeOK
    <3>2. dependencies'[d] > 0
      <4>1. dependencies[d] \in Int
        BY <3>1 DEF TypeOK
      <4>2. CASE d \in DependentsOf(ns, t)
        <5>1. dependencies[d] # 1
          BY <4>2
        <5>2. dependencies'[d] = dependencies[d] - 1
          BY <1>1, <3>1, <4>2
        <5> QED
          BY <3>1, <4>1, <5>1, <5>2
      <4>3. CASE d \notin DependentsOf(ns, t)
        BY <1>1, <3>1, <4>3
      <4> QED
        BY <4>2, <4>3
    <3> QED
      BY <1>1, <1>4, <3>1, <3>2 DEF Waiting
  <2>2. (Waiting(ns)' \cup ready_to_run_tasks'[ns] \cup running_tasks'[ns])
          \cap (completed_tasks'[ns] \cup collected') = {}
    <3>1. /\ Waiting(ns)' \subseteq Waiting(ns) \ {t}
          /\ running_tasks'[ns] \subseteq running_tasks[ns] \ {t}
          /\ ready_to_run_tasks'[ns] \subseteq
               (ready_to_run_tasks[ns] \cup Waiting(ns)) \ {t}
      BY <1>2, <1>4, <1>6, <1>11, <1>12 DEF Placed
    <3>2. completed_tasks'[ns] \cup collected'
            = completed_tasks[ns] \cup {t} \cup collected
      BY <1>1, <1>4
    <3>3. (Waiting(ns) \cup ready_to_run_tasks[ns] \cup running_tasks[ns])
            \cap (completed_tasks[ns] \cup collected) = {}
      BY <1>2 DEF Placed
    <3> QED
      BY <3>1, <3>2, <3>3
  <2>3. ready_to_run_tasks'[ns] \subseteq nodes'[ns]
    BY <1>1, <1>2, <1>4, <1>6 DEF Placed
  <2>4. ready_to_run_tasks'[ns] \cap (did_run' \cup running_tasks'[ns]) = {}
    BY <1>1, <1>2, <1>4, <1>6 DEF Placed
  <2>5. /\ running_tasks'[ns] \cap did_run' = {}
        /\ completed_tasks'[ns] \cap collected' = {}
        /\ did_run' \cap TasksOf(ns) \subseteq completed_tasks'[ns] \cup collected'
        /\ nodes'[ns] \cup running_tasks'[ns] \cup completed_tasks'[ns]
             \subseteq TasksOf(ns)
    BY <1>1, <1>2, <1>4 DEF Placed
  <2> QED
    BY <1>1, <1>2, <1>10, <2>1, <2>2, <2>3, <2>4, <2>5 DEF Placed
<1>15. OnePlace'
  <2> SUFFICES ASSUME NEW m \in Namespace, m # ns PROVE Placed(m)'
    BY <1>14 DEF OnePlace
  <2>1. Placed(m) /\ t \notin TasksOf(m)
    BY <1>4 DEF OnePlace
  <2> QED
    BY <1>1, <1>4, <1>10, <1>13, <2>1 DEF Placed
<1>16. ReadyNamespacesExact'
  BY <1>1, <1>2, <1>4 DEF ReadyNamespacesExact
<1>17. ErasedNamespaceUnused'
  <2>1. ns \in namespaces
    BY <1>2 DEF ErasedNamespaceUnused, HasFinishedRunningTasksInNamespace
  <2>2. \A m \in Namespace \ {ns} : HasFinishedRunningTasksInNamespace(m)
                                      => HasFinishedRunningTasksInNamespace(m)'
    BY <1>4 DEF HasFinishedRunningTasksInNamespace
  <2> QED
    BY <1>1, <1>3, <1>4, <2>1, <2>2 DEF ErasedNamespaceUnused, Thread, Origin
<1>18. GraphClosed'
  BY <1>1 DEF GraphClosed
<1>19. StartedInOrder'
  <2>1. \A x \in Task : x \in did_run' \cup running_tasks'[NamespaceOf[x]] =>
                          x \in did_run \cup running_tasks[NamespaceOf[x]]
    <3>1. \A m \in Namespace : running_tasks'[m] \subseteq running_tasks[m]
      BY <1>4
    <3> QED
      BY <1>1, <1>2, <3>1, TaskAssumption
  <2> QED
    BY <1>1, <2>1 DEF StartedInOrder
<1>20. RunningThreads'
  <2>1. \A x \in Thread : pc'[x] = "run" => pc[x] = "run" /\ task'[x] = task[x]
    BY <1>1, <1>3 DEF TypeOK
  <2> QED
    BY <2>1 DEF RunningThreads
<1> QED
  BY <1>5, <1>8, <1>9, <1>15, <1>16, <1>17, <1>18, <1>19, <1>20

LEMMA NextInv == IInv /\ [Next]_vars => IInv'
<1> SUFFICES ASSUME IInv, [Next]_vars PROVE IInv'
  OBVIOUS
<1> USE DEF IInv
<1>1. CASE GetNamespaceToken
  <2>1. /\ next_namespace_id' \in 1..(MaxNamespace + 1)
        /\ UNCHANGED <<namespaces, nodes, dependencies, priority,
             ready_to_run_tasks, completed_tasks, running_tasks,
             ready_to_run_namespaces, shutdown, did_run, collected, task, pc>>
    BY <1>1, NamespaceAssumption DEF GetNamespaceToken, Namespace, TypeOK
  <2> QED
    BY <2>1 DEF TypeOK, OnePlace, Placed, Waiting, DependenciesExact,
       ReadyNamespacesExact, ErasedNamespaceUnused, GraphClosed, ReadyCounted,
       StartedInOrder, RunningThreads, HasFinishedRunningTasksInNamespace
<1>2. ASSUME NEW ns \in Namespace, NEW S \in SUBSET TasksOf(ns),
             NEW prio \in Priorities, ScheduleTasks(ns, S, prio)
      PROVE  IInv'
  BY <1>2, ScheduleStep
<1>3. ASSUME NEW ns \in Namespace, WaitForTasksToFinishRunning(ns)
      PROVE  IInv'
  <2>1. ns \in Thread
    BY DEF Thread, Origin
  <2>2. CASE pc' = [pc EXCEPT ![ns] = "finished_cv"]
    <3>1. \A th \in Thread : pc'[th] = IF th = ns THEN "finished_cv" ELSE pc[th]
      BY <2>2 DEF TypeOK
    <3>2. pc' \in [Thread -> PC]
      BY <2>2 DEF TypeOK, PC
    <3> QED
      BY <1>3, <2>1, <3>1, <3>2, ControlStep
      DEF WaitForTasksToFinishRunning, ErasedNamespaceUnused, TypeOK, Thread,
          Origin
  <2>3. CASE pc' \in Signal("finished_cv", [pc EXCEPT ![ns] = "client"])
    <3> DEFINE s == [pc EXCEPT ![ns] = "client"]
    <3>1. /\ s \in [Thread -> PC]
          /\ \A th \in Thread : s[th] = IF th = ns THEN "client" ELSE pc[th]
      BY DEF TypeOK, PC
    <3>4. pc' \in Signal("finished_cv", s)
      BY <2>3
    <3> HIDE DEF s
    <3>2. /\ pc' \in [Thread -> PC]
          /\ \A th \in Thread : pc'[th] = "run" <=> s[th] = "run"
          /\ \A th \in Thread : pc'[th] \in {"wait", "finished_cv"}
                                  => s[th] \in {"wait", "finished_cv"}
      BY <3>1, <3>4, SignalMoves, SignalKeepsRunning, SignalKeepsWaiters
    <3>3. pc[ns] # "run"
      BY <1>3 DEF WaitForTasksToFinishRunning
    <3> QED
      BY <1>3, <2>1, <3>1, <3>2, <3>3, ControlStep
      DEF WaitForTasksToFinishRunning, ErasedNamespaceUnused, TypeOK, Thread,
          Origin
  <2> QED
    BY <1>3, <2>2, <2>3 DEF WaitForTasksToFinishRunning
<1>4. ASSUME NEW ns \in Namespace, CollectCompletedTasks(ns) PROVE IInv'
  BY <1>4, CollectStep
<1>5. ASSUME NEW th \in Thread, NEW ns \in Namespace, NEW t \in Task,
             StartTask(th, ns, t)
      PROVE  IInv'
  BY <1>5, StartStep
<1>6. ASSUME NEW th \in Thread, NEW t \in Task, FinishTask(th, t) PROVE IInv'
  BY <1>6, FinishStep
\* The other steps of one thread: from one waiting point to another.
<1>7. ASSUME NEW th \in Thread, NEW to \in PC \ {"run"},
             UNCHANGED <<tasks, shutdown>>,
             pc' = [pc EXCEPT ![th] = to], pc[th] # "run",
             th \in Namespace /\ to \in {"wait", "finished_cv"}
               => pc[th] \in {"wait", "finished_cv"}
      PROVE  IInv'
  <2>1. /\ pc' \in [Thread -> PC]
        /\ \A x \in Thread : pc'[x] = IF x = th THEN to ELSE pc[x]
    BY <1>7 DEF TypeOK
  <2> QED
    BY <1>7, <2>1, ControlStep DEF ErasedNamespaceUnused, TypeOK, Thread, Origin
<1>8. ASSUME NEW ns \in Namespace, RunUntilIdle(ns) PROVE IInv'
  BY <1>7, <1>8 DEF RunUntilIdle, PC, Thread, Origin
<1>9. ASSUME NEW w \in Worker, WaitForReadyTasks(w) PROVE IInv'
  BY <1>7, <1>9 DEF WaitForReadyTasks, PC, Thread
<1>10. ASSUME NEW f \in Flusher, FlushForTesting(f) PROVE IInv'
  <2>1. f \in Thread /\ f \notin Namespace
    BY ThreadAssumption DEF Thread, Origin
  <2>2. CASE pc' = [pc EXCEPT ![f] = "client"]
    BY <1>7, <1>10, <2>1, <2>2 DEF FlushForTesting, PC
  <2>3. CASE pc' = [pc EXCEPT ![f] = "finished_cv"]
    BY <1>7, <1>10, <2>1, <2>3 DEF FlushForTesting, PC
  <2> QED
    BY <1>10, <2>2, <2>3 DEF FlushForTesting
<1>11. ASSUME NEW th \in Thread, SpuriousWakeup(th) PROVE IInv'
  <2>1. CASE pc[th] = "ready_cv"
    BY <1>7, <1>11, <2>1 DEF SpuriousWakeup, PC, Woken
  <2>2. CASE pc[th] = "finished_cv"
    BY <1>7, <1>11, <2>2 DEF SpuriousWakeup, PC, Woken
  <2> QED
    BY <1>11, <2>1, <2>2 DEF SpuriousWakeup
\* A Signal sent by a thread that stays where it is, or that leaves Run().
<1>12. ASSUME UNCHANGED tasks, shutdown' \in BOOLEAN,
              NEW s \in [Thread -> PC], pc' \in Signal("ready_cv", s),
              \A x \in Thread : s[x] = pc[x] \/ (pc[x] # "run" /\ s[x] = "exited")
       PROVE  IInv'
  <2>1. /\ pc' \in [Thread -> PC]
        /\ \A x \in Thread : pc'[x] = "run" <=> s[x] = "run"
        /\ \A x \in Thread : pc'[x] \in {"wait", "finished_cv"}
                               => s[x] \in {"wait", "finished_cv"}
    BY <1>12, SignalMoves, SignalKeepsRunning, SignalKeepsWaiters
  <2> QED
    BY <1>12, <2>1, ControlStep DEF ErasedNamespaceUnused, Thread, Origin
<1>13. CASE Shutdown
  <2>1. pc \in [Thread -> PC]
    BY DEF TypeOK
  <2> QED
    BY <1>12, <1>13, <2>1 DEF Shutdown
<1>14. ASSUME NEW w \in Worker, ExitRun(w) PROVE IInv'
  <2> DEFINE s == [pc EXCEPT ![w] = "exited"]
  <2>1. s \in [Thread -> PC]
    BY DEF TypeOK, PC
  <2>2. \A x \in Thread : s[x] = pc[x] \/ (pc[x] # "run" /\ s[x] = "exited")
    BY <1>14 DEF TypeOK, ExitRun
  <2>3. UNCHANGED tasks /\ shutdown' \in BOOLEAN /\ pc' \in Signal("ready_cv", s)
    BY <1>14 DEF ExitRun, TypeOK
  <2> HIDE DEF s
  <2> QED
    BY <1>12, <2>1, <2>2, <2>3
<1>15. CASE UNCHANGED vars
  BY <1>15, ControlStep DEF vars, TypeOK, ErasedNamespaceUnused
<1> QED
  BY <1>1, <1>2, <1>3, <1>4, <1>5, <1>6, <1>8, <1>9, <1>10, <1>11, <1>13,
     <1>14, <1>15
  DEF Next, OriginNext, RunNext, WorkerNext, Terminated, Thread, Origin

-----------------------------------------------------------------------------
(* The theorems.                                                           *)

\* IInv holds in every reachable state.
THEOREM Invariance == Spec => []IInv
BY InitInv, NextInv, PTL DEF Spec

\* The type invariant of the runner's state.
THEOREM TypeCorrect == Spec => []TypeOK
BY Invariance, PTL DEF IInv

\* No graph swap, cancellation or collection loses a task or has it in two
\* places at once: RunTaskWithLockAcquired runs a task once at most.
THEOREM TasksInOnePlace == Spec => []OnePlace
BY Invariance, PTL DEF IInv

\* The DCHECK_LT before each decrement of Node::dependencies holds, and a
\* node counts just the tasks it waits for.
THEOREM DependencyCounts == Spec => []DependenciesExact
BY Invariance, PTL DEF IInv

\* A namespace erased by CollectCompletedTasks is not referred to any more.
THEOREM NamespaceLifetime == Spec => []ErasedNamespaceUnused
BY Invariance, PTL DEF IInv

\* The queue of namespaces is exact: no ready task is overlooked by Run(),
\* and no worker pops a namespace without one.
THEOREM ReadyQueueExact == Spec => []ReadyNamespacesExact
BY Invariance, PTL DEF IInv

\* A ready node waits for nothing: all the tasks it depends on have run.
LEMMA ReadyInOrder == IInv => DependenciesRanFirst
<1> SUFFICES ASSUME IInv, NEW ns \in Namespace,
                    NEW t \in running_tasks[ns] \cup ready_to_run_tasks[ns],
                    NEW u \in Task, <<u, t>> \in Dependency
             PROVE  u \in did_run
  BY DEF DependenciesRanFirst, DependenciesIn
<1>1. t \in Task /\ NamespaceOf[t] = ns /\ u \in DependenciesIn(Task, t)
  BY DEF IInv, OnePlace, Placed, TasksOf, DependenciesIn
<1>2. CASE t \in running_tasks[ns]
  BY <1>1, <1>2 DEF IInv, StartedInOrder
<1>3. CASE t \in ready_to_run_tasks[ns]
  <2>1. t \in nodes[ns] /\ nodes[ns] \in SUBSET Task
    BY <1>3 DEF IInv, OnePlace, Placed, TypeOK
  <2>2. u \in nodes[ns] \cup did_run
    <3>1. <<u, t>>[1] = u /\ <<u, t>>[2] = t
      OBVIOUS
    <3> QED
      BY <2>1, <3>1 DEF IInv, GraphClosed
  <2>3. Cardinality(DependenciesIn(nodes[ns], t) \ did_run) = 0
    BY <1>3, <2>1 DEF IInv, DependenciesExact, ReadyCounted
  <2>4. DependenciesIn(nodes[ns], t) \ did_run = {}
    <3>1. IsFiniteSet(DependenciesIn(nodes[ns], t) \ did_run)
      BY <2>1, CountType, FS_Subset
    <3> QED
      BY <2>3, <3>1, FS_EmptySet
  <2> QED
    BY <2>2, <2>4 DEF DependenciesIn
<1> QED
  BY <1>2, <1>3

\* Tasks run in the order of their dependencies, across graph swaps.
THEOREM DependencyOrder == Spec => []DependenciesRanFirst
BY Invariance, ReadyInOrder, PTL

\* Among the nodes that have not run, one of least rank waits for none of the
\* others: if nothing is running it must be ready.
LEMMA FinishedAllRan == IInv => FinishedMeansAllRan
<1> SUFFICES ASSUME IInv, NEW ns \in Namespace,
                    HasFinishedRunningTasksInNamespace(ns),
                    nodes[ns] \ did_run # {}
             PROVE  FALSE
  BY DEF FinishedMeansAllRan
<1> DEFINE U == nodes[ns] \ did_run
           Ranks == {Rank[t] : t \in U}
<1>1. U \subseteq Task /\ nodes[ns] \in SUBSET Task
  BY DEF IInv, TypeOK
<1>2. Ranks \subseteq Nat /\ Ranks # {}
  BY <1>1, DependencyAssumption
<1>3. PICK r \in Ranks : \A q \in Ranks : <<q, r>> \notin OpToRel(<, Nat)
  <2> HIDE DEF Ranks
  <2> QED
    BY <1>2, NatLessThanWellFounded, WFMin
<1>4. PICK t \in U : Rank[t] = r
  OBVIOUS
<1>5. \A u \in U : ~(Rank[u] < Rank[t])
  BY <1>1, <1>2, <1>3, <1>4 DEF OpToRel
<1>6. DependenciesIn(nodes[ns], t) \ did_run = {}
  <2> SUFFICES ASSUME NEW u \in nodes[ns] \ did_run, <<u, t>> \in Dependency
               PROVE  FALSE
    BY DEF DependenciesIn
  <2>1. Rank[u] < Rank[t]
    <3>1. <<u, t>>[1] = u /\ <<u, t>>[2] = t
      OBVIOUS
    <3> QED
      BY <3>1, DependencyAssumption
  <2> QED
    BY <1>5, <2>1
<1>7. dependencies[t] = 0
  BY <1>4, <1>6, FS_EmptySet DEF IInv, DependenciesExact
<1>8. t \in Waiting(ns) \cup ready_to_run_tasks[ns] \cup running_tasks[ns]
  BY <1>4 DEF IInv, OnePlace, Placed
<1> QED
  BY <1>7, <1>8 DEF HasFinishedRunningTasksInNamespace, Waiting

\* A namespace with nothing ready and nothing running has no task left.
THEOREM FinishedIsDone == Spec => []FinishedMeansAllRan
BY Invariance, FinishedAllRan, PTL

\* What a namespace holds of a task stays there or goes to the client.
LEMMA StepKeepsTasks ==
  ASSUME IInv, [Next]_vars, NEW m \in Namespace
  PROVE  nodes[m] \cup running_tasks[m] \cup completed_tasks[m] \subseteq
           (nodes[m] \cup running_tasks[m] \cup completed_tasks[m])'
              \cup collected'
<1> DEFINE Held == nodes[m] \cup running_tasks[m] \cup completed_tasks[m]
<1>1. CASE UNCHANGED <<nodes, running_tasks, completed_tasks>>
  BY <1>1
<1>2. ASSUME NEW ns \in Namespace, NEW S \in SUBSET TasksOf(ns),
             NEW prio \in Priorities, ScheduleTasks(ns, S, prio)
      PROVE  Held \subseteq Held' \cup collected'
  <2>1. /\ nodes' = [nodes EXCEPT ![ns] = S]
        /\ completed_tasks' =
             [completed_tasks EXCEPT ![ns] = @ \cup Canceled(ns, S)]
        /\ UNCHANGED <<running_tasks, collected>>
    BY <1>2 DEF ScheduleTasks, WakeWorkerIfReady
  <2>2. CASE m # ns
    BY <2>1, <2>2 DEF IInv, TypeOK
  <2>3. CASE m = ns
    <3>1. completed_tasks'[m] = completed_tasks[m] \cup Canceled(ns, S)
            /\ nodes'[m] = S
      BY <2>1, <2>3 DEF IInv, TypeOK
    <3>2. nodes[m] \subseteq S \cup Canceled(ns, S) \cup did_run
                               \cup running_tasks[m]
      BY <2>3 DEF Canceled
    <3>3. nodes[m] \cap did_run \subseteq completed_tasks[m] \cup collected
      BY DEF IInv, OnePlace, Placed
    <3> QED
      BY <2>1, <3>1, <3>2, <3>3
  <2> QED
    BY <2>2, <2>3
<1>3. ASSUME NEW ns \in Namespace, CollectCompletedTasks(ns)
      PROVE  Held \subseteq Held' \cup collected'
  <2>1. /\ completed_tasks' = [completed_tasks EXCEPT ![ns] = {}]
        /\ collected' = collected \cup completed_tasks[ns]
        /\ running_tasks' = running_tasks
        /\ \/ HasFinishedRunningTasksInNamespace(ns)
                /\ nodes' = [nodes EXCEPT ![ns] = {}]
           \/ nodes' = nodes
    BY <1>3 DEF CollectCompletedTasks
  <2>2. nodes[m] \subseteq nodes'[m] \cup completed_tasks[m] \cup collected
    <3>1. CASE HasFinishedRunningTasksInNamespace(ns) /\ m = ns
      <4>1. nodes[m] \subseteq did_run
        BY <3>1, FinishedAllRan DEF FinishedMeansAllRan
      <4> QED
        BY <4>1 DEF IInv, OnePlace, Placed
    <3>2. CASE ~HasFinishedRunningTasksInNamespace(ns) \/ m # ns
      BY <2>1, <3>2 DEF IInv, TypeOK
    <3> QED
      BY <3>1, <3>2
  <2>3. completed_tasks[m] \subseteq completed_tasks'[m] \cup collected'
    BY <2>1 DEF IInv, TypeOK
  <2> QED
    BY <2>1, <2>2, <2>3
<1>4. ASSUME NEW th \in Thread, NEW ns \in Namespace, NEW t \in Task,
             StartTask(th, ns, t)
      PROVE  Held \subseteq Held' \cup collected'
  BY <1>4 DEF StartTask, IInv, TypeOK
<1>5. ASSUME NEW th \in Thread, NEW t \in Task, FinishTask(th, t)
      PROVE  Held \subseteq Held' \cup collected'
  <2>1. /\ running_tasks' = [running_tasks EXCEPT ![NamespaceOf[t]] = @ \ {t}]
        /\ completed_tasks' = [completed_tasks EXCEPT ![NamespaceOf[t]] = @ \cup {t}]
        /\ nodes' = nodes
    BY <1>5 DEF FinishTask
  <2> QED
    BY <2>1 DEF IInv, TypeOK
<1>6. CASE \/ GetNamespaceToken \/ Shutdown \/ Terminated \/ UNCHANGED vars
           \/ \E ns \in Namespace : WaitForTasksToFinishRunning(ns) \/ RunUntilIdle(ns)
           \/ \E w \in Worker : WaitForReadyTasks(w) \/ ExitRun(w)
           \/ \E f \in Flusher : FlushForTesting(f)
           \/ \E th \in Thread : SpuriousWakeup(th)
  <2>1. UNCHANGED <<nodes, running_tasks, completed_tasks>>
    BY <1>6 DEF GetNamespaceToken, Shutdown, Terminated, vars, tasks,
       WaitForTasksToFinishRunning, RunUntilIdle, WaitForReadyTasks, ExitRun,
       FlushForTesting, SpuriousWakeup
  <2> QED
    BY <1>1, <2>1
<1> QED
  BY <1>2, <1>3, <1>4, <1>5, <1>6
  DEF Next, OriginNext, RunNext, WorkerNext, Thread, Origin

\* The guarantee of task_graph_runner.h: once scheduled, a task reaches
\* completed_tasks, or the client, and no call in between loses it.
THEOREM NothingDropped == Spec => NoTaskDropped
<1>1. IInv /\ [Next]_vars =>
        [\A ns \in Namespace :
           nodes[ns] \cup running_tasks[ns] \cup completed_tasks[ns] \subseteq
             (nodes[ns] \cup running_tasks[ns] \cup completed_tasks[ns])'
                \cup collected']_vars
  BY StepKeepsTasks
<1> QED
  BY <1>1, Invariance, PTL DEF Spec, NoTaskDropped

\* WaitForTasksToFinishRunning returns only when every task has run or was
\* canceled, whichever thread the worker's Signal has woken.
THEOREM WaitIsABarrier == Spec => WaitReturnsWhenDone
<1>1. ASSUME IInv, [Next]_vars, NEW ns \in Origin,
             pc[ns] \in {"finished_cv", "wait"}, pc'[ns] = "client"
      PROVE  nodes[ns] \subseteq did_run /\ running_tasks[ns] = {}
  <2>0. ns \in Thread /\ pc \in [Thread -> PC]
    BY <1>1 DEF Thread, IInv, TypeOK
  <2>1. CASE WaitForTasksToFinishRunning(ns)
    <3>1. HasFinishedRunningTasksInNamespace(ns)
      BY <1>1, <2>0, <2>1 DEF WaitForTasksToFinishRunning
    <3> QED
      BY <1>1, <3>1, FinishedAllRan
      DEF FinishedMeansAllRan, HasFinishedRunningTasksInNamespace, Origin
  \* Any other step leaves ns where it waits, or wakes it.
  <2>2. ASSUME NEW cv \in {"ready_cv", "finished_cv"}, NEW s \in [Thread -> PC],
               pc' \in Signal(cv, s), s[ns] = pc[ns]
        PROVE  FALSE
    BY <1>1, <2>0, <2>2, SignalMoves DEF Woken
  <2>3. ASSUME NEW th \in Thread, NEW to \in PC, th # ns,
               NEW cv \in {"ready_cv", "finished_cv"},
               pc' \in Signal(cv, [pc EXCEPT ![th] = to])
        PROVE  FALSE
    <3> DEFINE s == [pc EXCEPT ![th] = to]
    <3>1. s \in [Thread -> PC] /\ s[ns] = pc[ns]
      BY <2>0, <2>3
    <3>2. pc' \in Signal(cv, s)
      BY <2>3
    <3> HIDE DEF s
    <3> QED
      BY <2>2, <3>1, <3>2
  <2>4. ASSUME NEW m \in Namespace, m # ns, WaitForTasksToFinishRunning(m)
        PROVE  FALSE
    BY <1>1, <2>0, <2>3, <2>4 DEF WaitForTasksToFinishRunning, Thread, Origin, PC
  <2>5. ASSUME NEW m \in Namespace, NEW S \in SUBSET TasksOf(m),
               NEW prio \in Priorities, ScheduleTasks(m, S, prio)
        PROVE  FALSE
    <3>1. CASE pc' = pc
      BY <1>1, <3>1
    <3>2. CASE pc' \in Signal("ready_cv", pc)
      BY <2>0, <2>2, <3>2
    <3> QED
      BY <2>5, <3>1, <3>2 DEF ScheduleTasks, WakeWorkerIfReady
  <2>6. ASSUME NEW th \in Thread, NEW m \in Namespace, NEW t \in Task,
               StartTask(th, m, t)
        PROVE  FALSE
    <3>1. th # ns
      BY <1>1, <2>6 DEF StartTask
    <3> QED
      BY <2>3, <2>6, <3>1 DEF StartTask, PC
  <2>7. ASSUME NEW th \in Thread, NEW t \in Task, FinishTask(th, t)
        PROVE  FALSE
    <3>1. th # ns
      BY <1>1, <2>7 DEF FinishTask
    <3> DEFINE to == IF th \in Worker THEN "loop" ELSE "until_idle"
    <3>2. to \in PC
      BY DEF PC
    <3>3. pc' = [pc EXCEPT ![th] = to]
            \/ pc' \in Signal("finished_cv", [pc EXCEPT ![th] = to])
      BY <2>7 DEF FinishTask
    <3> HIDE DEF to
    <3>4. CASE pc' = [pc EXCEPT ![th] = to]
      BY <1>1, <2>0, <3>1, <3>4
    <3>5. CASE pc' \in Signal("finished_cv", [pc EXCEPT ![th] = to])
      BY <2>3, <3>1, <3>2, <3>5
    <3> QED
      BY <3>3, <3>4, <3>5
  <2>8. ASSUME NEW w \in Worker, ExitRun(w) PROVE FALSE
    <3>1. w \in Thread /\ w # ns
      BY ThreadAssumption DEF Thread
    <3> QED
      BY <2>3, <2>8, <3>1 DEF ExitRun, PC
  <2>9. CASE Shutdown
    BY <2>0, <2>2, <2>9 DEF Shutdown
  <2>10. ASSUME NEW th \in Thread, SpuriousWakeup(th) PROVE FALSE
    BY <1>1, <2>0, <2>10 DEF SpuriousWakeup, Woken
  <2>11. ASSUME NEW w \in Worker, WaitForReadyTasks(w) PROVE FALSE
    BY <1>1, <2>0, <2>11 DEF WaitForReadyTasks
  <2>12. ASSUME NEW f \in Flusher, FlushForTesting(f) PROVE FALSE
    <3>1. f # ns
      BY ThreadAssumption
    <3> QED
      BY <1>1, <2>0, <2>12, <3>1 DEF FlushForTesting
  <2>13. ASSUME NEW m \in Namespace, RunUntilIdle(m) PROVE FALSE
    BY <1>1, <2>0, <2>13 DEF RunUntilIdle
  <2>14. CASE GetNamespaceToken \/ UNCHANGED vars
               \/ \E m \in Namespace : CollectCompletedTasks(m)
    BY <1>1, <2>14 DEF GetNamespaceToken, vars, CollectCompletedTasks
  <2> QED
    BY <1>1, <2>1, <2>4, <2>5, <2>6, <2>7, <2>8, <2>9, <2>10, <2>11, <2>12,
       <2>13, <2>14
    DEF Next, OriginNext, RunNext, WorkerNext, Terminated, Thread, Origin
<1>2. IInv /\ [Next]_vars =>
        [\A ns \in Origin :
           pc[ns] \in {"finished_cv", "wait"} /\ pc'[ns] = "client" =>
             /\ nodes[ns] \subseteq did_run
             /\ running_tasks[ns] = {}]_vars
  BY <1>1
<1> QED
  BY <1>2, Invariance, PTL DEF Spec, WaitReturnsWhenDone
=============================================================================
