-------------------------- MODULE ThreadProxyProofs --------------------------
(***************************************************************************)
(* What holds of the compositor on two threads, for all settings of the    *)
(* threaded scheduler, all calls of the page and all bounds: the impl      *)
(* thread implements module Scheduler, and IInv is an invariant.  The two  *)
(* go together: what the tasks find when they run makes them steps of      *)
(* Scheduler, whose invariant gives the types that the rest relies on.     *)
(***************************************************************************)
EXTENDS ThreadProxy, TLAPS

\* The part of IInv that is the proxy's own.
ProxyInv ==
  /\ ProxyTypeOK
  /\ MainFrameIsSomewhere
  /\ OutputSurfaceIsSomewhere
  /\ MainThreadWaits
  /\ VisibilityIsTold
  /\ DeferralIsTold
  /\ EventWillBeSignaled
  /\ RequestsTravel

-----------------------------------------------------------------------------
(* Queues of tasks: what is posted after a task is posted or taken.        *)

\* What is posted once t is appended to q.
LEMMA AppendedTask ==
  ASSUME NEW T, NEW q \in Seq(T), NEW t \in T
  PROVE  /\ Append(q, t) \in Seq(T)
         /\ \A names :
              Waiting(Append(q, t), names) <=> Waiting(q, names) \/ t[1] \in names
         /\ \A u : Posted(Append(q, t), u) <=> Posted(q, u) \/ t = u
         /\ \A names : AtMostOne(q, names) /\ (t[1] \in names => ~Waiting(q, names))
                        => AtMostOne(Append(q, t), names)
  <1> DEFINE r == Append(q, t)
  <1>1. /\ r \in Seq(T) /\ DOMAIN q = 1 .. Len(q) /\ DOMAIN r = 1 .. Len(q) + 1
        /\ Len(q) \in Nat
        /\ \A i \in 1 .. Len(q) : r[i] = q[i]
        /\ r[Len(q) + 1] = t
    OBVIOUS
  <1> HIDE DEF r
  <1>2. \A names : Waiting(r, names) <=> Waiting(q, names) \/ t[1] \in names
    <2> TAKE names
    <2>1. ASSUME Waiting(r, names) PROVE Waiting(q, names) \/ t[1] \in names
      BY <1>1, <2>1 DEF Waiting
    <2>2. ASSUME Waiting(q, names) PROVE Waiting(r, names)
      BY <1>1, <2>2 DEF Waiting
    <2>3. ASSUME t[1] \in names PROVE Waiting(r, names)
      BY <1>1, <2>3 DEF Waiting
    <2> QED BY <2>1, <2>2, <2>3
  <1>3. \A u : Posted(r, u) <=> Posted(q, u) \/ t = u
    <2> TAKE u
    <2>1. ASSUME Posted(r, u) PROVE Posted(q, u) \/ t = u
      BY <1>1, <2>1 DEF Posted
    <2>2. ASSUME Posted(q, u) PROVE Posted(r, u)
      BY <1>1, <2>2 DEF Posted
    <2>3. ASSUME t = u PROVE Posted(r, u)
      BY <1>1, <2>3 DEF Posted
    <2> QED BY <2>1, <2>2, <2>3
  <1>4. \A names : AtMostOne(q, names) /\ (t[1] \in names => ~Waiting(q, names))
                     => AtMostOne(r, names)
    BY <1>1 DEF AtMostOne, Waiting
  <1> QED BY <1>1, <1>2, <1>3, <1>4 DEF r

\* What is posted once the first task of q is taken.
LEMMA TakenTask ==
  ASSUME NEW T, NEW q \in Seq(T), q # << >>
  PROVE  /\ Tail(q) \in Seq(T) /\ Head(q) \in T
         /\ \A names :
              Waiting(q, names) <=> Head(q)[1] \in names \/ Waiting(Tail(q), names)
         /\ \A u : Posted(q, u) <=> Head(q) = u \/ Posted(Tail(q), u)
         /\ \A names : AtMostOne(q, names) =>
              /\ AtMostOne(Tail(q), names)
              /\ Head(q)[1] \in names => ~Waiting(Tail(q), names)
  <1> DEFINE r == Tail(q)
             h == Head(q)
  <1>1. /\ r \in Seq(T) /\ h \in T
        /\ Len(r) \in Nat /\ DOMAIN q = 1 .. Len(r) + 1 /\ DOMAIN r = 1 .. Len(r)
        /\ \A i \in 1 .. Len(r) : r[i] = q[i + 1]
        /\ q[1] = h
    OBVIOUS
  <1>0. \A i \in DOMAIN q : i = 1 \/ (i - 1 \in DOMAIN r /\ r[i - 1] = q[i])
    BY <1>1
  <1>00. /\ 1 \in DOMAIN q
         /\ \A i \in DOMAIN r : i + 1 \in DOMAIN q /\ q[i + 1] = r[i] /\ i + 1 # 1
    BY <1>1
  <1>01. \A i, j \in DOMAIN r : i + 1 = j + 1 => i = j
    BY <1>1
  <1> HIDE DEF r, h
  <1>2. \A names : Waiting(q, names) <=> h[1] \in names \/ Waiting(r, names)
    <2> TAKE names
    <2>1. ASSUME Waiting(q, names) PROVE h[1] \in names \/ Waiting(r, names)
      BY <1>0, <1>1, <2>1 DEF Waiting
    <2>2. ASSUME Waiting(r, names) PROVE Waiting(q, names)
      BY <1>00, <2>2 DEF Waiting
    <2>3. ASSUME h[1] \in names PROVE Waiting(q, names)
      BY <1>1, <1>00, <2>3 DEF Waiting
    <2> QED BY <2>1, <2>2, <2>3
  <1>3. \A u : Posted(q, u) <=> h = u \/ Posted(r, u)
    <2> TAKE u
    <2>1. ASSUME Posted(q, u) PROVE h = u \/ Posted(r, u)
      BY <1>0, <1>1, <2>1 DEF Posted
    <2>2. ASSUME Posted(r, u) PROVE Posted(q, u)
      BY <1>00, <2>2 DEF Posted
    <2>3. ASSUME h = u PROVE Posted(q, u)
      BY <1>1, <1>00, <2>3 DEF Posted
    <2> QED BY <2>1, <2>2, <2>3
  <1>4. ASSUME NEW names, AtMostOne(q, names)
        PROVE  /\ AtMostOne(r, names)
               /\ h[1] \in names => ~Waiting(r, names)
    <2>1. AtMostOne(r, names)
      BY <1>00, <1>01, <1>4 DEF AtMostOne
    <2>2. h[1] \in names => ~Waiting(r, names)
      BY <1>1, <1>00, <1>4 DEF AtMostOne, Waiting
    <2> QED BY <2>1, <2>2
  <1> QED BY <1>1, <1>2, <1>3, <1>4 DEF r, h

\* The tasks without an argument are known by their name.
LEMMA SameTask ==
  /\ \A t \in ImplTask : t[1] = "StartCommit" <=> t = <<"StartCommit">>
  /\ \A t \in ImplTask : t[1] = "SetNeedsCommit" <=> t = <<"SetNeedsCommit">>
  /\ \A t \in MainTask : t[1] = "BeginMainFrame" <=> t = <<"BeginMainFrame">>
  BY DEF ImplTask, MainTask

\* A task with one of the names has one of more names.
LEMMA WaitingAmongMore ==
  \A tasks, names, more :
    names \subseteq more /\ Waiting(tasks, names) => Waiting(tasks, more)
  BY DEF Waiting

\* r holds the tasks of q and t; q holds t and the tasks of r.
Posts(q, t, r) ==
  /\ \A names : Waiting(r, names) <=> Waiting(q, names) \/ t[1] \in names
  /\ \A u : Posted(r, u) <=> Posted(q, u) \/ t = u
  /\ \A names : AtMostOne(q, names) /\ (t[1] \in names => ~Waiting(q, names))
                  => AtMostOne(r, names)

Takes(q, t, r) ==
  /\ \A names : Waiting(q, names) <=> t[1] \in names \/ Waiting(r, names)
  /\ \A u : Posted(q, u) <=> t = u \/ Posted(r, u)
  /\ \A names : AtMostOne(q, names) =>
       /\ AtMostOne(r, names)
       /\ t[1] \in names => ~Waiting(r, names)

\* The actions post and take so.
LEMMA ImplPosts ==
  ASSUME NEW t \in ImplTask, ProxyTypeOK, impl_tasks' = Append(impl_tasks, t)
  PROVE  impl_tasks' \in Seq(ImplTask) /\ Posts(impl_tasks, t, impl_tasks')
  <1>1. impl_tasks \in Seq(ImplTask)
    BY DEF ProxyTypeOK
  <1> QED BY <1>1, AppendedTask DEF Posts

LEMMA MainPosts ==
  ASSUME NEW t \in MainTask, ProxyTypeOK, main_tasks' = Append(main_tasks, t)
  PROVE  main_tasks' \in Seq(MainTask) /\ Posts(main_tasks, t, main_tasks')
  <1>1. main_tasks \in Seq(MainTask)
    BY DEF ProxyTypeOK
  <1> QED BY <1>1, AppendedTask DEF Posts

LEMMA ImplTook ==
  ASSUME NEW t, ProxyTypeOK, ImplTakes(t)
  PROVE  /\ impl_tasks' \in Seq(ImplTask) /\ t \in ImplTask
         /\ Takes(impl_tasks, t, impl_tasks')
  <1>1. /\ impl_tasks \in Seq(ImplTask) /\ impl_tasks # << >>
        /\ t = Head(impl_tasks) /\ impl_tasks' = Tail(impl_tasks)
    BY DEF ProxyTypeOK, ImplTakes
  <1> QED BY <1>1, TakenTask DEF Takes

LEMMA MainTook ==
  ASSUME NEW t, ProxyTypeOK, MainTakes(t)
  PROVE  /\ main_tasks' \in Seq(MainTask) /\ t \in MainTask
         /\ Takes(main_tasks, t, main_tasks')
  <1>1. /\ main_tasks \in Seq(MainTask) /\ main_tasks # << >>
        /\ t = Head(main_tasks) /\ main_tasks' = Tail(main_tasks)
    BY DEF ProxyTypeOK, MainTakes
  <1> QED BY <1>1, TakenTask DEF Takes

\* What is told by the name of a task, in terms of tasks and of other names.
LEMMA Places ==
  ASSUME ProxyTypeOK
  PROVE  /\ Waiting(impl_tasks, {"StartCommit", "BeginMainFrameAborted"})
              <=> \/ Posted(impl_tasks, <<"StartCommit">>)
                  \/ Waiting(impl_tasks, {"BeginMainFrameAborted"})
         /\ Posted(impl_tasks, <<"BeginMainFrameAborted", "ABORTED_DEFERRED_COMMIT">>)
              => Waiting(impl_tasks, {"BeginMainFrameAborted"})
         /\ Waiting(impl_tasks, {"SetVisible", "ReleaseOutputSurface"})
              <=> \/ Waiting(impl_tasks, {"SetVisible"})
                  \/ Waiting(impl_tasks, {"ReleaseOutputSurface"})
         /\ Posted(main_tasks, <<"BeginMainFrame">>)
              <=> Waiting(main_tasks, {"BeginMainFrame"})
         /\ Posted(main_tasks, <<"DidInitializeOutputSurface", FALSE>>)
              => Waiting(main_tasks, {"DidInitializeOutputSurface"})
  <1>1. /\ \A i \in DOMAIN impl_tasks : impl_tasks[i] \in ImplTask
        /\ \A i \in DOMAIN main_tasks : main_tasks[i] \in MainTask
    BY DEF ProxyTypeOK
  <1>2. Waiting(impl_tasks, {"StartCommit", "BeginMainFrameAborted"})
              <=> \/ Posted(impl_tasks, <<"StartCommit">>)
                  \/ Waiting(impl_tasks, {"BeginMainFrameAborted"})
    BY <1>1, SameTask DEF Waiting, Posted
  <1>3. Posted(main_tasks, <<"BeginMainFrame">>)
          <=> Waiting(main_tasks, {"BeginMainFrame"})
    BY <1>1, SameTask DEF Waiting, Posted
  <1>4. Posted(impl_tasks, <<"BeginMainFrameAborted", "ABORTED_DEFERRED_COMMIT">>)
          => Waiting(impl_tasks, {"BeginMainFrameAborted"})
    BY DEF Waiting, Posted
  <1>5. Posted(main_tasks, <<"DidInitializeOutputSurface", FALSE>>)
          => Waiting(main_tasks, {"DidInitializeOutputSurface"})
    BY DEF Waiting, Posted
  <1>6. Waiting(impl_tasks, {"SetVisible", "ReleaseOutputSurface"})
          <=> \/ Waiting(impl_tasks, {"SetVisible"})
              \/ Waiting(impl_tasks, {"ReleaseOutputSurface"})
    BY DEF Waiting
  <1> QED BY <1>2, <1>3, <1>4, <1>5, <1>6

\* The answers still come first after a task is taken or posted.
LEMMA AnswersFirstKept ==
  ASSUME NEW q \in Seq(MainTask), NEW t \in MainTask, AnswersFirst(q)
  PROVE  /\ q # << >> => AnswersFirst(Tail(q))
         /\ \/ t[1] # "DidInitializeOutputSurface"
            \/ ~Waiting(q, {"RequestNewOutputSurface"})
            => AnswersFirst(Append(q, t))
         /\ q # << >> /\ Head(q)[1] = "RequestNewOutputSurface"
              => ~Waiting(q, {"DidInitializeOutputSurface"})
  <1>1. ASSUME q # << >>
        PROVE  /\ AnswersFirst(Tail(q))
               /\ Head(q)[1] = "RequestNewOutputSurface"
                    => ~Waiting(q, {"DidInitializeOutputSurface"})
    <2> DEFINE r == Tail(q)
    <2>1. /\ Len(r) \in Nat /\ DOMAIN q = 1 .. Len(r) + 1 /\ DOMAIN r = 1 .. Len(r)
          /\ \A i \in 1 .. Len(r) : r[i] = q[i + 1]
          /\ q[1] = Head(q)
      BY <1>1
    <2> HIDE DEF r
    <2>2. AnswersFirst(r)
      BY <2>1 DEF AnswersFirst
    <2>3. Head(q)[1] = "RequestNewOutputSurface"
             => ~Waiting(q, {"DidInitializeOutputSurface"})
      BY <2>1 DEF AnswersFirst, Waiting
    <2> QED BY <2>2, <2>3 DEF r
  <1>2. ASSUME \/ t[1] # "DidInitializeOutputSurface"
               \/ ~Waiting(q, {"RequestNewOutputSurface"})
        PROVE  AnswersFirst(Append(q, t))
    <2> DEFINE r == Append(q, t)
    <2>1. /\ Len(q) \in Nat /\ DOMAIN r = 1 .. Len(q) + 1 /\ DOMAIN q = 1 .. Len(q)
          /\ \A i \in 1 .. Len(q) : r[i] = q[i]
          /\ r[Len(q) + 1] = t
      OBVIOUS
    <2> HIDE DEF r
    <2>2. AnswersFirst(r)
      BY <2>1, <1>2 DEF AnswersFirst, Waiting
    <2> QED BY <2>2 DEF r
  <1> QED BY <1>1, <1>2

\* The first task changes the deferral, or leaves it as it is.
LEMMA DeferralTaken ==
  ASSUME NEW q \in Seq(ImplTask), q # << >>, NEW a \in BOOLEAN, NEW b \in BOOLEAN,
         DeferralLeads(q, a, b)
  PROVE  \/ Head(q)[1] # "SetDeferCommits" /\ DeferralLeads(Tail(q), a, b)
         \/ Head(q) = <<"SetDeferCommits", ~a>> /\ DeferralLeads(Tail(q), ~a, b)
  <1> DEFINE r == Tail(q)
  <1>1. PICK known \in [0 .. Len(q) -> BOOLEAN] :
          /\ known[0] = a
          /\ known[Len(q)] = b
          /\ \A i \in DOMAIN q :
               IF q[i][1] = "SetDeferCommits"
                 THEN known[i] = ~known[i - 1] /\ q[i][2] = known[i]
                 ELSE known[i] = known[i - 1]
    BY DEF DeferralLeads
  <1> DEFINE after == [i \in 0 .. Len(r) |-> known[i + 1]]
  <1>2. /\ Len(r) \in Nat /\ Len(q) = Len(r) + 1
        /\ DOMAIN q = 1 .. Len(r) + 1 /\ DOMAIN r = 1 .. Len(r)
        /\ \A i \in 1 .. Len(r) : r[i] = q[i + 1]
        /\ Head(q) = q[1]
    OBVIOUS
  <1>3. after \in [0 .. Len(r) -> BOOLEAN] /\ after[0] = known[1] /\ after[Len(r)] = b
    BY <1>1, <1>2
  <1>4. ASSUME NEW i \in DOMAIN r
        PROVE  IF r[i][1] = "SetDeferCommits"
                 THEN after[i] = ~after[i - 1] /\ r[i][2] = after[i]
                 ELSE after[i] = after[i - 1]
    <2>1. /\ i + 1 \in DOMAIN q /\ r[i] = q[i + 1]
          /\ after[i] = known[i + 1] /\ after[i - 1] = known[(i + 1) - 1]
      BY <1>2
    <2> QED BY <2>1, <1>1
  <1> HIDE DEF after, r
  <1>5. DeferralLeads(r, known[1], b)
    BY <1>3, <1>4 DEF DeferralLeads
  <1>6. 1 \in DOMAIN q /\ 1 - 1 = 0
    BY <1>2
  <1>7. CASE q[1][1] = "SetDeferCommits"
    <2>1. known[1] = ~a /\ q[1][2] = known[1]
      BY <1>1, <1>6, <1>7
    <2>2. q[1] = <<"SetDeferCommits", known[1]>>
      <3>1. q[1] \in ImplTask
        BY <1>6
      <3> QED BY <2>1, <3>1, <1>7 DEF ImplTask
    <2> QED BY <2>1, <2>2, <1>2, <1>5 DEF r
  <1>8. CASE q[1][1] # "SetDeferCommits"
    <2>1. known[1] = a
      BY <1>1, <1>6, <1>8
    <2> QED BY <2>1, <1>2, <1>5, <1>8 DEF r
  <1> QED BY <1>7, <1>8

\* The last task changes the deferral, or leaves it as it is.
LEMMA DeferralAppended ==
  ASSUME NEW q \in Seq(ImplTask), NEW t \in ImplTask, NEW a, NEW b \in BOOLEAN,
         DeferralLeads(q, a, b)
  PROVE  /\ t[1] # "SetDeferCommits" => DeferralLeads(Append(q, t), a, b)
         /\ t = <<"SetDeferCommits", ~b>> => DeferralLeads(Append(q, t), a, ~b)
  <1> DEFINE r == Append(q, t)
  <1>1. PICK known \in [0 .. Len(q) -> BOOLEAN] :
          /\ known[0] = a
          /\ known[Len(q)] = b
          /\ \A i \in DOMAIN q :
               IF q[i][1] = "SetDeferCommits"
                 THEN known[i] = ~known[i - 1] /\ q[i][2] = known[i]
                 ELSE known[i] = known[i - 1]
    BY DEF DeferralLeads
  <1>2. /\ Len(q) \in Nat /\ Len(r) = Len(q) + 1
        /\ DOMAIN r = 1 .. Len(q) + 1 /\ DOMAIN q = 1 .. Len(q)
        /\ \A i \in 1 .. Len(q) : r[i] = q[i]
        /\ r[Len(q) + 1] = t
    OBVIOUS
  <1> HIDE DEF r
  <1>3. ASSUME NEW c \in BOOLEAN,
               IF t[1] = "SetDeferCommits" THEN c = ~b /\ t[2] = c ELSE c = b
        PROVE  DeferralLeads(r, a, c)
    <2> DEFINE after == [i \in 0 .. Len(r) |-> IF i \in 0 .. Len(q) THEN known[i] ELSE c]
    <2>1. after \in [0 .. Len(r) -> BOOLEAN]
      BY <1>1, <1>2
    <2>2. /\ \A i \in 0 .. Len(q) : after[i] = known[i]
          /\ after[Len(r)] = c
      BY <1>2
    <2> HIDE DEF after
    <2>3. ASSUME NEW i \in DOMAIN r
          PROVE  IF r[i][1] = "SetDeferCommits"
                   THEN after[i] = ~after[i - 1] /\ r[i][2] = after[i]
                   ELSE after[i] = after[i - 1]
      <3>1. CASE i \in DOMAIN q
        <4>1. after[i] = known[i] /\ after[i - 1] = known[i - 1] /\ r[i] = q[i]
          BY <3>1, <2>2, <1>2
        <4> QED BY <4>1, <3>1, <1>1
      <3>2. CASE i = Len(q) + 1
        <4>1. after[i] = c /\ after[i - 1] = b /\ r[i] = t
          BY <3>2, <2>2, <1>1, <1>2
        <4> QED BY <4>1, <1>3
      <3> QED BY <3>1, <3>2, <1>2
    <2>4. after[0] = a
      BY <2>2, <1>1, <1>2
    <2> QED BY <2>1, <2>2, <2>3, <2>4 DEF DeferralLeads
  <1>4. t[1] # "SetDeferCommits" => DeferralLeads(r, a, b)
    BY <1>3
  <1>5. ASSUME t = <<"SetDeferCommits", ~b>>
        PROVE  DeferralLeads(r, a, ~b)
    <2>1. t[1] = "SetDeferCommits" /\ t[2] = ~b
      BY <1>5
    <2>2. ~b \in BOOLEAN
      OBVIOUS
    <2> QED BY <1>3, <2>1, <2>2
  <1> QED BY <1>4, <1>5 DEF r

\* The task that the impl thread takes changes the deferral it knows.
LEMMA DeferralIsTaken ==
  ASSUME ProxyInv, sm \in S!State, NEW t, ImplTakes(t)
  PROVE  IF t[1] = "SetDeferCommits"
           THEN /\ t = <<"SetDeferCommits", ~sm.defer_commits>>
                /\ DeferralLeads(impl_tasks', ~sm.defer_commits, main.defer_commits)
           ELSE DeferralLeads(impl_tasks', sm.defer_commits, main.defer_commits)
  <1>1. /\ impl_tasks \in Seq(ImplTask) /\ impl_tasks # << >>
        /\ t = Head(impl_tasks) /\ impl_tasks' = Tail(impl_tasks)
    BY DEF ProxyInv, ProxyTypeOK, ImplTakes
  <1>2. sm.defer_commits \in BOOLEAN /\ main.defer_commits \in BOOLEAN
    BY DEF S!State, ProxyInv, ProxyTypeOK, MainState
  <1>3. DeferralLeads(impl_tasks, sm.defer_commits, main.defer_commits)
    BY DEF ProxyInv, DeferralIsTold
  <1>4. \/ /\ t[1] # "SetDeferCommits"
           /\ DeferralLeads(impl_tasks', sm.defer_commits, main.defer_commits)
        \/ /\ t = <<"SetDeferCommits", ~sm.defer_commits>>
           /\ DeferralLeads(impl_tasks', ~sm.defer_commits, main.defer_commits)
    BY <1>1, <1>2, <1>3, DeferralTaken
  <1>5. ASSUME t = <<"SetDeferCommits", ~sm.defer_commits>> PROVE t[1] = "SetDeferCommits"
    BY <1>5
  <1> QED BY <1>4, <1>5

-----------------------------------------------------------------------------
(* The state machine: what the proxy sees of most steps of the scheduler.  *)

\* The proxy sees no difference between s and t, except that a frame may be
\* needed; and it may see the pending tree go.
Alike(s, t) ==
  /\ t.visible = s.visible
  /\ t.defer_commits = s.defer_commits
  /\ s.needs_begin_main_frame => t.needs_begin_main_frame
  /\ t.output_surface_state = "CREATING" <=> s.output_surface_state = "CREATING"
  /\ t.begin_main_frame_state = "SENT" <=> s.begin_main_frame_state = "SENT"
  /\ t.begin_main_frame_state = "READY_TO_COMMIT"
       <=> s.begin_main_frame_state = "READY_TO_COMMIT"

KeepsTree(s, t) == s.has_pending_tree => t.has_pending_tree

\* These operations of the state machine change nothing that the proxy sees.
LEMMA OperationsAreAlike ==
  ASSUME NEW s \in S!State
  PROVE  /\ Alike(s, s) /\ KeepsTree(s, s)
         /\ Alike(s, S!WillAnimate(s)) /\ KeepsTree(s, S!WillAnimate(s))
         /\ Alike(s, S!WillActivate(s))
         /\ \A swap : Alike(s, S!WillDraw(s, swap)) /\ KeepsTree(s, S!WillDraw(s, swap))
         /\ Alike(s, S!WillPrepareTiles(s)) /\ KeepsTree(s, S!WillPrepareTiles(s))
         /\ Alike(s, S!DidSwapBuffers(s)) /\ KeepsTree(s, S!DidSwapBuffers(s))
         /\ Alike(s, S!DidSwapBuffersComplete(s))
         /\ KeepsTree(s, S!DidSwapBuffersComplete(s))
         /\ Alike(s, S!DidPrepareTiles(s)) /\ KeepsTree(s, S!DidPrepareTiles(s))
         /\ \A result \in S!DrawResult :
              /\ Alike(s, S!DidDrawIfPossibleCompleted(s, result))
              /\ KeepsTree(s, S!DidDrawIfPossibleCompleted(s, result))
         /\ Alike(s, S!NotifyReadyToActivate(s))
         /\ KeepsTree(s, S!NotifyReadyToActivate(s))
         /\ Alike(s, S!NotifyReadyToDraw(s)) /\ KeepsTree(s, S!NotifyReadyToDraw(s))
         /\ Alike(s, S!SetNeedsRedraw(s)) /\ KeepsTree(s, S!SetNeedsRedraw(s))
         /\ Alike(s, S!DidLoseOutputSurface(s))
         /\ KeepsTree(s, S!DidLoseOutputSurface(s))
         /\ Alike(s, S!OnBeginImplFrame(s)) /\ KeepsTree(s, S!OnBeginImplFrame(s))
         /\ Alike(s, S!OnBeginImplFrameDeadline(s))
         /\ KeepsTree(s, S!OnBeginImplFrameDeadline(s))
         /\ Alike(s, S!OnBeginImplFrameDeadlinePending(s))
         /\ KeepsTree(s, S!OnBeginImplFrameDeadlinePending(s))
         /\ Alike(s, S!OnBeginImplFrameIdle(s))
         /\ KeepsTree(s, S!OnBeginImplFrameIdle(s))
         /\ Alike(s, S!SetSkipNextBeginMainFrameToReduceLatency(s))
         /\ KeepsTree(s, S!SetSkipNextBeginMainFrameToReduceLatency(s))
         /\ Alike(s, [s EXCEPT !.can_draw = ~@])
         /\ KeepsTree(s, [s EXCEPT !.can_draw = ~@])
  <1>1. /\ Alike(s, s) /\ KeepsTree(s, s)
         /\ Alike(s, S!WillAnimate(s)) /\ KeepsTree(s, S!WillAnimate(s))
    BY DEF Alike, KeepsTree, S!State, S!WillAnimate
  <1>2. Alike(s, S!WillActivate(s))
    BY DEF Alike, S!State, S!WillActivate, S!MainFrameAfterActivation,
           S!OutputSurfaceAfterActivation
  <1>3. \A swap : Alike(s, S!WillDraw(s, swap)) /\ KeepsTree(s, S!WillDraw(s, swap))
    BY DEF Alike, KeepsTree, S!State, S!WillDraw, S!MainFrameAfterDraw
  <1>4. /\ Alike(s, S!WillPrepareTiles(s)) /\ KeepsTree(s, S!WillPrepareTiles(s))
         /\ Alike(s, S!DidSwapBuffers(s)) /\ KeepsTree(s, S!DidSwapBuffers(s))
         /\ Alike(s, S!DidSwapBuffersComplete(s))
         /\ KeepsTree(s, S!DidSwapBuffersComplete(s))
         /\ Alike(s, S!DidPrepareTiles(s)) /\ KeepsTree(s, S!DidPrepareTiles(s))
    BY DEF Alike, KeepsTree, S!State, S!WillPrepareTiles, S!DidSwapBuffers,
           S!DidSwapBuffersComplete, S!DidPrepareTiles
  <1>5. ASSUME NEW result \in S!DrawResult
        PROVE /\ Alike(s, S!DidDrawIfPossibleCompleted(s, result))
              /\ KeepsTree(s, S!DidDrawIfPossibleCompleted(s, result))
    BY <1>5
       DEF S!DrawResult, Alike, KeepsTree, S!State, S!DidDrawIfPossibleCompleted,
           S!DidCheckerboard
  <1>6. /\ Alike(s, S!NotifyReadyToActivate(s))
        /\ KeepsTree(s, S!NotifyReadyToActivate(s))
         /\ Alike(s, S!NotifyReadyToDraw(s)) /\ KeepsTree(s, S!NotifyReadyToDraw(s))
         /\ Alike(s, S!SetNeedsRedraw(s)) /\ KeepsTree(s, S!SetNeedsRedraw(s))
         /\ Alike(s, S!DidLoseOutputSurface(s))
         /\ KeepsTree(s, S!DidLoseOutputSurface(s))
    BY DEF Alike, KeepsTree, S!State, S!NotifyReadyToActivate, S!NotifyReadyToDraw,
           S!SetNeedsRedraw, S!DidLoseOutputSurface
  <1>7. /\ Alike(s, S!OnBeginImplFrame(s)) /\ KeepsTree(s, S!OnBeginImplFrame(s))
         /\ Alike(s, S!OnBeginImplFrameDeadline(s))
         /\ KeepsTree(s, S!OnBeginImplFrameDeadline(s))
         /\ Alike(s, S!OnBeginImplFrameDeadlinePending(s))
         /\ KeepsTree(s, S!OnBeginImplFrameDeadlinePending(s))
    BY DEF Alike, KeepsTree, S!State, S!OnBeginImplFrame, S!OnBeginImplFrameDeadline,
           S!OnBeginImplFrameDeadlinePending
  <1>8. Alike(s, S!OnBeginImplFrameIdle(s)) /\ KeepsTree(s, S!OnBeginImplFrameIdle(s))
    BY DEF Alike, KeepsTree, S!State, S!OnBeginImplFrameIdle
  <1>9. /\ Alike(s, S!SetSkipNextBeginMainFrameToReduceLatency(s))
        /\ KeepsTree(s, S!SetSkipNextBeginMainFrameToReduceLatency(s))
         /\ Alike(s, [s EXCEPT !.can_draw = ~@])
         /\ KeepsTree(s, [s EXCEPT !.can_draw = ~@])
    BY DEF Alike, KeepsTree, S!State, S!SetSkipNextBeginMainFrameToReduceLatency
  <1> QED BY <1>1, <1>2, <1>3, <1>4, <1>5, <1>6, <1>7, <1>8, <1>9

\* Those that a step of the scheduler follows with another one keep the type.
LEMMA OperationsTyped ==
  ASSUME NEW s \in S!State
  PROVE  /\ S!DidSwapBuffers(s) \in S!State
         /\ S!DidPrepareTiles(s) \in S!State
         /\ S!NotifyReadyToActivate(s) \in S!State
         /\ S!SetSkipNextBeginMainFrameToReduceLatency(s) \in S!State
  <1>1. S!DidSwapBuffers(s) \in S!State
    <2> DEFINE t == [s EXCEPT !.pending_swaps = @ + 1]
    <2>1. t \in S!State
      BY DEF S!State
    <2> HIDE DEF t
    <2>2. [t EXCEPT !.did_perform_swap_in_last_draw = TRUE] \in S!State
      BY <2>1 DEF S!State
    <2>3. S!DidSwapBuffers(s) = [t EXCEPT !.did_perform_swap_in_last_draw = TRUE]
      BY Zenon DEF S!DidSwapBuffers, t
    <2> QED BY <2>2, <2>3
  <1>2. S!DidPrepareTiles(s) \in S!State
    <2> DEFINE t == [s EXCEPT !.needs_prepare_tiles = FALSE]
    <2>1. t \in S!State
      BY DEF S!State
    <2>2. t.prepare_tiles_funnel + 1 \in Nat
      BY <2>1 DEF S!State
    <2> HIDE DEF t
    <2>3. [t EXCEPT !.prepare_tiles_funnel = t.prepare_tiles_funnel + 1] \in S!State
      BY <2>1, <2>2 DEF S!State
    <2>4. S!DidPrepareTiles(s)
            = [t EXCEPT !.prepare_tiles_funnel = t.prepare_tiles_funnel + 1]
      BY DEF S!DidPrepareTiles, t
    <2> QED BY <2>3, <2>4
  <1>3. S!NotifyReadyToActivate(s) \in S!State
    BY DEF S!State, S!NotifyReadyToActivate
  <1>4. S!SetSkipNextBeginMainFrameToReduceLatency(s) \in S!State
    BY DEF S!State, S!SetSkipNextBeginMainFrameToReduceLatency
  <1> QED BY <1>1, <1>2, <1>3, <1>4

\* A frame that starts, and asks for a redraw.
LEMMA FrameStartsAlike ==
  ASSUME NEW s \in S!State
  PROVE /\ Alike(s, S!SetNeedsRedraw(S!OnBeginImplFrame(s)))
        /\ KeepsTree(s, S!SetNeedsRedraw(S!OnBeginImplFrame(s)))
  BY DEF Alike, KeepsTree, S!State, S!OnBeginImplFrame, S!SetNeedsRedraw

\* So do the steps of the scheduler that the proxy takes no part in.
LEMMA StepsAreAlike ==
  ASSUME sm \in S!State,
         \/ ScheduledActions \/ OnBeginFrame \/ BeginImplFrameDeadline
         \/ ReadyToActivate \/ OnCanDrawStateChanged \/ SwapBuffersComplete
         \/ S!LeaveProcessScheduledActions
         \/ S!FinishActivateSyncTree
         \/ S!CallDidLoseOutputSurface
  PROVE  /\ Alike(sm, sm')
         /\ KeepsTree(sm, sm') \/ inside_action' = "ACTIVATE_SYNC_TREE"
  <1> USE DEF S!StartAction, S!FinishAction, S!PostAction
  <1>1. CASE ScheduledActions
    <2>1. CASE S!ActionAnimate
      BY <2>1, OperationsAreAlike DEF S!ActionAnimate
    <2>2. CASE S!FinishAnimate
      BY <2>2, OperationsAreAlike DEF S!FinishAnimate
    <2>3. CASE S!FinishCommit
      <3>1. PICK dirty \in BOOLEAN, prepare \in BOOLEAN :
              sm' = LET prepared == IF dirty THEN S!DidPrepareTiles(sm) ELSE sm
                    IN IF ~prepare THEN S!NotifyReadyToActivate(prepared) ELSE prepared
        BY <2>3, ThreadProxyAssumption DEF S!FinishCommit
      <3>2. PICK t \in S!State : /\ Alike(sm, t) /\ KeepsTree(sm, t)
                                 /\ sm' \in {t, S!NotifyReadyToActivate(t)}
        BY <3>1, OperationsTyped, OperationsAreAlike
      <3>3. /\ Alike(t, sm') /\ KeepsTree(t, sm')
        BY <3>2, OperationsAreAlike
      <3> QED BY <3>2, <3>3 DEF Alike, KeepsTree
    <2>4. CASE S!ActionActivateSyncTree
      BY <2>4, OperationsAreAlike DEF S!ActionActivateSyncTree
    <2>5. CASE S!ActionDrawAndSwapIfPossible
      BY <2>5, OperationsAreAlike DEF S!ActionDrawAndSwapIfPossible
    <2>6. CASE S!FinishDrawAndSwapIfPossible
      <3>1. PICK result \in S!DrawResult, t \in {sm, S!DidSwapBuffers(sm)} :
              sm' = S!DidDrawIfPossibleCompleted(t, result)
        BY <2>6 DEF S!FinishDrawAndSwapIfPossible
      <3>2. /\ t \in S!State /\ Alike(sm, t) /\ KeepsTree(sm, t)
        BY <3>1, OperationsTyped, OperationsAreAlike
      <3>3. /\ Alike(t, sm') /\ KeepsTree(t, sm')
        BY <3>1, <3>2, OperationsAreAlike
      <3> QED BY <3>2, <3>3 DEF Alike, KeepsTree
    <2>7. CASE S!ActionDrawAndSwapForced
      BY <2>7, OperationsAreAlike DEF S!ActionDrawAndSwapForced
    <2>8. CASE S!FinishDrawAndSwapForced
      BY <2>8, OperationsAreAlike DEF S!FinishDrawAndSwapForced
    <2>9. CASE S!ActionDrawAndSwapAbort
      BY <2>9, OperationsAreAlike DEF S!ActionDrawAndSwapAbort
    <2>10. CASE S!ActionPrepareTiles
      BY <2>10, OperationsAreAlike DEF S!ActionPrepareTiles
    <2>11. CASE S!FinishPrepareTiles
      BY <2>11, OperationsAreAlike DEF S!FinishPrepareTiles
    <2> QED BY <1>1, <2>1, <2>2, <2>3, <2>4, <2>5, <2>6, <2>7, <2>8, <2>9, <2>10, <2>11
         DEF ScheduledActions
  <1>2. CASE OnBeginFrame
    <2>1. ASSUME NEW s \in S!State, S!BeginImplFrame(s)
          PROVE Alike(s, sm') /\ KeepsTree(s, sm')
      BY <2>1, FrameStartsAlike, OperationsAreAlike DEF S!BeginImplFrame
    <2>2. \/ S!BeginImplFrame(sm)
          \/ S!BeginImplFrame(S!SetSkipNextBeginMainFrameToReduceLatency(sm))
          \/ sm' = sm
      <3>1. S!BeginImplFrame(sm) \/ S!BeginImplFrameWithDeadline \/ sm' = sm
        BY <1>2 DEF OnBeginFrame, S!OnBeginFrame
      <3>2. CASE S!BeginImplFrameWithDeadline
        BY <3>2, Zenon DEF S!BeginImplFrameWithDeadline
      <3> QED BY <3>1, <3>2
    <2>3. CASE S!BeginImplFrame(S!SetSkipNextBeginMainFrameToReduceLatency(sm))
      <3> DEFINE s == S!SetSkipNextBeginMainFrameToReduceLatency(sm)
      <3>1. s \in S!State /\ Alike(sm, s) /\ KeepsTree(sm, s)
        BY OperationsAreAlike, OperationsTyped
      <3>2. Alike(s, sm') /\ KeepsTree(s, sm')
        BY <2>1, <2>3, <3>1
      <3> QED BY <3>1, <3>2 DEF Alike, KeepsTree
    <2> QED BY <2>1, <2>2, <2>3, OperationsAreAlike
  <1>3. CASE BeginImplFrameDeadline
    BY <1>3, OperationsAreAlike DEF BeginImplFrameDeadline, S!BeginImplFrameDeadline
  <1>4. CASE ReadyToActivate
    BY <1>4, OperationsAreAlike DEF ReadyToActivate, S!ReadyToActivate, S!Task
  <1>5. CASE OnCanDrawStateChanged
    BY <1>5, OperationsAreAlike DEF OnCanDrawStateChanged, S!CallSetCanDraw, S!Tell
  <1>6. CASE SwapBuffersComplete
    BY <1>6, OperationsAreAlike DEF SwapBuffersComplete, S!SwapBuffersComplete, S!Task
  <1>7. CASE S!LeaveProcessScheduledActions
    BY <1>7, OperationsAreAlike DEF S!LeaveProcessScheduledActions
  <1>8. CASE S!FinishActivateSyncTree
    BY <1>8, OperationsAreAlike DEF S!FinishActivateSyncTree
  <1>9. CASE S!CallDidLoseOutputSurface
    BY <1>9, OperationsAreAlike DEF S!CallDidLoseOutputSurface
  <1> QED BY <1>1, <1>2, <1>3, <1>4, <1>5, <1>6, <1>7, <1>8, <1>9

\* They return to where they were called from, too.
LEMMA StepsStayInside ==
  ASSUME \/ ScheduledActions \/ OnBeginFrame \/ BeginImplFrameDeadline
         \/ ReadyToActivate \/ OnCanDrawStateChanged \/ SwapBuffersComplete
         \/ S!CallDidLoseOutputSurface
  PROVE  /\ inside_action = "ACTIVATE_SYNC_TREE"
              => inside_action' = "ACTIVATE_SYNC_TREE"
         /\ resume = "return" => resume' = "return"
  <1>1. CASE ScheduledActions
    BY <1>1
       DEF ScheduledActions, S!StartAction, S!FinishAction, S!PostAction, S!Performs,
           S!ActionAnimate, S!FinishAnimate, S!FinishCommit, S!ActionActivateSyncTree,
           S!ActionDrawAndSwapIfPossible, S!FinishDrawAndSwapIfPossible,
           S!ActionDrawAndSwapForced, S!FinishDrawAndSwapForced,
           S!ActionDrawAndSwapAbort, S!ActionPrepareTiles, S!FinishPrepareTiles
  <1>2. CASE \/ OnBeginFrame \/ BeginImplFrameDeadline
             \/ ReadyToActivate \/ SwapBuffersComplete
    BY <1>2
       DEF OnBeginFrame, S!OnBeginFrame, BeginImplFrameDeadline,
           S!BeginImplFrameDeadline, ReadyToActivate, S!ReadyToActivate,
           SwapBuffersComplete, S!SwapBuffersComplete, S!Task, S!TaskStarts
  <1>3. CASE OnCanDrawStateChanged \/ S!CallDidLoseOutputSurface
    BY <1>3
       DEF OnCanDrawStateChanged, S!CallSetCanDraw, S!Tell, S!CallDidLoseOutputSurface,
           S!ProcessIfOutside
  <1> QED BY <1>1, <1>2, <1>3

-----------------------------------------------------------------------------
(* The refinement: with the tasks where the invariant says they are, each  *)
(* step of the two threads is one of Scheduler or leaves it alone.         *)

\* What leaves the variables of the impl thread alone is a stutter of Scheduler.
LEMMA IdleMain ==
  UNCHANGED scheduler => UNCHANGED S!vars
  BY DEF scheduler, S!vars, S!frames, S!deadline

\* A task tells the scheduler only what Scheduler lets its client tell: the
\* deferral and the visibility change, the surface is being made, and the frame
\* is sent, because the task that is first is the one that says so.
LEMMA ProxyStepsAreScheduled ==
  ASSUME S!TypeOK, ProxyTypeOK, MainFrameIsSomewhere, OutputSurfaceIsSomewhere,
         VisibilityIsTold, DeferralIsTold, MainThreadWaits, Next
  PROVE  S!Next \/ UNCHANGED S!vars
  <1>0. sm \in S!State /\ impl_tasks \in Seq(ImplTask)
    BY DEF S!TypeOK, ProxyTypeOK
  <1>1. CASE MainThreadCalls \/ SetOutputSurface \/ MainThread
    <2>1. UNCHANGED scheduler
      BY <1>1
         DEF MainThreadCalls, SetOutputSurface, MainThread, SetNeeds,
             SetNextCommitWaitsForActivation, SetDeferCommits, SetVisibleAndWait,
             ReleaseOutputSurface, BeginMainFrame, UpdateLayers, FinishMainFrame,
             RequestNewOutputSurface, DidInitializeOutputSurface,
             DidLoseOutputSurfaceOnMainThread
    <2> QED BY <2>1, IdleMain
  <1>2. CASE SetNeedsCommitOnImplThread
    <2>1. S!CallSetNeedsBeginMainFrame
      BY <1>2
         DEF SetNeedsCommitOnImplThread, S!CallSetNeedsBeginMainFrame, S!Tell, S!Task,
             S!MayCall, S!TaskStarts, S!ProcessIfOutside, ProxyCalls
    <2> QED BY <2>1 DEF S!Next, S!ClientCalls
  <1>3. CASE SetDeferCommitsOnImplThread
    <2>1. PICK d \in BOOLEAN :
            /\ ImplTakes(<<"SetDeferCommits", d>>)
            /\ S!Task([sm EXCEPT !.defer_commits = d])
      BY <1>3 DEF SetDeferCommitsOnImplThread
    <2>2. PICK known \in [0 .. Len(impl_tasks) -> BOOLEAN] :
            /\ known[0] = sm.defer_commits
            /\ \A i \in DOMAIN impl_tasks :
                 IF impl_tasks[i][1] = "SetDeferCommits"
                   THEN known[i] = ~known[i - 1] /\ impl_tasks[i][2] = known[i]
                   ELSE known[i] = known[i - 1]
      BY DEF DeferralIsTold, DeferralLeads
    <2>3. /\ 1 \in DOMAIN impl_tasks /\ impl_tasks[1] = <<"SetDeferCommits", d>>
      BY <2>1, <1>0 DEF ImplTakes
    <2>4. d = known[1] /\ known[1] = ~known[1 - 1]
      BY <2>2, <2>3
    <2>5. d = ~sm.defer_commits
      BY <2>2, <2>4
    <2>6. S!CallSetDeferCommits
      BY <2>1, <2>5
         DEF S!CallSetDeferCommits, S!Tell, S!Task, S!MayCall, S!TaskStarts,
             S!ProcessIfOutside, ProxyCalls
    <2> QED BY <2>6 DEF S!Next, S!ClientCalls
  <1>4. CASE SetVisibleOnImplThread
    <2>1. PICK visible \in BOOLEAN, evicted \in BOOLEAN :
            /\ ImplTakes(<<"SetVisible", visible>>)
            /\ evicted => sm.visible
            /\ S!Task(SetVisible(IF evicted THEN DidPrepareTiles(sm) ELSE sm, visible))
      BY <1>4 DEF SetVisibleOnImplThread
    <2>2. visible = ~sm.visible
      <3>1. Waiting(impl_tasks, {"SetVisible"})
        BY <2>1, <1>0, TakenTask DEF ImplTakes
      <3>2. PICK i \in DOMAIN impl_tasks : impl_tasks[i] = <<"SetVisible", main.visible>>
        BY <3>1 DEF VisibilityIsTold, Posted
      <3>3. 1 \in DOMAIN impl_tasks /\ impl_tasks[1] = <<"SetVisible", visible>>
        BY <2>1, <1>0 DEF ImplTakes
      <3>4. i = 1
        BY <3>2, <3>3 DEF MainThreadWaits, AtMostOne
      <3> QED BY <3>1, <3>2, <3>3, <3>4 DEF VisibilityIsTold
    <2>3. \A s :
            /\ SetVisible(s, visible) = S!SetVisible(s, visible)
            /\ DidPrepareTiles(s) = S!DidPrepareTiles(s)
      BY DEF SetVisible, S!SetVisible, DidPrepareTiles, S!DidPrepareTiles
    <2>4. S!Tell("SetVisible", S!SetVisible(IF evicted THEN S!DidPrepareTiles(sm) ELSE sm, visible))
      BY <2>1, <2>3
         DEF S!Tell, S!Task, S!MayCall, S!TaskStarts, S!ProcessIfOutside, ProxyCalls
    <2>5. S!CallSetVisible
      BY <2>1, <2>2, <2>4 DEF S!CallSetVisible
    <2> QED BY <2>5 DEF S!Next, S!ClientCalls
  <1>5. CASE ReleaseOutputSurfaceOnImplThread \/ DidLoseOutputSurfaceOnImplThread
    BY <1>5
       DEF S!Next, S!ClientCalls, ReleaseOutputSurfaceOnImplThread,
           DidLoseOutputSurfaceOnImplThread
  <1>6. CASE InitializeOutputSurfaceOnImplThread
    <2>1. CASE UNCHANGED scheduler
      BY <2>1, IdleMain
    <2>2. ASSUME NEW max \in MaxPendingSwaps,
            S!Task(DidCreateAndInitializeOutputSurface([sm EXCEPT !.max_pending_swaps = max]))
          PROVE S!InitializeOutputSurface
      <3>1. sm.output_surface_state = "CREATING"
        <4>1. Waiting(impl_tasks, {"InitializeOutputSurface"})
          BY <1>6, <1>0, TakenTask DEF ImplTakes, InitializeOutputSurfaceOnImplThread
        <4> QED BY <4>1 DEF OutputSurfaceIsSomewhere
      <3>2. \A s :
              DidCreateAndInitializeOutputSurface(s) = S!DidCreateAndInitializeOutputSurface(s)
        BY DEF DidCreateAndInitializeOutputSurface,
               S!DidCreateAndInitializeOutputSurface
      <3>3. S!Task(S!DidCreateAndInitializeOutputSurface([sm EXCEPT !.max_pending_swaps = max]))
        BY <2>2, <3>2
      <3> QED BY <3>1, <3>3 DEF S!InitializeOutputSurface
    <2> QED BY <1>6, <2>1, <2>2 DEF InitializeOutputSurfaceOnImplThread, S!Next
  <1>7. CASE StartCommitOnImplThread
    <2>1. sm.begin_main_frame_state = "SENT"
      <3>1. Waiting(impl_tasks, {"StartCommit", "BeginMainFrameAborted"})
        BY <1>7, <1>0, TakenTask DEF ImplTakes, StartCommitOnImplThread
      <3> QED BY <3>1 DEF MainFrameIsSomewhere
    <2>2. NotifyReadyToCommit(NotifyBeginMainFrameStarted(sm))
            = S!NotifyReadyToCommit(S!NotifyBeginMainFrameStarted(sm))
      BY DEF NotifyReadyToCommit, S!NotifyReadyToCommit, NotifyBeginMainFrameStarted,
             S!NotifyBeginMainFrameStarted
    <2>3. S!StartCommitOnImplThread
      BY <1>7, <2>1, <2>2 DEF StartCommitOnImplThread, S!StartCommitOnImplThread
    <2> QED BY <2>3 DEF S!Next, S!MainThreadAnswers
  <1>8. CASE BeginMainFrameAbortedOnImplThread
    <2>1. PICK reason \in CommitEarlyOutReason :
            /\ ImplTakes(<<"BeginMainFrameAborted", reason>>)
            /\ S!Task(BeginMainFrameAborted(sm, reason))
      BY <1>8 DEF BeginMainFrameAbortedOnImplThread
    <2>2. sm.begin_main_frame_state = "SENT"
      <3>1. Waiting(impl_tasks, {"StartCommit", "BeginMainFrameAborted"})
        BY <2>1, <1>0, TakenTask DEF ImplTakes
      <3> QED BY <3>1 DEF MainFrameIsSomewhere
    <2>3. BeginMainFrameAborted(sm, reason) = S!BeginMainFrameAborted(sm, reason)
      BY Zenon
         DEF BeginMainFrameAborted, S!BeginMainFrameAborted, WillCommit, S!WillCommit,
             ForcedRedrawAfterCommit, S!ForcedRedrawAfterCommit, MainFrameAfterCommit,
             S!MainFrameAfterCommit
    <2>4. reason \in S!AbortReasons
      BY ThreadProxyAssumption
         DEF S!AbortReasons, CommitEarlyOutReason, S!CommitEarlyOutReason
    <2>5. S!BeginMainFrameAbortedOnImplThread
      BY <2>1, <2>2, <2>3, <2>4 DEF S!BeginMainFrameAbortedOnImplThread, ProxyCalls
    <2> QED BY <2>5 DEF S!Next, S!MainThreadAnswers
  <1>9. CASE ProcessScheduledActions
    BY <1>9
       DEF ProcessScheduledActions, ScheduledActionSendBeginMainFrame,
           ScheduledActionBeginOutputSurfaceCreation, ScheduledActionCommit,
           DidActivateSyncTree, LeaveProcessScheduledActions, ScheduledActions, S!Next,
           S!ProcessScheduledActions
  <1>10. CASE \/ OnBeginFrame
              \/ BeginImplFrameDeadline
              \/ ReadyToActivate
              \/ OnCanDrawStateChanged
              \/ SwapBuffersComplete
    BY <1>10
       DEF OnBeginFrame, BeginImplFrameDeadline, ReadyToActivate, OnCanDrawStateChanged,
           SwapBuffersComplete, S!Next, S!ClientCalls
  <1> QED BY <1>1, <1>2, <1>3, <1>4, <1>5, <1>6, <1>7, <1>8, <1>9, <1>10
       DEF Next, ImplThreadTasks, ImplThread

-----------------------------------------------------------------------------
(* The main thread: its calls keep the invariant.                          *)

\* A request changes the stages at most, and is posted if it is the first.
LEMMA RequestEffect ==
  ASSUME ProxyTypeOK, NEW m \in MainState,
         m.max_requested_pipeline_stage = main.max_requested_pipeline_stage,
         NEW stage \in CommitPipelineStage \ {NO_PIPELINE_STAGE},
         RequestStage(m, stage)
  PROVE  /\ main' \in MainState
         /\ main'.current_pipeline_stage = m.current_pipeline_stage
         /\ main'.defer_commits = m.defer_commits
         /\ main'.visible = m.visible
         /\ main'.output_surface = m.output_surface
         /\ main'.waits_for = m.waits_for
         /\ \/ /\ impl_tasks' = impl_tasks
               /\ main'.max_requested_pipeline_stage # NO_PIPELINE_STAGE
                    => main.max_requested_pipeline_stage # NO_PIPELINE_STAGE
            \/ impl_tasks' = Append(impl_tasks, <<"SetNeedsCommit">>)
  <1>1. \A a, b \in CommitPipelineStage : Larger(a, b) \in CommitPipelineStage
    BY DEF Larger
  <1>2. CASE /\ main' = [m EXCEPT !.final_pipeline_stage =
                           Larger(m.final_pipeline_stage, stage)]
             /\ UNCHANGED impl_tasks
    BY <1>1, <1>2 DEF MainState
  <1>3. CASE SendCommitRequestToImplThreadIfNeeded(m, stage)
    BY <1>1, <1>3 DEF SendCommitRequestToImplThreadIfNeeded, PostToImpl, MainState
  <1> QED BY <1>2, <1>3 DEF RequestStage

\* r is q, or q with a request posted last.
RequestMayBePosted(q, r) ==
  /\ \A names : "SetNeedsCommit" \notin names =>
       /\ Waiting(r, names) <=> Waiting(q, names)
       /\ AtMostOne(q, names) => AtMostOne(r, names)
  /\ \A u : Posted(q, u) => Posted(r, u)
  /\ \A u : u # <<"SetNeedsCommit">> /\ Posted(r, u) => Posted(q, u)

\* A request that may be posted disturbs no other task.
LEMMA RequestKeepsQueue ==
  ASSUME ProxyInv, sm \in S!State,
         \/ /\ impl_tasks' = impl_tasks
            /\ main'.max_requested_pipeline_stage # NO_PIPELINE_STAGE
                 => main.max_requested_pipeline_stage # NO_PIPELINE_STAGE
         \/ impl_tasks' = Append(impl_tasks, <<"SetNeedsCommit">>)
  PROVE  /\ impl_tasks' \in Seq(ImplTask)
         /\ RequestMayBePosted(impl_tasks, impl_tasks')
         /\ DeferralLeads(impl_tasks', sm.defer_commits, main.defer_commits)
         /\ main'.max_requested_pipeline_stage # NO_PIPELINE_STAGE =>
              \/ main.max_requested_pipeline_stage # NO_PIPELINE_STAGE
              \/ Posted(impl_tasks', <<"SetNeedsCommit">>)
  <1>1. CASE /\ impl_tasks' = impl_tasks
             /\ main'.max_requested_pipeline_stage # NO_PIPELINE_STAGE
                  => main.max_requested_pipeline_stage # NO_PIPELINE_STAGE
    BY <1>1 DEF RequestMayBePosted, ProxyInv, ProxyTypeOK, DeferralIsTold
  <1>2. CASE impl_tasks' = Append(impl_tasks, <<"SetNeedsCommit">>)
    <2> DEFINE t == <<"SetNeedsCommit">>
    <2>1. t \in ImplTask /\ t[1] = "SetNeedsCommit"
      BY DEF ImplTask
    <2>2. impl_tasks' \in Seq(ImplTask) /\ Posts(impl_tasks, t, impl_tasks')
      BY <1>2, <2>1, ImplPosts DEF ProxyInv
    <2>3. DeferralLeads(impl_tasks', sm.defer_commits, main.defer_commits)
      BY <1>2, <2>1, DeferralAppended
         DEF ProxyInv, ProxyTypeOK, MainState, DeferralIsTold
    <2> HIDE DEF t
    <2>4. RequestMayBePosted(impl_tasks, impl_tasks') /\ Posted(impl_tasks', t)
      BY <2>1, <2>2 DEF Posts, RequestMayBePosted, t
    <2> QED BY <2>2, <2>3, <2>4 DEF t
  <1> QED BY <1>1, <1>2

\* The same of the request that comes before the release of a surface.
LEMMA RequestMayComeFirst ==
  ASSUME ProxyInv, sm \in S!State, NEW q,
         q = IF main.max_requested_pipeline_stage = NO_PIPELINE_STAGE
               THEN Append(impl_tasks, <<"SetNeedsCommit">>) ELSE impl_tasks
  PROVE  /\ q \in Seq(ImplTask)
         /\ RequestMayBePosted(impl_tasks, q)
         /\ DeferralLeads(q, sm.defer_commits, main.defer_commits)
         /\ main.max_requested_pipeline_stage = NO_PIPELINE_STAGE
              => Posted(q, <<"SetNeedsCommit">>)
  <1>1. CASE main.max_requested_pipeline_stage # NO_PIPELINE_STAGE
    BY <1>1 DEF RequestMayBePosted, ProxyInv, ProxyTypeOK, DeferralIsTold
  <1>2. CASE q = Append(impl_tasks, <<"SetNeedsCommit">>)
    <2> DEFINE t == <<"SetNeedsCommit">>
    <2>1. t \in ImplTask /\ t[1] = "SetNeedsCommit"
      BY DEF ImplTask
    <2>2. q \in Seq(ImplTask) /\ Posts(impl_tasks, t, q)
      BY <1>2, <2>1, AppendedTask DEF ProxyInv, ProxyTypeOK, Posts
    <2>3. DeferralLeads(q, sm.defer_commits, main.defer_commits)
      BY <1>2, <2>1, DeferralAppended
         DEF ProxyInv, ProxyTypeOK, MainState, DeferralIsTold
    <2> HIDE DEF t
    <2>4. RequestMayBePosted(impl_tasks, q) /\ Posted(q, t)
      BY <2>1, <2>2 DEF Posts, RequestMayBePosted, t
    <2> QED BY <2>2, <2>3, <2>4 DEF t
  <1> QED BY <1>1, <1>2

LEMMA SetNeedsKeeps ==
  ASSUME ProxyInv, sm \in S!State, SetNeeds
  PROVE  ProxyInv'
  <1>1. UNCHANGED <<scheduler, impl, main_tasks>> /\ uncommitted' \in BOOLEAN
    BY DEF SetNeeds, ProxyInv, ProxyTypeOK
  <1>2. /\ main' \in MainState
        /\ main'.current_pipeline_stage = main.current_pipeline_stage
        /\ main'.defer_commits = main.defer_commits
        /\ main'.visible = main.visible
        /\ main'.output_surface = main.output_surface
        /\ main'.waits_for = main.waits_for
        /\ \/ /\ impl_tasks' = impl_tasks
              /\ main'.max_requested_pipeline_stage # NO_PIPELINE_STAGE
                   => main.max_requested_pipeline_stage # NO_PIPELINE_STAGE
           \/ impl_tasks' = Append(impl_tasks, <<"SetNeedsCommit">>)
    BY RequestEffect, ThreadProxyAssumption DEF SetNeeds, ProxyInv, ProxyTypeOK
  <1>3. /\ impl_tasks' \in Seq(ImplTask)
        /\ RequestMayBePosted(impl_tasks, impl_tasks')
        /\ DeferralLeads(impl_tasks', sm.defer_commits, main.defer_commits)
        /\ main'.max_requested_pipeline_stage # NO_PIPELINE_STAGE =>
             \/ main.max_requested_pipeline_stage # NO_PIPELINE_STAGE
             \/ Posted(impl_tasks', <<"SetNeedsCommit">>)
    BY <1>2, RequestKeepsQueue
  <1>4. /\ <<"StartCommit">> # <<"SetNeedsCommit">>
        /\ <<"BeginMainFrameAborted", "ABORTED_DEFERRED_COMMIT">> # <<"SetNeedsCommit">>
    OBVIOUS
  <1>5. ProxyTypeOK'
    BY <1>1, <1>2, <1>3, <1>4
       DEF ProxyInv, ProxyTypeOK, MainState, scheduler, RequestMayBePosted
  <1>6. MainFrameIsSomewhere'
    BY <1>1, <1>2, <1>3, <1>4
       DEF ProxyInv, MainFrameIsSomewhere, ProxyTypeOK, MainState, scheduler,
           RequestMayBePosted
  <1>7. OutputSurfaceIsSomewhere'
    BY <1>1, <1>2, <1>3, <1>4
       DEF ProxyInv, OutputSurfaceIsSomewhere, ProxyTypeOK, MainState, scheduler,
           RequestMayBePosted
  <1>8. MainThreadWaits'
    BY <1>1, <1>2, <1>3, <1>4
       DEF ProxyInv, MainThreadWaits, ProxyTypeOK, MainState, scheduler,
           RequestMayBePosted
  <1>9. VisibilityIsTold'
    BY <1>1, <1>2, <1>3, <1>4
       DEF ProxyInv, VisibilityIsTold, ProxyTypeOK, MainState, scheduler,
           RequestMayBePosted
  <1>10. DeferralIsTold'
    BY <1>1, <1>2, <1>3, <1>4
       DEF ProxyInv, DeferralIsTold, ProxyTypeOK, MainState, scheduler,
           RequestMayBePosted
  <1>11. EventWillBeSignaled'
    BY <1>1, <1>2, <1>3, <1>4
       DEF ProxyInv, EventWillBeSignaled, ProxyTypeOK, MainState, scheduler,
           RequestMayBePosted
  <1>12. RequestsTravel'
    BY <1>1, <1>2, <1>3, <1>4
       DEF ProxyInv, RequestsTravel, ProxyTypeOK, MainState, scheduler,
           RequestMayBePosted
  <1> QED BY <1>5, <1>6, <1>7, <1>8, <1>9, <1>10, <1>11, <1>12 DEF ProxyInv

LEMMA SetNextCommitWaitsKeeps ==
  ASSUME ProxyInv, sm \in S!State, SetNextCommitWaitsForActivation
  PROVE  ProxyInv'
  <1>1. /\ main' = [main EXCEPT !.commit_waits_for_activation = TRUE]
        /\ UNCHANGED <<scheduler, impl, main_tasks, impl_tasks, uncommitted>>
    BY DEF SetNextCommitWaitsForActivation
  <1>2. ProxyTypeOK'
    BY <1>1 DEF ProxyInv, ProxyTypeOK, MainState, scheduler
  <1>3. MainFrameIsSomewhere'
    BY <1>1 DEF ProxyInv, MainFrameIsSomewhere, ProxyTypeOK, MainState, scheduler
  <1>4. OutputSurfaceIsSomewhere'
    BY <1>1 DEF ProxyInv, OutputSurfaceIsSomewhere, ProxyTypeOK, MainState, scheduler
  <1>5. MainThreadWaits'
    BY <1>1 DEF ProxyInv, MainThreadWaits, ProxyTypeOK, MainState, scheduler
  <1>6. VisibilityIsTold'
    BY <1>1 DEF ProxyInv, VisibilityIsTold, ProxyTypeOK, MainState, scheduler
  <1>7. DeferralIsTold'
    BY <1>1 DEF ProxyInv, DeferralIsTold, ProxyTypeOK, MainState, scheduler
  <1>8. EventWillBeSignaled'
    BY <1>1 DEF ProxyInv, EventWillBeSignaled, ProxyTypeOK, MainState, scheduler
  <1>9. RequestsTravel'
    BY <1>1 DEF ProxyInv, RequestsTravel, ProxyTypeOK, MainState, scheduler
  <1> QED BY <1>2, <1>3, <1>4, <1>5, <1>6, <1>7, <1>8, <1>9 DEF ProxyInv

LEMMA SetDeferCommitsKeeps ==
  ASSUME ProxyInv, sm \in S!State, SetDeferCommits
  PROVE  ProxyInv'
  <1> DEFINE t == <<"SetDeferCommits", ~main.defer_commits>>
  <1>1. /\ main' = [main EXCEPT !.defer_commits = ~main.defer_commits]
        /\ impl_tasks' = Append(impl_tasks, t)
        /\ UNCHANGED <<scheduler, impl, main_tasks, uncommitted>>
    BY DEF SetDeferCommits, PostToImpl
  <1>2. /\ t \in ImplTask /\ t[1] = "SetDeferCommits"
        /\ t # <<"StartCommit">> /\ t # <<"SetNeedsCommit">>
    BY DEF ImplTask, ProxyInv, ProxyTypeOK, MainState
  <1>3. impl_tasks' \in Seq(ImplTask) /\ Posts(impl_tasks, t, impl_tasks')
    BY <1>1, <1>2, ImplPosts DEF ProxyInv
  <1>4. DeferralLeads(impl_tasks', sm.defer_commits, ~main.defer_commits)
    BY <1>1, <1>2, DeferralAppended DEF ProxyInv, ProxyTypeOK, MainState, DeferralIsTold
  <1> HIDE DEF t
  <1>5. ProxyTypeOK'
    BY <1>1, <1>2, <1>3 DEF ProxyInv, ProxyTypeOK, MainState, scheduler, Posts
  <1>6. MainFrameIsSomewhere'
    BY <1>1, <1>2, <1>3
       DEF ProxyInv, MainFrameIsSomewhere, ProxyTypeOK, MainState, scheduler, Posts
  <1>7. OutputSurfaceIsSomewhere'
    BY <1>1, <1>2, <1>3
       DEF ProxyInv, OutputSurfaceIsSomewhere, ProxyTypeOK, MainState, scheduler, Posts
  <1>8. MainThreadWaits'
    BY <1>1, <1>2, <1>3
       DEF ProxyInv, MainThreadWaits, ProxyTypeOK, MainState, scheduler, Posts
  <1>9. VisibilityIsTold'
    BY <1>1, <1>2, <1>3
       DEF ProxyInv, VisibilityIsTold, ProxyTypeOK, MainState, scheduler, Posts
  <1>10. DeferralIsTold'
    BY <1>1, <1>2, <1>3, <1>4
       DEF ProxyInv, DeferralIsTold, ProxyTypeOK, MainState, scheduler, Posts
  <1>11. EventWillBeSignaled'
    BY <1>1, <1>2, <1>3
       DEF ProxyInv, EventWillBeSignaled, ProxyTypeOK, MainState, scheduler, Posts
  <1>12. RequestsTravel'
    BY <1>1, <1>2, <1>3
       DEF ProxyInv, RequestsTravel, ProxyTypeOK, MainState, scheduler, Posts
  <1> QED BY <1>5, <1>6, <1>7, <1>8, <1>9, <1>10, <1>11, <1>12 DEF ProxyInv

LEMMA SetVisibleKeeps ==
  ASSUME ProxyInv, sm \in S!State, SetVisibleAndWait
  PROVE  ProxyInv'
  <1> DEFINE t == <<"SetVisible", ~main.visible>>
  <1>1. /\ main' = [main EXCEPT !.visible = ~main.visible, !.waits_for = "task"]
        /\ impl_tasks' = Append(impl_tasks, t)
        /\ UNCHANGED <<scheduler, impl, main_tasks, uncommitted>>
    BY DEF SetVisibleAndWait, PostToImpl
  <1>2. /\ t \in ImplTask /\ t[1] = "SetVisible"
        /\ t # <<"StartCommit">> /\ t # <<"SetNeedsCommit">>
    BY DEF ImplTask, ProxyInv, ProxyTypeOK, MainState
  <1>3. impl_tasks' \in Seq(ImplTask) /\ Posts(impl_tasks, t, impl_tasks')
    BY <1>1, <1>2, ImplPosts DEF ProxyInv
  <1>4. /\ main.waits_for = "nothing" /\ main.current_pipeline_stage = NO_PIPELINE_STAGE
        /\ ~impl.completion
        /\ ~Waiting(impl_tasks, {"SetVisible", "ReleaseOutputSurface"})
        /\ ~Waiting(impl_tasks, {"SetVisible"})
    BY Places DEF SetVisibleAndWait, ProxyInv, MainThreadWaits, MainIdle, MainRuns
  <1>5. t = <<"SetVisible", main'.visible>> /\ main.visible = sm.visible
    BY <1>1, <1>4 DEF ProxyInv, ProxyTypeOK, MainState, VisibilityIsTold
  <1>6. DeferralLeads(impl_tasks', sm.defer_commits, main.defer_commits)
    BY <1>1, <1>2, DeferralAppended DEF ProxyInv, ProxyTypeOK, MainState, DeferralIsTold
  <1> HIDE DEF t
  <1>7. ProxyTypeOK'
    BY <1>1, <1>2, <1>3 DEF ProxyInv, ProxyTypeOK, MainState, scheduler, Posts
  <1>8. MainFrameIsSomewhere'
    BY <1>1, <1>2, <1>3
       DEF ProxyInv, MainFrameIsSomewhere, ProxyTypeOK, MainState, scheduler, Posts
  <1>9. OutputSurfaceIsSomewhere'
    BY <1>1, <1>2, <1>3
       DEF ProxyInv, OutputSurfaceIsSomewhere, ProxyTypeOK, MainState, scheduler, Posts
  <1>10. MainThreadWaits'
    BY <1>1, <1>2, <1>3, <1>4
       DEF ProxyInv, MainThreadWaits, ProxyTypeOK, MainState, scheduler, Posts
  <1>11. VisibilityIsTold'
    BY <1>1, <1>2, <1>3, <1>4, <1>5
       DEF ProxyInv, VisibilityIsTold, ProxyTypeOK, MainState, scheduler, Posts
  <1>12. DeferralIsTold'
    BY <1>1, <1>2, <1>3, <1>6
       DEF ProxyInv, DeferralIsTold, ProxyTypeOK, MainState, scheduler, Posts
  <1>13. EventWillBeSignaled'
    BY <1>1, <1>2, <1>3, <1>4
       DEF ProxyInv, EventWillBeSignaled, ProxyTypeOK, MainState, scheduler, Posts
  <1>14. RequestsTravel'
    BY <1>1, <1>2, <1>3
       DEF ProxyInv, RequestsTravel, ProxyTypeOK, MainState, scheduler, Posts
  <1> QED BY <1>7, <1>8, <1>9, <1>10, <1>11, <1>12, <1>13, <1>14 DEF ProxyInv

LEMMA ReleaseOutputSurfaceKeeps ==
  ASSUME ProxyInv, sm \in S!State, ReleaseOutputSurface
  PROVE  ProxyInv'
  <1> DEFINE t == <<"ReleaseOutputSurface">>
  <1> DEFINE q == IF main.max_requested_pipeline_stage = NO_PIPELINE_STAGE
                      THEN Append(impl_tasks, <<"SetNeedsCommit">>) ELSE impl_tasks
  <1>1. /\ MainIdle /\ main.output_surface = "initialized"
        /\ main' = [main EXCEPT !.output_surface = "lost",
                                !.max_requested_pipeline_stage = COMMIT_PIPELINE_STAGE,
                                !.waits_for = "task"]
        /\ impl_tasks' = Append(q, t)
        /\ uncommitted' = TRUE
        /\ UNCHANGED <<scheduler, impl, main_tasks>>
    BY DEF ReleaseOutputSurface
  <1>2. /\ q \in Seq(ImplTask)
        /\ RequestMayBePosted(impl_tasks, q)
        /\ DeferralLeads(q, sm.defer_commits, main.defer_commits)
        /\ main.max_requested_pipeline_stage = NO_PIPELINE_STAGE
             => Posted(q, <<"SetNeedsCommit">>)
    BY RequestMayComeFirst
  <1>3. /\ t \in ImplTask
        /\ t[1] = "ReleaseOutputSurface"
        /\ t # <<"StartCommit">>
        /\ t # <<"SetNeedsCommit">>
        /\ t # <<"BeginMainFrameAborted", "ABORTED_DEFERRED_COMMIT">>
    BY DEF ImplTask
  <1> HIDE DEF t, q
  <1>4. /\ impl_tasks' \in Seq(ImplTask) /\ Posts(q, t, impl_tasks')
    BY <1>1, <1>2, <1>3, AppendedTask DEF Posts
  <1>5. DeferralLeads(impl_tasks', sm.defer_commits, main.defer_commits)
    BY <1>1, <1>2, <1>3, DeferralAppended DEF ProxyInv, ProxyTypeOK, MainState
  <1>6. COMMIT_PIPELINE_STAGE \in CommitPipelineStage
    BY DEF CommitPipelineStage, NO_PIPELINE_STAGE, COMMIT_PIPELINE_STAGE
  <1>7. /\ main' \in MainState
        /\ main'.visible = main.visible
        /\ main'.defer_commits = main.defer_commits
        /\ main'.output_surface = "lost"
        /\ main'.current_pipeline_stage = NO_PIPELINE_STAGE
        /\ main'.waits_for = "task"
        /\ main.waits_for = "nothing"
        /\ main.current_pipeline_stage = NO_PIPELINE_STAGE
    BY <1>1, <1>6 DEF MainIdle, MainRuns, ProxyInv, ProxyTypeOK, MainState
  <1>8. UNCHANGED <<scheduler, impl, main_tasks>> /\ uncommitted' = TRUE
    BY <1>1
  <1>9. ~impl.completion /\ ~Waiting(impl_tasks, {"SetVisible", "ReleaseOutputSurface"})
        /\ ~Waiting(impl_tasks, {"SetVisible"})
    BY <1>7, Places DEF ProxyInv, MainThreadWaits
  <1>10. main.output_surface = "initialized"
    BY <1>1
  <1>11. /\ \A names : "SetNeedsCommit" \notin names =>
              Waiting(impl_tasks', names)
                <=> Waiting(impl_tasks, names) \/ t[1] \in names
         /\ \A names : "SetNeedsCommit" \notin names /\ AtMostOne(impl_tasks, names)
                       /\ (t[1] \in names => ~Waiting(impl_tasks, names))
                            => AtMostOne(impl_tasks', names)
         /\ \A u : Posted(impl_tasks, u) => Posted(impl_tasks', u)
         /\ \A u :
              u # <<"SetNeedsCommit">> /\ u # t /\ Posted(impl_tasks', u)
                 => Posted(impl_tasks, u)
         /\ main.max_requested_pipeline_stage = NO_PIPELINE_STAGE
              => Posted(impl_tasks', <<"SetNeedsCommit">>)
    BY <1>4, <1>2 DEF Posts, RequestMayBePosted
  <1>12. /\ <<"StartCommit">> # <<"SetNeedsCommit">>
         /\ <<"BeginMainFrameAborted", "ABORTED_DEFERRED_COMMIT">> # <<"SetNeedsCommit">>
    OBVIOUS
  <1>13. ProxyTypeOK'
    BY <1>7, <1>8, <1>3, <1>11, <1>12, <1>4
       DEF ProxyInv, ProxyTypeOK, MainState, scheduler
  <1>14. MainFrameIsSomewhere'
    BY <1>7, <1>8, <1>3, <1>11, <1>12
       DEF ProxyInv, MainFrameIsSomewhere, ProxyTypeOK, MainState, scheduler
  <1>15. OutputSurfaceIsSomewhere'
    BY <1>7, <1>8, <1>3, <1>11, <1>12, <1>10
       DEF ProxyInv, OutputSurfaceIsSomewhere, ProxyTypeOK, MainState, scheduler
  <1>16. MainThreadWaits'
    BY <1>7, <1>8, <1>3, <1>11, <1>12, <1>9
       DEF ProxyInv, MainThreadWaits, ProxyTypeOK, MainState, scheduler,
           CommitPipelineStage, NO_PIPELINE_STAGE, ANIMATE_PIPELINE_STAGE,
           UPDATE_LAYERS_PIPELINE_STAGE, COMMIT_PIPELINE_STAGE
  <1>17. VisibilityIsTold'
    BY <1>7, <1>8, <1>3, <1>11, <1>12, <1>9
       DEF ProxyInv, VisibilityIsTold, ProxyTypeOK, MainState, scheduler
  <1>18. DeferralIsTold'
    BY <1>7, <1>8, <1>3, <1>11, <1>12, <1>5
       DEF ProxyInv, DeferralIsTold, ProxyTypeOK, MainState, scheduler
  <1>19. EventWillBeSignaled'
    BY <1>7, <1>8, <1>3, <1>11, <1>12
       DEF ProxyInv, EventWillBeSignaled, ProxyTypeOK, MainState, scheduler
  <1>20. RequestsTravel'
    BY <1>7, <1>8, <1>3, <1>11, <1>12
       DEF ProxyInv, RequestsTravel, ProxyTypeOK, MainState, scheduler
  <1> QED BY <1>13, <1>14, <1>15, <1>16, <1>17, <1>18, <1>19, <1>20 DEF ProxyInv

LEMMA SetOutputSurfaceKeeps ==
  ASSUME ProxyInv, sm \in S!State, SetOutputSurface
  PROVE  ProxyInv'
  <1> DEFINE t == <<"InitializeOutputSurface">>
  <1>1. /\ main' = [main EXCEPT !.output_surface = "given"]
        /\ impl_tasks' = Append(impl_tasks, t)
        /\ UNCHANGED <<scheduler, impl, main_tasks, uncommitted>>
    BY DEF SetOutputSurface, PostToImpl
  <1>2. /\ t \in ImplTask /\ t[1] = "InitializeOutputSurface"
        /\ t # <<"StartCommit">> /\ t # <<"SetNeedsCommit">>
    BY DEF ImplTask, ProxyInv, ProxyTypeOK, MainState
  <1>3. impl_tasks' \in Seq(ImplTask) /\ Posts(impl_tasks, t, impl_tasks')
    BY <1>1, <1>2, ImplPosts DEF ProxyInv
  <1>4. main.output_surface = "requested"
    BY DEF SetOutputSurface
  <1>5. DeferralLeads(impl_tasks', sm.defer_commits, main.defer_commits)
    BY <1>1, <1>2, DeferralAppended DEF ProxyInv, ProxyTypeOK, MainState, DeferralIsTold
  <1>6. Posted(main_tasks, <<"DidInitializeOutputSurface", FALSE>>)
          => Waiting(main_tasks, {"DidInitializeOutputSurface"})
    BY Places DEF ProxyInv
  <1> HIDE DEF t
  <1>7. ProxyTypeOK'
    BY <1>1, <1>2, <1>3 DEF ProxyInv, ProxyTypeOK, MainState, scheduler, Posts
  <1>8. MainFrameIsSomewhere'
    BY <1>1, <1>2, <1>3
       DEF ProxyInv, MainFrameIsSomewhere, ProxyTypeOK, MainState, scheduler, Posts
  <1>9. OutputSurfaceIsSomewhere'
    BY <1>1, <1>2, <1>3, <1>4, <1>6
       DEF ProxyInv, OutputSurfaceIsSomewhere, ProxyTypeOK, MainState, scheduler, Posts
  <1>10. MainThreadWaits'
    BY <1>1, <1>2, <1>3
       DEF ProxyInv, MainThreadWaits, ProxyTypeOK, MainState, scheduler, Posts
  <1>11. VisibilityIsTold'
    BY <1>1, <1>2, <1>3
       DEF ProxyInv, VisibilityIsTold, ProxyTypeOK, MainState, scheduler, Posts
  <1>12. DeferralIsTold'
    BY <1>1, <1>2, <1>3, <1>5
       DEF ProxyInv, DeferralIsTold, ProxyTypeOK, MainState, scheduler, Posts
  <1>13. EventWillBeSignaled'
    BY <1>1, <1>2, <1>3
       DEF ProxyInv, EventWillBeSignaled, ProxyTypeOK, MainState, scheduler, Posts
  <1>14. RequestsTravel'
    BY <1>1, <1>2, <1>3
       DEF ProxyInv, RequestsTravel, ProxyTypeOK, MainState, scheduler, Posts
  <1> QED BY <1>7, <1>8, <1>9, <1>10, <1>11, <1>12, <1>13, <1>14 DEF ProxyInv

-----------------------------------------------------------------------------
(* The main thread: its tasks, and the frame that one of them starts.      *)

\* A frame takes the requests and leaves the rest.
LEMMA RequestsTaken ==
  ASSUME ProxyTypeOK, NEW m, m = FrameTakesRequests
  PROVE  /\ m \in MainState
         /\ m.max_requested_pipeline_stage = NO_PIPELINE_STAGE
         /\ m.current_pipeline_stage = main.current_pipeline_stage
         /\ m.defer_commits = main.defer_commits
         /\ m.visible = main.visible
         /\ m.output_surface = main.output_surface
         /\ m.waits_for = main.waits_for
  <1>1. /\ main.max_requested_pipeline_stage \in CommitPipelineStage
        /\ NO_PIPELINE_STAGE \in CommitPipelineStage
    BY DEF ProxyTypeOK, MainState, CommitPipelineStage, NO_PIPELINE_STAGE,
           COMMIT_PIPELINE_STAGE
  <1> QED BY <1>1 DEF ProxyTypeOK, MainState, FrameTakesRequests

\* BeginMainFrame gives the frame up, or starts it.
LEMMA MainFrameGivenUpKeeps ==
  ASSUME ProxyInv, sm \in S!State, NEW begin, MainTakes(begin),
         begin[1] = "BeginMainFrame",
         NEW t \in ImplTask, t[1] = "BeginMainFrameAborted",
         impl_tasks' = Append(impl_tasks, t),
         main' \in MainState,
         main'.defer_commits = main.defer_commits,
         main'.visible = main.visible,
         main'.output_surface = main.output_surface,
         main'.waits_for = main.waits_for,
         main'.current_pipeline_stage = main.current_pipeline_stage,
         \/ main'.max_requested_pipeline_stage = NO_PIPELINE_STAGE
         \/ t = <<"BeginMainFrameAborted", "ABORTED_DEFERRED_COMMIT">>,
         UNCHANGED <<scheduler, impl, uncommitted>>
  PROVE  ProxyInv'
  <1>1. main.waits_for = "nothing" /\ main.current_pipeline_stage = NO_PIPELINE_STAGE
    BY DEF MainTakes, MainIdle, MainRuns
  <1>2. begin # <<"DidInitializeOutputSurface", FALSE>>
    <2>1. ASSUME begin = <<"DidInitializeOutputSurface", FALSE>> PROVE FALSE
      BY <2>1
    <2> QED BY <2>1
  <1>3. main_tasks' \in Seq(MainTask) /\ Takes(main_tasks, begin, main_tasks')
    BY MainTook DEF ProxyInv
  <1>4. AnswersFirst(main_tasks')
    BY AnswersFirstKept
       DEF ProxyInv, ProxyTypeOK, OutputSurfaceIsSomewhere, MainTakes, MainTask
  <1>5. /\ sm.begin_main_frame_state = "SENT"
        /\ ~Waiting(impl_tasks, {"StartCommit", "BeginMainFrameAborted"})
        /\ ~Waiting(main_tasks', {"BeginMainFrame"})
    BY <1>3 DEF ProxyInv, MainFrameIsSomewhere, Takes
  <1>6. t # <<"StartCommit">> /\ t # <<"SetNeedsCommit">>
    OBVIOUS
  <1>7. impl_tasks' \in Seq(ImplTask) /\ Posts(impl_tasks, t, impl_tasks')
    BY ImplPosts DEF ProxyInv
  <1>8. DeferralLeads(impl_tasks', sm.defer_commits, main.defer_commits)
    BY DeferralAppended DEF ProxyInv, ProxyTypeOK, MainState, DeferralIsTold
  <1>9. ProxyTypeOK'
    BY <1>1, <1>3, <1>6, <1>7
       DEF ProxyInv, ProxyTypeOK, MainState, scheduler, Takes, Posts
  <1>10. MainFrameIsSomewhere'
    BY <1>1, <1>3, <1>6, <1>7, <1>5
       DEF ProxyInv, MainFrameIsSomewhere, ProxyTypeOK, MainState, scheduler, Takes,
           Posts, CommitPipelineStage, NO_PIPELINE_STAGE, ANIMATE_PIPELINE_STAGE,
           UPDATE_LAYERS_PIPELINE_STAGE, COMMIT_PIPELINE_STAGE
  <1>11. OutputSurfaceIsSomewhere'
    BY <1>1, <1>3, <1>6, <1>7, <1>4, <1>2
       DEF ProxyInv, OutputSurfaceIsSomewhere, ProxyTypeOK, MainState, scheduler, Takes,
           Posts
  <1>12. MainThreadWaits'
    BY <1>1, <1>3, <1>6, <1>7
       DEF ProxyInv, MainThreadWaits, ProxyTypeOK, MainState, scheduler, Takes, Posts,
           CommitPipelineStage, NO_PIPELINE_STAGE, ANIMATE_PIPELINE_STAGE,
           UPDATE_LAYERS_PIPELINE_STAGE, COMMIT_PIPELINE_STAGE
  <1>13. VisibilityIsTold'
    BY <1>1, <1>3, <1>6, <1>7
       DEF ProxyInv, VisibilityIsTold, ProxyTypeOK, MainState, scheduler, Takes, Posts
  <1>14. DeferralIsTold'
    BY <1>1, <1>3, <1>6, <1>7, <1>8
       DEF ProxyInv, DeferralIsTold, ProxyTypeOK, MainState, scheduler, Takes, Posts
  <1>15. EventWillBeSignaled'
    BY <1>1, <1>3, <1>6, <1>7
       DEF ProxyInv, EventWillBeSignaled, ProxyTypeOK, MainState, scheduler, Takes,
           Posts
  <1>16. RequestsTravel'
    BY <1>1, <1>3, <1>6, <1>7
       DEF ProxyInv, RequestsTravel, ProxyTypeOK, MainState, scheduler, Takes, Posts
  <1> QED BY <1>9, <1>10, <1>11, <1>12, <1>13, <1>14, <1>15, <1>16 DEF ProxyInv

LEMMA MainFrameStartsKeeps ==
  ASSUME ProxyInv, sm \in S!State, NEW begin, MainTakes(begin),
         begin[1] = "BeginMainFrame",
         main' \in MainState,
         main'.defer_commits = main.defer_commits,
         main'.visible = main.visible,
         main'.output_surface = main.output_surface,
         main'.waits_for = main.waits_for,
         main'.current_pipeline_stage = ANIMATE_PIPELINE_STAGE,
         main'.max_requested_pipeline_stage = NO_PIPELINE_STAGE,
         UNCHANGED <<scheduler, impl, impl_tasks, uncommitted>>
  PROVE  ProxyInv'
  <1>1. main.waits_for = "nothing" /\ main.current_pipeline_stage = NO_PIPELINE_STAGE
    BY DEF MainTakes, MainIdle, MainRuns
  <1>2. begin # <<"DidInitializeOutputSurface", FALSE>>
    <2>1. ASSUME begin = <<"DidInitializeOutputSurface", FALSE>> PROVE FALSE
      BY <2>1
    <2> QED BY <2>1
  <1>3. main_tasks' \in Seq(MainTask) /\ Takes(main_tasks, begin, main_tasks')
    BY MainTook DEF ProxyInv
  <1>4. AnswersFirst(main_tasks')
    BY AnswersFirstKept
       DEF ProxyInv, ProxyTypeOK, OutputSurfaceIsSomewhere, MainTakes, MainTask
  <1>5. /\ sm.begin_main_frame_state = "SENT"
        /\ ~Waiting(impl_tasks, {"StartCommit", "BeginMainFrameAborted"})
        /\ ~Waiting(main_tasks', {"BeginMainFrame"})
    BY <1>3 DEF ProxyInv, MainFrameIsSomewhere, Takes
  <1>6. ProxyTypeOK'
    BY <1>1, <1>3 DEF ProxyInv, ProxyTypeOK, MainState, scheduler, Takes
  <1>7. MainFrameIsSomewhere'
    BY <1>1, <1>3, <1>5
       DEF ProxyInv, MainFrameIsSomewhere, ProxyTypeOK, MainState, scheduler, Takes,
           CommitPipelineStage, NO_PIPELINE_STAGE, ANIMATE_PIPELINE_STAGE,
           UPDATE_LAYERS_PIPELINE_STAGE, COMMIT_PIPELINE_STAGE
  <1>8. OutputSurfaceIsSomewhere'
    BY <1>1, <1>3, <1>4, <1>2
       DEF ProxyInv, OutputSurfaceIsSomewhere, ProxyTypeOK, MainState, scheduler, Takes
  <1>9. MainThreadWaits'
    BY <1>1, <1>3
       DEF ProxyInv, MainThreadWaits, ProxyTypeOK, MainState, scheduler, Takes,
           CommitPipelineStage, NO_PIPELINE_STAGE, ANIMATE_PIPELINE_STAGE,
           UPDATE_LAYERS_PIPELINE_STAGE, COMMIT_PIPELINE_STAGE
  <1>10. VisibilityIsTold'
    BY <1>1, <1>3
       DEF ProxyInv, VisibilityIsTold, ProxyTypeOK, MainState, scheduler, Takes
  <1>11. DeferralIsTold'
    BY <1>1, <1>3 DEF ProxyInv, DeferralIsTold, ProxyTypeOK, MainState, scheduler, Takes
  <1>12. EventWillBeSignaled'
    BY <1>1, <1>3
       DEF ProxyInv, EventWillBeSignaled, ProxyTypeOK, MainState, scheduler, Takes
  <1>13. RequestsTravel'
    BY <1>1, <1>3 DEF ProxyInv, RequestsTravel, ProxyTypeOK, MainState, scheduler, Takes
  <1> QED BY <1>6, <1>7, <1>8, <1>9, <1>10, <1>11, <1>12, <1>13 DEF ProxyInv

LEMMA BeginMainFrameKeeps ==
  ASSUME ProxyInv, sm \in S!State, BeginMainFrame
  PROVE  ProxyInv'
  <1> DEFINE begin == <<"BeginMainFrame">>
  <1>1. MainTakes(begin) /\ UNCHANGED <<scheduler, impl, uncommitted>>
    BY DEF BeginMainFrame
  <1>2. begin[1] = "BeginMainFrame"
    OBVIOUS
  <1> HIDE DEF begin
  <1>3. CASE AbortMainFrame("ABORTED_DEFERRED_COMMIT", main)
    <2> DEFINE t == <<"BeginMainFrameAborted", "ABORTED_DEFERRED_COMMIT">>
    <2>1. t \in ImplTask /\ t[1] = "BeginMainFrameAborted"
      BY DEF ImplTask, CommitEarlyOutReason
    <2>2. impl_tasks' = Append(impl_tasks, t) /\ main' = main
      BY <1>3 DEF AbortMainFrame, PostToImpl
    <2> QED BY <1>1, <1>2, <2>1, <2>2, MainFrameGivenUpKeeps DEF ProxyInv, ProxyTypeOK
  <1>4. ASSUME NEW reason \in CommitEarlyOutReason, AbortMainFrame(reason, FrameTakesRequests)
        PROVE  ProxyInv'
    <2> DEFINE t == <<"BeginMainFrameAborted", reason>>
    <2>1. t \in ImplTask /\ t[1] = "BeginMainFrameAborted"
      BY DEF ImplTask
    <2>2. impl_tasks' = Append(impl_tasks, t) /\ main' = FrameTakesRequests
      BY <1>4 DEF AbortMainFrame, PostToImpl
    <2> HIDE DEF t
    <2> QED BY <1>1, <1>2, <2>1, <2>2, RequestsTaken, MainFrameGivenUpKeeps DEF ProxyInv
  <1>5. CASE /\ main' = [FrameTakesRequests EXCEPT
                           !.current_pipeline_stage = ANIMATE_PIPELINE_STAGE]
             /\ UNCHANGED impl_tasks
    <2> DEFINE m == FrameTakesRequests
    <2>1. /\ m \in MainState
          /\ m.max_requested_pipeline_stage = NO_PIPELINE_STAGE
          /\ m.defer_commits = main.defer_commits
          /\ m.visible = main.visible
          /\ m.output_surface = main.output_surface
          /\ m.waits_for = main.waits_for
      BY RequestsTaken DEF ProxyInv
    <2> HIDE DEF m
    <2>2. ANIMATE_PIPELINE_STAGE \in CommitPipelineStage
      BY DEF CommitPipelineStage, NO_PIPELINE_STAGE, ANIMATE_PIPELINE_STAGE,
             COMMIT_PIPELINE_STAGE
    <2>3. main' = [m EXCEPT !.current_pipeline_stage = ANIMATE_PIPELINE_STAGE]
      BY <1>5 DEF m
    <2>4. /\ main' \in MainState
          /\ main'.current_pipeline_stage = ANIMATE_PIPELINE_STAGE
          /\ main'.max_requested_pipeline_stage = NO_PIPELINE_STAGE
          /\ main'.defer_commits = main.defer_commits
          /\ main'.visible = main.visible
          /\ main'.output_surface = main.output_surface
          /\ main'.waits_for = main.waits_for
      BY <2>1, <2>2, <2>3 DEF MainState
    <2> QED BY <1>1, <1>2, <1>5, <2>4, MainFrameStartsKeeps
  <1> QED BY <1>3, <1>4, <1>5 DEF BeginMainFrame, CommitEarlyOutReason

LEMMA UpdateLayersKeeps ==
  ASSUME ProxyInv, sm \in S!State, UpdateLayers
  PROVE  ProxyInv'
  <1>1. /\ main' = [main EXCEPT !.current_pipeline_stage = UPDATE_LAYERS_PIPELINE_STAGE]
        /\ main.current_pipeline_stage = ANIMATE_PIPELINE_STAGE
        /\ UNCHANGED <<scheduler, impl, main_tasks, impl_tasks, uncommitted>>
    BY DEF UpdateLayers
  <1>2. ProxyTypeOK'
    BY <1>1
       DEF ProxyInv, ProxyTypeOK, MainState, scheduler, CommitPipelineStage,
           NO_PIPELINE_STAGE, ANIMATE_PIPELINE_STAGE, UPDATE_LAYERS_PIPELINE_STAGE,
           COMMIT_PIPELINE_STAGE
  <1>3. MainFrameIsSomewhere'
    BY <1>1
       DEF ProxyInv, MainFrameIsSomewhere, ProxyTypeOK, MainState, scheduler,
           CommitPipelineStage, NO_PIPELINE_STAGE, ANIMATE_PIPELINE_STAGE,
           UPDATE_LAYERS_PIPELINE_STAGE, COMMIT_PIPELINE_STAGE
  <1>4. OutputSurfaceIsSomewhere'
    BY <1>1
       DEF ProxyInv, OutputSurfaceIsSomewhere, ProxyTypeOK, MainState, scheduler,
           CommitPipelineStage, NO_PIPELINE_STAGE, ANIMATE_PIPELINE_STAGE,
           UPDATE_LAYERS_PIPELINE_STAGE, COMMIT_PIPELINE_STAGE
  <1>5. MainThreadWaits'
    BY <1>1
       DEF ProxyInv, MainThreadWaits, ProxyTypeOK, MainState, scheduler,
           CommitPipelineStage, NO_PIPELINE_STAGE, ANIMATE_PIPELINE_STAGE,
           UPDATE_LAYERS_PIPELINE_STAGE, COMMIT_PIPELINE_STAGE
  <1>6. VisibilityIsTold'
    BY <1>1
       DEF ProxyInv, VisibilityIsTold, ProxyTypeOK, MainState, scheduler,
           CommitPipelineStage, NO_PIPELINE_STAGE, ANIMATE_PIPELINE_STAGE,
           UPDATE_LAYERS_PIPELINE_STAGE, COMMIT_PIPELINE_STAGE
  <1>7. DeferralIsTold'
    BY <1>1
       DEF ProxyInv, DeferralIsTold, ProxyTypeOK, MainState, scheduler,
           CommitPipelineStage, NO_PIPELINE_STAGE, ANIMATE_PIPELINE_STAGE,
           UPDATE_LAYERS_PIPELINE_STAGE, COMMIT_PIPELINE_STAGE
  <1>8. EventWillBeSignaled'
    BY <1>1
       DEF ProxyInv, EventWillBeSignaled, ProxyTypeOK, MainState, scheduler,
           CommitPipelineStage, NO_PIPELINE_STAGE, ANIMATE_PIPELINE_STAGE,
           UPDATE_LAYERS_PIPELINE_STAGE, COMMIT_PIPELINE_STAGE
  <1>9. RequestsTravel'
    BY <1>1
       DEF ProxyInv, RequestsTravel, ProxyTypeOK, MainState, scheduler,
           CommitPipelineStage, NO_PIPELINE_STAGE, ANIMATE_PIPELINE_STAGE,
           UPDATE_LAYERS_PIPELINE_STAGE, COMMIT_PIPELINE_STAGE
  <1> QED BY <1>2, <1>3, <1>4, <1>5, <1>6, <1>7, <1>8, <1>9 DEF ProxyInv

\* FinishMainFrame cancels the frame, or posts its commit.
LEMMA MainFrameCancelledKeeps ==
  ASSUME ProxyInv, sm \in S!State, MainRuns,
         main.current_pipeline_stage = UPDATE_LAYERS_PIPELINE_STAGE,
         NEW t \in ImplTask, t[1] = "BeginMainFrameAborted",
         impl_tasks' = Append(impl_tasks, t),
         main' \in MainState,
         main'.defer_commits = main.defer_commits,
         main'.visible = main.visible,
         main'.output_surface = main.output_surface,
         main'.waits_for = main.waits_for,
         main'.current_pipeline_stage = NO_PIPELINE_STAGE,
         main'.max_requested_pipeline_stage = main.max_requested_pipeline_stage,
         UNCHANGED <<scheduler, impl, main_tasks, uncommitted>>
  PROVE  ProxyInv'
  <1>1. main.waits_for = "nothing"
    BY DEF MainRuns
  <1>2. /\ sm.begin_main_frame_state = "SENT"
        /\ ~Waiting(main_tasks, {"BeginMainFrame"})
        /\ ~Waiting(impl_tasks, {"StartCommit", "BeginMainFrameAborted"})
    BY DEF ProxyInv, MainFrameIsSomewhere
  <1>3. /\ ~Waiting(impl_tasks, {"BeginMainFrameAborted"})
        /\ ~Posted(impl_tasks, <<"StartCommit">>)
    BY <1>2, Places DEF ProxyInv
  <1>4. t # <<"StartCommit">> /\ t # <<"SetNeedsCommit">>
    OBVIOUS
  <1>5. impl_tasks' \in Seq(ImplTask) /\ Posts(impl_tasks, t, impl_tasks')
    BY ImplPosts DEF ProxyInv
  <1>6. DeferralLeads(impl_tasks', sm.defer_commits, main.defer_commits)
    BY DeferralAppended DEF ProxyInv, ProxyTypeOK, MainState, DeferralIsTold
  <1>7. ProxyTypeOK'
    BY <1>1, <1>4, <1>5 DEF ProxyInv, ProxyTypeOK, MainState, scheduler, Posts
  <1>8. MainFrameIsSomewhere'
    BY <1>1, <1>4, <1>5, <1>2
       DEF ProxyInv, MainFrameIsSomewhere, ProxyTypeOK, MainState, scheduler, Posts,
           CommitPipelineStage, NO_PIPELINE_STAGE, ANIMATE_PIPELINE_STAGE,
           UPDATE_LAYERS_PIPELINE_STAGE, COMMIT_PIPELINE_STAGE
  <1>9. OutputSurfaceIsSomewhere'
    BY <1>1, <1>4, <1>5
       DEF ProxyInv, OutputSurfaceIsSomewhere, ProxyTypeOK, MainState, scheduler, Posts
  <1>10. MainThreadWaits'
    BY <1>1, <1>4, <1>5
       DEF ProxyInv, MainThreadWaits, ProxyTypeOK, MainState, scheduler, Posts,
           CommitPipelineStage, NO_PIPELINE_STAGE, ANIMATE_PIPELINE_STAGE,
           UPDATE_LAYERS_PIPELINE_STAGE, COMMIT_PIPELINE_STAGE
  <1>11. VisibilityIsTold'
    BY <1>1, <1>4, <1>5
       DEF ProxyInv, VisibilityIsTold, ProxyTypeOK, MainState, scheduler, Posts
  <1>12. DeferralIsTold'
    BY <1>1, <1>4, <1>5, <1>6
       DEF ProxyInv, DeferralIsTold, ProxyTypeOK, MainState, scheduler, Posts
  <1>13. EventWillBeSignaled'
    BY <1>1, <1>4, <1>5
       DEF ProxyInv, EventWillBeSignaled, ProxyTypeOK, MainState, scheduler, Posts
  <1>14. RequestsTravel'
    BY <1>1, <1>4, <1>5
       DEF ProxyInv, RequestsTravel, ProxyTypeOK, MainState, scheduler, Posts
  <1> QED BY <1>7, <1>8, <1>9, <1>10, <1>11, <1>12, <1>13, <1>14 DEF ProxyInv

LEMMA MainFrameCommitsKeeps ==
  ASSUME ProxyInv, sm \in S!State, MainRuns,
         main.current_pipeline_stage = UPDATE_LAYERS_PIPELINE_STAGE,
         impl_tasks' = Append(impl_tasks, <<"StartCommit">>),
         main' \in MainState,
         main'.defer_commits = main.defer_commits,
         main'.visible = main.visible,
         main'.output_surface = main.output_surface,
         main'.waits_for = "commit",
         main'.current_pipeline_stage = COMMIT_PIPELINE_STAGE,
         main'.max_requested_pipeline_stage = main.max_requested_pipeline_stage,
         UNCHANGED <<scheduler, impl, main_tasks, uncommitted>>
  PROVE  ProxyInv'
  <1>1. main.waits_for = "nothing"
    BY DEF MainRuns
  <1>2. /\ sm.begin_main_frame_state = "SENT"
        /\ ~Waiting(main_tasks, {"BeginMainFrame"})
        /\ ~Waiting(impl_tasks, {"StartCommit", "BeginMainFrameAborted"})
    BY DEF ProxyInv, MainFrameIsSomewhere
  <1>3. /\ ~Waiting(impl_tasks, {"BeginMainFrameAborted"})
        /\ ~Posted(impl_tasks, <<"StartCommit">>)
    BY <1>2, Places DEF ProxyInv
  <1> DEFINE t == <<"StartCommit">>
  <1>4. /\ t \in ImplTask
        /\ t[1] = "StartCommit"
        /\ t = <<"StartCommit">>
        /\ t # <<"SetNeedsCommit">>
        /\ t # <<"BeginMainFrameAborted", "ABORTED_DEFERRED_COMMIT">>
        /\ impl_tasks' = Append(impl_tasks, t)
    BY DEF ImplTask
  <1>5. impl_tasks' \in Seq(ImplTask) /\ Posts(impl_tasks, t, impl_tasks')
    BY <1>4, ImplPosts DEF ProxyInv
  <1>6. DeferralLeads(impl_tasks', sm.defer_commits, main.defer_commits)
    BY <1>4, DeferralAppended DEF ProxyInv, ProxyTypeOK, MainState, DeferralIsTold
  <1> HIDE DEF t
  <1>7. Posted(impl_tasks', <<"StartCommit">>)
    BY <1>5, <1>4 DEF Posts
  <1>8. ProxyTypeOK'
    BY <1>1, <1>4, <1>5 DEF ProxyInv, ProxyTypeOK, MainState, scheduler, Posts
  <1>9. MainFrameIsSomewhere'
    BY <1>1, <1>4, <1>5, <1>2
       DEF ProxyInv, MainFrameIsSomewhere, ProxyTypeOK, MainState, scheduler, Posts,
           CommitPipelineStage, NO_PIPELINE_STAGE, ANIMATE_PIPELINE_STAGE,
           UPDATE_LAYERS_PIPELINE_STAGE, COMMIT_PIPELINE_STAGE
  <1>10. OutputSurfaceIsSomewhere'
    BY <1>1, <1>4, <1>5
       DEF ProxyInv, OutputSurfaceIsSomewhere, ProxyTypeOK, MainState, scheduler, Posts
  <1>11. MainThreadWaits'
    BY <1>1, <1>4, <1>5, <1>3
       DEF ProxyInv, MainThreadWaits, ProxyTypeOK, MainState, scheduler, Posts,
           CommitPipelineStage, NO_PIPELINE_STAGE, ANIMATE_PIPELINE_STAGE,
           UPDATE_LAYERS_PIPELINE_STAGE, COMMIT_PIPELINE_STAGE
  <1>12. VisibilityIsTold'
    BY <1>1, <1>4, <1>5
       DEF ProxyInv, VisibilityIsTold, ProxyTypeOK, MainState, scheduler, Posts
  <1>13. DeferralIsTold'
    BY <1>1, <1>4, <1>5, <1>6
       DEF ProxyInv, DeferralIsTold, ProxyTypeOK, MainState, scheduler, Posts
  <1>14. EventWillBeSignaled'
    BY <1>1, <1>4, <1>5, <1>7, <1>2, <1>3
       DEF ProxyInv, EventWillBeSignaled, ProxyTypeOK, MainState, scheduler, Posts
  <1>15. RequestsTravel'
    BY <1>1, <1>4, <1>5
       DEF ProxyInv, RequestsTravel, ProxyTypeOK, MainState, scheduler, Posts
  <1> QED BY <1>8, <1>9, <1>10, <1>11, <1>12, <1>13, <1>14, <1>15 DEF ProxyInv

LEMMA FinishMainFrameKeeps ==
  ASSUME ProxyInv, sm \in S!State, FinishMainFrame
  PROVE  ProxyInv'
  <1>1. /\ MainRuns /\ main.current_pipeline_stage = UPDATE_LAYERS_PIPELINE_STAGE
        /\ UNCHANGED <<scheduler, impl, main_tasks, uncommitted>>
        /\ \/ AbortMainFrame("FINISHED_NO_UPDATES",
                 [main EXCEPT !.current_pipeline_stage = NO_PIPELINE_STAGE])
           \/ /\ main' = [main EXCEPT !.current_pipeline_stage = COMMIT_PIPELINE_STAGE,
                                       !.waits_for = "commit"]
              /\ PostToImpl(<<"StartCommit">>)
    BY DEF FinishMainFrame
  <1>2. /\ NO_PIPELINE_STAGE \in CommitPipelineStage
        /\ COMMIT_PIPELINE_STAGE \in CommitPipelineStage
    BY DEF CommitPipelineStage, NO_PIPELINE_STAGE, COMMIT_PIPELINE_STAGE
  <1>3. CASE AbortMainFrame("FINISHED_NO_UPDATES",
               [main EXCEPT !.current_pipeline_stage = NO_PIPELINE_STAGE])
    <2> DEFINE t == <<"BeginMainFrameAborted", "FINISHED_NO_UPDATES">>
    <2>1. t \in ImplTask /\ t[1] = "BeginMainFrameAborted"
      BY DEF ImplTask, CommitEarlyOutReason
    <2>2. /\ impl_tasks' = Append(impl_tasks, t)
          /\ main' = [main EXCEPT !.current_pipeline_stage = NO_PIPELINE_STAGE]
      BY <1>3 DEF AbortMainFrame, PostToImpl
    <2> HIDE DEF t
    <2>3. /\ main' \in MainState
          /\ main'.current_pipeline_stage = NO_PIPELINE_STAGE
          /\ main'.max_requested_pipeline_stage = main.max_requested_pipeline_stage
          /\ main'.defer_commits = main.defer_commits
          /\ main'.visible = main.visible
          /\ main'.output_surface = main.output_surface
          /\ main'.waits_for = main.waits_for
      BY <1>2, <2>2 DEF ProxyInv, ProxyTypeOK, MainState
    <2> QED BY <1>1, <2>1, <2>2, <2>3, MainFrameCancelledKeeps
  <1>4. CASE /\ main' = [main EXCEPT !.current_pipeline_stage = COMMIT_PIPELINE_STAGE,
                                     !.waits_for = "commit"]
             /\ PostToImpl(<<"StartCommit">>)
    <2>1. /\ main' \in MainState
          /\ main'.current_pipeline_stage = COMMIT_PIPELINE_STAGE
          /\ main'.max_requested_pipeline_stage = main.max_requested_pipeline_stage
          /\ main'.defer_commits = main.defer_commits
          /\ main'.visible = main.visible
          /\ main'.output_surface = main.output_surface
          /\ main'.waits_for = "commit"
      BY <1>2, <1>4 DEF ProxyInv, ProxyTypeOK, MainState
    <2> QED BY <1>1, <1>4, <2>1, MainFrameCommitsKeeps DEF PostToImpl
  <1> QED BY <1>1, <1>3, <1>4

LEMMA RequestNewOutputSurfaceKeeps ==
  ASSUME ProxyInv, sm \in S!State, RequestNewOutputSurface
  PROVE  ProxyInv'
  <1> DEFINE t == <<"RequestNewOutputSurface">>
  <1>1. MainTakes(t) /\ UNCHANGED <<scheduler, impl, uncommitted>>
    BY DEF RequestNewOutputSurface
  <1>2. main.waits_for = "nothing" /\ main.current_pipeline_stage = NO_PIPELINE_STAGE
    BY <1>1 DEF MainTakes, MainIdle, MainRuns
  <1>3. t[1] = "RequestNewOutputSurface" /\ t # <<"BeginMainFrame">>
        /\ t # <<"DidInitializeOutputSurface", FALSE>>
    OBVIOUS
  <1>4. main_tasks' \in Seq(MainTask) /\ Takes(main_tasks, t, main_tasks')
    BY <1>1, MainTook DEF ProxyInv
  <1>5. AnswersFirst(main_tasks')
    BY <1>1, AnswersFirstKept
       DEF ProxyInv, ProxyTypeOK, OutputSurfaceIsSomewhere, MainTakes, MainTask
  <1>6. main' = [main EXCEPT !.output_surface = "requested"] /\ UNCHANGED impl_tasks
    BY DEF RequestNewOutputSurface
  <1>7. ~Waiting(main_tasks, {"DidInitializeOutputSurface"})
    BY <1>1, <1>3, AnswersFirstKept
       DEF ProxyInv, ProxyTypeOK, OutputSurfaceIsSomewhere, MainTakes, MainTask
  <1>8. Posted(main_tasks', <<"DidInitializeOutputSurface", FALSE>>)
          => Waiting(main_tasks, {"DidInitializeOutputSurface"})
    BY <1>4, Places DEF ProxyInv, Takes
  <1> HIDE DEF t
  <1>9. ProxyTypeOK'
    BY <1>1, <1>3, <1>4, <1>5, <1>6
       DEF ProxyInv, ProxyTypeOK, MainState, scheduler, Takes
  <1>10. MainFrameIsSomewhere'
    BY <1>1, <1>3, <1>4, <1>5, <1>6
       DEF ProxyInv, MainFrameIsSomewhere, ProxyTypeOK, MainState, scheduler, Takes
  <1>11. OutputSurfaceIsSomewhere'
    BY <1>1, <1>3, <1>4, <1>5, <1>6, <1>7, <1>8
       DEF ProxyInv, OutputSurfaceIsSomewhere, ProxyTypeOK, MainState, scheduler, Takes
  <1>12. MainThreadWaits'
    BY <1>1, <1>3, <1>4, <1>5, <1>6
       DEF ProxyInv, MainThreadWaits, ProxyTypeOK, MainState, scheduler, Takes
  <1>13. VisibilityIsTold'
    BY <1>1, <1>3, <1>4, <1>5, <1>6
       DEF ProxyInv, VisibilityIsTold, ProxyTypeOK, MainState, scheduler, Takes
  <1>14. DeferralIsTold'
    BY <1>1, <1>3, <1>4, <1>5, <1>6
       DEF ProxyInv, DeferralIsTold, ProxyTypeOK, MainState, scheduler, Takes
  <1>15. EventWillBeSignaled'
    BY <1>1, <1>3, <1>4, <1>5, <1>6
       DEF ProxyInv, EventWillBeSignaled, ProxyTypeOK, MainState, scheduler, Takes
  <1>16. RequestsTravel'
    BY <1>1, <1>3, <1>4, <1>5, <1>6
       DEF ProxyInv, RequestsTravel, ProxyTypeOK, MainState, scheduler, Takes
  <1> QED BY <1>9, <1>10, <1>11, <1>12, <1>13, <1>14, <1>15, <1>16 DEF ProxyInv

\* DidInitializeOutputSurface, with either answer.
LEMMA OutputSurfaceAnswerKeeps ==
  ASSUME ProxyInv, sm \in S!State, NEW t, MainTakes(t),
         t[1] = "DidInitializeOutputSurface",
         NEW surface \in {"initialized", "requested"},
         surface = "requested" <=> t = <<"DidInitializeOutputSurface", FALSE>>,
         main' = [main EXCEPT !.output_surface = surface],
         UNCHANGED <<scheduler, impl, impl_tasks, uncommitted>>
  PROVE  ProxyInv'
  <1>1. t # <<"BeginMainFrame">>
    OBVIOUS
  <1>2. main_tasks' \in Seq(MainTask) /\ Takes(main_tasks, t, main_tasks')
    BY MainTook DEF ProxyInv
  <1>3. AnswersFirst(main_tasks')
    BY AnswersFirstKept
       DEF ProxyInv, ProxyTypeOK, OutputSurfaceIsSomewhere, MainTakes, MainTask
  <1>4. Posted(main_tasks', <<"DidInitializeOutputSurface", FALSE>>)
          => Waiting(main_tasks', {"DidInitializeOutputSurface"})
    BY DEF Waiting, Posted
  <1>5. /\ Waiting(main_tasks, {"DidInitializeOutputSurface"})
        /\ ~Waiting(main_tasks', {"DidInitializeOutputSurface"})
    BY <1>1, <1>2 DEF ProxyInv, OutputSurfaceIsSomewhere, Takes
  <1>6. ProxyTypeOK'
    BY <1>1, <1>2, <1>3 DEF ProxyInv, ProxyTypeOK, MainState, scheduler, Takes
  <1>7. MainFrameIsSomewhere'
    BY <1>1, <1>2, <1>3
       DEF ProxyInv, MainFrameIsSomewhere, ProxyTypeOK, MainState, scheduler, Takes
  <1>8. OutputSurfaceIsSomewhere'
    BY <1>1, <1>2, <1>3, <1>5, <1>4
       DEF ProxyInv, OutputSurfaceIsSomewhere, ProxyTypeOK, MainState, scheduler, Takes
  <1>9. MainThreadWaits'
    BY <1>1, <1>2, <1>3
       DEF ProxyInv, MainThreadWaits, ProxyTypeOK, MainState, scheduler, Takes
  <1>10. VisibilityIsTold'
    BY <1>1, <1>2, <1>3
       DEF ProxyInv, VisibilityIsTold, ProxyTypeOK, MainState, scheduler, Takes
  <1>11. DeferralIsTold'
    BY <1>1, <1>2, <1>3
       DEF ProxyInv, DeferralIsTold, ProxyTypeOK, MainState, scheduler, Takes
  <1>12. EventWillBeSignaled'
    BY <1>1, <1>2, <1>3
       DEF ProxyInv, EventWillBeSignaled, ProxyTypeOK, MainState, scheduler, Takes
  <1>13. RequestsTravel'
    BY <1>1, <1>2, <1>3
       DEF ProxyInv, RequestsTravel, ProxyTypeOK, MainState, scheduler, Takes
  <1> QED BY <1>6, <1>7, <1>8, <1>9, <1>10, <1>11, <1>12, <1>13 DEF ProxyInv

LEMMA DidInitializeOutputSurfaceKeeps ==
  ASSUME ProxyInv, sm \in S!State, DidInitializeOutputSurface
  PROVE  ProxyInv'
  <1>1. PICK success \in BOOLEAN :
          /\ MainTakes(<<"DidInitializeOutputSurface", success>>)
          /\ main' = [main EXCEPT !.output_surface =
                        IF success THEN "initialized" ELSE "requested"]
          /\ UNCHANGED <<scheduler, impl, impl_tasks, uncommitted>>
    BY DEF DidInitializeOutputSurface
  <1>2. CASE success
    <2>1. <<"DidInitializeOutputSurface", success>> # <<"DidInitializeOutputSurface", FALSE>>
      BY <1>2
    <2>2. main' = [main EXCEPT !.output_surface = "initialized"]
      BY <1>1, <1>2
    <2> QED BY <1>1, <2>1, <2>2, OutputSurfaceAnswerKeeps
  <1>3. CASE ~success
    <2>1. <<"DidInitializeOutputSurface", success>> = <<"DidInitializeOutputSurface", FALSE>>
      BY <1>3
    <2>2. main' = [main EXCEPT !.output_surface = "requested"]
      BY <1>1, <1>3
    <2> QED BY <1>1, <2>1, <2>2, OutputSurfaceAnswerKeeps
  <1> QED BY <1>2, <1>3

LEMMA DidLoseOutputSurfaceOnMainThreadKeeps ==
  ASSUME ProxyInv, sm \in S!State, DidLoseOutputSurfaceOnMainThread
  PROVE  ProxyInv'
  <1> DEFINE t == <<"DidLoseOutputSurface">>
  <1>1. MainTakes(t) /\ UNCHANGED <<scheduler, impl>> /\ uncommitted' \in BOOLEAN
    BY DEF DidLoseOutputSurfaceOnMainThread, ProxyInv, ProxyTypeOK
  <1>2. t[1] = "DidLoseOutputSurface" /\ t # <<"BeginMainFrame">>
        /\ t # <<"DidInitializeOutputSurface", FALSE>>
    OBVIOUS
  <1>3. main_tasks' \in Seq(MainTask) /\ Takes(main_tasks, t, main_tasks')
    BY <1>1, MainTook DEF ProxyInv
  <1>4. AnswersFirst(main_tasks')
    BY <1>1, AnswersFirstKept
       DEF ProxyInv, ProxyTypeOK, OutputSurfaceIsSomewhere, MainTakes, MainTask
  <1>5. /\ main' \in MainState
        /\ main'.current_pipeline_stage = main.current_pipeline_stage
        /\ main'.defer_commits = main.defer_commits
        /\ main'.visible = main.visible
        /\ main'.output_surface = (IF main.output_surface = "initialized"
                                     THEN "lost" ELSE main.output_surface)
        /\ main'.waits_for = main.waits_for
        /\ \/ /\ impl_tasks' = impl_tasks
              /\ main'.max_requested_pipeline_stage # NO_PIPELINE_STAGE
                   => main.max_requested_pipeline_stage # NO_PIPELINE_STAGE
           \/ impl_tasks' = Append(impl_tasks, <<"SetNeedsCommit">>)
    <2>1. CASE main.output_surface # "initialized"
      BY <2>1 DEF DidLoseOutputSurfaceOnMainThread, ProxyInv, ProxyTypeOK
    <2>2. CASE main.output_surface = "initialized"
      <3> DEFINE m == [main EXCEPT !.output_surface = "lost"]
      <3>1. /\ m \in MainState
            /\ m.max_requested_pipeline_stage = main.max_requested_pipeline_stage
            /\ m.current_pipeline_stage = main.current_pipeline_stage
            /\ m.defer_commits = main.defer_commits /\ m.visible = main.visible
            /\ m.output_surface = "lost" /\ m.waits_for = main.waits_for
        BY DEF ProxyInv, ProxyTypeOK, MainState
      <3>2. RequestStage(m, COMMIT_PIPELINE_STAGE)
        BY <2>2 DEF DidLoseOutputSurfaceOnMainThread
      <3>3. COMMIT_PIPELINE_STAGE \in CommitPipelineStage \ {NO_PIPELINE_STAGE}
        BY DEF CommitPipelineStage, NO_PIPELINE_STAGE, COMMIT_PIPELINE_STAGE
      <3> HIDE DEF m
      <3> QED BY <2>2, <3>1, <3>2, <3>3, RequestEffect DEF ProxyInv
    <2> QED BY <2>1, <2>2
  <1>6. /\ impl_tasks' \in Seq(ImplTask)
        /\ RequestMayBePosted(impl_tasks, impl_tasks')
        /\ DeferralLeads(impl_tasks', sm.defer_commits, main.defer_commits)
        /\ main'.max_requested_pipeline_stage # NO_PIPELINE_STAGE =>
             \/ main.max_requested_pipeline_stage # NO_PIPELINE_STAGE
             \/ Posted(impl_tasks', <<"SetNeedsCommit">>)
    BY <1>5, RequestKeepsQueue
  <1>7. /\ <<"StartCommit">> # <<"SetNeedsCommit">>
        /\ <<"BeginMainFrameAborted", "ABORTED_DEFERRED_COMMIT">> # <<"SetNeedsCommit">>
    OBVIOUS
  <1> HIDE DEF t
  <1>8. ProxyTypeOK'
    BY <1>1, <1>2, <1>3, <1>4, <1>5, <1>6, <1>7
       DEF ProxyInv, ProxyTypeOK, MainState, scheduler, RequestMayBePosted, Takes
  <1>9. MainFrameIsSomewhere'
    BY <1>1, <1>2, <1>3, <1>4, <1>5, <1>6, <1>7
       DEF ProxyInv, MainFrameIsSomewhere, ProxyTypeOK, MainState, scheduler,
           RequestMayBePosted, Takes
  <1>10. OutputSurfaceIsSomewhere'
    BY <1>1, <1>2, <1>3, <1>4, <1>5, <1>6, <1>7
       DEF ProxyInv, OutputSurfaceIsSomewhere, ProxyTypeOK, MainState, scheduler,
           RequestMayBePosted, Takes
  <1>11. MainThreadWaits'
    BY <1>1, <1>2, <1>3, <1>4, <1>5, <1>6, <1>7
       DEF ProxyInv, MainThreadWaits, ProxyTypeOK, MainState, scheduler,
           RequestMayBePosted, Takes
  <1>12. VisibilityIsTold'
    BY <1>1, <1>2, <1>3, <1>4, <1>5, <1>6, <1>7
       DEF ProxyInv, VisibilityIsTold, ProxyTypeOK, MainState, scheduler,
           RequestMayBePosted, Takes
  <1>13. DeferralIsTold'
    BY <1>1, <1>2, <1>3, <1>4, <1>5, <1>6, <1>7
       DEF ProxyInv, DeferralIsTold, ProxyTypeOK, MainState, scheduler,
           RequestMayBePosted, Takes
  <1>14. EventWillBeSignaled'
    BY <1>1, <1>2, <1>3, <1>4, <1>5, <1>6, <1>7
       DEF ProxyInv, EventWillBeSignaled, ProxyTypeOK, MainState, scheduler,
           RequestMayBePosted, Takes
  <1>15. RequestsTravel'
    BY <1>1, <1>2, <1>3, <1>4, <1>5, <1>6, <1>7
       DEF ProxyInv, RequestsTravel, ProxyTypeOK, MainState, scheduler,
           RequestMayBePosted, Takes
  <1> QED BY <1>8, <1>9, <1>10, <1>11, <1>12, <1>13, <1>14, <1>15 DEF ProxyInv

-----------------------------------------------------------------------------
(* The impl thread: the tasks that the main thread posted.                 *)

LEMMA SetNeedsCommitOnImplThreadKeeps ==
  ASSUME ProxyInv, sm \in S!State, SetNeedsCommitOnImplThread
  PROVE  ProxyInv'
  <1> DEFINE t == <<"SetNeedsCommit">>
  <1>1. /\ ImplTakes(t)
        /\ S!Task([sm EXCEPT !.needs_begin_main_frame = TRUE])
        /\ UNCHANGED <<main, impl, main_tasks, uncommitted>>
    BY DEF SetNeedsCommitOnImplThread
  <1>2. /\ t[1] = "SetNeedsCommit"
        /\ t # <<"StartCommit">>
        /\ t # <<"BeginMainFrameAborted", "ABORTED_DEFERRED_COMMIT">>
    OBVIOUS
  <1> HIDE DEF t
  <1>3. /\ impl_tasks' \in Seq(ImplTask) /\ t \in ImplTask
        /\ Takes(impl_tasks, t, impl_tasks')
    BY <1>1, <1>2, ImplTook DEF ProxyInv
  <1>4. DeferralLeads(impl_tasks', sm.defer_commits, main.defer_commits)
    BY <1>1, <1>2, DeferralIsTaken
  <1>5. /\ sm'.visible = sm.visible
        /\ sm'.defer_commits = sm.defer_commits
        /\ sm'.needs_begin_main_frame = TRUE
        /\ sm'.output_surface_state = sm.output_surface_state
        /\ sm'.begin_main_frame_state = sm.begin_main_frame_state
        /\ sm'.has_pending_tree = sm.has_pending_tree
    BY <1>1 DEF S!Task, S!State
  <1>6. resume' = "return" /\ ~impl.completion /\ UNCHANGED inside_action
    BY <1>1 DEF S!Task, S!TaskStarts, ProxyInv, MainThreadWaits
  <1>7. ProxyTypeOK'
    BY <1>1, <1>2, <1>3, <1>5, <1>6 DEF ProxyInv, ProxyTypeOK, MainState, Takes
  <1>8. MainFrameIsSomewhere'
    BY <1>1, <1>2, <1>3, <1>5, <1>6
       DEF ProxyInv, MainFrameIsSomewhere, ProxyTypeOK, MainState, Takes
  <1>9. OutputSurfaceIsSomewhere'
    BY <1>1, <1>2, <1>3, <1>5, <1>6
       DEF ProxyInv, OutputSurfaceIsSomewhere, ProxyTypeOK, MainState, Takes
  <1>10. MainThreadWaits'
    BY <1>1, <1>2, <1>3, <1>5, <1>6
       DEF ProxyInv, MainThreadWaits, ProxyTypeOK, MainState, Takes
  <1>11. VisibilityIsTold'
    BY <1>1, <1>2, <1>3, <1>5, <1>6
       DEF ProxyInv, VisibilityIsTold, ProxyTypeOK, MainState, Takes
  <1>12. DeferralIsTold'
    BY <1>1, <1>2, <1>3, <1>5, <1>6, <1>4
       DEF ProxyInv, DeferralIsTold, ProxyTypeOK, MainState, Takes
  <1>13. EventWillBeSignaled'
    BY <1>1, <1>2, <1>3, <1>5, <1>6
       DEF ProxyInv, EventWillBeSignaled, ProxyTypeOK, MainState, Takes
  <1>14. RequestsTravel'
    BY <1>1, <1>2, <1>3, <1>5, <1>6
       DEF ProxyInv, RequestsTravel, ProxyTypeOK, MainState, Takes
  <1> QED BY <1>7, <1>8, <1>9, <1>10, <1>11, <1>12, <1>13, <1>14 DEF ProxyInv

LEMMA SetDeferCommitsOnImplThreadKeeps ==
  ASSUME ProxyInv, sm \in S!State, SetDeferCommitsOnImplThread
  PROVE  ProxyInv'
  <1>1. PICK d \in BOOLEAN :
           /\ ImplTakes(<<"SetDeferCommits", d>>)
           /\ S!Task([sm EXCEPT !.defer_commits = d])
           /\ UNCHANGED <<main, impl, main_tasks, uncommitted>>
    BY DEF SetDeferCommitsOnImplThread
  <1> DEFINE t == <<"SetDeferCommits", d>>
  <1>2. /\ t[1] = "SetDeferCommits"
        /\ t # <<"StartCommit">>
        /\ t # <<"SetNeedsCommit">>
        /\ t # <<"BeginMainFrameAborted", "ABORTED_DEFERRED_COMMIT">>
        /\ ImplTakes(t)
    BY <1>1
  <1>3. t = <<"SetDeferCommits", ~sm.defer_commits>> => d = ~sm.defer_commits
    OBVIOUS
  <1> HIDE DEF t
  <1>4. /\ impl_tasks' \in Seq(ImplTask) /\ t \in ImplTask
        /\ Takes(impl_tasks, t, impl_tasks')
    BY <1>2, ImplTook DEF ProxyInv
  <1>5. /\ d = ~sm.defer_commits
        /\ DeferralLeads(impl_tasks', ~sm.defer_commits, main.defer_commits)
    BY <1>2, <1>3, DeferralIsTaken
  <1>6. UNCHANGED <<main, impl, main_tasks, uncommitted>>
    BY <1>1
  <1>7. /\ sm'.visible = sm.visible
        /\ sm'.defer_commits = d
        /\ sm'.needs_begin_main_frame = sm.needs_begin_main_frame
        /\ sm'.output_surface_state = sm.output_surface_state
        /\ sm'.begin_main_frame_state = sm.begin_main_frame_state
        /\ sm'.has_pending_tree = sm.has_pending_tree
    BY <1>1 DEF S!Task, S!State
  <1>8. resume' = "return" /\ ~impl.completion /\ UNCHANGED inside_action
    BY <1>1 DEF S!Task, S!TaskStarts, ProxyInv, MainThreadWaits
  <1>9. ProxyTypeOK'
    BY <1>6, <1>2, <1>4, <1>8, <1>7 DEF ProxyInv, ProxyTypeOK, MainState, Takes
  <1>10. MainFrameIsSomewhere'
    BY <1>6, <1>2, <1>4, <1>8, <1>7
       DEF ProxyInv, MainFrameIsSomewhere, ProxyTypeOK, MainState, Takes
  <1>11. OutputSurfaceIsSomewhere'
    BY <1>6, <1>2, <1>4, <1>8, <1>7
       DEF ProxyInv, OutputSurfaceIsSomewhere, ProxyTypeOK, MainState, Takes
  <1>12. MainThreadWaits'
    BY <1>6, <1>2, <1>4, <1>8, <1>7
       DEF ProxyInv, MainThreadWaits, ProxyTypeOK, MainState, Takes
  <1>13. VisibilityIsTold'
    BY <1>6, <1>2, <1>4, <1>8, <1>7
       DEF ProxyInv, VisibilityIsTold, ProxyTypeOK, MainState, Takes
  <1>14. DeferralIsTold'
    BY <1>6, <1>2, <1>4, <1>8, <1>7, <1>5
       DEF ProxyInv, DeferralIsTold, ProxyTypeOK, MainState, Takes
  <1>15. EventWillBeSignaled'
    BY <1>6, <1>2, <1>4, <1>8, <1>7
       DEF ProxyInv, EventWillBeSignaled, ProxyTypeOK, MainState, Takes
  <1>16. RequestsTravel'
    BY <1>6, <1>2, <1>4, <1>8, <1>7
       DEF ProxyInv, RequestsTravel, ProxyTypeOK, MainState, Takes
  <1> QED BY <1>9, <1>10, <1>11, <1>12, <1>13, <1>14, <1>15, <1>16 DEF ProxyInv

LEMMA SetVisibleOnImplThreadKeeps ==
  ASSUME ProxyInv, sm \in S!State, SetVisibleOnImplThread
  PROVE  ProxyInv'
  <1>1. PICK visible \in BOOLEAN, evicted \in BOOLEAN :
           /\ ImplTakes(<<"SetVisible", visible>>)
           /\ S!Task(SetVisible(IF evicted THEN DidPrepareTiles(sm) ELSE sm, visible))
           /\ impl' = [impl EXCEPT !.completion = TRUE]
           /\ UNCHANGED <<main, main_tasks, uncommitted>>
    BY DEF SetVisibleOnImplThread
  <1> DEFINE t == <<"SetVisible", visible>>
  <1>2. /\ t[1] = "SetVisible"
        /\ t # <<"StartCommit">>
        /\ t # <<"SetNeedsCommit">>
        /\ t # <<"BeginMainFrameAborted", "ABORTED_DEFERRED_COMMIT">>
        /\ ImplTakes(t)
    BY <1>1
  <1>3. t = <<"SetVisible", main.visible>> => visible = main.visible
    OBVIOUS
  <1> HIDE DEF t
  <1>4. /\ impl_tasks' \in Seq(ImplTask) /\ t \in ImplTask
        /\ Takes(impl_tasks, t, impl_tasks')
    BY <1>2, ImplTook DEF ProxyInv
  <1>5. DeferralLeads(impl_tasks', sm.defer_commits, main.defer_commits)
    BY <1>2, DeferralIsTaken
  <1>6. /\ impl' = [impl EXCEPT !.completion = TRUE]
        /\ UNCHANGED <<main, main_tasks, uncommitted>>
    BY <1>1
  <1>7. /\ sm'.visible = visible
        /\ sm'.defer_commits = sm.defer_commits
        /\ sm'.needs_begin_main_frame = sm.needs_begin_main_frame
        /\ sm'.output_surface_state = sm.output_surface_state
        /\ sm'.begin_main_frame_state = sm.begin_main_frame_state
        /\ sm'.has_pending_tree = sm.has_pending_tree
    BY <1>1 DEF S!Task, S!State, SetVisible, DidPrepareTiles
  <1>8. resume' = "return" /\ ~impl.completion /\ UNCHANGED inside_action
    BY <1>1 DEF S!Task, S!TaskStarts, ProxyInv, MainThreadWaits
  <1>9. /\ ~Waiting(impl_tasks', {"SetVisible", "ReleaseOutputSurface"})
        /\ main.waits_for = "task"
    BY <1>2, <1>4 DEF ProxyInv, MainThreadWaits, Takes
  <1>10. ~Waiting(impl_tasks', {"SetVisible"})
    BY <1>9, WaitingAmongMore
  <1>11. visible = main.visible
    <2> DEFINE told == <<"SetVisible", main.visible>>
    <2>1. Posted(impl_tasks, told)
      BY <1>2, <1>4 DEF ProxyInv, VisibilityIsTold, Takes
    <2>2. ~Posted(impl_tasks', told)
      BY <1>10 DEF Posted, Waiting
    <2>3. t = told
      BY <1>4, <2>1, <2>2 DEF Takes
    <2> QED BY <1>3, <2>3
  <1>12. ProxyTypeOK'
    BY <1>6, <1>2, <1>4, <1>8, <1>7 DEF ProxyInv, ProxyTypeOK, MainState, Takes
  <1>13. MainFrameIsSomewhere'
    BY <1>6, <1>2, <1>4, <1>8, <1>7
       DEF ProxyInv, MainFrameIsSomewhere, ProxyTypeOK, MainState, Takes
  <1>14. OutputSurfaceIsSomewhere'
    BY <1>6, <1>2, <1>4, <1>8, <1>7
       DEF ProxyInv, OutputSurfaceIsSomewhere, ProxyTypeOK, MainState, Takes
  <1>15. MainThreadWaits'
    BY <1>6, <1>2, <1>4, <1>8, <1>7, <1>9
       DEF ProxyInv, MainThreadWaits, ProxyTypeOK, MainState, Takes
  <1>16. VisibilityIsTold'
    BY <1>6, <1>2, <1>4, <1>8, <1>7, <1>10, <1>11
       DEF ProxyInv, VisibilityIsTold, ProxyTypeOK, MainState, Takes
  <1>17. DeferralIsTold'
    BY <1>6, <1>2, <1>4, <1>8, <1>7, <1>5
       DEF ProxyInv, DeferralIsTold, ProxyTypeOK, MainState, Takes
  <1>18. EventWillBeSignaled'
    BY <1>6, <1>2, <1>4, <1>8, <1>7
       DEF ProxyInv, EventWillBeSignaled, ProxyTypeOK, MainState, Takes
  <1>19. RequestsTravel'
    BY <1>6, <1>2, <1>4, <1>8, <1>7
       DEF ProxyInv, RequestsTravel, ProxyTypeOK, MainState, Takes
  <1> QED BY <1>12, <1>13, <1>14, <1>15, <1>16, <1>17, <1>18, <1>19 DEF ProxyInv

LEMMA ReleaseOutputSurfaceOnImplThreadKeeps ==
  ASSUME ProxyInv, sm \in S!State, ReleaseOutputSurfaceOnImplThread
  PROVE  ProxyInv'
  <1> DEFINE t == <<"ReleaseOutputSurface">>
  <1>1. /\ ImplTakes(t)
        /\ S!TaskStarts /\ S!CallDidLoseOutputSurface
        /\ impl' = [impl EXCEPT !.completion = TRUE]
        /\ UNCHANGED <<main, main_tasks, uncommitted>>
    BY DEF ReleaseOutputSurfaceOnImplThread
  <1>2. /\ t[1] = "ReleaseOutputSurface"
        /\ t # <<"StartCommit">>
        /\ t # <<"SetNeedsCommit">>
        /\ t # <<"BeginMainFrameAborted", "ABORTED_DEFERRED_COMMIT">>
    OBVIOUS
  <1> HIDE DEF t
  <1>3. /\ impl_tasks' \in Seq(ImplTask) /\ t \in ImplTask
        /\ Takes(impl_tasks, t, impl_tasks')
    BY <1>1, <1>2, ImplTook DEF ProxyInv
  <1>4. DeferralLeads(impl_tasks', sm.defer_commits, main.defer_commits)
    BY <1>1, <1>2, DeferralIsTaken
  <1>5. Alike(sm, sm') /\ KeepsTree(sm, sm')
    BY <1>1, OperationsAreAlike DEF S!CallDidLoseOutputSurface
  <1>6. resume' = "return" /\ ~impl.completion /\ UNCHANGED inside_action
    BY <1>1
       DEF S!CallDidLoseOutputSurface, S!TaskStarts, S!ProcessIfOutside, ProxyInv,
           MainThreadWaits
  <1>7. /\ ~Waiting(impl_tasks', {"SetVisible", "ReleaseOutputSurface"})
        /\ main.waits_for = "task"
    BY <1>2, <1>3 DEF ProxyInv, MainThreadWaits, Takes
  <1>8. ProxyTypeOK'
    BY <1>1, <1>2, <1>3, <1>5, <1>6 DEF ProxyInv, ProxyTypeOK, MainState, Takes, Alike
  <1>9. MainFrameIsSomewhere'
    BY <1>1, <1>2, <1>3, <1>5, <1>6
       DEF ProxyInv, MainFrameIsSomewhere, ProxyTypeOK, MainState, Takes, Alike
  <1>10. OutputSurfaceIsSomewhere'
    BY <1>1, <1>2, <1>3, <1>5, <1>6
       DEF ProxyInv, OutputSurfaceIsSomewhere, ProxyTypeOK, MainState, Takes, Alike
  <1>11. MainThreadWaits'
    BY <1>1, <1>2, <1>3, <1>5, <1>6, <1>7
       DEF ProxyInv, MainThreadWaits, ProxyTypeOK, MainState, Takes, Alike
  <1>12. VisibilityIsTold'
    BY <1>1, <1>2, <1>3, <1>5, <1>6
       DEF ProxyInv, VisibilityIsTold, ProxyTypeOK, MainState, Takes, Alike
  <1>13. DeferralIsTold'
    BY <1>1, <1>2, <1>3, <1>5, <1>6, <1>4
       DEF ProxyInv, DeferralIsTold, ProxyTypeOK, MainState, Takes, Alike
  <1>14. EventWillBeSignaled'
    BY <1>1, <1>2, <1>3, <1>5, <1>6
       DEF ProxyInv, EventWillBeSignaled, ProxyTypeOK, MainState, Takes, Alike,
           KeepsTree
  <1>15. RequestsTravel'
    BY <1>1, <1>2, <1>3, <1>5, <1>6
       DEF ProxyInv, RequestsTravel, ProxyTypeOK, MainState, Takes, Alike
  <1> QED BY <1>8, <1>9, <1>10, <1>11, <1>12, <1>13, <1>14, <1>15 DEF ProxyInv

LEMMA OutputSurfaceInitializedKeeps ==
  ASSUME ProxyInv, sm \in S!State, ImplTakes(<<"InitializeOutputSurface">>),
         S!TaskStarts,
         NEW success \in BOOLEAN,
         main_tasks' = Append(main_tasks, <<"DidInitializeOutputSurface", success>>),
         \/ /\ success
            /\ \E max \in MaxPendingSwaps :
                 S!Task(DidCreateAndInitializeOutputSurface(
                          [sm EXCEPT !.max_pending_swaps = max]))
         \/ ~success /\ UNCHANGED scheduler,
         UNCHANGED <<main, impl, uncommitted>>
  PROVE  ProxyInv'
  <1> DEFINE t == <<"InitializeOutputSurface">>
  <1> DEFINE answer == <<"DidInitializeOutputSurface", success>>
  <1>1. /\ t[1] = "InitializeOutputSurface"
        /\ t # <<"StartCommit">>
        /\ t # <<"SetNeedsCommit">>
        /\ t # <<"BeginMainFrameAborted", "ABORTED_DEFERRED_COMMIT">>
        /\ ImplTakes(t)
    OBVIOUS
  <1>2. /\ answer[1] = "DidInitializeOutputSurface" /\ answer # <<"BeginMainFrame">>
        /\ success \/ answer = <<"DidInitializeOutputSurface", FALSE>>
        /\ success => answer # <<"DidInitializeOutputSurface", FALSE>>
    OBVIOUS
  <1>3. answer \in MainTask /\ main_tasks' = Append(main_tasks, answer)
    BY DEF MainTask
  <1> HIDE DEF t, answer
  <1>4. /\ impl_tasks' \in Seq(ImplTask) /\ t \in ImplTask
        /\ Takes(impl_tasks, t, impl_tasks')
    BY <1>1, ImplTook DEF ProxyInv
  <1>5. DeferralLeads(impl_tasks', sm.defer_commits, main.defer_commits)
    BY <1>1, DeferralIsTaken
  <1>6. main_tasks' \in Seq(MainTask) /\ Posts(main_tasks, answer, main_tasks')
    BY <1>3, MainPosts DEF ProxyInv
  <1>7. /\ sm.output_surface_state = "CREATING"
        /\ main.output_surface = "given"
        /\ ~Waiting(main_tasks, {"RequestNewOutputSurface"})
        /\ ~Waiting(main_tasks, {"DidInitializeOutputSurface"})
        /\ ~Posted(main_tasks, <<"DidInitializeOutputSurface", FALSE>>)
        /\ ~Waiting(impl_tasks', {"InitializeOutputSurface"})
    BY <1>1, <1>4, Places DEF ProxyInv, OutputSurfaceIsSomewhere, Takes
  <1>8. AnswersFirst(main_tasks')
    BY <1>3, <1>7, AnswersFirstKept DEF ProxyInv, ProxyTypeOK, OutputSurfaceIsSomewhere
  <1>9. /\ sm'.visible = sm.visible
        /\ sm'.defer_commits = sm.defer_commits
        /\ sm.needs_begin_main_frame => sm'.needs_begin_main_frame
        /\ sm'.output_surface_state = "CREATING" <=> ~success
        /\ sm'.begin_main_frame_state = sm.begin_main_frame_state
        /\ sm'.has_pending_tree = sm.has_pending_tree
        /\ UNCHANGED inside_action
    <2>1. CASE ~success
      BY <2>1, <1>7 DEF scheduler
    <2>2. CASE success
      <3>1. PICK max \in MaxPendingSwaps :
              S!Task(DidCreateAndInitializeOutputSurface([sm EXCEPT !.max_pending_swaps = max]))
        BY <2>2
      <3> DEFINE s == [sm EXCEPT !.max_pending_swaps = max]
      <3>2. /\ s.visible = sm.visible
            /\ s.defer_commits = sm.defer_commits
            /\ s.needs_begin_main_frame = sm.needs_begin_main_frame
            /\ s.begin_main_frame_state = sm.begin_main_frame_state
            /\ s.has_pending_tree = sm.has_pending_tree
            /\ s \in S!State
        BY ThreadProxyAssumption DEF S!State
      <3>3. /\ sm' = DidCreateAndInitializeOutputSurface(s)
            /\ UNCHANGED inside_action
        BY <3>1 DEF S!Task
      <3> HIDE DEF s
      <3> QED BY <2>2, <3>2, <3>3 DEF S!State, DidCreateAndInitializeOutputSurface
    <2> QED BY <2>1, <2>2
  <1>10. ~impl.completion
    BY DEF S!TaskStarts, ProxyInv, MainThreadWaits
  <1>11. ProxyTypeOK'
    BY <1>1, <1>2, <1>4, <1>6, <1>9, <1>10
       DEF ProxyInv, ProxyTypeOK, MainState, Takes, Posts
  <1>12. MainFrameIsSomewhere'
    BY <1>1, <1>2, <1>4, <1>6, <1>9, <1>10
       DEF ProxyInv, MainFrameIsSomewhere, ProxyTypeOK, MainState, Takes, Posts
  <1>13. OutputSurfaceIsSomewhere'
    BY <1>1, <1>2, <1>4, <1>6, <1>9, <1>10, <1>7, <1>8
       DEF ProxyInv, OutputSurfaceIsSomewhere, ProxyTypeOK, MainState, Takes, Posts
  <1>14. MainThreadWaits'
    BY <1>1, <1>2, <1>4, <1>6, <1>9, <1>10
       DEF ProxyInv, MainThreadWaits, ProxyTypeOK, MainState, Takes, Posts
  <1>15. VisibilityIsTold'
    BY <1>1, <1>2, <1>4, <1>6, <1>9, <1>10
       DEF ProxyInv, VisibilityIsTold, ProxyTypeOK, MainState, Takes, Posts
  <1>16. DeferralIsTold'
    BY <1>1, <1>2, <1>4, <1>6, <1>9, <1>10, <1>5
       DEF ProxyInv, DeferralIsTold, ProxyTypeOK, MainState, Takes, Posts
  <1>17. EventWillBeSignaled'
    BY <1>1, <1>2, <1>4, <1>6, <1>9, <1>10
       DEF ProxyInv, EventWillBeSignaled, ProxyTypeOK, MainState, Takes, Posts
  <1>18. RequestsTravel'
    BY <1>1, <1>2, <1>4, <1>6, <1>9, <1>10
       DEF ProxyInv, RequestsTravel, ProxyTypeOK, MainState, Takes, Posts
  <1> QED BY <1>11, <1>12, <1>13, <1>14, <1>15, <1>16, <1>17, <1>18 DEF ProxyInv

LEMMA InitializeOutputSurfaceOnImplThreadKeeps ==
  ASSUME ProxyInv, sm \in S!State, InitializeOutputSurfaceOnImplThread
  PROVE  ProxyInv'
  BY OutputSurfaceInitializedKeeps DEF InitializeOutputSurfaceOnImplThread

LEMMA StartCommitOnImplThreadKeeps ==
  ASSUME ProxyInv, sm \in S!State, StartCommitOnImplThread
  PROVE  ProxyInv'
  <1> DEFINE t == <<"StartCommit">>
  <1>1. /\ ImplTakes(t)
        /\ S!Task(NotifyReadyToCommit(NotifyBeginMainFrameStarted(sm)))
        /\ impl' = [impl EXCEPT !.commit_completion_event = TRUE]
        /\ UNCHANGED <<main, main_tasks, uncommitted>>
    BY DEF StartCommitOnImplThread
  <1>2. /\ t[1] = "StartCommit"
        /\ t = <<"StartCommit">>
        /\ t # <<"SetNeedsCommit">>
        /\ t # <<"BeginMainFrameAborted", "ABORTED_DEFERRED_COMMIT">>
    OBVIOUS
  <1> HIDE DEF t
  <1>3. /\ impl_tasks' \in Seq(ImplTask) /\ t \in ImplTask
        /\ Takes(impl_tasks, t, impl_tasks')
    BY <1>1, <1>2, ImplTook DEF ProxyInv
  <1>4. DeferralLeads(impl_tasks', sm.defer_commits, main.defer_commits)
    BY <1>1, <1>2, DeferralIsTaken
  <1>5. /\ sm'.visible = sm.visible
        /\ sm'.defer_commits = sm.defer_commits
        /\ sm'.needs_begin_main_frame = sm.needs_begin_main_frame
        /\ sm'.output_surface_state = sm.output_surface_state
        /\ sm'.begin_main_frame_state = "READY_TO_COMMIT"
        /\ sm'.has_pending_tree = sm.has_pending_tree
    BY <1>1 DEF S!Task, S!State, NotifyReadyToCommit, NotifyBeginMainFrameStarted
  <1>6. resume' = "return" /\ ~impl.completion /\ UNCHANGED inside_action
    BY <1>1 DEF S!Task, S!TaskStarts, ProxyInv, MainThreadWaits
  <1>7. /\ sm.begin_main_frame_state = "SENT"
        /\ ~Waiting(main_tasks, {"BeginMainFrame"})
        /\ main.current_pipeline_stage
             \notin {ANIMATE_PIPELINE_STAGE, UPDATE_LAYERS_PIPELINE_STAGE}
        /\ ~Waiting(impl_tasks', {"StartCommit", "BeginMainFrameAborted"})
    BY <1>2, <1>3 DEF ProxyInv, MainFrameIsSomewhere, Takes
  <1>8. /\ Posted(impl_tasks, <<"StartCommit">>)
        /\ ~Posted(impl_tasks', <<"StartCommit">>)
    BY <1>2, <1>3, <1>7 DEF Takes, Posted, Waiting
  <1>9. ProxyTypeOK'
    BY <1>1, <1>2, <1>3, <1>5, <1>6 DEF ProxyInv, ProxyTypeOK, MainState, Takes
  <1>10. MainFrameIsSomewhere'
    BY <1>1, <1>2, <1>3, <1>5, <1>6, <1>7
       DEF ProxyInv, MainFrameIsSomewhere, ProxyTypeOK, MainState, Takes
  <1>11. OutputSurfaceIsSomewhere'
    BY <1>1, <1>2, <1>3, <1>5, <1>6
       DEF ProxyInv, OutputSurfaceIsSomewhere, ProxyTypeOK, MainState, Takes
  <1>12. MainThreadWaits'
    BY <1>1, <1>2, <1>3, <1>5, <1>6
       DEF ProxyInv, MainThreadWaits, ProxyTypeOK, MainState, Takes
  <1>13. VisibilityIsTold'
    BY <1>1, <1>2, <1>3, <1>5, <1>6
       DEF ProxyInv, VisibilityIsTold, ProxyTypeOK, MainState, Takes
  <1>14. DeferralIsTold'
    BY <1>1, <1>2, <1>3, <1>5, <1>6, <1>4
       DEF ProxyInv, DeferralIsTold, ProxyTypeOK, MainState, Takes
  <1>15. EventWillBeSignaled'
    BY <1>1, <1>2, <1>3, <1>5, <1>6, <1>8
       DEF ProxyInv, EventWillBeSignaled, ProxyTypeOK, MainState, Takes
  <1>16. RequestsTravel'
    BY <1>1, <1>2, <1>3, <1>5, <1>6
       DEF ProxyInv, RequestsTravel, ProxyTypeOK, MainState, Takes
  <1> QED BY <1>9, <1>10, <1>11, <1>12, <1>13, <1>14, <1>15, <1>16 DEF ProxyInv

LEMMA BeginMainFrameAbortedOnImplThreadKeeps ==
  ASSUME ProxyInv, sm \in S!State, BeginMainFrameAbortedOnImplThread
  PROVE  ProxyInv'
  <1>1. PICK reason \in CommitEarlyOutReason :
           /\ ImplTakes(<<"BeginMainFrameAborted", reason>>)
           /\ S!Task(BeginMainFrameAborted(sm, reason))
           /\ UNCHANGED <<main, impl, main_tasks, uncommitted>>
    BY DEF BeginMainFrameAbortedOnImplThread
  <1> DEFINE t == <<"BeginMainFrameAborted", reason>>
  <1>2. /\ t[1] = "BeginMainFrameAborted"
        /\ t # <<"StartCommit">>
        /\ t # <<"SetNeedsCommit">>
        /\ ImplTakes(t)
    BY <1>1
  <1>3. t = <<"BeginMainFrameAborted", "ABORTED_DEFERRED_COMMIT">>
          => reason = "ABORTED_DEFERRED_COMMIT"
    OBVIOUS
  <1> HIDE DEF t
  <1>4. /\ impl_tasks' \in Seq(ImplTask) /\ t \in ImplTask
        /\ Takes(impl_tasks, t, impl_tasks')
    BY <1>2, ImplTook DEF ProxyInv
  <1>5. DeferralLeads(impl_tasks', sm.defer_commits, main.defer_commits)
    BY <1>2, DeferralIsTaken
  <1>6. UNCHANGED <<main, impl, main_tasks, uncommitted>>
    BY <1>1
  <1>7. /\ sm'.visible = sm.visible
        /\ sm'.defer_commits = sm.defer_commits
        /\ sm.needs_begin_main_frame => sm'.needs_begin_main_frame
        /\ reason = "ABORTED_DEFERRED_COMMIT" => sm'.needs_begin_main_frame
        /\ sm'.output_surface_state = "CREATING"
             <=> sm.output_surface_state = "CREATING"
        /\ sm'.begin_main_frame_state = "IDLE"
    BY <1>1 DEF S!Task, S!State, BeginMainFrameAborted, WillCommit, MainFrameAfterCommit
  <1>8. resume' = "return" /\ ~impl.completion /\ UNCHANGED inside_action
    BY <1>1 DEF S!Task, S!TaskStarts, ProxyInv, MainThreadWaits
  <1>9. /\ sm.begin_main_frame_state = "SENT"
        /\ ~Waiting(main_tasks, {"BeginMainFrame"})
        /\ main.current_pipeline_stage
             \notin {ANIMATE_PIPELINE_STAGE, UPDATE_LAYERS_PIPELINE_STAGE}
        /\ ~Waiting(impl_tasks', {"StartCommit", "BeginMainFrameAborted"})
    BY <1>2, <1>4 DEF ProxyInv, MainFrameIsSomewhere, Takes
  <1>10. /\ main.waits_for # "commit"
         /\ ~Waiting(impl_tasks', {"BeginMainFrameAborted"})
    BY <1>2, <1>4, <1>9, WaitingAmongMore DEF ProxyInv, MainThreadWaits, Takes
  <1>11. ProxyTypeOK'
    BY <1>6, <1>2, <1>4, <1>8, <1>7 DEF ProxyInv, ProxyTypeOK, MainState, Takes
  <1>12. MainFrameIsSomewhere'
    BY <1>6, <1>2, <1>4, <1>8, <1>7, <1>9
       DEF ProxyInv, MainFrameIsSomewhere, ProxyTypeOK, MainState, Takes
  <1>13. OutputSurfaceIsSomewhere'
    BY <1>6, <1>2, <1>4, <1>8, <1>7
       DEF ProxyInv, OutputSurfaceIsSomewhere, ProxyTypeOK, MainState, Takes
  <1>14. MainThreadWaits'
    BY <1>6, <1>2, <1>4, <1>8, <1>7, <1>10
       DEF ProxyInv, MainThreadWaits, ProxyTypeOK, MainState, Takes
  <1>15. VisibilityIsTold'
    BY <1>6, <1>2, <1>4, <1>8, <1>7
       DEF ProxyInv, VisibilityIsTold, ProxyTypeOK, MainState, Takes
  <1>16. DeferralIsTold'
    BY <1>6, <1>2, <1>4, <1>8, <1>7, <1>5
       DEF ProxyInv, DeferralIsTold, ProxyTypeOK, MainState, Takes
  <1>17. EventWillBeSignaled'
    BY <1>6, <1>2, <1>4, <1>8, <1>7, <1>10
       DEF ProxyInv, EventWillBeSignaled, ProxyTypeOK, MainState, Takes
  <1>18. RequestsTravel'
    BY <1>6, <1>2, <1>4, <1>8, <1>7, <1>3
       DEF ProxyInv, RequestsTravel, ProxyTypeOK, MainState, Takes
  <1> QED BY <1>11, <1>12, <1>13, <1>14, <1>15, <1>16, <1>17, <1>18 DEF ProxyInv

-----------------------------------------------------------------------------
(* The impl thread: what the scheduler does.                               *)

LEMMA SendBeginMainFrameKeeps ==
  ASSUME ProxyInv, sm \in S!State, ScheduledActionSendBeginMainFrame
  PROVE  ProxyInv'
  <1> DEFINE t == <<"BeginMainFrame">>
  <1>1. /\ S!ActionSendBeginMainFrame
        /\ main_tasks' = Append(main_tasks, t)
        /\ UNCHANGED <<main, impl, impl_tasks, uncommitted>>
    BY DEF ScheduledActionSendBeginMainFrame
  <1>2. /\ t \in MainTask
        /\ t[1] = "BeginMainFrame"
        /\ t = <<"BeginMainFrame">>
        /\ t # <<"DidInitializeOutputSurface", FALSE>>
    BY DEF MainTask
  <1> HIDE DEF t
  <1>3. main_tasks' \in Seq(MainTask) /\ Posts(main_tasks, t, main_tasks')
    BY <1>1, <1>2, MainPosts DEF ProxyInv
  <1>4. AnswersFirst(main_tasks')
    BY <1>1, <1>2, AnswersFirstKept DEF ProxyInv, ProxyTypeOK, OutputSurfaceIsSomewhere
  <1>5. sm.begin_main_frame_state = "IDLE"
    BY <1>1
       DEF S!ActionSendBeginMainFrame, S!PostAction, S!Performs, S!NextAction,
           S!ShouldSendBeginMainFrame
  <1>6. /\ sm'.visible = sm.visible
        /\ sm'.defer_commits = sm.defer_commits
        /\ sm'.output_surface_state = sm.output_surface_state
        /\ sm'.begin_main_frame_state = "SENT"
        /\ sm'.has_pending_tree = sm.has_pending_tree
        /\ UNCHANGED <<resume, inside_action>>
    BY <1>1
       DEF S!ActionSendBeginMainFrame, S!PostAction, S!State, S!WillSendBeginMainFrame
  <1>7. Posted(main_tasks', <<"BeginMainFrame">>)
    BY <1>3, <1>2 DEF Posts
  <1>8. ProxyTypeOK'
    BY <1>1, <1>2, <1>3, <1>6 DEF ProxyInv, ProxyTypeOK, MainState, Posts
  <1>9. MainFrameIsSomewhere'
    BY <1>1, <1>2, <1>3, <1>6, <1>5
       DEF ProxyInv, MainFrameIsSomewhere, ProxyTypeOK, MainState, Posts
  <1>10. OutputSurfaceIsSomewhere'
    BY <1>1, <1>2, <1>3, <1>6, <1>4
       DEF ProxyInv, OutputSurfaceIsSomewhere, ProxyTypeOK, MainState, Posts
  <1>11. MainThreadWaits'
    BY <1>1, <1>2, <1>3, <1>6
       DEF ProxyInv, MainThreadWaits, ProxyTypeOK, MainState, Posts
  <1>12. VisibilityIsTold'
    BY <1>1, <1>2, <1>3, <1>6
       DEF ProxyInv, VisibilityIsTold, ProxyTypeOK, MainState, Posts
  <1>13. DeferralIsTold'
    BY <1>1, <1>2, <1>3, <1>6
       DEF ProxyInv, DeferralIsTold, ProxyTypeOK, MainState, Posts
  <1>14. EventWillBeSignaled'
    BY <1>1, <1>2, <1>3, <1>6, <1>5
       DEF ProxyInv, EventWillBeSignaled, ProxyTypeOK, MainState, Posts
  <1>15. RequestsTravel'
    BY <1>1, <1>2, <1>3, <1>6, <1>7
       DEF ProxyInv, RequestsTravel, ProxyTypeOK, MainState, Posts
  <1> QED BY <1>8, <1>9, <1>10, <1>11, <1>12, <1>13, <1>14, <1>15 DEF ProxyInv

LEMMA BeginOutputSurfaceCreationKeeps ==
  ASSUME ProxyInv, sm \in S!State, ScheduledActionBeginOutputSurfaceCreation
  PROVE  ProxyInv'
  <1> DEFINE t == <<"RequestNewOutputSurface">>
  <1>1. /\ S!ActionBeginOutputSurfaceCreation
        /\ main_tasks' = Append(main_tasks, t)
        /\ UNCHANGED <<main, impl, impl_tasks, uncommitted>>
    BY DEF ScheduledActionBeginOutputSurfaceCreation
  <1>2. /\ t \in MainTask
        /\ t[1] = "RequestNewOutputSurface"
        /\ t # <<"BeginMainFrame">>
        /\ t # <<"DidInitializeOutputSurface", FALSE>>
    BY DEF MainTask
  <1> HIDE DEF t
  <1>3. main_tasks' \in Seq(MainTask) /\ Posts(main_tasks, t, main_tasks')
    BY <1>1, <1>2, MainPosts DEF ProxyInv
  <1>4. AnswersFirst(main_tasks')
    BY <1>1, <1>2, AnswersFirstKept DEF ProxyInv, ProxyTypeOK, OutputSurfaceIsSomewhere
  <1>5. sm.output_surface_state = "NONE"
    BY <1>1
       DEF S!ActionBeginOutputSurfaceCreation, S!PostAction, S!Performs, S!NextAction,
           S!ShouldBeginOutputSurfaceCreation
  <1>6. /\ sm'.visible = sm.visible
        /\ sm'.defer_commits = sm.defer_commits
        /\ sm'.needs_begin_main_frame = sm.needs_begin_main_frame
        /\ sm'.output_surface_state = "CREATING"
        /\ sm'.begin_main_frame_state = sm.begin_main_frame_state
        /\ sm'.has_pending_tree = sm.has_pending_tree
        /\ UNCHANGED <<resume, inside_action>>
    BY <1>1
       DEF S!ActionBeginOutputSurfaceCreation, S!PostAction, S!State,
           S!WillBeginOutputSurfaceCreation
  <1>7. ProxyTypeOK'
    BY <1>1, <1>2, <1>3, <1>6 DEF ProxyInv, ProxyTypeOK, MainState, Posts
  <1>8. MainFrameIsSomewhere'
    BY <1>1, <1>2, <1>3, <1>6
       DEF ProxyInv, MainFrameIsSomewhere, ProxyTypeOK, MainState, Posts
  <1>9. OutputSurfaceIsSomewhere'
    BY <1>1, <1>2, <1>3, <1>6, <1>4, <1>5
       DEF ProxyInv, OutputSurfaceIsSomewhere, ProxyTypeOK, MainState, Posts
  <1>10. MainThreadWaits'
    BY <1>1, <1>2, <1>3, <1>6
       DEF ProxyInv, MainThreadWaits, ProxyTypeOK, MainState, Posts
  <1>11. VisibilityIsTold'
    BY <1>1, <1>2, <1>3, <1>6
       DEF ProxyInv, VisibilityIsTold, ProxyTypeOK, MainState, Posts
  <1>12. DeferralIsTold'
    BY <1>1, <1>2, <1>3, <1>6
       DEF ProxyInv, DeferralIsTold, ProxyTypeOK, MainState, Posts
  <1>13. EventWillBeSignaled'
    BY <1>1, <1>2, <1>3, <1>6
       DEF ProxyInv, EventWillBeSignaled, ProxyTypeOK, MainState, Posts
  <1>14. RequestsTravel'
    BY <1>1, <1>2, <1>3, <1>6
       DEF ProxyInv, RequestsTravel, ProxyTypeOK, MainState, Posts
  <1> QED BY <1>7, <1>8, <1>9, <1>10, <1>11, <1>12, <1>13, <1>14 DEF ProxyInv

LEMMA CommitKeeps ==
  ASSUME ProxyInv, sm \in S!State, ScheduledActionCommit
  PROVE  ProxyInv'
  <1>1. /\ S!ActionCommit
        /\ UNCHANGED <<main_tasks, impl_tasks>>
        /\ uncommitted' \in BOOLEAN
    BY DEF ScheduledActionCommit
  <1> DEFINE hold == main.commit_waits_for_activation
  <1>2. hold \in BOOLEAN
    BY DEF ProxyInv, ProxyTypeOK, MainState
  <1>3. /\ impl' = [impl EXCEPT !.commit_completion_event = FALSE,
                                 !.held_on_tree_activation = hold]
        /\ main' = [(IF hold THEN main ELSE Released(main))
                       EXCEPT !.commit_waits_for_activation = FALSE]
    BY DEF ScheduledActionCommit
  <1> HIDE DEF hold
  <1>4. NO_PIPELINE_STAGE \in CommitPipelineStage
    BY DEF CommitPipelineStage, NO_PIPELINE_STAGE, COMMIT_PIPELINE_STAGE
  <1>5. /\ main' \in MainState
        /\ main'.visible = main.visible
        /\ main'.defer_commits = main.defer_commits
        /\ main'.output_surface = main.output_surface
        /\ main'.max_requested_pipeline_stage = main.max_requested_pipeline_stage
        /\ main'.waits_for = IF hold THEN main.waits_for ELSE "nothing"
        /\ main'.current_pipeline_stage =
             IF hold THEN main.current_pipeline_stage
             ELSE NO_PIPELINE_STAGE
    BY <1>3, <1>2, <1>4 DEF Released, ProxyInv, ProxyTypeOK, MainState
  <1>6. /\ impl' \in [commit_completion_event: BOOLEAN,
                      held_on_tree_activation: BOOLEAN, completion: BOOLEAN]
        /\ impl'.commit_completion_event = FALSE
        /\ impl'.held_on_tree_activation = hold
        /\ impl'.completion = impl.completion
    BY <1>3, <1>2 DEF ProxyInv, ProxyTypeOK
  <1>7. sm.begin_main_frame_state = "READY_TO_COMMIT"
    BY <1>1 DEF S!ActionCommit, S!StartAction, S!Performs, S!NextAction, S!ShouldCommit
  <1>8. /\ sm'.visible = sm.visible
        /\ sm'.defer_commits = sm.defer_commits
        /\ sm'.needs_begin_main_frame = sm.needs_begin_main_frame
        /\ sm'.output_surface_state = "CREATING"
             <=> sm.output_surface_state = "CREATING"
        /\ sm'.begin_main_frame_state \in {"IDLE", "WAITING_FOR_ACTIVATION"}
        /\ sm'.has_pending_tree
        /\ UNCHANGED resume
    BY <1>1
       DEF S!ActionCommit, S!StartAction, S!State, S!WillCommit, S!MainFrameAfterCommit
  <1>9. /\ main.waits_for = "commit"
        /\ main.current_pipeline_stage = COMMIT_PIPELINE_STAGE
        /\ ~Posted(impl_tasks, <<"StartCommit">>) /\ ~impl.completion
        /\ ~Waiting(impl_tasks, {"SetVisible", "ReleaseOutputSurface"})
    BY <1>7 DEF ProxyInv, EventWillBeSignaled, MainThreadWaits
  <1>10. ProxyTypeOK'
    BY <1>1, <1>5, <1>6, <1>8 DEF ProxyInv, ProxyTypeOK, MainState
  <1>11. MainFrameIsSomewhere'
    BY <1>1, <1>5, <1>6, <1>8, <1>7, <1>9
       DEF ProxyInv, MainFrameIsSomewhere, ProxyTypeOK, MainState, CommitPipelineStage,
           NO_PIPELINE_STAGE, ANIMATE_PIPELINE_STAGE, UPDATE_LAYERS_PIPELINE_STAGE,
           COMMIT_PIPELINE_STAGE
  <1>12. OutputSurfaceIsSomewhere'
    BY <1>1, <1>5, <1>6, <1>8
       DEF ProxyInv, OutputSurfaceIsSomewhere, ProxyTypeOK, MainState
  <1>13. MainThreadWaits'
    BY <1>1, <1>5, <1>6, <1>8, <1>9
       DEF ProxyInv, MainThreadWaits, ProxyTypeOK, MainState, CommitPipelineStage,
           NO_PIPELINE_STAGE, ANIMATE_PIPELINE_STAGE, UPDATE_LAYERS_PIPELINE_STAGE,
           COMMIT_PIPELINE_STAGE
  <1>14. VisibilityIsTold'
    BY <1>1, <1>5, <1>6, <1>8 DEF ProxyInv, VisibilityIsTold, ProxyTypeOK, MainState
  <1>15. DeferralIsTold'
    BY <1>1, <1>5, <1>6, <1>8 DEF ProxyInv, DeferralIsTold, ProxyTypeOK, MainState
  <1>16. EventWillBeSignaled'
    BY <1>1, <1>5, <1>6, <1>8, <1>7, <1>9
       DEF ProxyInv, EventWillBeSignaled, ProxyTypeOK, MainState
  <1>17. RequestsTravel'
    BY <1>1, <1>5, <1>6, <1>8 DEF ProxyInv, RequestsTravel, ProxyTypeOK, MainState
  <1> QED BY <1>10, <1>11, <1>12, <1>13, <1>14, <1>15, <1>16, <1>17 DEF ProxyInv

LEMMA DidActivateSyncTreeKeeps ==
  ASSUME ProxyInv, sm \in S!State, DidActivateSyncTree
  PROVE  ProxyInv'
  <1>1. /\ S!FinishActivateSyncTree
        /\ impl' = [impl EXCEPT !.held_on_tree_activation = FALSE]
        /\ main' = IF impl.held_on_tree_activation THEN Released(main) ELSE main
        /\ UNCHANGED <<main_tasks, impl_tasks, uncommitted>>
    BY DEF DidActivateSyncTree
  <1>2. NO_PIPELINE_STAGE \in CommitPipelineStage
    BY DEF CommitPipelineStage, NO_PIPELINE_STAGE, COMMIT_PIPELINE_STAGE
  <1>3. /\ main' \in MainState
        /\ main'.visible = main.visible
        /\ main'.defer_commits = main.defer_commits
        /\ main'.output_surface = main.output_surface
        /\ main'.max_requested_pipeline_stage = main.max_requested_pipeline_stage
        /\ main'.waits_for =
             IF impl.held_on_tree_activation THEN "nothing"
             ELSE main.waits_for
        /\ main'.current_pipeline_stage =
             IF impl.held_on_tree_activation THEN NO_PIPELINE_STAGE
             ELSE main.current_pipeline_stage
    BY <1>1, <1>2 DEF Released, ProxyInv, ProxyTypeOK, MainState
  <1>4. Alike(sm, sm') /\ UNCHANGED resume
    BY <1>1, OperationsAreAlike DEF S!FinishActivateSyncTree, S!FinishAction
  <1>5. impl.held_on_tree_activation =>
          /\ main.waits_for = "commit"
          /\ main.current_pipeline_stage = COMMIT_PIPELINE_STAGE
          /\ ~impl.completion
          /\ ~Waiting(impl_tasks, {"SetVisible", "ReleaseOutputSurface"})
    BY DEF ProxyInv, EventWillBeSignaled, MainThreadWaits
  <1>6. ProxyTypeOK'
    BY <1>1, <1>3, <1>4 DEF ProxyInv, ProxyTypeOK, MainState, Alike
  <1>7. MainFrameIsSomewhere'
    BY <1>1, <1>3, <1>4, <1>5
       DEF ProxyInv, MainFrameIsSomewhere, ProxyTypeOK, MainState, Alike,
           CommitPipelineStage, NO_PIPELINE_STAGE, ANIMATE_PIPELINE_STAGE,
           UPDATE_LAYERS_PIPELINE_STAGE, COMMIT_PIPELINE_STAGE
  <1>8. OutputSurfaceIsSomewhere'
    BY <1>1, <1>3, <1>4
       DEF ProxyInv, OutputSurfaceIsSomewhere, ProxyTypeOK, MainState, Alike
  <1>9. MainThreadWaits'
    BY <1>1, <1>3, <1>4, <1>5
       DEF ProxyInv, MainThreadWaits, ProxyTypeOK, MainState, Alike,
           CommitPipelineStage, NO_PIPELINE_STAGE, ANIMATE_PIPELINE_STAGE,
           UPDATE_LAYERS_PIPELINE_STAGE, COMMIT_PIPELINE_STAGE
  <1>10. VisibilityIsTold'
    BY <1>1, <1>3, <1>4 DEF ProxyInv, VisibilityIsTold, ProxyTypeOK, MainState, Alike
  <1>11. DeferralIsTold'
    BY <1>1, <1>3, <1>4 DEF ProxyInv, DeferralIsTold, ProxyTypeOK, MainState, Alike
  <1>12. EventWillBeSignaled'
    BY <1>1, <1>3, <1>4, <1>5
       DEF ProxyInv, EventWillBeSignaled, ProxyTypeOK, MainState, Alike
  <1>13. RequestsTravel'
    BY <1>1, <1>3, <1>4 DEF ProxyInv, RequestsTravel, ProxyTypeOK, MainState, Alike
  <1> QED BY <1>6, <1>7, <1>8, <1>9, <1>10, <1>11, <1>12, <1>13 DEF ProxyInv

LEMMA TaskReturnsKeeps ==
  ASSUME ProxyInv, sm \in S!State, LeaveProcessScheduledActions
  PROVE  ProxyInv'
  <1>1. /\ S!LeaveProcessScheduledActions
        /\ UNCHANGED <<main_tasks, impl_tasks, uncommitted>>
    BY DEF LeaveProcessScheduledActions
  <1> DEFINE done == resume = "return" /\ impl.completion
  <1>2. done \in BOOLEAN /\ (impl.completion => done)
    BY DEF ProxyInv, MainThreadWaits
  <1>3. /\ impl' = IF done THEN [impl EXCEPT !.completion = FALSE] ELSE impl
        /\ main' = IF done THEN Released(main) ELSE main
    BY DEF LeaveProcessScheduledActions
  <1>4. done => impl.completion
    OBVIOUS
  <1> HIDE DEF done
  <1>5. NO_PIPELINE_STAGE \in CommitPipelineStage
    BY DEF CommitPipelineStage, NO_PIPELINE_STAGE, COMMIT_PIPELINE_STAGE
  <1>6. /\ main' \in MainState
        /\ main'.visible = main.visible
        /\ main'.defer_commits = main.defer_commits
        /\ main'.output_surface = main.output_surface
        /\ main'.max_requested_pipeline_stage = main.max_requested_pipeline_stage
        /\ main'.waits_for = IF done THEN "nothing" ELSE main.waits_for
        /\ main'.current_pipeline_stage =
             IF done THEN NO_PIPELINE_STAGE
             ELSE main.current_pipeline_stage
    BY <1>3, <1>5 DEF Released, ProxyInv, ProxyTypeOK, MainState
  <1>7. /\ impl' \in [commit_completion_event: BOOLEAN,
                      held_on_tree_activation: BOOLEAN, completion: BOOLEAN]
        /\ impl'.commit_completion_event = impl.commit_completion_event
        /\ impl'.held_on_tree_activation = impl.held_on_tree_activation
        /\ impl'.completion = FALSE
    BY <1>3, <1>2, <1>4 DEF ProxyInv, ProxyTypeOK
  <1>8. Alike(sm, sm') /\ KeepsTree(sm, sm') /\ UNCHANGED inside_action
    BY <1>1, OperationsAreAlike DEF S!LeaveProcessScheduledActions
  <1>9. impl.completion =>
          /\ main.waits_for = "task" /\ main.current_pipeline_stage = NO_PIPELINE_STAGE
          /\ ~Waiting(impl_tasks, {"SetVisible", "ReleaseOutputSurface"})
    BY DEF ProxyInv, MainThreadWaits
  <1>10. ProxyTypeOK'
    BY <1>1, <1>2, <1>4, <1>6, <1>7, <1>8 DEF ProxyInv, ProxyTypeOK, MainState, Alike
  <1>11. MainFrameIsSomewhere'
    BY <1>1, <1>2, <1>4, <1>6, <1>7, <1>8, <1>9
       DEF ProxyInv, MainFrameIsSomewhere, ProxyTypeOK, MainState, Alike,
           CommitPipelineStage, NO_PIPELINE_STAGE, ANIMATE_PIPELINE_STAGE,
           UPDATE_LAYERS_PIPELINE_STAGE, COMMIT_PIPELINE_STAGE
  <1>12. OutputSurfaceIsSomewhere'
    BY <1>1, <1>2, <1>4, <1>6, <1>7, <1>8
       DEF ProxyInv, OutputSurfaceIsSomewhere, ProxyTypeOK, MainState, Alike
  <1>13. MainThreadWaits'
    BY <1>1, <1>2, <1>4, <1>6, <1>7, <1>8, <1>9
       DEF ProxyInv, MainThreadWaits, ProxyTypeOK, MainState, Alike,
           CommitPipelineStage, NO_PIPELINE_STAGE, ANIMATE_PIPELINE_STAGE,
           UPDATE_LAYERS_PIPELINE_STAGE, COMMIT_PIPELINE_STAGE
  <1>14. VisibilityIsTold'
    BY <1>1, <1>2, <1>4, <1>6, <1>7, <1>8
       DEF ProxyInv, VisibilityIsTold, ProxyTypeOK, MainState, Alike
  <1>15. DeferralIsTold'
    BY <1>1, <1>2, <1>4, <1>6, <1>7, <1>8
       DEF ProxyInv, DeferralIsTold, ProxyTypeOK, MainState, Alike
  <1>16. EventWillBeSignaled'
    BY <1>1, <1>2, <1>4, <1>6, <1>7, <1>8, <1>9
       DEF ProxyInv, EventWillBeSignaled, ProxyTypeOK, MainState, Alike, KeepsTree
  <1>17. RequestsTravel'
    BY <1>1, <1>2, <1>4, <1>6, <1>7, <1>8
       DEF ProxyInv, RequestsTravel, ProxyTypeOK, MainState, Alike
  <1> QED BY <1>10, <1>11, <1>12, <1>13, <1>14, <1>15, <1>16, <1>17 DEF ProxyInv

LEMMA DidLoseOutputSurfaceOnImplThreadKeeps ==
  ASSUME ProxyInv, sm \in S!State, DidLoseOutputSurfaceOnImplThread
  PROVE  ProxyInv'
  <1> DEFINE t == <<"DidLoseOutputSurface">>
  <1>1. /\ S!CallDidLoseOutputSurface
        /\ main_tasks' = Append(main_tasks, t)
        /\ UNCHANGED <<main, impl, impl_tasks, uncommitted>>
    BY DEF DidLoseOutputSurfaceOnImplThread
  <1>2. /\ t \in MainTask
        /\ t[1] = "DidLoseOutputSurface"
        /\ t # <<"BeginMainFrame">>
        /\ t # <<"DidInitializeOutputSurface", FALSE>>
    BY DEF MainTask
  <1> HIDE DEF t
  <1>3. main_tasks' \in Seq(MainTask) /\ Posts(main_tasks, t, main_tasks')
    BY <1>1, <1>2, MainPosts DEF ProxyInv
  <1>4. AnswersFirst(main_tasks')
    BY <1>1, <1>2, AnswersFirstKept DEF ProxyInv, ProxyTypeOK, OutputSurfaceIsSomewhere
  <1>5. /\ Alike(sm, sm')
        /\ KeepsTree(sm, sm') \/ inside_action' = "ACTIVATE_SYNC_TREE"
        /\ inside_action = "ACTIVATE_SYNC_TREE" => inside_action' = "ACTIVATE_SYNC_TREE"
        /\ resume = "return" => resume' = "return"
    BY <1>1, StepsAreAlike, StepsStayInside
  <1>6. ProxyTypeOK'
    BY <1>1, <1>2, <1>3, <1>5 DEF ProxyInv, ProxyTypeOK, MainState, Posts, Alike
  <1>7. MainFrameIsSomewhere'
    BY <1>1, <1>2, <1>3, <1>5
       DEF ProxyInv, MainFrameIsSomewhere, ProxyTypeOK, MainState, Posts, Alike
  <1>8. OutputSurfaceIsSomewhere'
    BY <1>1, <1>2, <1>3, <1>5, <1>4
       DEF ProxyInv, OutputSurfaceIsSomewhere, ProxyTypeOK, MainState, Posts, Alike
  <1>9. MainThreadWaits'
    BY <1>1, <1>2, <1>3, <1>5
       DEF ProxyInv, MainThreadWaits, ProxyTypeOK, MainState, Posts, Alike
  <1>10. VisibilityIsTold'
    BY <1>1, <1>2, <1>3, <1>5
       DEF ProxyInv, VisibilityIsTold, ProxyTypeOK, MainState, Posts, Alike
  <1>11. DeferralIsTold'
    BY <1>1, <1>2, <1>3, <1>5
       DEF ProxyInv, DeferralIsTold, ProxyTypeOK, MainState, Posts, Alike
  <1>12. EventWillBeSignaled'
    BY <1>1, <1>2, <1>3, <1>5
       DEF ProxyInv, EventWillBeSignaled, ProxyTypeOK, MainState, Posts, Alike,
           KeepsTree
  <1>13. RequestsTravel'
    BY <1>1, <1>2, <1>3, <1>5
       DEF ProxyInv, RequestsTravel, ProxyTypeOK, MainState, Posts, Alike
  <1> QED BY <1>6, <1>7, <1>8, <1>9, <1>10, <1>11, <1>12, <1>13 DEF ProxyInv

\* What leaves the proxy alone, and shows it nothing, keeps the invariant.
LEMMA QuietSteps ==
  ASSUME ProxyInv, sm \in S!State, UNCHANGED proxy,
         Alike(sm, sm'),
         KeepsTree(sm, sm') \/ inside_action' = "ACTIVATE_SYNC_TREE",
         inside_action = "ACTIVATE_SYNC_TREE" => inside_action' = "ACTIVATE_SYNC_TREE",
         impl.completion => resume' = "return"
  PROVE  ProxyInv'
  <1> USE DEF proxy, ProxyInv
  <1>1. ProxyTypeOK'
    BY DEF ProxyTypeOK
  <1>2. MainFrameIsSomewhere'
    BY DEF MainFrameIsSomewhere, Waiting, AtMostOne, Alike
  <1>3. OutputSurfaceIsSomewhere'
    BY DEF OutputSurfaceIsSomewhere, Waiting, AtMostOne, Posted, Alike
  <1>4. MainThreadWaits'
    BY DEF MainThreadWaits, Waiting, AtMostOne
  <1>5. VisibilityIsTold'
    BY DEF VisibilityIsTold, Waiting, Posted, Alike
  <1>6. DeferralIsTold'
    BY DEF DeferralIsTold, DeferralLeads, Alike
  <1>7. EventWillBeSignaled'
    BY DEF EventWillBeSignaled, Posted, Alike, KeepsTree
  <1>8. RequestsTravel'
    BY DEF RequestsTravel, Posted, Alike
  <1> QED BY <1>1, <1>2, <1>3, <1>4, <1>5, <1>6, <1>7, <1>8

LEMMA QuietStepsKeep ==
  ASSUME ProxyInv, sm \in S!State,
         \/ ScheduledActions \/ OnBeginFrame \/ BeginImplFrameDeadline
         \/ ReadyToActivate \/ OnCanDrawStateChanged \/ SwapBuffersComplete
  PROVE  ProxyInv'
  <1>1. UNCHANGED proxy
    BY DEF ScheduledActions, OnBeginFrame, BeginImplFrameDeadline, ReadyToActivate,
           OnCanDrawStateChanged, SwapBuffersComplete
  <1>2. /\ Alike(sm, sm')
        /\ KeepsTree(sm, sm') \/ inside_action' = "ACTIVATE_SYNC_TREE"
    BY StepsAreAlike
  <1>3. /\ inside_action = "ACTIVATE_SYNC_TREE" => inside_action' = "ACTIVATE_SYNC_TREE"
        /\ resume = "return" => resume' = "return"
    BY StepsStayInside
  <1>4. impl.completion => resume = "return"
    BY DEF ProxyInv, MainThreadWaits
  <1> QED BY <1>1, <1>2, <1>3, <1>4, QuietSteps

-----------------------------------------------------------------------------
(* The proxy: the initial state and every step.                            *)

LEMMA ProxyInvHoldsFirst == Init => ProxyInv
  <1> SUFFICES ASSUME Init PROVE ProxyInv
    OBVIOUS
  <1>1. /\ NO_PIPELINE_STAGE \in CommitPipelineStage
        /\ NO_PIPELINE_STAGE \notin {ANIMATE_PIPELINE_STAGE, UPDATE_LAYERS_PIPELINE_STAGE}
        /\ NO_PIPELINE_STAGE # COMMIT_PIPELINE_STAGE
    BY DEF CommitPipelineStage, NO_PIPELINE_STAGE, ANIMATE_PIPELINE_STAGE,
           UPDATE_LAYERS_PIPELINE_STAGE, COMMIT_PIPELINE_STAGE
  <1>2. /\ main_tasks = << >> /\ main_tasks \in Seq(MainTask)
        /\ impl_tasks = << >> /\ impl_tasks \in Seq(ImplTask)
    BY DEF Init
  <1>3. /\ sm.visible = FALSE /\ sm.defer_commits = FALSE
        /\ sm.output_surface_state = "NONE"
        /\ sm.begin_main_frame_state = "IDLE"
    BY DEF Init, S!Init, S!InitialState
  <1>4. \A tasks : tasks = << >> =>
          /\ \A names : ~Waiting(tasks, names) /\ AtMostOne(tasks, names)
          /\ \A task : ~Posted(tasks, task)
          /\ AnswersFirst(tasks)
    BY DEF Waiting, AtMostOne, Posted, AnswersFirst
  <1>5. ProxyTypeOK
    BY <1>1, <1>2 DEF Init, ProxyTypeOK, MainState
  <1>6. MainFrameIsSomewhere
    BY <1>1, <1>2, <1>3, <1>4 DEF Init, MainFrameIsSomewhere
  <1>7. OutputSurfaceIsSomewhere
    BY <1>2, <1>3, <1>4 DEF Init, OutputSurfaceIsSomewhere
  <1>8. MainThreadWaits
    BY <1>1, <1>2, <1>4 DEF Init, MainThreadWaits
  <1>9. VisibilityIsTold
    BY <1>2, <1>3, <1>4 DEF Init, VisibilityIsTold
  <1>10. DeferralIsTold
    <2> DEFINE known == [i \in 0 .. Len(impl_tasks) |-> FALSE]
    <2>1. Len(impl_tasks) = 0 /\ DOMAIN impl_tasks = {}
      BY <1>2
    <2>2. /\ known \in [0 .. Len(impl_tasks) -> BOOLEAN]
          /\ known[0] = FALSE /\ known[Len(impl_tasks)] = FALSE
      BY <2>1
    <2> HIDE DEF known
    <2>3. DeferralLeads(impl_tasks, FALSE, FALSE)
      BY <2>1, <2>2 DEF DeferralLeads
    <2>4. main.defer_commits = FALSE
      BY DEF Init
    <2> QED BY <1>3, <2>3, <2>4 DEF DeferralIsTold
  <1>11. EventWillBeSignaled
    BY <1>2, <1>3, <1>4 DEF Init, EventWillBeSignaled
  <1>12. RequestsTravel
    BY DEF Init, RequestsTravel
  <1> QED BY <1>5, <1>6, <1>7, <1>8, <1>9, <1>10, <1>11, <1>12 DEF ProxyInv

LEMMA ProxyInvKept ==
  ASSUME ProxyInv, sm \in S!State, [Next]_vars
  PROVE  ProxyInv'
  <1>1. CASE MainThreadCalls \/ SetOutputSurface
    BY <1>1, SetNeedsKeeps, SetNextCommitWaitsKeeps, SetDeferCommitsKeeps,
       SetVisibleKeeps, ReleaseOutputSurfaceKeeps, SetOutputSurfaceKeeps
       DEF MainThreadCalls
  <1>2. CASE MainThread
    BY <1>2, BeginMainFrameKeeps, UpdateLayersKeeps, FinishMainFrameKeeps,
       RequestNewOutputSurfaceKeeps, DidInitializeOutputSurfaceKeeps,
       DidLoseOutputSurfaceOnMainThreadKeeps
       DEF MainThread
  <1>3. CASE ImplThreadTasks
    BY <1>3, SetNeedsCommitOnImplThreadKeeps, SetDeferCommitsOnImplThreadKeeps,
       SetVisibleOnImplThreadKeeps, ReleaseOutputSurfaceOnImplThreadKeeps,
       InitializeOutputSurfaceOnImplThreadKeeps, StartCommitOnImplThreadKeeps,
       BeginMainFrameAbortedOnImplThreadKeeps
       DEF ImplThreadTasks
  <1>4. CASE ImplThread
    BY <1>4, SendBeginMainFrameKeeps, BeginOutputSurfaceCreationKeeps, CommitKeeps,
       DidActivateSyncTreeKeeps, TaskReturnsKeeps,
       DidLoseOutputSurfaceOnImplThreadKeeps, QuietStepsKeep
       DEF ImplThread, ProcessScheduledActions
  <1>5. CASE UNCHANGED vars
    <2>1. UNCHANGED <<sm, resume, inside_action, proxy>>
      BY <1>5 DEF vars, scheduler
    <2>2. Alike(sm, sm') /\ KeepsTree(sm, sm')
      BY <2>1, OperationsAreAlike
    <2>3. impl.completion => resume = "return"
      BY DEF ProxyInv, MainThreadWaits
    <2> QED BY <2>1, <2>2, <2>3, QuietSteps
  <1> QED BY <1>1, <1>2, <1>3, <1>4, <1>5 DEF Next

-----------------------------------------------------------------------------
(* What Scheduler keeps, as its own proofs say: S and SP are the same      *)
(* specification, and what it assumes of its constants holds here.         *)

SP == INSTANCE SchedulerProofs
  WITH Calls <- (HostCalls \ {"SetCanDraw"}) \cup ProxyCalls,
       ReentrantCalls <- HostCalls \cap {"SetCanDraw", "DidLoseOutputSurface"},
       LateBeginFrames <- FALSE,
       MaxRetroFrames <- 0

LEMMA SchedulerAssumptionsHold == SP!SettingsAssumption /\ SP!SchedulerAssumption
  BY SettingsAssumption, ThreadProxyAssumption
     DEF SP!SettingsAssumption, SP!SchedulerAssumption, SP!CallName, ProxyCalls

LEMMA SameInit == S!Init <=> SP!Init
  BY Zenon DEF S!InitialState, SP!InitialState, S!Init, SP!Init

LEMMA SameNext == [S!Next]_S!vars <=> [SP!Next]_SP!vars
  BY Zenon DEF S!DrawResult, SP!DrawResult, S!CommitEarlyOutReason,
           SP!CommitEarlyOutReason, S!HasInitializedOutputSurface,
           SP!HasInitializedOutputSurface, S!SwapThrottled, SP!SwapThrottled,
           S!CommitPending, SP!CommitPending, S!PendingDrawsShouldBeAborted,
           SP!PendingDrawsShouldBeAborted, S!PendingActivationsShouldBeForced,
           SP!PendingActivationsShouldBeForced, S!ShouldBeginOutputSurfaceCreation,
           SP!ShouldBeginOutputSurfaceCreation, S!ShouldDraw, SP!ShouldDraw,
           S!ShouldActivatePendingTree, SP!ShouldActivatePendingTree, S!ShouldAnimate,
           SP!ShouldAnimate, S!CouldSendBeginMainFrame, SP!CouldSendBeginMainFrame,
           S!SendingBeginMainFrameMightCauseDeadlock,
           SP!SendingBeginMainFrameMightCauseDeadlock, S!JustSwappedInDeadline,
           SP!JustSwappedInDeadline, S!ShouldSendBeginMainFrame,
           SP!ShouldSendBeginMainFrame, S!ShouldCommit, SP!ShouldCommit,
           S!ShouldPrepareTiles, SP!ShouldPrepareTiles, S!ShouldInvalidateOutputSurface,
           SP!ShouldInvalidateOutputSurface, S!NextAction, SP!NextAction,
           S!BeginFrameRequiredForAction, SP!BeginFrameRequiredForAction,
           S!ProactiveBeginFrameWanted, SP!ProactiveBeginFrameWanted,
           S!BeginFrameNeeded, SP!BeginFrameNeeded,
           S!ShouldTriggerBeginImplFrameDeadlineImmediately,
           SP!ShouldTriggerBeginImplFrameDeadlineImmediately,
           S!CurrentBeginImplFrameDeadlineMode, SP!CurrentBeginImplFrameDeadlineMode,
           S!OnlyImplSideUpdatesExpected, SP!OnlyImplSideUpdatesExpected, S!Drained,
           SP!Drained, S!OnBeginImplFrame, SP!OnBeginImplFrame,
           S!OnBeginImplFrameDeadlinePending, SP!OnBeginImplFrameDeadlinePending,
           S!OnBeginImplFrameDeadline, SP!OnBeginImplFrameDeadline,
           S!OnBeginImplFrameIdle, SP!OnBeginImplFrameIdle, S!SetNeedsRedraw,
           SP!SetNeedsRedraw, S!WillAnimate, SP!WillAnimate, S!WillSendBeginMainFrame,
           SP!WillSendBeginMainFrame, S!MainFrameAfterCommit, SP!MainFrameAfterCommit,
           S!ForcedRedrawAfterCommit, SP!ForcedRedrawAfterCommit, S!WillCommit,
           SP!WillCommit, S!MainFrameAfterActivation, SP!MainFrameAfterActivation,
           S!OutputSurfaceAfterActivation, SP!OutputSurfaceAfterActivation,
           S!WillActivate, SP!WillActivate, S!MainFrameAfterDraw, SP!MainFrameAfterDraw,
           S!WillDraw, SP!WillDraw, S!WillPrepareTiles, SP!WillPrepareTiles,
           S!WillBeginOutputSurfaceCreation, SP!WillBeginOutputSurfaceCreation,
           S!WillInvalidateOutputSurface, SP!WillInvalidateOutputSurface,
           S!DidSwapBuffers, SP!DidSwapBuffers, S!DidSwapBuffersComplete,
           SP!DidSwapBuffersComplete, S!DidPrepareTiles, SP!DidPrepareTiles,
           S!DidCheckerboard, SP!DidCheckerboard, S!DidDrawIfPossibleCompleted,
           SP!DidDrawIfPossibleCompleted, S!SetVisible, SP!SetVisible,
           S!SetSkipNextBeginMainFrameToReduceLatency,
           SP!SetSkipNextBeginMainFrameToReduceLatency, S!NotifyBeginMainFrameStarted,
           SP!NotifyBeginMainFrameStarted, S!NotifyReadyToCommit,
           SP!NotifyReadyToCommit, S!BeginMainFrameAborted, SP!BeginMainFrameAborted,
           S!DidLoseOutputSurface, SP!DidLoseOutputSurface, S!NotifyReadyToActivate,
           SP!NotifyReadyToActivate, S!NotifyReadyToDraw, SP!NotifyReadyToDraw,
           S!DidCreateAndInitializeOutputSurface,
           SP!DidCreateAndInitializeOutputSurface, S!frames, SP!frames, S!deadline,
           SP!deadline, S!vars, SP!vars, S!Idle, SP!Idle, S!Performs, SP!Performs,
           S!StartAction, SP!StartAction, S!PostAction, SP!PostAction, S!FinishAction,
           SP!FinishAction, S!ActionAnimate, SP!ActionAnimate, S!FinishAnimate,
           SP!FinishAnimate, S!ActionSendBeginMainFrame, SP!ActionSendBeginMainFrame,
           S!ActionCommit, SP!ActionCommit, S!FinishCommit, SP!FinishCommit,
           S!ActionActivateSyncTree, SP!ActionActivateSyncTree,
           S!FinishActivateSyncTree, SP!FinishActivateSyncTree,
           S!ActionDrawAndSwapIfPossible, SP!ActionDrawAndSwapIfPossible,
           S!FinishDrawAndSwapIfPossible, SP!FinishDrawAndSwapIfPossible,
           S!ActionDrawAndSwapForced, SP!ActionDrawAndSwapForced,
           S!FinishDrawAndSwapForced, SP!FinishDrawAndSwapForced,
           S!ActionDrawAndSwapAbort, SP!ActionDrawAndSwapAbort,
           S!ActionBeginOutputSurfaceCreation, SP!ActionBeginOutputSurfaceCreation,
           S!ActionPrepareTiles, SP!ActionPrepareTiles, S!FinishPrepareTiles,
           SP!FinishPrepareTiles, S!ActionInvalidateOutputSurface,
           SP!ActionInvalidateOutputSurface, S!DeadlineTaskOf, SP!DeadlineTaskOf,
           S!DeadlineIsScheduled, SP!DeadlineIsScheduled,
           S!ScheduleBeginImplFrameDeadlineIfNeeded,
           SP!ScheduleBeginImplFrameDeadlineIfNeeded, S!NeedsBeginFramesAfter,
           SP!NeedsBeginFramesAfter, S!PostBeginRetroFrameIfNeeded,
           SP!PostBeginRetroFrameIfNeeded, S!SetupNextBeginFrameIfNeeded,
           SP!SetupNextBeginFrameIfNeeded, S!LeaveProcessScheduledActions,
           SP!LeaveProcessScheduledActions, S!ProcessScheduledActions,
           SP!ProcessScheduledActions, S!TaskStarts, SP!TaskStarts, S!BeginImplFrame,
           SP!BeginImplFrame, S!ShouldRecoverMainLatency, SP!ShouldRecoverMainLatency,
           S!ShouldRecoverImplLatency, SP!ShouldRecoverImplLatency,
           S!BeginImplFrameWithDeadline, SP!BeginImplFrameWithDeadline,
           S!ShouldDeferBeginFrame, SP!ShouldDeferBeginFrame, S!OnBeginFrame,
           SP!OnBeginFrame, S!BeginRetroFrame, SP!BeginRetroFrame,
           S!BeginImplFrameDeadline, SP!BeginImplFrameDeadline,
           S!OnDrawForOutputSurface, SP!OnDrawForOutputSurface, S!MayCall, SP!MayCall,
           S!ProcessIfOutside, SP!ProcessIfOutside, S!Tell, SP!Tell, S!CallSetVisible,
           SP!CallSetVisible, S!CallSetCanDraw, SP!CallSetCanDraw, S!CallSetNeedsRedraw,
           SP!CallSetNeedsRedraw, S!CallSetNeedsAnimate, SP!CallSetNeedsAnimate,
           S!CallSetNeedsBeginMainFrame, SP!CallSetNeedsBeginMainFrame,
           S!CallSetNeedsPrepareTiles, SP!CallSetNeedsPrepareTiles,
           S!CallSetImplLatencyTakesPriority, SP!CallSetImplLatencyTakesPriority,
           S!CallSetChildrenNeedBeginFrames, SP!CallSetChildrenNeedBeginFrames,
           S!CallSetVideoNeedsBeginFrames, SP!CallSetVideoNeedsBeginFrames,
           S!CallSetDeferCommits, SP!CallSetDeferCommits,
           S!CallSetThrottleFrameProduction, SP!CallSetThrottleFrameProduction,
           S!DropRetroFrames, SP!DropRetroFrames, S!CallDidLoseOutputSurface,
           SP!CallDidLoseOutputSurface, S!Task, SP!Task, S!InitializeOutputSurface,
           SP!InitializeOutputSurface, S!SwapBuffersComplete, SP!SwapBuffersComplete,
           S!ReadyToActivate, SP!ReadyToActivate, S!ReadyToDraw, SP!ReadyToDraw,
           S!StartCommitOnImplThread, SP!StartCommitOnImplThread, S!AbortReasons,
           SP!AbortReasons, S!BeginMainFrameAbortedOnImplThread,
           SP!BeginMainFrameAbortedOnImplThread, S!MainThreadAnswers,
           SP!MainThreadAnswers, S!ClientCalls, SP!ClientCalls, S!Next, SP!Next

LEMMA SameInvariant == S!IInv <=> SP!IInv
  BY Zenon DEF S!OutputSurfaceState, SP!OutputSurfaceState, S!BeginImplFrameState,
           SP!BeginImplFrameState, S!BeginImplFrameDeadlineMode,
           SP!BeginImplFrameDeadlineMode, S!BeginMainFrameState, SP!BeginMainFrameState,
           S!ForcedRedrawOnTimeoutState, SP!ForcedRedrawOnTimeoutState, S!State,
           SP!State, S!HasInitializedOutputSurface, SP!HasInitializedOutputSurface,
           S!CommitPending, SP!CommitPending, S!BeginFrameRequiredForAction,
           SP!BeginFrameRequiredForAction, S!ProactiveBeginFrameWanted,
           SP!ProactiveBeginFrameWanted, S!BeginFrameNeeded, SP!BeginFrameNeeded,
           S!Idle, SP!Idle, S!TaskStarts, SP!TaskStarts, S!Resume, SP!Resume,
           S!ClientAction, SP!ClientAction, S!TypeOK, SP!TypeOK, S!PipelineFlushed,
           SP!PipelineFlushed, S!SwapHasRoom, SP!SwapHasRoom, S!FramesInOrder,
           SP!FramesInOrder, S!NothingWhileCreating, SP!NothingWhileCreating,
           S!MainFrameHeldBack, SP!MainFrameHeldBack, S!CommitsAtOnce, SP!CommitsAtOnce,
           S!One, SP!One, S!MaySend, SP!MaySend, S!FunnelPotential, SP!FunnelPotential,
           S!FunnelLimit, SP!FunnelLimit, S!FunnelWillNotOverflow,
           SP!FunnelWillNotOverflow, S!IInv, SP!IInv

\* So S keeps its invariant.
LEMMA SchedulerKeeps ==
  /\ S!Init => S!IInv
  /\ S!IInv /\ [S!Next]_S!vars => S!IInv'
  <1>0. S!IInv' <=> SP!IInv'
    BY SameInvariant, PTL
  <1>1. S!Init => S!IInv
    BY SchedulerAssumptionsHold, SameInit, SameInvariant, SP!InitKeeps
  <1>2. ASSUME S!IInv, [S!Next]_S!vars PROVE S!IInv'
    <2>1. SP!IInv /\ [SP!Next]_SP!vars
      BY <1>2, SameNext, SameInvariant
    <2>2. SP!IInv'
      BY <2>1, SchedulerAssumptionsHold, SP!StepKeeps
    <2> QED BY <1>0, <2>2
  <1> QED BY <1>1, <1>2

-----------------------------------------------------------------------------
(* The theorems.                                                           *)

LEMMA IInvInParts == IInv <=> S!IInv /\ ProxyInv
  BY DEF IInv, ProxyInv

\* Each step of the two threads is a step of the scheduler that Scheduler
\* allows, or none; so it keeps both parts of the invariant.
LEMMA StepRefines ==
  ASSUME IInv, [Next]_vars
  PROVE  [S!Next]_S!vars /\ IInv'
  <1>1. S!IInv /\ ProxyInv /\ S!TypeOK
    BY IInvInParts DEF S!IInv
  <1>2. [S!Next]_S!vars
    <2>1. CASE Next
      BY <1>1, <2>1, ProxyStepsAreScheduled DEF ProxyInv
    <2>2. CASE UNCHANGED vars
      BY <2>2, IdleMain DEF vars
    <2> QED BY <2>1, <2>2
  <1>3. S!IInv'
    BY <1>1, <1>2, SchedulerKeeps
  <1>4. ProxyInv'
    BY <1>1, ProxyInvKept DEF S!TypeOK
  <1> QED BY <1>2, <1>3, <1>4 DEF IInv, ProxyInv

LEMMA InitRefines == Init => S!Init /\ IInv
  BY ProxyInvHoldsFirst, SchedulerKeeps, IInvInParts DEF Init

\* The invariant that the others follow from holds in every reachable state, for
\* every number of tasks that wait and everything the page and the output
\* surface do: a main frame, an output surface that is made, the event that the
\* main thread waits for, its visibility and its deferral are each in one place.
THEOREM IInvHolds == Spec => []IInv
  <1>1. IInv /\ [Next]_vars => IInv'
    BY StepRefines
  <1> QED BY <1>1, InitRefines, PTL DEF Spec

\* Every member keeps its type, those of the scheduler included.
THEOREM TypesAreKept == Spec => []TypeOK
  <1>1. IInv => TypeOK
    BY DEF IInv, S!IInv, TypeOK
  <1> QED BY <1>1, IInvHolds, PTL

\* The impl thread under the proxy implements Scheduler: visibility and deferral
\* come as changes, a surface only while one is made, and a commit or an aborted
\* frame only while one is sent, however the tasks of the threads interleave.
THEOREM ProxyImplementsScheduler == Spec => SchedulerSpec
  <1>1. IInv /\ [Next]_vars => [S!Next]_S!vars
    BY StepRefines
  <1>2. Init => S!Init
    BY DEF Init
  <1> QED BY <1>1, <1>2, IInvHolds, PTL DEF Spec, SchedulerSpec, S!Spec

\* A request that is not posted because one was posted before is on its way: in
\* a task, in the scheduler, or in a frame that will take it.
THEOREM RequestsAreNotForgotten == Spec => []RequestsTravel
  <1>1. IInv => RequestsTravel
    BY DEF IInv
  <1> QED BY <1>1, IInvHolds, PTL

\* While the main thread waits for its commit exactly one of the posted task,
\* the scheduler and the pending tree holds the event, and otherwise none does.
THEOREM CommitIsAwaited == Spec => []EventWillBeSignaled
  <1>1. IInv => EventWillBeSignaled
    BY DEF IInv
  <1> QED BY <1>1, IInvHolds, PTL
=============================================================================
