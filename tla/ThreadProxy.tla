----------------------------- MODULE ThreadProxy -----------------------------
(***************************************************************************)
(* cc::ThreadProxy (cc/trees/thread_proxy.cc): the compositor on two       *)
(* threads.  The main thread runs the client (LayerTreeHost and the page), *)
(* the impl thread runs the scheduler; each posts tasks to the other, which*)
(* run in the order they were posted, and the main thread waits for some of*)
(* them on a completion event.  The impl thread is module Scheduler: here  *)
(* its calls come from the tasks of the proxy, and SchedulerSpec says that *)
(* they come only when Scheduler lets them come.                           *)
(***************************************************************************)
EXTENDS SchedulerStateMachine, Sequences

CONSTANTS
  HostCalls,            \* what LayerTreeHostImpl may call on its own
  MaxPendingSwaps,      \* the numbers of swaps an output surface may allow
  SwapAckWaitsForMain,  \* no swap is answered while the main thread is busy
  RequestedStages,      \* the stages of a frame the page may ask for
  MainCalls,            \* what else it may call
  MaxTasks              \* the page calls nothing while as many tasks wait

ProxyCalls ==
  {"SetVisible", "SetNeedsBeginMainFrame", "SetDeferCommits",
   "DidLoseOutputSurface", "BeginMainFrameAborted"}
MainCallName ==
  {"SetVisible", "SetDeferCommits", "SetNextCommitWaitsForActivation",
   "ReleaseOutputSurface"}

\* CommitPipelineStage.
NO_PIPELINE_STAGE == 0
ANIMATE_PIPELINE_STAGE == 1
UPDATE_LAYERS_PIPELINE_STAGE == 2
COMMIT_PIPELINE_STAGE == 3
CommitPipelineStage == NO_PIPELINE_STAGE .. COMMIT_PIPELINE_STAGE

\* Only SingleThreadProxy commits to the active tree.  The steps that only the
\* synchronous compositor takes are in Scheduler and not here.
ASSUME ThreadProxyAssumption ==
  /\ ~commit_to_active_tree
  /\ ~using_synchronous_renderer_compositor
  /\ HostCalls \subseteq {"SetCanDraw", "DidLoseOutputSurface"}
  /\ MaxPendingSwaps \subseteq Nat \ {0}
  /\ MaxPendingSwaps # {}
  /\ RequestedStages \subseteq CommitPipelineStage \ {NO_PIPELINE_STAGE}
  /\ MainCalls \subseteq MainCallName
  /\ SwapAckWaitsForMain \in BOOLEAN
  /\ MaxTasks \in Nat \ {0}

VARIABLES
  sm, resume, inside_action, needs_begin_frames, begin_retro_frame_args,
  begin_retro_frame_task, begin_impl_frame_deadline_task,
  begin_impl_frame_deadline_mode, throttle_frame_production, pending_tree,
               \* the impl thread, as in Scheduler
  main,        \* MainThreadOnly, MainThreadOrBlockedMainThread, LayerTreeHost
  impl,        \* CompositorThreadOnly: the completion events
  main_tasks,  \* the tasks posted to the main thread
  impl_tasks,  \* the tasks the main thread posted to the impl thread
  uncommitted  \* history: SetNeedsCommit was called since the last commit

S == INSTANCE Scheduler
  WITH Calls <- (HostCalls \ {"SetCanDraw"}) \cup ProxyCalls,
       ReentrantCalls <- HostCalls \cap {"SetCanDraw", "DidLoseOutputSurface"},
       LateBeginFrames <- FALSE,
       MaxRetroFrames <- 0

scheduler ==
  <<sm, resume, inside_action, needs_begin_frames, begin_retro_frame_args,
    begin_retro_frame_task, begin_impl_frame_deadline_task,
    begin_impl_frame_deadline_mode, throttle_frame_production, pending_tree>>
proxy == <<main, impl, main_tasks, impl_tasks, uncommitted>>
vars == <<scheduler, proxy>>

Init ==
  /\ S!Init
  /\ main = [max_requested_pipeline_stage |-> NO_PIPELINE_STAGE,
             current_pipeline_stage |-> NO_PIPELINE_STAGE,
             final_pipeline_stage |-> NO_PIPELINE_STAGE,
             defer_commits |-> FALSE,
             commit_waits_for_activation |-> FALSE,
             visible |-> FALSE,
             output_surface |-> "lost",
             waits_for |-> "nothing"]
  /\ impl = [commit_completion_event |-> FALSE,
             held_on_tree_activation |-> FALSE,
             completion |-> FALSE]
  /\ main_tasks = <<>>
  /\ impl_tasks = <<>>
  /\ uncommitted = FALSE

Larger(a, b) == IF a > b THEN a ELSE b

-----------------------------------------------------------------------------
(* The main thread: what the page calls.                                   *)

MainRuns == main.waits_for = "nothing"
MainIdle == MainRuns /\ main.current_pipeline_stage = NO_PIPELINE_STAGE

PageMayCall == MainRuns /\ Len(impl_tasks) < MaxTasks
MainCall(call) == call \in MainCalls /\ PageMayCall

PostToImpl(task) == impl_tasks' = Append(impl_tasks, task)

\* Seeded bug: a frame that runs is taken to serve the request.
SendCommitRequestBetweenFrames(m, required_stage) ==
  /\ main' = [m EXCEPT !.max_requested_pipeline_stage =
                Larger(@, required_stage)]
  /\ IF \/ m.max_requested_pipeline_stage # NO_PIPELINE_STAGE
        \/ m.current_pipeline_stage # NO_PIPELINE_STAGE
       THEN UNCHANGED impl_tasks
       ELSE PostToImpl(<<"SetNeedsCommit">>)

\* Only the first request since the last frame is told to the impl thread.
SendCommitRequestToImplThreadIfNeeded(m, required_stage) ==
  /\ main' = [m EXCEPT !.max_requested_pipeline_stage =
                Larger(@, required_stage)]
  /\ IF m.max_requested_pipeline_stage # NO_PIPELINE_STAGE
       THEN UNCHANGED impl_tasks
       ELSE PostToImpl(<<"SetNeedsCommit">>)

\* SetNeedsAnimate, SetNeedsUpdateLayers and SetNeedsCommit.  What is asked for
\* while a frame animates is done by that frame, which animates already.
RequestStage(m, stage) ==
  IF /\ m.current_pipeline_stage = ANIMATE_PIPELINE_STAGE
     /\ stage # ANIMATE_PIPELINE_STAGE
  THEN /\ main' = [m EXCEPT !.final_pipeline_stage = Larger(@, stage)]
       /\ UNCHANGED impl_tasks
  ELSE SendCommitRequestToImplThreadIfNeeded(m, stage)

SetNeeds ==
  \E stage \in RequestedStages :
    /\ PageMayCall
    /\ RequestStage(main, stage)
    /\ uncommitted' = (uncommitted \/ stage = COMMIT_PIPELINE_STAGE)
    /\ UNCHANGED <<scheduler, impl, main_tasks>>

SetNextCommitWaitsForActivation ==
  /\ MainCall("SetNextCommitWaitsForActivation")
  /\ ~main.commit_waits_for_activation
  /\ main' = [main EXCEPT !.commit_waits_for_activation = TRUE]
  /\ UNCHANGED <<scheduler, impl, main_tasks, impl_tasks, uncommitted>>

SetDeferCommits ==
  /\ MainCall("SetDeferCommits")
  /\ main' = [main EXCEPT !.defer_commits = ~@]
  /\ PostToImpl(<<"SetDeferCommits", ~main.defer_commits>>)
  /\ UNCHANGED <<scheduler, impl, main_tasks, uncommitted>>

\* The main thread waits until the impl thread has changed the visibility.
SetVisibleAndWait ==
  /\ MainCall("SetVisible")
  /\ MainIdle
  /\ main' = [main EXCEPT !.visible = ~@, !.waits_for = "task"]
  /\ PostToImpl(<<"SetVisible", ~main.visible>>)
  /\ UNCHANGED <<scheduler, impl, main_tasks, uncommitted>>

\* LayerTreeHost::DidLoseOutputSurface, then the impl thread is told.
ReleaseOutputSurface ==
  /\ MainCall("ReleaseOutputSurface")
  /\ MainIdle
  /\ ~main.visible
  /\ main.output_surface = "initialized"
  /\ main' = [main EXCEPT !.output_surface = "lost",
                          !.max_requested_pipeline_stage =
                            COMMIT_PIPELINE_STAGE,
                          !.waits_for = "task"]
  /\ impl_tasks' =
       Append(IF main.max_requested_pipeline_stage = NO_PIPELINE_STAGE
                THEN Append(impl_tasks, <<"SetNeedsCommit">>) ELSE impl_tasks,
              <<"ReleaseOutputSurface">>)
  /\ uncommitted' = TRUE
  /\ UNCHANGED <<scheduler, impl, main_tasks>>

\* The page makes the output surface it was asked for.
SetOutputSurface ==
  /\ MainIdle
  /\ main.output_surface = "requested"
  /\ main' = [main EXCEPT !.output_surface = "given"]
  /\ PostToImpl(<<"InitializeOutputSurface">>)
  /\ UNCHANGED <<scheduler, impl, main_tasks, uncommitted>>

MainThreadCalls ==
  \/ SetNeeds
  \/ SetNextCommitWaitsForActivation
  \/ SetDeferCommits
  \/ SetVisibleAndWait
  \/ ReleaseOutputSurface

-----------------------------------------------------------------------------
(* The main thread: tasks.                                                 *)

\* The main thread takes the task that was posted first.
MainTakes(task) ==
  /\ MainIdle
  /\ main_tasks # <<>>
  /\ Head(main_tasks) = task
  /\ main_tasks' = Tail(main_tasks)

\* Seeded bug: a frame that finds the page hidden returns without an answer.
AbortMainFrameUnanswered(reason, m) ==
  /\ main' = m
  /\ IF reason = "ABORTED_NOT_VISIBLE"
       THEN UNCHANGED impl_tasks
       ELSE PostToImpl(<<"BeginMainFrameAborted", reason>>)

\* BeginMainFrame gives the frame up before it starts.
AbortMainFrame(reason, m) ==
  /\ main' = m
  /\ PostToImpl(<<"BeginMainFrameAborted", reason>>)

\* The frame serves every request made before it.
FrameTakesRequests ==
  [main EXCEPT
    !.final_pipeline_stage = main.max_requested_pipeline_stage,
    !.max_requested_pipeline_stage = NO_PIPELINE_STAGE]

BeginMainFrame ==
  /\ MainTakes(<<"BeginMainFrame">>)
  /\ \/ /\ main.defer_commits
        /\ AbortMainFrame("ABORTED_DEFERRED_COMMIT", main)
     \/ /\ ~main.defer_commits
        /\ ~main.visible
        /\ AbortMainFrame("ABORTED_NOT_VISIBLE", FrameTakesRequests)
     \/ /\ ~main.defer_commits
        /\ main.visible
        /\ main.output_surface # "initialized"
        /\ AbortMainFrame("ABORTED_OUTPUT_SURFACE_LOST", FrameTakesRequests)
     \/ /\ ~main.defer_commits
        /\ main.visible
        /\ main.output_surface = "initialized"
        /\ main' = [FrameTakesRequests EXCEPT
                     !.current_pipeline_stage = ANIMATE_PIPELINE_STAGE]
        /\ UNCHANGED impl_tasks
  /\ UNCHANGED <<scheduler, impl, uncommitted>>

\* BeginMainFrame goes on: the page has been animated and laid out.
UpdateLayers ==
  /\ MainRuns
  /\ main.current_pipeline_stage = ANIMATE_PIPELINE_STAGE
  /\ main' = [main EXCEPT
               !.current_pipeline_stage = UPDATE_LAYERS_PIPELINE_STAGE]
  /\ UNCHANGED <<scheduler, impl, main_tasks, impl_tasks, uncommitted>>

\* A frame without a commit is cancelled unless a layer was updated, or UI
\* resources were evicted before it was sent.
FrameMayBeCancelled(updated, evicted_ui_resources) ==
  /\ ~updated
  /\ main.final_pipeline_stage < COMMIT_PIPELINE_STAGE
  /\ ~evicted_ui_resources

FinishMainFrame ==
  /\ MainRuns
  /\ main.current_pipeline_stage = UPDATE_LAYERS_PIPELINE_STAGE
  /\ \E updated, evicted_ui_resources \in BOOLEAN :
       /\ updated => main.final_pipeline_stage >= UPDATE_LAYERS_PIPELINE_STAGE
       /\ \/ /\ FrameMayBeCancelled(updated, evicted_ui_resources)
             /\ AbortMainFrame("FINISHED_NO_UPDATES",
                  [main EXCEPT !.current_pipeline_stage = NO_PIPELINE_STAGE])
          \/ /\ ~FrameMayBeCancelled(updated, evicted_ui_resources)
             /\ main' = [main EXCEPT
                          !.current_pipeline_stage = COMMIT_PIPELINE_STAGE,
                          !.waits_for = "commit"]
             /\ PostToImpl(<<"StartCommit">>)
  /\ UNCHANGED <<scheduler, impl, main_tasks, uncommitted>>

RequestNewOutputSurface ==
  /\ MainTakes(<<"RequestNewOutputSurface">>)
  /\ main' = [main EXCEPT !.output_surface = "requested"]
  /\ UNCHANGED <<scheduler, impl, impl_tasks, uncommitted>>

\* The page tries again if the surface could not be initialized.
DidInitializeOutputSurface ==
  \E success \in BOOLEAN :
    /\ MainTakes(<<"DidInitializeOutputSurface", success>>)
    /\ main' = [main EXCEPT !.output_surface =
                  IF success THEN "initialized" ELSE "requested"]
    /\ UNCHANGED <<scheduler, impl, impl_tasks, uncommitted>>

\* The main thread may know already, because it released the surface.
DidLoseOutputSurfaceOnMainThread ==
  /\ MainTakes(<<"DidLoseOutputSurface">>)
  /\ \/ /\ main.output_surface # "initialized"
        /\ UNCHANGED <<main, impl_tasks, uncommitted>>
     \/ /\ main.output_surface = "initialized"
        /\ RequestStage([main EXCEPT !.output_surface = "lost"],
                        COMMIT_PIPELINE_STAGE)
        /\ uncommitted' = TRUE
  /\ UNCHANGED <<scheduler, impl>>

MainThread ==
  \/ BeginMainFrame \/ UpdateLayers \/ FinishMainFrame
  \/ RequestNewOutputSurface
  \/ DidInitializeOutputSurface
  \/ DidLoseOutputSurfaceOnMainThread

-----------------------------------------------------------------------------
(* The impl thread: tasks of the main thread.                              *)

\* The impl thread takes the task that was posted first.
ImplTakes(task) ==
  /\ impl_tasks # <<>>
  /\ Head(impl_tasks) = task
  /\ impl_tasks' = Tail(impl_tasks)

\* Seeded bug: a frame that is pending is taken to serve the request.
SetNeedsCommitUnlessPending ==
  /\ ImplTakes(<<"SetNeedsCommit">>)
  /\ S!Task([sm EXCEPT !.needs_begin_main_frame = @ \/ ~CommitPending(sm)])
  /\ UNCHANGED <<main, impl, main_tasks, uncommitted>>

SetNeedsCommitOnImplThread ==
  /\ ImplTakes(<<"SetNeedsCommit">>)
  /\ S!Task([sm EXCEPT !.needs_begin_main_frame = TRUE])
  /\ UNCHANGED <<main, impl, main_tasks, uncommitted>>

SetDeferCommitsOnImplThread ==
  \E defer_commits \in BOOLEAN :
    /\ ImplTakes(<<"SetDeferCommits", defer_commits>>)
    /\ S!Task([sm EXCEPT !.defer_commits = defer_commits])
    /\ UNCHANGED <<main, impl, main_tasks, uncommitted>>

\* The completion event is signaled when the scheduler returns.
SetVisibleOnImplThread ==
  \E visible, evicted \in BOOLEAN :
    /\ ImplTakes(<<"SetVisible", visible>>)
    /\ evicted => sm.visible
    /\ S!Task(SetVisible(IF evicted THEN DidPrepareTiles(sm) ELSE sm, visible))
    /\ impl' = [impl EXCEPT !.completion = TRUE]
    /\ UNCHANGED <<main, main_tasks, uncommitted>>

ReleaseOutputSurfaceOnImplThread ==
  /\ ImplTakes(<<"ReleaseOutputSurface">>)
  /\ S!TaskStarts
  /\ S!CallDidLoseOutputSurface
  /\ impl' = [impl EXCEPT !.completion = TRUE]
  /\ UNCHANGED <<main, main_tasks, uncommitted>>

\* Seeded bug: the scheduler is told of a surface that failed too.
InitializeOutputSurfaceRegardless ==
  /\ ImplTakes(<<"InitializeOutputSurface">>)
  /\ \E success \in BOOLEAN, max \in MaxPendingSwaps :
       /\ main_tasks' =
            Append(main_tasks, <<"DidInitializeOutputSurface", success>>)
       /\ S!Task(DidCreateAndInitializeOutputSurface(
                   [sm EXCEPT !.max_pending_swaps = max]))
  /\ UNCHANGED <<main, impl, uncommitted>>

InitializeOutputSurfaceOnImplThread ==
  /\ ImplTakes(<<"InitializeOutputSurface">>)
  /\ S!TaskStarts
  /\ \E success \in BOOLEAN :
       /\ main_tasks' =
            Append(main_tasks, <<"DidInitializeOutputSurface", success>>)
       /\ \/ /\ success
             /\ \E max \in MaxPendingSwaps :
                  S!Task(DidCreateAndInitializeOutputSurface(
                           [sm EXCEPT !.max_pending_swaps = max]))
          \/ ~success /\ UNCHANGED scheduler
  /\ UNCHANGED <<main, impl, uncommitted>>

StartCommitOnImplThread ==
  /\ ImplTakes(<<"StartCommit">>)
  /\ S!Task(NotifyReadyToCommit(NotifyBeginMainFrameStarted(sm)))
  /\ impl' = [impl EXCEPT !.commit_completion_event = TRUE]
  /\ UNCHANGED <<main, main_tasks, uncommitted>>

BeginMainFrameAbortedOnImplThread ==
  \E reason \in CommitEarlyOutReason :
    /\ ImplTakes(<<"BeginMainFrameAborted", reason>>)
    /\ S!Task(BeginMainFrameAborted(sm, reason))
    /\ UNCHANGED <<main, impl, main_tasks, uncommitted>>

ImplThreadTasks ==
  \/ SetNeedsCommitOnImplThread
  \/ SetDeferCommitsOnImplThread
  \/ SetVisibleOnImplThread
  \/ ReleaseOutputSurfaceOnImplThread
  \/ InitializeOutputSurfaceOnImplThread
  \/ StartCommitOnImplThread
  \/ BeginMainFrameAbortedOnImplThread

-----------------------------------------------------------------------------
(* The impl thread: what the scheduler calls.                              *)

\* The main thread wakes up, and its frame ends if it was committing.
Released(m) ==
  [m EXCEPT !.waits_for = "nothing",
            !.current_pipeline_stage = NO_PIPELINE_STAGE]

ScheduledActionSendBeginMainFrame ==
  /\ S!ActionSendBeginMainFrame
  /\ main_tasks' = Append(main_tasks, <<"BeginMainFrame">>)
  /\ UNCHANGED <<main, impl, impl_tasks, uncommitted>>

ScheduledActionBeginOutputSurfaceCreation ==
  /\ S!ActionBeginOutputSurfaceCreation
  /\ main_tasks' = Append(main_tasks, <<"RequestNewOutputSurface">>)
  /\ UNCHANGED <<main, impl, impl_tasks, uncommitted>>

\* Seeded bug: the event is held and signaled.
CommitHoldsAndSignals ==
  /\ S!ActionCommit
  /\ impl' = [impl EXCEPT !.commit_completion_event = FALSE,
                          !.held_on_tree_activation =
                            main.commit_waits_for_activation]
  /\ main' = [Released(main) EXCEPT !.commit_waits_for_activation = FALSE]
  /\ uncommitted' = FALSE
  /\ UNCHANGED <<main_tasks, impl_tasks>>

\* The main thread goes on at once, or when the tree is activated if it asked
\* for that; it asks for one commit only.
ScheduledActionCommit ==
  /\ S!ActionCommit
  /\ LET hold_commit == main.commit_waits_for_activation IN
       /\ impl' = [impl EXCEPT !.commit_completion_event = FALSE,
                               !.held_on_tree_activation = hold_commit]
       /\ main' = [(IF hold_commit THEN main ELSE Released(main))
                     EXCEPT !.commit_waits_for_activation = FALSE]
  /\ uncommitted' = FALSE
  /\ UNCHANGED <<main_tasks, impl_tasks>>

\* Seeded bug: the flag, which the commit has cleared, says whether to signal.
ActivateSignalsIfAsked ==
  /\ S!FinishActivateSyncTree
  /\ impl' = [impl EXCEPT !.held_on_tree_activation = FALSE]
  /\ main' = IF main.commit_waits_for_activation THEN Released(main) ELSE main
  /\ UNCHANGED <<main_tasks, impl_tasks, uncommitted>>

\* LayerTreeHostImpl::ActivateSyncTree calls DidActivateSyncTree at its end.
DidActivateSyncTree ==
  /\ S!FinishActivateSyncTree
  /\ impl' = [impl EXCEPT !.held_on_tree_activation = FALSE]
  /\ main' = IF impl.held_on_tree_activation THEN Released(main) ELSE main
  /\ UNCHANGED <<main_tasks, impl_tasks, uncommitted>>

\* The surface is lost under the renderer: the main thread is told.
DidLoseOutputSurfaceOnImplThread ==
  /\ "DidLoseOutputSurface" \in HostCalls
  /\ HasInitializedOutputSurface(sm)
  /\ S!CallDidLoseOutputSurface
  /\ main_tasks' = Append(main_tasks, <<"DidLoseOutputSurface">>)
  /\ UNCHANGED <<main, impl, impl_tasks, uncommitted>>

\* The running task returns, and signals the event that waits for it.
LeaveProcessScheduledActions ==
  /\ S!LeaveProcessScheduledActions
  /\ IF resume = "return" /\ impl.completion
       THEN /\ impl' = [impl EXCEPT !.completion = FALSE]
            /\ main' = Released(main)
       ELSE UNCHANGED <<main, impl>>
  /\ UNCHANGED <<main_tasks, impl_tasks, uncommitted>>

\* What the proxy takes no part in.
ScheduledActions ==
  /\ \/ S!ActionAnimate \/ S!FinishAnimate
     \/ S!FinishCommit
     \/ S!ActionActivateSyncTree
     \/ S!ActionDrawAndSwapIfPossible \/ S!FinishDrawAndSwapIfPossible
     \/ S!ActionDrawAndSwapForced \/ S!FinishDrawAndSwapForced
     \/ S!ActionDrawAndSwapAbort
     \/ S!ActionPrepareTiles \/ S!FinishPrepareTiles
  /\ UNCHANGED proxy

ProcessScheduledActions ==
  \/ ScheduledActionSendBeginMainFrame
  \/ ScheduledActionBeginOutputSurfaceCreation
  \/ ScheduledActionCommit
  \/ DidActivateSyncTree
  \/ LeaveProcessScheduledActions
  \/ ScheduledActions

OnBeginFrame == S!OnBeginFrame /\ UNCHANGED proxy
BeginImplFrameDeadline == S!BeginImplFrameDeadline /\ UNCHANGED proxy
ReadyToActivate == S!ReadyToActivate /\ UNCHANGED proxy

\* LayerTreeHostImpl finds out whether it can draw when it activates a tree.
OnCanDrawStateChanged ==
  /\ inside_action = "ACTIVATE_SYNC_TREE"
  /\ S!CallSetCanDraw
  /\ UNCHANGED proxy

\* The browser's UI thread may be in a synchronous call to the main thread,
\* and answer no swap before the main thread has served it.
SwapBuffersComplete ==
  /\ SwapAckWaitsForMain => MainIdle
  /\ S!SwapBuffersComplete
  /\ UNCHANGED proxy

ImplThread ==
  \/ ProcessScheduledActions
  \/ OnBeginFrame
  \/ BeginImplFrameDeadline
  \/ ReadyToActivate
  \/ OnCanDrawStateChanged
  \/ SwapBuffersComplete
  \/ DidLoseOutputSurfaceOnImplThread

Next ==
  \/ MainThreadCalls
  \/ SetOutputSurface
  \/ MainThread
  \/ ImplThreadTasks
  \/ ImplThread

Spec == Init /\ [][Next]_vars

\* Both threads run their tasks, in the order they were posted; the begin frame
\* source keeps ticking, the tile manager finishes the tiles of every tree, the
\* display answers every swap unless it waits for the main thread, and the page
\* makes an output surface when it is asked to.
Fairness ==
  /\ WF_vars(ProcessScheduledActions)
  /\ SF_vars(ImplThreadTasks)
  /\ SF_vars(BeginImplFrameDeadline)
  /\ SF_vars(needs_begin_frames /\ OnBeginFrame)
  /\ SF_vars(/\ sm.has_pending_tree
             /\ ~sm.pending_tree_is_ready_for_activation
             /\ ReadyToActivate)
  /\ SF_vars(SwapBuffersComplete)
  /\ SF_vars(MainThread)
  /\ SF_vars(SetOutputSurface)

FairSpec == Spec /\ Fairness

-----------------------------------------------------------------------------
(* Properties.                                                             *)

MainTask ==
  {<<"BeginMainFrame">>, <<"RequestNewOutputSurface">>,
   <<"DidLoseOutputSurface">>}
    \cup ({"DidInitializeOutputSurface"} \X BOOLEAN)
ImplTask ==
  {<<"SetNeedsCommit">>, <<"ReleaseOutputSurface">>,
   <<"InitializeOutputSurface">>, <<"StartCommit">>}
    \cup ({"SetVisible", "SetDeferCommits"} \X BOOLEAN)
    \cup ({"BeginMainFrameAborted"} \X CommitEarlyOutReason)

MainState ==
  [max_requested_pipeline_stage: CommitPipelineStage,
   current_pipeline_stage: CommitPipelineStage,
   final_pipeline_stage: CommitPipelineStage,
   defer_commits: BOOLEAN,
   commit_waits_for_activation: BOOLEAN,
   visible: BOOLEAN,
   output_surface: {"lost", "requested", "given", "initialized"},
   waits_for: {"nothing", "task", "commit"}]
ProxyTypeOK ==
  /\ main \in MainState
  /\ impl \in [commit_completion_event: BOOLEAN,
               held_on_tree_activation: BOOLEAN,
               completion: BOOLEAN]
  /\ main_tasks \in Seq(MainTask)
  /\ impl_tasks \in Seq(ImplTask)
  /\ uncommitted \in BOOLEAN

TypeOK == S!TypeOK /\ ProxyTypeOK

Posted(tasks, task) == \E i \in DOMAIN tasks : tasks[i] = task

\* What the scheduler is told comes only when module Scheduler says that a
\* client tells it: visibility and deferral alternate, a surface is initialized
\* only while one is being made, and a frame is committed or aborted only while
\* it is pending (the DCHECKs of StartCommitOnImplThread,
\* BeginMainFrameAbortedOnImplThread and DidCreateAndInitializeOutputSurface).
SchedulerSpec == S!Spec

\* The request that was told only once is never forgotten on the way: it is
\* posted, or the scheduler wants a frame, or a frame is sent, or a deferred
\* frame will be sent again.
RequestsTravel ==
  main.max_requested_pipeline_stage # NO_PIPELINE_STAGE =>
    \/ Posted(impl_tasks, <<"SetNeedsCommit">>)
    \/ Posted(impl_tasks,
              <<"BeginMainFrameAborted", "ABORTED_DEFERRED_COMMIT">>)
    \/ sm.needs_begin_main_frame
    \/ Posted(main_tasks, <<"BeginMainFrame">>)

\* While the main thread waits for its commit, one of three holds the event it
\* waits on: the posted task, the scheduler until it commits, or the pending
\* tree until it is activated; otherwise nobody holds one.
EventWillBeSignaled ==
  LET posted == Posted(impl_tasks, <<"StartCommit">>)
      starts == impl.commit_completion_event
      held == impl.held_on_tree_activation
  IN /\ main.waits_for = "commit" <=> posted \/ starts \/ held
     /\ ~(posted /\ starts) /\ ~(posted /\ held) /\ ~(starts /\ held)
     /\ starts <=> sm.begin_main_frame_state = "READY_TO_COMMIT"
     /\ held => sm.has_pending_tree \/ inside_action = "ACTIVATE_SYNC_TREE"

-----------------------------------------------------------------------------
(* The inductive invariant behind the safety properties, in parts.         *)

\* A task with one of the names is posted; at most one is.
Waiting(tasks, names) == \E i \in DOMAIN tasks : tasks[i][1] \in names
AtMostOne(tasks, names) ==
  \A i, j \in DOMAIN tasks :
    tasks[i][1] \in names /\ tasks[j][1] \in names => i = j

\* A main frame that is sent is in one place: posted to the main thread, run by
\* it, or posted back as a commit or as aborted.
MainFrameIsSomewhere ==
  LET sent == Waiting(main_tasks, {"BeginMainFrame"})
      runs == main.current_pipeline_stage \in
                {ANIMATE_PIPELINE_STAGE, UPDATE_LAYERS_PIPELINE_STAGE}
      answered == Waiting(impl_tasks, {"StartCommit", "BeginMainFrameAborted"})
  IN /\ sm.begin_main_frame_state = "SENT" <=> sent \/ runs \/ answered
     /\ ~(sent /\ runs) /\ ~(sent /\ answered) /\ ~(runs /\ answered)
     /\ AtMostOne(main_tasks, {"BeginMainFrame"})
     /\ AtMostOne(impl_tasks, {"StartCommit", "BeginMainFrameAborted"})

\* An answer comes before the next time that a surface is asked for.
AnswersFirst(tasks) ==
  \A i, j \in DOMAIN tasks :
    /\ tasks[i][1] = "DidInitializeOutputSurface"
    /\ tasks[j][1] = "RequestNewOutputSurface"
    => i < j

\* An output surface that is being made is in one place: asked for, wanted from
\* the page, given to the impl thread, or to be wanted again because it failed.
OutputSurfaceIsSomewhere ==
  LET asked == Waiting(main_tasks, {"RequestNewOutputSurface"})
      wanted == main.output_surface = "requested"
      given == Waiting(impl_tasks, {"InitializeOutputSurface"})
      answered == Waiting(main_tasks, {"DidInitializeOutputSurface"})
      failed == Posted(main_tasks, <<"DidInitializeOutputSurface", FALSE>>)
  IN /\ sm.output_surface_state = "CREATING"
          <=> asked \/ wanted \/ given \/ failed
     /\ ~(asked /\ wanted) /\ ~(asked /\ given) /\ ~(asked /\ failed)
     /\ given \/ answered => main.output_surface = "given"
     /\ ~(given /\ answered)
     /\ AtMostOne(main_tasks, {"RequestNewOutputSurface"})
     /\ AtMostOne(main_tasks, {"DidInitializeOutputSurface"})
     /\ AtMostOne(impl_tasks, {"InitializeOutputSurface"})
     /\ AnswersFirst(main_tasks)

\* The main thread waits for one task, which is posted or about to return, or
\* for its commit.
MainThreadWaits ==
  LET posted == Waiting(impl_tasks, {"SetVisible", "ReleaseOutputSurface"}) IN
  /\ main.waits_for = "task" <=> posted \/ impl.completion
  /\ ~(posted /\ impl.completion)
  /\ AtMostOne(impl_tasks, {"SetVisible", "ReleaseOutputSurface"})
  /\ impl.completion => resume = "return"
  /\ main.waits_for = "task" =>
       main.current_pipeline_stage = NO_PIPELINE_STAGE
  /\ main.waits_for = "commit" <=>
       main.current_pipeline_stage = COMMIT_PIPELINE_STAGE
  /\ main.waits_for = "commit" =>
       ~Waiting(impl_tasks, {"BeginMainFrameAborted"})

\* The threads agree on the visibility, or the task that changes it is posted.
VisibilityIsTold ==
  IF Waiting(impl_tasks, {"SetVisible"})
    THEN /\ Posted(impl_tasks, <<"SetVisible", main.visible>>)
         /\ main.visible = ~sm.visible
    ELSE main.visible = sm.visible

\* The tasks change the deferral that the impl thread knows, one after another
\* and each to its opposite, into that of the main thread.
DeferralLeads(tasks, from, to) ==
  \E known \in [0 .. Len(tasks) -> BOOLEAN] :
    /\ known[0] = from
    /\ known[Len(tasks)] = to
    /\ \A i \in DOMAIN tasks :
         IF tasks[i][1] = "SetDeferCommits"
           THEN known[i] = ~known[i - 1] /\ tasks[i][2] = known[i]
           ELSE known[i] = known[i - 1]
DeferralIsTold ==
  DeferralLeads(impl_tasks, sm.defer_commits, main.defer_commits)

\* All of it, with what Scheduler keeps.
IInv ==
  /\ S!IInv
  /\ ProxyTypeOK
  /\ MainFrameIsSomewhere
  /\ OutputSurfaceIsSomewhere
  /\ MainThreadWaits
  /\ VisibilityIsTold
  /\ DeferralIsTold
  /\ EventWillBeSignaled
  /\ RequestsTravel

-----------------------------------------------------------------------------
(* Liveness, and the action property.                                      *)

\* The main thread is never blocked for ever, even if the display answers no
\* swap while it is.
MainReleased == main.waits_for # "nothing" ~> main.waits_for = "nothing"

\* Every request gets a frame that takes it, unless the page is hidden, defers
\* commits or has no output surface.
RequestServed ==
  main.max_requested_pipeline_stage # NO_PIPELINE_STAGE
    ~> \/ main.max_requested_pipeline_stage = NO_PIPELINE_STAGE
       \/ ~main.visible
       \/ main.defer_commits
       \/ main.output_surface # "initialized"

\* "Although the commit is internally aborted, this is because it has been
\* detected to be a no-op": a frame is cancelled only if no commit has been
\* asked for since the last one, or the next frame is asked to make it.
CancelledFrameIsNoOp ==
  [][/\ main.current_pipeline_stage = UPDATE_LAYERS_PIPELINE_STAGE
     /\ main'.current_pipeline_stage = NO_PIPELINE_STAGE
     => \/ ~uncommitted
        \/ main.max_requested_pipeline_stage = COMMIT_PIPELINE_STAGE]_vars
=============================================================================
