------------------------------ MODULE Scheduler ------------------------------
(***************************************************************************)
(* cc::Scheduler (cc/scheduler/scheduler.{h,cc}): the loop around the      *)
(* state machine on the compositor's impl thread.  A task of that thread   *)
(* (a call of the client, a BeginFrame message, the posted deadline, the   *)
(* posted retro frame) changes the state machine and then runs             *)
(* ProcessScheduledActions, which performs one action after another until  *)
(* the state machine wants none.  An action calls the client, and the      *)
(* client may call back: sm has changed when the action returns, but the   *)
(* nested ProcessScheduledActions does nothing.                            *)
(*                                                                         *)
(* The client is ThreadProxy or SingleThreadProxy with LayerTreeHostImpl   *)
(* (cc/trees): its calls may come whenever its code allows them.  Time is  *)
(* abstracted: a posted task may run at any time, and the estimates that   *)
(* decide whether to skip a frame may come out either way.                 *)
(***************************************************************************)
EXTENDS SchedulerStateMachine

CONSTANTS
  Calls,                \* what the client may call between tasks
  ReentrantCalls,       \* what it may call back from inside an action
  MaxPendingSwaps,      \* the numbers of swaps an output surface may allow
  LateBeginFrames,      \* a BeginFrame may still arrive after it was declined
  MaxRetroFrames        \* the bound on the queue of deferred BeginFrames

CallName ==
  {"SetVisible", "SetCanDraw", "SetNeedsRedraw", "SetNeedsAnimate",
   "SetNeedsBeginMainFrame", "SetNeedsPrepareTiles",
   "SetImplLatencyTakesPriority", "SetChildrenNeedBeginFrames",
   "SetVideoNeedsBeginFrames", "SetDeferCommits", "SetThrottleFrameProduction",
   "DidLoseOutputSurface", "BeginMainFrameAborted"}

ASSUME SchedulerAssumption ==
  /\ Calls \subseteq CallName
  /\ ReentrantCalls \subseteq CallName \ {"BeginMainFrameAborted"}
  /\ MaxPendingSwaps \subseteq Nat \ {0}
  /\ MaxPendingSwaps # {}
  /\ LateBeginFrames \in BOOLEAN
  /\ MaxRetroFrames \in Nat

VARIABLES
  sm,          \* state_machine_
  resume,      \* what the caller of the running ProcessScheduledActions does
               \* next; "none" if it does not run
               \* (inside_process_scheduled_actions_ is resume # "none")
  inside_action,                 \* inside_action_, while its client call lasts
  needs_begin_frames,            \* frame_source_->NeedsBeginFrames()
  begin_retro_frame_args,        \* the length of begin_retro_frame_args_
  begin_retro_frame_task,        \* begin_retro_frame_task_ is posted
  begin_impl_frame_deadline_task,
               \* "armed": not cancelled, and not posted either
  begin_impl_frame_deadline_mode,
  throttle_frame_production,
  pending_tree                   \* the client has a pending tree

frames == <<needs_begin_frames, begin_retro_frame_args, begin_retro_frame_task>>
deadline ==
  <<begin_impl_frame_deadline_task, begin_impl_frame_deadline_mode>>
vars == <<sm, resume, inside_action, frames, deadline,
          throttle_frame_production, pending_tree>>

Init ==
  /\ sm = InitialState
  /\ resume = "none"
  /\ inside_action = "NONE"
  /\ needs_begin_frames = FALSE
  /\ begin_retro_frame_args = 0
  /\ begin_retro_frame_task = FALSE
  /\ begin_impl_frame_deadline_task = "cancelled"
  /\ begin_impl_frame_deadline_mode = "NONE"
  /\ throttle_frame_production = TRUE
  /\ pending_tree = FALSE

Idle == sm.begin_impl_frame_state = "IDLE"

-----------------------------------------------------------------------------
(* ProcessScheduledActions: the actions.                                   *)

\* The loop is about to perform action a.
Performs(a) ==
  /\ resume # "none"
  /\ inside_action = "NONE"
  /\ NextAction(sm) = a

\* Action a begins: the state machine is told before the client is.
StartAction(a, s) ==
  /\ Performs(a)
  /\ sm' = s
  /\ inside_action' = a
  /\ UNCHANGED <<resume, frames, deadline, throttle_frame_production>>

\* An action that posts a task at most.
PostAction(a, s) ==
  /\ Performs(a)
  /\ sm' = s
  /\ UNCHANGED <<resume, inside_action, frames, deadline,
                 throttle_frame_production, pending_tree>>

\* The client returns from action a.
FinishAction(a, s) ==
  /\ inside_action = a
  /\ sm' = s
  /\ inside_action' = "NONE"
  /\ UNCHANGED <<resume, frames, deadline, throttle_frame_production>>

ActionAnimate ==
  StartAction("ANIMATE", WillAnimate(sm)) /\ UNCHANGED pending_tree

FinishAnimate == FinishAction("ANIMATE", sm) /\ UNCHANGED pending_tree

ActionSendBeginMainFrame ==
  PostAction("SEND_BEGIN_MAIN_FRAME", WillSendBeginMainFrame(sm))

\* LayerTreeHostImpl::BeginCommit makes the pending tree.
ActionCommit ==
  /\ StartAction("COMMIT", WillCommit(sm, FALSE))
  /\ pending_tree' = ~commit_to_active_tree

\* LayerTreeHostImpl::CommitComplete: if there are no new tiles to make it
\* tells that the tree is ready at once.
FinishCommit ==
  \E tile_priorities_dirty, did_prepare_tiles \in BOOLEAN :
    LET prepared ==
          IF tile_priorities_dirty THEN DidPrepareTiles(sm) ELSE sm
        activatable ==
          IF ~did_prepare_tiles \/ commit_to_active_tree
            THEN NotifyReadyToActivate(prepared) ELSE prepared
        drawable ==
          IF ~did_prepare_tiles /\ commit_to_active_tree
            THEN NotifyReadyToDraw(activatable) ELSE activatable
    IN /\ did_prepare_tiles => tile_priorities_dirty
       /\ FinishAction("COMMIT", drawable)
       /\ UNCHANGED pending_tree

ActionActivateSyncTree ==
  /\ StartAction("ACTIVATE_SYNC_TREE", WillActivate(sm))
  /\ pending_tree' = FALSE

FinishActivateSyncTree ==
  FinishAction("ACTIVATE_SYNC_TREE", sm) /\ UNCHANGED pending_tree

ActionDrawAndSwapIfPossible ==
  /\ StartAction("DRAW_AND_SWAP_IF_POSSIBLE", WillDraw(sm, TRUE))
  /\ UNCHANGED pending_tree

\* A frame without damage is drawn but not swapped.
FinishDrawAndSwapIfPossible ==
  \E result \in DrawResult, swapped \in BOOLEAN :
    /\ swapped => result = "SUCCESS"
    /\ FinishAction("DRAW_AND_SWAP_IF_POSSIBLE",
         DidDrawIfPossibleCompleted(
           IF swapped THEN DidSwapBuffers(sm) ELSE sm, result))
    /\ UNCHANGED pending_tree

ActionDrawAndSwapForced ==
  /\ StartAction("DRAW_AND_SWAP_FORCED", WillDraw(sm, TRUE))
  /\ UNCHANGED pending_tree

\* The result is ignored.  SingleThreadProxy expects never to be asked for it
\* (NOTREACHED) and draws nothing, though the state machine has counted a draw.
FinishDrawAndSwapForced ==
  \E swapped \in BOOLEAN :
    /\ swapped => ~commit_to_active_tree
    /\ FinishAction("DRAW_AND_SWAP_FORCED",
         IF swapped THEN DidSwapBuffers(sm) ELSE sm)
    /\ UNCHANGED pending_tree

ActionDrawAndSwapAbort ==
  PostAction("DRAW_AND_SWAP_ABORT", WillDraw(sm, FALSE))

ActionBeginOutputSurfaceCreation ==
  PostAction("BEGIN_OUTPUT_SURFACE_CREATION", WillBeginOutputSurfaceCreation(sm))

ActionPrepareTiles ==
  /\ StartAction("PREPARE_TILES", WillPrepareTiles(sm))
  /\ UNCHANGED pending_tree

\* LayerTreeHostImpl::PrepareTiles returns early if no priority has changed.
FinishPrepareTiles ==
  \E tile_priorities_dirty \in BOOLEAN :
    /\ FinishAction("PREPARE_TILES",
         IF tile_priorities_dirty THEN DidPrepareTiles(sm) ELSE sm)
    /\ UNCHANGED pending_tree

ActionInvalidateOutputSurface ==
  PostAction("INVALIDATE_OUTPUT_SURFACE", WillInvalidateOutputSurface(sm))

-----------------------------------------------------------------------------
(* ProcessScheduledActions: once there is nothing left to do.              *)

\* ScheduleBeginImplFrameDeadline posts nothing while it waits for ReadyToDraw.
DeadlineTaskOf(mode) ==
  IF mode = "BLOCKED_ON_READY_TO_DRAW" THEN "armed" ELSE "posted"

DeadlineIsScheduled(mode) ==
  /\ begin_impl_frame_deadline_mode = mode
  /\ begin_impl_frame_deadline_task # "cancelled"

ScheduleBeginImplFrameDeadlineIfNeeded ==
  LET mode == CurrentBeginImplFrameDeadlineMode(sm) IN
  IF \/ using_synchronous_renderer_compositor
     \/ sm.begin_impl_frame_state # "INSIDE_BEGIN_FRAME"
     \/ DeadlineIsScheduled(mode)
  THEN UNCHANGED deadline
  ELSE /\ begin_impl_frame_deadline_mode' = mode
       /\ begin_impl_frame_deadline_task' = DeadlineTaskOf(mode)

\* Begin frames are declined only between frames.
NeedsBeginFramesAfter ==
  BeginFrameNeeded(sm) \/ (needs_begin_frames /\ ~Idle)

\* The retro task is posted if there is something for it and it may run.
PostBeginRetroFrameIfNeeded(needs, args, task) ==
  task \/ (needs /\ args > 0 /\ Idle)

\* When begin frames are turned on, the source may hand over at once the one
\* that was missed.
SetupNextBeginFrameIfNeeded ==
  \E missed \in 0 .. 1 :
    /\ missed = 1 => /\ ~needs_begin_frames /\ BeginFrameNeeded(sm)
                     /\ ~using_synchronous_renderer_compositor
                     /\ begin_retro_frame_args < MaxRetroFrames
    /\ needs_begin_frames' = NeedsBeginFramesAfter
    /\ begin_retro_frame_args' = begin_retro_frame_args + missed
    /\ begin_retro_frame_task' =
         PostBeginRetroFrameIfNeeded(
           NeedsBeginFramesAfter, begin_retro_frame_args + missed,
           begin_retro_frame_task)

\* The caller goes on: BeginImplFrameWithDeadline waits for the deadline, and
\* FinishImplFrame runs ProcessScheduledActions a second time.
LeaveProcessScheduledActions ==
  /\ Performs("NONE")
  /\ ScheduleBeginImplFrameDeadlineIfNeeded
  /\ SetupNextBeginFrameIfNeeded
  /\ \/ resume = "return" /\ resume' = "none" /\ UNCHANGED sm
     \/ /\ resume = "deadline_pending" /\ resume' = "return"
        /\ sm' = OnBeginImplFrameDeadlinePending(sm)
     \/ /\ resume = "finish" /\ resume' = "return"
        /\ sm' = OnBeginImplFrameIdle(sm)
  /\ UNCHANGED <<inside_action, throttle_frame_production, pending_tree>>

ProcessScheduledActions ==
  \/ ActionAnimate \/ FinishAnimate
  \/ ActionSendBeginMainFrame
  \/ ActionCommit \/ FinishCommit
  \/ ActionActivateSyncTree \/ FinishActivateSyncTree
  \/ ActionDrawAndSwapIfPossible \/ FinishDrawAndSwapIfPossible
  \/ ActionDrawAndSwapForced \/ FinishDrawAndSwapForced
  \/ ActionDrawAndSwapAbort
  \/ ActionBeginOutputSurfaceCreation
  \/ ActionPrepareTiles \/ FinishPrepareTiles
  \/ ActionInvalidateOutputSurface
  \/ LeaveProcessScheduledActions

-----------------------------------------------------------------------------
(* Tasks of the impl thread: frames.                                       *)

\* No task runs, so one may start.
TaskStarts == resume = "none"

\* LayerTreeHostImpl::WillBeginImplFrame may ask for a redraw at once.
BeginImplFrame(s) ==
  /\ sm' \in {OnBeginImplFrame(s), SetNeedsRedraw(OnBeginImplFrame(s))}
  /\ resume' = IF using_synchronous_renderer_compositor
                 THEN "finish" ELSE "deadline_pending"

\* Seeded bug: latency is recovered that is not there.
RecoverMainLatencyAlways(can_commit_before_deadline) ==
  ~sm.impl_latency_takes_priority /\ can_commit_before_deadline

ShouldRecoverMainLatency(can_commit_before_deadline) ==
  /\ sm.main_thread_missed_last_deadline
  /\ ~sm.impl_latency_takes_priority
  /\ can_commit_before_deadline

ShouldRecoverImplLatency(can_commit, can_draw) ==
  /\ throttle_frame_production
  /\ SwapThrottled(sm)
  /\ IF sm.impl_latency_takes_priority \/ OnlyImplSideUpdatesExpected(sm)
       THEN can_draw ELSE can_commit

\* A frame that is skipped is dropped without ProcessScheduledActions.
BeginImplFrameWithDeadline ==
  \E can_commit, can_draw \in BOOLEAN :
    LET recover_main == ShouldRecoverMainLatency(can_commit)
        recover_impl == ShouldRecoverImplLatency(can_commit, can_draw)
    IN /\ can_commit => can_draw
       /\ \/ /\ recover_main
             /\ BeginImplFrame(SetSkipNextBeginMainFrameToReduceLatency(sm))
          \/ ~recover_main /\ recover_impl /\ UNCHANGED <<sm, resume>>
          \/ ~recover_main /\ ~recover_impl /\ BeginImplFrame(sm)

\* Seeded bug: a frame is not deferred while another one is in progress.
DeferBetweenFrames ==
  \/ begin_retro_frame_args > 0
  \/ begin_retro_frame_task
  \/ ~needs_begin_frames

ShouldDeferBeginFrame ==
  \/ begin_retro_frame_args > 0
  \/ begin_retro_frame_task
  \/ ~needs_begin_frames
  \/ ~Idle

OnBeginFrame ==
  /\ TaskStarts
  /\ needs_begin_frames \/ LateBeginFrames
  /\ \/ /\ using_synchronous_renderer_compositor
        /\ BeginImplFrame(sm)
        /\ UNCHANGED begin_retro_frame_args
     \/ /\ ~using_synchronous_renderer_compositor
        /\ ~ShouldDeferBeginFrame
        /\ BeginImplFrameWithDeadline
        /\ UNCHANGED begin_retro_frame_args
     \/ /\ ~using_synchronous_renderer_compositor
        /\ ShouldDeferBeginFrame
        /\ begin_retro_frame_args < MaxRetroFrames
        /\ begin_retro_frame_args' = begin_retro_frame_args + 1
        /\ UNCHANGED <<sm, resume>>
  /\ UNCHANGED <<inside_action, needs_begin_frames, begin_retro_frame_task,
                 deadline, throttle_frame_production, pending_tree>>

\* The frames that have expired are dropped, and the next one is started.
BeginRetroFrame ==
  /\ TaskStarts
  /\ begin_retro_frame_task
  /\ begin_retro_frame_task' = FALSE
  /\ \/ begin_retro_frame_args' = 0 /\ UNCHANGED <<sm, resume>>
     \/ \E expired \in 0 .. begin_retro_frame_args - 1 :
          /\ begin_retro_frame_args' = begin_retro_frame_args - expired - 1
          /\ BeginImplFrameWithDeadline
  /\ UNCHANGED <<inside_action, needs_begin_frames, deadline,
                 throttle_frame_production, pending_tree>>

BeginImplFrameDeadline ==
  /\ TaskStarts
  /\ begin_impl_frame_deadline_task = "posted"
  /\ begin_impl_frame_deadline_task' = "cancelled"
  /\ sm' = OnBeginImplFrameDeadline(sm)
  /\ resume' = "finish"
  /\ UNCHANGED <<inside_action, frames, begin_impl_frame_deadline_mode,
                 throttle_frame_production, pending_tree>>

\* The synchronous compositor draws when its output surface asks for it: the
\* surface stays in place after a loss, until the new one is being made.
OnDrawForOutputSurface ==
  /\ TaskStarts
  /\ using_synchronous_renderer_compositor
  /\ sm.did_create_and_initialize_first_output_surface
  /\ sm.output_surface_state # "CREATING"
  /\ sm' = OnBeginImplFrameDeadline(sm)
  /\ resume' = "finish"
  /\ UNCHANGED <<inside_action, frames, deadline, throttle_frame_production,
                 pending_tree>>

-----------------------------------------------------------------------------
(* Calls of the client.                                                    *)

MayCall(call) ==
  IF TaskStarts THEN call \in Calls
  ELSE inside_action # "NONE" /\ call \in ReentrantCalls

\* Every call ends with ProcessScheduledActions, which returns at once if it
\* runs already.
ProcessIfOutside == resume' = IF TaskStarts THEN "return" ELSE resume

Tell(call, s) ==
  /\ MayCall(call)
  /\ sm' = s
  /\ ProcessIfOutside
  /\ UNCHANGED <<inside_action, frames, deadline, throttle_frame_production,
                 pending_tree>>

\* LayerTreeHostImpl::SetVisible evicts tiles first when it gets invisible.
CallSetVisible ==
  \E evicted \in BOOLEAN :
    /\ evicted => sm.visible
    /\ Tell("SetVisible",
         SetVisible(IF evicted THEN DidPrepareTiles(sm) ELSE sm, ~sm.visible))

CallSetCanDraw ==
  Tell("SetCanDraw", [sm EXCEPT !.can_draw = ~@])

CallSetNeedsRedraw == Tell("SetNeedsRedraw", SetNeedsRedraw(sm))

CallSetNeedsAnimate ==
  Tell("SetNeedsAnimate", [sm EXCEPT !.needs_animate = TRUE])

CallSetNeedsBeginMainFrame ==
  Tell("SetNeedsBeginMainFrame", [sm EXCEPT !.needs_begin_main_frame = TRUE])

CallSetNeedsPrepareTiles ==
  /\ inside_action # "PREPARE_TILES"
  /\ Tell("SetNeedsPrepareTiles", [sm EXCEPT !.needs_prepare_tiles = TRUE])

CallSetImplLatencyTakesPriority ==
  Tell("SetImplLatencyTakesPriority",
       [sm EXCEPT !.impl_latency_takes_priority = ~@])

CallSetChildrenNeedBeginFrames ==
  Tell("SetChildrenNeedBeginFrames",
       [sm EXCEPT !.children_need_begin_frames = ~@])

CallSetVideoNeedsBeginFrames ==
  Tell("SetVideoNeedsBeginFrames", [sm EXCEPT !.video_needs_begin_frames = ~@])

CallSetDeferCommits ==
  Tell("SetDeferCommits", [sm EXCEPT !.defer_commits = ~@])

CallSetThrottleFrameProduction ==
  /\ MayCall("SetThrottleFrameProduction")
  /\ throttle_frame_production' = ~throttle_frame_production
  /\ ProcessIfOutside
  /\ UNCHANGED <<sm, inside_action, frames, deadline, pending_tree>>

\* The deferred frames of a lost output surface are dropped.
DropRetroFrames ==
  begin_retro_frame_args' = 0 /\ begin_retro_frame_task' = FALSE

CallDidLoseOutputSurface ==
  /\ MayCall("DidLoseOutputSurface")
  /\ sm' = DidLoseOutputSurface(sm)
  /\ DropRetroFrames
  /\ ProcessIfOutside
  /\ UNCHANGED <<inside_action, needs_begin_frames, deadline,
                 throttle_frame_production, pending_tree>>

\* A task of the client that tells the scheduler s.
Task(s) ==
  /\ TaskStarts
  /\ sm' = s
  /\ resume' = "return"
  /\ UNCHANGED <<inside_action, frames, deadline, throttle_frame_production,
                 pending_tree>>

\* ThreadProxy::InitializeOutputSurfaceOnImplThread, when it succeeds: the
\* renderer tells the number of swaps the surface allows.
InitializeOutputSurface ==
  /\ sm.output_surface_state = "CREATING"
  /\ \E max \in MaxPendingSwaps :
       Task(DidCreateAndInitializeOutputSurface(
              [sm EXCEPT !.max_pending_swaps = max]))

SwapBuffersComplete ==
  /\ sm.pending_swaps > 0
  /\ Task(DidSwapBuffersComplete(sm))

ReadyToActivate == Task(NotifyReadyToActivate(sm))

ReadyToDraw == Task(NotifyReadyToDraw(sm))

\* The main thread has prepared a commit, and is blocked until it is done.
StartCommitOnImplThread ==
  /\ sm.begin_main_frame_state = "SENT"
  /\ Task(NotifyReadyToCommit(NotifyBeginMainFrameStarted(sm)))

\* The main thread gives up its frame.  SingleThreadProxy never finds a frame
\* without updates.
AbortReasons ==
  IF commit_to_active_tree
    THEN CommitEarlyOutReason \ {"FINISHED_NO_UPDATES"}
    ELSE CommitEarlyOutReason

BeginMainFrameAbortedOnImplThread ==
  /\ "BeginMainFrameAborted" \in Calls
  /\ sm.begin_main_frame_state = "SENT"
  /\ \E reason \in AbortReasons : Task(BeginMainFrameAborted(sm, reason))

MainThreadAnswers ==
  StartCommitOnImplThread \/ BeginMainFrameAbortedOnImplThread

ClientCalls ==
  \/ CallSetVisible
  \/ CallSetCanDraw
  \/ CallSetNeedsRedraw
  \/ CallSetNeedsAnimate
  \/ CallSetNeedsBeginMainFrame
  \/ CallSetNeedsPrepareTiles
  \/ CallSetImplLatencyTakesPriority
  \/ CallSetChildrenNeedBeginFrames
  \/ CallSetVideoNeedsBeginFrames
  \/ CallSetDeferCommits
  \/ CallSetThrottleFrameProduction
  \/ CallDidLoseOutputSurface

Next ==
  \/ ProcessScheduledActions
  \/ OnBeginFrame
  \/ BeginRetroFrame
  \/ BeginImplFrameDeadline
  \/ OnDrawForOutputSurface
  \/ ClientCalls
  \/ InitializeOutputSurface
  \/ SwapBuffersComplete
  \/ ReadyToActivate
  \/ ReadyToDraw
  \/ MainThreadAnswers

Spec == Init /\ [][Next]_vars

\* The impl thread runs its tasks to the end, in the order they were posted;
\* the begin frame source keeps ticking; the display answers every swap, the
\* tile manager finishes the tiles of every tree, the main thread answers every
\* BeginMainFrame, and makes an output surface when it is asked to.
Fairness ==
  /\ WF_vars(ProcessScheduledActions)
  /\ SF_vars(BeginImplFrameDeadline)
  /\ SF_vars(BeginRetroFrame)
  /\ SF_vars(needs_begin_frames /\ OnBeginFrame)
  /\ SF_vars(SwapBuffersComplete)
  /\ SF_vars(/\ sm.has_pending_tree
             /\ ~sm.pending_tree_is_ready_for_activation
             /\ ReadyToActivate)
  /\ SF_vars(sm.wait_for_ready_to_draw /\ ReadyToDraw)
  /\ SF_vars(MainThreadAnswers)
  /\ SF_vars(InitializeOutputSurface)

-----------------------------------------------------------------------------
(* Properties.                                                             *)

Resume == {"none", "return", "deadline_pending", "finish"}
ClientAction ==
  {"ANIMATE", "COMMIT", "ACTIVATE_SYNC_TREE", "DRAW_AND_SWAP_IF_POSSIBLE",
   "DRAW_AND_SWAP_FORCED", "PREPARE_TILES"}

\* Every member keeps its type: an action is in progress only inside
\* ProcessScheduledActions.
TypeOK ==
  /\ sm \in State
  /\ sm.pending_swaps \in 0 .. sm.max_pending_swaps
  /\ resume \in Resume
  /\ inside_action \in ClientAction \cup {"NONE"}
  /\ resume = "none" => inside_action = "NONE"
  /\ needs_begin_frames \in BOOLEAN
  /\ begin_retro_frame_args \in 0 .. MaxRetroFrames
  /\ begin_retro_frame_task \in BOOLEAN
  /\ begin_impl_frame_deadline_task \in {"cancelled", "armed", "posted"}
  /\ begin_impl_frame_deadline_mode \in BeginImplFrameDeadlineMode
  /\ throttle_frame_production \in BOOLEAN
  /\ pending_tree \in BOOLEAN

\* "The pipeline should be flushed entirely before we start output surface
\* creation", and stays so until the surface is there (the DCHECKs of
\* WillBeginOutputSurfaceCreation and of DidCreateAndInitializeOutputSurface).
QuiescentCreation ==
  sm.output_surface_state = "CREATING" =>
    /\ sm.begin_main_frame_state = "IDLE"
    /\ ~sm.has_pending_tree /\ ~pending_tree
    /\ ~sm.active_tree_needs_first_draw
    /\ TaskStarts => ~needs_begin_frames
    /\ begin_impl_frame_deadline_task = "cancelled"

\* A frame starts only from the idle state, with an output surface and without
\* a deadline (the DCHECKs of BeginImplFrame).
FramesStartReady ==
  [][sm.begin_impl_frame_state # "BEGIN_FRAME_STARTING"
       /\ sm'.begin_impl_frame_state = "BEGIN_FRAME_STARTING"
     => /\ Idle
        /\ HasInitializedOutputSurface(sm)
        /\ begin_impl_frame_deadline_task = "cancelled"]_vars

\* A commit waits for the pending tree only when the main thread may run ahead
\* of activation, and a commit to the active tree never replaces a tree that
\* was not drawn (the DCHECKs of ShouldCommit and NotifyReadyToCommit).
CommitIsSafe ==
  sm.begin_main_frame_state = "READY_TO_COMMIT" =>
    /\ sm.has_pending_tree => main_frame_before_activation_enabled
    /\ commit_to_active_tree =>
         ~sm.has_pending_tree /\ ~sm.active_tree_needs_first_draw

\* Between tasks, without an output surface or while invisible, no tree is
\* left waiting in the pipeline: activations are forced and draws aborted.
PipelineFlushed ==
  TaskStarts /\ (sm.output_surface_state = "NONE"
                 \/ (~sm.visible /\ ~using_synchronous_renderer_compositor))
    => ~sm.has_pending_tree /\ ~sm.active_tree_needs_first_draw

\* Although commits fill the PrepareTiles funnel too and only frames drain it, it
\* never holds more than two fills, or three with the synchronous compositor,
\* which sends main frames between its frames as well.
PrepareTilesFunnelBounded ==
  sm.prepare_tiles_funnel <= IF using_synchronous_renderer_compositor
                               THEN 3 ELSE 2

-----------------------------------------------------------------------------
(* The inductive invariant behind the safety properties, in parts.         *)

\* A draw that may swap has room for its swap until it is done.
SwapHasRoom ==
  inside_action \in {"DRAW_AND_SWAP_IF_POSSIBLE", "DRAW_AND_SWAP_FORCED"} =>
    sm.pending_swaps < sm.max_pending_swaps

\* The frame advances with ProcessScheduledActions; a deadline is set only
\* inside a frame, a deferred frame is started only between frames, and begin
\* frames are wanted between frames only if the state machine needs them.
FramesInOrder ==
  /\ sm.begin_impl_frame_state = "BEGIN_FRAME_STARTING" <=> resume = "deadline_pending"
  /\ sm.begin_impl_frame_state = "INSIDE_DEADLINE" <=> resume = "finish"
  /\ begin_impl_frame_deadline_task # "cancelled" =>
       sm.begin_impl_frame_state = "INSIDE_BEGIN_FRAME"
  /\ begin_retro_frame_task => Idle /\ HasInitializedOutputSurface(sm)
  /\ TaskStarts /\ needs_begin_frames => ~Idle \/ BeginFrameNeeded(sm)

\* No frame and nothing in the pipeline while the output surface is made.
NothingWhileCreating ==
  sm.output_surface_state = "CREATING" =>
    /\ Idle
    /\ sm.begin_main_frame_state = "IDLE"
    /\ ~sm.has_pending_tree
    /\ ~sm.active_tree_needs_first_draw

\* The main thread is held back exactly while its tree is pending, and in a
\* commit to the active tree until that is drawn.
MainFrameHeldBack ==
  /\ sm.has_pending_tree <=> sm.begin_main_frame_state = "WAITING_FOR_ACTIVATION"
  /\ pending_tree => sm.has_pending_tree
  /\ commit_to_active_tree /\ sm.active_tree_needs_first_draw =>
       sm.begin_main_frame_state = "WAITING_FOR_DRAW"

\* A commit that is ready is made before the task that reported it ends.
CommitsAtOnce == sm.begin_main_frame_state = "READY_TO_COMMIT" => resume = "return"

\* What may still fill the funnel before a frame drains it: the commit of a
\* main frame that is out, the client's preparation in progress, the commit of
\* the main frame that this frame may still send.
One(condition) == IF condition THEN 1 ELSE 0
MaySend ==
  /\ ~sm.send_begin_main_frame_funnel
  /\ using_synchronous_renderer_compositor \/ ~Idle
  /\ ~(/\ ~using_synchronous_renderer_compositor
       /\ ~main_frame_before_activation_enabled
       /\ sm.begin_impl_frame_state = "INSIDE_DEADLINE"
       /\ CommitPending(sm))
FunnelPotential ==
  sm.prepare_tiles_funnel + One(CommitPending(sm))
    + One(inside_action \in {"COMMIT", "PREPARE_TILES"}) + One(MaySend)
FunnelLimit ==
  IF using_synchronous_renderer_compositor \/ main_frame_before_activation_enabled
    THEN 3 ELSE 2
FunnelWillNotOverflow ==
  /\ FunnelPotential <= FunnelLimit
  /\ inside_action = "PREPARE_TILES" => sm.prepare_tiles_funnel = 0

\* All of it: the frames follow each other in order except with the synchronous
\* compositor, and the main thread is held back unless the settings let it run
\* ahead of activation.
IInv ==
  /\ TypeOK
  /\ SwapHasRoom
  /\ PipelineFlushed
  /\ ~using_synchronous_renderer_compositor => FramesInOrder /\ NothingWhileCreating
  /\ ~main_frame_before_activation_enabled => MainFrameHeldBack /\ CommitsAtOnce
  /\ FunnelWillNotOverflow

-----------------------------------------------------------------------------
(* Liveness, under Fairness and what SteadySpec adds to it.                *)

\* A BeginMainFrame gets all the way through the pipeline: answered, committed,
\* activated, and drawn where the next one waits for that.
PipelineAdvances ==
  sm.begin_main_frame_state # "IDLE" ~> sm.begin_main_frame_state = "IDLE"

\* What the main thread needs is sent to it, unless it may not be sent:
\* recovering latency skips a BeginMainFrame only for a while.
MainFrameSent ==
  sm.needs_begin_main_frame
    ~> \/ sm.begin_main_frame_state = "SENT"
       \/ ~CouldSendBeginMainFrame(sm)
       \/ ~HasInitializedOutputSurface(sm)

\* A lost output surface is replaced if the compositor stays visible.
LostSurfaceRecreated ==
  sm.output_surface_state = "NONE" /\ sm.visible
    ~> HasInitializedOutputSurface(sm) \/ ~sm.visible

\* A request to prepare tiles is served, although commits fill the funnel too.
TilesPrepared ==
  sm.needs_prepare_tiles
    ~> \/ ~sm.needs_prepare_tiles
       \/ ~sm.visible
       \/ ~HasInitializedOutputSurface(sm)
=============================================================================
