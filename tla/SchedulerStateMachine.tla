------------------------ MODULE SchedulerStateMachine ------------------------
(***************************************************************************)
(* cc::SchedulerStateMachine (cc/scheduler/scheduler_state_machine.{h,cc}):*)
(* the decisions of the compositor's scheduler.  The object is a record s  *)
(* with one field per member, named like it; each method that changes the  *)
(* object maps a record to a record, each const method is a predicate or a *)
(* value of the record.  The members that only tests and traces read (the  *)
(* frame numbers and the commit and swap counts) are left out.             *)
(***************************************************************************)
EXTENDS Integers

\* SchedulerSettings.
CONSTANTS
  using_synchronous_renderer_compositor,
  commit_to_active_tree,
  main_frame_before_activation_enabled,
  main_frame_while_swap_throttled_enabled,
  timeout_and_draw_when_animation_checkerboards,
  maximum_number_of_failed_draws_before_draw_is_forced

ASSUME SettingsAssumption ==
  /\ using_synchronous_renderer_compositor \in BOOLEAN
  /\ commit_to_active_tree \in BOOLEAN
  /\ main_frame_before_activation_enabled \in BOOLEAN
  /\ main_frame_while_swap_throttled_enabled \in BOOLEAN
  /\ timeout_and_draw_when_animation_checkerboards \in BOOLEAN
  /\ maximum_number_of_failed_draws_before_draw_is_forced \in Nat \ {0}

OutputSurfaceState ==
  {"NONE", "ACTIVE", "CREATING", "WAITING_FOR_FIRST_COMMIT",
   "WAITING_FOR_FIRST_ACTIVATION"}
BeginImplFrameState ==
  {"IDLE", "BEGIN_FRAME_STARTING", "INSIDE_BEGIN_FRAME", "INSIDE_DEADLINE"}
BeginImplFrameDeadlineMode ==
  {"NONE", "IMMEDIATE", "REGULAR", "LATE", "BLOCKED_ON_READY_TO_DRAW"}
BeginMainFrameState ==
  {"IDLE", "SENT", "STARTED", "READY_TO_COMMIT", "WAITING_FOR_ACTIVATION",
   "WAITING_FOR_DRAW"}
ForcedRedrawOnTimeoutState ==
  {"IDLE", "WAITING_FOR_COMMIT", "WAITING_FOR_ACTIVATION", "WAITING_FOR_DRAW"}
Action ==
  {"NONE", "ANIMATE", "SEND_BEGIN_MAIN_FRAME", "COMMIT", "ACTIVATE_SYNC_TREE",
   "DRAW_AND_SWAP_IF_POSSIBLE", "DRAW_AND_SWAP_FORCED", "DRAW_AND_SWAP_ABORT",
   "BEGIN_OUTPUT_SURFACE_CREATION", "PREPARE_TILES",
   "INVALIDATE_OUTPUT_SURFACE"}
\* The draw results that the drawing functions may return.
DrawResult ==
  {"SUCCESS", "ABORTED_CHECKERBOARD_ANIMATIONS",
   "ABORTED_MISSING_HIGH_RES_CONTENT"}
CommitEarlyOutReason ==
  {"ABORTED_OUTPUT_SURFACE_LOST", "ABORTED_NOT_VISIBLE",
   "ABORTED_DEFERRED_COMMIT", "FINISHED_NO_UPDATES"}

State ==
  [output_surface_state: OutputSurfaceState,
   begin_impl_frame_state: BeginImplFrameState,
   begin_main_frame_state: BeginMainFrameState,
   forced_redraw_state: ForcedRedrawOnTimeoutState,
   animate_funnel: BOOLEAN,
   request_swap_funnel: BOOLEAN,
   send_begin_main_frame_funnel: BOOLEAN,
   invalidate_output_surface_funnel: BOOLEAN,
   prepare_tiles_funnel: Nat,
   consecutive_checkerboard_animations: Nat,
   max_pending_swaps: Nat,
   pending_swaps: Int,
   needs_redraw: BOOLEAN,
   needs_animate: BOOLEAN,
   needs_prepare_tiles: BOOLEAN,
   needs_begin_main_frame: BOOLEAN,
   visible: BOOLEAN,
   can_draw: BOOLEAN,
   has_pending_tree: BOOLEAN,
   pending_tree_is_ready_for_activation: BOOLEAN,
   active_tree_needs_first_draw: BOOLEAN,
   did_create_and_initialize_first_output_surface: BOOLEAN,
   impl_latency_takes_priority: BOOLEAN,
   main_thread_missed_last_deadline: BOOLEAN,
   skip_next_begin_main_frame_to_reduce_latency: BOOLEAN,
   children_need_begin_frames: BOOLEAN,
   defer_commits: BOOLEAN,
   video_needs_begin_frames: BOOLEAN,
   last_commit_had_no_updates: BOOLEAN,
   wait_for_ready_to_draw: BOOLEAN,
   did_request_swap_in_last_frame: BOOLEAN,
   did_perform_swap_in_last_draw: BOOLEAN]

\* The constructor.
InitialState ==
  [output_surface_state |-> "NONE",
   begin_impl_frame_state |-> "IDLE",
   begin_main_frame_state |-> "IDLE",
   forced_redraw_state |-> "IDLE",
   animate_funnel |-> FALSE,
   request_swap_funnel |-> FALSE,
   send_begin_main_frame_funnel |-> TRUE,
   invalidate_output_surface_funnel |-> FALSE,
   prepare_tiles_funnel |-> 0,
   consecutive_checkerboard_animations |-> 0,
   max_pending_swaps |-> 1,
   pending_swaps |-> 0,
   needs_redraw |-> FALSE,
   needs_animate |-> FALSE,
   needs_prepare_tiles |-> FALSE,
   needs_begin_main_frame |-> FALSE,
   visible |-> FALSE,
   can_draw |-> FALSE,
   has_pending_tree |-> FALSE,
   pending_tree_is_ready_for_activation |-> FALSE,
   active_tree_needs_first_draw |-> FALSE,
   did_create_and_initialize_first_output_surface |-> FALSE,
   impl_latency_takes_priority |-> FALSE,
   main_thread_missed_last_deadline |-> FALSE,
   skip_next_begin_main_frame_to_reduce_latency |-> FALSE,
   children_need_begin_frames |-> FALSE,
   defer_commits |-> FALSE,
   video_needs_begin_frames |-> FALSE,
   last_commit_had_no_updates |-> FALSE,
   wait_for_ready_to_draw |-> FALSE,
   did_request_swap_in_last_frame |-> FALSE,
   did_perform_swap_in_last_draw |-> FALSE]

-----------------------------------------------------------------------------
(* What the scheduler should do next.                                      *)

HasInitializedOutputSurface(s) ==
  s.output_surface_state \in
    {"ACTIVE", "WAITING_FOR_FIRST_COMMIT", "WAITING_FOR_FIRST_ACTIVATION"}

SwapThrottled(s) == s.pending_swaps >= s.max_pending_swaps

CommitPending(s) ==
  s.begin_main_frame_state \in {"SENT", "STARTED", "READY_TO_COMMIT"}

\* Seeded bugs: the loss of the output surface is forgotten.
AbortedUnlessLost(s) ==
  ~s.can_draw \/ (~using_synchronous_renderer_compositor /\ ~s.visible)
ForcedUnlessLost(s) == ~s.visible

PendingDrawsShouldBeAborted(s) ==
  \/ s.output_surface_state = "NONE"
  \/ ~s.can_draw
  \/ ~using_synchronous_renderer_compositor /\ ~s.visible

PendingActivationsShouldBeForced(s) ==
  s.output_surface_state = "NONE" \/ ~s.visible

\* Seeded bug: the main thread may still be working on a frame.
CreationDuringMainFrame(s) ==
  /\ s.visible
  /\ s.begin_impl_frame_state = "IDLE"
  /\ ~s.active_tree_needs_first_draw
  /\ ~s.has_pending_tree
  /\ s.output_surface_state = "NONE"

ShouldBeginOutputSurfaceCreation(s) ==
  /\ s.visible
  /\ s.begin_main_frame_state = "IDLE"
  /\ s.begin_impl_frame_state = "IDLE"
  /\ ~s.active_tree_needs_first_draw
  /\ ~s.has_pending_tree
  /\ s.output_surface_state = "NONE"

ShouldDraw(s) ==
  IF PendingDrawsShouldBeAborted(s) THEN s.active_tree_needs_first_draw
  ELSE /\ ~s.request_swap_funnel
       /\ s.output_surface_state = "ACTIVE"
       /\ ~SwapThrottled(s)
       /\ s.begin_impl_frame_state = "INSIDE_DEADLINE"
       /\ s.forced_redraw_state = "WAITING_FOR_DRAW" \/ s.needs_redraw

ShouldActivatePendingTree(s) ==
  /\ s.has_pending_tree
  /\ ~s.active_tree_needs_first_draw
  /\ \/ PendingActivationsShouldBeForced(s)
     \/ s.pending_tree_is_ready_for_activation

ShouldAnimate(s) ==
  /\ ~s.animate_funnel
  /\ s.output_surface_state = "ACTIVE"
  /\ s.begin_impl_frame_state \in {"BEGIN_FRAME_STARTING", "INSIDE_DEADLINE"}
  /\ s.needs_redraw \/ s.needs_animate

CouldSendBeginMainFrame(s) ==
  s.needs_begin_main_frame /\ s.visible /\ ~s.defer_commits

SendingBeginMainFrameMightCauseDeadlock(s) ==
  s.has_pending_tree /\ s.active_tree_needs_first_draw /\ SwapThrottled(s)

JustSwappedInDeadline(s) ==
  s.begin_impl_frame_state = "INSIDE_DEADLINE" /\ s.did_perform_swap_in_last_draw

ShouldSendBeginMainFrame(s) ==
  /\ CouldSendBeginMainFrame(s)
  /\ ~s.send_begin_main_frame_funnel
  /\ s.begin_main_frame_state = "IDLE"
  /\ ~(/\ s.impl_latency_takes_priority
       /\ s.has_pending_tree \/ s.active_tree_needs_first_draw)
  /\ \/ using_synchronous_renderer_compositor
     \/ s.begin_impl_frame_state # "IDLE"
  /\ \/ s.forced_redraw_state = "WAITING_FOR_COMMIT"
     \/ /\ HasInitializedOutputSurface(s)
        /\ ~SendingBeginMainFrameMightCauseDeadlock(s)
        /\ \/ main_frame_while_swap_throttled_enabled
           \/ ~SwapThrottled(s)
           \/ JustSwappedInDeadline(s)
        /\ ~s.skip_next_begin_main_frame_to_reduce_latency

ShouldCommit(s) ==
  s.begin_main_frame_state = "READY_TO_COMMIT" /\ ~s.has_pending_tree

ShouldPrepareTiles(s) ==
  /\ s.prepare_tiles_funnel = 0
  /\ s.begin_impl_frame_state = "INSIDE_DEADLINE"
  /\ s.needs_prepare_tiles

ShouldInvalidateOutputSurface(s) ==
  /\ ~s.invalidate_output_surface_funnel
  /\ using_synchronous_renderer_compositor
  /\ s.begin_impl_frame_state = "BEGIN_FRAME_STARTING"
  /\ s.needs_redraw \/ s.needs_prepare_tiles

\* The first one that applies, in this order.
NextAction(s) ==
  IF ShouldActivatePendingTree(s) THEN "ACTIVATE_SYNC_TREE"
  ELSE IF ShouldCommit(s) THEN "COMMIT"
  ELSE IF ShouldAnimate(s) THEN "ANIMATE"
  ELSE IF ShouldDraw(s)
    THEN IF PendingDrawsShouldBeAborted(s) THEN "DRAW_AND_SWAP_ABORT"
         ELSE IF s.forced_redraw_state = "WAITING_FOR_DRAW"
           THEN "DRAW_AND_SWAP_FORCED" ELSE "DRAW_AND_SWAP_IF_POSSIBLE"
  ELSE IF ShouldPrepareTiles(s) THEN "PREPARE_TILES"
  ELSE IF ShouldSendBeginMainFrame(s) THEN "SEND_BEGIN_MAIN_FRAME"
  ELSE IF ShouldInvalidateOutputSurface(s) THEN "INVALIDATE_OUTPUT_SURFACE"
  ELSE IF ShouldBeginOutputSurfaceCreation(s)
    THEN "BEGIN_OUTPUT_SURFACE_CREATION"
  ELSE "NONE"

-----------------------------------------------------------------------------
(* BeginFrame messages and the deadline of a frame.                        *)

BeginFrameRequiredForAction(s) ==
  \/ s.forced_redraw_state = "WAITING_FOR_DRAW"
  \/ s.needs_animate
  \/ s.needs_redraw
  \/ s.needs_begin_main_frame /\ ~s.defer_commits

\* Seeded bug: no frame is wanted for preparing tiles.
ProactiveWithoutTiles(s) ==
  /\ s.visible
  /\ \/ s.begin_main_frame_state # "IDLE" /\ ~s.defer_commits
     \/ s.has_pending_tree
     \/ s.did_request_swap_in_last_frame
     \/ s.last_commit_had_no_updates

ProactiveBeginFrameWanted(s) ==
  /\ s.visible
  /\ \/ s.begin_main_frame_state # "IDLE" /\ ~s.defer_commits
     \/ s.has_pending_tree
     \/ s.needs_prepare_tiles
     \/ s.did_request_swap_in_last_frame
     \/ s.last_commit_had_no_updates

BeginFrameNeeded(s) ==
  /\ HasInitializedOutputSurface(s)
  /\ s.visible
  /\ \/ BeginFrameRequiredForAction(s)
     \/ s.children_need_begin_frames
     \/ s.video_needs_begin_frames
     \/ ProactiveBeginFrameWanted(s)

ShouldTriggerBeginImplFrameDeadlineImmediately(s) ==
  \/ PendingActivationsShouldBeForced(s) /\ ~s.has_pending_tree
  \/ /\ ~s.wait_for_ready_to_draw
     /\ ~SwapThrottled(s)
     /\ \/ s.active_tree_needs_first_draw
        \/ /\ s.needs_redraw
           /\ \/ s.begin_main_frame_state = "IDLE" /\ ~s.has_pending_tree
              \/ s.impl_latency_takes_priority

CurrentBeginImplFrameDeadlineMode(s) ==
  IF using_synchronous_renderer_compositor THEN "NONE"
  ELSE IF ShouldTriggerBeginImplFrameDeadlineImmediately(s) THEN "IMMEDIATE"
  ELSE IF s.wait_for_ready_to_draw THEN "BLOCKED_ON_READY_TO_DRAW"
  ELSE IF s.needs_redraw /\ ~SwapThrottled(s) THEN "REGULAR"
  ELSE "LATE"

OnlyImplSideUpdatesExpected(s) ==
  /\ s.needs_redraw \/ s.needs_animate
  /\ ~s.needs_begin_main_frame
  /\ s.begin_main_frame_state = "IDLE"
  /\ ~s.has_pending_tree

\* Seeded bugs: an empty funnel is drained; no funnel is drained.
DrainedBelowZero(funnel) == funnel - 1
NotDrained(funnel) == funnel

Drained(funnel) == IF funnel > 0 THEN funnel - 1 ELSE funnel

OnBeginImplFrame(s) ==
  [s EXCEPT !.begin_impl_frame_state = "BEGIN_FRAME_STARTING",
            !.last_commit_had_no_updates = FALSE,
            !.did_request_swap_in_last_frame = FALSE,
            !.animate_funnel = FALSE,
            !.send_begin_main_frame_funnel = FALSE,
            !.invalidate_output_surface_funnel = FALSE,
            !.prepare_tiles_funnel = Drained(@)]

OnBeginImplFrameDeadlinePending(s) ==
  [s EXCEPT !.begin_impl_frame_state = "INSIDE_BEGIN_FRAME"]

OnBeginImplFrameDeadline(s) ==
  [s EXCEPT !.begin_impl_frame_state = "INSIDE_DEADLINE",
            !.did_perform_swap_in_last_draw = FALSE,
            !.request_swap_funnel = FALSE,
            !.prepare_tiles_funnel =
              IF using_synchronous_renderer_compositor THEN Drained(@) ELSE @]

OnBeginImplFrameIdle(s) ==
  LET idle ==
        [s EXCEPT !.begin_impl_frame_state = "IDLE",
                  !.skip_next_begin_main_frame_to_reduce_latency = FALSE,
                  !.main_thread_missed_last_deadline =
                    \/ CommitPending(s)
                    \/ s.has_pending_tree
                    \/ s.active_tree_needs_first_draw]
  IN [idle EXCEPT !.send_begin_main_frame_funnel =
                    @ \/ ~BeginFrameNeeded(idle)]

-----------------------------------------------------------------------------
(* What the scheduler is about to do, or has done.                         *)

SetNeedsRedraw(s) == [s EXCEPT !.needs_redraw = TRUE]

WillAnimate(s) ==
  [s EXCEPT !.animate_funnel = TRUE, !.needs_animate = FALSE,
            !.needs_redraw = TRUE]

WillSendBeginMainFrame(s) ==
  [s EXCEPT !.begin_main_frame_state = "SENT",
            !.needs_begin_main_frame = FALSE,
            !.send_begin_main_frame_funnel = TRUE]

MainFrameAfterCommit(commit_has_no_updates) ==
  IF commit_has_no_updates \/ main_frame_before_activation_enabled
    THEN "IDLE" ELSE "WAITING_FOR_ACTIVATION"

ForcedRedrawAfterCommit(state, has_pending_tree) ==
  IF state # "WAITING_FOR_COMMIT" THEN state
  ELSE IF has_pending_tree THEN "WAITING_FOR_ACTIVATION"
                           ELSE "WAITING_FOR_DRAW"

WillCommit(s, commit_has_no_updates) ==
  LET has_pending_tree == ~commit_has_no_updates
      forced_redraw_state ==
        ForcedRedrawAfterCommit(s.forced_redraw_state, has_pending_tree)
      forced_draw ==
        commit_has_no_updates /\ forced_redraw_state = "WAITING_FOR_DRAW"
  IN [s EXCEPT
       !.animate_funnel = @ /\ commit_has_no_updates,
       !.begin_main_frame_state = MainFrameAfterCommit(commit_has_no_updates),
       !.has_pending_tree = has_pending_tree,
       !.wait_for_ready_to_draw = has_pending_tree /\ commit_to_active_tree,
       !.forced_redraw_state = forced_redraw_state,
       !.output_surface_state =
         IF @ # "WAITING_FOR_FIRST_COMMIT" THEN @
         ELSE IF has_pending_tree THEN "WAITING_FOR_FIRST_ACTIVATION"
                                  ELSE "ACTIVE",
       !.needs_redraw = @ \/ forced_draw,
       !.active_tree_needs_first_draw = @ \/ forced_draw,
       !.pending_tree_is_ready_for_activation = FALSE,
       !.last_commit_had_no_updates = commit_has_no_updates]

\* Seeded bug: the next main frame does not wait for the draw.
MainFrameFreeAfterActivation(state) ==
  IF state = "WAITING_FOR_ACTIVATION" THEN "IDLE" ELSE state

MainFrameAfterActivation(state) ==
  IF state # "WAITING_FOR_ACTIVATION" THEN state
  ELSE IF commit_to_active_tree THEN "WAITING_FOR_DRAW" ELSE "IDLE"

OutputSurfaceAfterActivation(state) ==
  IF state = "WAITING_FOR_FIRST_ACTIVATION" THEN "ACTIVE" ELSE state

WillActivate(s) ==
  [s EXCEPT
    !.begin_main_frame_state = MainFrameAfterActivation(@),
    !.output_surface_state = OutputSurfaceAfterActivation(@),
    !.forced_redraw_state =
      IF @ = "WAITING_FOR_ACTIVATION" THEN "WAITING_FOR_DRAW" ELSE @,
    !.has_pending_tree = FALSE,
    !.pending_tree_is_ready_for_activation = FALSE,
    !.active_tree_needs_first_draw = TRUE,
    !.needs_redraw = TRUE]

\* Seeded bug: the main thread goes on waiting for the draw.
MainFrameMissesDraw(state) == state

MainFrameAfterDraw(state) ==
  IF state = "WAITING_FOR_DRAW" THEN "IDLE" ELSE state

WillDraw(s, did_request_swap) ==
  [s EXCEPT
    !.forced_redraw_state = IF @ = "WAITING_FOR_DRAW" THEN "IDLE" ELSE @,
    !.begin_main_frame_state = MainFrameAfterDraw(@),
    !.needs_redraw = FALSE,
    !.active_tree_needs_first_draw = FALSE,
    !.request_swap_funnel = @ \/ did_request_swap,
    !.did_request_swap_in_last_frame = @ \/ did_request_swap]

WillPrepareTiles(s) == [s EXCEPT !.needs_prepare_tiles = FALSE]

WillBeginOutputSurfaceCreation(s) ==
  [s EXCEPT !.output_surface_state = "CREATING"]

WillInvalidateOutputSurface(s) ==
  [s EXCEPT !.invalidate_output_surface_funnel = TRUE,
            !.active_tree_needs_first_draw = FALSE]

DidSwapBuffers(s) ==
  [s EXCEPT !.pending_swaps = @ + 1, !.did_perform_swap_in_last_draw = TRUE]

DidSwapBuffersComplete(s) == [s EXCEPT !.pending_swaps = @ - 1]

DidPrepareTiles(s) ==
  [s EXCEPT !.needs_prepare_tiles = FALSE, !.prepare_tiles_funnel = @ + 1]

\* An aborted checkerboarded draw counts towards a forced draw, unless one is
\* on its way already.
DidCheckerboard(s) ==
  LET failures == s.consecutive_checkerboard_animations + 1
      force == /\ timeout_and_draw_when_animation_checkerboards
               /\ failures >= maximum_number_of_failed_draws_before_draw_is_forced
  IN IF s.forced_redraw_state # "IDLE" THEN [s EXCEPT !.needs_redraw = TRUE]
     ELSE [s EXCEPT
            !.needs_redraw = TRUE,
            !.needs_begin_main_frame = TRUE,
            !.consecutive_checkerboard_animations =
              IF force THEN 0 ELSE failures,
            !.forced_redraw_state = IF force THEN "WAITING_FOR_COMMIT" ELSE @]

DidDrawIfPossibleCompleted(s, result) ==
  CASE result = "SUCCESS" ->
         [s EXCEPT !.consecutive_checkerboard_animations = 0,
                   !.forced_redraw_state = "IDLE"]
    [] result = "ABORTED_CHECKERBOARD_ANIMATIONS" -> DidCheckerboard(s)
    [] result = "ABORTED_MISSING_HIGH_RES_CONTENT" ->
         [s EXCEPT !.needs_begin_main_frame = TRUE]

-----------------------------------------------------------------------------
(* What the client tells the scheduler.                                    *)

SetVisible(s, visible) ==
  IF s.visible = visible THEN s
  ELSE [s EXCEPT !.visible = visible,
                 !.main_thread_missed_last_deadline = @ /\ ~visible,
                 !.prepare_tiles_funnel = 0,
                 !.wait_for_ready_to_draw = FALSE]

SetSkipNextBeginMainFrameToReduceLatency(s) ==
  [s EXCEPT !.skip_next_begin_main_frame_to_reduce_latency = TRUE]

NotifyBeginMainFrameStarted(s) ==
  [s EXCEPT !.begin_main_frame_state = "STARTED"]

NotifyReadyToCommit(s) ==
  [s EXCEPT !.begin_main_frame_state = "READY_TO_COMMIT"]

BeginMainFrameAborted(s, reason) ==
  IF reason = "FINISHED_NO_UPDATES" THEN WillCommit(s, TRUE)
  ELSE [s EXCEPT !.begin_main_frame_state = "IDLE",
                 !.needs_begin_main_frame = TRUE]

DidLoseOutputSurface(s) ==
  IF s.output_surface_state \in {"NONE", "CREATING"} THEN s
  ELSE [s EXCEPT !.output_surface_state = "NONE",
                 !.needs_redraw = FALSE,
                 !.wait_for_ready_to_draw = FALSE]

NotifyReadyToActivate(s) ==
  [s EXCEPT !.pending_tree_is_ready_for_activation = @ \/ s.has_pending_tree]

NotifyReadyToDraw(s) == [s EXCEPT !.wait_for_ready_to_draw = FALSE]

DidCreateAndInitializeOutputSurface(s) ==
  [s EXCEPT
    !.output_surface_state = "WAITING_FOR_FIRST_COMMIT",
    !.needs_begin_main_frame =
      @ \/ s.did_create_and_initialize_first_output_surface,
    !.did_create_and_initialize_first_output_surface = TRUE,
    !.pending_swaps = 0,
    !.main_thread_missed_last_deadline = FALSE]
=============================================================================
