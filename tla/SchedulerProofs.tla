---------------------------- MODULE SchedulerProofs ----------------------------
(***************************************************************************)
(* What holds of the compositor's scheduler for all of its settings, calls *)
(* and bounds.  IInv is proved inductive one task and one action of        *)
(* ProcessScheduledActions at a time; each has a step for every part.      *)
(***************************************************************************)
EXTENDS Scheduler, TLAPS

-----------------------------------------------------------------------------
(* The record of the state machine keeps its type when a member is set.    *)

Flags ==
  {"animate_funnel", "request_swap_funnel", "send_begin_main_frame_funnel",
   "invalidate_output_surface_funnel", "needs_redraw", "needs_animate",
   "needs_prepare_tiles", "needs_begin_main_frame", "visible", "can_draw",
   "has_pending_tree", "pending_tree_is_ready_for_activation",
   "active_tree_needs_first_draw",
   "did_create_and_initialize_first_output_surface",
   "impl_latency_takes_priority", "main_thread_missed_last_deadline",
   "skip_next_begin_main_frame_to_reduce_latency", "children_need_begin_frames",
   "defer_commits", "video_needs_begin_frames", "last_commit_had_no_updates",
   "wait_for_ready_to_draw", "did_request_swap_in_last_frame",
   "did_perform_swap_in_last_draw"}

Counts ==
  {"prepare_tiles_funnel", "consecutive_checkerboard_animations",
   "max_pending_swaps"}

LEMMA SetFlag ==
  ASSUME NEW s \in State, NEW flag \in Flags, NEW v \in BOOLEAN
  PROVE  [s EXCEPT ![flag] = v] \in State
  BY SMTT(60) DEF State, Flags

LEMMA SetCount ==
  ASSUME NEW s \in State, NEW count \in Counts, NEW v \in Nat
  PROVE  [s EXCEPT ![count] = v] \in State
  BY SMTT(60) DEF State, Counts

LEMMA SetSwaps ==
  ASSUME NEW s \in State, NEW v \in Int
  PROVE  [s EXCEPT !.pending_swaps = v] \in State
  BY DEF State

LEMMA SetOutputSurface ==
  ASSUME NEW s \in State, NEW v \in OutputSurfaceState
  PROVE  [s EXCEPT !.output_surface_state = v] \in State
  BY DEF State

LEMMA SetFrame ==
  ASSUME NEW s \in State, NEW v \in BeginImplFrameState
  PROVE  [s EXCEPT !.begin_impl_frame_state = v] \in State
  BY DEF State

LEMMA SetMainFrame ==
  ASSUME NEW s \in State, NEW v \in BeginMainFrameState
  PROVE  [s EXCEPT !.begin_main_frame_state = v] \in State
  BY DEF State

LEMMA SetForcedRedraw ==
  ASSUME NEW s \in State, NEW v \in ForcedRedrawOnTimeoutState
  PROVE  [s EXCEPT !.forced_redraw_state = v] \in State
  BY DEF State

LEMMA Members ==
  ASSUME NEW s \in State
  PROVE  /\ s.output_surface_state \in OutputSurfaceState
         /\ s.begin_impl_frame_state \in BeginImplFrameState
         /\ s.begin_main_frame_state \in BeginMainFrameState
         /\ s.forced_redraw_state \in ForcedRedrawOnTimeoutState
         /\ \A flag \in Flags : s[flag] \in BOOLEAN
         /\ \A count \in Counts : s[count] \in Nat
         /\ s.pending_swaps \in Int
  BY SMTT(60) DEF State, Flags, Counts

-----------------------------------------------------------------------------
(* So does every method.                                                   *)

LEMMA InitialTyped == InitialState \in State
  BY DEF InitialState, State, OutputSurfaceState, BeginImplFrameState,
         BeginMainFrameState, ForcedRedrawOnTimeoutState

\* What the values of members are made of.
LEMMA Booleans ==
  /\ TRUE \in BOOLEAN /\ FALSE \in BOOLEAN
  /\ \A x, y \in BOOLEAN : /\ (x /\ y) \in BOOLEAN
                           /\ (x \/ y) \in BOOLEAN
                           /\ (~x) \in BOOLEAN
  OBVIOUS

LEMMA FrameTyped ==
  ASSUME NEW s \in State
  PROVE  /\ OnBeginImplFrame(s) \in State
         /\ OnBeginImplFrameDeadlinePending(s) \in State
         /\ OnBeginImplFrameDeadline(s) \in State
  <1>1. /\ {"last_commit_had_no_updates", "did_request_swap_in_last_frame", "animate_funnel",
            "send_begin_main_frame_funnel", "invalidate_output_surface_funnel",
            "did_perform_swap_in_last_draw", "request_swap_funnel"} \subseteq Flags
        /\ "prepare_tiles_funnel" \in Counts
    BY DEF Flags, Counts
  <1>2. {"BEGIN_FRAME_STARTING", "INSIDE_BEGIN_FRAME", "INSIDE_DEADLINE"} \subseteq BeginImplFrameState
    BY DEF BeginImplFrameState
  <1>3. /\ Drained(s.prepare_tiles_funnel) \in Nat
        /\ (IF using_synchronous_renderer_compositor
              THEN Drained(s.prepare_tiles_funnel) ELSE s.prepare_tiles_funnel) \in Nat
    BY Members DEF Counts, Drained
  <1>4. OnBeginImplFrame(s) \in State
    BY <1>1, <1>2, <1>3, Booleans, SetFlag, SetFrame, SetCount, Zenon DEF OnBeginImplFrame
  <1>5. OnBeginImplFrameDeadlinePending(s) \in State
    BY <1>2, SetFrame, Zenon DEF OnBeginImplFrameDeadlinePending
  <1>6. OnBeginImplFrameDeadline(s) \in State
    BY <1>1, <1>2, <1>3, Booleans, SetFlag, SetFrame, SetCount, Zenon
    DEF OnBeginImplFrameDeadline
  <1> QED
    BY <1>4, <1>5, <1>6

LEMMA FrameIdleTyped ==
  ASSUME NEW s \in State PROVE OnBeginImplFrameIdle(s) \in State
  <1>1. {"skip_next_begin_main_frame_to_reduce_latency", "main_thread_missed_last_deadline",
         "send_begin_main_frame_funnel"} \subseteq Flags
    BY DEF Flags
  <1>2. "IDLE" \in BeginImplFrameState
    BY DEF BeginImplFrameState
  <1>3. (CommitPending(s) \/ s.has_pending_tree \/ s.active_tree_needs_first_draw) \in BOOLEAN
    OBVIOUS
  <1> DEFINE idle ==
        [s EXCEPT !.begin_impl_frame_state = "IDLE",
                  !.skip_next_begin_main_frame_to_reduce_latency = FALSE,
                  !.main_thread_missed_last_deadline =
                    CommitPending(s) \/ s.has_pending_tree \/ s.active_tree_needs_first_draw]
  <1>4. idle \in State
    BY <1>1, <1>2, <1>3, Booleans, SetFlag, SetFrame, Zenon
  <1>5. (idle.send_begin_main_frame_funnel \/ ~BeginFrameNeeded(idle)) \in BOOLEAN
    OBVIOUS
  <1>6. [idle EXCEPT !.send_begin_main_frame_funnel =
           idle.send_begin_main_frame_funnel \/ ~BeginFrameNeeded(idle)] \in State
    <2> HIDE DEF idle
    <2> QED
      BY <1>1, <1>4, <1>5, SetFlag, Zenon
  <1> QED
    BY <1>6 DEF OnBeginImplFrameIdle

LEMMA CommitTyped ==
  ASSUME NEW s \in State, NEW no_updates \in BOOLEAN
  PROVE  WillCommit(s, no_updates) \in State
  <1>1. {"animate_funnel", "has_pending_tree", "wait_for_ready_to_draw", "needs_redraw",
         "active_tree_needs_first_draw", "pending_tree_is_ready_for_activation",
         "last_commit_had_no_updates"} \subseteq Flags
    BY DEF Flags
  <1>2. MainFrameAfterCommit(no_updates) \in BeginMainFrameState
    BY DEF MainFrameAfterCommit, BeginMainFrameState
  <1>3. \A has_pending_tree :
          ForcedRedrawAfterCommit(s.forced_redraw_state, has_pending_tree)
            \in ForcedRedrawOnTimeoutState
    BY Members DEF ForcedRedrawAfterCommit, ForcedRedrawOnTimeoutState
  <1>4. \A has_pending_tree :
          (IF s.output_surface_state # "WAITING_FOR_FIRST_COMMIT" THEN s.output_surface_state
           ELSE IF has_pending_tree THEN "WAITING_FOR_FIRST_ACTIVATION"
                                    ELSE "ACTIVE") \in OutputSurfaceState
    BY Members DEF OutputSurfaceState
  <1>5. /\ s.animate_funnel \in BOOLEAN
        /\ s.needs_redraw \in BOOLEAN
        /\ s.active_tree_needs_first_draw \in BOOLEAN
        /\ commit_to_active_tree \in BOOLEAN
    BY SettingsAssumption, Members DEF Flags
  <1>6. \A state : (no_updates /\ state = "WAITING_FOR_DRAW") \in BOOLEAN
    OBVIOUS
  <1> QED
    BY <1>1, <1>2, <1>3, <1>4, <1>5, <1>6, Booleans, SetFlag, SetMainFrame, SetForcedRedraw,
       SetOutputSurface, ZenonT(60) DEF WillCommit

LEMMA ActivationTyped ==
  ASSUME NEW s \in State PROVE WillActivate(s) \in State
  <1>1. {"has_pending_tree", "pending_tree_is_ready_for_activation",
         "active_tree_needs_first_draw", "needs_redraw"} \subseteq Flags
    BY DEF Flags
  <1>2. MainFrameAfterActivation(s.begin_main_frame_state) \in BeginMainFrameState
    BY Members DEF MainFrameAfterActivation, BeginMainFrameState
  <1>3. OutputSurfaceAfterActivation(s.output_surface_state) \in OutputSurfaceState
    BY Members DEF OutputSurfaceAfterActivation, OutputSurfaceState
  <1>4. (IF s.forced_redraw_state = "WAITING_FOR_ACTIVATION" THEN "WAITING_FOR_DRAW"
         ELSE s.forced_redraw_state) \in ForcedRedrawOnTimeoutState
    BY Members DEF ForcedRedrawOnTimeoutState
  <1> QED
    BY <1>1, <1>2, <1>3, <1>4, Booleans, SetFlag, SetMainFrame, SetForcedRedraw,
       SetOutputSurface, Zenon DEF WillActivate

LEMMA DrawTyped ==
  ASSUME NEW s \in State, NEW did_request_swap \in BOOLEAN
  PROVE  WillDraw(s, did_request_swap) \in State
  <1>1. {"needs_redraw", "active_tree_needs_first_draw", "request_swap_funnel",
         "did_request_swap_in_last_frame"} \subseteq Flags
    BY DEF Flags
  <1>2. MainFrameAfterDraw(s.begin_main_frame_state) \in BeginMainFrameState
    BY Members DEF MainFrameAfterDraw, BeginMainFrameState
  <1>3. (IF s.forced_redraw_state = "WAITING_FOR_DRAW" THEN "IDLE"
         ELSE s.forced_redraw_state) \in ForcedRedrawOnTimeoutState
    BY Members DEF ForcedRedrawOnTimeoutState
  <1>4. s.request_swap_funnel \in BOOLEAN /\ s.did_request_swap_in_last_frame \in BOOLEAN
    BY Members DEF Flags
  <1> QED
    BY <1>1, <1>2, <1>3, <1>4, Booleans, SetFlag, SetMainFrame, SetForcedRedraw, Zenon
    DEF WillDraw

LEMMA DrawCompletedTyped ==
  ASSUME NEW s \in State, NEW result \in DrawResult
  PROVE  DidDrawIfPossibleCompleted(s, result) \in State
  <1>1. /\ {"needs_redraw", "needs_begin_main_frame"} \subseteq Flags
        /\ "consecutive_checkerboard_animations" \in Counts
    BY DEF Flags, Counts
  <1>2. {"IDLE", "WAITING_FOR_COMMIT", s.forced_redraw_state} \subseteq ForcedRedrawOnTimeoutState
    BY Members DEF ForcedRedrawOnTimeoutState
  <1>3. 0 \in Nat /\ s.consecutive_checkerboard_animations + 1 \in Nat
    BY Members DEF Counts
  <1>4. \A force :
          /\ (IF force THEN 0 ELSE s.consecutive_checkerboard_animations + 1) \in Nat
          /\ (IF force THEN "WAITING_FOR_COMMIT" ELSE s.forced_redraw_state)
               \in ForcedRedrawOnTimeoutState
    BY <1>2, <1>3, Zenon
  <1>5. DidCheckerboard(s) \in State
    BY <1>1, <1>4, Booleans, SetFlag, SetCount, SetForcedRedraw, Zenon DEF DidCheckerboard
  <1>6. [s EXCEPT !.consecutive_checkerboard_animations = 0, !.forced_redraw_state = "IDLE"]
          \in State
    BY <1>1, <1>2, <1>3, SetCount, SetForcedRedraw, Zenon
  <1>7. [s EXCEPT !.needs_begin_main_frame = TRUE] \in State
    BY <1>1, Booleans, SetFlag, Zenon
  <1> QED
    BY <1>5, <1>6, <1>7 DEF DidDrawIfPossibleCompleted, DrawResult

LEMMA ActionsTyped ==
  ASSUME NEW s \in State
  PROVE  /\ SetNeedsRedraw(s) \in State
         /\ WillAnimate(s) \in State
         /\ WillSendBeginMainFrame(s) \in State
         /\ WillPrepareTiles(s) \in State
         /\ DidPrepareTiles(s) \in State
         /\ WillBeginOutputSurfaceCreation(s) \in State
         /\ WillInvalidateOutputSurface(s) \in State
         /\ DidSwapBuffers(s) \in State
         /\ DidSwapBuffersComplete(s) \in State
  <1>1. /\ {"animate_funnel", "needs_animate", "needs_redraw", "needs_begin_main_frame",
            "send_begin_main_frame_funnel", "needs_prepare_tiles",
            "invalidate_output_surface_funnel", "active_tree_needs_first_draw",
            "did_perform_swap_in_last_draw"} \subseteq Flags
        /\ "prepare_tiles_funnel" \in Counts
    BY DEF Flags, Counts
  <1>2. "SENT" \in BeginMainFrameState /\ "CREATING" \in OutputSurfaceState
    BY DEF BeginMainFrameState, OutputSurfaceState
  <1>3. /\ s.prepare_tiles_funnel + 1 \in Nat
        /\ s.pending_swaps + 1 \in Int
        /\ s.pending_swaps - 1 \in Int
    BY Members DEF Counts
  <1>4. SetNeedsRedraw(s) \in State
    BY <1>1, Booleans, SetFlag, Zenon DEF SetNeedsRedraw
  <1>5. WillAnimate(s) \in State
    BY <1>1, Booleans, SetFlag, Zenon DEF WillAnimate
  <1>6. WillSendBeginMainFrame(s) \in State
    BY <1>1, <1>2, Booleans, SetFlag, SetMainFrame, Zenon DEF WillSendBeginMainFrame
  <1>7. WillPrepareTiles(s) \in State
    BY <1>1, Booleans, SetFlag, Zenon DEF WillPrepareTiles
  <1>8. DidPrepareTiles(s) \in State
    BY <1>1, <1>3, Booleans, SetFlag, SetCount, Zenon DEF DidPrepareTiles
  <1>9. WillBeginOutputSurfaceCreation(s) \in State
    BY <1>2, SetOutputSurface, Zenon DEF WillBeginOutputSurfaceCreation
  <1>10. WillInvalidateOutputSurface(s) \in State
    BY <1>1, Booleans, SetFlag, Zenon DEF WillInvalidateOutputSurface
  <1>11. DidSwapBuffers(s) \in State
    BY <1>1, <1>3, Booleans, SetFlag, SetSwaps, Zenon DEF DidSwapBuffers
  <1>12. DidSwapBuffersComplete(s) \in State
    BY <1>3, SetSwaps, Zenon DEF DidSwapBuffersComplete
  <1> QED
    BY <1>4, <1>5, <1>6, <1>7, <1>8, <1>9, <1>10, <1>11, <1>12

LEMMA NotificationsTyped ==
  ASSUME NEW s \in State
  PROVE  /\ SetSkipNextBeginMainFrameToReduceLatency(s) \in State
         /\ NotifyBeginMainFrameStarted(s) \in State
         /\ NotifyReadyToCommit(s) \in State
         /\ \A reason : BeginMainFrameAborted(s, reason) \in State
         /\ DidLoseOutputSurface(s) \in State
         /\ NotifyReadyToActivate(s) \in State
         /\ NotifyReadyToDraw(s) \in State
         /\ DidCreateAndInitializeOutputSurface(s) \in State
         /\ \A visible \in BOOLEAN : SetVisible(s, visible) \in State
  <1>1. /\ {"skip_next_begin_main_frame_to_reduce_latency", "needs_begin_main_frame",
            "needs_redraw", "wait_for_ready_to_draw", "pending_tree_is_ready_for_activation",
            "did_create_and_initialize_first_output_surface", "visible",
            "main_thread_missed_last_deadline"} \subseteq Flags
        /\ "prepare_tiles_funnel" \in Counts
    BY DEF Flags, Counts
  <1>2. /\ {"STARTED", "READY_TO_COMMIT", "IDLE"} \subseteq BeginMainFrameState
        /\ {"NONE", "WAITING_FOR_FIRST_COMMIT"} \subseteq OutputSurfaceState
    BY DEF BeginMainFrameState, OutputSurfaceState
  <1>3. /\ s.pending_tree_is_ready_for_activation \in BOOLEAN
        /\ s.has_pending_tree \in BOOLEAN
        /\ s.needs_begin_main_frame \in BOOLEAN
        /\ s.main_thread_missed_last_deadline \in BOOLEAN
        /\ s.did_create_and_initialize_first_output_surface \in BOOLEAN
        /\ 0 \in Nat /\ 0 \in Int
    BY Members DEF Flags
  <1>4. SetSkipNextBeginMainFrameToReduceLatency(s) \in State
    BY <1>1, Booleans, SetFlag, Zenon DEF SetSkipNextBeginMainFrameToReduceLatency
  <1>5. NotifyBeginMainFrameStarted(s) \in State /\ NotifyReadyToCommit(s) \in State
    BY <1>2, SetMainFrame, Zenon DEF NotifyBeginMainFrameStarted, NotifyReadyToCommit
  <1>6. \A reason : BeginMainFrameAborted(s, reason) \in State
    BY <1>1, <1>2, Booleans, SetFlag, SetMainFrame, CommitTyped, Zenon
    DEF BeginMainFrameAborted
  <1>7. DidLoseOutputSurface(s) \in State
    BY <1>1, <1>2, Booleans, SetFlag, SetOutputSurface, Zenon DEF DidLoseOutputSurface
  <1>8. NotifyReadyToActivate(s) \in State /\ NotifyReadyToDraw(s) \in State
    BY <1>1, <1>3, Booleans, SetFlag, Zenon DEF NotifyReadyToActivate, NotifyReadyToDraw
  <1>9. DidCreateAndInitializeOutputSurface(s) \in State
    BY <1>1, <1>2, <1>3, Booleans, SetFlag, SetSwaps, SetOutputSurface, Zenon
    DEF DidCreateAndInitializeOutputSurface
  <1>10. \A visible \in BOOLEAN : SetVisible(s, visible) \in State
    BY <1>1, <1>3, Booleans, SetFlag, SetCount, Zenon DEF SetVisible
  <1> QED
    BY <1>4, <1>5, <1>6, <1>7, <1>8, <1>9, <1>10, Zenon

-----------------------------------------------------------------------------
(* What the calls of the client and the start of a frame change.           *)

\* A call changes what is asked for, may lose the output surface and may empty
\* the funnel of PrepareTiles, and asks for ProcessScheduledActions.
LEMMA CallsChange ==
  ASSUME TypeOK, ClientCalls
  PROVE  /\ sm' \in State
         /\ resume' = IF TaskStarts THEN "return" ELSE resume
         /\ UNCHANGED <<inside_action, needs_begin_frames, deadline, pending_tree>>
         /\ begin_retro_frame_args' \in {begin_retro_frame_args, 0}
         /\ begin_retro_frame_task' \in {begin_retro_frame_task, FALSE}
         /\ throttle_frame_production' \in BOOLEAN
         /\ sm'.begin_impl_frame_state = sm.begin_impl_frame_state
         /\ sm'.begin_main_frame_state = sm.begin_main_frame_state
         /\ sm'.has_pending_tree = sm.has_pending_tree
         /\ sm'.active_tree_needs_first_draw = sm.active_tree_needs_first_draw
         /\ sm'.send_begin_main_frame_funnel = sm.send_begin_main_frame_funnel
         /\ sm'.pending_swaps = sm.pending_swaps
         /\ sm'.max_pending_swaps = sm.max_pending_swaps
         /\ sm'.prepare_tiles_funnel \in {sm.prepare_tiles_funnel, 0}
         /\ \/ sm'.output_surface_state = sm.output_surface_state
            \/ sm'.output_surface_state = "NONE" /\ ~begin_retro_frame_task'
  <1>0. sm \in State /\ throttle_frame_production \in BOOLEAN
    BY DEF TypeOK
  <1>1. \A flag \in Flags, v \in BOOLEAN : [sm EXCEPT ![flag] = v] \in State
    BY <1>0, SetFlag, Zenon
  <1>2. /\ {"needs_redraw", "needs_animate", "needs_begin_main_frame", "needs_prepare_tiles",
            "can_draw", "impl_latency_takes_priority", "children_need_begin_frames",
            "video_needs_begin_frames", "defer_commits"} \subseteq Flags
        /\ {~sm.can_draw, ~sm.impl_latency_takes_priority, ~sm.children_need_begin_frames,
            ~sm.video_needs_begin_frames, ~sm.defer_commits, ~sm.visible, TRUE} \subseteq BOOLEAN
    BY DEF Flags
  <1>3. CASE CallSetVisible
    <2>1. PICK evicted \in BOOLEAN :
            Tell("SetVisible",
                 SetVisible(IF evicted THEN DidPrepareTiles(sm) ELSE sm, ~sm.visible))
      BY <1>3 DEF CallSetVisible
    <2>2. sm' \in State
      BY <1>0, <1>2, <2>1, ActionsTyped, NotificationsTyped, Zenon DEF Tell
    <2> QED
      BY <1>0, <2>1, <2>2 DEF Tell, SetVisible, DidPrepareTiles, ProcessIfOutside, frames,
        State
  <1>4. CASE CallSetCanDraw
    <2>1. sm' \in State
      BY <1>1, <1>2, <1>4, Zenon DEF CallSetCanDraw, Tell
    <2> QED
      BY <1>0, <1>4, <2>1 DEF CallSetCanDraw, Tell, ProcessIfOutside, frames, State
  <1>5. CASE CallSetNeedsRedraw
    <2>1. sm' \in State
      BY <1>0, <1>5, ActionsTyped, Zenon DEF CallSetNeedsRedraw, Tell
    <2> QED
      BY <1>0, <1>5, <2>1
      DEF CallSetNeedsRedraw, SetNeedsRedraw, Tell, ProcessIfOutside, frames, State
  <1>6. CASE CallSetNeedsAnimate
    <2>1. sm' \in State
      BY <1>1, <1>2, <1>6, Zenon DEF CallSetNeedsAnimate, Tell
    <2> QED
      BY <1>0, <1>6, <2>1 DEF CallSetNeedsAnimate, Tell, ProcessIfOutside, frames, State
  <1>7. CASE CallSetNeedsBeginMainFrame
    <2>1. sm' \in State
      BY <1>1, <1>2, <1>7, Zenon DEF CallSetNeedsBeginMainFrame, Tell
    <2> QED
      BY <1>0, <1>7, <2>1
      DEF CallSetNeedsBeginMainFrame, Tell, ProcessIfOutside, frames, State
  <1>8. CASE CallSetNeedsPrepareTiles
    <2>1. sm' \in State
      BY <1>1, <1>2, <1>8, Zenon DEF CallSetNeedsPrepareTiles, Tell
    <2> QED
      BY <1>0, <1>8, <2>1
      DEF CallSetNeedsPrepareTiles, Tell, ProcessIfOutside, frames, State
  <1>9. CASE CallSetImplLatencyTakesPriority
    <2>1. sm' \in State
      BY <1>1, <1>2, <1>9, Zenon DEF CallSetImplLatencyTakesPriority, Tell
    <2> QED
      BY <1>0, <1>9, <2>1
      DEF CallSetImplLatencyTakesPriority, Tell, ProcessIfOutside, frames, State
  <1>10. CASE CallSetChildrenNeedBeginFrames
    <2>1. sm' \in State
      BY <1>1, <1>2, <1>10, Zenon DEF CallSetChildrenNeedBeginFrames, Tell
    <2> QED
      BY <1>0, <1>10, <2>1
      DEF CallSetChildrenNeedBeginFrames, Tell, ProcessIfOutside, frames, State
  <1>11. CASE CallSetVideoNeedsBeginFrames
    <2>1. sm' \in State
      BY <1>1, <1>2, <1>11, Zenon DEF CallSetVideoNeedsBeginFrames, Tell
    <2> QED
      BY <1>0, <1>11, <2>1
      DEF CallSetVideoNeedsBeginFrames, Tell, ProcessIfOutside, frames, State
  <1>12. CASE CallSetDeferCommits
    <2>1. sm' \in State
      BY <1>1, <1>2, <1>12, Zenon DEF CallSetDeferCommits, Tell
    <2> QED
      BY <1>0, <1>12, <2>1 DEF CallSetDeferCommits, Tell, ProcessIfOutside, frames, State
  <1>13. CASE CallSetThrottleFrameProduction
    BY <1>0, <1>13 DEF CallSetThrottleFrameProduction, ProcessIfOutside, frames, State
  <1>14. CASE CallDidLoseOutputSurface
    <2>1. sm' \in State
      BY <1>0, <1>14, NotificationsTyped, Zenon DEF CallDidLoseOutputSurface
    <2> QED
      BY <1>0, <1>14, <2>1
      DEF CallDidLoseOutputSurface, DidLoseOutputSurface, DropRetroFrames,
          ProcessIfOutside, State
  <1> QED
    BY <1>3, <1>4, <1>5, <1>6, <1>7, <1>8, <1>9, <1>10, <1>11, <1>12, <1>13, <1>14,
        ClientCalls
    DEF ClientCalls

\* A frame has begun: the funnels are reset, and what earlier frames have left
\* in the pipeline stays.
FrameBegun ==
  /\ sm' \in State
  /\ resume' = IF using_synchronous_renderer_compositor THEN "finish" ELSE "deadline_pending"
  /\ sm'.begin_impl_frame_state = "BEGIN_FRAME_STARTING"
  /\ sm'.begin_main_frame_state = sm.begin_main_frame_state
  /\ sm'.output_surface_state = sm.output_surface_state
  /\ sm'.has_pending_tree = sm.has_pending_tree
  /\ sm'.active_tree_needs_first_draw = sm.active_tree_needs_first_draw
  /\ sm'.send_begin_main_frame_funnel = FALSE
  /\ sm'.pending_swaps = sm.pending_swaps
  /\ sm'.max_pending_swaps = sm.max_pending_swaps
  /\ sm'.prepare_tiles_funnel = Drained(sm.prepare_tiles_funnel)

\* An attempt to begin a frame begins it or changes nothing.
LEMMA FrameStarts ==
  ASSUME TypeOK, BeginImplFrame(sm) \/ BeginImplFrameWithDeadline
  PROVE  UNCHANGED <<sm, resume>> \/ FrameBegun
  <1>0. sm \in State
    BY DEF TypeOK
  <1>1. SUFFICES ASSUME NEW s \in State, BeginImplFrame(s),
                        s = sm \/ s = SetSkipNextBeginMainFrameToReduceLatency(sm)
                 PROVE  FrameBegun
    <2>1. SetSkipNextBeginMainFrameToReduceLatency(sm) \in State
      BY <1>0, NotificationsTyped
    <2>2. CASE BeginImplFrame(sm)
      BY <1>0, <1>1, <2>2, Zenon
    <2>3. CASE BeginImplFrameWithDeadline
      BY <1>0, <1>1, <2>1, <2>3, Zenon DEF BeginImplFrameWithDeadline
    <2> QED
      BY <2>2, <2>3
  <1>2. sm' \in State
    BY <1>1, FrameTyped, ActionsTyped, Zenon DEF BeginImplFrame
  <1>3. CASE sm' = OnBeginImplFrame(s)
    BY <1>0, <1>1, <1>2, <1>3
    DEF BeginImplFrame, FrameBegun, OnBeginImplFrame,
        SetSkipNextBeginMainFrameToReduceLatency, State
  <1>4. CASE sm' = SetNeedsRedraw(OnBeginImplFrame(s))
    BY <1>0, <1>1, <1>2, <1>4
    DEF BeginImplFrame, FrameBegun, OnBeginImplFrame, SetNeedsRedraw,
        SetSkipNextBeginMainFrameToReduceLatency, State
  <1> QED
    BY <1>1, <1>3, <1>4 DEF BeginImplFrame

-----------------------------------------------------------------------------
(* The actions of ProcessScheduledActions keep the invariant.              *)

LEMMA AnimateKeeps ==
  ASSUME IInv, ActionAnimate PROVE IInv'
  <1>1. sm' \in State
    BY ActionsTyped, Zenon DEF IInv, TypeOK, StartAction, ActionAnimate
  <1>2. TypeOK'
    BY <1>1
    DEF IInv, TypeOK, WillAnimate, frames, deadline, Performs, StartAction, ActionAnimate,
        ClientAction
  <1>3. SwapHasRoom' /\ PipelineFlushed'
    BY DEF Performs, StartAction, ActionAnimate, TaskStarts, PipelineFlushed, SwapHasRoom
  <1>4. ~using_synchronous_renderer_compositor => FramesInOrder' /\ NothingWhileCreating'
    BY DEF IInv, ShouldAnimate, NextAction, WillAnimate, frames, deadline, Idle, Performs,
           StartAction, ActionAnimate, FramesInOrder, NothingWhileCreating
  <1>5. ~main_frame_before_activation_enabled => MainFrameHeldBack' /\ CommitsAtOnce'
    BY DEF IInv, WillAnimate, StartAction, ActionAnimate, MainFrameHeldBack, CommitsAtOnce
  <1>6. FunnelWillNotOverflow'
    BY DEF IInv, CommitPending, WillAnimate, Idle, Performs, StartAction, ActionAnimate,
           One, MaySend, FunnelPotential, FunnelWillNotOverflow
  <1> QED
    BY <1>2, <1>3, <1>4, <1>5, <1>6 DEF IInv

LEMMA FinishAnimateKeeps ==
  ASSUME IInv, FinishAnimate PROVE IInv'
  <1>1. sm' \in State
    BY Zenon DEF IInv, TypeOK, FinishAction, FinishAnimate
  <1>2. TypeOK'
    BY <1>1 DEF IInv, TypeOK, frames, deadline, FinishAction, FinishAnimate
  <1>3. SwapHasRoom' /\ PipelineFlushed'
    BY DEF IInv, FinishAction, FinishAnimate, TaskStarts, PipelineFlushed, SwapHasRoom
  <1>4. ~using_synchronous_renderer_compositor => FramesInOrder' /\ NothingWhileCreating'
    BY DEF IInv, frames, deadline, Idle, FinishAction, FinishAnimate, TaskStarts,
           FramesInOrder, NothingWhileCreating
  <1>5. ~main_frame_before_activation_enabled => MainFrameHeldBack' /\ CommitsAtOnce'
    BY DEF IInv, FinishAction, FinishAnimate, MainFrameHeldBack, CommitsAtOnce
  <1>6. FunnelWillNotOverflow'
    BY DEF IInv, Idle, FinishAction, FinishAnimate, One, MaySend, FunnelPotential,
           FunnelWillNotOverflow
  <1> QED
    BY <1>2, <1>3, <1>4, <1>5, <1>6 DEF IInv

LEMMA SendBeginMainFrameKeeps ==
  ASSUME IInv, ActionSendBeginMainFrame PROVE IInv'
  <1>1. sm' \in State
    BY ActionsTyped, Zenon DEF IInv, TypeOK, PostAction, ActionSendBeginMainFrame
  <1>2. TypeOK'
    BY <1>1
    DEF IInv, TypeOK, WillSendBeginMainFrame, frames, deadline, PostAction,
        ActionSendBeginMainFrame
  <1>3. SwapHasRoom' /\ PipelineFlushed'
    BY DEF Performs, PostAction, ActionSendBeginMainFrame, TaskStarts, PipelineFlushed,
           SwapHasRoom
  <1>4. ~using_synchronous_renderer_compositor => FramesInOrder' /\ NothingWhileCreating'
    BY DEF IInv, ShouldSendBeginMainFrame, NextAction, WillSendBeginMainFrame, frames,
           deadline, Idle, Performs, PostAction, ActionSendBeginMainFrame, FramesInOrder,
           NothingWhileCreating
  <1>5. ~main_frame_before_activation_enabled => MainFrameHeldBack' /\ CommitsAtOnce'
    BY DEF IInv, ShouldSendBeginMainFrame, NextAction, WillSendBeginMainFrame, Performs,
           PostAction, ActionSendBeginMainFrame, MainFrameHeldBack, CommitsAtOnce
  <1>6. FunnelWillNotOverflow'
    BY DEF IInv, TypeOK, State, ShouldSendBeginMainFrame, NextAction,
           WillSendBeginMainFrame, Idle, Performs, PostAction, ActionSendBeginMainFrame,
           One, MaySend, FunnelPotential, FunnelLimit, FunnelWillNotOverflow
  <1> QED
    BY <1>2, <1>3, <1>4, <1>5, <1>6 DEF IInv

LEMMA CommitKeeps ==
  ASSUME IInv, ActionCommit PROVE IInv'
  <1>1. sm' \in State
    BY CommitTyped, Booleans, Zenon DEF IInv, TypeOK, StartAction, ActionCommit
  <1>2. /\ resume # "none" /\ inside_action = "NONE"
        /\ ShouldCommit(sm)
        /\ UNCHANGED <<resume, frames, deadline, throttle_frame_production>>
        /\ inside_action' = "COMMIT"
        /\ pending_tree' = ~commit_to_active_tree
    BY DEF ActionCommit, StartAction, Performs, NextAction
  <1>3. /\ sm'.begin_main_frame_state = MainFrameAfterCommit(FALSE)
        /\ sm'.has_pending_tree = TRUE
        /\ sm'.active_tree_needs_first_draw = sm.active_tree_needs_first_draw
        /\ sm'.begin_impl_frame_state = sm.begin_impl_frame_state
        /\ sm'.send_begin_main_frame_funnel = sm.send_begin_main_frame_funnel
        /\ sm'.prepare_tiles_funnel = sm.prepare_tiles_funnel
        /\ sm'.pending_swaps = sm.pending_swaps
        /\ sm'.max_pending_swaps = sm.max_pending_swaps
        /\ sm'.output_surface_state \in {sm.output_surface_state, "WAITING_FOR_FIRST_ACTIVATION"}
        /\ sm.output_surface_state \in {"CREATING", "NONE"} =>
             sm'.output_surface_state = sm.output_surface_state
    BY DEF IInv, TypeOK, State, ActionCommit, StartAction, WillCommit
  <1>4. TypeOK'
    BY <1>1, <1>2, <1>3, SettingsAssumption DEF IInv, TypeOK, frames, deadline, ClientAction
  <1>5. SwapHasRoom' /\ PipelineFlushed'
    BY <1>2 DEF SwapHasRoom, PipelineFlushed, TaskStarts
  <1>6. ~using_synchronous_renderer_compositor => FramesInOrder' /\ NothingWhileCreating'
    BY <1>2, <1>3 DEF IInv, FramesInOrder, NothingWhileCreating, frames, deadline, Idle,
       TaskStarts, HasInitializedOutputSurface, ShouldCommit
  <1>7. ~main_frame_before_activation_enabled => MainFrameHeldBack'
    BY <1>2, <1>3 DEF IInv, MainFrameHeldBack, ShouldCommit, MainFrameAfterCommit
  <1>8. FunnelWillNotOverflow'
    <2>1. /\ CommitPending(sm) /\ ~CommitPending(sm')
          /\ sm.prepare_tiles_funnel \in Nat
      BY <1>2, <1>3
      DEF IInv, TypeOK, State, CommitPending, ShouldCommit, MainFrameAfterCommit
    <2>2. MaySend' => MaySend
      BY <1>2, <1>3, <2>1, SettingsAssumption
      DEF IInv, FramesInOrder, CommitsAtOnce, MaySend, FunnelLimit, ShouldCommit,
          CommitPending, Idle
    <2> QED
      BY <1>2, <1>3, <2>1, <2>2
      DEF IInv, FunnelWillNotOverflow, FunnelPotential, FunnelLimit, One
  <1>9. CommitsAtOnce'
    BY <1>3 DEF CommitsAtOnce, MainFrameAfterCommit
  <1> QED
    BY <1>4, <1>5, <1>6, <1>7, <1>8, <1>9 DEF IInv

LEMMA FinishCommitKeeps ==
  ASSUME IInv, FinishCommit PROVE IInv'
  <1>1. sm' \in State
    <2>1. PICK prepared \in {sm, DidPrepareTiles(sm)} :
            sm' \in {prepared, NotifyReadyToActivate(prepared),
                     NotifyReadyToDraw(NotifyReadyToActivate(prepared))}
      BY DEF FinishCommit, FinishAction
    <2>2. prepared \in State
      BY ActionsTyped, Zenon DEF IInv, TypeOK
    <2> QED
      BY <2>1, <2>2, NotificationsTyped, Zenon
  <1>2. TypeOK'
    BY <1>1
    DEF IInv, TypeOK, DidPrepareTiles, NotifyReadyToActivate, NotifyReadyToDraw, frames,
        deadline, FinishAction, FinishCommit
  <1>3. SwapHasRoom' /\ PipelineFlushed'
    BY DEF IInv, DidPrepareTiles, NotifyReadyToActivate, NotifyReadyToDraw, FinishAction,
           FinishCommit, TaskStarts, PipelineFlushed, SwapHasRoom
  <1>4. ~using_synchronous_renderer_compositor => FramesInOrder' /\ NothingWhileCreating'
    BY DEF IInv, TypeOK, HasInitializedOutputSurface, DidPrepareTiles,
           NotifyReadyToActivate, NotifyReadyToDraw, frames, deadline, Idle, FinishAction,
           FinishCommit, TaskStarts, FramesInOrder, NothingWhileCreating
  <1>5. ~main_frame_before_activation_enabled => MainFrameHeldBack' /\ CommitsAtOnce'
    BY DEF IInv, DidPrepareTiles, NotifyReadyToActivate, NotifyReadyToDraw, FinishAction,
           FinishCommit, MainFrameHeldBack, CommitsAtOnce
  <1>6. FunnelWillNotOverflow'
    BY DEF IInv, TypeOK, State, CommitPending, DidPrepareTiles, NotifyReadyToActivate,
           NotifyReadyToDraw, Idle, FinishAction, FinishCommit, One, MaySend,
           FunnelPotential, FunnelLimit, FunnelWillNotOverflow
  <1> QED
    BY <1>2, <1>3, <1>4, <1>5, <1>6 DEF IInv

LEMMA ActivateKeeps ==
  ASSUME IInv, ActionActivateSyncTree PROVE IInv'
  <1>1. sm' \in State
    BY ActivationTyped, Zenon DEF IInv, TypeOK, StartAction, ActionActivateSyncTree
  <1>2. TypeOK'
    BY <1>1, SettingsAssumption, SchedulerAssumption
    DEF IInv, TypeOK, State, BeginImplFrameDeadlineMode, HasInitializedOutputSurface,
        SwapThrottled, PendingDrawsShouldBeAborted, PendingActivationsShouldBeForced,
        ShouldBeginOutputSurfaceCreation, ShouldDraw, ShouldActivatePendingTree,
        ShouldAnimate, CouldSendBeginMainFrame, SendingBeginMainFrameMightCauseDeadlock,
        JustSwappedInDeadline, ShouldSendBeginMainFrame, ShouldCommit, ShouldPrepareTiles,
        ShouldInvalidateOutputSurface, NextAction, MainFrameAfterActivation,
        OutputSurfaceAfterActivation, WillActivate, frames, deadline, Performs,
        StartAction, ActionActivateSyncTree, Resume, ClientAction, SwapHasRoom
  <1>3. SwapHasRoom' /\ PipelineFlushed'
    BY DEF Performs, StartAction, ActionActivateSyncTree, TaskStarts, PipelineFlushed,
           SwapHasRoom
  <1>4. ~using_synchronous_renderer_compositor => FramesInOrder' /\ NothingWhileCreating'
    BY DEF IInv, HasInitializedOutputSurface, ShouldActivatePendingTree, NextAction,
           OutputSurfaceAfterActivation, WillActivate, frames, deadline, Idle, Performs,
           StartAction, ActionActivateSyncTree, TaskStarts, FramesInOrder,
           NothingWhileCreating
  <1>5. ~main_frame_before_activation_enabled => MainFrameHeldBack' /\ CommitsAtOnce'
    BY DEF IInv, ShouldActivatePendingTree, NextAction, MainFrameAfterActivation,
           WillActivate, Performs, StartAction, ActionActivateSyncTree, MainFrameHeldBack,
           CommitsAtOnce
  <1>6. FunnelWillNotOverflow'
    BY DEF IInv, CommitPending, MainFrameAfterActivation, WillActivate, Idle, Performs,
           StartAction, ActionActivateSyncTree, One, MaySend, FunnelPotential,
           FunnelWillNotOverflow
  <1> QED
    BY <1>2, <1>3, <1>4, <1>5, <1>6 DEF IInv

LEMMA FinishActivateKeeps ==
  ASSUME IInv, FinishActivateSyncTree PROVE IInv'
  <1>1. sm' \in State
    BY Zenon DEF IInv, TypeOK, FinishAction, FinishActivateSyncTree
  <1>2. TypeOK'
    BY <1>1 DEF IInv, TypeOK, frames, deadline, FinishAction, FinishActivateSyncTree
  <1>3. SwapHasRoom' /\ PipelineFlushed'
    BY DEF IInv, FinishAction, FinishActivateSyncTree, TaskStarts, PipelineFlushed,
           SwapHasRoom
  <1>4. ~using_synchronous_renderer_compositor => FramesInOrder' /\ NothingWhileCreating'
    BY DEF IInv, frames, deadline, Idle, FinishAction, FinishActivateSyncTree, TaskStarts,
           FramesInOrder, NothingWhileCreating
  <1>5. ~main_frame_before_activation_enabled => MainFrameHeldBack' /\ CommitsAtOnce'
    BY DEF IInv, FinishAction, FinishActivateSyncTree, MainFrameHeldBack, CommitsAtOnce
  <1>6. FunnelWillNotOverflow'
    BY DEF IInv, Idle, FinishAction, FinishActivateSyncTree, One, MaySend,
           FunnelPotential, FunnelWillNotOverflow
  <1> QED
    BY <1>2, <1>3, <1>4, <1>5, <1>6 DEF IInv

LEMMA DrawIfPossibleKeeps ==
  ASSUME IInv, ActionDrawAndSwapIfPossible PROVE IInv'
  <1>1. sm' \in State
    BY DrawTyped, Zenon DEF IInv, TypeOK, StartAction, ActionDrawAndSwapIfPossible
  <1>2. TypeOK'
    BY <1>1
    DEF IInv, TypeOK, WillDraw, frames, deadline, Performs, StartAction,
        ActionDrawAndSwapIfPossible, ClientAction
  <1>3. SwapHasRoom' /\ PipelineFlushed'
    BY DEF IInv, TypeOK, State, SwapThrottled, ShouldDraw, NextAction, WillDraw, Performs,
           StartAction, ActionDrawAndSwapIfPossible, TaskStarts, PipelineFlushed,
           SwapHasRoom
  <1>4. ~using_synchronous_renderer_compositor => FramesInOrder' /\ NothingWhileCreating'
    BY DEF IInv, ShouldDraw, NextAction, WillDraw, frames, deadline, Idle, Performs,
           StartAction, ActionDrawAndSwapIfPossible, FramesInOrder, NothingWhileCreating
  <1>5. ~main_frame_before_activation_enabled => MainFrameHeldBack' /\ CommitsAtOnce'
    BY DEF IInv, MainFrameAfterDraw, WillDraw, StartAction, ActionDrawAndSwapIfPossible,
           MainFrameHeldBack, CommitsAtOnce
  <1>6. FunnelWillNotOverflow'
    BY DEF IInv, CommitPending, MainFrameAfterDraw, WillDraw, Idle, Performs, StartAction,
           ActionDrawAndSwapIfPossible, One, MaySend, FunnelPotential,
           FunnelWillNotOverflow
  <1> QED
    BY <1>2, <1>3, <1>4, <1>5, <1>6 DEF IInv

LEMMA FinishDrawIfPossibleKeeps ==
  ASSUME IInv, FinishDrawAndSwapIfPossible PROVE IInv'
  <1>1. PICK result \in DrawResult, swapped \in BOOLEAN :
          /\ swapped => result = "SUCCESS"
          /\ inside_action = "DRAW_AND_SWAP_IF_POSSIBLE"
          /\ sm' = DidDrawIfPossibleCompleted(
                     IF swapped THEN DidSwapBuffers(sm) ELSE sm, result)
          /\ inside_action' = "NONE"
          /\ UNCHANGED <<resume, frames, deadline, throttle_frame_production, pending_tree>>
    BY DEF FinishDrawAndSwapIfPossible, FinishAction
  <1>2. sm' \in State
    BY <1>1, ActionsTyped, DrawCompletedTyped, Zenon DEF IInv, TypeOK
  <1>3. /\ sm'.begin_main_frame_state = sm.begin_main_frame_state
        /\ sm'.begin_impl_frame_state = sm.begin_impl_frame_state
        /\ sm'.output_surface_state = sm.output_surface_state
        /\ sm'.has_pending_tree = sm.has_pending_tree
        /\ sm'.active_tree_needs_first_draw = sm.active_tree_needs_first_draw
        /\ sm'.send_begin_main_frame_funnel = sm.send_begin_main_frame_funnel
        /\ sm'.prepare_tiles_funnel = sm.prepare_tiles_funnel
        /\ sm'.pending_swaps \in {sm.pending_swaps, sm.pending_swaps + 1}
        /\ sm'.max_pending_swaps = sm.max_pending_swaps
    BY <1>1
    DEF IInv, TypeOK, State, DidDrawIfPossibleCompleted, DidSwapBuffers,
        DidCheckerboard, DrawResult
  <1>4. resume # "none"
    BY <1>1 DEF IInv, TypeOK
  <1>5. TypeOK'
    BY <1>1, <1>2, <1>3 DEF IInv, TypeOK, State, SwapHasRoom, frames, deadline
  <1>6. SwapHasRoom' /\ PipelineFlushed' /\ FunnelWillNotOverflow'
    BY <1>1, <1>3, <1>4, SettingsAssumption
    DEF IInv, TypeOK, State, SwapHasRoom, PipelineFlushed, TaskStarts,
       FunnelWillNotOverflow, FunnelPotential, FunnelLimit, One, MaySend, CommitPending, Idle
  <1>7. ~using_synchronous_renderer_compositor => FramesInOrder' /\ NothingWhileCreating'
    BY <1>1, <1>3, <1>4
    DEF IInv, FramesInOrder, NothingWhileCreating, frames, deadline, Idle, TaskStarts,
       HasInitializedOutputSurface
  <1>8. ~main_frame_before_activation_enabled => MainFrameHeldBack' /\ CommitsAtOnce'
    BY <1>1, <1>3 DEF IInv, MainFrameHeldBack, CommitsAtOnce
  <1> QED
    BY <1>5, <1>6, <1>7, <1>8 DEF IInv

LEMMA DrawForcedKeeps ==
  ASSUME IInv, ActionDrawAndSwapForced PROVE IInv'
  <1>1. sm' \in State
    BY DrawTyped, Zenon DEF IInv, TypeOK, StartAction, ActionDrawAndSwapForced
  <1>2. TypeOK'
    BY <1>1
    DEF IInv, TypeOK, WillDraw, frames, deadline, Performs, StartAction,
        ActionDrawAndSwapForced, ClientAction
  <1>3. SwapHasRoom' /\ PipelineFlushed'
    BY DEF IInv, TypeOK, State, SwapThrottled, ShouldDraw, NextAction, WillDraw, Performs,
           StartAction, ActionDrawAndSwapForced, TaskStarts, PipelineFlushed, SwapHasRoom
  <1>4. ~using_synchronous_renderer_compositor => FramesInOrder' /\ NothingWhileCreating'
    BY DEF IInv, ShouldDraw, NextAction, WillDraw, frames, deadline, Idle, Performs,
           StartAction, ActionDrawAndSwapForced, FramesInOrder, NothingWhileCreating
  <1>5. ~main_frame_before_activation_enabled => MainFrameHeldBack' /\ CommitsAtOnce'
    BY DEF IInv, MainFrameAfterDraw, WillDraw, StartAction, ActionDrawAndSwapForced,
           MainFrameHeldBack, CommitsAtOnce
  <1>6. FunnelWillNotOverflow'
    BY DEF IInv, CommitPending, MainFrameAfterDraw, WillDraw, Idle, Performs, StartAction,
           ActionDrawAndSwapForced, One, MaySend, FunnelPotential, FunnelWillNotOverflow
  <1> QED
    BY <1>2, <1>3, <1>4, <1>5, <1>6 DEF IInv

LEMMA FinishDrawForcedKeeps ==
  ASSUME IInv, FinishDrawAndSwapForced PROVE IInv'
  <1>1. sm' \in State
    BY ActionsTyped, Zenon DEF IInv, TypeOK, FinishAction, FinishDrawAndSwapForced
  <1>2. TypeOK'
    BY <1>1
    DEF IInv, TypeOK, State, DidSwapBuffers, frames, deadline, FinishAction,
        FinishDrawAndSwapForced, SwapHasRoom
  <1>3. SwapHasRoom' /\ PipelineFlushed'
    BY DEF IInv, DidSwapBuffers, FinishAction, FinishDrawAndSwapForced, TaskStarts,
           PipelineFlushed, SwapHasRoom
  <1>4. ~using_synchronous_renderer_compositor => FramesInOrder' /\ NothingWhileCreating'
    BY DEF IInv, HasInitializedOutputSurface, BeginFrameRequiredForAction,
           ProactiveBeginFrameWanted, BeginFrameNeeded, DidSwapBuffers, frames, deadline,
           Idle, FinishAction, FinishDrawAndSwapForced, TaskStarts, FramesInOrder,
           NothingWhileCreating
  <1>5. ~main_frame_before_activation_enabled => MainFrameHeldBack' /\ CommitsAtOnce'
    BY DEF IInv, DidSwapBuffers, FinishAction, FinishDrawAndSwapForced, MainFrameHeldBack,
           CommitsAtOnce
  <1>6. FunnelWillNotOverflow'
    BY DEF IInv, CommitPending, DidSwapBuffers, Idle, FinishAction,
           FinishDrawAndSwapForced, One, MaySend, FunnelPotential, FunnelWillNotOverflow
  <1> QED
    BY <1>2, <1>3, <1>4, <1>5, <1>6 DEF IInv

LEMMA DrawAbortKeeps ==
  ASSUME IInv, ActionDrawAndSwapAbort PROVE IInv'
  <1>1. sm' \in State
    BY DrawTyped, Zenon DEF IInv, TypeOK, PostAction, ActionDrawAndSwapAbort
  <1>2. TypeOK'
    BY <1>1
    DEF IInv, TypeOK, WillDraw, frames, deadline, PostAction, ActionDrawAndSwapAbort
  <1>3. SwapHasRoom' /\ PipelineFlushed'
    BY DEF Performs, PostAction, ActionDrawAndSwapAbort, TaskStarts, PipelineFlushed,
           SwapHasRoom
  <1>4. ~using_synchronous_renderer_compositor => FramesInOrder' /\ NothingWhileCreating'
    BY DEF IInv, HasInitializedOutputSurface, MainFrameAfterDraw, WillDraw, frames,
           deadline, Idle, Performs, PostAction, ActionDrawAndSwapAbort, TaskStarts,
           FramesInOrder, NothingWhileCreating
  <1>5. ~main_frame_before_activation_enabled => MainFrameHeldBack' /\ CommitsAtOnce'
    BY DEF IInv, MainFrameAfterDraw, WillDraw, PostAction, ActionDrawAndSwapAbort,
           MainFrameHeldBack, CommitsAtOnce
  <1>6. FunnelWillNotOverflow'
    BY DEF IInv, CommitPending, MainFrameAfterDraw, WillDraw, Idle, PostAction,
           ActionDrawAndSwapAbort, One, MaySend, FunnelPotential, FunnelWillNotOverflow
  <1> QED
    BY <1>2, <1>3, <1>4, <1>5, <1>6 DEF IInv

LEMMA BeginCreationKeeps ==
  ASSUME IInv, ActionBeginOutputSurfaceCreation PROVE IInv'
  <1>1. sm' \in State
    BY ActionsTyped, Zenon DEF IInv, TypeOK, PostAction, ActionBeginOutputSurfaceCreation
  <1>2. TypeOK'
    BY <1>1
    DEF IInv, TypeOK, WillBeginOutputSurfaceCreation, frames, deadline, PostAction,
        ActionBeginOutputSurfaceCreation
  <1>3. SwapHasRoom' /\ PipelineFlushed'
    BY DEF Performs, PostAction, ActionBeginOutputSurfaceCreation, TaskStarts,
           PipelineFlushed, SwapHasRoom
  <1>4. ~using_synchronous_renderer_compositor => FramesInOrder' /\ NothingWhileCreating'
    BY DEF IInv, HasInitializedOutputSurface, ShouldBeginOutputSurfaceCreation,
           NextAction, WillBeginOutputSurfaceCreation, frames, deadline, Idle, Performs,
           PostAction, ActionBeginOutputSurfaceCreation, TaskStarts, FramesInOrder,
           NothingWhileCreating
  <1>5. ~main_frame_before_activation_enabled => MainFrameHeldBack' /\ CommitsAtOnce'
    BY DEF IInv, ShouldBeginOutputSurfaceCreation, NextAction,
           WillBeginOutputSurfaceCreation, Performs, PostAction,
           ActionBeginOutputSurfaceCreation, MainFrameHeldBack, CommitsAtOnce
  <1>6. FunnelWillNotOverflow'
    BY DEF IInv, CommitPending, WillBeginOutputSurfaceCreation, Idle, PostAction,
           ActionBeginOutputSurfaceCreation, One, MaySend, FunnelPotential,
           FunnelWillNotOverflow
  <1> QED
    BY <1>2, <1>3, <1>4, <1>5, <1>6 DEF IInv

LEMMA PrepareTilesKeeps ==
  ASSUME IInv, ActionPrepareTiles PROVE IInv'
  <1>1. sm' \in State
    BY ActionsTyped, Zenon DEF IInv, TypeOK, StartAction, ActionPrepareTiles
  <1>2. TypeOK'
    BY <1>1
    DEF IInv, TypeOK, WillPrepareTiles, frames, deadline, Performs, StartAction,
        ActionPrepareTiles, ClientAction
  <1>3. SwapHasRoom' /\ PipelineFlushed'
    BY DEF Performs, StartAction, ActionPrepareTiles, TaskStarts, PipelineFlushed,
           SwapHasRoom
  <1>4. ~using_synchronous_renderer_compositor => FramesInOrder' /\ NothingWhileCreating'
    BY DEF IInv, ShouldPrepareTiles, NextAction, WillPrepareTiles, frames, deadline, Idle,
           Performs, StartAction, ActionPrepareTiles, FramesInOrder, NothingWhileCreating
  <1>5. ~main_frame_before_activation_enabled => MainFrameHeldBack' /\ CommitsAtOnce'
    BY DEF IInv, WillPrepareTiles, StartAction, ActionPrepareTiles, MainFrameHeldBack,
           CommitsAtOnce
  <1>6. FunnelWillNotOverflow'
    BY DEF ShouldPrepareTiles, NextAction, WillPrepareTiles, Performs, StartAction,
           ActionPrepareTiles, One, MaySend, FunnelPotential, FunnelLimit,
           FunnelWillNotOverflow
  <1> QED
    BY <1>2, <1>3, <1>4, <1>5, <1>6 DEF IInv

LEMMA FinishPrepareTilesKeeps ==
  ASSUME IInv, FinishPrepareTiles PROVE IInv'
  <1>1. sm' \in State
    BY ActionsTyped, Zenon DEF IInv, TypeOK, FinishAction, FinishPrepareTiles
  <1>2. TypeOK'
    BY <1>1
    DEF IInv, TypeOK, DidPrepareTiles, frames, deadline, FinishAction, FinishPrepareTiles
  <1>3. SwapHasRoom' /\ PipelineFlushed'
    BY DEF IInv, DidPrepareTiles, FinishAction, FinishPrepareTiles, TaskStarts,
           PipelineFlushed, SwapHasRoom
  <1>4. ~using_synchronous_renderer_compositor => FramesInOrder' /\ NothingWhileCreating'
    BY DEF IInv, TypeOK, HasInitializedOutputSurface, DidPrepareTiles, frames, deadline,
           Idle, FinishAction, FinishPrepareTiles, TaskStarts, FramesInOrder,
           NothingWhileCreating
  <1>5. ~main_frame_before_activation_enabled => MainFrameHeldBack' /\ CommitsAtOnce'
    BY DEF IInv, DidPrepareTiles, FinishAction, FinishPrepareTiles, MainFrameHeldBack,
           CommitsAtOnce
  <1>6. FunnelWillNotOverflow'
    BY DEF IInv, CommitPending, DidPrepareTiles, Idle, FinishAction, FinishPrepareTiles,
           One, MaySend, FunnelPotential, FunnelLimit, FunnelWillNotOverflow
  <1> QED
    BY <1>2, <1>3, <1>4, <1>5, <1>6 DEF IInv

LEMMA InvalidateKeeps ==
  ASSUME IInv, ActionInvalidateOutputSurface PROVE IInv'
  <1>1. sm' \in State
    BY ActionsTyped, Zenon DEF IInv, TypeOK, PostAction, ActionInvalidateOutputSurface
  <1>2. TypeOK'
    BY <1>1
    DEF IInv, TypeOK, WillInvalidateOutputSurface, frames, deadline, PostAction,
        ActionInvalidateOutputSurface
  <1>3. SwapHasRoom' /\ PipelineFlushed'
    BY DEF Performs, PostAction, ActionInvalidateOutputSurface, TaskStarts,
           PipelineFlushed, SwapHasRoom
  <1>4. ~using_synchronous_renderer_compositor => FramesInOrder' /\ NothingWhileCreating'
    BY DEF ShouldInvalidateOutputSurface, NextAction, Performs, PostAction,
           ActionInvalidateOutputSurface
  <1>5. ~main_frame_before_activation_enabled => MainFrameHeldBack' /\ CommitsAtOnce'
    BY DEF IInv, WillInvalidateOutputSurface, PostAction, ActionInvalidateOutputSurface,
           MainFrameHeldBack, CommitsAtOnce
  <1>6. FunnelWillNotOverflow'
    BY DEF IInv, CommitPending, WillInvalidateOutputSurface, Idle, PostAction,
           ActionInvalidateOutputSurface, One, MaySend, FunnelPotential,
           FunnelWillNotOverflow
  <1> QED
    BY <1>2, <1>3, <1>4, <1>5, <1>6 DEF IInv

LEMMA LeaveKeeps ==
  ASSUME IInv, LeaveProcessScheduledActions PROVE IInv'
  <1>1. sm' \in State
    BY FrameTyped, FrameIdleTyped, Zenon DEF IInv, TypeOK, LeaveProcessScheduledActions
  <1>2. /\ resume # "none" /\ inside_action = "NONE"
        /\ NextAction(sm) = "NONE"
        /\ UNCHANGED <<inside_action, throttle_frame_production, pending_tree>>
        /\ ScheduleBeginImplFrameDeadlineIfNeeded
        /\ SetupNextBeginFrameIfNeeded
    BY DEF LeaveProcessScheduledActions, Performs
  <1>3. /\ resume = "return" => UNCHANGED sm
        /\ resume = "deadline_pending" => sm' = OnBeginImplFrameDeadlinePending(sm)
        /\ resume = "finish" => sm' = OnBeginImplFrameIdle(sm)
        /\ \/ resume = "return" /\ resume' = "none"
           \/ resume \in {"deadline_pending", "finish"} /\ resume' = "return"
    BY DEF LeaveProcessScheduledActions
  <1>4. /\ sm'.begin_main_frame_state = sm.begin_main_frame_state
        /\ sm'.has_pending_tree = sm.has_pending_tree
        /\ sm'.active_tree_needs_first_draw = sm.active_tree_needs_first_draw
        /\ sm.send_begin_main_frame_funnel => sm'.send_begin_main_frame_funnel
        /\ sm'.prepare_tiles_funnel = sm.prepare_tiles_funnel
        /\ sm'.pending_swaps = sm.pending_swaps
        /\ sm'.max_pending_swaps = sm.max_pending_swaps
        /\ sm'.visible = sm.visible
        /\ sm'.output_surface_state = sm.output_surface_state
        /\ resume = "deadline_pending" => sm'.begin_impl_frame_state = "INSIDE_BEGIN_FRAME"
        /\ resume = "finish" => sm'.begin_impl_frame_state = "IDLE"
    <2>1. CASE resume = "return"
      BY <1>3, <2>1
    <2>2. CASE resume = "deadline_pending"
      BY <1>3, <2>2 DEF IInv, TypeOK, State, OnBeginImplFrameDeadlinePending
    <2>3. CASE resume = "finish"
      BY <1>3, <2>3 DEF IInv, TypeOK, State, OnBeginImplFrameIdle
    <2> QED
      BY <1>3, <2>1, <2>2, <2>3
  <1>5. TypeOK'
    <2>1. /\ begin_impl_frame_deadline_task' \in {"cancelled", "armed", "posted"}
          /\ begin_impl_frame_deadline_mode' \in BeginImplFrameDeadlineMode
      BY <1>2 DEF IInv, TypeOK, ScheduleBeginImplFrameDeadlineIfNeeded, deadline,
         DeadlineTaskOf, CurrentBeginImplFrameDeadlineMode, BeginImplFrameDeadlineMode
    <2>2. /\ needs_begin_frames' \in BOOLEAN
          /\ begin_retro_frame_args' \in 0 .. MaxRetroFrames
          /\ begin_retro_frame_task' \in BOOLEAN
      BY <1>2, SchedulerAssumption
      DEF IInv, TypeOK, State, SetupNextBeginFrameIfNeeded, NeedsBeginFramesAfter,
          PostBeginRetroFrameIfNeeded,
          Idle, BeginFrameNeeded
    <2> QED
      BY <1>1, <1>2, <1>3, <1>4, <2>1, <2>2 DEF IInv, TypeOK, Resume
  <1>6. SwapHasRoom'
    BY <1>2 DEF SwapHasRoom
  <1>7. PipelineFlushed'
    BY <1>2, <1>3, <1>4
    DEF IInv, TypeOK, State, PipelineFlushed, TaskStarts, NextAction,
        ShouldActivatePendingTree, ShouldDraw,
       PendingActivationsShouldBeForced, PendingDrawsShouldBeAborted
  <1>8. ~using_synchronous_renderer_compositor => FramesInOrder'
    <2>1. SUFFICES ASSUME ~using_synchronous_renderer_compositor PROVE FramesInOrder'
      OBVIOUS
    <2>2. /\ sm'.begin_impl_frame_state = "BEGIN_FRAME_STARTING" <=> resume' = "deadline_pending"
          /\ sm'.begin_impl_frame_state = "INSIDE_DEADLINE" <=> resume' = "finish"
      BY <1>2, <1>3, <1>4, <2>1 DEF IInv, FramesInOrder
    <2>3. begin_impl_frame_deadline_task' # "cancelled" =>
            sm'.begin_impl_frame_state = "INSIDE_BEGIN_FRAME"
      BY <1>2, <1>3, <1>4, <2>1
      DEF IInv, FramesInOrder, ScheduleBeginImplFrameDeadlineIfNeeded, deadline
    <2>4. begin_retro_frame_task' => Idle' /\ HasInitializedOutputSurface(sm')
      BY <1>2, <1>3, <1>4, <2>1
      DEF IInv, FramesInOrder, SetupNextBeginFrameIfNeeded, PostBeginRetroFrameIfNeeded,
          NeedsBeginFramesAfter, Idle, BeginFrameNeeded, HasInitializedOutputSurface
    <2>5. TaskStarts' /\ needs_begin_frames' => ~Idle' \/ BeginFrameNeeded(sm')
      BY <1>2, <1>3, <1>4
      DEF TaskStarts, SetupNextBeginFrameIfNeeded, NeedsBeginFramesAfter, Idle
    <2> QED
      BY <2>2, <2>3, <2>4, <2>5 DEF FramesInOrder
  <1>9. ~using_synchronous_renderer_compositor => NothingWhileCreating'
    BY <1>3, <1>4 DEF IInv, FramesInOrder, NothingWhileCreating, Idle
  <1>10. ~main_frame_before_activation_enabled => MainFrameHeldBack'
    BY <1>2, <1>4 DEF IInv, MainFrameHeldBack
  <1>12. ~main_frame_before_activation_enabled => CommitsAtOnce'
    BY <1>2, <1>3, <1>4 DEF IInv, MainFrameHeldBack, CommitsAtOnce, NextAction, ShouldCommit
  <1>11. FunnelWillNotOverflow'
    <2>1. MaySend' => MaySend
      BY <1>2, <1>3, <1>4, SettingsAssumption
      DEF IInv, FramesInOrder, MaySend, Idle, CommitPending
    <2> QED
      BY <1>2, <1>4, <2>1, SettingsAssumption
      DEF IInv, TypeOK, State, FunnelWillNotOverflow, FunnelPotential, FunnelLimit, One,
          CommitPending
  <1> QED
    BY <1>5, <1>6, <1>7, <1>8, <1>9, <1>10, <1>11, <1>12 DEF IInv

-----------------------------------------------------------------------------
(* So do the frames.                                                       *)

\* A frame begins only when the last one is over, with an output surface, and
\* before any deadline is set.
LEMMA BeginFramesEffect ==
  ASSUME IInv, OnBeginFrame \/ BeginRetroFrame
  PROVE  /\ resume = "none" /\ inside_action = "NONE"
         /\ UNCHANGED <<inside_action, needs_begin_frames, deadline, throttle_frame_production,
                        pending_tree>>
         /\ begin_retro_frame_args' \in 0 .. MaxRetroFrames
         /\ begin_retro_frame_task' \in {begin_retro_frame_task, FALSE}
         /\ \/ UNCHANGED <<sm, resume>>
            \/ /\ FrameBegun
               /\ ~using_synchronous_renderer_compositor =>
                    /\ Idle
                    /\ HasInitializedOutputSurface(sm)
                    /\ begin_impl_frame_deadline_task = "cancelled"
                    /\ ~begin_retro_frame_task'
  <1>1. TypeOK
    BY DEF IInv
  <1>2. CASE OnBeginFrame
    <2>1. UNCHANGED <<sm, resume>> \/ FrameBegun
      BY <1>1, <1>2, FrameStarts, Zenon DEF OnBeginFrame
    <2>2. ~using_synchronous_renderer_compositor =>
             UNCHANGED <<sm, resume>> \/ ~ShouldDeferBeginFrame
      BY <1>2 DEF OnBeginFrame
    <2>3. /\ resume = "none" /\ inside_action = "NONE"
          /\ UNCHANGED <<inside_action, needs_begin_frames, deadline, throttle_frame_production,
                         pending_tree, begin_retro_frame_task>>
          /\ begin_retro_frame_args' \in 0 .. MaxRetroFrames
      BY <1>1, <1>2, SchedulerAssumption DEF OnBeginFrame, TypeOK, TaskStarts
    <2> QED
      BY <2>1, <2>2, <2>3
      DEF IInv, FramesInOrder, ShouldDeferBeginFrame, TaskStarts, Idle, BeginFrameNeeded
  <1>3. CASE BeginRetroFrame
    <2>1. UNCHANGED <<sm, resume>> \/ FrameBegun
      BY <1>1, <1>3, FrameStarts, Zenon DEF BeginRetroFrame
    <2>2. /\ resume = "none" /\ inside_action = "NONE"
          /\ UNCHANGED <<inside_action, needs_begin_frames, deadline, throttle_frame_production,
                         pending_tree>>
          /\ begin_retro_frame_task /\ begin_retro_frame_task' = FALSE
          /\ begin_retro_frame_args' \in 0 .. MaxRetroFrames
      BY <1>1, <1>3, SchedulerAssumption DEF BeginRetroFrame, TypeOK, TaskStarts
    <2> QED
      BY <2>1, <2>2 DEF IInv, FramesInOrder, Idle
  <1> QED
    BY <1>2, <1>3

LEMMA BeginFramesKeep ==
  ASSUME IInv, OnBeginFrame \/ BeginRetroFrame PROVE IInv'
  <1>1. /\ resume = "none" /\ inside_action = "NONE"
        /\ UNCHANGED <<inside_action, needs_begin_frames, deadline, throttle_frame_production,
                       pending_tree>>
        /\ begin_retro_frame_args' \in 0 .. MaxRetroFrames
        /\ begin_retro_frame_task' \in {begin_retro_frame_task, FALSE}
    BY BeginFramesEffect
  <1>2. CASE UNCHANGED <<sm, resume>>
    <2>1. TypeOK'
      BY <1>1, <1>2 DEF IInv, TypeOK, deadline
    <2>2. SwapHasRoom' /\ PipelineFlushed' /\ FunnelWillNotOverflow'
      BY <1>1, <1>2
      DEF IInv, SwapHasRoom, PipelineFlushed, FunnelWillNotOverflow, FunnelPotential,
          MaySend, Idle, TaskStarts
    <2>3. ~using_synchronous_renderer_compositor => FramesInOrder' /\ NothingWhileCreating'
      BY <1>1, <1>2
      DEF IInv, FramesInOrder, NothingWhileCreating, deadline, Idle, TaskStarts
    <2>4. ~main_frame_before_activation_enabled => MainFrameHeldBack' /\ CommitsAtOnce'
      BY <1>1, <1>2 DEF IInv, MainFrameHeldBack, CommitsAtOnce
    <2> QED
      BY <2>1, <2>2, <2>3, <2>4 DEF IInv
  <1>3. CASE /\ FrameBegun
             /\ ~using_synchronous_renderer_compositor =>
                  /\ Idle
                  /\ HasInitializedOutputSurface(sm)
                  /\ begin_impl_frame_deadline_task = "cancelled"
                  /\ ~begin_retro_frame_task'
    <2>1. TypeOK'
      BY <1>1, <1>3 DEF IInv, TypeOK, deadline, FrameBegun, Resume
    <2>2. SwapHasRoom' /\ PipelineFlushed'
      BY <1>1, <1>3 DEF SwapHasRoom, PipelineFlushed, TaskStarts, FrameBegun
    <2>3. ~using_synchronous_renderer_compositor => FramesInOrder' /\ NothingWhileCreating'
      BY <1>1, <1>3
      DEF IInv, FramesInOrder, NothingWhileCreating, deadline, Idle, TaskStarts,
          FrameBegun, HasInitializedOutputSurface
    <2>4. ~main_frame_before_activation_enabled => MainFrameHeldBack' /\ CommitsAtOnce'
      BY <1>1, <1>3 DEF IInv, MainFrameHeldBack, CommitsAtOnce, FrameBegun
    <2>5. FunnelWillNotOverflow'
      BY <1>1, <1>3, SettingsAssumption
      DEF IInv, TypeOK, State, FrameBegun, FunnelWillNotOverflow, FunnelPotential,
          FunnelLimit, One, MaySend,
         CommitPending, Idle, Drained
    <2> QED
      BY <2>1, <2>2, <2>3, <2>4, <2>5 DEF IInv
  <1> QED
    BY <1>2, <1>3, BeginFramesEffect

LEMMA DeadlineKeeps ==
  ASSUME IInv, BeginImplFrameDeadline PROVE IInv'
  <1>1. sm' \in State
    BY FrameTyped, Zenon DEF IInv, TypeOK, BeginImplFrameDeadline
  <1>2. TypeOK'
    BY <1>1
    DEF IInv, TypeOK, OnBeginImplFrameDeadline, frames, BeginImplFrameDeadline, Resume
  <1>3. SwapHasRoom' /\ PipelineFlushed'
    BY DEF IInv, OnBeginImplFrameDeadline, TaskStarts, BeginImplFrameDeadline,
           PipelineFlushed, SwapHasRoom
  <1>4. ~using_synchronous_renderer_compositor => FramesInOrder' /\ NothingWhileCreating'
    BY DEF IInv, OnBeginImplFrameDeadline, frames, Idle, BeginImplFrameDeadline,
           FramesInOrder, NothingWhileCreating
  <1>5. ~main_frame_before_activation_enabled => MainFrameHeldBack' /\ CommitsAtOnce'
    BY DEF IInv, OnBeginImplFrameDeadline, TaskStarts, BeginImplFrameDeadline,
           MainFrameHeldBack, CommitsAtOnce
  <1>6. FunnelWillNotOverflow'
    BY DEF IInv, TypeOK, State, CommitPending, Drained, OnBeginImplFrameDeadline, Idle,
           BeginImplFrameDeadline, FramesInOrder, One, MaySend, FunnelPotential,
           FunnelLimit, FunnelWillNotOverflow
  <1> QED
    BY <1>2, <1>3, <1>4, <1>5, <1>6 DEF IInv

LEMMA DrawForOutputSurfaceKeeps ==
  ASSUME IInv, OnDrawForOutputSurface PROVE IInv'
  <1>1. sm' \in State
    BY FrameTyped, Zenon DEF IInv, TypeOK, OnDrawForOutputSurface
  <1>2. TypeOK'
    BY <1>1
    DEF IInv, TypeOK, OnBeginImplFrameDeadline, frames, deadline, OnDrawForOutputSurface,
        Resume
  <1>3. SwapHasRoom' /\ PipelineFlushed'
    BY DEF IInv, OnBeginImplFrameDeadline, TaskStarts, OnDrawForOutputSurface,
           PipelineFlushed, SwapHasRoom
  <1>4. ~using_synchronous_renderer_compositor => FramesInOrder' /\ NothingWhileCreating'
    BY DEF OnDrawForOutputSurface
  <1>5. ~main_frame_before_activation_enabled => MainFrameHeldBack' /\ CommitsAtOnce'
    BY DEF IInv, OnBeginImplFrameDeadline, TaskStarts, OnDrawForOutputSurface,
           MainFrameHeldBack, CommitsAtOnce
  <1>6. FunnelWillNotOverflow'
    BY DEF IInv, TypeOK, State, Drained, OnBeginImplFrameDeadline, OnDrawForOutputSurface,
           One, MaySend, FunnelPotential, FunnelLimit, FunnelWillNotOverflow
  <1> QED
    BY <1>2, <1>3, <1>4, <1>5, <1>6 DEF IInv

-----------------------------------------------------------------------------
(* So do the calls of the client and its tasks.                            *)

LEMMA ClientCallsKeep ==
  ASSUME IInv, ClientCalls PROVE IInv'
  <1>1. TypeOK
    BY DEF IInv
  <1>2. TypeOK'
    <2>1. /\ sm' \in State
          /\ sm'.pending_swaps \in 0 .. sm'.max_pending_swaps
          /\ throttle_frame_production' \in BOOLEAN
      BY <1>1, CallsChange DEF TypeOK
    <2>2. /\ UNCHANGED <<inside_action, needs_begin_frames, deadline, pending_tree>>
          /\ resume' = IF TaskStarts THEN "return" ELSE resume
          /\ begin_retro_frame_args' \in {begin_retro_frame_args, 0}
          /\ begin_retro_frame_task' \in {begin_retro_frame_task, FALSE}
      BY <1>1, CallsChange
    <2> QED
      <3>1. begin_retro_frame_args' \in 0 .. MaxRetroFrames
        BY <1>1, <2>2, SchedulerAssumption DEF TypeOK
      <3>2. resume' \in Resume /\ (resume' = "none" => inside_action' = "NONE")
        BY <1>1, <2>2 DEF TypeOK, Resume, TaskStarts
      <3> QED
        BY <1>1, <2>1, <2>2, <3>1, <3>2 DEF TypeOK, deadline
  <1>3. SwapHasRoom' /\ PipelineFlushed'
    BY <1>1, CallsChange DEF IInv, TypeOK, SwapHasRoom, PipelineFlushed, TaskStarts
  <1>6. FunnelWillNotOverflow'
    <2>1. /\ CommitPending(sm') = CommitPending(sm)
          /\ MaySend' = MaySend
      BY <1>1, CallsChange DEF CommitPending, MaySend, Idle
    <2>2. /\ sm.prepare_tiles_funnel \in Nat
          /\ sm'.prepare_tiles_funnel \in {sm.prepare_tiles_funnel, 0}
          /\ inside_action' = inside_action
      BY <1>1, CallsChange DEF TypeOK, State
    <2> QED
      BY <2>1, <2>2 DEF IInv, FunnelWillNotOverflow, FunnelPotential, FunnelLimit, One
  <1>4. ~using_synchronous_renderer_compositor => FramesInOrder' /\ NothingWhileCreating'
    BY <1>1, CallsChange
    DEF IInv, FramesInOrder, NothingWhileCreating, deadline, Idle, TaskStarts,
       HasInitializedOutputSurface
  <1>5. ~main_frame_before_activation_enabled => MainFrameHeldBack' /\ CommitsAtOnce'
    BY <1>1, CallsChange DEF IInv, MainFrameHeldBack, CommitsAtOnce, TaskStarts
  <1> QED
    BY <1>2, <1>3, <1>4, <1>5, <1>6 DEF IInv

LEMMA InitializeKeeps ==
  ASSUME IInv, InitializeOutputSurface PROVE IInv'
  <1>1. sm' \in State
    <2>1. PICK max \in MaxPendingSwaps :
            sm' = DidCreateAndInitializeOutputSurface([sm EXCEPT !.max_pending_swaps = max])
      BY DEF InitializeOutputSurface, Task
    <2>2. max \in Nat /\ "max_pending_swaps" \in Counts
      BY SchedulerAssumption DEF Counts
    <2>3. [sm EXCEPT !.max_pending_swaps = max] \in State
      BY <2>2, SetCount, Zenon DEF IInv, TypeOK
    <2> QED
      BY <2>1, <2>3, NotificationsTyped, Zenon
  <1>2. TypeOK'
    BY <1>1, SchedulerAssumption
    DEF IInv, TypeOK, DidCreateAndInitializeOutputSurface, frames, deadline, Task,
        InitializeOutputSurface, Resume
  <1>3. SwapHasRoom' /\ PipelineFlushed'
    BY DEF IInv, TypeOK, TaskStarts, Task, InitializeOutputSurface, PipelineFlushed,
           SwapHasRoom
  <1>4. ~using_synchronous_renderer_compositor => FramesInOrder' /\ NothingWhileCreating'
    BY DEF IInv, HasInitializedOutputSurface, DidCreateAndInitializeOutputSurface, frames,
           deadline, TaskStarts, Task, InitializeOutputSurface, FramesInOrder,
           NothingWhileCreating
  <1>5. ~main_frame_before_activation_enabled => MainFrameHeldBack' /\ CommitsAtOnce'
    BY DEF IInv, DidCreateAndInitializeOutputSurface, Task, InitializeOutputSurface,
           MainFrameHeldBack, CommitsAtOnce
  <1>6. FunnelWillNotOverflow'
    BY DEF IInv, CommitPending, DidCreateAndInitializeOutputSurface, Idle, Task,
           InitializeOutputSurface, One, MaySend, FunnelPotential, FunnelWillNotOverflow
  <1> QED
    BY <1>2, <1>3, <1>4, <1>5, <1>6 DEF IInv

LEMMA SwapCompleteKeeps ==
  ASSUME IInv, SwapBuffersComplete PROVE IInv'
  <1>1. sm' \in State
    BY ActionsTyped, Zenon DEF IInv, TypeOK, Task, SwapBuffersComplete
  <1>2. TypeOK'
    BY <1>1
    DEF IInv, TypeOK, State, DidSwapBuffersComplete, frames, deadline, Task,
        SwapBuffersComplete, Resume
  <1>3. SwapHasRoom' /\ PipelineFlushed'
    BY DEF IInv, TypeOK, TaskStarts, Task, SwapBuffersComplete, PipelineFlushed,
           SwapHasRoom
  <1>4. ~using_synchronous_renderer_compositor => FramesInOrder' /\ NothingWhileCreating'
    BY DEF IInv, HasInitializedOutputSurface, DidSwapBuffersComplete, frames, deadline,
           Idle, TaskStarts, Task, SwapBuffersComplete, FramesInOrder,
           NothingWhileCreating
  <1>5. ~main_frame_before_activation_enabled => MainFrameHeldBack' /\ CommitsAtOnce'
    BY DEF IInv, DidSwapBuffersComplete, Task, SwapBuffersComplete, MainFrameHeldBack,
           CommitsAtOnce
  <1>6. FunnelWillNotOverflow'
    BY DEF IInv, CommitPending, DidSwapBuffersComplete, Idle, Task, SwapBuffersComplete,
           One, MaySend, FunnelPotential, FunnelWillNotOverflow
  <1> QED
    BY <1>2, <1>3, <1>4, <1>5, <1>6 DEF IInv

LEMMA ReadyToActivateKeeps ==
  ASSUME IInv, ReadyToActivate PROVE IInv'
  <1>1. sm' \in State
    BY NotificationsTyped, Zenon DEF IInv, TypeOK, Task, ReadyToActivate
  <1>2. TypeOK'
    BY <1>1
    DEF IInv, TypeOK, NotifyReadyToActivate, frames, deadline, Task, ReadyToActivate,
        Resume
  <1>3. SwapHasRoom' /\ PipelineFlushed'
    BY DEF IInv, NotifyReadyToActivate, TaskStarts, Task, ReadyToActivate,
           PipelineFlushed, SwapHasRoom
  <1>4. ~using_synchronous_renderer_compositor => FramesInOrder' /\ NothingWhileCreating'
    BY DEF IInv, HasInitializedOutputSurface, NotifyReadyToActivate, frames, deadline,
           Idle, TaskStarts, Task, ReadyToActivate, FramesInOrder, NothingWhileCreating
  <1>5. ~main_frame_before_activation_enabled => MainFrameHeldBack' /\ CommitsAtOnce'
    BY DEF IInv, NotifyReadyToActivate, Task, ReadyToActivate, MainFrameHeldBack,
           CommitsAtOnce
  <1>6. FunnelWillNotOverflow'
    BY DEF IInv, CommitPending, NotifyReadyToActivate, Idle, Task, ReadyToActivate, One,
           MaySend, FunnelPotential, FunnelWillNotOverflow
  <1> QED
    BY <1>2, <1>3, <1>4, <1>5, <1>6 DEF IInv

LEMMA ReadyToDrawKeeps ==
  ASSUME IInv, ReadyToDraw PROVE IInv'
  <1>1. sm' \in State
    BY NotificationsTyped, Zenon DEF IInv, TypeOK, Task, ReadyToDraw
  <1>2. TypeOK'
    BY <1>1
    DEF IInv, TypeOK, NotifyReadyToDraw, frames, deadline, Task, ReadyToDraw, Resume
  <1>3. SwapHasRoom' /\ PipelineFlushed'
    BY DEF IInv, NotifyReadyToDraw, TaskStarts, Task, ReadyToDraw, PipelineFlushed,
           SwapHasRoom
  <1>4. ~using_synchronous_renderer_compositor => FramesInOrder' /\ NothingWhileCreating'
    BY DEF IInv, HasInitializedOutputSurface, NotifyReadyToDraw, frames, deadline, Idle,
           TaskStarts, Task, ReadyToDraw, FramesInOrder, NothingWhileCreating
  <1>5. ~main_frame_before_activation_enabled => MainFrameHeldBack' /\ CommitsAtOnce'
    BY DEF IInv, NotifyReadyToDraw, Task, ReadyToDraw, MainFrameHeldBack, CommitsAtOnce
  <1>6. FunnelWillNotOverflow'
    BY DEF IInv, CommitPending, NotifyReadyToDraw, Idle, Task, ReadyToDraw, One, MaySend,
           FunnelPotential, FunnelWillNotOverflow
  <1> QED
    BY <1>2, <1>3, <1>4, <1>5, <1>6 DEF IInv

LEMMA StartCommitKeeps ==
  ASSUME IInv, StartCommitOnImplThread PROVE IInv'
  <1>1. sm' \in State
    BY NotificationsTyped, Zenon DEF IInv, TypeOK, Task, StartCommitOnImplThread
  <1>2. TypeOK'
    BY <1>1
    DEF IInv, TypeOK, NotifyBeginMainFrameStarted, NotifyReadyToCommit, frames, deadline,
        Task, StartCommitOnImplThread, Resume
  <1>3. SwapHasRoom' /\ PipelineFlushed'
    BY DEF IInv, NotifyBeginMainFrameStarted, NotifyReadyToCommit, TaskStarts, Task,
           StartCommitOnImplThread, PipelineFlushed, SwapHasRoom
  <1>4. ~using_synchronous_renderer_compositor => FramesInOrder' /\ NothingWhileCreating'
    BY DEF IInv, HasInitializedOutputSurface, NotifyBeginMainFrameStarted,
           NotifyReadyToCommit, frames, deadline, Idle, TaskStarts, Task,
           StartCommitOnImplThread, FramesInOrder, NothingWhileCreating
  <1>5. ~main_frame_before_activation_enabled => MainFrameHeldBack' /\ CommitsAtOnce'
    BY DEF IInv, NotifyBeginMainFrameStarted, NotifyReadyToCommit, Task,
           StartCommitOnImplThread, MainFrameHeldBack, CommitsAtOnce
  <1>6. FunnelWillNotOverflow'
    BY DEF IInv, CommitPending, NotifyBeginMainFrameStarted, NotifyReadyToCommit, Idle,
           Task, StartCommitOnImplThread, One, MaySend, FunnelPotential,
           FunnelWillNotOverflow
  <1> QED
    BY <1>2, <1>3, <1>4, <1>5, <1>6 DEF IInv

LEMMA MainFrameAbortedKeeps ==
  ASSUME IInv, BeginMainFrameAbortedOnImplThread PROVE IInv'
  <1>1. PICK reason \in AbortReasons : sm' = BeginMainFrameAborted(sm, reason)
    BY DEF BeginMainFrameAbortedOnImplThread, Task
  <1>2. sm' \in State
    BY <1>1, NotificationsTyped, Zenon DEF IInv, TypeOK
  <1>3. /\ sm.begin_main_frame_state = "SENT"
        /\ resume = "none" /\ resume' = "return" /\ inside_action = "NONE"
        /\ UNCHANGED <<inside_action, frames, deadline, throttle_frame_production, pending_tree>>
    BY DEF BeginMainFrameAbortedOnImplThread, Task, TaskStarts, IInv, TypeOK
  <1>4. /\ sm'.begin_main_frame_state = "IDLE"
        /\ sm'.begin_impl_frame_state = sm.begin_impl_frame_state
        /\ sm'.send_begin_main_frame_funnel = sm.send_begin_main_frame_funnel
        /\ sm'.prepare_tiles_funnel = sm.prepare_tiles_funnel
        /\ sm'.pending_swaps = sm.pending_swaps
        /\ sm'.max_pending_swaps = sm.max_pending_swaps
        /\ \/ sm'.output_surface_state = sm.output_surface_state
           \/ sm'.output_surface_state = "ACTIVE"
    BY <1>1 DEF IInv, TypeOK, State, BeginMainFrameAborted, WillCommit, MainFrameAfterCommit
  <1>5. /\ sm'.has_pending_tree => sm.has_pending_tree
        /\ commit_to_active_tree =>
             sm'.active_tree_needs_first_draw = sm.active_tree_needs_first_draw
    BY <1>1 DEF IInv, TypeOK, State, BeginMainFrameAborted, WillCommit, AbortReasons
  <1>6. TypeOK'
    BY <1>2, <1>3, <1>4 DEF IInv, TypeOK, Resume, frames, deadline
  <1>7. SwapHasRoom' /\ PipelineFlushed'
    BY <1>3 DEF SwapHasRoom, PipelineFlushed, TaskStarts
  <1>8. ~using_synchronous_renderer_compositor => FramesInOrder' /\ NothingWhileCreating'
    BY <1>3, <1>4
    DEF IInv, FramesInOrder, NothingWhileCreating, frames, deadline, Idle, TaskStarts,
        HasInitializedOutputSurface
  <1>9. ~main_frame_before_activation_enabled => MainFrameHeldBack' /\ CommitsAtOnce'
    BY <1>3, <1>4, <1>5 DEF IInv, MainFrameHeldBack, CommitsAtOnce
  <1>10. FunnelWillNotOverflow'
    <2>1. /\ CommitPending(sm) /\ ~CommitPending(sm')
          /\ sm.prepare_tiles_funnel \in Nat
      BY <1>3, <1>4 DEF IInv, TypeOK, State, CommitPending
    <2> QED
      BY <1>3, <1>4, <2>1 DEF IInv, FunnelWillNotOverflow, FunnelPotential, FunnelLimit, One
  <1> QED
    BY <1>6, <1>7, <1>8, <1>9, <1>10 DEF IInv

-----------------------------------------------------------------------------
(* The theorems.                                                           *)

LEMMA InitKeeps == Init => IInv
  <1> SUFFICES ASSUME Init PROVE IInv
    OBVIOUS
  <1>1. sm \in State
    BY InitialTyped DEF Init
  <1>2. TypeOK
    <2>1. sm.pending_swaps \in 0 .. sm.max_pending_swaps
      BY DEF Init, InitialState
    <2>2. begin_retro_frame_args \in 0 .. MaxRetroFrames
      BY SchedulerAssumption DEF Init
    <2> QED
      BY <1>1, <2>1, <2>2 DEF Init, TypeOK, Resume, BeginImplFrameDeadlineMode
  <1>3. /\ SwapHasRoom /\ PipelineFlushed
        /\ FramesInOrder /\ NothingWhileCreating
        /\ MainFrameHeldBack /\ CommitsAtOnce
    BY DEF Init, InitialState, SwapHasRoom, PipelineFlushed, FramesInOrder,
       NothingWhileCreating, MainFrameHeldBack, CommitsAtOnce, Idle, TaskStarts
  <1>4. FunnelWillNotOverflow
    BY
    DEF Init, InitialState, FunnelWillNotOverflow, FunnelPotential, FunnelLimit, One,
        MaySend,
       CommitPending, Idle
  <1> QED
    BY <1>2, <1>3, <1>4 DEF IInv

LEMMA StutterKeeps ==
  ASSUME IInv, UNCHANGED vars PROVE IInv'
  <1>1. UNCHANGED <<sm, resume, inside_action, needs_begin_frames, begin_retro_frame_args,
                    begin_retro_frame_task, begin_impl_frame_deadline_task,
                    begin_impl_frame_deadline_mode, throttle_frame_production, pending_tree>>
    BY DEF vars, frames, deadline
  <1>2. TypeOK' /\ SwapHasRoom' /\ PipelineFlushed'
    BY <1>1 DEF IInv, TypeOK, SwapHasRoom, PipelineFlushed, TaskStarts
  <1>3. ~using_synchronous_renderer_compositor => FramesInOrder' /\ NothingWhileCreating'
    BY <1>1 DEF IInv, FramesInOrder, NothingWhileCreating, Idle, TaskStarts
  <1>4. ~main_frame_before_activation_enabled => MainFrameHeldBack' /\ CommitsAtOnce'
    BY <1>1 DEF IInv, MainFrameHeldBack, CommitsAtOnce
  <1>5. FunnelWillNotOverflow'
    BY <1>1 DEF IInv, FunnelWillNotOverflow, FunnelPotential, MaySend, Idle
  <1> QED
    BY <1>2, <1>3, <1>4, <1>5 DEF IInv

LEMMA StepKeeps ==
  ASSUME IInv, [Next]_vars PROVE IInv'
  <1>1. CASE ProcessScheduledActions
    BY <1>1, AnimateKeeps, FinishAnimateKeeps, SendBeginMainFrameKeeps, CommitKeeps,
       FinishCommitKeeps, ActivateKeeps, FinishActivateKeeps, DrawIfPossibleKeeps,
       FinishDrawIfPossibleKeeps, DrawForcedKeeps, FinishDrawForcedKeeps, DrawAbortKeeps,
       BeginCreationKeeps, PrepareTilesKeeps, FinishPrepareTilesKeeps, InvalidateKeeps,
       LeaveKeeps
    DEF ProcessScheduledActions
  <1>2. CASE OnBeginFrame \/ BeginRetroFrame
    BY <1>2, BeginFramesKeep
  <1>3. CASE BeginImplFrameDeadline \/ OnDrawForOutputSurface
    BY <1>3, DeadlineKeeps, DrawForOutputSurfaceKeeps
  <1>4. CASE ClientCalls
    BY <1>4, ClientCallsKeep
  <1>5. CASE InitializeOutputSurface \/ SwapBuffersComplete \/ ReadyToActivate \/ ReadyToDraw
    BY <1>5, InitializeKeeps, SwapCompleteKeeps, ReadyToActivateKeeps, ReadyToDrawKeeps
  <1>6. CASE MainThreadAnswers
    BY <1>6, StartCommitKeeps, MainFrameAbortedKeeps DEF MainThreadAnswers
  <1>7. CASE UNCHANGED vars
    BY <1>7, StutterKeeps
  <1> QED
    BY <1>1, <1>2, <1>3, <1>4, <1>5, <1>6, <1>7 DEF Next

\* The invariant that the others follow from holds in every reachable state,
\* whatever the settings, the calls and the number of swaps: in particular every
\* member of the state machine keeps its type, and no more swaps are pending
\* than the output surface allows.
THEOREM IInvHolds == Spec => []IInv
  <1>1. IInv /\ [Next]_vars => IInv'
    BY StepKeeps
  <1> QED
    BY <1>1, InitKeeps, PTL DEF Spec

\* Between tasks no tree waits for an output surface that is lost, or for a
\* compositor that is not visible: ProcessScheduledActions does not end before
\* it is activated or aborted.
THEOREM PipelineIsFlushed == Spec => []PipelineFlushed
  <1>1. IInv => PipelineFlushed
    BY DEF IInv
  <1> QED
    BY <1>1, IInvHolds, PTL

\* The output surface is created in a quiet scheduler: no main frame, no tree
\* that waits, no frame and no deadline, and no begin frame asked for.  With a
\* pending tree that does not hold back the main thread this fails, and the
\* synchronous compositor has frames of its own.
THEOREM CreationIsQuiescent ==
  ASSUME ~using_synchronous_renderer_compositor, ~main_frame_before_activation_enabled
  PROVE  Spec => []QuiescentCreation
  <1>1. IInv => QuiescentCreation
    BY DEF IInv, QuiescentCreation, FramesInOrder, NothingWhileCreating, MainFrameHeldBack,
       Idle, BeginFrameNeeded, HasInitializedOutputSurface
  <1> QED
    BY <1>1, IInvHolds, PTL

\* A commit never finds a pending tree in its way that the settings do not allow,
\* and a commit to the active tree never overwrites a tree that was not drawn:
\* the main thread is held back until then.
THEOREM CommitsAreSafe ==
  ASSUME commit_to_active_tree => ~main_frame_before_activation_enabled
  PROVE  Spec => []CommitIsSafe
  <1>1. IInv => CommitIsSafe
    BY DEF IInv, CommitIsSafe, MainFrameHeldBack
  <1> QED
    BY <1>1, IInvHolds, PTL

\* The funnel that keeps PrepareTiles from running twice in a frame never holds
\* more than the commits of two frames.
THEOREM FunnelBounded ==
  ASSUME main_frame_before_activation_enabled => using_synchronous_renderer_compositor
  PROVE  Spec => []PrepareTilesFunnelBounded
  <1>1. IInv => PrepareTilesFunnelBounded
    BY SettingsAssumption
    DEF IInv, TypeOK, State, PrepareTilesFunnelBounded, FunnelWillNotOverflow,
        FunnelPotential,
        FunnelLimit, One
  <1> QED
    BY <1>1, IInvHolds, PTL

\* Only BeginFrames set resume so that a frame is starting.
LEMMA OnlyBeginFramesStart ==
  ASSUME IInv, [Next]_vars, ~using_synchronous_renderer_compositor,
         resume' = "deadline_pending"
  PROVE  resume = "deadline_pending" \/ OnBeginFrame \/ BeginRetroFrame
  <1>1. CASE ProcessScheduledActions
    BY <1>1
    DEF ProcessScheduledActions, StartAction, PostAction, FinishAction, ActionAnimate,
        FinishAnimate, ActionSendBeginMainFrame, ActionCommit, FinishCommit,
        ActionActivateSyncTree, FinishActivateSyncTree, ActionDrawAndSwapIfPossible,
        FinishDrawAndSwapIfPossible, ActionDrawAndSwapForced, FinishDrawAndSwapForced,
        ActionDrawAndSwapAbort, ActionBeginOutputSurfaceCreation, ActionPrepareTiles,
        FinishPrepareTiles, ActionInvalidateOutputSurface, LeaveProcessScheduledActions
  <1>2. CASE BeginImplFrameDeadline \/ OnDrawForOutputSurface
    BY <1>2 DEF BeginImplFrameDeadline, OnDrawForOutputSurface
  <1>3. CASE ClientCalls
    BY <1>3, CallsChange DEF IInv
  <1>4. CASE InitializeOutputSurface \/ SwapBuffersComplete \/ ReadyToActivate \/ ReadyToDraw
               \/ MainThreadAnswers
    BY <1>4
    DEF InitializeOutputSurface, SwapBuffersComplete, ReadyToActivate, ReadyToDraw,
        MainThreadAnswers, StartCommitOnImplThread, BeginMainFrameAbortedOnImplThread, Task
  <1>5. CASE UNCHANGED vars
    BY <1>5 DEF vars
  <1> QED
    BY <1>1, <1>2, <1>3, <1>4, <1>5 DEF Next

\* A frame starts only when the last one is over, the output surface is there and
\* no deadline is set, although BeginFrames come late, are deferred and are
\* replayed after the surface may have been lost and replaced.
THEOREM FramesStartInReadyState ==
  ASSUME ~using_synchronous_renderer_compositor
  PROVE  Spec => FramesStartReady
  <1> DEFINE Ready ==
        sm.begin_impl_frame_state # "BEGIN_FRAME_STARTING"
          /\ sm'.begin_impl_frame_state = "BEGIN_FRAME_STARTING"
        => /\ Idle
           /\ HasInitializedOutputSurface(sm)
           /\ begin_impl_frame_deadline_task = "cancelled"
  <1>1. IInv /\ [Next]_vars => [Ready]_vars
    <2>1. SUFFICES ASSUME IInv, [Next]_vars,
                          sm.begin_impl_frame_state # "BEGIN_FRAME_STARTING",
                          sm'.begin_impl_frame_state = "BEGIN_FRAME_STARTING"
                   PROVE  /\ Idle
                          /\ HasInitializedOutputSurface(sm)
                          /\ begin_impl_frame_deadline_task = "cancelled"
      OBVIOUS
    <2>2. IInv'
      BY <2>1, StepKeeps
    <2>3. resume' = "deadline_pending" /\ resume # "deadline_pending"
      BY <2>1, <2>2 DEF IInv, FramesInOrder
    <2>4. OnBeginFrame \/ BeginRetroFrame
      BY <2>1, <2>3, OnlyBeginFramesStart
    <2> QED
      BY <2>1, <2>4, BeginFramesEffect
  <1> QED
    BY <1>1, IInvHolds, PTL DEF Spec, FramesStartReady
=============================================================================
