SPECIFICATION Spec
CONSTANTS
  using_synchronous_renderer_compositor = TRUE
  commit_to_active_tree = FALSE
  main_frame_before_activation_enabled = FALSE
  main_frame_while_swap_throttled_enabled = FALSE
  timeout_and_draw_when_animation_checkerboards = TRUE
  maximum_number_of_failed_draws_before_draw_is_forced = 1
  MaxPendingSwaps = {1}
  LateBeginFrames = FALSE
  MaxRetroFrames = 1
  Calls = {"SetVisible", "SetCanDraw", "SetNeedsBeginMainFrame",
           "SetNeedsRedraw", "SetNeedsPrepareTiles",
           "SetImplLatencyTakesPriority", "SetThrottleFrameProduction",
           "SetVideoNeedsBeginFrames", "SetChildrenNeedBeginFrames"}
  ReentrantCalls = {"SetNeedsPrepareTiles"}
INVARIANTS
  PrepareTilesFunnelBounded
