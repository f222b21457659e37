SPECIFICATION SteadySpec
CONSTANTS
  using_synchronous_renderer_compositor = FALSE
  commit_to_active_tree = TRUE
  main_frame_before_activation_enabled = FALSE
  main_frame_while_swap_throttled_enabled = FALSE
  timeout_and_draw_when_animation_checkerboards = TRUE
  maximum_number_of_failed_draws_before_draw_is_forced = 1
  MaxPendingSwaps = {1}
  LateBeginFrames = FALSE
  MaxRetroFrames = 0
  Calls = {"SetVisible", "SetCanDraw", "SetNeedsBeginMainFrame",
           "SetNeedsPrepareTiles", "DidLoseOutputSurface"}
  ReentrantCalls = {}
INVARIANTS
  CommitIsSafe
PROPERTIES
  MainFrameSent
  PipelineAdvances
  TilesPrepared
  LostSurfaceRecreated
