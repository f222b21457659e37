SPECIFICATION Spec
CONSTANTS
  using_synchronous_renderer_compositor = FALSE
  commit_to_active_tree = FALSE
  main_frame_before_activation_enabled = FALSE
  main_frame_while_swap_throttled_enabled = FALSE
  timeout_and_draw_when_animation_checkerboards = TRUE
  maximum_number_of_failed_draws_before_draw_is_forced = 1
  HostCalls = {}
  MaxPendingSwaps = {1}
  SwapAckWaitsForMain = TRUE
  RequestedStages = {1, 2, 3}
  MainCalls = {"SetVisible"}
  MaxTasks = 1
PROPERTIES
  CancelledFrameIsNoOp
