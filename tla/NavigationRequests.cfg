SPECIFICATION FairSpec
CONSTANTS
  Workers = {w1, w2}
  Commands = {"start_navigation", "stop_navigation", "navigation_task", "clear_waypoints", "cancel_task"}
  Lines = {"env_ready", "cleared", "waypoint_added", "paused", "resumed"}
  Points = {2}
  MaxGeneration = 2
  MaxAttempt = 2
ACTION_CONSTRAINT LaunchedInOrder
CHECK_DEADLOCK FALSE
PROPERTIES
  GateReleased
  StopCompletes
