SPECIFICATION Spec
CONSTANTS
  Workers = {w1, w2, w3}
  Commands = {"start_navigation", "stop_navigation", "initial_pose", "start_recharge"}
  Lines = {"env_ready", "initialized"}
  Points = {1}
  MaxGeneration = 3
  MaxAttempt = 3
SYMMETRY Symmetry
CHECK_DEADLOCK FALSE
PROPERTY OlderStartupInvalidated
