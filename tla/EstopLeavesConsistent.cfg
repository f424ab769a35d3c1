SPECIFICATION FollowSpec
CONSTANTS
  Workers = {w1, w2}
  Commands = {"start_navigation", "stop_navigation"}
  Lines = {"env_ready"}
  Points = {1}
  MaxGeneration = 2
  MaxAttempt = 2
  FollowThreads = {t1, t2, t3}
  FollowCommands = {"http_start", "http_estop"}
  Outcomes = {"done"}
SYMMETRY Symmetry
CHECK_DEADLOCK FALSE
INVARIANTS
  EstopLeavesConsistent
