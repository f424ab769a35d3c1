SPECIFICATION MappingSpec
CONSTANTS
  Workers = {w1}
  Commands = {"start_navigation", "stop_navigation"}
  Lines = {"env_ready"}
  Points = {1}
  MaxGeneration = 5
  MaxAttempt = 1
  MaxProcessing = 3
  FollowThreads = {t1}
  FollowCommands = {"start_follow", "stop_follow", "http_start", "http_stop", "http_estop", "http_get"}
  Outcomes = {"done", "refused", "lost"}
SYMMETRY Symmetry
CHECK_DEADLOCK FALSE
INVARIANTS
  UploadGateOwned
