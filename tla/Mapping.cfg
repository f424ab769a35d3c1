SPECIFICATION FairMappingSpec
CONSTANTS
  Workers = {w1}
  Commands = {"start_navigation", "stop_navigation"}
  Lines = {"env_ready"}
  Points = {1}
  MaxGeneration = 3
  MaxAttempt = 1
  MaxProcessing = 2
  FollowThreads = {t1}
  FollowCommands = {"start_follow", "stop_follow", "http_start", "http_stop", "http_estop", "http_get"}
  Outcomes = {"done", "refused", "lost"}
CHECK_DEADLOCK FALSE
INVARIANTS
  MappingInv
PROPERTIES
  MappingImplementsArbiter
  MappingEnds
