SPECIFICATION FairTaskSpec
CONSTANTS
  Workers = {w1, w2}
  Commands = {"start_navigation", "stop_navigation", "initial_pose", "start_task"}
  Lines = {"env_ready", "initialized"}
  Points = {1}
  MaxGeneration = 2
  MaxAttempt = 1
  MaxRequests = 2
  MaxSaid = 2
ACTION_CONSTRAINT LaunchedInOrder
CHECK_DEADLOCK FALSE
INVARIANTS
  QuietRecordIsRight
  TaskInv
PROPERTIES
  RequestsAnswered
