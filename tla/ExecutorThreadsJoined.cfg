SPECIFICATION ShutdownSpec
CONSTANTS
  GatewayThreads = {g1, g2}
  ExecutorThreads = {e1, e2}
CHECK_DEADLOCK FALSE
INVARIANTS
  ExecutorThreadsJoined
