SPECIFICATION PartsSpec
CONSTANTS
  BmsConnections = {b1, b2}
  MaxReadings = 3
  MaxGeneration = 3
  MotionIds = {m1}
  DeviceIds = {d1}
  OtherIds = {o1, o2}
  CacheLimit = 2
  MaxDelivered = 2
  MaxHeartbeatOpens = 4
  MaxWebOpens = 4
  MaxPtzCommands = 6
  MaxMotionCommands = 4
  GatewayThreads = {g1, g2}
  ExecutorThreads = {e1, e2}
  MaxPoint = 3
  MaxRound = 2
  MaxLists = 2
  MaxSaidOnce = 2
  MaxFailures = 3
  Uploaders = {u1, u2}
  Intervals = {1, 2}
  MaxSetters = 2
  MaxClock = 5
CHECK_DEADLOCK FALSE
INVARIANTS
  PartsTypeOK
  BmsKeepsUp
  RefusedRightly
  HeartbeatLives
  CameraWatched
  MotionRemembered
  CallbacksEndFirst
  ReportedOnce
PROPERTIES
  RetriesFiltered
  OnlyIdleMoves
  RateKept
  CameraStops
  ShutdownEnds
