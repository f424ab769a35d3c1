SPECIFICATION FairOutboxSpec
CONSTANTS
  Connections = {c1, c2, c3}
  Threads = {t1}
  MaxPosted = 2
  Client = client
  Limit = 2
  MaxResults = 1
  MaxPositions = 2
CHECK_DEADLOCK FALSE
INVARIANTS
  KeptOnce
  OnlyPutBackWaits
  OneSession
  FlagsHaveConnection
  OneTimer
  NeverStranded
PROPERTIES
  ImplementsStore
  Flows
  TriesAgain
