CONSTANTS
  c1 = c1
  c2 = c2
  c3 = c3
  u = u
  v = v
  w = w
  NoConn = none
  NoConv = nobody
  Conn = {c1, c2, c3}
  Conv = {u, v, w}
  Cached = {w}
  Asks <- MCAsks
  Chunks = 1
  Cycles = 1
  QMax = 2
  MaxPending = 1
  RebuildEvery = 1
  FailLimit = 2
  MaxTroubles = 1
SPECIFICATION Spec
INVARIANTS
  TypeOK
  HonestStreams
  ConvOnOneSlot
  RebuildBudget
PROPERTIES
  TurnEndOwnChain
  EveryoneAnswered
CHECK_DEADLOCK FALSE
