SPECIFICATION PowerSpec
CONSTANTS
  c1 = c1
  i1 = i1
  i2 = i2
  a = a
  b = b
  Callers = {c1}
  Closers = {}
  NoCaller = NoCaller
  EventIds = {i1, i2}
  Topics = {a, b}
  Calls <- Looks
  QueueCapacity = 1
  MaxEpoch = 2
INVARIANTS
  AlwaysOpens
  EpochFixesPositions
PROPERTIES
  ImplementsLossyLog
CHECK_DEADLOCK FALSE
