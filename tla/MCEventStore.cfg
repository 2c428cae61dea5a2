SPECIFICATION Spec
CONSTANTS
  c1 = c1
  c2 = c2
  k1 = k1
  i1 = i1
  i2 = i2
  a = a
  b = b
  Callers = {c1, c2}
  Closers = {k1}
  NoCaller = NoCaller
  EventIds = {i1, i2}
  Topics = {a, b}
  Calls <- Appends
  QueueCapacity = 1
  MaxEpoch = 2
SYMMETRY Symmetry
INVARIANTS
  StoredOnce
  SeenIsDurable
PROPERTIES
  ImplementsLog
CHECK_DEADLOCK FALSE
