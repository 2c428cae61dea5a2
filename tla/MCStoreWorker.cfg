SPECIFICATION Spec
CONSTANTS
  c1 = c1
  c2 = c2
  k1 = k1
  k2 = k2
  k3 = k3
  Callers = {c1, c2}
  Closers = {k1, k2, k3}
  NoCaller = NoCaller
  Commands <- MCCommands
  Answers <- MCAnswers
  QueueCapacity = 2
INVARIANTS
  CloseReturnsQuiet
PROPERTIES
  EveryoneReturns
CHECK_DEADLOCK FALSE
