SPECIFICATION Spec
CONSTANTS
  c1 = c1
  c2 = c2
  k1 = k1
  k2 = k2
  Callers = {c1, c2}
  Closers = {k1, k2}
  NoCaller = NoCaller
  Commands <- MCCommands
  Answers <- MCAnswers
  QueueCapacity = 2
INVARIANTS
  AcceptedCommandsDrained
CHECK_DEADLOCK FALSE
