SPECIFICATION Spec
CONSTANTS
  t1 = t1
  t2 = t2
  t3 = t3
  s1 = s1
  s2 = s2
  e1 = e1
  e2 = e2
  e3 = e3
  Tasks = {t1, t2, t3}
  Scopes = {s1, s2}
  Entries = {e1, e2, e3}
  NoTask = NoTask
  NoScope = NoScope
  NoEntry = NoEntry
PROPERTIES
  OnlyItsScopeBlocks
CHECK_DEADLOCK FALSE
