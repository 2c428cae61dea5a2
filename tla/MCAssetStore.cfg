SPECIFICATION Spec
CONSTANTS
  i1 = i1
  i2 = i2
  r1 = r1
  a1 = a1
  x = x
  y = y
  Ingesters = {i1, i2}
  Readers = {r1}
  Closers = {k1}
  Assets = {a1}
  Contents = {x, y}
  QueueCapacity = 1
  MaxCrashes = 2
  NoCaller = NoCaller
  NoTask = NoTask
CONSTRAINT SmallEnough
SYMMETRY Symmetry
VIEW View
INVARIANTS
  PublishedHasBlob
  FoundIsReadable
  AckedStaysPublished
  StagedHasIngest
CHECK_DEADLOCK FALSE
