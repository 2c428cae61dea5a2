SPECIFICATION Spec
CONSTANTS
  p1 = p1
  p2 = p2
  c1 = c1
  s1 = s1
  s2 = s2
  k1 = k1
  k2 = k2
  Producers = {p1, p2}
  Clients = {c1}
  NoTask = NoTask
  Strokes = {s1, s2}
  NoStroke = NoStroke
  Canvases = {k1, k2}
  CanvasOf <- TwoCanvases
  Watched <- WatchFirst
  LoadLimit = 1
  ScanLimit = 1
  BusCapacity = 1
  QueueCapacity = 2
  MaxActions = 1
  MaxChunks = 2
SYMMETRY Symmetry
INVARIANTS
  BatchStoredFirst
  HistoryIsExact
  HandoffIsGapless
  StrokeIsSound
  ProjectionIsCurrent
CHECK_DEADLOCK FALSE
