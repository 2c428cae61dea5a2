SPECIFICATION Spec
CONSTANTS
  Issuers = {"i1"}
  Connections = {"c1", "c2"}
  Requests <- AllRequests
  Length <- Lengths
  Ttl = 1
  MaxGrants = 1
  MaxDownloads = 1
  ChunkSize = 2
  MaxU64 = 3
  MaxStamp = 2
  MaxTime = 2
  MaxSetBacks = 1
  MaxGrant = 2
CONSTRAINT RangesOrSetBacks
INVARIANTS
  GrantsLast
  ServedUnderGrant
  BodyIsTheRange
  PermitsComeBack
PROPERTIES
  ExpiredIsFinal
  EveryRequestEnds
CHECK_DEADLOCK FALSE
