SPECIFICATION Spec
CONSTANTS
  Environments <- MCEnvironments
  Unset = Unset
  Malformed = Malformed
  MaxScan = 3
  MaxPermits = 5
  Sessions = {"s1", "s2"}
  Downloads = {"d1", "d2"}
  Ports = {1, 2}
  MaxFailures = 3
CONSTRAINT DeviationsOnlyStart
INVARIANTS
  ReadyMeansServing
  StoresOutliveTasks
  StoppedLeavesNothing
  AdvertisedIsBound
  ValidatedStarts
PROPERTIES
  MethodsReturn
  EveryPeerIsTaken
CHECK_DEADLOCK FALSE
