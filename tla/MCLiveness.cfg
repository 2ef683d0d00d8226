SPECIFICATION FairProviderSpec
CONSTANTS
  MaxTime = 0
  TTL = 1
  MaxRevision = 3
  MaxBoots = 5
  MaxFaults = 2
  Limit = 1
  MaxFlaws = 2
  Collected = {a1}
  Stored = {c1}
  MaxClock = 3
  None = None
INVARIANT ReportsTheTruth
PROPERTIES RunsAndRequestsEnd BecomesReady
CHECK_DEADLOCK FALSE
