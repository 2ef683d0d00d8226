SPECIFICATION CanarySpec
CONSTANTS
  MaxTime = 2
  TTL = 1
  MaxRevision = 4
  MaxBoots = 3
  MaxFaults = 2
  None = None
INVARIANT CanaryIntegrity
PROPERTY ResultsUnderAuthority
CHECK_DEADLOCK FALSE
