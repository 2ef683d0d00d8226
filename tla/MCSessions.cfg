SPECIFICATION MCSpec
CONSTANTS
  Sessions = {s1, s2}
  Minute45 = 0
  Minute90 = 1
  Grace = 0
  MaxSupervised = 1
  MaxReconciliation = 0
  DayLength = 2
  MaxSessions = 2
  LocalReasons = {"incident-detected"}
  MaxTime = 2
  HeadsAt = {0}
  CopiesAt = {}
  None = None
  Verifiers = {v1, v2}
  Lanes = {"x"}
  Profile = "canary"
  Reports <- MCReports
  MaxAttempts = 2
  MaxEvents = 2
INVARIANT SessionsStaySound
INVARIANT WindowsStaySound
INVARIANT ClosedMeansNothingLeft
PROPERTY ImplementsGate
PROPERTY RestartsBlockEgress
SYMMETRY Interchangeable
CHECK_DEADLOCK FALSE
