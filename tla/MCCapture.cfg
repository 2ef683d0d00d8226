SPECIFICATION Spec
CONSTANTS
  Attempts = {a1, a2}
  Captures = {c1, c2}
  MaxRecords = 2
  MaxTime = 1
  None = None
SYMMETRY Interchangeable
INVARIANT CaptureIntegrity
PROPERTY RecoveryReconciles
