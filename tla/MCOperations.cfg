SPECIFICATION MCSpec
CONSTANTS
  Budgets = {b1}
  Attempts = {a1, a2, a3}
  Auths = {u1, u2}
  Amounts = {1, 2}
  Limits <- AmpleLimits
  Window = 2
  MaxTime = 2
  MaxElapsed = 2
  None = None
  Advances = {x1, x2}
  EventSequences = {1, 2}
  Checkpoints <- SmallCheckpoints
  Anchors <- SmallAnchors
  Deliveries = {1, 2}
  Planes = {"resend"}
  PlaneOf <- OnePlane
  OccurredAt <- OneAfterAnother
  MessageIds = {"m"}
  LatestTime = 1
  HeadsAt = {0, 3}
  CopiesAt = {2}
SYMMETRY Symmetry
INVARIANTS AttemptIntegrity SentOnce LedgerStaysSound CommitsHaveEvidence OutboxStaysSound
PROPERTIES SentInTime OutcomesAreFinal ImplementsRegister ReceiptsAreStable
CHECK_DEADLOCK FALSE
