SPECIFICATION Spec
CONSTANTS
  Processes = {p1}
  Requests = {r1, r2}
  AuthIds = {a1}
  Tickets = {k1}
  Boundaries = {"research_collection", "proposal_persist", "attention_refresh", "paid_read"}
  TTL = 2
  MaxTime = 3
  MaxLog = 4
  None = None
SYMMETRY Interchangeable
INVARIANT LogReplays
PROPERTY ChecksWithinLifetime
CHECK_DEADLOCK FALSE
