SPECIFICATION Spec
CONSTANTS
  Processes = {p1, p2}
  Requests = {r1, r2}
  AuthIds = {a1, a2}
  Tickets = {k1, k2}
  Boundaries = {"research_collection", "attention_refresh"}
  TTL = 1
  MaxTime = 0
  MaxLog = 5
  None = None
SYMMETRY Interchangeable
INVARIANT EffectsFollowAuthority
PROPERTY SendsOnlyUnderAuthority ImplementsAuthority
CHECK_DEADLOCK FALSE
