SPECIFICATION Spec
CONSTANTS
  Processes = {p1}
  Requests = {r1}
  AuthIds = {a1}
  Tickets = {k1, k2}
  Boundaries = {"research_collection"}
  TTL = 1
  MaxTime = 0
  MaxLog = 3
  None = None
INVARIANT CompletionsAreDurable
CHECK_DEADLOCK FALSE
