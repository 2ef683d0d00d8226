SPECIFICATION MCSpec
CONSTANTS
  c1 = c1
  c2 = c2
  c3 = c3
  q1 = q1
  q2 = q2
  a = a
  b = b
  Calls = {c1, c2, c3}
  Requests = {q1, q2}
  Asks <- MCAsks
  Processes = {p1, p2, p3}
  Claimants = {h1, h2}
  None = None
  MaxFaults = 1
MaxMishaps = 3
Uses = {a}
MaxUpsets = 2
INVARIANT HostIsAlone
INVARIANT LockAndKeysAreKept
INVARIANT AnswersAreFaithful
PROPERTY CallsEnd
CHECK_DEADLOCK FALSE
