SPECIFICATION MCSpec
CONSTANTS
  None = None
  e1 = e1
  e2 = e2
  k1 = k1
  s1 = s1
  s2 = s2
  checkpoint = checkpoint
  Absent = Absent
  Scopes = {"files", "contents", "documents"}
  Latest = 2
  Lifetime = 2
  MaxSigned = 3
  Connections = {}
  Requests <- SessionRequests
  Signers = {}
  MaxEvents = 2
  MaxTime = 1
  MaxEntries = 2
  MaxRollbacks = 1
  MaxCrashes = 0
  Publishers = {}
  Checkpoints = {}
  MaxTick = 0
  MaxDeaths = 0
  Signed = {}
  Pinnable = {}
  LastTime = 0
  Sessions = {s1, s2}
  Releases = {r1}
  MaxEvidence = 2
  MaxArchives = 1
  Publications = {p1, p2}
  Hosts = {h1, h2}
  Payloads = {f1}
  MaxMishaps = 2
  MaxWaits = 1
INVARIANTS WholeOrAbsent VouchedFor
CHECK_DEADLOCK FALSE
SYMMETRY Interchangeable
