SPECIFICATION MCSpec
CONSTANTS
  None = None
  e1 = e1
  e2 = e2
  k1 = k1
  s1 = s1
  s2 = s2
  checkpoint = checkpoint
  Absent = Absent
  Scopes = {"events", "journal", "outbox", "verifier"}
  Latest = 2
  Lifetime = 2
  MaxSigned = 3
  Connections = {c1}
  Requests <- NamedRequests
  Signers = {s1, s2}
  MaxEvents = 2
  MaxTime = 1
  MaxEntries = 2
  MaxRollbacks = 1
  MaxCrashes = 1
  Publishers = {p1, p2}
  Checkpoints <- MCCheckpoints
  MaxTick = 2
  MaxDeaths = 2
  Signed <- MCSigned
  Pinnable <- MCPinnable
  LastTime = 1
  Sessions = {}
  Releases = {}
  MaxEvidence = 0
  MaxArchives = 0
  Publications = {}
  Hosts = {}
  Payloads = {}
  MaxMishaps = 0
  MaxWaits = 0
INVARIANTS HistoryIsAnchored OutboxIsTruthful ReportIsRight
CHECK_DEADLOCK FALSE
SYMMETRY Interchangeable
