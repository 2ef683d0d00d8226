SPECIFICATION MCSpec
CONSTANTS
  Processes = {"p1", "p2"}
  TTL = 1
  MaxTime = 2
  MaxLog = 5
  None = None
  Rankings <- MCSnapshots
  Validity = 1
  MaxShown = 2
  MaxImports = 2
  Bundles <- MCRefreshed
  PreviewTTL = 2
  MaxLeases = 1
  MaxPreviews = 2
  MaxRecords = 2
  Proposals <- MCProposals
  FirstChampion <- MCFirst
  Versions = {"v1", "v2"}
  Weights <- MCWeights
  Evidence = {"e"}
  MaxAllocation = 1
  MaxDrawdown = 1
  MinSample = 1
  Amounts = {1, 2}
  MaxCandidates = 3
  MaxChampions = 3
  Runs = {"r1", "r2"}
  Requests <- MCAsked
  Policies <- MCPolicies
  Gathered <- MCGathered
  Template <- MCTemplate
  IntentLife = 1
  FirstTime = 2
  LastTime = 3
  MaxCalls = 3
  MaxLosses = 1
  DayLength = 3
INVARIANTS RecordsWereAllowed AssessmentsAreGrounded EvidenceIsIndependent RunsAgreeWithinLimits PromotionsAreEarned
CHECK_DEADLOCK FALSE
