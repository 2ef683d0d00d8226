---------------------------- MODULE MCProviders ----------------------------
(***************************************************************************)
(* Liveness of what can get stuck: the three canaries, the three           *)
(* collectors on their own, and the storage recovery that every host       *)
(* starts with (scope says which).                                         *)
(***************************************************************************)
EXTENDS ReadCanaries

CONSTANTS Limit, MaxFlaws, Collected, Stored, MaxClock

VARIABLES
  scope,
  phase, signal, timer, dispatch, transport, answer, body, chunks, copy, reported,  \* of ReadCollector
  vault, meta, registry, nextSequence, job, owner, recovery, recoveredAt            \* of CaptureStorage

C == INSTANCE ReadCollector
S == INSTANCE CaptureStorage WITH Attempts <- Collected, Captures <- Stored,
                                MaxRecords <- 1, MaxTime <- MaxClock,
                                phase <- recovery

ASSUME LimitAssumption == Limit \in Nat
ASSUME NoReportAssumption == None \notin {"response", "TIMEOUT", "ABORTED", "PAYMENT_REQUIRED"}

collector == <<phase, signal, timer, dispatch, transport, answer, body, chunks, copy, reported>>
storage == <<vault, meta, registry, nextSequence, job, owner, recovery, recoveredAt>>
providerVars == <<canaryVars, scope, collector, storage>>

ProviderInit ==
  /\ CanaryInit /\ C!Init /\ S!Init
  /\ scope \in {"canary", "collector", "storage"}
  /\ scope = "storage" => provider = "x"

Canary(A) == scope = "canary" /\ A /\ UNCHANGED <<scope, collector, storage>>
Collector(A) == scope = "collector" /\ A /\ UNCHANGED <<scope, openSeaVars, storage>>
Storage(A) == scope = "storage" /\ A /\ UNCHANGED <<scope, canaryVars, collector>>

ProviderNext == Canary(CanaryNext) \/ Collector(C!Next) \/ Storage(S!Next)

FairProviderSpec ==
  /\ ProviderInit /\ [][ProviderNext]_providerVars
  /\ WF_providerVars(Canary(CanaryStep)) /\ WF_providerVars(Canary(Start))
  /\ WF_providerVars(Canary(Restart)) /\ WF_providerVars(Canary(Poll))
  /\ WF_providerVars(Collector(C!Timeout))
  /\ WF_providerVars(Storage(S!Recovery))
  /\ SF_providerVars(Storage(recovery = "boot" /\ S!StartRecovery(MaxClock)))

\* What a collector reports is so, and the later two leave no response open.
ReportsTheTruth == C!ReportsTheTruth /\ C!NothingLeftOpen

\* A prepared run gets its receipt and a launched request ends, whatever the
\* network and the crashes before did.
RunsAndRequestsEnd == GetsReceipt /\ C!CollectionEnds

\* Once crashes and I/O errors stop, a host that boots becomes ready.
BecomesReady == scope = "storage" => S!BecomesReady
=============================================================================
