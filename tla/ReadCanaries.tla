---------------------------- MODULE ReadCanaries ----------------------------
(***************************************************************************)
(* The one-shot OpenSea read canary, the one-shot Base RPC anchor canary,  *)
(* and the three canaries side by side.  The OpenSea canary is the program *)
(* of XReadCanary with one more durable record: a failure is written down  *)
(* before anything is cleaned up, the whole capture storage is recovered   *)
(* before the attempt is closed, and every later step, and every later     *)
(* process, asks again whether the checkpoint still agrees with what is    *)
(* stored.  The steps that are those of the X canary are Kept; each names  *)
(* the OpenSea code it stands for.                                         *)
(***************************************************************************)
EXTENDS XReadCanary

VARIABLE
  failure    \* event: the failure checkpoint

openSeaVars == <<vars, failure>>

\* A step of the X canary that knows no checkpoint.
Kept(A) == A /\ UNCHANGED failure

\* What does not agree is refused: nothing changes.
Refuse == Goto("refused") /\ UNCHANGED <<durable, requests, context, held, failure>>

OpenSeaInit == Init /\ failure = None

-----------------------------------------------------------------------------
(* The host: startup, the one run, the late recovery, shutdown. *)

OpenSeaBoot == Kept(Boot)
OpenSeaPutOff == Kept(PutOff)
OpenSeaAdmit == Kept(Admit)
OpenSeaExecute == Kept(Execute)
OpenSeaClaim == Kept(Claim)
OpenSeaRecheck == Kept(Recheck)

\* What readOpenSeaReadCanaryProjection shows of a host without an active run.
OpenSeaStatus == Status

\* Only an execution retries the recovery that startup put off; a refresh of the
\* credential status does not.
OpenSeaRecoverLate ==
  /\ runtime.mode = "RESEARCH" /\ OpenSeaStatus = "interrupted"
  /\ Kept(RecoverLate)

\* A host whose run is over, or one that is idle with an interrupted run.
OpenSeaClose ==
  \/ Kept(Close)
  \/ OpenSeaStatus = "interrupted" /\ Kept(CloseFrom("ready"))

-----------------------------------------------------------------------------
(* The controller and the ingestion, up to the result. *)

OpenSeaAuthorize(t) == Kept(Authorize(t))
OpenSeaPrepare == Kept(Prepare)
OpenSeaReserve(t) == Kept(Reserve(t))
OpenSeaBegin(t) == Kept(Begin(t))
OpenSeaDispatch(t) == Kept(Dispatch(t))
OpenSeaSend == Kept(Send)
OpenSeaSeal == Kept(Seal)
OpenSeaReceive(k, t) == Kept(Receive(k, t))
OpenSeaCapture == Kept(Capture)
OpenSeaCommit(t) == Kept(Commit(t))
OpenSeaShred == Kept(Shred)
OpenSeaProject == Kept(Project)
OpenSeaComplete(t) == Kept(Complete(t))
OpenSeaDeny(t) == Kept(Deny(t))
OpenSeaResume == Kept(Resume)
OpenSeaCaught == Kept(Caught)

-----------------------------------------------------------------------------
(* The evidence, which the OpenSea controller checks for itself. *)

OpenSeaRuntimeEvidence == RuntimeEvidence
OpenSeaCaptureEvidence == CaptureEvidence
OpenSeaResultBinds == attempt # None /\ OpenSeaRuntimeEvidence /\ OpenSeaCaptureEvidence
OpenSeaRuntimeChecked == RuntimeChecked

-----------------------------------------------------------------------------
(* A captured result is finished as in the X canary, unless there is a     *)
(* checkpoint as well.                                                     *)

\* finalizeResult's first question.
OpenSeaCloseAttempt ==
  /\ At("close")
  /\ IF failure = None THEN Kept(CloseAttempt) ELSE Refuse

OpenSeaDestroy == Kept(Destroy)
OpenSeaRecordDeletion == Kept(RecordDeletion)
OpenSeaReceipt == Kept(AppendReceipt)

-----------------------------------------------------------------------------
(* The failure checkpoint. *)

FailureOutcome == CASE attempt = None -> None
                    [] attempt # None /\ attempt.state = "reserved" -> "aborted"
                    [] attempt # None /\ attempt.state = "dispatched" -> "failed"
                    [] OTHER -> attempt.outcome

FailureDate == CASE attempt = None \/ attempt.state = "reserved" -> prepared.at
                 [] attempt # None /\ attempt.state = "closed" -> attempt.closedAt
                 [] OTHER -> attempt.dispatchedAt

FailureCandidate ==
  [outcome |-> FailureOutcome, completedAt |-> FailureDate, runtime |-> OpenSeaRuntimeChecked]

\* assertFailureCheckpointBinding.
FailureBinds ==
  /\ IF attempt = None
     THEN failure.outcome = None /\ failure.completedAt = prepared.at
     ELSE /\ failure.outcome # None
          /\ failure.completedAt = (IF failure.outcome = "aborted" THEN prepared.at
                                    ELSE attempt.dispatchedAt)
          /\ attempt.state = "reserved" => failure.outcome = "aborted"
          /\ attempt.state = "dispatched" => failure.outcome = "failed"
          /\ attempt.state = "closed" => /\ attempt.closedAt = failure.completedAt
                                         /\ attempt.outcome = failure.outcome
  /\ failure.runtime = OpenSeaRuntimeChecked
  /\ failure.runtime => OpenSeaRuntimeEvidence
  /\ result = None /\ captured = None
  /\ entry # None => entry.state # "committed"

\* persistFailureCheckpoint; an attempt that was closed as a success never
\* becomes a failure.
PersistFailure ==
  /\ At("abort")
  /\ IF FailureOutcome \in {None, "aborted", "failed"}
     THEN failure' = FailureCandidate /\ Then("tidy")
     ELSE Goto("refused") /\ UNCHANGED failure
  /\ UNCHANGED <<durable, requests, context, held>>

FailureReceipt == [outcome |-> "failed", completedAt |-> failure.completedAt,
                   runtime |-> failure.runtime, capture |-> FALSE]

\* Mutant: the capture storage is left to the next startup.
TidyPending_Skipped(t) ==
  /\ At("tidy") /\ t \in Times
  /\ Goto("shut")
  /\ UNCHANGED <<durable, requests, context, held, failure>>

\* finalizeFailureCheckpoint: the capture storage, as of no earlier than the run
\* and its failure; then the attempt, the pending capture and the receipt.
TidyPending(t) ==
  /\ At("tidy")
  /\ IF FailureBinds
     THEN Kept(RemoveInterrupted("tidy", "mend",
                                 LaterOf(t, LaterOf(prepared.at, failure.completedAt))))
     ELSE Refuse
TidyDeletion == Kept(RepairDeletion("mend", "sweep"))
TidyOrphan == Kept(ReconcileOrphan("sweep", "shut"))

ShutAttempt ==
  /\ At("shut")
  /\ IF FailureBinds
     THEN /\ attempt' = IF failure.outcome = None \/ attempt.state = "closed" THEN attempt
                        ELSE Closed(failure.completedAt, failure.outcome)
          /\ Then("drop")
          /\ UNCHANGED <<runtime, check, marker, prepared, entry, capture, captured, result,
                         receipt, requests, context, held, failure>>
     ELSE Refuse

\* removePendingCaptureAfterFailure; nothing of the capture may be left.
DropPending ==
  /\ At("drop")
  /\ entry' = IF entry # None /\ entry.state = "pending"
              THEN [entry EXCEPT !.state = "removed", !.reason = "pending",
                                 !.removedAt = LaterOf(failure.completedAt, entry.begunAt)]
              ELSE entry
  /\ IF entry # None => entry.state # "committed" THEN Then("fail") ELSE Goto("refused")
  /\ UNCHANGED <<runtime, check, marker, prepared, attempt, capture, captured, result,
                 receipt, requests, context, held, failure>>

AppendFailureReceipt ==
  /\ At("fail")
  /\ IF FailureBinds /\ receipt \in {None, FailureReceipt}
     THEN /\ receipt' = FailureReceipt
          /\ Then(End)
          /\ UNCHANGED <<runtime, check, marker, prepared, attempt, entry, capture, captured,
                         result, requests, context, held, failure>>
     ELSE Refuse

-----------------------------------------------------------------------------
(* Recovery of a prepared run. *)

\* assertFailureReceiptBinding.
ReceiptRepeatsFailure ==
  /\ receipt = FailureReceipt
  /\ entry # None => entry.state = "removed"

\* What loadResult and loadFailure ask of the records that are there.
LoadedEvidence == /\ result # None => OpenSeaResultBinds
                  /\ failure # None => FailureBinds

\* Without a receipt, what is on record decides.
Unfinished == CASE result # None -> "close"
                [] result = None /\ failure # None -> "tidy"
                [] result = None /\ failure = None /\ entry # None /\ entry.state = "committed" ->
                     "resume"
                [] OTHER -> "abort"

OpenSeaRecover ==
  /\ At("recover")
  /\ Goto(IF ~LoadedEvidence \/ (result # None /\ failure # None) THEN "refused"
          ELSE IF receipt = None THEN Unfinished
          ELSE IF receipt.capture THEN IF result = None THEN "refused" ELSE "close"
          ELSE IF failure = None \/ ~ReceiptRepeatsFailure THEN "refused" ELSE "tidy")
  /\ UNCHANGED <<durable, requests, context, held, failure>>

\* recoverCaptureStorage at startup and before a late recovery.
OpenSeaStorage(t) == \/ Kept(StoragePending(t)) \/ Kept(StorageRepair) \/ Kept(StorageReconcile)

-----------------------------------------------------------------------------
(* Specification. *)

OpenSeaTimed(t) ==
  \/ OpenSeaAuthorize(t) \/ OpenSeaReserve(t) \/ OpenSeaBegin(t) \/ OpenSeaDispatch(t)
  \/ Kept(Consume(t)) \/ OpenSeaCommit(t) \/ OpenSeaComplete(t) \/ OpenSeaDeny(t)
  \/ OpenSeaStorage(t) \/ TidyPending(t)

OpenSeaLive == \/ OpenSeaAdmit \/ OpenSeaClaim \/ OpenSeaRecheck \/ OpenSeaPrepare \/ OpenSeaSend
               \/ OpenSeaSeal \/ OpenSeaCapture \/ OpenSeaShred \/ OpenSeaProject \/ OpenSeaCaught

OpenSeaFinish == \/ OpenSeaCloseAttempt \/ OpenSeaDestroy \/ OpenSeaRecordDeletion \/ OpenSeaReceipt
                 \/ PersistFailure \/ TidyDeletion \/ TidyOrphan \/ ShutAttempt
                 \/ DropPending \/ AppendFailureReceipt

OpenSeaStep == \/ OpenSeaLive \/ OpenSeaFinish \/ OpenSeaRecover \/ OpenSeaResume
               \/ \E t \in Times : OpenSeaTimed(t) \/ \E k \in Contents : OpenSeaReceive(k, t)

OpenSeaNext == \/ OpenSeaBoot \/ OpenSeaStep \/ OpenSeaRecoverLate \/ OpenSeaExecute
               \/ OpenSeaClose \/ OpenSeaPutOff \/ Kept(Crash) \/ Kept(Fault) \/ Kept(OperatorNext)

-----------------------------------------------------------------------------
(* The Base RPC canary follows the protocol of the OpenSea canary, over one  *)
(* JSON-RPC request for the finalized block.  An answer holds one anchor or  *)
(* is malformed; it is never empty.                                          *)

BaseContents == Contents \ {"none"}

\* The host.
BaseBoot == OpenSeaBoot
BasePutOff == OpenSeaPutOff
BaseAdmit == OpenSeaAdmit
BaseExecute == OpenSeaExecute
BaseClaim == OpenSeaClaim
BaseRecheck == OpenSeaRecheck

\* What readBaseRpcReadCanaryProjection shows: an answer is never empty.
BaseStatus == IF receipt # None
              THEN IF receipt.outcome = "accepted" THEN "completed" ELSE "failed"
              ELSE IF prepared # None THEN "interrupted" ELSE "ready"

BaseRecoverLate ==
  /\ runtime.mode = "RESEARCH" /\ BaseStatus = "interrupted"
  /\ Kept(RecoverLate)
BaseClose ==
  \/ Kept(Close)
  \/ BaseStatus = "interrupted" /\ Kept(CloseFrom("ready"))

\* The controller.  It asks for RESEARCH by name, which is the mode of the
\* revision that the operator acknowledged.
BaseAuthorize(t) == OpenSeaAuthorize(t)
BasePrepare == OpenSeaPrepare
BaseReserve(t) == OpenSeaReserve(t)
BaseCaught == OpenSeaCaught

\* The ingestion.
BaseBegin(t) == OpenSeaBegin(t)
BaseDispatch(t) == OpenSeaDispatch(t)
BaseSend == OpenSeaSend
BaseSeal == OpenSeaSeal
BaseReceive(k, t) == OpenSeaReceive(k, t)
BaseCapture == OpenSeaCapture
BaseCommit(t) == OpenSeaCommit(t)
BaseShred == OpenSeaShred
BaseProject == OpenSeaProject

\* recoverBaseRpcAnchor resumes from storage; it does not project again what
\* was closed without an event, or closed as anything but what it holds.
BaseResumable ==
  attempt.state = "closed" =>
    /\ captured # None /\ captured.at <= attempt.closedAt
    /\ attempt.outcome \in (IF captured.status = "accepted" THEN {"succeeded", "failed"} ELSE {"failed"})
BaseResume ==
  /\ At("resume")
  /\ IF attempt # None => BaseResumable THEN OpenSeaResume ELSE Refuse

-----------------------------------------------------------------------------
(* The recovery core's own evidence. *)

BaseRuntimeChecked == RuntimeChecked
BaseRuntimeEvidence == RuntimeEvidence

\* One anchor or a rejection, as the result says unless it was a denial; and the
\* registry still holds the capture, or has destroyed its key since.
BaseCaptureEvidence ==
  /\ captured # None /\ captured.at = result.acquiredAt
  /\ captured.status = "accepted" => ~captured.empty
  /\ ~result.denied => captured.status = result.outcome
  /\ entry # None
  /\ \/ entry.state = "committed" /\ entry.committedAt <= result.completedAt
     \/ entry.state = "removed" /\ entry.reason = "deleted" /\ result.completedAt <= entry.removedAt

BaseResultBinds == attempt # None /\ BaseRuntimeEvidence /\ BaseCaptureEvidence

\* The closure that a checkpoint announces is the one the ledger allows.
BaseClosure ==
  CASE attempt = None -> failure.outcome = None /\ failure.completedAt = prepared.at
    [] attempt # None /\ attempt.state = "reserved" ->
         failure.outcome = "aborted" /\ failure.completedAt = prepared.at
    [] attempt # None /\ attempt.state = "dispatched" ->
         failure.outcome = "failed" /\ failure.completedAt = attempt.dispatchedAt
    [] OTHER ->
         /\ failure.outcome = attempt.outcome /\ failure.completedAt = attempt.closedAt
         /\ attempt.closedAt = (IF attempt.outcome = "aborted" THEN prepared.at
                                ELSE attempt.dispatchedAt)

BaseFailureBinds ==
  /\ BaseClosure
  /\ failure.runtime = BaseRuntimeChecked
  /\ failure.runtime => BaseRuntimeEvidence
  /\ result = None /\ captured = None
  /\ entry # None => entry.state # "committed"

BaseLoadedEvidence == /\ result # None => BaseResultBinds
                      /\ failure # None => BaseFailureBinds

BaseFailedReceipt == FailureReceipt

\* A failure receipt repeats the checkpoint and left no active capture.
BaseFailureReceiptRepeats ==
  /\ BaseFailureBinds
  /\ receipt = BaseFailedReceipt
  /\ entry # None => entry.state \notin {"pending", "committed"}

-----------------------------------------------------------------------------
(* The recovery core: the result, and the failure checkpoint. *)

BaseComplete(t) == OpenSeaComplete(t)
BaseDeny(t) == OpenSeaDeny(t)
BaseCloseAttempt == OpenSeaCloseAttempt
BaseDestroy == OpenSeaDestroy
BaseRecordDeletion == OpenSeaRecordDeletion
BaseReceipt == OpenSeaReceipt

\* failureCandidate, and its append.
BaseFailureCandidate == FailureCandidate
BasePersistFailure ==
  /\ At("abort")
  /\ IF BaseFailureCandidate.outcome \in {None, "aborted", "failed"}
     THEN failure' = BaseFailureCandidate /\ Then("tidy")
     ELSE Goto("refused") /\ UNCHANGED failure
  /\ UNCHANGED <<durable, requests, context, held>>

BaseTidy(t) == TidyPending(t) \/ TidyDeletion \/ TidyOrphan
BaseShutAttempt == ShutAttempt
BaseDropPending == DropPending
BaseFailureReceipt == AppendFailureReceipt

\* recoverPreparedCanary: with a receipt, its checkpoint is finished once more.
BaseReceipted == CASE receipt.capture /\ result # None -> "close"
                   [] ~receipt.capture /\ failure # None /\ BaseFailureReceiptRepeats -> "tidy"
                   [] OTHER -> "refused"

BaseRecover ==
  /\ At("recover")
  /\ Goto(IF ~BaseLoadedEvidence \/ (result # None /\ failure # None) THEN "refused"
          ELSE IF receipt # None THEN BaseReceipted ELSE Unfinished)
  /\ UNCHANGED <<durable, requests, context, held, failure>>

-----------------------------------------------------------------------------
BaseTimed(t) ==
  \/ BaseAuthorize(t) \/ BaseReserve(t) \/ BaseBegin(t) \/ BaseDispatch(t) \/ Kept(Consume(t))
  \/ BaseCommit(t) \/ BaseComplete(t) \/ BaseDeny(t) \/ OpenSeaStorage(t) \/ BaseTidy(t)

BaseLive == \/ BaseAdmit \/ BaseClaim \/ BaseRecheck \/ BasePrepare \/ BaseSend \/ BaseSeal
            \/ BaseCapture \/ BaseShred \/ BaseProject \/ BaseCaught

BaseFinish == \/ BaseCloseAttempt \/ BaseDestroy \/ BaseRecordDeletion \/ BaseReceipt
              \/ BasePersistFailure \/ BaseShutAttempt \/ BaseDropPending \/ BaseFailureReceipt

BaseStep == \/ BaseLive \/ BaseFinish \/ BaseRecover \/ BaseResume
            \/ \E t \in Times : BaseTimed(t) \/ \E k \in BaseContents : BaseReceive(k, t)

BaseNext == \/ BaseBoot \/ BaseStep \/ BaseRecoverLate \/ BaseExecute \/ BaseClose
            \/ BasePutOff \/ Kept(Crash) \/ Kept(Fault) \/ Kept(OperatorNext)

-----------------------------------------------------------------------------
(* The three canaries.  Each has a profile directory and stores of its own, *)
(* so a behaviour is that of one of them.                                   *)
VARIABLE
  provider   \* whose canary this is

canaryVars == <<openSeaVars, provider>>

CanaryInit == OpenSeaInit /\ provider \in {"x", "opensea", "base"}

CanaryStep == /\ \/ provider = "x" /\ Kept(Step)
                 \/ provider = "opensea" /\ OpenSeaStep
                 \/ provider = "base" /\ BaseStep
              /\ UNCHANGED provider

CanaryNext == /\ \/ provider = "x" /\ Kept(Next)
                 \/ provider = "opensea" /\ OpenSeaNext
                 \/ provider = "base" /\ BaseNext
              /\ UNCHANGED provider

CanarySpec == CanaryInit /\ [][CanaryNext]_canaryVars

\* The operator restarts a host that is down or whose run is over, or one of the
\* later two that is idle with an interrupted run; the X host is polled instead.
Start == Kept(Boot) /\ UNCHANGED provider
Restart == /\ UNCHANGED provider
           /\ \/ provider = "x" /\ Kept(Close)
              \/ provider # "x" /\ OpenSeaClose
Poll == provider = "x" /\ Kept(RecoverLate) /\ UNCHANGED provider

\* The host's code runs to its next wait; a host is started again, and polled.
FairCanarySpec == /\ CanarySpec
                  /\ WF_canaryVars(CanaryStep) /\ WF_canaryVars(Start)
                  /\ WF_canaryVars(Restart) /\ WF_canaryVars(Poll)

-----------------------------------------------------------------------------
(* Properties. *)

Failures == [outcome : Maybe({"aborted", "failed"}), completedAt : Times, runtime : BOOLEAN]

ASSUME NoFailureAssumption == None \notin Failures

\* A failure receipt of these canaries leaves no live capture behind, whatever
\* failed between the vault, the registry and the shredding ("a recoverable
\* orphan may otherwise outlive a failure receipt"); it repeats the checkpoint,
\* and a run never has both a checkpoint and a result.
FailuresAreFinal ==
  failure # None =>
    /\ failure \in Failures
    /\ result = None
    /\ entry # None => entry.state # "committed"
    /\ receipt # None => /\ receipt = FailureReceipt
                         /\ entry # None => entry.state = "removed"
                         /\ capture # None => capture.state = "deleted"

\* Whatever failed and wherever a process died, the provider is asked once and
\* for an attempt on record, the evidence left behind is accepted by the next
\* process, a receipt is true, and a failure leaves no live capture.
CanaryIntegrity ==
  OneAccountedRequest /\ ReceiptTellsTheTruth /\ EvidenceIsAccepted /\ FailuresAreFinal
=============================================================================
