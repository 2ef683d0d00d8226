---------------------------- MODULE XReadCanary ----------------------------
(***************************************************************************)
(* The one-shot X read canary: XReadCanaryController of                    *)
(* packages/read-canary, driven by the Keychain host of apps/cli, over the *)
(* runtime authority, the operations ledger, the capture registry, the     *)
(* vault and the event store.  One permanent Keychain marker buys one run; *)
(* the run may send one provider request and ends in one receipt.          *)
(*                                                                         *)
(* Six stores change one at a time, so a crash or an error may separate    *)
(* any two changes; what is left is finished by recoverXReadCanary in a    *)
(* later process, from durable state alone.  The host's code is sequential *)
(* (pc); the operator changes the runtime mode between its steps, except   *)
(* inside the callbacks that run under the runtime lock.  The details of   *)
(* RuntimeController and CaptureStorage are abstracted to what this        *)
(* program reads of them.  Clock readings are arbitrary.                   *)
(***************************************************************************)
EXTENDS Naturals

CONSTANTS
  MaxTime,      \* bound: wall clock readings
  TTL,          \* lifetime of a runtime authorization, and of a capture
  MaxRevision,  \* bound: operator commands; a boot always finds room
  MaxBoots,     \* bound: host processes
  MaxFaults,    \* bound: crashes and failed operations
  None          \* not there

ASSUME BoundsAssumption ==
  /\ MaxTime \in Nat /\ TTL \in Nat \ {0}
  /\ MaxRevision \in Nat /\ MaxBoots \in Nat \ {0} /\ MaxFaults \in Nat

Times == 0..MaxTime
Contents == {"posts", "none", "malformed"}

VARIABLES
  runtime,   \* the runtime authority: mode, revision and owning process
  check,     \* its durable record of the dispatch boundary check
  marker,    \* the permanent Keychain claim
  prepared,  \* event: the claimed command and its authorization
  attempt,   \* the operations ledger's network attempt
  entry,     \* the capture registry's attempt
  capture,   \* the vault's capture
  captured,  \* event: the content-free projection of the capture
  result,    \* event: the outcome, before the capture is destroyed
  receipt,   \* event: the receipt of the run
  requests,  \* what the provider has received
  pc,        \* in memory: the next step of the host
  context,   \* in memory: on whose behalf
  held,      \* in memory: what the step before left for the next one
  faults     \* crashes and failures so far

durable == <<runtime, check, marker, prepared, attempt, entry, capture,
             captured, result, receipt>>
vars == <<durable, requests, pc, context, held, faults>>

-----------------------------------------------------------------------------
(* Control. *)

LaterOf(a, b) == IF a < b THEN b ELSE a
Running == pc \notin {"off", "ready", "spent", "refused"}

\* Before the canary is prepared a failure leaves nothing to close.
Unprepared == {"claimed", "authorize", "prepare"}

\* Where an exception takes the host: a failed start ends it, a failed late
\* recovery or claim leaves it as it was, a failed run is caught once.  The STOP
\* of a host that fails to start is left to the next boot: nothing reads the mode
\* between.
Rescue == IF context = "boot" THEN "off"
          ELSE IF context = "late" \/ pc = "claim" THEN "ready"
          ELSE IF context = "rescue" \/ pc \in Unprepared \cup {"caught"} THEN "spent"
          ELSE "caught"

\* Where a receipt takes it.
End == CASE context = "boot" -> "admit" [] context = "late" -> "ready" [] OTHER -> "spent"

At(p) == pc = p
Goto(p) == pc' = p /\ UNCHANGED faults
Fails == faults < MaxFaults /\ faults' = faults + 1 /\ pc' = Rescue

\* A durable operation took effect; it may fail afterwards all the same.
Then(p) == Goto(p) \/ Fails

\* The runtime lock is held: no operator command can commit.
Locked == pc \in {"consume", "send", "seal"}

-----------------------------------------------------------------------------
(* The runtime authority and the host process. *)

Transitions == {<<"STOPPED", "RESEARCH">>, <<"RESEARCH", "PROPOSE_ONLY">>,
                <<"PROPOSE_ONLY", "RESEARCH">>}

Init ==
  /\ runtime = [mode |-> "STOPPED", revision |-> 0, process |-> 0]
  /\ check = None /\ marker = FALSE /\ prepared = None /\ attempt = None
  /\ entry = None /\ capture = None /\ captured = None /\ result = None /\ receipt = None
  /\ requests = 0 /\ pc = "off" /\ context = "boot" /\ held = None /\ faults = 0

\* Mutant: the marker is checked before an earlier run is recovered.
Boot_MarkerFirst ==
  /\ At("off") /\ runtime.process < MaxBoots
  /\ runtime' = [mode |-> "STOPPED", revision |-> runtime.revision + 1,
                 process |-> runtime.process + 1]
  /\ context' = "boot" /\ held' = None
  /\ Goto("admit")
  /\ UNCHANGED <<check, marker, prepared, attempt, entry, capture, captured,
                 result, receipt, requests>>

\* A boot takes the runtime over and stops it, then looks for an earlier run.
Boot ==
  /\ At("off") /\ runtime.process < MaxBoots
  /\ runtime' = [mode |-> "STOPPED", revision |-> runtime.revision + 1,
                 process |-> runtime.process + 1]
  /\ context' = "boot" /\ held' = None
  /\ Goto(IF prepared = None THEN "admit" ELSE "storage")
  /\ UNCHANGED <<check, marker, prepared, attempt, entry, capture, captured,
                 result, receipt, requests>>

Operate(to) ==
  /\ ~At("off") /\ ~Locked /\ runtime.revision < MaxRevision
  /\ to = "STOPPED" \/ <<runtime.mode, to>> \in Transitions
  /\ runtime' = [runtime EXCEPT !.mode = to, !.revision = @ + 1]
  /\ UNCHANGED <<check, marker, prepared, attempt, entry, capture, captured,
                 result, receipt, requests, pc, context, held, faults>>

\* The operator closes a host: STOP before the operator server is closed, and
\* once more before the runtime is.
CloseFrom(p) ==
  /\ At(p) /\ runtime.process < MaxBoots
  /\ runtime' = [runtime EXCEPT !.mode = "STOPPED", !.revision = @ + 2]
  /\ Goto("off")
  /\ UNCHANGED <<check, marker, prepared, attempt, entry, capture, captured,
                 result, receipt, requests, context, held>>

\* One whose run is over.
Close == CloseFrom("spent")

Crash ==
  /\ ~At("off") /\ ~At("refused") /\ faults < MaxFaults
  /\ pc' = "off" /\ faults' = faults + 1
  /\ UNCHANGED <<durable, requests, context, held>>

\* An operation that fails without effect.
Fault ==
  /\ Running
  /\ Fails
  /\ UNCHANGED <<durable, requests, context, held>>

\* The Keychain gives no storage secrets at startup: the recovery is put off.
PutOff ==
  /\ At("storage") /\ context = "boot" /\ faults < MaxFaults
  /\ pc' = "admit" /\ faults' = faults + 1
  /\ UNCHANGED <<durable, requests, context, held>>

\* The end of initialize; the marker's status may be unknown.
Admit ==
  /\ At("admit")
  /\ \E status \in {"unknown", IF marker THEN "present" ELSE "missing"} :
       Goto(IF \/ receipt = None /\ status = "present"
               \/ receipt # None /\ status # "present" THEN "off" ELSE "ready")
  /\ UNCHANGED <<durable, requests, context, held>>

\* What readXReadCanaryProjection shows of a host without an active run.
Status == IF receipt # None
          THEN IF receipt.outcome \in {"accepted", "empty"} THEN "completed" ELSE "failed"
          ELSE IF prepared # None THEN "interrupted" ELSE "ready"

\* A status poll or an execution finds the interrupted run that startup put off.
RecoverLate ==
  /\ At("ready") /\ Status = "interrupted"
  /\ context' = "late"
  /\ Goto("storage")
  /\ UNCHANGED <<durable, requests, held>>

-----------------------------------------------------------------------------
(* The live run, up to the network. *)

\* executeReadCanary; held is the revision the operator acknowledged.
Execute ==
  /\ At("ready") /\ Status = "ready"
  /\ runtime.mode = "RESEARCH"
  /\ held' = [revision |-> runtime.revision]
  /\ context' = "live"
  /\ Goto("claim")
  /\ UNCHANGED <<durable, requests>>

Unchanged(r) == runtime.mode = "RESEARCH" /\ runtime.revision = r

Claim ==
  /\ At("claim")
  /\ IF Unchanged(held.revision) /\ ~marker
     THEN marker' = TRUE /\ Then("claimed")
     ELSE Goto("ready") /\ UNCHANGED marker
  /\ UNCHANGED <<runtime, check, prepared, attempt, entry, capture, captured,
                 result, receipt, requests, context, held>>

\* The same question again, after the marker is burnt; the storage recovery
\* that follows finds no capture of an earlier run.
Recheck ==
  /\ At("claimed")
  /\ Goto(IF Unchanged(held.revision) THEN "authorize" ELSE "spent")
  /\ UNCHANGED <<durable, requests, context, held>>

Ticket(t) == [revision |-> runtime.revision, process |-> runtime.process,
              at |-> t, expiresAt |-> t + TTL]

Authorize(t) ==
  /\ At("authorize")
  /\ IF runtime.mode # "STOPPED" /\ runtime.revision = held.revision
     THEN held' = Ticket(t) /\ Goto("prepare")
     ELSE Goto("spent") /\ UNCHANGED held
  /\ UNCHANGED <<durable, requests, context>>

Prepare ==
  /\ At("prepare") /\ prepared = None
  /\ prepared' = held
  /\ Then("reserve")
  /\ UNCHANGED <<runtime, check, marker, attempt, entry, capture, captured,
                 result, receipt, requests, context, held>>

\* createBudget, reserveAttempt, and the permit, good from t.
Reserve(t) ==
  /\ At("reserve")
  /\ attempt' = [state |-> "reserved", dispatchedAt |-> None, closedAt |-> None,
                 outcome |-> None]
  /\ held' = [issuedAt |-> t]
  /\ IF prepared.at <= t /\ t < prepared.expiresAt THEN Then("begin") ELSE Goto("caught")
  /\ UNCHANGED <<runtime, check, marker, prepared, entry, capture, captured,
                 result, receipt, requests, context>>

\* The ingestion binds the registry attempt before egress.
Begin(t) ==
  /\ At("begin")
  /\ IF attempt.state = "reserved" /\ t < prepared.expiresAt
     THEN /\ entry' = [state |-> "pending", begunAt |-> t, committedAt |-> None,
                       removedAt |-> None, reason |-> None]
          /\ Then("dispatch")
     ELSE Goto("caught") /\ UNCHANGED entry
  /\ UNCHANGED <<runtime, check, marker, prepared, attempt, capture, captured,
                 result, receipt, requests, context, held>>

\* What the standing runtime state says to the prepared authorization.
Standing ==
  /\ runtime.process = prepared.process /\ runtime.revision = prepared.revision
  /\ runtime.mode # "STOPPED"

CheckOf(decision, t) ==
  [decision |-> decision, at |-> LaterOf(t, prepared.at),
   revision |-> runtime.revision, process |-> runtime.process]

\* consumeAndDispatch decides under the runtime lock.  A denial is durable at
\* once; an allowed check only with the commit that follows the dispatch.
Dispatch(t) ==
  /\ At("dispatch")
  /\ IF Standing /\ t < prepared.expiresAt
     THEN /\ held' = [issuedAt |-> held.issuedAt, check |-> CheckOf("allowed", t)]
          /\ Goto("consume") /\ UNCHANGED check
     ELSE check' = CheckOf("denied", t) /\ Then("caught") /\ UNCHANGED held
  /\ UNCHANGED <<runtime, marker, prepared, attempt, entry, capture, captured,
                 result, receipt, requests, context>>

\* The network attempt is consumed, in its own store, inside that lock.
Consume(t) ==
  /\ At("consume")
  /\ IF t < prepared.expiresAt
     THEN /\ attempt' = [attempt EXCEPT !.state = "dispatched",
                                        !.dispatchedAt = LaterOf(t, held.issuedAt)]
          /\ Then("send")
     ELSE Goto("caught") /\ UNCHANGED attempt
  /\ UNCHANGED <<runtime, check, marker, prepared, entry, capture, captured,
                 result, receipt, requests, context, held>>

\* The transport is invoked, or the run was aborted just before.
Send ==
  /\ At("send")
  /\ requests' \in {requests, requests + 1}
  /\ Goto("seal")
  /\ UNCHANGED <<durable, context, held>>

\* The runtime transaction commits.  When it fails, with or without effect
\* (Fault), the response is drained and the run fails.
Seal ==
  /\ At("seal")
  /\ check' = held.check
  /\ Then("receive")
  /\ UNCHANGED <<runtime, marker, prepared, attempt, entry, capture, captured,
                 result, receipt, requests, context, held>>

-----------------------------------------------------------------------------
(* The response. *)

InCaptureWindow(t) ==
  /\ entry.begunAt <= attempt.dispatchedAt /\ attempt.dispatchedAt <= t
  /\ t <= prepared.expiresAt

\* A response with content k, acquired at t, or none that is acceptable.
Receive(k, t) ==
  /\ At("receive")
  /\ \/ /\ requests > 0 /\ InCaptureWindow(t)
        /\ held' = [content |-> k, acquiredAt |-> t]
        /\ Goto("capture")
     \/ Goto("caught") /\ UNCHANGED held
  /\ UNCHANGED <<durable, requests, context>>

\* vault.capture.
Capture ==
  /\ At("capture")
  /\ capture' = [state |-> "live", content |-> held.content,
                 acquiredAt |-> held.acquiredAt, deletedAt |-> None]
  /\ Then("commit")
  /\ UNCHANGED <<runtime, check, marker, prepared, attempt, entry, captured,
                 result, receipt, requests, context, held>>

\* commitCapture: done; failed and known to have failed; or failed with the
\* registry unreadable, when the capture is kept.
Commit(t) ==
  LET inWindow == capture.acquiredAt <= t /\ t <= prepared.expiresAt
      done == [entry EXCEPT !.state = "committed", !.committedAt = t]
  IN
  /\ At("commit")
  /\ \/ inWindow /\ entry' = done /\ Goto("project")
     \/ Goto("shred") /\ UNCHANGED entry
     \/ inWindow /\ entry' \in {entry, done} /\ Fails
  /\ UNCHANGED <<runtime, check, marker, prepared, attempt, capture, captured,
                 result, receipt, requests, context, held>>

\* deleteUncommittedCapture; the failure that led here is rethrown.
Shred ==
  /\ At("shred")
  /\ capture' = [capture EXCEPT !.state = "deleted", !.deletedAt = capture.acquiredAt]
  /\ Then("caught")
  /\ UNCHANGED <<runtime, check, marker, prepared, attempt, entry, captured,
                 result, receipt, requests, context, held>>

Projection ==
  [at |-> capture.acquiredAt,
   status |-> IF capture.content = "malformed" THEN "rejected" ELSE "accepted",
   empty |-> capture.content # "posts"]

Project ==
  /\ At("project")
  /\ captured' = Projection
  /\ Then("complete")
  /\ UNCHANGED <<runtime, check, marker, prepared, attempt, entry, capture,
                 result, receipt, requests, context, held>>

Candidate(denied, t) ==
  [outcome |-> IF denied \/ captured.status = "rejected" THEN "rejected"
               ELSE IF captured.empty THEN "empty" ELSE "accepted",
   denied |-> denied, acquiredAt |-> captured.at,
   completedAt |-> LaterOf(t, LaterOf(captured.at, entry.committedAt))]

\* What resultCandidate requires of the stores.
CandidateReady ==
  /\ entry.state = "committed"
  /\ check # None /\ check.decision = "allowed"

\* Mutant: the durable check alone lets the live result through.
Complete_Unguarded(t) ==
  /\ At("complete")
  /\ result' = Candidate(FALSE, t) /\ Then("close")
  /\ UNCHANGED <<runtime, check, marker, prepared, attempt, entry, capture,
                 captured, receipt, requests, context, held>>

\* persistLiveResult: the result is appended under the runtime lock, while the
\* authorization still stands; otherwise it is a denial.
Complete(t) ==
  /\ At("complete")
  /\ IF CandidateReady
     THEN IF Standing
          THEN result' = Candidate(FALSE, t) /\ Then("close")
          ELSE Goto("deny") /\ UNCHANGED result
     ELSE Goto("refused") /\ UNCHANGED result
  /\ UNCHANGED <<runtime, check, marker, prepared, attempt, entry, capture,
                 captured, receipt, requests, context, held>>

\* persistRecoveryResult.
Deny(t) ==
  /\ At("deny")
  /\ IF CandidateReady
     THEN result' = Candidate(TRUE, t) /\ Then("close")
     ELSE Goto("refused") /\ UNCHANGED result
  /\ UNCHANGED <<runtime, check, marker, prepared, attempt, entry, capture,
                 captured, receipt, requests, context, held>>

-----------------------------------------------------------------------------
(* The evidence a recovery asks for before it believes an earlier process. *)

RuntimeEvidence ==
  /\ check # None /\ check.decision = "allowed"
  /\ check.revision = prepared.revision /\ check.process = prepared.process
  /\ prepared.at <= check.at

CaptureEvidence ==
  /\ captured # None /\ captured.at = result.acquiredAt
  /\ ~result.denied =>
       /\ captured.status = (IF result.outcome = "rejected" THEN "rejected" ELSE "accepted")
       /\ captured.status = "accepted" => captured.empty = (result.outcome = "empty")
  /\ entry # None
  /\ \/ entry.state = "committed" /\ entry.committedAt <= result.completedAt
     \/ entry.state = "removed" /\ entry.reason = "deleted" /\ result.completedAt <= entry.removedAt

ResultBinds == attempt # None /\ RuntimeEvidence /\ CaptureEvidence

AttemptOutcome == CASE result.outcome = "accepted" -> "succeeded"
                    [] result.outcome = "empty" -> "empty"
                    [] OTHER -> "failed"

\* closeAttemptForResult accepts the attempt as it finds it.
Closable ==
  /\ attempt.dispatchedAt # None /\ attempt.dispatchedAt <= result.acquiredAt
  /\ attempt.state = "closed" => /\ attempt.closedAt = result.completedAt
                                 /\ attempt.outcome = AttemptOutcome

Closed(t, outcome) ==
  [attempt EXCEPT !.state = "closed", !.closedAt = t, !.outcome = outcome]

FailureReceiptBinds ==
  /\ prepared.at <= receipt.completedAt
  /\ receipt.runtime => RuntimeEvidence
  /\ attempt # None => /\ attempt.state = "closed"
                       /\ attempt.closedAt = receipt.completedAt
                       /\ attempt.outcome \in {"aborted", "failed"}
  /\ entry # None => entry.state = "removed"

-----------------------------------------------------------------------------
(* finalizeResult: close the attempt, destroy the capture, append the receipt. *)

CloseAttempt ==
  /\ At("close")
  /\ IF ResultBinds /\ Closable
     THEN attempt' = Closed(result.completedAt, AttemptOutcome) /\ Then("destroy")
     ELSE Goto("refused") /\ UNCHANGED attempt
  /\ UNCHANGED <<runtime, check, marker, prepared, entry, capture, captured,
                 result, receipt, requests, context, held>>

\* vault.delete as of the completion; a capture deleted before keeps its date.
Destroy ==
  /\ At("destroy")
  /\ IF entry.state = "removed"
     THEN Goto("receipt") /\ UNCHANGED capture
     ELSE /\ capture' = IF capture.state = "deleted" THEN capture
                        ELSE [capture EXCEPT !.state = "deleted",
                                             !.deletedAt = result.completedAt]
          /\ Then("record")
  /\ UNCHANGED <<runtime, check, marker, prepared, attempt, entry, captured,
                 result, receipt, requests, context, held>>

Deletion == [entry EXCEPT !.state = "removed", !.removedAt = capture.deletedAt,
                          !.reason = "deleted"]

\* recordVerifiedDeletion.
RecordDeletion ==
  /\ At("record")
  /\ IF entry.committedAt <= capture.deletedAt
     THEN entry' = Deletion /\ Then("receipt")
     ELSE Goto("refused") /\ UNCHANGED entry
  /\ UNCHANGED <<runtime, check, marker, prepared, attempt, capture, captured,
                 result, receipt, requests, context, held>>

ResultReceipt ==
  [outcome |-> result.outcome, completedAt |-> result.completedAt,
   runtime |-> TRUE, capture |-> TRUE]

AppendReceipt ==
  /\ At("receipt")
  /\ IF ResultBinds /\ receipt \in {None, ResultReceipt}
     THEN receipt' = ResultReceipt /\ Then(End)
     ELSE Goto("refused") /\ UNCHANGED receipt
  /\ UNCHANGED <<runtime, check, marker, prepared, attempt, entry, capture,
                 captured, result, requests, context, held>>

-----------------------------------------------------------------------------
(* terminalizeFailure: close the attempt, drop a pending capture, append. *)

\* runtimeReceipt: whether there is an allowed check to show.
RuntimeChecked == check # None /\ check.decision = "allowed"

CloseFailed ==
  /\ At("abort")
  /\ attempt' = IF attempt = None \/ attempt.state = "closed" THEN attempt
                ELSE IF attempt.state = "reserved" THEN Closed(prepared.at, "aborted")
                ELSE Closed(attempt.dispatchedAt, "failed")
  /\ Then("remove")
  /\ UNCHANGED <<runtime, check, marker, prepared, entry, capture, captured,
                 result, receipt, requests, context, held>>

FailedAt == IF attempt = None THEN prepared.at ELSE attempt.closedAt

RemovePending ==
  /\ At("remove")
  /\ entry' = IF entry # None /\ entry.state = "pending"
              THEN [entry EXCEPT !.state = "removed", !.reason = "pending",
                                 !.removedAt = LaterOf(FailedAt, entry.begunAt)]
              ELSE entry
  /\ Then("fail")
  /\ UNCHANGED <<runtime, check, marker, prepared, attempt, capture, captured,
                 result, receipt, requests, context, held>>

AppendFailure ==
  /\ At("fail")
  /\ receipt' = [outcome |-> "failed", completedAt |-> FailedAt,
                 runtime |-> RuntimeChecked, capture |-> FALSE]
  /\ Then(End)
  /\ UNCHANGED <<runtime, check, marker, prepared, attempt, entry, capture,
                 captured, result, requests, context, held>>

-----------------------------------------------------------------------------
(* Recovery. *)

\* The catch clause of the run: a durable capture is finished, anything else
\* fails.
Caught ==
  /\ At("caught")
  /\ context' = "rescue"
  /\ Goto(IF result # None \/ (entry # None /\ entry.state = "committed")
          THEN "recover" ELSE "abort")
  /\ UNCHANGED <<durable, requests, held>>

\* recoverCaptureStorage, one store at a time, all as of one clock reading;
\* a reading older than what it removes is refused.
RemoveInterrupted(here, next, t) ==
  /\ At(here)
  /\ held' = [recoveredAt |-> t]
  /\ IF entry # None /\ entry.state = "pending"
     THEN IF entry.begunAt <= t
          THEN /\ entry' = [entry EXCEPT !.state = "removed", !.removedAt = t,
                                         !.reason = "pending"]
               /\ Then(next)
          ELSE pc' = Rescue /\ UNCHANGED <<faults, entry>>
     ELSE Goto(next) /\ UNCHANGED entry
  /\ UNCHANGED <<runtime, check, marker, prepared, attempt, capture, captured,
                 result, receipt, requests, context>>

RepairDeletion(here, next) ==
  /\ At(here)
  /\ IF entry # None /\ entry.state = "committed" /\ capture.state = "deleted"
     THEN IF entry.committedAt <= capture.deletedAt
          THEN entry' = Deletion /\ Then(next)
          ELSE Goto("refused") /\ UNCHANGED entry
     ELSE Goto(next) /\ UNCHANGED entry
  /\ UNCHANGED <<runtime, check, marker, prepared, attempt, capture, captured,
                 result, receipt, requests, context, held>>

ReconcileOrphan(here, next) ==
  /\ At(here)
  /\ IF capture # None /\ capture.state = "live" /\ (entry = None \/ entry.state # "committed")
     THEN IF capture.acquiredAt <= held.recoveredAt
          THEN /\ capture' = [capture EXCEPT !.state = "deleted", !.deletedAt = held.recoveredAt]
               /\ Then(next)
          ELSE pc' = Rescue /\ UNCHANGED <<faults, capture>>
     ELSE Goto(next) /\ UNCHANGED capture
  /\ UNCHANGED <<runtime, check, marker, prepared, attempt, entry, captured,
                 result, receipt, requests, context, held>>

\* At startup, before the run itself is recovered.
StoragePending(t) == RemoveInterrupted("storage", "repair", t)
StorageRepair == RepairDeletion("repair", "reconcile")
StorageReconcile == ReconcileOrphan("reconcile", "recover")

\* recoverPreparedCanary.
Recover ==
  /\ At("recover")
  /\ Goto(IF receipt # None
          THEN IF receipt.capture THEN (IF result = None THEN "refused" ELSE "close")
               ELSE IF result = None /\ FailureReceiptBinds THEN End ELSE "refused"
          ELSE IF result # None THEN "close"
          ELSE IF entry # None /\ entry.state = "committed" THEN "resume"
          ELSE "abort")
  /\ UNCHANGED <<durable, requests, context, held>>

\* resumeCommittedAttempt: the capture must still be there and agree with the
\* event, or with the ledger when the event has to be projected again.
Resume ==
  /\ At("resume")
  /\ IF /\ attempt # None /\ attempt.dispatchedAt # None
        /\ capture # None /\ capture.state = "live"
        /\ attempt.dispatchedAt <= capture.acquiredAt
        /\ captured \in {None, Projection}
     THEN captured' = Projection /\ Then("deny")
     ELSE Goto("refused") /\ UNCHANGED captured
  /\ UNCHANGED <<runtime, check, marker, prepared, attempt, entry, capture,
                 result, receipt, requests, context, held>>

-----------------------------------------------------------------------------
(* Specification. *)

Timed(t) == \/ Authorize(t) \/ Reserve(t) \/ Begin(t) \/ Dispatch(t) \/ Consume(t)
            \/ Commit(t) \/ Complete(t) \/ Deny(t) \/ StoragePending(t)
            \/ \E k \in Contents : Receive(k, t)

Live == \/ Admit \/ Claim \/ Recheck \/ Prepare \/ Send \/ Seal \/ Capture \/ Shred \/ Project

Finish == \/ CloseAttempt \/ Destroy \/ RecordDeletion \/ AppendReceipt
          \/ CloseFailed \/ RemovePending \/ AppendFailure

Recovery == Caught \/ StorageRepair \/ StorageReconcile \/ Recover \/ Resume

Step == Live \/ Finish \/ Recovery \/ \E t \in Times : Timed(t)
HostNext == Boot \/ Step \/ RecoverLate \/ Execute \/ Close \/ Crash \/ Fault \/ PutOff
OperatorNext == \E to \in {"STOPPED", "RESEARCH", "PROPOSE_ONLY"} : Operate(to)

Next == HostNext \/ OperatorNext

Spec == Init /\ [][Next]_vars

\* The host's code runs to its next wait; a host that is down is started again,
\* one whose run is over is restarted, and the status of one that is up is
\* polled.
FairSpec == /\ Spec
            /\ WF_vars(Step) /\ WF_vars(Boot) /\ WF_vars(Close) /\ WF_vars(RecoverLate)

-----------------------------------------------------------------------------
(* Invariants. *)

Maybe(S) == S \cup {None}
Timestamps == Maybe(Times)
Until == 0..(MaxTime + TTL)

Checks == [decision : {"allowed", "denied"}, at : Until, revision : Nat, process : Nat]
Tickets == [revision : Nat, process : Nat, at : Times, expiresAt : Until]
Attempts == [state : {"reserved", "dispatched", "closed"}, dispatchedAt : Timestamps,
             closedAt : Timestamps, outcome : Maybe({"succeeded", "empty", "failed", "aborted"})]
Entries == [state : {"pending", "committed", "removed"}, begunAt : Times,
            committedAt : Timestamps, removedAt : Timestamps, reason : Maybe({"pending", "deleted"})]
Captures == [state : {"live", "deleted"}, content : Contents, acquiredAt : Times,
             deletedAt : Timestamps]
Projections == [at : Times, status : {"accepted", "rejected"}, empty : BOOLEAN]
Results == [outcome : {"accepted", "empty", "rejected"}, denied : BOOLEAN,
            acquiredAt : Times, completedAt : Times]
Receipts == [outcome : {"accepted", "empty", "rejected", "failed"}, completedAt : Times,
             runtime : BOOLEAN, capture : BOOLEAN]

\* No record, date or outcome is None.
ASSUME NoneAssumption ==
  /\ None \notin Nat
  /\ None \notin {"succeeded", "empty", "failed", "aborted", "pending", "deleted"}
  /\ None \notin Checks \cup Tickets \cup Attempts \cup Entries
  /\ None \notin Captures \cup Projections \cup Results \cup Receipts

\* Shapes of the durable records, with the dates each state of a record must
\* have: a closed attempt, a removed entry and a deleted capture are dated.
TypeOK ==
  /\ runtime \in [mode : {"STOPPED", "RESEARCH", "PROPOSE_ONLY"}, revision : Nat,
                  process : 0..MaxBoots]
  /\ check \in Maybe(Checks) /\ marker \in BOOLEAN /\ prepared \in Maybe(Tickets)
  /\ attempt \in Maybe(Attempts) /\ entry \in Maybe(Entries)
  /\ capture \in Maybe(Captures) /\ captured \in Maybe(Projections)
  /\ result \in Maybe(Results) /\ receipt \in Maybe(Receipts)
  /\ requests \in Nat /\ faults \in 0..MaxFaults
  /\ context \in {"boot", "late", "live", "rescue"}
  /\ attempt # None => (attempt.state = "closed") = (attempt.closedAt # None)
  /\ entry # None => (entry.state = "removed") = (entry.removedAt # None)
  /\ capture # None => (capture.state = "deleted") = (capture.deletedAt # None)

\* The provider is asked at most once, over all processes, crashes and
\* failures, and only for an attempt the operations ledger already holds as
\* dispatched under a claimed and prepared run; such an attempt is never
\* written off as aborted.
OneAccountedRequest ==
  /\ requests <= 1
  /\ requests = 1 => /\ marker /\ prepared # None
                     /\ attempt # None /\ attempt.dispatchedAt # None
                     /\ attempt.outcome # "aborted"

\* What a receipt says is so: the attempt is closed with its outcome and its
\* date; a captured outcome repeats the result, whose capture and registry
\* key are destroyed; a failure has no result and never committed a capture.
ReceiptTellsTheTruth ==
  receipt # None =>
    /\ attempt # None => attempt.state = "closed" /\ attempt.closedAt = receipt.completedAt
    /\ entry # None => entry.state = "removed"
    /\ IF receipt.capture
       THEN /\ result # None /\ attempt # None
            /\ receipt.outcome = result.outcome /\ attempt.outcome = AttemptOutcome
            /\ entry # None /\ entry.reason = "deleted" /\ capture.state = "deleted"
       ELSE /\ result = None /\ receipt.outcome = "failed"
            /\ attempt # None => attempt.outcome \in {"aborted", "failed"}
            /\ entry # None => entry.reason = "pending"

\* No process refuses what an earlier one, or an earlier step, left behind:
\* whatever the crashes and the clock, the evidence the recovery asserts is
\* there, well formed and agrees, so no run is stuck for ever without a receipt.
EvidenceIsAccepted == TypeOK /\ pc # "refused"

-----------------------------------------------------------------------------
(* Properties of steps, and liveness. *)

\* Completion or STOP: a result that is not a denial is appended only while
\* the authorization that was checked before the dispatch still stands, with
\* no mode change, STOP or new process since; and it is the only result.
ResultsUnderAuthority ==
  [][/\ result # None => result' = result
     /\ result = None /\ result' # None /\ ~result'.denied =>
          /\ check.decision = "allowed"
          /\ runtime.mode # "STOPPED"
          /\ runtime.revision = check.revision /\ runtime.process = check.process]_vars

\* A prepared run gets its receipt, when the failures stop: by itself, or in
\* a later process.
GetsReceipt == prepared # None ~> receipt # None

=============================================================================
