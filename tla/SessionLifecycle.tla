-------------------------- MODULE SessionLifecycle --------------------------
(***************************************************************************)
(* The supervised session of packages/session-lifecycle: a record that     *)
(* moves from planned to accepted, or to invalid from anywhere, and an     *)
(* audit of every move.                                                    *)
(*                                                                         *)
(* A call is one BEGIN IMMEDIATE transaction that verifies the database    *)
(* before and after and checks the record it is about to write, so one     *)
(* action.  Neither check is a guard here: that they never refuse what an  *)
(* admissible call wrote is the invariant LifecycleIntegrity.  A fact that *)
(* comes too late or fails does not refuse the call, it ends the session.  *)
(*                                                                         *)
(* Times are the callers'.  Evidence is what the checks make of it.  Only  *)
(* one coordinator may have the file open; the process may die at any      *)
(* time, and the next open ends the session it left behind.  The caller    *)
(* keeps an authenticated head of the audit; the file may be replaced by   *)
(* an earlier copy of itself while it is closed.                           *)
(***************************************************************************)
EXTENDS Naturals, Sequences, SequencesExt, FiniteSets

CONSTANTS
  Sessions,
  Minute45, Minute90,  \* when supervision must be acknowledged
  Grace,               \* and how late it may be
  MaxSupervised,       \* the longest supervised run
  MaxReconciliation,   \* the longest wait for the costs
  DayLength,
  MaxSessions,         \* rows the database may hold
  LocalReasons,        \* what may be wrong with local evidence
  MaxTime,             \* bound: timestamps
  HeadsAt, CopiesAt,   \* bounds: lengths of the audit at which the caller
                       \* retains its head, the file is copied
  None

Times == 0..MaxTime
MaxAudit == 10 * MaxSessions

ASSUME LifecycleAssumption ==
  /\ {Minute45, Minute90, Grace, MaxSupervised, MaxReconciliation, MaxSessions, MaxTime} \subseteq Nat
  /\ DayLength \in Nat \ {0}
  /\ Minute45 <= Minute90
  /\ HeadsAt \subseteq Nat /\ CopiesAt \subseteq Nat
  /\ "pass" \notin LocalReasons

States == {"planned", "preflighted", "running", "stopping", "locally_verified",
           "externally_verified", "cost_pending", "accepted", "invalid"}
Terminal == {"accepted", "invalid"}
Actions == {"plan", "preflight", "start", "ack-minute-45", "ack-minute-90", "stop",
            "local-verification", "external-verification", "cost-reconciliation",
            "accept", "invalidate", "crash-recovery"}
Reasons == LocalReasons \cup
  {"supervision-expired", "preflight-failed", "bound-violation",
   "missed-supervision-acknowledgement", "external-verification-failed",
   "cost-reconciliation-late", "cost-over-reservation", "cost-reconciliation-failed",
   "qualification-date-conflict", "operator-abort", "crash-recovery"}

\* Evidence, by the verdict of the check that reads it.
PreflightEvidence == {"pass", "fail"}
LocalEvidence == LocalReasons \cup {"pass"}
ExternalEvidence == {"pass", "fail"}
CostEvidence == {"pass", "over", "open"}

At == Nat \cup {None}
SessionRecord ==
  [state : States, eligible : BOOLEAN, date : Nat, plannedAt : Nat, supervisedUntil : Nat,
   updatedAt : Nat, observedAt : At, preflightedAt : At, preflight : PreflightEvidence \cup {None},
   startedAt : At, minute45 : At, minute90 : At, stoppedAt : At,
   locallyVerifiedAt : At, local : LocalEvidence \cup {None},
   externallyVerifiedAt : At, external : ExternalEvidence \cup {None},
   costReconciledAt : At, cost : CostEvidence \cup {None},
   acceptedAt : At, invalidatedAt : At, reason : Reasons \cup {None}]
AuditRow == [action : Actions, session : Sessions, from : States \cup {None}, to : States,
             at : Nat, inputAt : Nat, record : SessionRecord]

ASSUME NoneAssumption ==
  /\ None \notin Nat /\ None \notin States /\ None \notin Reasons /\ None \notin Sessions
  /\ None \notin PreflightEvidence \cup LocalEvidence \cup ExternalEvidence \cup CostEvidence
  /\ None \notin SessionRecord

VARIABLES
  sessions,  \* the record of each session, or None
  audit,     \* the audit chain
  open,      \* a coordinator has the file open
  pin,       \* the audit prefix whose head the caller retains, or None
  copy       \* an earlier copy of the file, or None

vars == <<sessions, audit, open, pin, copy>>

Planned == {s \in Sessions : sessions[s] # None}
Active == {s \in Planned : sessions[s].state \notin Terminal}
DateAt(t) == t \div DayLength

\* Time is monotonic over all sessions.
NotBackward(t) == audit # <<>> => t >= audit[Len(audit)].at

-----------------------------------------------------------------------------
(* The one way a record is written. *)

AuditEntry(s, action, from, t, record) ==
  [action |-> action, session |-> s, from |-> from, to |-> record.state,
   at |-> record.updatedAt, inputAt |-> t, record |-> record]

\* Each action is taken once per session: a repetition returns the record of
\* the first call when its input is the same, and is refused otherwise.
Fresh(s, action) ==
  \A i \in 1..Len(audit) : ~(audit[i].session = s /\ audit[i].action = action)

Room(n) == Len(audit) + n <= MaxAudit

Mutate(s, action, t, expected, record) ==
  /\ open
  /\ Fresh(s, action)
  /\ NotBackward(t)
  /\ s \in Planned /\ sessions[s].state \in expected
  /\ t >= sessions[s].updatedAt
  /\ Room(1)
  /\ sessions' = [sessions EXCEPT ![s] = record]
  /\ audit' = Append(audit, AuditEntry(s, action, sessions[s].state, t, record))
  /\ UNCHANGED <<open, pin, copy>>

InvalidRecord(record, t, why) ==
  [record EXCEPT !.state = "invalid", !.eligible = FALSE, !.acceptedAt = None,
                 !.invalidatedAt = t, !.reason = why, !.updatedAt = t]

NewRecord(t, until) ==
  [state |-> "planned", eligible |-> FALSE, date |-> DateAt(t), plannedAt |-> t,
   supervisedUntil |-> until, updatedAt |-> t, observedAt |-> None, preflightedAt |-> None,
   preflight |-> None, startedAt |-> None, minute45 |-> None, minute90 |-> None,
   stoppedAt |-> None, locallyVerifiedAt |-> None, local |-> None,
   externallyVerifiedAt |-> None, external |-> None, costReconciledAt |-> None,
   cost |-> None, acceptedAt |-> None, invalidatedAt |-> None, reason |-> None]

-----------------------------------------------------------------------------
(* The operations. *)

OneAtATime == Active = {}

PlanSession(s, t, until) ==
  /\ open
  /\ until >= t
  /\ Fresh(s, "plan") /\ NotBackward(t)
  /\ sessions[s] = None
  /\ OneAtATime
  /\ Cardinality(Planned) < MaxSessions /\ Room(1)
  /\ sessions' = [sessions EXCEPT ![s] = NewRecord(t, until)]
  /\ audit' = Append(audit, AuditEntry(s, "plan", None, t, NewRecord(t, until)))
  /\ UNCHANGED <<open, pin, copy>>

RecordPreflight(s, t, observed, evidence) ==
  LET r == sessions[s]
      candidate == [r EXCEPT !.preflight = evidence, !.observedAt = observed,
                             !.preflightedAt = t, !.updatedAt = t]
  IN
  /\ s \in Planned /\ observed >= r.plannedAt /\ observed <= t
  /\ Mutate(s, "preflight", t, {"planned"},
       IF t > r.supervisedUntil THEN InvalidRecord(candidate, t, "supervision-expired")
       ELSE IF evidence = "fail" THEN InvalidRecord(candidate, t, "preflight-failed")
       ELSE [candidate EXCEPT !.state = "preflighted"])

StartFault(r, t) ==
  IF DateAt(t) # r.date THEN "bound-violation"
  ELSE IF t > r.supervisedUntil \/ r.supervisedUntil - t > MaxSupervised
  THEN "supervision-expired" ELSE None

StartSession(s, t) ==
  LET r == sessions[s]
      candidate == [r EXCEPT !.eligible = TRUE, !.startedAt = t, !.updatedAt = t]
  IN
  /\ s \in Planned
  /\ Mutate(s, "start", t, {"preflighted"},
       IF StartFault(r, t) # None THEN InvalidRecord(candidate, t, StartFault(r, t))
       ELSE [candidate EXCEPT !.state = "running"])

\* Too early is refused, too late ends the session.
AcknowledgementLate(r, t, offset) ==
  t - r.startedAt > offset + Grace \/ t > r.supervisedUntil

RecordMinute45(s, t) ==
  LET r == sessions[s]
      candidate == [r EXCEPT !.minute45 = t, !.updatedAt = t]
  IN
  /\ s \in Planned /\ r.state = "running" /\ t >= r.startedAt + Minute45
  /\ Mutate(s, "ack-minute-45", t, {"running"},
       IF AcknowledgementLate(r, t, Minute45)
       THEN InvalidRecord(candidate, t, "missed-supervision-acknowledgement") ELSE candidate)

RecordMinute90(s, t) ==
  LET r == sessions[s]
      candidate == [r EXCEPT !.minute90 = t, !.updatedAt = t]
  IN
  /\ s \in Planned /\ r.state = "running" /\ t >= r.startedAt + Minute90
  /\ r.minute45 # None /\ t >= r.minute45
  /\ Mutate(s, "ack-minute-90", t, {"running"},
       IF AcknowledgementLate(r, t, Minute90)
       THEN InvalidRecord(candidate, t, "missed-supervision-acknowledgement") ELSE candidate)

\* Mutant: a stop after an unacknowledged run is an ordinary stop.
StopFault_Unacknowledged(r, t) ==
  IF t > r.supervisedUntil \/ t - r.startedAt > MaxSupervised THEN "bound-violation" ELSE None

StopFault(r, t) ==
  IF t > r.supervisedUntil \/ t - r.startedAt > MaxSupervised THEN "bound-violation"
  ELSE IF r.minute45 = None \/ r.minute90 = None THEN "missed-supervision-acknowledgement"
  ELSE None

StopSession(s, t) ==
  LET r == sessions[s]
      candidate == [r EXCEPT !.eligible = FALSE, !.stoppedAt = t, !.updatedAt = t]
  IN
  /\ s \in Planned /\ r.state = "running"
  /\ Mutate(s, "stop", t, {"running"},
       IF StopFault(r, t) # None THEN InvalidRecord(candidate, t, StopFault(r, t))
       ELSE [candidate EXCEPT !.state = "stopping"])

RecordLocalVerification(s, t, evidence) ==
  LET candidate == [sessions[s] EXCEPT !.local = evidence, !.locallyVerifiedAt = t,
                                       !.updatedAt = t] IN
  /\ s \in Planned
  /\ Mutate(s, "local-verification", t, {"stopping"},
       IF evidence # "pass" THEN InvalidRecord(candidate, t, evidence)
       ELSE [candidate EXCEPT !.state = "locally_verified"])

RecordExternalVerification(s, t, evidence) ==
  LET candidate == [sessions[s] EXCEPT !.external = evidence, !.externallyVerifiedAt = t,
                                       !.updatedAt = t] IN
  /\ s \in Planned
  /\ Mutate(s, "external-verification", t, {"locally_verified"},
       IF evidence # "pass" THEN InvalidRecord(candidate, t, "external-verification-failed")
       ELSE [candidate EXCEPT !.state = "externally_verified"])

CostFault(r, t, evidence) ==
  IF t - r.stoppedAt > MaxReconciliation THEN "cost-reconciliation-late"
  ELSE CASE evidence = "over" -> "cost-over-reservation"
         [] evidence = "open" -> "cost-reconciliation-failed"
         [] OTHER -> None

RecordCostReconciliation(s, t, evidence) ==
  LET r == sessions[s]
      candidate == [r EXCEPT !.cost = evidence, !.costReconciledAt = t, !.updatedAt = t]
  IN
  /\ s \in Planned /\ r.state = "externally_verified"
  /\ Mutate(s, "cost-reconciliation", t, {"externally_verified"},
       IF CostFault(r, t, evidence) # None
       THEN InvalidRecord(candidate, t, CostFault(r, t, evidence))
       ELSE [candidate EXCEPT !.state = "cost_pending"])

\* Mutant: a date is taken as long as its session is not over.
DateTaken_Active(s) == \E other \in Active \ {s} : sessions[other].date = sessions[s].date

DateTaken(s) ==
  \E other \in Planned \ {s} :
    sessions[other].state = "accepted" /\ sessions[other].date = sessions[s].date

\* Only what every earlier step left in the record is evidence for an acceptance.
AcceptanceEvidence(r) ==
  /\ r.preflight = "pass" /\ r.local = "pass" /\ r.external = "pass" /\ r.cost = "pass"
  /\ None \notin {r.minute45, r.minute90, r.startedAt, r.stoppedAt}
  /\ r.stoppedAt - r.startedAt <= MaxSupervised

AcceptSession(s, t) ==
  LET r == sessions[s] IN
  /\ s \in Planned
  /\ DateTaken(s) \/ AcceptanceEvidence(r)
  /\ Mutate(s, "accept", t, {"cost_pending"},
       IF DateTaken(s) THEN InvalidRecord(r, t, "qualification-date-conflict")
       ELSE [r EXCEPT !.state = "accepted", !.eligible = FALSE, !.acceptedAt = t,
                      !.updatedAt = t])

InvalidateSession(s, t) ==
  /\ s \in Planned
  /\ Mutate(s, "invalidate", t, States \ Terminal,
            InvalidRecord(sessions[s], t, "operator-abort"))

-----------------------------------------------------------------------------
(* Opening and closing. *)

\* Mutant: a file is opened whatever head its caller retained.
Openable_AnyHead == pin # None

Openable == pin # None /\ IsPrefix(pin, audit)

\* Mutant: a restart finds the session as it was left.
Abandoned_None == {}
Abandoned == Active

\* What was left behind is ended, unless the clock is behind it.
RecoverNonterminalSessions(t) ==
  LET order == SetToSeq(Abandoned)
      Ended(s) == InvalidRecord(sessions[s], t, "crash-recovery")
  IN
  /\ NotBackward(t)
  /\ \A s \in Abandoned : t >= sessions[s].updatedAt
  /\ Room(Len(order))
  /\ sessions' = [s \in Sessions |-> IF s \in Abandoned THEN Ended(s) ELSE sessions[s]]
  /\ audit' = audit \o [i \in 1..Len(order) |->
       AuditEntry(order[i], "crash-recovery", sessions[order[i]].state, t, Ended(order[i]))]

Open(t) ==
  /\ ~open
  /\ Openable
  /\ RecoverNonterminalSessions(t)
  /\ open' = TRUE
  /\ UNCHANGED <<pin, copy>>

\* A close, or the death of the process: every call is one transaction.
Close == open /\ open' = FALSE /\ UNCHANGED <<sessions, audit, pin, copy>>

GetTrustedHead ==
  /\ open /\ Len(audit) \in HeadsAt
  /\ pin' = audit
  /\ UNCHANGED <<sessions, audit, open, copy>>

SaveCopy ==
  /\ copy = None /\ Len(audit) \in CopiesAt
  /\ copy' = <<sessions, audit>>
  /\ UNCHANGED <<sessions, audit, open, pin>>

RestoreCopy ==
  /\ ~open /\ copy # None
  /\ sessions' = copy[1] /\ audit' = copy[2]
  /\ UNCHANGED <<open, pin, copy>>

-----------------------------------------------------------------------------
(* What is verified before and after every transaction.  Of a record: which  *)
(* facts its state must and must not have, their order, and the windows.     *)

Known(time) == time # None
Moments(r) ==
  <<r.plannedAt, r.observedAt, r.preflightedAt, r.startedAt, r.minute45, r.minute90,
    r.stoppedAt, r.locallyVerifiedAt, r.externallyVerifiedAt, r.costReconciledAt, r.acceptedAt>>

\* Those that are known are in order; what was observed is not an update of the record.
Chronological(moments) ==
  \A i \in 1..11 : Known(moments[i]) =>
    \A j \in 1..i : Known(moments[j]) => moments[j] <= moments[i]
Latest(moments, time) ==
  \E i \in 1..11 \ {2} :
    moments[i] = time /\ \A j \in (i + 1)..11 : j # 2 => ~Known(moments[j])

Progress(r) ==
  <<r.preflightedAt, r.startedAt, r.stoppedAt, r.locallyVerifiedAt, r.externallyVerifiedAt,
    r.costReconciledAt, r.acceptedAt>>
Ranked == <<"preflighted", "running", "stopping", "locally_verified", "externally_verified",
            "cost_pending", "accepted">>
Rank(state) == IF state = "planned" THEN 0 ELSE CHOOSE i \in 1..7 : Ranked[i] = state

WellFormed(r) ==
  /\ r.plannedAt <= r.supervisedUntil
  /\ r.date = DateAt(r.plannedAt)
  /\ r.eligible <=> r.state = "running"
  /\ \A pair \in {<<r.preflightedAt, r.preflight>>, <<r.locallyVerifiedAt, r.local>>,
                  <<r.externallyVerifiedAt, r.external>>, <<r.costReconciledAt, r.cost>>,
                  <<r.invalidatedAt, r.reason>>} : Known(pair[1]) <=> Known(pair[2])
  /\ Known(r.minute90) => Known(r.minute45)
  /\ Chronological(Moments(r))

InWindow(r, acknowledged, offset) ==
  Known(acknowledged) => acknowledged - r.startedAt \in offset..(offset + Grace)

LiveRecord(r) ==
  /\ ~Known(r.invalidatedAt)
  /\ \A time \in {r.startedAt, r.minute45, r.minute90, r.stoppedAt} \ {None} :
       time <= r.supervisedUntil
  /\ Known(r.stoppedAt) => r.stoppedAt - r.startedAt <= MaxSupervised
  /\ Known(r.startedAt) => /\ DateAt(r.startedAt) = r.date
                           /\ InWindow(r, r.minute45, Minute45)
                           /\ InWindow(r, r.minute90, Minute90)
  /\ \A i \in 1..7 : Known(Progress(r)[i]) <=> Rank(r.state) >= i
  /\ Rank(r.state) >= 3 => Known(r.minute45) /\ Known(r.minute90)
  /\ Rank(r.state) >= 1 => r.preflight = "pass"
  /\ Rank(r.state) >= 4 => r.local = "pass"
  /\ Rank(r.state) >= 5 => r.external = "pass"
  /\ Rank(r.state) >= 6 => r.cost = "pass"
  /\ Latest(Moments(r), r.updatedAt)
  /\ r.state = "accepted" => AcceptanceEvidence(r)

Semantics(r) ==
  /\ WellFormed(r)
  /\ IF r.state = "invalid"
     THEN Known(r.invalidatedAt) /\ ~Known(r.acceptedAt) /\ r.updatedAt = r.invalidatedAt
     ELSE LiveRecord(r)

\* The moves an audit entry may report (assertTransition).
Origin(action) ==
  CASE action = "plan" -> {None}
    [] action = "preflight" -> {"planned"}
    [] action = "start" -> {"preflighted"}
    [] action \in {"ack-minute-45", "ack-minute-90", "stop"} -> {"running"}
    [] action = "local-verification" -> {"stopping"}
    [] action = "external-verification" -> {"locally_verified"}
    [] action = "cost-reconciliation" -> {"externally_verified"}
    [] action = "accept" -> {"cost_pending"}
    [] OTHER -> States \ Terminal
Target(action) ==
  CASE action = "plan" -> {"planned"}
    [] action = "preflight" -> {"preflighted", "invalid"}
    [] action \in {"start", "ack-minute-45", "ack-minute-90"} -> {"running", "invalid"}
    [] action = "stop" -> {"stopping", "invalid"}
    [] action = "local-verification" -> {"locally_verified", "invalid"}
    [] action = "external-verification" -> {"externally_verified", "invalid"}
    [] action = "cost-reconciliation" -> {"cost_pending", "invalid"}
    [] action = "accept" -> {"accepted", "invalid"}
    [] OTHER -> {"invalid"}

LastEntry(s, n) ==
  LET before == {i \in 1..n : audit[i].session = s} IN
  IF before = {} THEN 0 ELSE CHOOSE i \in before : \A j \in before : j <= i

\* The input of a call is kept with its entry and carries the time of the action.
AuditInputReads(e) == e.inputAt = e.at

AuditReplays ==
  /\ Len(audit) <= MaxAudit
  /\ \A i \in 1..Len(audit) :
       LET e == audit[i] IN
       /\ e.from = (IF LastEntry(e.session, i - 1) = 0 THEN None
                    ELSE audit[LastEntry(e.session, i - 1)].to)
       /\ e.from \in Origin(e.action) /\ e.to \in Target(e.action) /\ e.to = e.record.state
       /\ e.at = e.record.updatedAt /\ AuditInputReads(e)
       /\ i > 1 => e.at >= audit[i - 1].at
       /\ Semantics(e.record)
       /\ \A j \in 1..(i - 1) : ~(audit[j].session = e.session /\ audit[j].action = e.action)
  /\ \A s \in Sessions :
       IF sessions[s] = None THEN LastEntry(s, Len(audit)) = 0
       ELSE LastEntry(s, Len(audit)) # 0 /\ audit[LastEntry(s, Len(audit))].record = sessions[s]

RecordsRead ==
  /\ Cardinality(Planned) <= MaxSessions
  /\ \A s \in Planned : Semantics(sessions[s])
  /\ Cardinality(Active) <= 1
  /\ \A s, u \in Planned :
       s # u /\ sessions[s].state = "accepted" /\ sessions[u].state = "accepted" =>
         sessions[s].date # sessions[u].date

-----------------------------------------------------------------------------
Init ==
  /\ sessions = [s \in Sessions |-> None]
  /\ audit = <<>>
  /\ open = TRUE /\ pin = None /\ copy = None

SessionStep(s, t) ==
  \/ \E until \in Times : PlanSession(s, t, until)
  \/ \E observed \in Times, e \in PreflightEvidence : RecordPreflight(s, t, observed, e)
  \/ StartSession(s, t)
  \/ RecordMinute45(s, t)
  \/ RecordMinute90(s, t)
  \/ StopSession(s, t)
  \/ \E e \in LocalEvidence : RecordLocalVerification(s, t, e)
  \/ \E e \in ExternalEvidence : RecordExternalVerification(s, t, e)
  \/ \E e \in CostEvidence : RecordCostReconciliation(s, t, e)
  \/ AcceptSession(s, t)
  \/ InvalidateSession(s, t)

Next ==
  \/ \E s \in Sessions, t \in Times : SessionStep(s, t)
  \/ \E t \in Times : Open(t)
  \/ Close \/ GetTrustedHead \/ SaveCopy \/ RestoreCopy

Spec == Init /\ [][Next]_vars

-----------------------------------------------------------------------------
(* Properties. *)

\* Records and audit entries keep their shape.
TypeOK ==
  /\ sessions \in [Sessions -> SessionRecord \cup {None}]
  /\ audit \in Seq(AuditRow)
  /\ open \in BOOLEAN
  /\ pin \in Seq(AuditRow) \cup {None}

\* The verification passes: records are sound one by one and together, and the audit
\* replays to them.
LifecycleIntegrity == TypeOK /\ RecordsRead /\ AuditReplays

\* While a coordinator serves, no session runs that an earlier process started:
\* a restart never resumes egress (recoverNonterminalSessions).
RestartsBlockEgress ==
  [][~open /\ open' => \A s \in Sessions : sessions'[s] # None => ~sessions'[s].eligible]_vars

\* A session that is not over can be ended: the audit does not run out of entries first.
RoomToEnd == Active # {} => Room(1)

\* An acceptance that the caller retains the head of stands, whatever is restored.
PinnedAcceptancesStay ==
  open /\ pin # None =>
    \A i \in 1..Len(pin) : pin[i].to = "accepted" =>
      sessions[pin[i].session] # None /\ sessions[pin[i].session].state = "accepted"

\* Whatever the callers report and whenever, the database passes the
\* verification around every transaction, and every record the check made
\* before it is written: no admissible call is refused for what the code itself
\* makes of it, and none leaves a database that later calls refuse
\* (assertRecordSemantics, verifyIntegrityInternal).  A session can always be ended,
\* although only the sessions are counted when one is planned (MAX_SESSION_RECORDS,
\* MAX_AUDIT_RECORDS); and a file replaced by an earlier copy is not served when that
\* would free the date of an acceptance (verifyTrustedHead).
SessionsStaySound == LifecycleIntegrity /\ RoomToEnd /\ PinnedAcceptancesStay

\* The lifecycle implements the gate: one session at a time, each runs once,
\* one acceptance per date and only after the run is over.
Current == CHOOSE s \in Active : TRUE
Gate == INSTANCE SessionGate WITH
  Dates <- Times,
  holder <- IF Active = {} THEN None ELSE Current,
  date <- IF Active = {} THEN None ELSE sessions[Current].date,
  running <- \E s \in Active : sessions[s].eligible,
  ran <- {s \in Sessions : \E i \in 1..Len(audit) :
            audit[i].session = s /\ audit[i].action = "start" /\ audit[i].to = "running"},
  accepted <- {<<s, sessions[s].date>> : s \in {u \in Planned : sessions[u].state = "accepted"}}

ImplementsGate == Gate!Spec
=============================================================================
