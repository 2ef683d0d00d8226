----------------------------- MODULE AlertOutbox -----------------------------
(***************************************************************************)
(* The durable alert queue of packages/alerts: an incident is enqueued     *)
(* once per plane, an adapter claims the oldest pending delivery and       *)
(* reports how its attempt ended, and after a crash the operator declares  *)
(* the attempts that were left in flight crashed.  Two attempts at most.   *)
(*                                                                         *)
(* Every operation is one BEGIN IMMEDIATE transaction that verifies the    *)
(* whole database before and after it, so one action.  The verification    *)
(* is not a guard of the actions: that it never refuses what an operation  *)
(* has written is the invariant OutboxIntegrity.  Timestamps are given by  *)
(* the callers and arbitrary.  The caller keeps an authenticated head of   *)
(* the audit log outside the file; since the log is a MAC chain, a head    *)
(* stands for the whole prefix it closes.  While the outbox is closed its  *)
(* file may be replaced by an earlier copy of itself.                      *)
(*                                                                         *)
(* A delivery stands for profile, plane, incident and session.  A call     *)
(* that repeats an earlier one exactly returns the receipt it finds, one   *)
(* that repeats it with other content is refused: neither changes a row.   *)
(***************************************************************************)
EXTENDS Naturals, Sequences, SequencesExt, FiniteSets

CONSTANTS
  Deliveries,  \* their ids, which are ordered: numbers
  Planes, PlaneOf,
  OccurredAt,  \* when the incident of a delivery happened
  MessageIds,  \* what a provider may return
  MaxTime,     \* bound: caller timestamps
  HeadsAt,     \* bound: lengths of the log at which the caller retains its head
  CopiesAt,    \* bound: lengths of the log at which the file may be copied
  None

MaxAttempts == 2
Times == 0..MaxTime

DeliveryRow == [state : {"pending", "in_flight", "delivered", "exhausted"},
                count : 0..MaxAttempts, active : 1..MaxAttempts \cup {None},
                queuedAt : Nat, updatedAt : Nat]
AttemptRow == [state : {"in_flight", "delivered", "failed", "crashed"}, startedAt : Nat,
               finishedAt : Nat \cup {None}, retryable : {0, 1, None},
               result : {"pending", "delivered", "exhausted", None},
               message : MessageIds \cup {None}]
AuditRow == [type : {"queued", "claimed", "completed", "failed", "recovered"},
             delivery : Deliveries, attempt : 1..MaxAttempts \cup {None},
             state : {"pending", "in_flight", "delivered", "exhausted"},
             retryable : {0, 1, None}, at : Nat]

VARIABLES
  rows,      \* the row of each delivery, or None
  attempts,  \* the attempt rows of each delivery, in order
  audit,     \* the audit log
  open,      \* an outbox object has the file open
  pin,       \* the audit prefix whose head the caller retains, or None
  copy       \* an earlier copy of the file, or None

file == <<rows, attempts, audit>>
vars == <<rows, attempts, audit, open, pin, copy>>

In(d, state) == rows[d] # None /\ rows[d].state = state
InFlight == {d \in Deliveries : In(d, "in_flight")}

\* appendAudit refuses a time before that of the last event of any delivery.
NotBackward(t) == audit # <<>> => t >= audit[Len(audit)].at

Event(type, d, n, state, retryable, t) ==
  [type |-> type, delivery |-> d, attempt |-> n, state |-> state,
   retryable |-> retryable, at |-> t]

-----------------------------------------------------------------------------
Enqueue(d, t) ==
  /\ open
  /\ t >= OccurredAt[d]
  /\ rows[d] = None
  /\ NotBackward(t)
  /\ rows' = [rows EXCEPT ![d] = [state |-> "pending", count |-> 0, active |-> None,
                                  queuedAt |-> t, updatedAt |-> t]]
  /\ audit' = Append(audit, Event("queued", d, None, "pending", None, t))
  /\ UNCHANGED <<attempts, open, pin, copy>>

\* The queue of a plane is ordered by queue time, then by delivery id.
Before(d, e) == \/ rows[d].queuedAt < rows[e].queuedAt
                \/ rows[d].queuedAt = rows[e].queuedAt /\ d < e

Oldest(p, d) ==
  LET waiting == {e \in Deliveries : In(e, "pending") /\ PlaneOf[e] = p} IN
  d \in waiting /\ \A e \in waiting \ {d} : Before(d, e)

\* What a claim writes: the delivery's row and a row for the attempt.
Claimed(row, n, t) ==
  [state |-> "in_flight", count |-> n, active |-> n, queuedAt |-> row.queuedAt, updatedAt |-> t]
Started(t) ==
  [state |-> "in_flight", startedAt |-> t, finishedAt |-> None,
   retryable |-> None, result |-> None, message |-> None]

Claim(p, t) ==
  /\ open
  /\ NotBackward(t)
  /\ \E d \in Deliveries :
       LET n == rows[d].count + 1 IN
       /\ Oldest(p, d)
       /\ t >= rows[d].updatedAt
       /\ n <= MaxAttempts
       /\ rows' = [rows EXCEPT ![d] = Claimed(@, n, t)]
       /\ attempts' = [attempts EXCEPT ![d] = Append(@, Started(t))]
       /\ audit' = Append(audit, Event("claimed", d, n, "in_flight", None, t))
  /\ UNCHANGED <<open, pin, copy>>

\* Mutant: an answer is taken for whatever attempt is in flight.
ActiveAttempt_Any(d, n) == In(d, "in_flight") /\ n \in 1..Len(attempts[d])

ActiveAttempt(d, n) ==
  /\ In(d, "in_flight")
  /\ rows[d].active = n /\ rows[d].count = n
  /\ attempts[d][n].state = "in_flight"

ResultOf(n, retryable) ==
  IF retryable = 1 /\ n < MaxAttempts THEN "pending" ELSE "exhausted"

\* What an attempt that ends writes to its own row and to that of the delivery.
Finished(attempt, state, t, retryable, result, message) ==
  [state |-> state, startedAt |-> attempt.startedAt, finishedAt |-> t,
   retryable |-> retryable, result |-> result, message |-> message]
Settled(row, result, t) ==
  [state |-> result, count |-> row.count, active |-> None,
   queuedAt |-> row.queuedAt, updatedAt |-> t]

End(d, n, type, state, t, retryable, result, message) ==
  /\ open
  /\ n \in 1..Len(attempts[d])
  /\ ActiveAttempt(d, n)
  /\ t >= attempts[d][n].startedAt
  /\ NotBackward(t)
  /\ attempts' = [attempts EXCEPT ![d][n] = Finished(@, state, t, retryable, result, message)]
  /\ rows' = [rows EXCEPT ![d] = Settled(@, result, t)]
  /\ audit' = Append(audit, Event(type, d, n, result, retryable, t))
  /\ UNCHANGED <<open, pin, copy>>

Complete(d, n, t, message) == End(d, n, "completed", "delivered", t, None, "delivered", message)

Fail(d, n, t, retryable) ==
  End(d, n, "failed", "failed", t, retryable, ResultOf(n, retryable), None)

\* Recovery ends every attempt in flight, in the order of their claims.
Recover(t) ==
  LET Retry(d) == IF rows[d].active < MaxAttempts THEN 1 ELSE 0
      Result(d) == IF rows[d].active < MaxAttempts THEN "pending" ELSE "exhausted"
      Recovered(d) == Event("recovered", d, rows[d].active, Result(d), Retry(d), t)
      Earlier(d, e) == \/ rows[d].updatedAt < rows[e].updatedAt
                       \/ rows[d].updatedAt = rows[e].updatedAt /\ d < e
  IN
  /\ open
  /\ \A d \in InFlight : t >= rows[d].updatedAt
  /\ NotBackward(t)
  /\ attempts' = [d \in Deliveries |->
       IF d \in InFlight
       THEN [attempts[d] EXCEPT ![rows[d].active] =
               Finished(@, "crashed", t, Retry(d), Result(d), None)]
       ELSE attempts[d]]
  /\ rows' = [d \in Deliveries |->
       IF d \in InFlight THEN Settled(rows[d], Result(d), t) ELSE rows[d]]
  /\ \E n \in 1..Cardinality(InFlight) : \E order \in [1..n -> InFlight] :
       /\ \A d \in InFlight : \E i \in 1..n : order[i] = d
       /\ \A i, j \in 1..n : i < j => Earlier(order[i], order[j])
       /\ audit' = audit \o [i \in 1..n |-> Recovered(order[i])]
  /\ UNCHANGED <<open, pin, copy>>

\* What complete and fail return, also when they are repeated: the state the
\* attempt left, however far the delivery has come since.
\* Mutant: the receipt shows the delivery as it is now.
Receipt_Current(d, n) ==
  [attempts |-> rows[d].count, state |-> rows[d].state, updatedAt |-> rows[d].updatedAt]

Receipt(d, n) ==
  [attempts |-> n, state |-> attempts[d][n].result, updatedAt |-> attempts[d][n].finishedAt]

-----------------------------------------------------------------------------
(* Opening, closing, and the head the caller retains. *)

Openable == pin # None /\ IsPrefix(pin, audit)

Open ==
  /\ ~open
  /\ Openable
  /\ open' = TRUE
  /\ UNCHANGED <<rows, attempts, audit, pin, copy>>

\* A close or the end of the process.
Close == open /\ open' = FALSE /\ UNCHANGED <<rows, attempts, audit, pin, copy>>

GetTrustedHead ==
  /\ open /\ Len(audit) \in HeadsAt
  /\ pin' = audit
  /\ UNCHANGED <<rows, attempts, audit, open, copy>>

SaveCopy ==
  /\ copy = None /\ Len(audit) \in CopiesAt
  /\ copy' = file
  /\ UNCHANGED <<rows, attempts, audit, open, pin>>

RestoreCopy ==
  /\ ~open /\ copy # None
  /\ rows' = copy[1] /\ attempts' = copy[2] /\ audit' = copy[3]
  /\ UNCHANGED <<open, pin, copy>>

-----------------------------------------------------------------------------
(* What is verified before and after every transaction.  The MACs of rows,   *)
(* schema and full state are recomputed by the transaction itself and hold.  *)

\* Of a delivery d with the row r and the attempts tries, and of a log.

StartsInOrder(r, tries) ==
  \A n \in 1..Len(tries) :
    tries[n].startedAt >= (IF n = 1 THEN r.queuedAt ELSE tries[n - 1].finishedAt)

AttemptReads(a, n) ==
  IF a.state = "in_flight"
  THEN a.finishedAt = None /\ a.retryable = None /\ a.result = None /\ a.message = None
  ELSE /\ a.finishedAt # None /\ a.finishedAt >= a.startedAt
       /\ IF a.state = "delivered" THEN a.retryable = None /\ a.result = "delivered"
          ELSE /\ a.retryable # None /\ a.message = None
               /\ \/ a.result = "exhausted"
                  \/ a.result = "pending" /\ n = 1 /\ a.retryable = 1

LastMatches(r, tries) ==
  LET last == tries[Len(tries)] IN
  /\ r.state = "pending" => tries = <<>> \/ last.result = "pending"
  /\ r.state = "in_flight" => tries # <<>> /\ last.state = "in_flight"
  /\ r.state = "delivered" => tries # <<>> /\ last.state = "delivered"
  /\ r.state = "exhausted" => tries # <<>> /\ last.state \in {"failed", "crashed"}
                                        /\ last.result = "exhausted"

DeliveryReads(d, r, tries) ==
  /\ r.queuedAt >= OccurredAt[d] /\ r.updatedAt >= r.queuedAt
  /\ r.active = (IF r.state = "in_flight" THEN r.count ELSE None)
  /\ Len(tries) = r.count
  /\ \A n \in 1..Len(tries) : AttemptReads(tries[n], n)
  /\ StartsInOrder(r, tries)
  /\ LastMatches(r, tries)
  /\ tries # <<>> =>
       LET last == tries[Len(tries)] IN
       r.updatedAt = (IF last.finishedAt = None THEN last.startedAt ELSE last.finishedAt)

\* The events of a delivery are exactly those its rows call for, each once.
TerminalType(a) ==
  IF a.state = "delivered" THEN "completed"
  ELSE IF a.state = "crashed" THEN "recovered" ELSE "failed"

Expected(d, r, tries) ==
  {Event("queued", d, None, "pending", None, r.queuedAt)}
  \cup {Event("claimed", d, n, "in_flight", None, tries[n].startedAt) : n \in 1..Len(tries)}
  \cup {Event(TerminalType(tries[n]), d, n, tries[n].result, tries[n].retryable, tries[n].finishedAt) :
          n \in {k \in 1..Len(tries) : tries[k].finishedAt # None}}

EventsOf(d, log) == {i \in 1..Len(log) : log[i].delivery = d}

AuditReads(rs, log, i) ==
  LET r == rs[log[i].delivery] IN
  /\ i > 1 => log[i].at >= log[i - 1].at
  /\ r # None
  /\ log[i].at >= r.queuedAt
  /\ log[i].type = "queued" => log[i].at = r.queuedAt

Verifies(rs, ats, log) ==
  /\ \A i \in 1..Len(log) : AuditReads(rs, log, i)
  /\ \A d \in Deliveries :
       IF rs[d] = None THEN ats[d] = <<>>
       ELSE /\ DeliveryReads(d, rs[d], ats[d])
            /\ {log[i] : i \in EventsOf(d, log)} = Expected(d, rs[d], ats[d])
            /\ \A i, j \in EventsOf(d, log) : log[i] = log[j] => i = j

VerifyIntegrity == Verifies(rows, attempts, audit)

-----------------------------------------------------------------------------
Init ==
  /\ rows = [d \in Deliveries |-> None]
  /\ attempts = [d \in Deliveries |-> <<>>]
  /\ audit = <<>>
  /\ open = TRUE /\ pin = None /\ copy = None

Next ==
  \/ \E t \in Times :
       \/ \E d \in Deliveries :
            \/ Enqueue(d, t)
            \/ \E n \in 1..MaxAttempts :
                 \/ \E m \in MessageIds \cup {None} : Complete(d, n, t, m)
                 \/ \E retryable \in {0, 1} : Fail(d, n, t, retryable)
       \/ \E p \in Planes : Claim(p, t)
       \/ Recover(t)
  \/ Open \/ Close \/ GetTrustedHead \/ SaveCopy \/ RestoreCopy

Spec == Init /\ [][Next]_vars

-----------------------------------------------------------------------------
(* Properties. *)

\* Rows, attempts and events keep the shape of their tables.
TypeOK ==
  /\ rows \in [Deliveries -> DeliveryRow \cup {None}]
  /\ attempts \in [Deliveries -> Seq(AttemptRow)]
  /\ audit \in Seq(AuditRow)
  /\ open \in BOOLEAN
  /\ pin \in Seq(AuditRow) \cup {None}

\* Whatever the callers do and however their clocks jump, the database passes
\* the verification that every transaction starts and ends with; otherwise an
\* operation would be refused for what it wrote itself, or no later one could
\* run (verifyIntegrityInternal).
OutboxIntegrity == TypeOK /\ VerifyIntegrity

\* A delivery is attempted a second time only after its first attempt ended in
\* a failure that may be retried or was declared crashed, and not before: no
\* two attempts of one incident are ever in flight together, and nothing is
\* sent again that was answered (claim, recover).
RetriesFollowFailures ==
  \A d \in Deliveries : Len(attempts[d]) = 2 =>
    LET first == attempts[d][1] IN
    /\ first.state \in {"failed", "crashed"} /\ first.retryable = 1
    /\ attempts[d][2].startedAt >= first.finishedAt

\* A repeated complete or fail reports what the first call reported: how an
\* attempt ended does not change by a retry, a recovery or a late answer.
ReceiptsAreStable ==
  [][\A d \in Deliveries : \A n \in 1..Len(attempts[d]) :
       open /\ attempts[d][n].finishedAt # None =>
         attempts'[d][n].finishedAt # None /\ Receipt(d, n)' = Receipt(d, n)]_vars

\* A file that was replaced by an earlier copy is not served when the copy has
\* forgotten an event the caller retains the head of: what the retained prefix
\* reports as delivered is never pending or sent again (assertTrustedHeadPrefix).
PinnedDeliveriesStay ==
  open /\ pin # None =>
    \A i \in 1..Len(pin) : pin[i].type = "completed" => In(pin[i].delivery, "delivered")

\* The outbox can go on, sends again only what failed, and forgets no delivery.
OutboxStaysSound == OutboxIntegrity /\ RetriesFollowFailures /\ PinnedDeliveriesStay
=============================================================================
