------------------------- MODULE RuntimeController -------------------------
(***************************************************************************)
(* The Stage 0 runtime authority of packages/runtime: an append-only audit *)
(* log in SQLite that every controller replays under the exclusive write   *)
(* lock before it decides anything, and the one-shot, revision-bound       *)
(* boundary authorizations ("tickets") that controllers hand out.          *)
(*                                                                         *)
(* The log is the only durable state; mode, revision and owning process    *)
(* are whatever its last mode event says.  A transaction that only touches *)
(* the log is one action.  A transaction that runs a caller's callback     *)
(* while it holds the lock (dispatch, completion, local commit) is split   *)
(* at the callback, with the lock holder recorded in tx, so that clocks,   *)
(* other controllers and crashes interleave with it.  An operation that    *)
(* throws before it changes anything is simply not enabled.                *)
(***************************************************************************)
EXTENDS Integers, Sequences, TLC

CONSTANTS
  Processes,    \* processInstanceIds; every open() uses a new one
  Requests,     \* request ids operators give to stop() and transition()
  AuthIds,      \* authorization ids
  Tickets,      \* authorization objects a controller may create
  Boundaries,   \* the boundaries that callers ask for
  TTL,          \* RUNTIME_BOUNDARY_AUTHORIZATION_TTL_MS, in clock units
  MaxTime,      \* bound: wall and monotonic clock readings
  MaxLog,       \* bound: length of the audit log
  None          \* no process, no ticket

LocalCommitBoundaries == {"attention_refresh", "watchlist_import"}
NetworkBoundaries == {"research_collection"}
PlainBoundaries == {"proposal_persist"}
DeniedBoundaries == {"policy_approval", "paid_read", "wallet_sign",
                     "execution_adapter", "transaction_broadcast", "external_publish"}
AllBoundaries == LocalCommitBoundaries \cup NetworkBoundaries
                   \cup PlainBoundaries \cup DeniedBoundaries

ASSUME BoundariesAssumption == Boundaries \subseteq AllBoundaries
ASSUME BoundsAssumption == /\ TTL \in Nat \ {0}
                           /\ MaxTime \in Nat
                           /\ MaxLog \in Nat
ASSUME NoneAssumption == None \notin Processes \cup Tickets

Modes == {"STOPPED", "RESEARCH", "PROPOSE_ONLY"}
Ids == Requests \cup Processes
Times == 0..MaxTime

VARIABLES
  log,        \* the committed audit events, oldest first
  open,       \* the processes whose controller is open
  ticket,     \* in memory: the authorization object each ticket stands for
  mono,       \* the monotonic clock
  tx,         \* the transaction that is running a caller's callback
  sends,      \* observed: how often each ticket invoked its transport
  durable,    \* observed: the tickets whose dispatch transaction committed
  results,    \* observed: completion checkpoints, [ticket, at]
  commits,    \* observed: local commits, [ticket, at]
  reply       \* observed: the snapshot mode the last mode operation returned

vars == <<log, open, ticket, mono, tx, sends, durable, results, commits, reply>>
observed == <<sends, durable, results, commits>>

-----------------------------------------------------------------------------
(* Replay: what a log says. *)

ModePositions(l) == {i \in DOMAIN l : l[i].type # "boundary"}
LastModePosition(l) == CHOOSE i \in ModePositions(l) : \A j \in ModePositions(l) : j <= i

\* The state after replaying l; the null state of an empty log has revision 0.
State(l) ==
  IF ModePositions(l) = {}
  THEN [mode |-> "null", revision |-> 0, process |-> None]
  ELSE LET e == l[LastModePosition(l)]
       IN  [mode |-> e.to, revision |-> e.revision, process |-> e.process]

LastAuditAt(l) == IF l = <<>> THEN 0 ELSE l[Len(l)].at
Before(l, i) == SubSeq(l, 1, i - 1)

RequestUsed(l, r) == \E i \in DOMAIN l : l[i].type # "boundary" /\ l[i].request = r
AuthChecked(l, a) == \E i \in DOMAIN l : l[i].type = "boundary" /\ l[i].auth = a

LaterOf(s, t) == IF s < t THEN t ELSE s
\* Mutant: the audit time is the raw clock reading.
NonRegressing_Raw(t, l) == t

NonRegressing(t, l) == LaterOf(t, LastAuditAt(l))

\* Mutant: STOPPED may escalate straight to PROPOSE_ONLY.
TransitionAllowed_Skip(from, to) ==
  from # "null" /\ to # "STOPPED" /\ from # to

TransitionAllowed(from, to) ==
  <<from, to>> \in {<<"STOPPED", "RESEARCH">>, <<"RESEARCH", "PROPOSE_ONLY">>,
                    <<"PROPOSE_ONLY", "RESEARCH">>}

ModeAllows(mode, b) ==
  \/ b \in LocalCommitBoundaries /\ mode = "RESEARCH"
  \/ b \in NetworkBoundaries /\ mode # "STOPPED"
  \/ b \in PlainBoundaries /\ mode = "PROPOSE_ONLY"

\* Why a request q (of a ticket or of a logged check) is refused or allowed in
\* state s, apart from its lifetime; the order of the tests is the code's.
StandingReason(q, s) ==
  IF q.process # s.process THEN "PROCESS_SUPERSEDED"
  ELSE IF q.mode # s.mode \/ q.revision # s.revision THEN "STALE_REVISION"
  ELSE "ALLOWED"

BoundaryReason(q, s, checkedAt) ==
  IF q.boundary \in DeniedBoundaries THEN "PERMANENTLY_FORBIDDEN"
  ELSE IF StandingReason(q, s) # "ALLOWED" THEN StandingReason(q, s)
  ELSE IF checkedAt >= q.expiresAt THEN "EXPIRED"
  ELSE IF ~ModeAllows(s.mode, q.boundary) THEN "MODE_NOT_ALLOWED"
  ELSE "ALLOWED"

CompletionReason(q, s) ==
  IF q.boundary \notin NetworkBoundaries THEN "PERMANENTLY_FORBIDDEN"
  ELSE IF StandingReason(q, s) # "ALLOWED" THEN StandingReason(q, s)
  ELSE IF ~ModeAllows(s.mode, q.boundary) THEN "MODE_NOT_ALLOWED"
  ELSE "ALLOWED"

-----------------------------------------------------------------------------
(* Events. *)

StopEvent(cause, s, p, r, t) ==
  [type |-> cause, from |-> s.mode, to |-> "STOPPED", previous |-> s.revision,
   revision |-> s.revision + 1, process |-> p, request |-> r, at |-> t]

TransitionEvent(s, to, r, t) ==
  [type |-> "transition", from |-> s.mode, to |-> to, previous |-> s.revision,
   revision |-> s.revision + 1, process |-> s.process, request |-> r, at |-> t]

\* What the ticket or the denied request asked for, and what the check found.
CheckEvent(q, s, t) ==
  [type |-> "boundary", auth |-> q.auth, boundary |-> q.boundary,
   requestedAt |-> q.requestedAt, expiresAt |-> q.expiresAt, mode |-> q.mode,
   revision |-> q.revision, process |-> q.process,
   checkedMode |-> s.mode, checkedRevision |-> s.revision,
   checkedProcess |-> s.process, reason |-> BoundaryReason(q, s, t), at |-> t]

\* The checks replayRuntimeStore makes of the event at position i of l.
ModeEventReplays(l, i) ==
  LET e == l[i]
      s == State(Before(l, i))
  IN  /\ ~RequestUsed(Before(l, i), e.request)
      /\ e.from = s.mode /\ e.previous = s.revision /\ e.revision = s.revision + 1
      /\ e.type = "startup" => e.request = e.process
      /\ e.type = "stop" => s.mode # "null" /\ e.process = s.process
      /\ e.type = "transition" => /\ s.mode # "null" /\ e.process = s.process
                                  /\ TransitionAllowed(s.mode, e.to)

BoundaryEventReplays(l, i) ==
  LET e == l[i]
      s == State(Before(l, i))
  IN  /\ ~AuthChecked(Before(l, i), e.auth)
      /\ s.mode # "null"
      /\ e.checkedMode = s.mode /\ e.checkedRevision = s.revision
      /\ e.checkedProcess = s.process
      /\ e.expiresAt = e.requestedAt + TTL
      /\ e.requestedAt <= e.at
      /\ e.reason = BoundaryReason(e, s, e.at)

Replays(l) ==
  \A i \in DOMAIN l :
    /\ LastAuditAt(Before(l, i)) <= l[i].at
    /\ IF l[i].type = "boundary" THEN BoundaryEventReplays(l, i)
                                 ELSE ModeEventReplays(l, i)

-----------------------------------------------------------------------------
(* Opening, stopping and changing mode. *)

Idle == [kind |-> "idle", phase |-> "none", ticket |-> None, event |-> None]

\* The lock is held while the callback of ticket k runs; e is what the
\* transaction has appended so far.
Holding(kind, k, e) == [kind |-> kind, phase |-> "callback", ticket |-> k, event |-> e]
HasRoom == Len(log) < MaxLog
Append1(e) == log' = Append(log, e)

Init ==
  /\ log = <<>> /\ open = {} /\ mono = 0 /\ tx = Idle
  /\ ticket = [k \in Tickets |-> None]
  /\ sends = [k \in Tickets |-> 0] /\ durable = {} /\ results = {} /\ commits = {}
  /\ reply = "none"

\* A process is inside consumeAndCommit, between its two transactions; it runs
\* nothing else until that call is over.
Committing(p) == \E k \in Tickets : /\ ticket[k] # None
                                   /\ ticket[k].process = p /\ ticket[k].claim = "receipted"
Ready(p) == tx = Idle /\ p \in open /\ ~Committing(p)

\* open: every boot persists a STOP that takes the runtime over.
Open(p, t) ==
  /\ tx = Idle /\ HasRoom
  /\ p \notin open /\ ~RequestUsed(log, p)
  /\ Append1(StopEvent("startup", State(log), p, p, NonRegressing(t, log)))
  /\ open' = open \cup {p}
  /\ reply' = "none"
  /\ UNCHANGED <<ticket, mono, tx, observed>>

\* transition with a request id that was never used.
Transition(p, r, expectedMode, expectedRevision, target, t) ==
  LET s == State(log) IN
  /\ Ready(p) /\ HasRoom
  /\ ~RequestUsed(log, r)
  /\ s.process = p
  /\ LastAuditAt(log) <= t
  /\ s.mode = expectedMode /\ s.revision = expectedRevision
  /\ TransitionAllowed(s.mode, target)
  /\ Append1(TransitionEvent(s, target, r, t))
  /\ reply' = target
  /\ UNCHANGED <<open, ticket, mono, tx, observed>>

\* transition with the request id of a recorded transition: answers only while
\* the recorded event still names the current mode revision.
RetryTransition(p, r, expectedMode, expectedRevision, target) ==
  LET s == State(log) IN
  /\ Ready(p)
  /\ \E i \in DOMAIN log :
       /\ log[i].type = "transition" /\ log[i].request = r
       /\ log[i].process = p /\ log[i].to = target
       /\ log[i].from = expectedMode /\ log[i].previous = expectedRevision
       /\ s = [mode |-> log[i].to, revision |-> log[i].revision, process |-> log[i].process]
  /\ reply' = target
  /\ UNCHANGED <<log, open, ticket, mono, tx, observed>>

\* Mutants: STOP does not wait for the lock; STOP signs with its own process.
Stop_Lockless(p, r, t) ==
  /\ p \in open /\ HasRoom /\ ~RequestUsed(log, r)
  /\ Append1(StopEvent("stop", State(log), State(log).process, r, NonRegressing(t, log)))
  /\ reply' = "STOPPED"
  /\ UNCHANGED <<open, ticket, mono, tx, observed>>

\* stop: any open controller may stop, superseded or not.
Stop(p, r, t) ==
  /\ Ready(p) /\ HasRoom
  /\ ~RequestUsed(log, r)
  /\ Append1(StopEvent("stop", State(log), State(log).process, r, NonRegressing(t, log)))
  /\ reply' = "STOPPED"
  /\ UNCHANGED <<open, ticket, mono, tx, observed>>

RetryStop(p, r) ==
  LET s == State(log) IN
  /\ Ready(p)
  /\ \E i \in DOMAIN log :
       /\ log[i].type = "stop" /\ log[i].request = r
       /\ s = [mode |-> "STOPPED", revision |-> log[i].revision, process |-> log[i].process]
  /\ reply' = "STOPPED"
  /\ UNCHANGED <<log, open, ticket, mono, tx, observed>>

-----------------------------------------------------------------------------
(* Authorizations. *)

Issued(k) == ticket[k] # None
Held(k, b) == Issued(k) /\ ticket[k].process \in open /\ ticket[k].boundary \in b

\* A ticket that was never offered for consumption; offering it is terminal.
Unclaimed(k, b) == Held(k, b) /\ ticket[k].claim = "unused" /\ ~Committing(ticket[k].process)
Claimed(k, how) == ticket' = [ticket EXCEPT ![k].claim = how]

MonotonicExpired(q) == mono < q.monotonicIssuedAt \/ mono >= q.monotonicExpiresAt

\* Mutant: only the wall clock expires a ticket.
CheckedAt_WallOnly(q, t) == LaterOf(NonRegressing(t, log), q.requestedAt)

\* When a consumption counts as checked: never before the audit head or the
\* request, and not before the expiry once the monotonic lifetime is over.
CheckedAt(q, t) ==
  LET c == LaterOf(NonRegressing(t, log), q.requestedAt)
  IN  IF MonotonicExpired(q) /\ c < q.expiresAt THEN q.expiresAt ELSE c

RequestOf(p, a, b, t) ==
  [auth |-> a, boundary |-> b, process |-> p, mode |-> State(log).mode,
   revision |-> State(log).revision, requestedAt |-> NonRegressing(t, log),
   expiresAt |-> NonRegressing(t, log) + TTL, monotonicIssuedAt |-> mono,
   monotonicExpiresAt |-> mono + TTL, claim |-> "unused", guarded |-> FALSE]

\* requestBoundaryAuthorization: a refusal is logged, a grant stays in memory.
RequestAuthorization(p, k, a, b, t) ==
  LET q == RequestOf(p, a, b, t)
      reason == BoundaryReason(q, State(log), q.requestedAt)
  IN
  /\ Ready(p)
  /\ ~AuthChecked(log, a)
  /\ ~Issued(k)
  /\ \/ /\ reason = "ALLOWED"
        /\ ticket' = [ticket EXCEPT ![k] = q]
        /\ UNCHANGED log
     \/ /\ reason # "ALLOWED" /\ HasRoom
        /\ Append1(CheckEvent(q, State(log), q.requestedAt))
        /\ UNCHANGED ticket
  /\ reply' = "none"
  /\ UNCHANGED <<open, mono, tx, observed>>

\* A claim whose transaction never decides: a malformed or asynchronous
\* callback, a clock that fails, a lock wait that times out, an id that another
\* object already had checked.
ClaimFails(k) ==
  /\ Unclaimed(k, AllBoundaries)
  /\ Claimed(k, "spent")
  /\ reply' = "none"
  /\ UNCHANGED <<log, open, mono, tx, observed>>

\* consume of a plain boundary, and the first transaction of a local commit.
ConsumePlain(k, t) ==
  LET q == ticket[k]
      e == CheckEvent(q, State(log), CheckedAt(q, t))
  IN
  /\ tx = Idle /\ HasRoom
  /\ Unclaimed(k, PlainBoundaries \cup LocalCommitBoundaries)
  /\ ~AuthChecked(log, q.auth)
  /\ Append1(e)
  /\ Claimed(k, IF e.reason = "ALLOWED" /\ q.boundary \in LocalCommitBoundaries
                THEN "receipted" ELSE "spent")
  /\ reply' = "none"
  /\ UNCHANGED <<open, mono, tx, observed>>

\* consumeAndDispatch: the decision, under the lock.
DispatchCheck(k, t) ==
  LET q == ticket[k]
      e == CheckEvent(q, State(log), CheckedAt(q, t))
  IN
  /\ tx = Idle /\ HasRoom
  /\ Unclaimed(k, NetworkBoundaries)
  /\ ~AuthChecked(log, q.auth)
  /\ IF e.reason = "ALLOWED"
     THEN /\ tx' = Holding("dispatch", k, e)
          /\ UNCHANGED log
     ELSE Append1(e) /\ UNCHANGED tx
  /\ Claimed(k, IF e.reason = "ALLOWED" THEN "dispatched" ELSE "spent")
  /\ reply' = "none"
  /\ UNCHANGED <<open, mono, observed>>

\* The transport is invoked inside the still uncommitted transaction.
DispatchSend ==
  /\ tx.kind = "dispatch" /\ tx.phase = "callback"
  /\ sends' = [sends EXCEPT ![tx.ticket] = @ + 1]
  /\ tx' = [tx EXCEPT !.phase = "sent"]
  /\ UNCHANGED <<log, open, ticket, mono, durable, results, commits, reply>>

DispatchCommit ==
  /\ tx.kind = "dispatch" /\ tx.phase = "sent"
  /\ Append1(tx.event)
  /\ durable' = durable \cup {tx.ticket}
  /\ tx' = Idle
  /\ UNCHANGED <<open, ticket, mono, sends, results, commits, reply>>

\* The recorded check a completion relies on.
DurablyAllowed(q) ==
  \E i \in DOMAIN log :
    /\ log[i].type = "boundary" /\ log[i].auth = q.auth
    /\ log[i].boundary = "research_collection" /\ log[i].reason = "ALLOWED"
    /\ log[i].requestedAt = q.requestedAt /\ log[i].expiresAt = q.expiresAt
    /\ log[i].mode = q.mode /\ log[i].revision = q.revision /\ log[i].process = q.process
    /\ log[i].checkedMode = q.mode /\ log[i].checkedRevision = q.revision
    /\ log[i].checkedProcess = q.process

\* guardCompletion: terminal whether or not it gets as far as its callback.
Unguarded(k) ==
  Held(k, NetworkBoundaries) /\ ~ticket[k].guarded /\ ~Committing(ticket[k].process)
Guarded(k) == ticket' = [ticket EXCEPT ![k].guarded = TRUE]

\* Mutant: the durable check alone authorizes the completion.
GuardCompletion_Unchecked(k) ==
  /\ tx = Idle
  /\ Unguarded(k) /\ ticket[k].claim = "dispatched" /\ DurablyAllowed(ticket[k])
  /\ Guarded(k)
  /\ tx' = Holding("complete", k, None)
  /\ reply' = "none"
  /\ UNCHANGED <<log, open, mono, observed>>

GuardCompletion(k) ==
  /\ tx = Idle
  /\ Unguarded(k) /\ ticket[k].claim = "dispatched"
  /\ DurablyAllowed(ticket[k])
  /\ CompletionReason(ticket[k], State(log)) = "ALLOWED"
  /\ Guarded(k)
  /\ tx' = Holding("complete", k, None)
  /\ reply' = "none"
  /\ UNCHANGED <<log, open, mono, observed>>

\* An early, malformed, denied or timed out attempt.
GuardFails(k) ==
  /\ Unguarded(k)
  /\ Guarded(k)
  /\ reply' = "none"
  /\ UNCHANGED <<log, open, mono, tx, observed>>

CompletionCheckpoint ==
  /\ tx.kind = "complete" /\ tx.phase = "callback"
  /\ results' = results \cup {[ticket |-> tx.ticket, at |-> Len(log)]}
  /\ tx' = [tx EXCEPT !.phase = "done"]
  /\ UNCHANGED <<log, open, ticket, mono, sends, durable, commits, reply>>

\* Local commit authority is still fresh: assertFresh.
FreshCommit(q, t) ==
  /\ BoundaryReason(q, State(log), LaterOf(NonRegressing(t, log), q.requestedAt)) = "ALLOWED"
  /\ ~MonotonicExpired(q)

\* The second transaction of consumeAndCommit.
CommitBegin(k, t) ==
  LET q == ticket[k] IN
  /\ tx = Idle
  /\ Held(k, LocalCommitBoundaries) /\ q.claim = "receipted"
  /\ Claimed(k, "spent")
  /\ tx' = IF FreshCommit(q, t)
           THEN Holding("commit", k, None) ELSE Idle
  /\ reply' = "none"
  /\ UNCHANGED <<log, open, mono, observed>>

\* The callback's one checkpoint, taken after it has its own store's lock.
CommitCheckpoint(t) ==
  /\ tx.kind = "commit" /\ tx.phase = "callback"
  /\ tx' = IF FreshCommit(ticket[tx.ticket], t) THEN [tx EXCEPT !.phase = "checked"] ELSE Idle
  /\ UNCHANGED <<log, open, ticket, mono, observed, reply>>

CommitWrite ==
  /\ tx.kind = "commit" /\ tx.phase = "checked"
  /\ commits' = commits \cup {[ticket |-> tx.ticket, at |-> Len(log)]}
  /\ tx' = [tx EXCEPT !.phase = "done"]
  /\ UNCHANGED <<log, open, ticket, mono, sends, durable, results, reply>>

\* A completion or a local commit appends nothing to the log: its transaction
\* ends without effect.  A callback or a COMMIT that throws rolls back whatever
\* the transaction had appended; what the callback did stays done.
EndTransaction ==
  /\ tx # Idle
  /\ tx' = Idle
  /\ UNCHANGED <<log, open, ticket, mono, observed, reply>>

\* close(), or a crash, which also rolls back the transaction it interrupts.
Exit(p) ==
  /\ p \in open
  /\ open' = open \ {p}
  /\ tx' = IF tx # Idle /\ ticket[tx.ticket].process = p THEN Idle ELSE tx
  /\ reply' = "none"
  /\ UNCHANGED <<log, ticket, mono, observed>>

Tick ==
  /\ mono < MaxTime
  /\ mono' = mono + 1
  /\ UNCHANGED <<log, open, ticket, tx, observed, reply>>

\* What a client can know of the mode: any state a snapshot ever showed.
Snapshots == {[mode |-> log[i].to, revision |-> log[i].revision] : i \in ModePositions(log)}

Next ==
  \/ \E p \in Processes, t \in Times : Open(p, t)
  \/ \E p \in Processes, r \in Ids, n \in Snapshots, to \in {"RESEARCH", "PROPOSE_ONLY"} :
       \/ \E t \in Times : Transition(p, r, n.mode, n.revision, to, t)
       \/ RetryTransition(p, r, n.mode, n.revision, to)
  \/ \E p \in Processes, r \in Ids, t \in Times : Stop(p, r, t)
  \/ \E p \in Processes, r \in Ids : RetryStop(p, r)
  \/ \E p \in Processes, k \in Tickets, a \in AuthIds, b \in Boundaries, t \in Times :
       RequestAuthorization(p, k, a, b, t)
  \/ \E k \in Tickets : ClaimFails(k) \/ GuardCompletion(k) \/ GuardFails(k)
  \/ \E k \in Tickets, t \in Times : ConsumePlain(k, t) \/ DispatchCheck(k, t) \/ CommitBegin(k, t)
  \/ DispatchSend \/ DispatchCommit \/ CompletionCheckpoint
  \/ \E t \in Times : CommitCheckpoint(t)
  \/ CommitWrite \/ EndTransaction
  \/ \E p \in Processes : Exit(p)
  \/ Tick

Spec == Init /\ [][Next]_vars

-----------------------------------------------------------------------------
(* Properties. *)

Reasons == {"ALLOWED", "PERMANENTLY_FORBIDDEN", "PROCESS_SUPERSEDED", "STALE_REVISION",
            "EXPIRED", "MODE_NOT_ALLOWED"}

ModeEvent == [type : {"startup", "stop", "transition"}, from : Modes \cup {"null"}, to : Modes,
              previous : Nat, revision : Nat, process : Processes, request : Ids, at : Nat]

BoundaryEvent == [type : {"boundary"}, auth : AuthIds, boundary : AllBoundaries,
                  requestedAt : Nat, expiresAt : Nat, mode : Modes, revision : Nat,
                  process : Processes, checkedMode : Modes, checkedRevision : Nat,
                  checkedProcess : Processes, reason : Reasons, at : Nat]

Ticket == [auth : AuthIds, boundary : Boundaries, process : Processes, mode : Modes,
           revision : Nat, requestedAt : Nat, expiresAt : Nat,
           monotonicIssuedAt : Nat, monotonicExpiresAt : Nat,
           claim : {"unused", "receipted", "dispatched", "spent"}, guarded : BOOLEAN]

\* "No ticket" is not an authorization object.
ASSUME NoTicketAssumption == None \notin Ticket

Transaction == [kind : {"idle", "dispatch", "complete", "commit"},
                phase : {"none", "callback", "sent", "checked", "done"},
                ticket : Tickets \cup {None}, event : BoundaryEvent \cup {None}]

Observation == [ticket : Tickets, at : Nat]

\* Every event, ticket and transaction is well formed; in particular no event
\* is attributed to no process, and every observation names a log position.
TypeOK ==
  /\ log \in Seq(ModeEvent \cup BoundaryEvent)
  /\ open \subseteq Processes
  /\ ticket \in [Tickets -> Ticket \cup {None}]
  /\ mono \in Nat
  /\ tx \in Transaction
  /\ sends \in [Tickets -> Nat]
  /\ durable \subseteq Tickets
  /\ results \subseteq Observation
  /\ commits \subseteq Observation
  /\ \A r \in results \cup commits : r.at \in DOMAIN log
  /\ reply \in Modes \cup {"none"}

\* Whatever the writers append, under whatever clocks, a later replay accepts:
\* no legal history locks the operators out of open() and stop().
LogReplays == Replays(log)

\* The grant of ticket k is the authority of the log's first n events.
CurrentAt(k, n) ==
  LET s == State(SubSeq(log, 1, n))
  IN  /\ ticket[k].process = s.process /\ ticket[k].mode = s.mode
      /\ ticket[k].revision = s.revision

\* A transport is invoked only while the log still grants its ticket: STOP,
\* another mode or another boot cannot land between the check and the dispatch.
SendsOnlyUnderAuthority ==
  [][\A k \in Tickets : sends'[k] # sends[k] =>
       CurrentAt(k, Len(log)) /\ State(log).mode # "STOPPED"]_vars

\* One authorization object invokes its transport at most once, also when the
\* transaction around the first invocation was rolled back.
AtMostOneSend == \A k \in Tickets : sends[k] <= 1

\* A result is checkpointed at most once per ticket, after a dispatch under its
\* authorization id was made and durably recorded, and with no mode event
\* between that record and the result: completion wins or STOP wins.
CompletionsFollowAuthority ==
  \A r \in results :
    /\ CurrentAt(r.ticket, r.at)
    /\ \E i \in 1..r.at : /\ log[i].type = "boundary" /\ log[i].reason = "ALLOWED"
                          /\ log[i].auth = ticket[r.ticket].auth
    /\ \E k \in durable : sends[k] = 1 /\ ticket[k].auth = ticket[r.ticket].auth
    /\ \A q \in results : q.ticket = r.ticket => q = r

\* No dispatch whose transaction did not commit is completed.
CompletionsAreDurable == \A r \in results : r.ticket \in durable

\* A local commit writes at most once, in RESEARCH, under the very mode event
\* its receipt was recorded under, and after that receipt.
CommitsFollowAuthority ==
  \A c \in commits :
    /\ CurrentAt(c.ticket, c.at) /\ ticket[c.ticket].mode = "RESEARCH"
    /\ \E i \in 1..c.at : /\ log[i].type = "boundary" /\ log[i].reason = "ALLOWED"
                          /\ log[i].auth = ticket[c.ticket].auth
    /\ \A d \in commits : d.ticket = c.ticket => d = c

\* The check that has just let ticket k through: a dispatch holds it until its
\* transaction commits, any other consumption has appended it.
CheckOf(k) == IF ticket'[k].claim = "dispatched" THEN tx'.event ELSE log'[Len(log')]

\* A ticket is taken as ALLOWED only inside its monotonic lifetime, however far
\* the wall clock ran back, and by a check of its own authorization that is
\* dated before its wall expiry, however far the wall clock ran ahead.
ChecksWithinLifetime ==
  [][\A k \in Tickets :
       Issued(k) /\ ticket[k].claim = "unused"
         /\ ticket'[k].claim \in {"receipted", "dispatched"}
         => /\ mono < ticket[k].monotonicExpiresAt /\ mono >= ticket[k].monotonicIssuedAt
            /\ CheckOf(k).auth = ticket[k].auth /\ CheckOf(k).at < ticket[k].expiresAt]_vars

\* The mode a stop() or transition() call returned, a retry's included, is the
\* mode of the log when it returns.
RepliesAreCurrent == reply # "none" => State(log).mode = reply

\* Whatever an authorization leads to it leads to once and while the log grants
\* it: one send, one completion and one local commit, a reply that is still so
\* when it is given, and a log that every later process can replay.  All of it
\* keeps its types, so a result names an event that is in the log.
EffectsFollowAuthority ==
  TypeOK /\ LogReplays /\ AtMostOneSend /\ CompletionsFollowAuthority /\ CommitsFollowAuthority /\ RepliesAreCurrent

\* The controllers implement the abstract authority: what the log, the lock,
\* the clocks and the request ids add is never visible to a user of it.
AuthorityOf(q) == [mode |-> q.mode, revision |-> q.revision, process |-> q.process]
Authority == INSTANCE RuntimeAuthority WITH
  authority <- State(log),
  grant <- [k \in Tickets |-> IF ticket[k] = None THEN None ELSE AuthorityOf(ticket[k])],
  sent <- sends,
  completed <- {r.ticket : r \in results},
  committed <- {c.ticket : c \in commits}

ImplementsAuthority == Authority!Spec

-----------------------------------------------------------------------------
\* For TLC: processes, requests and authorizations are interchangeable.
Interchangeable == Permutations(Processes) \cup Permutations(Requests)
                     \cup Permutations(AuthIds) \cup Permutations(Tickets)
=============================================================================
