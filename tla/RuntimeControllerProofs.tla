----------------------- MODULE RuntimeControllerProofs -----------------------
(* Theorems about RuntimeController, for every value of its constants. *)
EXTENDS RuntimeController, TLAPS

Event == ModeEvent \cup BoundaryEvent

-----------------------------------------------------------------------------
(* What replaying one more event does to the state. *)

\* The replayed mode event is the last one of the log.
HasLast(l) ==
  /\ LastModePosition(l) \in ModePositions(l)
  /\ \A j \in ModePositions(l) : j <= LastModePosition(l)

LEMMA EventTypes ==
  ASSUME NEW e
  PROVE  /\ e \in ModeEvent => e.type # "boundary" /\ e.to \in Modes
                               /\ e.revision \in Nat /\ e.process \in Processes
         /\ e \in BoundaryEvent => e.type = "boundary"
BY DEF ModeEvent, BoundaryEvent

\* A mode event appended to a log becomes its state.
LEMMA StateAppendMode ==
  ASSUME NEW l \in Seq(Event), NEW e \in ModeEvent
  PROVE  /\ HasLast(Append(l, e))
         /\ State(Append(l, e)) = [mode |-> e.to, revision |-> e.revision, process |-> e.process]
<1> DEFINE m == Append(l, e)
<1>1. m \in Seq(Event) /\ Len(m) = Len(l) + 1 /\ m[Len(m)] = e /\ Len(m) \in DOMAIN m
      /\ \A i \in DOMAIN m : i \in Nat /\ i <= Len(m)
  BY DEF Event
<1>2. Len(m) \in ModePositions(m) /\ \A j \in ModePositions(m) : j <= Len(m)
  BY <1>1, EventTypes DEF ModePositions
<1>3. \A i \in ModePositions(m) : (\A j \in ModePositions(m) : j <= i) => i = Len(m)
  BY <1>1, <1>2 DEF ModePositions
<1>4. LastModePosition(m) = Len(m)
  BY <1>2, <1>3 DEF LastModePosition
<1> QED
  BY <1>1, <1>2, <1>4 DEF HasLast, State

\* A boundary check appended to a log leaves its state alone.
LEMMA StateAppendCheck ==
  ASSUME NEW l \in Seq(Event), HasLast(l), NEW e \in BoundaryEvent
  PROVE  HasLast(Append(l, e)) /\ State(Append(l, e)) = State(l)
<1> DEFINE m == Append(l, e)
<1>1. /\ DOMAIN m = DOMAIN l \cup {Len(l) + 1} /\ m[Len(l) + 1] = e
      /\ \A i \in DOMAIN l : m[i] = l[i]
  BY DEF Event
<1>2. ModePositions(m) = ModePositions(l)
  BY <1>1, EventTypes DEF ModePositions
<1>3. LastModePosition(m) = LastModePosition(l)
  BY <1>2 DEF LastModePosition
<1>4. LastModePosition(l) \in DOMAIN l
  BY DEF HasLast, ModePositions
<1> QED
  BY <1>1, <1>2, <1>3, <1>4 DEF HasLast, State

\* The state of a log with a mode event names a mode, a revision and a process.
LEMMA StateType ==
  ASSUME NEW l \in Seq(Event), HasLast(l)
  PROVE  /\ State(l) \in [mode : Modes, revision : Nat, process : Processes]
         /\ State(l).mode # "null"
<1>1. LastModePosition(l) \in DOMAIN l /\ l[LastModePosition(l)].type # "boundary"
      /\ ModePositions(l) # {}
  BY DEF HasLast, ModePositions
<1>2. l[LastModePosition(l)] \in ModeEvent
  BY <1>1, EventTypes DEF Event
<1> QED
  BY <1>1, <1>2, EventTypes DEF State, Modes

LEMMA EmptyState == State(<<>>) = [mode |-> "null", revision |-> 0, process |-> None]
BY DEF State, ModePositions

-----------------------------------------------------------------------------
(* The inductive invariant. *)

\* There is a state to act on as soon as a controller was opened.
LogHasMode == log # <<>> => HasLast(log)
OpenedLog == open # {} => log # <<>>

\* Whoever holds the lock for a callback holds the authority of the log.
HolderHasAuthority ==
  tx # Idle => /\ tx.kind # "idle" /\ tx.ticket \in Tickets /\ ticket[tx.ticket] \in Ticket
               /\ AuthorityOf(ticket[tx.ticket]) = State(log)
               /\ State(log).mode # "STOPPED"
               /\ log # <<>>
               /\ tx.kind = "dispatch" => tx.event \in BoundaryEvent

IInv == TypeOK /\ LogHasMode /\ OpenedLog /\ HolderHasAuthority

LEMMA InitIInv == Init => IInv
BY NoneAssumption
DEF Init, IInv, TypeOK, LogHasMode, OpenedLog, HolderHasAuthority, Idle, Transaction

\* Appending to the log keeps every conjunct that only looks at it.
LEMMA AppendKeepsLog ==
  ASSUME IInv, NEW e \in Event, Append1(e), e \in BoundaryEvent => log # <<>>
  PROVE  /\ log' \in Seq(Event) /\ log' # <<>> /\ HasLast(log')
         /\ \A r \in results \cup commits : r.at \in DOMAIN log'
         /\ DOMAIN log \subseteq DOMAIN log'
<1>1. log \in Seq(Event)
  BY DEF IInv, TypeOK, Event
<1>2. CASE e \in ModeEvent
  BY <1>1, <1>2, StateAppendMode DEF Append1, IInv, TypeOK
<1>3. CASE e \in BoundaryEvent
  BY <1>1, <1>3, StateAppendCheck DEF Append1, IInv, TypeOK, LogHasMode
<1> QED
  BY <1>2, <1>3 DEF Event

LEMMA Clock ==
  ASSUME IInv, NEW t \in Times
  PROVE  NonRegressing(t, log) \in Nat /\ t \in Nat
<1>1. log \in Seq(Event)
  BY DEF IInv, TypeOK, Event
<1>2. log # <<>> => log[Len(log)].at \in Nat
  BY <1>1 DEF Event, ModeEvent, BoundaryEvent
<1> QED
  BY <1>1, <1>2, BoundsAssumption DEF Times, NonRegressing, LaterOf, LastAuditAt

\* The state every operation of an open controller starts from.
LEMMA OpenState ==
  ASSUME IInv, open # {}
  PROVE  State(log) \in [mode : Modes, revision : Nat, process : Processes] /\ HasLast(log)
BY StateType DEF IInv, TypeOK, LogHasMode, OpenedLog, Event

\* A mode event moves the authority only while nobody holds the lock.
LEMMA IInvModeEvent ==
  ASSUME IInv, tx = Idle, NEW e \in ModeEvent, Append1(e),
         open' \subseteq Processes, UNCHANGED <<ticket, mono, tx, observed>>,
         reply' \in Modes \cup {"none"}
  PROVE  IInv'
<1>1. log' \in Seq(Event) /\ log' # <<>> /\ HasLast(log')
      /\ \A r \in results \cup commits : r.at \in DOMAIN log'
  BY AppendKeepsLog, EventTypes DEF Event
<1> QED
  BY <1>1 DEF IInv, TypeOK, LogHasMode, OpenedLog, HolderHasAuthority, observed, Event, Idle

LEMMA IInvOpen ==
  ASSUME IInv, NEW p \in Processes, NEW t \in Times, Open(p, t)
  PROVE  IInv'
<1> DEFINE e == StopEvent("startup", State(log), p, p, NonRegressing(t, log))
<1>1. State(log).mode \in Modes \cup {"null"} /\ State(log).revision \in Nat
  BY EmptyState, StateType DEF IInv, TypeOK, LogHasMode, Event
<1>2. e \in ModeEvent
  BY <1>1, Clock DEF StopEvent, ModeEvent, Modes, Ids
<1> QED
  BY <1>2, IInvModeEvent DEF Open, IInv, TypeOK

LEMMA IInvTransition ==
  ASSUME IInv, NEW p \in Processes, NEW r \in Ids, NEW mode, NEW revision,
         NEW to \in {"RESEARCH", "PROPOSE_ONLY"}, NEW t \in Times,
         Transition(p, r, mode, revision, to, t)
  PROVE  IInv'
<1>1. open # {} /\ tx = Idle
  BY DEF Transition, Ready
<1>2. TransitionEvent(State(log), to, r, t) \in ModeEvent
  BY <1>1, OpenState, Clock DEF TransitionEvent, ModeEvent, Modes
<1> QED
  BY <1>1, <1>2, IInvModeEvent DEF Transition, IInv, TypeOK, Modes

LEMMA IInvStop ==
  ASSUME IInv, NEW p \in Processes, NEW r \in Ids, NEW t \in Times, Stop(p, r, t)
  PROVE  IInv'
<1>1. open # {} /\ tx = Idle
  BY DEF Stop, Ready
<1>2. StopEvent("stop", State(log), State(log).process, r, NonRegressing(t, log)) \in ModeEvent
  BY <1>1, OpenState, Clock DEF StopEvent, ModeEvent, Modes
<1> QED
  BY <1>1, <1>2, IInvModeEvent DEF Stop, IInv, TypeOK, Modes

-----------------------------------------------------------------------------
(* Tickets and checks. *)

LEMMA ReasonType ==
  ASSUME NEW q, NEW s, NEW c
  PROVE  BoundaryReason(q, s, c) \in Reasons
BY DEF BoundaryReason, StandingReason, Reasons

LEMMA CheckEventType ==
  ASSUME NEW q \in Ticket, NEW s \in [mode : Modes, revision : Nat, process : Processes],
         NEW c \in Nat
  PROVE  CheckEvent(q, s, c) \in BoundaryEvent
BY ReasonType, BoundariesAssumption DEF CheckEvent, BoundaryEvent, Ticket

\* An allowed request carries the authority it was checked against.
LEMMA AllowedIsCurrent ==
  ASSUME NEW q, NEW s \in [mode : Modes, revision : Nat, process : Processes], NEW c,
         BoundaryReason(q, s, c) = "ALLOWED" \/ CompletionReason(q, s) = "ALLOWED"
  PROVE  AuthorityOf(q) = s /\ s.mode # "STOPPED"
BY DEF BoundaryReason, CompletionReason, StandingReason, AuthorityOf, ModeAllows

\* Claiming and guarding change neither what a ticket is nor what it grants.
LEMMA ClaimKeeps ==
  ASSUME IInv, NEW k \in Tickets, ticket[k] \in Ticket,
         \/ \E how \in {"unused", "receipted", "dispatched", "spent"} : Claimed(k, how)
         \/ Guarded(k)
  PROVE  /\ ticket' \in [Tickets -> Ticket \cup {None}]
         /\ \A j \in Tickets : ticket[j] \in Ticket =>
              ticket'[j] \in Ticket /\ AuthorityOf(ticket'[j]) = AuthorityOf(ticket[j])
<1>1. ticket \in [Tickets -> Ticket \cup {None}]
  BY DEF IInv, TypeOK
<1>2. PICK q \in Ticket : /\ ticket' = [ticket EXCEPT ![k] = q]
                          /\ AuthorityOf(q) = AuthorityOf(ticket[k])
  <2>1. CASE Guarded(k)
    <3> DEFINE q == [ticket[k] EXCEPT !.guarded = TRUE]
    <3>1. q \in Ticket /\ AuthorityOf(q) = AuthorityOf(ticket[k])
      BY DEF Ticket, AuthorityOf
    <3>2. ticket' = [ticket EXCEPT ![k] = q]
      BY <2>1 DEF Guarded
    <3> QED
      BY <3>1, <3>2
  <2>2. ASSUME NEW how \in {"unused", "receipted", "dispatched", "spent"}, Claimed(k, how)
        PROVE  \E q \in Ticket : /\ ticket' = [ticket EXCEPT ![k] = q]
                                 /\ AuthorityOf(q) = AuthorityOf(ticket[k])
    <3> DEFINE q == [ticket[k] EXCEPT !.claim = how]
    <3>1. q \in Ticket /\ AuthorityOf(q) = AuthorityOf(ticket[k])
      BY DEF Ticket, AuthorityOf
    <3>2. ticket' = [ticket EXCEPT ![k] = q]
      BY <2>2 DEF Claimed
    <3> QED
      BY <3>1, <3>2
  <2> QED
    BY <2>1, <2>2
<1> QED
  BY <1>1, <1>2

LEMMA HeldTicket ==
  ASSUME IInv, NEW k \in Tickets, NEW b, Held(k, b)
  PROVE  ticket[k] \in Ticket /\ open # {} /\ log # <<>>
BY DEF IInv, TypeOK, OpenedLog, Held, Issued

\* The steps that leave the log alone.
LEMMA IInvSameLog ==
  ASSUME IInv, log' = log, open' \subseteq open, mono' \in Nat, tx' \in Transaction,
         ticket' \in [Tickets -> Ticket \cup {None}], sends' \in [Tickets -> Nat],
         durable' = durable, results' \subseteq Observation, commits' \subseteq Observation,
         \A r \in results' \cup commits' : r.at \in DOMAIN log,
         reply' \in Modes \cup {"none"}, HolderHasAuthority'
  PROVE  IInv'
BY DEF IInv, TypeOK, LogHasMode, OpenedLog

\* The steps that record a boundary check.
LEMMA IInvCheck ==
  ASSUME IInv, log # <<>>, NEW e \in BoundaryEvent, Append1(e), open' = open, mono' = mono,
         tx' = Idle, ticket' \in [Tickets -> Ticket \cup {None}], sends' = sends,
         durable' \subseteq Tickets, results' = results, commits' = commits,
         reply' \in Modes \cup {"none"}
  PROVE  IInv'
<1>1. log' \in Seq(Event) /\ log' # <<>> /\ HasLast(log')
      /\ \A r \in results \cup commits : r.at \in DOMAIN log'
  BY AppendKeepsLog DEF Event
<1> QED
  BY <1>1 DEF IInv, TypeOK, LogHasMode, OpenedLog, HolderHasAuthority, Event, Idle, Transaction

-----------------------------------------------------------------------------
(* The operations on tickets keep the invariant. *)

LEMMA CheckedAtType ==
  ASSUME IInv, NEW q \in Ticket, NEW t \in Times
  PROVE  CheckedAt(q, t) \in Nat /\ LaterOf(NonRegressing(t, log), q.requestedAt) \in Nat
BY Clock DEF CheckedAt, LaterOf, Ticket

LEMMA IInvRequest ==
  ASSUME IInv, NEW p \in Processes, NEW k \in Tickets, NEW a \in AuthIds,
         NEW b \in Boundaries, NEW t \in Times, RequestAuthorization(p, k, a, b, t)
  PROVE  IInv'
<1> DEFINE q == RequestOf(p, a, b, t)
<1>1. open # {} /\ tx = Idle /\ log # <<>>
  BY DEF RequestAuthorization, Ready, IInv, OpenedLog
<1>2. q \in Ticket
  BY <1>1, OpenState, Clock, BoundsAssumption DEF RequestOf, Ticket, IInv, TypeOK
<1>3. CASE ticket' = [ticket EXCEPT ![k] = q] /\ UNCHANGED log
  <2>1. ticket' \in [Tickets -> Ticket \cup {None}]
    BY <1>2, <1>3 DEF IInv, TypeOK
  <2> QED
    BY <1>1, <1>3, <2>1, IInvSameLog
    DEF RequestAuthorization, observed, IInv, TypeOK, HolderHasAuthority
<1>4. CASE Append1(CheckEvent(q, State(log), q.requestedAt)) /\ UNCHANGED ticket
  <2>1. CheckEvent(q, State(log), q.requestedAt) \in BoundaryEvent
    BY <1>1, <1>2, OpenState, CheckEventType DEF Ticket
  <2> QED
    BY <1>1, <1>4, <2>1, IInvCheck DEF RequestAuthorization, observed, IInv, TypeOK
<1> QED
  BY <1>3, <1>4 DEF RequestAuthorization

LEMMA IInvClaimFails ==
  ASSUME IInv, NEW k \in Tickets, ClaimFails(k) \/ GuardFails(k)
  PROVE  IInv'
<1>1. ticket[k] \in Ticket
  BY HeldTicket DEF ClaimFails, GuardFails, Unclaimed, Unguarded
<1>2. /\ ticket' \in [Tickets -> Ticket \cup {None}]
      /\ \A j \in Tickets : ticket[j] \in Ticket =>
           ticket'[j] \in Ticket /\ AuthorityOf(ticket'[j]) = AuthorityOf(ticket[j])
  BY <1>1, ClaimKeeps DEF ClaimFails, GuardFails
<1>3. HolderHasAuthority'
  BY <1>2 DEF ClaimFails, GuardFails, HolderHasAuthority, IInv, Idle
<1> QED
  BY <1>2, <1>3, IInvSameLog DEF ClaimFails, GuardFails, observed, IInv, TypeOK

LEMMA IInvConsumePlain ==
  ASSUME IInv, NEW k \in Tickets, NEW t \in Times, ConsumePlain(k, t)
  PROVE  IInv'
<1>1. ticket[k] \in Ticket /\ open # {} /\ log # <<>> /\ tx = Idle
  BY HeldTicket DEF ConsumePlain, Unclaimed
<1>2. CheckEvent(ticket[k], State(log), CheckedAt(ticket[k], t)) \in BoundaryEvent
  BY <1>1, OpenState, CheckEventType, CheckedAtType
<1>3. ticket' \in [Tickets -> Ticket \cup {None}]
  BY <1>1, ClaimKeeps DEF ConsumePlain
<1> QED
  BY <1>1, <1>2, <1>3, IInvCheck DEF ConsumePlain, observed, IInv, TypeOK

LEMMA IInvDispatchCheck ==
  ASSUME IInv, NEW k \in Tickets, NEW t \in Times, DispatchCheck(k, t)
  PROVE  IInv'
<1> DEFINE e == CheckEvent(ticket[k], State(log), CheckedAt(ticket[k], t))
<1>1. ticket[k] \in Ticket /\ open # {} /\ log # <<>> /\ tx = Idle
  BY HeldTicket DEF DispatchCheck, Unclaimed
<1>2. e \in BoundaryEvent
  BY <1>1, OpenState, CheckEventType, CheckedAtType
<1>3. /\ ticket' \in [Tickets -> Ticket \cup {None}]
      /\ ticket'[k] \in Ticket /\ AuthorityOf(ticket'[k]) = AuthorityOf(ticket[k])
  BY <1>1, ClaimKeeps DEF DispatchCheck
<1>4. CASE e.reason = "ALLOWED"
  <2>1. tx' = Holding("dispatch", k, e) /\ log' = log
    BY <1>4 DEF DispatchCheck
  <2>2. BoundaryReason(ticket[k], State(log), CheckedAt(ticket[k], t)) = "ALLOWED"
    BY <1>4 DEF CheckEvent
  <2>3. AuthorityOf(ticket[k]) = State(log) /\ State(log).mode # "STOPPED"
    BY <1>1, <2>2, OpenState, AllowedIsCurrent
  <2>4. HolderHasAuthority' /\ tx' \in Transaction
    BY <1>1, <1>2, <1>3, <2>1, <2>3 DEF HolderHasAuthority, Holding, Transaction, State
  <2> QED
    BY <1>3, <2>1, <2>4, IInvSameLog DEF DispatchCheck, observed, IInv, TypeOK
<1>5. CASE e.reason # "ALLOWED"
  BY <1>1, <1>2, <1>3, <1>5, IInvCheck DEF DispatchCheck, observed, IInv, TypeOK
<1> QED
  BY <1>4, <1>5

-----------------------------------------------------------------------------
(* The holder of the lock, and the steps that only the environment takes. *)

LEMMA IInvDispatchSend ==
  ASSUME IInv, DispatchSend
  PROVE  IInv'
<1>1. tx # Idle /\ tx \in Transaction /\ sends \in [Tickets -> Nat]
      /\ tx' = [tx EXCEPT !.phase = "sent"] /\ sends' = [sends EXCEPT ![tx.ticket] = @ + 1]
  BY DEF DispatchSend, IInv, TypeOK, Idle
<1>2. tx' \in Transaction /\ tx'.kind = tx.kind /\ tx'.ticket = tx.ticket /\ tx'.event = tx.event
  BY <1>1 DEF Transaction
<1>3. tx.ticket \in Tickets
  BY <1>1 DEF IInv, HolderHasAuthority
<1>4. sends[tx.ticket] + 1 \in Nat
  BY <1>1, <1>3
<1>5. sends' \in [Tickets -> Nat]
  BY <1>1, <1>3, <1>4
<1>6. HolderHasAuthority'
  BY <1>1, <1>2 DEF DispatchSend, IInv, HolderHasAuthority, Idle
<1>7. UNCHANGED <<log, open, ticket, mono, durable, results, commits, reply>>
  BY DEF DispatchSend
<1> QED
  BY <1>2, <1>5, <1>6, <1>7, IInvSameLog DEF IInv, TypeOK

LEMMA IInvDispatchCommit ==
  ASSUME IInv, DispatchCommit
  PROVE  IInv'
<1>1. tx.event \in BoundaryEvent /\ tx.ticket \in Tickets /\ log # <<>>
  BY DEF DispatchCommit, IInv, HolderHasAuthority, Idle
<1> QED
  BY <1>1, IInvCheck DEF DispatchCommit, IInv, TypeOK

\* A ticket that takes the lock under the current authority.
LEMMA IInvTakesLock ==
  ASSUME IInv, NEW k \in Tickets, ticket[k] \in Ticket, log # <<>>,
         AuthorityOf(ticket[k]) = State(log), State(log).mode # "STOPPED",
         NEW kind \in {"complete", "commit"}, tx' = Holding(kind, k, None),
         \/ \E how \in {"unused", "receipted", "dispatched", "spent"} : Claimed(k, how)
         \/ Guarded(k),
         reply' = "none", UNCHANGED <<log, open, mono, observed>>
  PROVE  IInv'
<1>1. /\ ticket' \in [Tickets -> Ticket \cup {None}]
      /\ ticket'[k] \in Ticket /\ AuthorityOf(ticket'[k]) = AuthorityOf(ticket[k])
  BY ClaimKeeps
<1>2. tx' \in Transaction /\ HolderHasAuthority'
  BY <1>1 DEF HolderHasAuthority, Holding, Transaction, State
<1> QED
  BY <1>1, <1>2, IInvSameLog DEF observed, IInv, TypeOK

LEMMA IInvGuardCompletion ==
  ASSUME IInv, NEW k \in Tickets, GuardCompletion(k)
  PROVE  IInv'
<1>1. ticket[k] \in Ticket /\ open # {} /\ log # <<>>
  BY HeldTicket DEF GuardCompletion, Unguarded
<1>2. AuthorityOf(ticket[k]) = State(log) /\ State(log).mode # "STOPPED"
  BY <1>1, OpenState, AllowedIsCurrent DEF GuardCompletion
<1> QED
  BY <1>1, <1>2, IInvTakesLock DEF GuardCompletion

LEMMA IInvCommitBegin ==
  ASSUME IInv, NEW k \in Tickets, NEW t \in Times, CommitBegin(k, t)
  PROVE  IInv'
<1>1. ticket[k] \in Ticket /\ open # {} /\ log # <<>> /\ Claimed(k, "spent")
  BY HeldTicket DEF CommitBegin
<1>2. CASE FreshCommit(ticket[k], t)
  <2>1. AuthorityOf(ticket[k]) = State(log) /\ State(log).mode # "STOPPED"
    BY <1>1, <1>2, OpenState, AllowedIsCurrent DEF FreshCommit
  <2> QED
    BY <1>1, <1>2, <2>1, IInvTakesLock DEF CommitBegin
<1>3. CASE ~FreshCommit(ticket[k], t)
  <2>1. ticket' \in [Tickets -> Ticket \cup {None}]
    BY <1>1, ClaimKeeps
  <2>2. tx' = Idle
    BY <1>3 DEF CommitBegin
  <2> QED
    BY <2>1, <2>2, IInvSameLog
    DEF CommitBegin, observed, IInv, TypeOK, HolderHasAuthority, Idle, Transaction
<1> QED
  BY <1>2, <1>3

\* The steps of a lock holder that neither write the log nor touch a ticket.
LEMMA IInvHolderStep ==
  ASSUME IInv, UNCHANGED <<log, open, ticket, mono, sends, durable, reply>>,
         tx' = Idle \/ (tx # Idle /\ \E phase \in {"checked", "done"} :
                                       tx' = [tx EXCEPT !.phase = phase]),
         results' \subseteq Observation, commits' \subseteq Observation,
         \A r \in results' \cup commits' : r.at \in DOMAIN log
  PROVE  IInv'
<1>1. tx' \in Transaction /\ HolderHasAuthority'
  BY DEF IInv, TypeOK, HolderHasAuthority, Transaction, Idle
<1> QED
  BY <1>1, IInvSameLog DEF IInv, TypeOK

LEMMA HolderObserves ==
  ASSUME IInv, tx # Idle
  PROVE  [ticket |-> tx.ticket, at |-> Len(log)] \in Observation /\ Len(log) \in DOMAIN log
BY DEF IInv, TypeOK, HolderHasAuthority, Observation

LEMMA IInvHolder ==
  ASSUME IInv,
         \/ CompletionCheckpoint \/ CommitWrite \/ EndTransaction
         \/ \E t \in Times : CommitCheckpoint(t)
  PROVE  IInv'
<1>1. CASE CompletionCheckpoint
  BY <1>1, IInvHolderStep, HolderObserves
  DEF CompletionCheckpoint, IInv, TypeOK, Idle
<1>2. CASE CommitWrite
  BY <1>2, IInvHolderStep, HolderObserves DEF CommitWrite, IInv, TypeOK, Idle
<1>3. CASE EndTransaction
  BY <1>3, IInvHolderStep DEF EndTransaction, observed, IInv, TypeOK
<1>4. ASSUME NEW t \in Times, CommitCheckpoint(t) PROVE IInv'
  BY <1>4, IInvHolderStep DEF CommitCheckpoint, observed, IInv, TypeOK, Idle
<1> QED
  BY <1>1, <1>2, <1>3, <1>4

LEMMA IInvRetry ==
  ASSUME IInv, NEW p \in Processes, NEW r \in Ids, NEW mode, NEW revision,
         NEW to \in {"RESEARCH", "PROPOSE_ONLY"},
         RetryTransition(p, r, mode, revision, to) \/ RetryStop(p, r)
  PROVE  IInv'
<1>1. UNCHANGED <<log, open, ticket, mono, tx, observed>> /\ reply' \in Modes
  BY DEF RetryTransition, RetryStop, Modes
<1> QED
  BY <1>1, IInvSameLog DEF observed, IInv, TypeOK, HolderHasAuthority

LEMMA IInvExit ==
  ASSUME IInv, NEW p \in Processes, Exit(p)
  PROVE  IInv'
<1>1. tx' = Idle \/ tx' = tx
  BY DEF Exit
<1>2. tx' \in Transaction /\ HolderHasAuthority'
  BY <1>1 DEF Exit, IInv, TypeOK, HolderHasAuthority, Transaction, Idle
<1> QED
  BY <1>2, IInvSameLog DEF Exit, observed, IInv, TypeOK

LEMMA IInvTick ==
  ASSUME IInv, Tick
  PROVE  IInv'
BY IInvSameLog DEF Tick, observed, IInv, TypeOK, HolderHasAuthority

LEMMA IInvStutter ==
  ASSUME IInv, UNCHANGED vars
  PROVE  IInv'
BY IInvSameLog DEF vars, IInv, TypeOK, HolderHasAuthority

LEMMA NextIInv == IInv /\ [Next]_vars => IInv'
<1> SUFFICES ASSUME IInv, [Next]_vars PROVE IInv'
  OBVIOUS
<1>1. ASSUME NEW p \in Processes, NEW t \in Times, Open(p, t) PROVE IInv'
  BY <1>1, IInvOpen
<1>2. ASSUME NEW p \in Processes, NEW r \in Ids, NEW n \in Snapshots,
             NEW to \in {"RESEARCH", "PROPOSE_ONLY"},
             \/ \E t \in Times : Transition(p, r, n.mode, n.revision, to, t)
             \/ RetryTransition(p, r, n.mode, n.revision, to)
      PROVE  IInv'
  BY <1>2, IInvTransition, IInvRetry
<1>3. ASSUME NEW p \in Processes, NEW r \in Ids,
             (\E t \in Times : Stop(p, r, t)) \/ RetryStop(p, r)
      PROVE  IInv'
  BY <1>3, IInvStop, IInvRetry
<1>4. ASSUME NEW p \in Processes, NEW k \in Tickets, NEW a \in AuthIds,
             NEW b \in Boundaries, NEW t \in Times, RequestAuthorization(p, k, a, b, t)
      PROVE  IInv'
  BY <1>4, IInvRequest
<1>5. ASSUME NEW k \in Tickets, ClaimFails(k) \/ GuardCompletion(k) \/ GuardFails(k)
      PROVE  IInv'
  BY <1>5, IInvClaimFails, IInvGuardCompletion
<1>6. ASSUME NEW k \in Tickets, NEW t \in Times,
             ConsumePlain(k, t) \/ DispatchCheck(k, t) \/ CommitBegin(k, t)
      PROVE  IInv'
  BY <1>6, IInvConsumePlain, IInvDispatchCheck, IInvCommitBegin
<1>7. CASE DispatchSend \/ DispatchCommit
  BY <1>7, IInvDispatchSend, IInvDispatchCommit
<1>8. CASE \/ CompletionCheckpoint \/ CommitWrite \/ EndTransaction
           \/ \E t \in Times : CommitCheckpoint(t)
  BY <1>8, IInvHolder
<1>9. ASSUME NEW p \in Processes, Exit(p) PROVE IInv'
  BY <1>9, IInvExit
<1>10. CASE Tick \/ UNCHANGED vars
  BY <1>10, IInvTick, IInvStutter
<1> QED
  BY <1>1, <1>2, <1>3, <1>4, <1>5, <1>6, <1>7, <1>8, <1>9, <1>10 DEF Next

-----------------------------------------------------------------------------
(* What every step does to the log and to the tickets. *)

LEMMA AppendFacts ==
  ASSUME NEW l \in Seq(Event), NEW e \in Event
  PROVE  /\ Append(l, e) \in Seq(Event) /\ Append(l, e)[Len(l) + 1] = e
         /\ DOMAIN Append(l, e) = DOMAIN l \cup {Len(l) + 1}
         /\ Len(Append(l, e)) = Len(l) + 1
         /\ \A i \in DOMAIN l : Append(l, e)[i] = l[i] /\ Before(Append(l, e), i) = Before(l, i)
         /\ \A i \in DOMAIN l : SubSeq(Append(l, e), 1, i) = SubSeq(l, 1, i)
         /\ Before(Append(l, e), Len(l) + 1) = l
<1>1. /\ Append(l, e) \in Seq(Event) /\ Append(l, e)[Len(l) + 1] = e
      /\ DOMAIN Append(l, e) = DOMAIN l \cup {Len(l) + 1}
      /\ Len(Append(l, e)) = Len(l) + 1
      /\ \A i \in DOMAIN l : Append(l, e)[i] = l[i]
  OBVIOUS
<1>2. \A i \in DOMAIN l : Before(Append(l, e), i) = Before(l, i)
  BY <1>1 DEF Before
<1>3. \A i \in DOMAIN l : SubSeq(Append(l, e), 1, i) = SubSeq(l, 1, i)
  BY <1>1
<1>4. Before(Append(l, e), Len(l) + 1) = l
  BY <1>1 DEF Before
<1> QED
  BY <1>1, <1>2, <1>3, <1>4

\* r is the ticket q later on: what it asks for stays, and offering it is terminal.
Advances(q, r) ==
  /\ r.auth = q.auth /\ AuthorityOf(r) = AuthorityOf(q)
  /\ r.requestedAt = q.requestedAt /\ r.expiresAt = q.expiresAt
  /\ q.guarded => r.guarded
  /\ q.claim \in {"dispatched", "spent"} => r.claim = q.claim

LEMMA ClaimAdvances ==
  ASSUME IInv, NEW k \in Tickets, ticket[k] \in Ticket,
         \/ \E how \in {"unused", "receipted", "dispatched", "spent"} :
              Claimed(k, how) /\ ticket[k].claim \notin {"dispatched", "spent"}
         \/ Guarded(k)
  PROVE  \A j \in Tickets : Issued(j) => ticket'[j] \in Ticket /\ Advances(ticket[j], ticket'[j])
<1>1. ticket \in [Tickets -> Ticket \cup {None}]
  BY DEF IInv, TypeOK
<1>2. PICK q \in Ticket : ticket' = [ticket EXCEPT ![k] = q] /\ Advances(ticket[k], q)
  <2>1. CASE Guarded(k)
    <3> DEFINE q == [ticket[k] EXCEPT !.guarded = TRUE]
    <3>1. q \in Ticket /\ Advances(ticket[k], q)
      BY DEF Ticket, AuthorityOf, Advances
    <3>2. ticket' = [ticket EXCEPT ![k] = q]
      BY <2>1 DEF Guarded
    <3> QED
      BY <3>1, <3>2
  <2>2. ASSUME NEW how \in {"unused", "receipted", "dispatched", "spent"}, Claimed(k, how),
               ticket[k].claim \notin {"dispatched", "spent"}
        PROVE  \E q \in Ticket : ticket' = [ticket EXCEPT ![k] = q] /\ Advances(ticket[k], q)
    <3> DEFINE q == [ticket[k] EXCEPT !.claim = how]
    <3>1. q \in Ticket /\ Advances(ticket[k], q)
      BY <2>2 DEF Ticket, AuthorityOf, Advances
    <3>2. ticket' = [ticket EXCEPT ![k] = q]
      BY <2>2 DEF Claimed
    <3> QED
      BY <3>1, <3>2
  <2> QED
    BY <2>1, <2>2
<1>3. \A j \in Tickets : Issued(j) => ticket[j] \in Ticket /\ Advances(ticket[j], ticket[j])
  BY <1>1 DEF Issued, Advances
<1> QED
  BY <1>1, <1>2, <1>3

\* Every step but those of ClaimAdvances leaves what was issued alone.
LEMMA TicketsAdvance ==
  ASSUME IInv, [Next]_vars
  PROVE  \A j \in Tickets : Issued(j) => ticket'[j] \in Ticket /\ Advances(ticket[j], ticket'[j])
<1>1. \A j \in Tickets : Issued(j) => ticket[j] \in Ticket /\ Advances(ticket[j], ticket[j])
  BY DEF Issued, Advances, IInv, TypeOK
<1>2. ASSUME NEW p \in Processes, NEW k \in Tickets, NEW a \in AuthIds, NEW b \in Boundaries,
             NEW t \in Times, RequestAuthorization(p, k, a, b, t)
      PROVE  \A j \in Tickets : Issued(j) => ticket'[j] = ticket[j]
  BY <1>2 DEF RequestAuthorization, Issued, IInv, TypeOK
<1>3. ASSUME NEW k \in Tickets, ClaimFails(k) \/ GuardCompletion(k) \/ GuardFails(k)
      PROVE  \A j \in Tickets : Issued(j) => ticket'[j] \in Ticket /\ Advances(ticket[j], ticket'[j])
  BY <1>3, HeldTicket, ClaimAdvances
  DEF ClaimFails, GuardCompletion, GuardFails, Unclaimed, Unguarded
<1>4. ASSUME NEW k \in Tickets, NEW t \in Times,
             ConsumePlain(k, t) \/ DispatchCheck(k, t) \/ CommitBegin(k, t)
      PROVE  \A j \in Tickets : Issued(j) => ticket'[j] \in Ticket /\ Advances(ticket[j], ticket'[j])
  BY <1>4, HeldTicket, ClaimAdvances DEF ConsumePlain, DispatchCheck, CommitBegin, Unclaimed
<1>5. \/ \E p \in Processes, k \in Tickets, a \in AuthIds, b \in Boundaries, t \in Times :
           RequestAuthorization(p, k, a, b, t)
      \/ \E k \in Tickets : ClaimFails(k) \/ GuardCompletion(k) \/ GuardFails(k)
      \/ \E k \in Tickets, t \in Times : ConsumePlain(k, t) \/ DispatchCheck(k, t) \/ CommitBegin(k, t)
      \/ ticket' = ticket
  BY DEF Next, vars, Open, Transition, RetryTransition, Stop, RetryStop, DispatchSend, DispatchCommit,
     CompletionCheckpoint, CommitCheckpoint, CommitWrite, EndTransaction, Exit, Tick
<1> QED
  BY <1>1, <1>2, <1>3, <1>4, <1>5

-----------------------------------------------------------------------------
(* Every log replays. *)

\* What replaying Append(l, e) asks of e beyond what replaying l asks.
LEMMA ReplaysAppend ==
  ASSUME NEW l \in Seq(Event), NEW e \in Event, Replays(l), LastAuditAt(l) <= e.at,
         IF e.type = "boundary" THEN BoundaryEventReplays(Append(l, e), Len(l) + 1)
                                ELSE ModeEventReplays(Append(l, e), Len(l) + 1)
  PROVE  Replays(Append(l, e))
<1> DEFINE m == Append(l, e)
<1>1. DOMAIN m = DOMAIN l \cup {Len(l) + 1} /\ m[Len(l) + 1] = e /\ Before(m, Len(l) + 1) = l
  BY AppendFacts
<1>2. ASSUME NEW i \in DOMAIN l
      PROVE  /\ LastAuditAt(Before(m, i)) <= m[i].at
             /\ IF m[i].type = "boundary" THEN BoundaryEventReplays(m, i) ELSE ModeEventReplays(m, i)
  <2>1. m[i] = l[i] /\ Before(m, i) = Before(l, i)
    BY AppendFacts
  <2>2. /\ LastAuditAt(Before(l, i)) <= l[i].at
        /\ IF l[i].type = "boundary" THEN BoundaryEventReplays(l, i) ELSE ModeEventReplays(l, i)
    BY DEF Replays
  <2>3. BoundaryEventReplays(l, i) => BoundaryEventReplays(m, i)
    BY <2>1 DEF BoundaryEventReplays
  <2>4. ModeEventReplays(l, i) => ModeEventReplays(m, i)
    BY <2>1 DEF ModeEventReplays
  <2> HIDE DEF m
  <2> QED
    BY <2>1, <2>2, <2>3, <2>4
<1> HIDE DEF m
<1> QED
  BY <1>1, <1>2 DEF Replays, m

\* A request lasts as long as its grant says, and the check that a lock holder has
\* decided but not recorded can still be recorded.
Lasting == \A k \in Tickets : Issued(k) => ticket[k].expiresAt = ticket[k].requestedAt + TTL
HeldEventReplays == tx.kind = "dispatch" => Replays(Append(log, tx.event))
LogInv == LogReplays /\ Lasting /\ HeldEventReplays

LEMMA ModeReplays ==
  ASSUME IInv, LogReplays, NEW e \in ModeEvent, LastAuditAt(log) <= e.at,
         ~RequestUsed(log, e.request),
         e.from = State(log).mode, e.previous = State(log).revision, e.revision = State(log).revision + 1,
         e.type = "startup" => e.request = e.process,
         e.type # "startup" => State(log).mode # "null" /\ e.process = State(log).process,
         e.type = "transition" => TransitionAllowed(State(log).mode, e.to)
  PROVE  Replays(Append(log, e))
<1>1. log \in Seq(Event) /\ e \in Event /\ e.type # "boundary"
  BY EventTypes DEF IInv, TypeOK, Event
<1>2. Append(log, e)[Len(log) + 1] = e /\ Before(Append(log, e), Len(log) + 1) = log
  BY <1>1, AppendFacts
<1>3. ModeEventReplays(Append(log, e), Len(log) + 1)
  BY <1>2 DEF ModeEventReplays
<1> QED
  BY <1>1, <1>3, ReplaysAppend DEF LogReplays

\* What a request asked for, checked now or later, can be recorded.
LEMMA CheckReplays ==
  ASSUME IInv, LogReplays, log # <<>>, NEW q \in Ticket, NEW c \in Nat, ~AuthChecked(log, q.auth),
         q.expiresAt = q.requestedAt + TTL, q.requestedAt <= c, LastAuditAt(log) <= c
  PROVE  Replays(Append(log, CheckEvent(q, State(log), c)))
<1> DEFINE e == CheckEvent(q, State(log), c)
<1>1. log \in Seq(Event) /\ State(log).mode # "null"
      /\ State(log) \in [mode : Modes, revision : Nat, process : Processes]
  BY StateType DEF IInv, TypeOK, Event, LogHasMode
<1>2. e \in BoundaryEvent /\ e \in Event
  BY <1>1, CheckEventType DEF Event
<1>3. /\ e.type = "boundary" /\ e.at = c /\ e.auth = q.auth /\ e.boundary = q.boundary
      /\ e.requestedAt = q.requestedAt /\ e.expiresAt = q.expiresAt
      /\ e.mode = q.mode /\ e.revision = q.revision /\ e.process = q.process
      /\ e.checkedMode = State(log).mode /\ e.checkedRevision = State(log).revision
      /\ e.checkedProcess = State(log).process /\ e.reason = BoundaryReason(q, State(log), c)
  BY DEF CheckEvent
<1>4. BoundaryReason(e, State(log), c) = BoundaryReason(q, State(log), c)
  BY <1>3 DEF BoundaryReason, StandingReason
<1> HIDE DEF e
<1>5. Append(log, e)[Len(log) + 1] = e /\ Before(Append(log, e), Len(log) + 1) = log
  BY <1>1, <1>2, AppendFacts
<1>6. BoundaryEventReplays(Append(log, e), Len(log) + 1)
  BY <1>1, <1>3, <1>4, <1>5 DEF BoundaryEventReplays
<1> QED
  BY <1>1, <1>2, <1>3, <1>6, ReplaysAppend DEF LogReplays, e

LEMMA AuditTimes ==
  ASSUME IInv, NEW t \in Times
  PROVE  /\ LastAuditAt(log) \in Nat /\ LastAuditAt(log) <= NonRegressing(t, log)
         /\ \A q \in Ticket : q.requestedAt <= CheckedAt(q, t) /\ LastAuditAt(log) <= CheckedAt(q, t)
<1>1. log \in Seq(Event) /\ t \in Nat
  BY BoundsAssumption DEF IInv, TypeOK, Event, Times
<1>2. LastAuditAt(log) \in Nat
  BY <1>1 DEF LastAuditAt, Event, ModeEvent, BoundaryEvent
<1>3. LastAuditAt(log) <= NonRegressing(t, log) /\ NonRegressing(t, log) \in Nat
  BY <1>1, <1>2 DEF NonRegressing, LaterOf
<1>4. ASSUME NEW q \in Ticket
      PROVE  q.requestedAt <= CheckedAt(q, t) /\ LastAuditAt(log) <= CheckedAt(q, t)
  <2>1. q.requestedAt \in Nat /\ q.expiresAt \in Nat
    BY DEF Ticket
  <2> QED
    BY <1>2, <1>3, <2>1 DEF CheckedAt, LaterOf
<1> QED
  BY <1>2, <1>3, <1>4

\* The three steps that move the mode.
ModeStep(p, t) ==
  \/ Open(p, t)
  \/ \E r \in Ids : Stop(p, r, t)
  \/ \E r \in Ids, n \in Snapshots, to \in {"RESEARCH", "PROPOSE_ONLY"} :
       Transition(p, r, n.mode, n.revision, to, t)

LEMMA ModeStepsReplay ==
  ASSUME IInv, LogReplays, NEW p \in Processes, NEW t \in Times, ModeStep(p, t)
  PROVE  \E e \in ModeEvent : log' = Append(log, e) /\ Replays(Append(log, e))
<1>1. CASE Open(p, t)
  <2> DEFINE e == StopEvent("startup", State(log), p, p, NonRegressing(t, log))
  <2>1. State(log).mode \in Modes \cup {"null"} /\ State(log).revision \in Nat
    BY EmptyState, StateType DEF IInv, TypeOK, LogHasMode, Event
  <2>2. e \in ModeEvent
    BY <2>1, Clock DEF StopEvent, ModeEvent, Modes, Ids
  <2>3. log' = Append(log, e) /\ ~RequestUsed(log, p)
    BY <1>1 DEF Open, Append1
  <2>4. Replays(Append(log, e))
    BY <2>2, <2>3, AuditTimes, ModeReplays DEF StopEvent
  <2> QED
    BY <2>2, <2>3, <2>4
<1>2. ASSUME NEW r \in Ids, Stop(p, r, t)
      PROVE  \E e \in ModeEvent : log' = Append(log, e) /\ Replays(Append(log, e))
  <2> DEFINE e == StopEvent("stop", State(log), State(log).process, r, NonRegressing(t, log))
  <2>1. State(log) \in [mode : Modes, revision : Nat, process : Processes] /\ State(log).mode # "null"
    BY <1>2, OpenState, StateType DEF Stop, Ready, IInv, TypeOK, Event
  <2>2. e \in ModeEvent
    BY <2>1, Clock DEF StopEvent, ModeEvent, Modes
  <2>3. log' = Append(log, e) /\ ~RequestUsed(log, r)
    BY <1>2 DEF Stop, Append1
  <2>4. Replays(Append(log, e))
    BY <2>1, <2>2, <2>3, AuditTimes, ModeReplays DEF StopEvent
  <2> QED
    BY <2>2, <2>3, <2>4
<1>3. ASSUME NEW r \in Ids, NEW n \in Snapshots, NEW to \in {"RESEARCH", "PROPOSE_ONLY"},
             Transition(p, r, n.mode, n.revision, to, t)
      PROVE  \E e \in ModeEvent : log' = Append(log, e) /\ Replays(Append(log, e))
  <2> DEFINE e == TransitionEvent(State(log), to, r, t)
  <2>1. State(log) \in [mode : Modes, revision : Nat, process : Processes] /\ State(log).mode # "null"
    BY <1>3, OpenState, StateType DEF Transition, Ready, IInv, TypeOK, Event
  <2>2. e \in ModeEvent
    BY <2>1, Clock DEF TransitionEvent, ModeEvent, Modes
  <2>3. log' = Append(log, e) /\ ~RequestUsed(log, r) /\ LastAuditAt(log) <= t
        /\ TransitionAllowed(State(log).mode, to)
    BY <1>3 DEF Transition, Append1
  <2>4. Replays(Append(log, e))
    BY <2>1, <2>2, <2>3, ModeReplays DEF TransitionEvent
  <2> QED
    BY <2>2, <2>3, <2>4
<1> QED
  BY <1>1, <1>2, <1>3 DEF ModeStep

\* A check is recorded that allows no network access.
RecordsCheck ==
  \E e \in BoundaryEvent : /\ log' = Append(log, e) /\ tx = Idle /\ tx' = Idle
                           /\ e.reason # "ALLOWED" \/ e.boundary \notin NetworkBoundaries

\* The steps that check a request.
LEMMA CheckStepsReplay ==
  ASSUME IInv, LogInv, NEW k \in Tickets, NEW t \in Times,
         \/ ConsumePlain(k, t) \/ DispatchCheck(k, t)
         \/ \E p \in Processes, a \in AuthIds, b \in Boundaries : RequestAuthorization(p, k, a, b, t)
  PROVE  LogInv' /\ (log' = log \/ RecordsCheck)
<1>1. CASE ConsumePlain(k, t) \/ DispatchCheck(k, t)
  <2> DEFINE e == CheckEvent(ticket[k], State(log), CheckedAt(ticket[k], t))
  <2>1. ticket[k] \in Ticket /\ log # <<>> /\ tx = Idle /\ ~AuthChecked(log, ticket[k].auth)
    BY <1>1, HeldTicket DEF ConsumePlain, DispatchCheck, Unclaimed
  <2>2. ticket[k].expiresAt = ticket[k].requestedAt + TTL
    BY <1>1 DEF LogInv, Lasting, ConsumePlain, DispatchCheck, Unclaimed, Held
  <2>3. CheckedAt(ticket[k], t) \in Nat
    BY <2>1, CheckedAtType
  <2>4. Replays(Append(log, e))
    BY <2>1, <2>2, <2>3, AuditTimes, CheckReplays DEF LogInv
  <2>5. \A j \in Tickets : /\ ticket'[j] # None => ticket[j] # None
                           /\ Issued(j) => Advances(ticket[j], ticket'[j])
    <3>1. \A j \in Tickets : Issued(j) => Advances(ticket[j], ticket'[j])
      BY <1>1, <2>1, ClaimAdvances DEF ConsumePlain, DispatchCheck, Unclaimed
    <3>2. ticket \in [Tickets -> Ticket \cup {None}] /\ ticket[k] # None
      BY <1>1 DEF IInv, TypeOK, ConsumePlain, DispatchCheck, Unclaimed, Held, Issued
    <3>3. \E how : Claimed(k, how)
      BY <1>1 DEF ConsumePlain, DispatchCheck
    <3> QED
      BY <3>1, <3>2, <3>3 DEF Claimed
  <2>6. Lasting'
    BY <2>5 DEF LogInv, Lasting, Issued, Advances
  <2>7. \/ log' = Append(log, e) /\ tx' = Idle
        \/ log' = log /\ tx' = Holding("dispatch", k, e)
    BY <1>1, <2>1 DEF ConsumePlain, DispatchCheck, Append1
  <2>e. e \in BoundaryEvent /\ e.boundary = ticket[k].boundary
    <3>1. open # {}
      BY <1>1, HeldTicket DEF ConsumePlain, DispatchCheck, Unclaimed
    <3> QED
      BY <2>1, <2>3, <3>1, OpenState, CheckEventType DEF CheckEvent
  <2>r. log' = log \/ RecordsCheck
    <3>1. CASE ConsumePlain(k, t)
      <4>1. log' = Append(log, e) /\ tx' = tx
        BY <3>1 DEF ConsumePlain, Append1
      <4>2. ticket[k].boundary \notin NetworkBoundaries
        BY <3>1 DEF ConsumePlain, Unclaimed, Held, PlainBoundaries, LocalCommitBoundaries, NetworkBoundaries
      <4> HIDE DEF e
      <4> QED
        BY <2>1, <2>e, <4>1, <4>2 DEF RecordsCheck
    <3>2. CASE DispatchCheck(k, t)
      <4>1. log' = log \/ (log' = Append(log, e) /\ tx' = tx /\ e.reason # "ALLOWED")
        BY <3>2 DEF DispatchCheck, Append1
      <4> HIDE DEF e
      <4> QED
        BY <2>1, <2>e, <4>1 DEF RecordsCheck
    <3> QED
      BY <1>1, <3>1, <3>2
  <2> HIDE DEF e
  <2>8. CASE log' = Append(log, e) /\ tx' = Idle
    BY <2>r, <2>4, <2>6, <2>8 DEF LogInv, LogReplays, HeldEventReplays, Idle
  <2>9. CASE log' = log /\ tx' = Holding("dispatch", k, e)
    <3>1. tx'.event = e
      BY <2>9 DEF Holding
    <3>2. Replays(Append(log', tx'.event))
      BY <2>4, <2>9, <3>1
    <3> QED
      BY <2>r, <2>6, <2>9, <3>2 DEF LogInv, LogReplays, HeldEventReplays
  <2> QED
    BY <2>r, <2>7, <2>8, <2>9
<1>2. ASSUME NEW p \in Processes, NEW a \in AuthIds, NEW b \in Boundaries,
             RequestAuthorization(p, k, a, b, t)
      PROVE  LogInv' /\ (log' = log \/ RecordsCheck)
  <2> DEFINE q == RequestOf(p, a, b, t)
             e == CheckEvent(q, State(log), q.requestedAt)
  <2>1. open # {} /\ tx = Idle /\ log # <<>> /\ tx' = tx
    BY <1>2 DEF RequestAuthorization, Ready, IInv, OpenedLog
  <2>2. q \in Ticket
    BY <2>1, OpenState, Clock, BoundsAssumption DEF RequestOf, Ticket, IInv, TypeOK
  <2>3. q.auth = a /\ q.requestedAt = NonRegressing(t, log) /\ q.expiresAt = NonRegressing(t, log) + TTL
    BY DEF RequestOf
  <2>4. ~AuthChecked(log, a) /\ ~Issued(k)
    BY <1>2 DEF RequestAuthorization
  <2>5. \/ ticket' = [ticket EXCEPT ![k] = q] /\ log' = log
        \/ ticket' = ticket /\ log' = Append(log, e) /\ e.reason # "ALLOWED"
    BY <1>2 DEF RequestAuthorization, Append1, CheckEvent
  <2>e. e \in BoundaryEvent
    BY <2>1, <2>2, OpenState, CheckEventType DEF Ticket
  <2> HIDE DEF q
  <2>6. Replays(Append(log, e))
    BY <2>1, <2>2, <2>3, <2>4, Clock, AuditTimes, CheckReplays DEF LogInv
  <2>7. Lasting'
    BY <2>3, <2>5 DEF LogInv, Lasting, Issued, IInv, TypeOK
  <2> QED
    BY <2>1, <2>5, <2>e, <2>6, <2>7 DEF LogInv, LogReplays, HeldEventReplays, RecordsCheck, Idle
<1> QED
  BY <1>1, <1>2

LEMMA NextLogInv ==
  ASSUME IInv, LogInv, [Next]_vars
  PROVE  LogInv'
<1>1. CASE log' = log /\ ticket' = ticket /\ (tx' = tx \/ (tx'.kind = tx.kind /\ tx'.event = tx.event) \/ tx'.kind # "dispatch")
  BY <1>1 DEF LogInv, LogReplays, Lasting, Issued, HeldEventReplays
<1>2. CASE DispatchCommit
  BY <1>2 DEF DispatchCommit, Append1, LogInv, LogReplays, Lasting, Issued, HeldEventReplays, Idle
<1>3. ASSUME NEW k \in Tickets, \/ ClaimFails(k) \/ GuardFails(k) \/ GuardCompletion(k)
                                \/ \E t \in Times : CommitBegin(k, t)
      PROVE  LogInv'
  <2>1. /\ log' = log /\ ticket[k] \in Ticket /\ ticket \in [Tickets -> Ticket \cup {None}]
        /\ tx' = tx \/ tx'.kind # "dispatch"
    BY <1>3, HeldTicket DEF ClaimFails, GuardFails, GuardCompletion, CommitBegin, Unclaimed, Unguarded,
       Holding, Idle, IInv, TypeOK
  <2>2. \A j \in Tickets : /\ ticket'[j] # None => ticket[j] # None
                           /\ ticket[j] # None => Advances(ticket[j], ticket'[j])
    BY <1>3, <2>1, TicketsAdvance DEF ClaimFails, GuardFails, GuardCompletion, CommitBegin, Claimed, Guarded,
       Unclaimed, Unguarded, Held, Issued
  <2> QED
    BY <2>1, <2>2 DEF LogInv, LogReplays, Lasting, Issued, HeldEventReplays, Advances
<1>4. ASSUME NEW p \in Processes, NEW t \in Times, ModeStep(p, t)
      PROVE  LogInv'
  <2>1. tx = Idle /\ tx' = Idle /\ ticket' = ticket
    BY <1>4 DEF ModeStep, Open, Stop, Transition, Ready
  <2>2. LogReplays'
    BY <1>4, ModeStepsReplay DEF LogInv, LogReplays
  <2> QED
    BY <2>1, <2>2 DEF LogInv, Lasting, Issued, HeldEventReplays, Idle
<1>5. CASE \/ \E p \in Processes, r \in Ids, n \in Snapshots, to \in {"RESEARCH", "PROPOSE_ONLY"} :
                RetryTransition(p, r, n.mode, n.revision, to)
           \/ \E p \in Processes, r \in Ids : RetryStop(p, r)
           \/ DispatchSend \/ CompletionCheckpoint \/ CommitWrite \/ EndTransaction
           \/ \E t \in Times : CommitCheckpoint(t)
           \/ \E p \in Processes : Exit(p)
           \/ Tick \/ UNCHANGED vars
  <2>1. tx \in Transaction
    BY DEF IInv, TypeOK
  <2>2. log' = log /\ ticket' = ticket
    BY <1>5 DEF vars, observed, RetryTransition, RetryStop, DispatchSend, CompletionCheckpoint, CommitCheckpoint,
       CommitWrite, EndTransaction, Exit, Tick
  <2>3. tx' = tx \/ tx' = Idle \/ \E phase : tx' = [tx EXCEPT !.phase = phase]
    BY <1>5 DEF vars, observed, RetryTransition, RetryStop, DispatchSend, CompletionCheckpoint, CommitCheckpoint,
       CommitWrite, EndTransaction, Exit, Tick
  <2> QED
    BY <1>1, <2>1, <2>2, <2>3 DEF Transaction, Idle
<1> QED
  BY <1>2, <1>3, <1>4, <1>5, CheckStepsReplay DEF Next, ModeStep

-----------------------------------------------------------------------------
(* Which steps move what. *)

\* Every event of the log was appended by one of these steps.
LEMMA LogSteps ==
  ASSUME IInv, LogInv, [Next]_vars
  PROVE  \/ log' = log
         \/ RecordsCheck
         \/ DispatchCommit
         \/ \E p \in Processes, t \in Times : ModeStep(p, t)
<1>1. ASSUME NEW k \in Tickets, NEW t \in Times,
             \/ ConsumePlain(k, t) \/ DispatchCheck(k, t)
             \/ \E p \in Processes, a \in AuthIds, b \in Boundaries : RequestAuthorization(p, k, a, b, t)
      PROVE  log' = log \/ RecordsCheck
  BY <1>1, CheckStepsReplay
<1>2. ASSUME NEW k \in Tickets, \/ ClaimFails(k) \/ GuardFails(k) \/ GuardCompletion(k)
                                \/ \E t \in Times : CommitBegin(k, t)
      PROVE  log' = log
  BY <1>2 DEF ClaimFails, GuardFails, GuardCompletion, CommitBegin
<1>3. CASE \/ \E p \in Processes, r \in Ids, n \in Snapshots, to \in {"RESEARCH", "PROPOSE_ONLY"} :
                RetryTransition(p, r, n.mode, n.revision, to)
           \/ \E p \in Processes, r \in Ids : RetryStop(p, r)
           \/ DispatchSend \/ CompletionCheckpoint \/ CommitWrite \/ EndTransaction
           \/ \E t \in Times : CommitCheckpoint(t)
           \/ \E p \in Processes : Exit(p)
           \/ Tick \/ UNCHANGED vars
  BY <1>3 DEF vars, RetryTransition, RetryStop, DispatchSend, CompletionCheckpoint, CommitCheckpoint,
     CommitWrite, EndTransaction, Exit, Tick
<1> QED
  BY <1>1, <1>2, <1>3 DEF Next, ModeStep

\* No step rewrites the log.
LEMMA LogGrows ==
  ASSUME IInv, LogInv, [Next]_vars
  PROVE  log' = log \/ \E e \in Event : log' = Append(log, e)
<1>1. DispatchCommit => tx.event \in Event /\ log' = Append(log, tx.event)
  BY DEF DispatchCommit, Append1, IInv, HolderHasAuthority, Event, Idle
<1>2. RecordsCheck => \E e \in Event : log' = Append(log, e)
  BY DEF RecordsCheck, Event
<1>3. ASSUME NEW p \in Processes, NEW t \in Times, ModeStep(p, t)
      PROVE  \E e \in Event : log' = Append(log, e)
  <2>1. PICK e \in ModeEvent : log' = Append(log, e)
    BY <1>3, ModeStepsReplay DEF LogInv
  <2> QED
    BY <2>1 DEF Event
<1> QED
  BY <1>1, <1>2, <1>3, LogSteps

LEMMA LogKeeps ==
  ASSUME IInv, LogInv, [Next]_vars, NEW n \in DOMAIN log
  PROVE  n \in DOMAIN log' /\ log'[n] = log[n] /\ SubSeq(log', 1, n) = SubSeq(log, 1, n)
<1>1. log \in Seq(Event)
  BY DEF IInv, TypeOK, Event
<1> QED
  BY <1>1, LogGrows, AppendFacts

\* Each observation is made by one step.
LEMMA ObservingSteps ==
  ASSUME [Next]_vars
  PROVE  /\ sends' = sends \/ DispatchSend
         /\ durable' = durable \/ DispatchCommit
         /\ results' = results \/ CompletionCheckpoint
         /\ commits' = commits \/ CommitWrite
BY DEF Next, vars, observed, Open, Transition, RetryTransition, Stop, RetryStop,
   RequestAuthorization, ClaimFails, GuardCompletion, GuardFails, ConsumePlain,
   DispatchCheck, DispatchSend, DispatchCommit, CommitBegin, CompletionCheckpoint, CommitCheckpoint,
   CommitWrite, EndTransaction, Exit, Tick

\* The steps that take the lock, or move its holder on.
LEMMA HolderSteps ==
  ASSUME [Next]_vars
  PROVE  \/ tx' = tx \/ tx' = Idle
         \/ DispatchSend \/ CompletionCheckpoint \/ CommitWrite
         \/ \E t \in Times : CommitCheckpoint(t)
         \/ \E k \in Tickets : GuardCompletion(k)
         \/ \E k \in Tickets, t \in Times : DispatchCheck(k, t) \/ CommitBegin(k, t)
BY DEF Next, vars, Open, Transition, RetryTransition, Stop, RetryStop,
   RequestAuthorization, ClaimFails, GuardFails, ConsumePlain, DispatchCommit, EndTransaction, Exit, Tick

\* The steps that change what a ticket is good for.
LEMMA ClaimSteps ==
  ASSUME [Next]_vars, NEW k \in Tickets, ticket'[k] # ticket[k], IInv
  PROVE  \/ ~Issued(k) /\ ticket'[k].claim = "unused"
         \/ Issued(k) /\ ticket'[k].claim = ticket[k].claim
         \/ ClaimFails(k)
         \/ \E t \in Times : ConsumePlain(k, t) \/ DispatchCheck(k, t) \/ CommitBegin(k, t)
<1>1. ticket \in [Tickets -> Ticket \cup {None}]
  BY DEF IInv, TypeOK
<1>2. ASSUME NEW p \in Processes, NEW j \in Tickets, NEW a \in AuthIds, NEW b \in Boundaries,
             NEW t \in Times, RequestAuthorization(p, j, a, b, t)
      PROVE  ~Issued(k) /\ ticket'[k].claim = "unused"
  BY <1>1, <1>2 DEF RequestAuthorization, RequestOf
<1>3. ASSUME NEW j \in Tickets, ClaimFails(j) PROVE j = k
  BY <1>1, <1>3 DEF ClaimFails, Claimed
<1>4. ASSUME NEW j \in Tickets, GuardCompletion(j) \/ GuardFails(j)
      PROVE  Issued(k) /\ ticket'[k].claim = ticket[k].claim
  <2>1. j = k /\ Issued(k) /\ ticket[k] \in Ticket /\ ticket'[k] = [ticket[k] EXCEPT !.guarded = TRUE]
    BY <1>1, <1>4 DEF GuardCompletion, GuardFails, Guarded, Unguarded, Held, Issued
  <2> QED
    BY <2>1 DEF Ticket
<1>5. ASSUME NEW j \in Tickets, NEW t \in Times, ConsumePlain(j, t) \/ DispatchCheck(j, t) \/ CommitBegin(j, t)
      PROVE  j = k
  BY <1>1, <1>5 DEF ConsumePlain, DispatchCheck, CommitBegin, Claimed
<1>6. \/ \E p \in Processes, j \in Tickets, a \in AuthIds, b \in Boundaries, t \in Times :
           RequestAuthorization(p, j, a, b, t)
      \/ \E j \in Tickets : ClaimFails(j) \/ GuardCompletion(j) \/ GuardFails(j)
      \/ \E j \in Tickets, t \in Times : ConsumePlain(j, t) \/ DispatchCheck(j, t) \/ CommitBegin(j, t)
  BY DEF Next, vars, Open, Transition, RetryTransition, Stop, RetryStop, DispatchSend, DispatchCommit,
     CompletionCheckpoint, CommitCheckpoint, CommitWrite, EndTransaction, Exit, Tick
<1> QED
  BY <1>2, <1>3, <1>4, <1>5, <1>6

-----------------------------------------------------------------------------
(* One send per ticket, and none that the log does not account for. *)

\* The lock holder of a dispatch carries the check it will record, and has
\* invoked its transport once or not yet.
Dispatching ==
  tx.kind = "dispatch" =>
    /\ ticket[tx.ticket].claim = "dispatched"
    /\ tx.event.auth = ticket[tx.ticket].auth
    /\ \/ tx.phase = "callback" /\ sends[tx.ticket] = 0
       \/ tx.phase = "sent" /\ sends[tx.ticket] = 1

SentOnceClaimed ==
  \A k \in Tickets : sends[k] # 0 => sends[k] = 1 /\ Issued(k) /\ ticket[k].claim = "dispatched"

\* An allowed check of a network boundary is recorded by the transaction that
\* made the dispatch.
ChecksAreSends ==
  \A i \in DOMAIN log :
    log[i].type = "boundary" /\ log[i].reason = "ALLOWED" /\ log[i].boundary \in NetworkBoundaries
      => \E k \in durable : sends[k] = 1 /\ ticket[k].auth = log[i].auth

SendInv == Dispatching /\ SentOnceClaimed /\ ChecksAreSends

LEMMA HolderTicket ==
  ASSUME IInv, tx.kind # "idle"
  PROVE  /\ tx # Idle /\ tx \in Transaction /\ tx.ticket \in Tickets /\ Issued(tx.ticket)
         /\ ticket[tx.ticket] \in Ticket /\ log # <<>> /\ Len(log) \in DOMAIN log
         /\ AuthorityOf(ticket[tx.ticket]) = State(log)
BY NoTicketAssumption DEF IInv, TypeOK, HolderHasAuthority, Idle, Issued, Ticket

LEMMA SendFacts ==
  ASSUME IInv, Dispatching, DispatchSend
  PROVE  /\ tx.ticket \in Tickets /\ sends' = [sends EXCEPT ![tx.ticket] = 1] /\ sends[tx.ticket] = 0
         /\ tx'.kind = "dispatch" /\ tx'.phase = "sent" /\ tx'.ticket = tx.ticket /\ tx'.event = tx.event
         /\ UNCHANGED <<log, ticket, durable>>
<1>1. tx.kind = "dispatch" /\ sends \in [Tickets -> Nat]
  BY DEF DispatchSend, IInv, TypeOK
<1>2. tx.ticket \in Tickets /\ tx \in Transaction
  BY <1>1, HolderTicket
<1>3. sends[tx.ticket] = 0
  BY <1>1 DEF DispatchSend, Dispatching
<1>4. sends' = [sends EXCEPT ![tx.ticket] = 1]
  BY <1>3 DEF DispatchSend
<1>5. tx'.kind = "dispatch" /\ tx'.phase = "sent" /\ tx'.ticket = tx.ticket /\ tx'.event = tx.event
  BY <1>1, <1>2 DEF DispatchSend, Transaction
<1> QED
  BY <1>2, <1>3, <1>4, <1>5 DEF DispatchSend

LEMMA NextSentOnce ==
  ASSUME IInv, Dispatching, SentOnceClaimed, [Next]_vars
  PROVE  SentOnceClaimed'
<1>1. ASSUME NEW k \in Tickets, sends'[k] # 0
      PROVE  sends'[k] = 1 /\ Issued(k) /\ ticket[k].claim = "dispatched"
  <2>1. CASE DispatchSend
    <3>1. Issued(tx.ticket) /\ ticket[tx.ticket].claim = "dispatched"
      BY <2>1, HolderTicket DEF DispatchSend, Dispatching
    <3>2. CASE k = tx.ticket
      BY <2>1, <3>1, <3>2, SendFacts DEF IInv, TypeOK
    <3>3. CASE k # tx.ticket
      BY <1>1, <2>1, <3>3, SendFacts DEF SentOnceClaimed, IInv, TypeOK
    <3> QED
      BY <3>2, <3>3
  <2> QED
    BY <1>1, <2>1, ObservingSteps DEF SentOnceClaimed
<1>2. ASSUME NEW k \in Tickets, Issued(k), ticket[k].claim = "dispatched"
      PROVE  Issued(k)' /\ ticket'[k].claim = "dispatched"
  BY <1>2, TicketsAdvance, NoTicketAssumption DEF Advances, Issued
<1> QED
  BY <1>1, <1>2 DEF SentOnceClaimed

\* A step that changes the claim of the ticket of a lock holder does not exist.
LEMMA HolderKeepsClaim ==
  ASSUME IInv, tx.kind # "idle", tx' # Idle, [Next]_vars, NEW c \in {"dispatched", "spent"},
         ticket[tx.ticket].claim = c
  PROVE  ticket'[tx.ticket] \in Ticket /\ ticket'[tx.ticket].claim = c
         /\ ticket'[tx.ticket].auth = ticket[tx.ticket].auth
BY HolderTicket, TicketsAdvance DEF Advances

LEMMA NextDispatching ==
  ASSUME IInv, Dispatching, SentOnceClaimed, [Next]_vars
  PROVE  Dispatching'
<1>1. CASE tx' = Idle
  BY <1>1 DEF Dispatching, Idle
<1>2. CASE tx' = tx /\ tx' # Idle
  <2>1. SUFFICES ASSUME tx.kind = "dispatch"
                 PROVE  Dispatching'
    BY <1>2 DEF Dispatching
  <2>2. ~DispatchSend
    <3>1. tx \in Transaction
      BY DEF IInv, TypeOK
    <3> QED
      BY <1>2, <3>1 DEF DispatchSend, Transaction
  <2>3. sends' = sends
    BY <2>2, ObservingSteps
  <2>4. ticket'[tx.ticket].claim = "dispatched" /\ ticket'[tx.ticket].auth = ticket[tx.ticket].auth
    BY <1>2, <2>1, HolderKeepsClaim DEF Dispatching
  <2> QED
    BY <1>2, <2>1, <2>3, <2>4 DEF Dispatching
<1>3. CASE DispatchSend
  BY <1>3, SendFacts DEF DispatchSend, Dispatching, IInv, TypeOK
<1>4. ASSUME NEW k \in Tickets, NEW t \in Times, DispatchCheck(k, t), tx' # tx
      PROVE  Dispatching'
  <2> DEFINE e == CheckEvent(ticket[k], State(log), CheckedAt(ticket[k], t))
  <2>1. ticket[k] \in Ticket /\ ticket[k].claim = "unused" /\ Issued(k) /\ ticket \in [Tickets -> Ticket \cup {None}]
    BY <1>4, HeldTicket DEF DispatchCheck, Unclaimed, Held, IInv, TypeOK
  <2>2. tx' = Holding("dispatch", k, e) /\ Claimed(k, "dispatched") /\ sends' = sends
    BY <1>4 DEF DispatchCheck, observed
  <2>3. sends[k] = 0
    BY <2>1 DEF SentOnceClaimed, IInv, TypeOK
  <2>4. ticket'[k].claim = "dispatched" /\ ticket'[k].auth = ticket[k].auth
    BY <2>1, <2>2 DEF Claimed, Ticket
  <2>5. e.auth = ticket[k].auth
    BY DEF CheckEvent
  <2> HIDE DEF e
  <2>6. tx'.ticket = k /\ tx'.phase = "callback" /\ tx'.event = e
    BY <2>2 DEF Holding
  <2> QED
    BY <2>2, <2>3, <2>4, <2>5, <2>6 DEF Dispatching
<1>5. CASE CompletionCheckpoint \/ CommitWrite \/ \E t \in Times : CommitCheckpoint(t)
  <2>1. tx'.kind # "dispatch"
    BY <1>5 DEF CompletionCheckpoint, CommitWrite, CommitCheckpoint, IInv, TypeOK, Transaction, Idle
  <2> QED
    BY <2>1 DEF Dispatching
<1>6. ASSUME NEW k \in Tickets, GuardCompletion(k) \/ \E t \in Times : CommitBegin(k, t)
      PROVE  Dispatching'
  <2>1. tx'.kind # "dispatch"
    BY <1>6 DEF GuardCompletion, CommitBegin, Holding, Idle
  <2> QED
    BY <2>1 DEF Dispatching
<1> QED
  BY <1>1, <1>2, <1>3, <1>4, <1>5, <1>6, HolderSteps

\* What a dispatch made stays made.
LEMMA SentStays ==
  ASSUME IInv, Dispatching, SentOnceClaimed, [Next]_vars, NEW k \in Tickets, sends[k] = 1
  PROVE  sends'[k] = 1 /\ ticket'[k].auth = ticket[k].auth
<1>1. sends'[k] = 1
  BY ObservingSteps, SendFacts DEF IInv, TypeOK
<1>2. Issued(k)
  BY DEF SentOnceClaimed
<1> QED
  BY <1>1, <1>2, TicketsAdvance DEF Advances

LEMMA NextChecksAreSends ==
  ASSUME IInv, LogInv, SendInv, [Next]_vars
  PROVE  ChecksAreSends'
<1> DEFINE Sent(a) == \E k \in durable' : sends'[k] = 1 /\ ticket'[k].auth = a
<1>1. ASSUME NEW a, \E k \in durable : sends[k] = 1 /\ ticket[k].auth = a PROVE Sent(a)
  <2>1. PICK k \in durable : sends[k] = 1 /\ ticket[k].auth = a
    BY <1>1
  <2>2. k \in durable'
    BY ObservingSteps DEF DispatchCommit
  <2>3. k \in Tickets
    BY DEF IInv, TypeOK
  <2> QED
    BY <2>1, <2>2, <2>3, SentStays DEF SendInv
<1>2. \A i \in DOMAIN log :
        log'[i].type = "boundary" /\ log'[i].reason = "ALLOWED" /\ log'[i].boundary \in NetworkBoundaries
          => Sent(log'[i].auth)
  BY <1>1, LogKeeps DEF SendInv, ChecksAreSends
<1>3. log \in Seq(Event)
  BY DEF IInv, TypeOK, Event
<1>4. CASE log' = log
  BY <1>2, <1>4 DEF ChecksAreSends
<1>5. ASSUME NEW e \in Event, log' = Append(log, e),
             e.type = "boundary" /\ e.reason = "ALLOWED" /\ e.boundary \in NetworkBoundaries => Sent(e.auth)
      PROVE  ChecksAreSends'
  <2>1. DOMAIN log' = DOMAIN log \cup {Len(log) + 1} /\ log'[Len(log) + 1] = e
    BY <1>3, <1>5, AppendFacts
  <2> QED
    BY <1>2, <1>5, <2>1 DEF ChecksAreSends
<1>6. CASE RecordsCheck
  BY <1>5, <1>6 DEF RecordsCheck, Event
<1>7. CASE DispatchCommit
  <2>1. tx.ticket \in durable' /\ log' = Append(log, tx.event) /\ tx.event \in Event
        /\ sends' = sends /\ ticket' = ticket
    BY <1>7 DEF DispatchCommit, Append1, IInv, HolderHasAuthority, Event, Idle
  <2>2. sends[tx.ticket] = 1 /\ tx.event.auth = ticket[tx.ticket].auth
    BY <1>7 DEF DispatchCommit, SendInv, Dispatching
  <2>3. Sent(tx.event.auth)
    BY <2>1, <2>2
  <2> QED
    BY <1>5, <2>1, <2>3
<1>8. ASSUME NEW p \in Processes, NEW t \in Times, ModeStep(p, t)
      PROVE  ChecksAreSends'
  <2>1. PICK e \in ModeEvent : log' = Append(log, e)
    BY <1>8, ModeStepsReplay DEF LogInv
  <2> QED
    BY <1>5, <2>1, EventTypes DEF Event
<1> QED
  BY <1>4, <1>6, <1>7, <1>8, LogSteps

LEMMA NextSendInv ==
  ASSUME IInv, LogInv, SendInv, [Next]_vars
  PROVE  SendInv'
BY NextSentOnce, NextDispatching, NextChecksAreSends DEF SendInv

-----------------------------------------------------------------------------
(* Results and commits happen under the authority their check recorded. *)

\* Within the first n events an allowed check of ticket k, of one of the boundaries b.
RecordedUpTo(k, n, b) ==
  \E i \in 1..n : /\ log[i].type = "boundary" /\ log[i].reason = "ALLOWED"
                  /\ log[i].auth = ticket[k].auth /\ log[i].boundary \in b

\* An observation r was made of an issued ticket, at the log's then end, under
\* the authority of that moment.
MadeUnderAuthority(r, b) ==
  /\ r.ticket \in Tickets /\ r.at \in DOMAIN log /\ Issued(r.ticket)
  /\ CurrentAt(r.ticket, r.at) /\ RecordedUpTo(r.ticket, r.at, b)

\* Nothing recorded or granted is taken back.
LEMMA RecordedStays ==
  ASSUME IInv, LogInv, [Next]_vars, NEW k \in Tickets, Issued(k), NEW n \in DOMAIN log, NEW b,
         RecordedUpTo(k, n, b)
  PROVE  RecordedUpTo(k, n, b)'
<1>1. ticket'[k].auth = ticket[k].auth
  BY TicketsAdvance DEF Advances
<1>2. PICK i \in 1..n : /\ log[i].type = "boundary" /\ log[i].reason = "ALLOWED"
                        /\ log[i].auth = ticket[k].auth /\ log[i].boundary \in b
  BY DEF RecordedUpTo
<1>3. i \in DOMAIN log
  BY <1>2 DEF IInv, TypeOK
<1>4. log'[i] = log[i]
  BY <1>3, LogKeeps
<1> QED
  BY <1>1, <1>2, <1>4 DEF RecordedUpTo

LEMMA MadeStays ==
  ASSUME IInv, LogInv, [Next]_vars, NEW r, NEW b, MadeUnderAuthority(r, b)
  PROVE  MadeUnderAuthority(r, b)'
<1>1. r.ticket \in Tickets /\ r.at \in DOMAIN log /\ Issued(r.ticket)
  BY DEF MadeUnderAuthority
<1>2. Issued(r.ticket)' /\ AuthorityOf(ticket'[r.ticket]) = AuthorityOf(ticket[r.ticket])
  BY <1>1, TicketsAdvance, NoTicketAssumption DEF Advances, Issued
<1>3. r.at \in DOMAIN log' /\ SubSeq(log', 1, r.at) = SubSeq(log, 1, r.at)
  BY <1>1, LogKeeps
<1>4. CurrentAt(r.ticket, r.at)'
  BY <1>2, <1>3 DEF MadeUnderAuthority, CurrentAt, AuthorityOf
<1>5. RecordedUpTo(r.ticket, r.at, b)'
  BY <1>1, RecordedStays DEF MadeUnderAuthority
<1> QED
  BY <1>1, <1>2, <1>3, <1>4, <1>5 DEF MadeUnderAuthority

\* What a lock holder observes now it observes under authority.
LEMMA HolderMakes ==
  ASSUME IInv, tx.kind # "idle", NEW b, RecordedUpTo(tx.ticket, Len(log), b)
  PROVE  MadeUnderAuthority([ticket |-> tx.ticket, at |-> Len(log)], b)
<1>1. SubSeq(log, 1, Len(log)) = log
  BY DEF IInv, TypeOK
<1>2. AuthorityOf(ticket[tx.ticket]) = State(log)
  BY HolderTicket
<1>3. /\ ticket[tx.ticket].process = State(log).process /\ ticket[tx.ticket].mode = State(log).mode
      /\ ticket[tx.ticket].revision = State(log).revision
  BY <1>2 DEF AuthorityOf
<1>4. CurrentAt(tx.ticket, Len(log))
  BY <1>1, <1>3 DEF CurrentAt
<1> QED
  BY <1>4, HolderTicket DEF MadeUnderAuthority

\* A completion is claimed by its one guard, and while its callback has not
\* checkpointed there is no result of its ticket.
Completing ==
  tx.kind = "complete" =>
    /\ ticket[tx.ticket].guarded
    /\ RecordedUpTo(tx.ticket, Len(log), NetworkBoundaries)
    /\ tx.phase = "callback" => \A r \in results : r.ticket # tx.ticket

ResultsMade ==
  \A r \in results : /\ MadeUnderAuthority(r, NetworkBoundaries) /\ ticket[r.ticket].guarded
                     /\ \A q \in results : q.ticket = r.ticket => q = r

ResultInv == Completing /\ ResultsMade

\* The log of a lock holder does not change under it.
LEMMA HeldLog ==
  ASSUME IInv, LogInv, [Next]_vars, tx.kind \in {"complete", "commit"}
  PROVE  log' = log
BY LogSteps DEF RecordsCheck, DispatchCommit, ModeStep, Open, Stop, Transition, Ready, Idle

LEMMA NextResultsMade ==
  ASSUME IInv, LogInv, ResultInv, [Next]_vars
  PROVE  ResultsMade'
<1>1. ASSUME NEW r \in results
      PROVE  MadeUnderAuthority(r, NetworkBoundaries)' /\ ticket'[r.ticket].guarded
  <2>1. MadeUnderAuthority(r, NetworkBoundaries) /\ ticket[r.ticket].guarded
    BY DEF ResultInv, ResultsMade
  <2>2. r.ticket \in Tickets /\ Issued(r.ticket)
    BY <2>1 DEF MadeUnderAuthority
  <2> QED
    BY <2>1, <2>2, MadeStays, TicketsAdvance DEF Advances
<1>2. CASE results' = results
  BY <1>1, <1>2 DEF ResultInv, ResultsMade
<1>3. CASE CompletionCheckpoint
  <2>n. PICK n : n = [ticket |-> tx.ticket, at |-> Len(log)]
    OBVIOUS
  <2>1. tx.kind = "complete" /\ tx.phase = "callback" /\ results' = results \cup {n} /\ log' = log /\ ticket' = ticket
    BY <1>3, <2>n DEF CompletionCheckpoint
  <2>2. ticket[tx.ticket].guarded /\ \A r \in results : r.ticket # tx.ticket
    BY <2>1 DEF ResultInv, Completing
  <2>3. MadeUnderAuthority(n, NetworkBoundaries)
    BY <2>n, <2>1, HolderMakes DEF ResultInv, Completing
  <2>4. MadeUnderAuthority(n, NetworkBoundaries)'
    BY <2>3, MadeStays
  <2>5. n.ticket = tx.ticket
    BY <2>n
  <2>6. \A r \in results' : /\ MadeUnderAuthority(r, NetworkBoundaries)' /\ ticket'[r.ticket].guarded
                            /\ \A q \in results' : q.ticket = r.ticket => q = r
    BY <1>1, <2>1, <2>2, <2>4, <2>5 DEF ResultInv, ResultsMade
  <2> QED
    BY <2>6 DEF ResultsMade
<1> QED
  BY <1>2, <1>3, ObservingSteps

LEMMA NextCompleting ==
  ASSUME IInv, LogInv, ResultInv, [Next]_vars
  PROVE  Completing'
<1>1. CASE tx' = Idle
  BY <1>1 DEF Completing, Idle
<1>2. CASE tx' = tx /\ tx' # Idle
  <2>1. SUFFICES ASSUME tx.kind = "complete"
                 PROVE  Completing'
    BY <1>2 DEF Completing
  <2>2. ~CompletionCheckpoint
    <3>1. tx \in Transaction
      BY DEF IInv, TypeOK
    <3> QED
      BY <1>2, <3>1 DEF CompletionCheckpoint, Transaction
  <2>3. results' = results /\ log' = log
    BY <2>1, <2>2, ObservingSteps, HeldLog
  <2>4. ticket'[tx.ticket].guarded /\ ticket'[tx.ticket].auth = ticket[tx.ticket].auth
    BY <2>1, HolderTicket, TicketsAdvance DEF Advances, ResultInv, Completing
  <2> QED
    BY <1>2, <2>1, <2>3, <2>4 DEF ResultInv, Completing, RecordedUpTo
<1>3. CASE CompletionCheckpoint
  <2>1. tx \in Transaction /\ tx.kind = "complete" /\ tx' = [tx EXCEPT !.phase = "done"]
        /\ log' = log /\ ticket' = ticket
    BY <1>3 DEF CompletionCheckpoint, IInv, TypeOK
  <2>2. tx'.phase = "done" /\ tx'.ticket = tx.ticket
    BY <2>1 DEF Transaction
  <2> QED
    BY <2>1, <2>2 DEF ResultInv, Completing, RecordedUpTo
<1>4. ASSUME NEW k \in Tickets, GuardCompletion(k)
      PROVE  Completing'
  <2>1. /\ tx' = Holding("complete", k, None) /\ Guarded(k) /\ ~ticket[k].guarded /\ ticket[k] \in Ticket
        /\ log' = log /\ results' = results /\ DurablyAllowed(ticket[k]) /\ ticket \in [Tickets -> Ticket \cup {None}]
        /\ log \in Seq(Event)
    BY <1>4, HeldTicket DEF GuardCompletion, Unguarded, observed, IInv, TypeOK, Event
  <2>2. ticket'[k].guarded /\ ticket'[k].auth = ticket[k].auth
    BY <2>1 DEF Guarded, Ticket
  <2>3. \A r \in results : r.ticket # k
    BY <2>1 DEF ResultInv, ResultsMade
  <2>4. RecordedUpTo(k, Len(log), NetworkBoundaries)'
    BY <2>1, <2>2 DEF DurablyAllowed, RecordedUpTo, NetworkBoundaries
  <2>5. tx'.ticket = k
    BY <2>1 DEF Holding
  <2> QED
    BY <2>1, <2>2, <2>3, <2>4, <2>5 DEF Completing
<1>5. CASE DispatchSend \/ CommitWrite \/ \E t \in Times : CommitCheckpoint(t)
  <2>1. tx \in Transaction /\ tx.kind # "complete" /\ (tx' = Idle \/ \E phase : tx' = [tx EXCEPT !.phase = phase])
    BY <1>5 DEF DispatchSend, CommitWrite, CommitCheckpoint, IInv, TypeOK
  <2>2. tx'.kind # "complete"
    BY <2>1 DEF Transaction, Idle
  <2> QED
    BY <2>2 DEF Completing
<1>6. ASSUME NEW k \in Tickets, NEW t \in Times, (DispatchCheck(k, t) /\ tx' # tx) \/ CommitBegin(k, t)
      PROVE  Completing'
  <2>1. tx'.kind # "complete"
    BY <1>6 DEF DispatchCheck, CommitBegin, Holding, Idle
  <2> QED
    BY <2>1 DEF Completing
<1> QED
  BY <1>1, <1>2, <1>3, <1>4, <1>5, <1>6, HolderSteps

\* A ticket whose first transaction was recorded, and not yet used, has its
\* receipt in the log.
ReceiptsRecorded ==
  \A k \in Tickets : Issued(k) /\ ticket[k].claim = "receipted"
                       => log # <<>> /\ RecordedUpTo(k, Len(log), LocalCommitBoundaries)

\* A local commit is claimed for good when its second transaction begins.
Committed ==
  tx.kind = "commit" =>
    /\ ticket[tx.ticket].claim = "spent" /\ ticket[tx.ticket].mode = "RESEARCH"
    /\ RecordedUpTo(tx.ticket, Len(log), LocalCommitBoundaries)
    /\ tx.phase # "done" => \A c \in commits : c.ticket # tx.ticket

CommitsMade ==
  \A c \in commits : /\ MadeUnderAuthority(c, LocalCommitBoundaries)
                     /\ ticket[c.ticket].claim = "spent" /\ ticket[c.ticket].mode = "RESEARCH"
                     /\ \A d \in commits : d.ticket = c.ticket => d = c

CommitInv == ReceiptsRecorded /\ Committed /\ CommitsMade

LEMMA CommitBeginFacts ==
  ASSUME IInv, NEW k \in Tickets, NEW t \in Times, CommitBegin(k, t)
  PROVE  /\ ticket[k] \in Ticket /\ ticket[k].claim = "receipted" /\ Issued(k)
         /\ ticket'[k].claim = "spent" /\ ticket'[k].auth = ticket[k].auth /\ ticket'[k].mode = ticket[k].mode
         /\ \/ tx' = Idle
            \/ tx' = Holding("commit", k, None) /\ ticket[k].mode = "RESEARCH"
         /\ UNCHANGED <<log, commits>>
<1>1. ticket[k] \in Ticket /\ ticket[k].claim = "receipted" /\ Issued(k) /\ Claimed(k, "spent")
      /\ ticket[k].boundary \in LocalCommitBoundaries /\ ticket \in [Tickets -> Ticket \cup {None}]
      /\ open # {}
  BY HeldTicket DEF CommitBegin, Held, IInv, TypeOK
<1>2. ticket'[k].claim = "spent" /\ ticket'[k].auth = ticket[k].auth /\ ticket'[k].mode = ticket[k].mode
  BY <1>1 DEF Claimed, Ticket
<1>3. FreshCommit(ticket[k], t) => ticket[k].mode = "RESEARCH"
  BY <1>1 DEF FreshCommit, BoundaryReason, StandingReason, ModeAllows, LocalCommitBoundaries, NetworkBoundaries,
     PlainBoundaries, DeniedBoundaries
<1> QED
  BY <1>1, <1>2, <1>3 DEF CommitBegin, observed

LEMMA RecordedGrows ==
  ASSUME IInv, LogInv, [Next]_vars, NEW k \in Tickets, Issued(k), log # <<>>, NEW b,
         RecordedUpTo(k, Len(log), b)
  PROVE  log' # <<>> /\ RecordedUpTo(k, Len(log), b)'
<1>1. log \in Seq(Event) /\ Len(log) \in DOMAIN log
  BY DEF IInv, TypeOK, Event
<1>2. ticket'[k].auth = ticket[k].auth
  BY TicketsAdvance DEF Advances
<1>3. PICK i \in 1..Len(log) : /\ log[i].type = "boundary" /\ log[i].reason = "ALLOWED"
                               /\ log[i].auth = ticket[k].auth /\ log[i].boundary \in b
  BY DEF RecordedUpTo
<1>4. log'[i] = log[i]
  BY <1>1, <1>3, LogKeeps
<1>5. log' \in Seq(Event) /\ Len(log') \in Nat /\ Len(log) <= Len(log') /\ log' # <<>>
  BY <1>1, LogGrows
<1>6. i \in 1..Len(log')
  BY <1>1, <1>3, <1>5
<1> QED
  BY <1>2, <1>3, <1>4, <1>5, <1>6 DEF RecordedUpTo

LEMMA NextReceiptsRecorded ==
  ASSUME IInv, LogInv, CommitInv, [Next]_vars
  PROVE  ReceiptsRecorded'
<1> SUFFICES ASSUME NEW k \in Tickets, Issued(k)', ticket'[k].claim = "receipted"
             PROVE  log' # <<>> /\ RecordedUpTo(k, Len(log), LocalCommitBoundaries)'
  BY DEF ReceiptsRecorded
<1>1. CASE Issued(k) /\ ticket[k].claim = "receipted"
  BY <1>1, RecordedGrows DEF CommitInv, ReceiptsRecorded
<1>2. CASE ~(Issued(k) /\ ticket[k].claim = "receipted")
  <2>1. PICK t \in Times : ConsumePlain(k, t)
    <3>1. ticket'[k] # ticket[k]
      BY <1>2 DEF Issued
    <3>2. \A t \in Times : ~CommitBegin(k, t)
      BY CommitBeginFacts
    <3>3. ~ClaimFails(k) /\ \A t \in Times : ~DispatchCheck(k, t)
      <4>1. ticket \in [Tickets -> Ticket \cup {None}]
        BY DEF IInv, TypeOK
      <4>2. ASSUME NEW how \in {"spent", "dispatched"}, Held(k, AllBoundaries) \/ Held(k, NetworkBoundaries),
                   Claimed(k, how)
            PROVE  FALSE
        <5>1. ticket[k] \in Ticket
          BY <4>2, HeldTicket
        <5> QED
          BY <4>1, <4>2, <5>1 DEF Claimed, Ticket
      <4> QED
        BY <4>2 DEF ClaimFails, DispatchCheck, Unclaimed
    <3> QED
      BY <1>2, <3>1, <3>2, <3>3, ClaimSteps
  <2> DEFINE e == CheckEvent(ticket[k], State(log), CheckedAt(ticket[k], t))
  <2>2. ticket[k] \in Ticket /\ log # <<>> /\ log \in Seq(Event) /\ open # {}
        /\ ticket \in [Tickets -> Ticket \cup {None}]
    BY <2>1, HeldTicket DEF ConsumePlain, Unclaimed, IInv, TypeOK, Event
  <2>3. e \in Event
    BY <2>1, <2>2, OpenState, CheckedAtType, CheckEventType DEF Event
  <2>4. log' = Append(log, e) /\ e.type = "boundary" /\ e.auth = ticket[k].auth /\ e.boundary = ticket[k].boundary
    BY <2>1 DEF ConsumePlain, Append1, CheckEvent
  <2>5. ticket'[k].claim = (IF e.reason = "ALLOWED" /\ ticket[k].boundary \in LocalCommitBoundaries
                            THEN "receipted" ELSE "spent") /\ ticket'[k].auth = ticket[k].auth
    BY <2>1, <2>2 DEF ConsumePlain, Claimed, Ticket
  <2> HIDE DEF e
  <2>6. log'[Len(log) + 1] = e /\ Len(log') = Len(log) + 1 /\ Len(log) \in Nat
    BY <2>2, <2>3, <2>4, AppendFacts
  <2>7. e.reason = "ALLOWED" /\ ticket[k].boundary \in LocalCommitBoundaries
    BY <2>5
  <2>8. Len(log') \in 1..Len(log')
    BY <2>6
  <2> QED
    BY <2>4, <2>5, <2>6, <2>7, <2>8 DEF RecordedUpTo
<1> QED
  BY <1>1, <1>2

LEMMA NextCommitsMade ==
  ASSUME IInv, LogInv, CommitInv, [Next]_vars
  PROVE  CommitsMade'
<1>1. ASSUME NEW c \in commits
      PROVE  /\ MadeUnderAuthority(c, LocalCommitBoundaries)'
             /\ ticket'[c.ticket].claim = "spent" /\ ticket'[c.ticket].mode = "RESEARCH"
  <2>1. MadeUnderAuthority(c, LocalCommitBoundaries) /\ ticket[c.ticket].claim = "spent"
        /\ ticket[c.ticket].mode = "RESEARCH"
    BY DEF CommitInv, CommitsMade
  <2>2. c.ticket \in Tickets /\ Issued(c.ticket)
    BY <2>1 DEF MadeUnderAuthority
  <2>3. ticket'[c.ticket].mode = ticket[c.ticket].mode /\ ticket'[c.ticket].claim = "spent"
    BY <2>1, <2>2, TicketsAdvance DEF Advances, AuthorityOf
  <2> QED
    BY <2>1, <2>3, MadeStays
<1>2. CASE commits' = commits
  BY <1>1, <1>2 DEF CommitInv, CommitsMade
<1>3. CASE CommitWrite
  <2>n. PICK n : n = [ticket |-> tx.ticket, at |-> Len(log)]
    OBVIOUS
  <2>1. tx.kind = "commit" /\ tx.phase # "done" /\ commits' = commits \cup {n} /\ log' = log /\ ticket' = ticket
    BY <1>3, <2>n DEF CommitWrite
  <2>2. ticket[tx.ticket].claim = "spent" /\ ticket[tx.ticket].mode = "RESEARCH"
        /\ \A c \in commits : c.ticket # tx.ticket
    BY <2>1 DEF CommitInv, Committed
  <2>3. MadeUnderAuthority(n, LocalCommitBoundaries)
    BY <2>n, <2>1, HolderMakes DEF CommitInv, Committed
  <2>4. MadeUnderAuthority(n, LocalCommitBoundaries)'
    BY <2>3, MadeStays
  <2>5. n.ticket = tx.ticket
    BY <2>n
  <2>6. \A c \in commits' : /\ MadeUnderAuthority(c, LocalCommitBoundaries)'
                            /\ ticket'[c.ticket].claim = "spent" /\ ticket'[c.ticket].mode = "RESEARCH"
                            /\ \A d \in commits' : d.ticket = c.ticket => d = c
    BY <1>1, <2>1, <2>2, <2>4, <2>5 DEF CommitInv, CommitsMade
  <2> QED
    BY <2>6 DEF CommitsMade
<1> QED
  BY <1>2, <1>3, ObservingSteps

LEMMA NextCommitted ==
  ASSUME IInv, LogInv, CommitInv, [Next]_vars
  PROVE  Committed'
<1>1. CASE tx' = Idle
  BY <1>1 DEF Committed, Idle
<1>2. CASE tx.kind = "commit" /\ tx'.kind = "commit" /\ tx'.ticket = tx.ticket
           /\ (tx'.phase = "done" \/ (commits' = commits /\ tx.phase # "done") \/ (tx' = tx /\ commits' = commits))
  <2>1. ticket'[tx.ticket].claim = "spent" /\ ticket'[tx.ticket].auth = ticket[tx.ticket].auth
        /\ ticket'[tx.ticket].mode = ticket[tx.ticket].mode
    BY <1>2, HolderTicket, TicketsAdvance DEF Advances, AuthorityOf, CommitInv, Committed
  <2>2. log' = log
    BY <1>2, HeldLog
  <2>3. RecordedUpTo(tx.ticket, Len(log), LocalCommitBoundaries)'
    BY <1>2, <2>1, <2>2 DEF CommitInv, Committed, RecordedUpTo
  <2> QED
    BY <1>2, <2>1, <2>2, <2>3 DEF CommitInv, Committed, RecordedUpTo
<1>3. CASE tx' = tx /\ tx' # Idle
  <2>1. tx \in Transaction
    BY DEF IInv, TypeOK
  <2>2. ~CommitWrite
    BY <1>3, <2>1 DEF CommitWrite, Transaction
  <2> QED
    BY <1>2, <1>3, <2>2, ObservingSteps DEF Committed
<1>4. CASE CommitWrite \/ \E t \in Times : CommitCheckpoint(t)
  <2>1. tx \in Transaction /\ tx.kind = "commit" /\ tx.phase # "done"
        /\ (tx' = Idle \/ (commits' = commits /\ tx' = [tx EXCEPT !.phase = "checked"]) \/ tx' = [tx EXCEPT !.phase = "done"])
    BY <1>4 DEF CommitWrite, CommitCheckpoint, observed, IInv, TypeOK
  <2>2. CASE tx' # Idle
    <3>1. tx'.kind = "commit" /\ tx'.ticket = tx.ticket /\ (tx'.phase = "done" \/ commits' = commits)
      BY <2>1, <2>2 DEF Transaction
    <3> QED
      BY <1>2, <2>1, <3>1
  <2> QED
    BY <1>1, <2>2
<1>5. ASSUME NEW k \in Tickets, NEW t \in Times, CommitBegin(k, t)
      PROVE  Committed'
  <2>1. /\ ticket[k].claim = "receipted" /\ Issued(k) /\ ticket'[k].claim = "spent"
        /\ ticket'[k].auth = ticket[k].auth /\ ticket'[k].mode = ticket[k].mode
        /\ tx' = Idle \/ (tx' = Holding("commit", k, None) /\ ticket[k].mode = "RESEARCH")
        /\ log' = log /\ commits' = commits
    BY <1>5, CommitBeginFacts
  <2>2. \A c \in commits : c.ticket # k
    BY <2>1 DEF CommitInv, CommitsMade
  <2>3. RecordedUpTo(k, Len(log), LocalCommitBoundaries)'
    BY <2>1 DEF CommitInv, ReceiptsRecorded, RecordedUpTo
  <2>4. CASE tx' = Holding("commit", k, None) /\ ticket[k].mode = "RESEARCH"
    <3>1. tx'.ticket = k
      BY <2>4 DEF Holding
    <3> QED
      BY <2>1, <2>2, <2>3, <2>4, <3>1 DEF Committed
  <2> QED
    BY <1>1, <2>1, <2>4
<1>6. CASE DispatchSend \/ CompletionCheckpoint
  <2>1. tx \in Transaction /\ tx.kind # "commit" /\ \E phase : tx' = [tx EXCEPT !.phase = phase]
    BY <1>6 DEF DispatchSend, CompletionCheckpoint, IInv, TypeOK
  <2>2. tx'.kind # "commit"
    BY <2>1 DEF Transaction
  <2> QED
    BY <2>2 DEF Committed
<1>7. ASSUME NEW k \in Tickets, GuardCompletion(k) \/ \E t \in Times : (DispatchCheck(k, t) /\ tx' # tx)
      PROVE  Committed'
  <2>1. tx'.kind # "commit"
    BY <1>7 DEF GuardCompletion, DispatchCheck, Holding
  <2> QED
    BY <2>1 DEF Committed
<1> QED
  BY <1>1, <1>3, <1>4, <1>5, <1>6, <1>7, HolderSteps

-----------------------------------------------------------------------------
(* Replies, and all the effects together. *)

\* A check leaves the state of the log alone.
LEMMA StateSteps ==
  ASSUME IInv, LogInv, [Next]_vars
  PROVE  State(log') = State(log) \/ \E p \in Processes, t \in Times : ModeStep(p, t)
<1>1. log \in Seq(Event)
  BY DEF IInv, TypeOK, Event
<1>2. CASE RecordsCheck
  <2>1. PICK e \in BoundaryEvent : log' = Append(log, e) /\ log # <<>>
    <3>1. PICK e \in BoundaryEvent : log' = Append(log, e)
      BY <1>2 DEF RecordsCheck
    <3>2. e \in Event /\ e.type = "boundary"
      BY <3>1, EventTypes DEF Event
    <3>3. LogReplays'
      BY NextLogInv DEF LogInv
    <3>4. log'[Len(log) + 1] = e /\ DOMAIN log' = DOMAIN log \cup {Len(log) + 1} /\ Before(log', Len(log) + 1) = log
      BY <1>1, <3>1, <3>2, AppendFacts
    <3>5. State(log).mode # "null"
      BY <3>2, <3>3, <3>4 DEF LogReplays, Replays, BoundaryEventReplays
    <3> QED
      BY <3>1, <3>5, EmptyState
  <2> QED
    BY <1>1, <2>1, StateAppendCheck DEF IInv, LogHasMode
<1>3. CASE DispatchCommit
  BY <1>1, <1>3, StateAppendCheck DEF DispatchCommit, Append1, IInv, LogHasMode, HolderHasAuthority, Idle
<1> QED
  BY <1>2, <1>3, LogSteps

\* A mode operation answers with the mode it leaves the log in.
LEMMA ModeReply ==
  ASSUME IInv, NEW p \in Processes, NEW t \in Times, ModeStep(p, t)
  PROVE  reply' = "none" \/ State(log').mode = reply'
<1>1. log \in Seq(Event)
  BY DEF IInv, TypeOK, Event
<1>2. CASE Open(p, t)
  BY <1>2 DEF Open
<1>3. ASSUME NEW r \in Ids, Stop(p, r, t)
      PROVE  State(log').mode = reply'
  <2> DEFINE e == StopEvent("stop", State(log), State(log).process, r, NonRegressing(t, log))
  <2>1. open # {}
    BY <1>3 DEF Stop, Ready
  <2>2. e \in ModeEvent /\ e.to = "STOPPED"
    BY <2>1, OpenState, Clock DEF StopEvent, ModeEvent, Modes
  <2>3. log' = Append(log, e) /\ reply' = "STOPPED"
    BY <1>3 DEF Stop, Append1
  <2> HIDE DEF e
  <2> QED
    BY <1>1, <2>2, <2>3, StateAppendMode
<1>4. ASSUME NEW r \in Ids, NEW n \in Snapshots, NEW to \in {"RESEARCH", "PROPOSE_ONLY"},
             Transition(p, r, n.mode, n.revision, to, t)
      PROVE  State(log').mode = reply'
  <2> DEFINE e == TransitionEvent(State(log), to, r, t)
  <2>1. open # {}
    BY <1>4 DEF Transition, Ready
  <2>2. e \in ModeEvent /\ e.to = to
    BY <2>1, OpenState, Clock DEF TransitionEvent, ModeEvent, Modes
  <2>3. log' = Append(log, e) /\ reply' = to
    BY <1>4 DEF Transition, Append1
  <2> HIDE DEF e
  <2> QED
    BY <1>1, <2>2, <2>3, StateAppendMode
<1> QED
  BY <1>2, <1>3, <1>4 DEF ModeStep

LEMMA NextReplies ==
  ASSUME IInv, LogInv, RepliesAreCurrent, [Next]_vars
  PROVE  RepliesAreCurrent'
<1>1. ASSUME NEW p \in Processes, NEW t \in Times, ModeStep(p, t)
      PROVE  RepliesAreCurrent'
  BY <1>1, ModeReply DEF RepliesAreCurrent
<1>2. ASSUME NEW p \in Processes, NEW r \in Ids, NEW n \in Snapshots, NEW to \in {"RESEARCH", "PROPOSE_ONLY"},
             RetryTransition(p, r, n.mode, n.revision, to)
      PROVE  RepliesAreCurrent'
  <2>1. log' = log /\ State(log).mode = reply'
    BY <1>2 DEF RetryTransition
  <2> QED
    BY <2>1 DEF RepliesAreCurrent
<1>3. ASSUME NEW p \in Processes, NEW r \in Ids, RetryStop(p, r)
      PROVE  RepliesAreCurrent'
  <2>1. log' = log /\ State(log).mode = reply'
    BY <1>3 DEF RetryStop
  <2> QED
    BY <2>1 DEF RepliesAreCurrent
<1>4. \/ reply' = "none" \/ reply' = reply
      \/ \E p \in Processes, t \in Times : ModeStep(p, t)
      \/ \E p \in Processes, r \in Ids, n \in Snapshots, to \in {"RESEARCH", "PROPOSE_ONLY"} :
           RetryTransition(p, r, n.mode, n.revision, to)
      \/ \E p \in Processes, r \in Ids : RetryStop(p, r)
  BY DEF Next, ModeStep, vars, RequestAuthorization, ClaimFails, GuardFails, GuardCompletion,
     ConsumePlain, DispatchCheck, CommitBegin, DispatchSend, DispatchCommit, CompletionCheckpoint,
     CommitCheckpoint, CommitWrite, EndTransaction, Exit, Tick
<1> QED
  BY <1>1, <1>2, <1>3, <1>4, StateSteps DEF RepliesAreCurrent

\* Everything that is kept of the log, the tickets and what was done with them.
FullInv == IInv /\ LogInv /\ SendInv /\ ResultInv /\ CommitInv /\ RepliesAreCurrent

LEMMA InitFullInv == Init => FullInv
<1> SUFFICES ASSUME Init PROVE FullInv
  OBVIOUS
<1>1. LogInv
  BY DEF Init, LogInv, LogReplays, Replays, Lasting, Issued, HeldEventReplays, Idle
<1>2. SendInv
  BY DEF Init, SendInv, Dispatching, SentOnceClaimed, ChecksAreSends, Idle
<1>3. ResultInv /\ CommitInv
  BY DEF Init, ResultInv, Completing, ResultsMade, CommitInv, ReceiptsRecorded, Committed, CommitsMade, Issued, Idle
<1>4. RepliesAreCurrent
  BY DEF Init, RepliesAreCurrent
<1> QED
  BY <1>1, <1>2, <1>3, <1>4, InitIInv DEF FullInv

LEMMA NextFullInv == FullInv /\ [Next]_vars => FullInv'
BY NextIInv, NextLogInv, NextSendInv, NextResultsMade, NextCompleting, NextReceiptsRecorded,
   NextCommitsMade, NextCommitted, NextReplies DEF FullInv, ResultInv, CommitInv

LEMMA FullInvEffects == FullInv => EffectsFollowAuthority
<1> SUFFICES ASSUME FullInv PROVE EffectsFollowAuthority
  OBVIOUS
<1>1. AtMostOneSend
  BY DEF FullInv, SendInv, SentOnceClaimed, AtMostOneSend, IInv, TypeOK
<1>2. CompletionsFollowAuthority
  <2> SUFFICES ASSUME NEW r \in results
               PROVE  /\ CurrentAt(r.ticket, r.at)
                      /\ \E i \in 1..r.at : /\ log[i].type = "boundary" /\ log[i].reason = "ALLOWED"
                                            /\ log[i].auth = ticket[r.ticket].auth
                      /\ \E k \in durable : sends[k] = 1 /\ ticket[k].auth = ticket[r.ticket].auth
                      /\ \A q \in results : q.ticket = r.ticket => q = r
    BY DEF CompletionsFollowAuthority
  <2>1. MadeUnderAuthority(r, NetworkBoundaries) /\ \A q \in results : q.ticket = r.ticket => q = r
    BY DEF FullInv, ResultInv, ResultsMade
  <2>2. PICK i \in 1..r.at : /\ log[i].type = "boundary" /\ log[i].reason = "ALLOWED"
                             /\ log[i].auth = ticket[r.ticket].auth /\ log[i].boundary \in NetworkBoundaries
    BY <2>1 DEF MadeUnderAuthority, RecordedUpTo
  <2>3. i \in DOMAIN log
    BY <2>1, <2>2 DEF MadeUnderAuthority, FullInv, IInv, TypeOK
  <2>4. \E k \in durable : sends[k] = 1 /\ ticket[k].auth = ticket[r.ticket].auth
    BY <2>2, <2>3 DEF FullInv, SendInv, ChecksAreSends
  <2> QED
    BY <2>1, <2>2, <2>4 DEF MadeUnderAuthority
<1>3. CommitsFollowAuthority
  BY DEF FullInv, CommitInv, CommitsMade, CommitsFollowAuthority, MadeUnderAuthority, RecordedUpTo
<1> QED
  BY <1>1, <1>2, <1>3 DEF EffectsFollowAuthority, FullInv, LogInv, IInv

-----------------------------------------------------------------------------
(* The refinement. *)

\* The process that owns the log booted it: its id is a request id of the log.
OwnerBooted == log # <<>> => RequestUsed(log, State(log).process)

RefInv == FullInv /\ OwnerBooted

LEMMA UsedStays ==
  ASSUME IInv, LogInv, [Next]_vars, NEW r, RequestUsed(log, r)
  PROVE  RequestUsed(log', r)
<1>1. PICK i \in DOMAIN log : log[i].type # "boundary" /\ log[i].request = r
  BY DEF RequestUsed
<1> QED
  BY <1>1, LogKeeps DEF RequestUsed

\* What a mode operation makes of the state.
LEMMA ModeStepState ==
  ASSUME IInv, LogInv, NEW p \in Processes, NEW t \in Times, ModeStep(p, t)
  PROVE  /\ log' # <<>>
         /\ \/ /\ State(log') = [mode |-> "STOPPED", revision |-> State(log).revision + 1, process |-> p]
               /\ ~RequestUsed(log, p) /\ RequestUsed(log', p)
            \/ /\ State(log') = [mode |-> "STOPPED", revision |-> State(log).revision + 1,
                                 process |-> State(log).process]
               /\ log # <<>> /\ State(log).mode # "null"
            \/ \E to \in {"RESEARCH", "PROPOSE_ONLY"} :
                 /\ State(log') = [mode |-> to, revision |-> State(log).revision + 1,
                                   process |-> State(log).process]
                 /\ log # <<>> /\ TransitionAllowed(State(log).mode, to)
<1>1. log \in Seq(Event)
  BY DEF IInv, TypeOK, Event
<1>2. ASSUME NEW e \in ModeEvent, log' = Append(log, e)
      PROVE  /\ State(log') = [mode |-> e.to, revision |-> e.revision, process |-> e.process]
             /\ log' # <<>> /\ RequestUsed(log', e.request)
  <2>1. DOMAIN log' = DOMAIN log \cup {Len(log) + 1} /\ log'[Len(log) + 1] = e
    BY <1>1, <1>2, AppendFacts DEF Event
  <2>2. State(log') = [mode |-> e.to, revision |-> e.revision, process |-> e.process]
    BY <1>1, <1>2, StateAppendMode
  <2>3. e.type # "boundary"
    BY EventTypes
  <2> QED
    BY <1>1, <1>2, <2>1, <2>2, <2>3 DEF RequestUsed
<1>3. CASE Open(p, t)
  <2> DEFINE e == StopEvent("startup", State(log), p, p, NonRegressing(t, log))
  <2>1. State(log).mode \in Modes \cup {"null"} /\ State(log).revision \in Nat
    BY EmptyState, StateType DEF IInv, TypeOK, LogHasMode, Event
  <2>2. e \in ModeEvent
    BY <2>1, Clock DEF StopEvent, ModeEvent, Modes, Ids
  <2>3. log' = Append(log, e) /\ ~RequestUsed(log, p)
    BY <1>3 DEF Open, Append1
  <2>4. e.to = "STOPPED" /\ e.revision = State(log).revision + 1 /\ e.process = p /\ e.request = p
    BY DEF StopEvent
  <2> HIDE DEF e
  <2> QED
    BY <1>2, <2>2, <2>3, <2>4
<1>4. ASSUME NEW r \in Ids, Stop(p, r, t)
      PROVE  /\ log' # <<>> /\ log # <<>> /\ State(log).mode # "null"
             /\ State(log') = [mode |-> "STOPPED", revision |-> State(log).revision + 1,
                               process |-> State(log).process]
  <2> DEFINE e == StopEvent("stop", State(log), State(log).process, r, NonRegressing(t, log))
  <2>1. open # {}
    BY <1>4 DEF Stop, Ready
  <2>2. e \in ModeEvent /\ log # <<>> /\ State(log).mode # "null"
    BY <1>1, <2>1, OpenState, Clock, StateType DEF StopEvent, ModeEvent, Modes, IInv, OpenedLog
  <2>3. log' = Append(log, e)
    BY <1>4 DEF Stop, Append1
  <2>4. e.to = "STOPPED" /\ e.revision = State(log).revision + 1 /\ e.process = State(log).process
    BY DEF StopEvent
  <2> HIDE DEF e
  <2> QED
    BY <1>2, <2>2, <2>3, <2>4
<1>5. ASSUME NEW r \in Ids, NEW n \in Snapshots, NEW to \in {"RESEARCH", "PROPOSE_ONLY"},
             Transition(p, r, n.mode, n.revision, to, t)
      PROVE  /\ log' # <<>> /\ log # <<>> /\ TransitionAllowed(State(log).mode, to)
             /\ State(log') = [mode |-> to, revision |-> State(log).revision + 1,
                               process |-> State(log).process]
  <2> DEFINE e == TransitionEvent(State(log), to, r, t)
  <2>1. open # {} /\ TransitionAllowed(State(log).mode, to)
    BY <1>5 DEF Transition, Ready
  <2>2. e \in ModeEvent /\ log # <<>>
    BY <2>1, OpenState, Clock DEF TransitionEvent, ModeEvent, Modes, IInv, OpenedLog
  <2>3. log' = Append(log, e)
    BY <1>5 DEF Transition, Append1
  <2>4. e.to = to /\ e.revision = State(log).revision + 1 /\ e.process = State(log).process
    BY DEF TransitionEvent
  <2> HIDE DEF e
  <2> QED
    BY <1>2, <2>1, <2>2, <2>3, <2>4
<1> QED
  BY <1>3, <1>4, <1>5 DEF ModeStep

LEMMA NextOwnerBooted ==
  ASSUME IInv, LogInv, OwnerBooted, [Next]_vars
  PROVE  OwnerBooted'
<1>1. ASSUME NEW p \in Processes, NEW t \in Times, ModeStep(p, t)
      PROVE  OwnerBooted'
  <2>1. CASE State(log') = [mode |-> "STOPPED", revision |-> State(log).revision + 1, process |-> p]
             /\ RequestUsed(log', p)
    BY <2>1 DEF OwnerBooted
  <2>2. CASE State(log').process = State(log).process /\ log # <<>>
    BY <2>2, UsedStays DEF OwnerBooted
  <2> QED
    BY <1>1, <2>1, <2>2, ModeStepState
<1>2. CASE State(log') = State(log)
  <2>1. CASE log = <<>>
    <3>1. log \in Seq(Event)
      BY DEF IInv, TypeOK, Event
    <3>2. log' = <<>>
      <4>1. ~RecordsCheck
        <5>1. SUFFICES ASSUME RecordsCheck PROVE FALSE
          OBVIOUS
        <5>2. PICK e \in BoundaryEvent : log' = Append(log, e)
          BY <5>1 DEF RecordsCheck
        <5>3. log'[1] = e /\ DOMAIN log' = {1} /\ e.type = "boundary" /\ Before(log', 1) = <<>>
          BY <2>1, <5>2, EventTypes DEF Before
        <5>4. LogReplays'
          BY NextLogInv DEF LogInv
        <5> QED
          BY <5>3, <5>4, EmptyState DEF LogReplays, Replays, BoundaryEventReplays
      <4>2. ~DispatchCommit
        BY <2>1 DEF DispatchCommit, IInv, HolderHasAuthority, Idle
      <4>3. ASSUME NEW p \in Processes, NEW t \in Times, ModeStep(p, t) PROVE FALSE
        <5>1. State(log').revision = State(log).revision + 1
          BY <4>3, ModeStepState
        <5> QED
          BY <1>2, <2>1, <5>1, EmptyState
      <4> QED
        BY <2>1, <4>1, <4>2, <4>3, LogSteps
    <3> QED
      BY <3>2 DEF OwnerBooted
  <2>2. CASE log # <<>>
    BY <1>2, <2>2, UsedStays DEF OwnerBooted
  <2> QED
    BY <2>1, <2>2
<1> QED
  BY <1>1, <1>2, StateSteps

LEMMA NextRefInv == RefInv /\ [Next]_vars => RefInv'
BY NextFullInv, NextOwnerBooted DEF RefInv, FullInv

\* The grant a ticket stands for; no step but a granted request changes it.
Grants == [k \in Tickets |-> IF ticket[k] = None THEN None ELSE AuthorityOf(ticket[k])]

LEMMA GrantSteps ==
  ASSUME IInv, [Next]_vars
  PROVE  \/ Grants' = Grants
         \/ \E k \in Tickets : /\ Grants[k] = None /\ Grants' = [Grants EXCEPT ![k] = State(log)]
                               /\ State(log).mode \notin {"null", "STOPPED"}
                               /\ UNCHANGED <<log, observed>>
<1>1. ticket \in [Tickets -> Ticket \cup {None}]
  BY DEF IInv, TypeOK
<1>2. \A j \in Tickets : Issued(j) => Issued(j)' /\ AuthorityOf(ticket'[j]) = AuthorityOf(ticket[j])
  BY TicketsAdvance, NoTicketAssumption DEF Advances, Issued
<1>3. ASSUME NEW p \in Processes, NEW k \in Tickets, NEW a \in AuthIds, NEW b \in Boundaries,
             NEW t \in Times, RequestAuthorization(p, k, a, b, t), ticket' # ticket
      PROVE  /\ Grants[k] = None /\ Grants' = [Grants EXCEPT ![k] = State(log)]
             /\ State(log).mode \notin {"null", "STOPPED"}
             /\ UNCHANGED <<log, observed>>
  <2> DEFINE q == RequestOf(p, a, b, t)
  <2>1. /\ open # {} /\ ~Issued(k) /\ ticket' = [ticket EXCEPT ![k] = q] /\ UNCHANGED <<log, observed>>
        /\ BoundaryReason(q, State(log), q.requestedAt) = "ALLOWED"
    BY <1>3 DEF RequestAuthorization, Ready
  <2>2. State(log) \in [mode : Modes, revision : Nat, process : Processes] /\ State(log).mode # "null"
    BY <2>1, OpenState, StateType DEF IInv, TypeOK, Event
  <2>3. q \in Ticket
    BY <2>1, <2>2, Clock, BoundsAssumption DEF RequestOf, Ticket, IInv, TypeOK
  <2> HIDE DEF q
  <2>4. AuthorityOf(q) = State(log) /\ State(log).mode # "STOPPED"
    BY <2>1, <2>2, AllowedIsCurrent
  <2>5. q # None
    BY <2>3, NoTicketAssumption
  <2>6. Grants' = [Grants EXCEPT ![k] = State(log)]
    BY <1>1, <2>1, <2>4, <2>5 DEF Grants
  <2> QED
    BY <2>1, <2>2, <2>4, <2>6 DEF Grants, Issued
<1>4. CASE \A j \in Tickets : ~Issued(j) => ~Issued(j)'
  BY <1>2, <1>4 DEF Grants, Issued
<1>5. CASE \E j \in Tickets : ~Issued(j) /\ Issued(j)'
  <2>1. PICK j \in Tickets : ~Issued(j) /\ Issued(j)'
    BY <1>5
  <2>2. ASSUME NEW k \in Tickets, NEW t \in Times,
               \/ ClaimFails(k) \/ GuardCompletion(k) \/ GuardFails(k)
               \/ ConsumePlain(k, t) \/ DispatchCheck(k, t) \/ CommitBegin(k, t)
        PROVE  FALSE
    BY <1>1, <2>1, <2>2 DEF ClaimFails, GuardCompletion, GuardFails, ConsumePlain, DispatchCheck, CommitBegin,
       Unclaimed, Unguarded, Held, Claimed, Guarded, Issued
  <2>3. ticket' # ticket
    BY <2>1 DEF Issued
  <2>4. \E p \in Processes, k \in Tickets, a \in AuthIds, b \in Boundaries, t \in Times :
           RequestAuthorization(p, k, a, b, t)
    <3>1. 0 \in Times
      BY BoundsAssumption DEF Times
    <3> QED
      BY <2>2, <2>3, <3>1 DEF Next, vars, Open, Transition, RetryTransition, Stop, RetryStop, DispatchSend,
       DispatchCommit, CompletionCheckpoint, CommitCheckpoint, CommitWrite, EndTransaction, Exit, Tick
  <2> QED
    BY <1>3, <2>3, <2>4
<1> QED
  BY <1>4, <1>5

LEMMA InitAuthority == Init => Authority!Init
BY EmptyState DEF Init, Authority!Init

\* Every step is one step of the authority, or none.
LEMMA StepAuthority ==
  ASSUME RefInv, [Next]_vars
  PROVE  [Authority!Next]_Authority!vars
<1> DEFINE Completed == {r.ticket : r \in results}
           Written == {c.ticket : c \in commits}
<1>1. IInv /\ LogInv /\ SendInv /\ ResultInv /\ CommitInv /\ OwnerBooted
  BY DEF RefInv, FullInv
<1>2. CASE log' # log /\ UNCHANGED observed /\ Grants' = Grants /\ \E p \in Processes, t \in Times : ModeStep(p, t)
  <2>1. PICK p \in Processes, t \in Times : ModeStep(p, t)
    BY <1>2
  <2>2. UNCHANGED <<Grants, sends, Completed, Written>>
    BY <1>2 DEF observed
  <2>3. CASE State(log') = [mode |-> "STOPPED", revision |-> State(log).revision + 1, process |-> p]
             /\ ~RequestUsed(log, p)
    <3>1. State(log).process # p
      BY <1>1, <2>3, EmptyState, NoneAssumption DEF OwnerBooted
    <3> QED
      BY <2>2, <2>3, <3>1 DEF Authority!Next, Authority!Boot, Authority!NextAuthority, Grants
  <2>4. CASE State(log') = [mode |-> "STOPPED", revision |-> State(log).revision + 1,
                            process |-> State(log).process] /\ State(log).mode # "null"
    BY <2>2, <2>4 DEF Authority!Next, Authority!Halt, Authority!NextAuthority, Grants
  <2>5. ASSUME NEW to \in {"RESEARCH", "PROPOSE_ONLY"}, TransitionAllowed(State(log).mode, to),
               State(log') = [mode |-> to, revision |-> State(log).revision + 1, process |-> State(log).process]
        PROVE  Authority!Next
    BY <2>2, <2>5 DEF Authority!Next, Authority!Escalate, Authority!NextAuthority, TransitionAllowed, Grants
  <2> QED
    BY <1>1, <2>1, <2>3, <2>4, <2>5, ModeStepState
<1>3. ASSUME NEW k \in Tickets, Grants[k] = None, Grants' = [Grants EXCEPT ![k] = State(log)],
             State(log).mode \notin {"null", "STOPPED"}, UNCHANGED <<log, observed>>
      PROVE  Authority!Next
  BY <1>3 DEF Authority!Next, Authority!Grant, Grants, observed
<1>h. ASSUME tx.kind # "idle"
      PROVE  tx.ticket \in Tickets /\ Grants[tx.ticket] = State(log)
  BY <1>1, <1>h, HolderTicket DEF Grants, Issued
<1>4. CASE DispatchSend
  <2>1. tx.kind # "idle" /\ UNCHANGED <<log, ticket, results, commits>>
    BY <1>4 DEF DispatchSend
  <2>2. sends[tx.ticket] = 0 /\ sends' = [sends EXCEPT ![tx.ticket] = 1]
    BY <1>1, <1>4, SendFacts DEF SendInv
  <2> QED
    BY <1>h, <2>1, <2>2 DEF Authority!Next, Authority!Send, Grants
<1>5. CASE CompletionCheckpoint
  <2>1. tx.kind = "complete" /\ tx.phase = "callback" /\ UNCHANGED <<log, ticket, sends, commits>>
        /\ results' = results \cup {[ticket |-> tx.ticket, at |-> Len(log)]}
    BY <1>5 DEF CompletionCheckpoint
  <2>2. tx.ticket \notin Completed
    BY <1>1, <2>1 DEF ResultInv, Completing
  <2>3. Completed' = Completed \cup {tx.ticket}
    <3>1. PICK n : n.ticket = tx.ticket /\ results' = results \cup {n}
      BY <2>1
    <3> QED
      BY <3>1
  <2> QED
    BY <1>h, <2>1, <2>2, <2>3 DEF Authority!Next, Authority!Complete, Grants
<1>6. CASE CommitWrite
  <2>1. tx.kind = "commit" /\ tx.phase = "checked" /\ UNCHANGED <<log, ticket, sends, results>>
        /\ commits' = commits \cup {[ticket |-> tx.ticket, at |-> Len(log)]}
    BY <1>6 DEF CommitWrite
  <2>2. tx.ticket \notin Written /\ ticket[tx.ticket].mode = "RESEARCH"
    BY <1>1, <2>1 DEF CommitInv, Committed
  <2>3. Written' = Written \cup {tx.ticket}
    <3>1. PICK n : n.ticket = tx.ticket /\ commits' = commits \cup {n}
      BY <2>1
    <3> QED
      BY <3>1
  <2>4. State(log).mode = "RESEARCH"
    BY <1>1, <2>1, <2>2, HolderTicket DEF AuthorityOf
  <2> QED
    BY <1>h, <2>1, <2>2, <2>3, <2>4 DEF Authority!Next, Authority!Commit, Grants
<1>7. CASE State(log') = State(log) /\ UNCHANGED observed /\ Grants' = Grants
  BY <1>7 DEF Authority!vars, Grants, observed
<1>8. ASSUME NEW p \in Processes, NEW t \in Times, ModeStep(p, t)
      PROVE  log' # log /\ UNCHANGED observed /\ Grants' = Grants
  <2>1. PICK e \in ModeEvent : log' = Append(log, e)
    BY <1>1, <1>8, ModeStepsReplay DEF LogInv
  <2>2. log' # log
    BY <1>1, <2>1 DEF IInv, TypeOK
  <2> QED
    BY <1>8, <2>2 DEF ModeStep, Open, Stop, Transition, Grants
<1>9. DispatchCommit => State(log') = State(log) /\ UNCHANGED <<sends, results, commits>> /\ Grants' = Grants
  <2>1. DispatchCommit => \A p \in Processes, t \in Times : ~ModeStep(p, t)
    BY DEF DispatchCommit, ModeStep, Open, Stop, Transition, Ready, Idle
  <2> QED
    BY <1>1, <2>1, StateSteps DEF DispatchCommit, Grants
<1>10. CASE DispatchCommit
  BY <1>9, <1>10 DEF Authority!vars, Grants
<1>11. CASE ~(DispatchSend \/ CompletionCheckpoint \/ CommitWrite \/ DispatchCommit)
  BY <1>1, <1>2, <1>3, <1>7, <1>8, <1>11, ObservingSteps, GrantSteps, StateSteps DEF observed
<1> QED
  BY <1>4, <1>5, <1>6, <1>10, <1>11

-----------------------------------------------------------------------------
\* A check at or after the monotonic end of a lifetime counts as one at the wall expiry.
LEMMA ExpiredIsRefused ==
  ASSUME IInv, NEW q \in Ticket, NEW s, NEW t \in Times, MonotonicExpired(q)
  PROVE  BoundaryReason(q, s, CheckedAt(q, t)) # "ALLOWED"
<1>1. CheckedAt(q, t) >= q.expiresAt
  BY CheckedAtType DEF CheckedAt, Ticket
<1> QED
  BY <1>1 DEF BoundaryReason

-----------------------------------------------------------------------------
(* The theorems. *)

\* For any number of processes, requests and tickets, every event, ticket and
\* transaction stays well formed, and every observation names a log position.
THEOREM TypeCorrect == Spec => []TypeOK
<1>1. IInv => TypeOK
  BY DEF IInv
<1> QED
  BY <1>1, InitIInv, NextIInv, PTL DEF Spec

\* A lock holder's ticket is the authority of the log for as long as it holds
\* the lock, so only a live authority invokes a transport (consumeAndDispatch).
THEOREM DispatchAuthority == Spec => SendsOnlyUnderAuthority
<1> DEFINE Step == \A k \in Tickets : sends'[k] # sends[k] =>
                     CurrentAt(k, Len(log)) /\ State(log).mode # "STOPPED"
<1>1. ASSUME IInv, [Next]_vars PROVE [Step]_vars
  <2> SUFFICES ASSUME NEW k \in Tickets, sends'[k] # sends[k]
               PROVE  CurrentAt(k, Len(log)) /\ State(log).mode # "STOPPED"
    OBVIOUS
  <2>1. DispatchSend
    BY <1>1 DEF Next, vars, observed, Open, Transition, RetryTransition, Stop, RetryStop,
       RequestAuthorization, ClaimFails, GuardCompletion, GuardFails, ConsumePlain,
       DispatchCheck, DispatchCommit, CommitBegin, CompletionCheckpoint, CommitCheckpoint,
       CommitWrite, EndTransaction, Exit, Tick
  <2>2. tx # Idle /\ k = tx.ticket
    BY <1>1, <2>1 DEF DispatchSend, Idle, IInv, TypeOK, Transaction
  <2>3. AuthorityOf(ticket[k]) = State(log) /\ State(log).mode # "STOPPED" /\ log # <<>>
    BY <1>1, <2>2 DEF IInv, HolderHasAuthority
  <2>4. SubSeq(log, 1, Len(log)) = log
    BY <1>1 DEF IInv, TypeOK
  <2>5. /\ ticket[k].process = State(log).process /\ ticket[k].mode = State(log).mode
        /\ ticket[k].revision = State(log).revision
    BY <2>3 DEF AuthorityOf
  <2>6. CurrentAt(k, Len(log))
    BY <2>4, <2>5 DEF CurrentAt
  <2> QED
    BY <2>3, <2>6
<1> QED
  BY <1>1, InitIInv, NextIInv, PTL DEF Spec, SendsOnlyUnderAuthority

\* Whatever operators, controllers, clocks and crashes do, the log they leave is one
\* that replayRuntimeStore accepts: no later open() or stop() is locked out by it.
THEOREM LogAlwaysReplays == Spec => []LogReplays
<1>1. FullInv => LogReplays
  BY DEF FullInv, LogInv
<1> QED
  BY <1>1, InitFullInv, NextFullInv, PTL DEF Spec

\* Every send, completion and local commit is the only one of its authorization,
\* was made under the authority of the log's then end and after the allowed check
\* that the log records, and what a mode operation answered is still so.
THEOREM EffectAuthority == Spec => []EffectsFollowAuthority
BY InitFullInv, NextFullInv, FullInvEffects, PTL DEF Spec

\* Boots, stops, transitions, grants, sends, completions and commits of the
\* controllers are steps of the abstract authority; every other step is invisible.
THEOREM AuthorityImplemented == Spec => ImplementsAuthority
<1>1. Init => RefInv
  BY InitFullInv DEF RefInv, OwnerBooted, Init
<1>2. RefInv /\ [Next]_vars => [Authority!Next]_Authority!vars
  BY StepAuthority
<1> QED
  BY <1>1, <1>2, InitAuthority, NextRefInv, PTL DEF Spec, ImplementsAuthority, Authority!Spec

\* An authorization is taken as allowed only within the monotonic lifetime it was
\* issued with, and by a check dated before its wall expiry (consume,
\* consumeAndDispatch, consumeAndCommit).
THEOREM LifetimesHold == Spec => ChecksWithinLifetime
<1> DEFINE Timely(k) ==
             /\ mono < ticket[k].monotonicExpiresAt /\ mono >= ticket[k].monotonicIssuedAt
             /\ CheckOf(k).auth = ticket[k].auth /\ CheckOf(k).at < ticket[k].expiresAt
           Step == \A k \in Tickets :
                     Issued(k) /\ ticket[k].claim = "unused" /\ ticket'[k].claim \in {"receipted", "dispatched"}
                       => Timely(k)
<1>1. ASSUME IInv, [Next]_vars PROVE [Step]_vars
  <2> SUFFICES ASSUME NEW k \in Tickets, Issued(k), ticket[k].claim = "unused",
                      ticket'[k].claim \in {"receipted", "dispatched"}
               PROVE  Timely(k)
    OBVIOUS
  <2>1. ticket[k] \in Ticket /\ ticket \in [Tickets -> Ticket \cup {None}] /\ mono \in Nat
    BY <1>1 DEF IInv, TypeOK, Issued
  <2>2. ~ClaimFails(k) /\ \A t \in Times : ~CommitBegin(k, t)
    BY <2>1 DEF ClaimFails, CommitBegin, Claimed, Ticket
  <2>3. PICK t \in Times : ConsumePlain(k, t) \/ DispatchCheck(k, t)
    <3>1. ticket'[k] # ticket[k]
      OBVIOUS
    <3> QED
      BY <1>1, <2>2, <3>1, ClaimSteps
  <2> DEFINE c == CheckedAt(ticket[k], t)
             e == CheckEvent(ticket[k], State(log), c)
  <2>4. BoundaryReason(ticket[k], State(log), c) = "ALLOWED"
    BY <2>1, <2>3 DEF ConsumePlain, DispatchCheck, Claimed, Ticket, CheckEvent
  <2>5. ~MonotonicExpired(ticket[k])
    BY <1>1, <2>1, <2>4, ExpiredIsRefused
  <2>6. e.reason = "ALLOWED" /\ e.auth = ticket[k].auth /\ e.at = c
    BY <2>4 DEF CheckEvent
  <2>7. c < ticket[k].expiresAt
    <3>1. c \in Nat /\ ticket[k].expiresAt \in Nat
      BY <1>1, <2>1, CheckedAtType DEF Ticket
    <3>2. ~(c >= ticket[k].expiresAt)
      BY <2>4 DEF BoundaryReason
    <3> QED
      BY <3>1, <3>2
  <2>8. CheckOf(k) = e
    <3>1. CASE ConsumePlain(k, t)
      <4>1. ticket'[k].claim # "dispatched" /\ log' = Append(log, e)
        BY <2>1, <3>1 DEF ConsumePlain, Claimed, Ticket, Append1
      <4>2. log \in Seq(ModeEvent \cup BoundaryEvent)
        BY <1>1 DEF IInv, TypeOK
      <4>3. log'[Len(log')] = e
        BY <4>1, <4>2
      <4> QED
        BY <4>1, <4>3 DEF CheckOf
    <3>2. CASE DispatchCheck(k, t)
      <4>1. ticket'[k].claim = "dispatched" /\ tx' = Holding("dispatch", k, e)
        BY <2>1, <2>6, <3>2 DEF DispatchCheck, Claimed, Ticket
      <4> QED
        BY <4>1 DEF CheckOf, Holding
    <3> QED
      BY <2>3, <3>1, <3>2
  <2> QED
    BY <2>1, <2>5, <2>6, <2>7, <2>8 DEF MonotonicExpired, Ticket
<1> QED
  BY <1>1, InitIInv, NextIInv, PTL DEF Spec, ChecksWithinLifetime
=============================================================================
