-------------------------- MODULE AttentionHistory --------------------------
(***************************************************************************)
(* The recorded attention history.  An operator previews the assessment of *)
(* a bundle under a short lease, and records exactly that assessment; every *)
(* read replays the store, has the runtime vouch for the receipt of every  *)
(* record, and then makes sure that nobody appended meanwhile.             *)
(*                                                                         *)
(* What an assessment says is AttentionAssessment's; here its decision is  *)
(* told apart by what it depends on: the bundle, whether it still is valid *)
(* at the time, and the facts of the records before it.  A verified replay *)
(* is one step, its last: an append in between makes it throw and leaves   *)
(* nothing.  The replay cache returns what a replay would, for the same    *)
(* chain head, and has no state here.                                      *)
(***************************************************************************)
EXTENDS BoundaryCommands, FiniteSets

CONSTANTS
  Bundles,        \* [name, until]: until the end of its validity
  PreviewTTL,     \* ATTENTION_PREVIEW_TTL_MS
  MaxLeases,      \* MAX_LIVE_ATTENTION_PREVIEWS
  MaxPreviews,    \* bound: previews that clients hold
  MaxRecords      \* MAX_ATTENTION_HISTORY

ASSUME HistoryAssumption == MaxRecords \in Nat

VARIABLES
  store,          \* the records after the genesis event
  bindings,       \* the previews that clients hold
  leases,         \* process |-> [binding, expiresAt]: in memory
  answers         \* results that callers were given

attentionVars == <<store, bindings, leases, answers>>

AttentionInit ==
  store = <<>> /\ bindings = {} /\ leases = [p \in Processes |-> {}] /\ answers = {}

HeadOf(records) == Len(records)
Prior(records) == [n \in DOMAIN records |-> records[n].binding.bundle]
Decision(b, t, records) == [bundle |-> b, expired |-> t >= b.until, prior |-> Prior(records)]
LaterThanRecords(t, records) == records # <<>> => t >= records[Len(records)].checkpointAt

-----------------------------------------------------------------------------
(* replay, and what the runtime vouches for. *)

RecordReplays(records, n) ==
  LET r == records[n]
      before == SubSeq(records, 1, n - 1) IN
  /\ r.binding.head = HeadOf(before)
  /\ r.binding.decision = Decision(r.binding.bundle, r.binding.at, before)
  /\ r.binding.decision = Decision(r.binding.bundle, r.checkpointAt, before)
  /\ r.binding.at <= r.checkedAt /\ r.checkedAt <= r.checkpointAt
  /\ r.checkpointAt < r.binding.deadline
  /\ LaterThanRecords(r.binding.at, before)
  /\ n > 1 => r.sequence > records[n - 1].sequence
  /\ \A k \in 1..(n - 1) : records[k].binding.bundle # r.binding.bundle

Receipted(r) == Vouched(r.sequence, "attention_refresh", r.binding, r.binding.process,
                        r.binding.revision, r.checkedAt)

VerifiedReplay == /\ \A n \in DOMAIN store : RecordReplays(store, n)
                  /\ \A n \in DOMAIN store : Receipted(store[n])

RecordedBefore(b) == {n \in DOMAIN store : store[n].binding.bundle = b}

-----------------------------------------------------------------------------
(* preview. *)

\* What a preview of a bundle at t under a process and revision must say.
Binding(id, p, revision, b, t) ==
  [id |-> id, bundle |-> b, head |-> HeadOf(store), process |-> p, revision |-> revision,
   at |-> t, deadline |-> t + PreviewTTL, decision |-> Decision(b, t, store)]

Live(p) == {l \in leases[p] : now < l.expiresAt}

Preview(p, b, t) ==
  LET shown == Binding(Cardinality(bindings), p, State.revision, b, t) IN
  /\ Opened(p) /\ At(p, "idle") /\ VerifiedReplay
  /\ RecordedBefore(b) = {} /\ Len(store) < MaxRecords /\ LaterThanRecords(t, store)
  /\ Cardinality(bindings) < MaxPreviews
  /\ IF Cardinality(Live(p)) < MaxLeases
     THEN /\ leases' = [leases EXCEPT ![p] = Live(p) \cup {[binding |-> shown, expiresAt |-> now + PreviewTTL]}]
          /\ bindings' = bindings \cup {shown}
     ELSE leases' = [leases EXCEPT ![p] = Live(p)] /\ UNCHANGED bindings
  /\ UNCHANGED <<commandVars, store, answers>>

-----------------------------------------------------------------------------
(* record. *)

Leased(p, b) == \E l \in Live(p) : l.binding = b

\* A bundle on file is answered without any authority, if the preview is its own.
AnswerExisting(b) ==
  /\ VerifiedReplay
  /\ \E n \in RecordedBefore(b.bundle) : /\ store[n].binding = b
                                         /\ answers' = answers \cup {store[n]}
  /\ UNCHANGED <<commandVars, store, bindings, leases>>

BeginRecord(p, b, t) ==
  LET q == Grant(p, "attention_refresh", b, t) IN
  /\ Granted(p, q) /\ VerifiedReplay /\ RecordedBefore(b.bundle) = {}
  /\ b = Binding(b.id, b.process, b.revision, b.bundle, b.at) /\ LaterThanRecords(b.at, store)
  /\ b.process = p /\ b.revision = q.revision /\ q.mode = "RESEARCH" /\ Leased(p, b)
  /\ Goto(p, Command(q, b, HeadOf(store)))
  /\ UNCHANGED <<log, now, attentionVars>>

\* The decision the operator saw is the one that holds when it is recorded.
Holds(b, at) == at < b.deadline /\ Decision(b.bundle, at, store) = b.decision

Recorded(p, at) ==
  [binding |-> job[p].about, checkedAt |-> job[p].checkedAt, sequence |-> job[p].sequence, checkpointAt |-> at]

\* The commit callback.
CommitRecord(p, t) ==
  LET b == job[p].about IN
  /\ At(p, "receipted")
  /\ IF /\ Fresh(p, t) /\ HeadOf(store) = job[p].state /\ Leased(p, b)
        /\ b = Binding(b.id, b.process, b.revision, b.bundle, b.at)
        /\ store # <<>> => job[p].sequence > store[Len(store)].sequence
        /\ Holds(b, Checkpoint(p, t))
        /\ b.at <= job[p].checkedAt
     THEN /\ store' = Append(store, Recorded(p, Checkpoint(p, t)))
          /\ Goto(p, [stage |-> "committed", about |-> b, record |-> Recorded(p, Checkpoint(p, t))])
     ELSE Goto(p, Idle) /\ UNCHANGED store
  /\ UNCHANGED <<log, now, bindings, leases, answers>>

\* The lease is spent; a record that is no longer the head is an error to its caller.
Confirmed(p) ==
  /\ At(p, "committed") /\ VerifiedReplay
  /\ leases' = [leases EXCEPT ![p] = {l \in @ : l.binding # job[p].about}]
  /\ answers' = IF store[Len(store)] = job[p].record THEN answers \cup {job[p].record} ELSE answers
  /\ Goto(p, Idle)
  /\ UNCHANGED <<log, now, store, bindings>>

AttentionStep(p) ==
  \/ Confirmed(p)
  \/ \E t \in Readings : \/ \E b \in Bundles : Preview(p, b, t)
                         \/ \E b \in bindings : BeginRecord(p, b, t)
                         \/ CommitRecord(p, t)
  \/ /\ (\E t \in Readings : Consume(p, t)) \/ Abandon(p) \/ Supersede(p)
     /\ UNCHANGED attentionVars

AttentionNext == \/ \E p \in Processes : AttentionStep(p)
                 \/ \E b \in bindings : AnswerExisting(b)
                 \/ (Tick \/ \E m \in {"STOPPED", "RESEARCH"} : SetMode(m)) /\ UNCHANGED attentionVars

-----------------------------------------------------------------------------
(* Properties. *)

\* The history always replays, under receipts the runtime still vouches for: whatever
\* clocks, takeovers and STOPs came between a preview and its record, no process can
\* append what locks every later reader out, and what a caller was told stays on file.
HistoryStaysReadable ==
  /\ VerifiedReplay /\ Len(store) <= MaxRecords
  /\ \A r \in answers : \E n \in DOMAIN store : store[n] = r

=============================================================================
