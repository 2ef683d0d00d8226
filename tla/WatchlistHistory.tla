-------------------------- MODULE WatchlistHistory --------------------------
(***************************************************************************)
(* The offline watchlist: an operator previews a snapshot against the head *)
(* of the recorded history, and confirms exactly that preview.  A preview  *)
(* is a value its client keeps, so it may come back late, twice, in        *)
(* another process, or after the history, the mode or the snapshot's       *)
(* freshness moved on.                                                     *)
(***************************************************************************)
EXTENDS BoundaryCommands, FiniteSets

CONSTANTS
  Rankings,      \* [acquired, rows]: rows a sequence of [slug, addresses], by rank
  Validity,       \* the 120 seconds
  MaxShown,       \* bound: previews that clients hold
  MaxImports      \* 1000

\* Contract groups of a snapshot are not empty and do not overlap.
ASSUME SnapshotsAssumption ==
  /\ None \notin Rankings \cup Nat
  /\ \A s \in Rankings :
       /\ s.acquired \in Nat /\ s.rows \in Seq({s.rows[n] : n \in DOMAIN s.rows})
       /\ \A m, n \in DOMAIN s.rows : s.rows[m].addresses = s.rows[n].addresses => m = n
ASSUME ValidityAssumption == Validity \in Nat /\ MaxImports \in Nat

VARIABLES
  history,        \* the recorded snapshots
  previews,       \* what operators were shown
  told            \* what importers were told

watchlistVars == <<history, previews, told>>

WatchlistInit == history = <<>> /\ previews = {} /\ told = {}

Final(s) == s[Len(s)]
LastSnapshot(records) == IF records = <<>> THEN None ELSE Final(records).snapshot
StaleAt(s, t) == t >= s.acquired + Validity

-----------------------------------------------------------------------------
(* compareSnapshots. *)

\* A collection is its group of contracts, whatever it is called.
SameCollection(r, q) == r.addresses = q.addresses

RankOf(r, s) == IF s = None THEN None
                ELSE LET found == {n \in DOMAIN s.rows : SameCollection(s.rows[n], r)}
                     IN  IF found = {} THEN None ELSE CHOOSE n \in found : TRUE

Movement(s, previous) ==
  {[addresses |-> s.rows[n].addresses, rank |-> n, previous |-> RankOf(s.rows[n], previous)] : n \in DOMAIN s.rows}
  \cup (IF previous = None THEN {}
        ELSE {[addresses |-> previous.rows[n].addresses, rank |-> None, previous |-> n] :
                n \in {k \in DOMAIN previous.rows : RankOf(previous.rows[k], s) = None}})

-----------------------------------------------------------------------------
(* replay: what every transaction asks of the history before it goes on. *)

ImportReplays(records, n) ==
  LET r == records[n] IN
  /\ r.predecessor = LastSnapshot(SubSeq(records, 1, n - 1))
  /\ r.snapshot.acquired <= r.importedAt
  /\ n > 1 => /\ r.snapshot.acquired > records[n - 1].snapshot.acquired
              /\ r.sequence > records[n - 1].sequence
  /\ \A k \in 1..(n - 1) : records[k].snapshot # r.snapshot /\ records[k].auth # r.auth

Replays(records) == Len(records) <= MaxImports /\ \A n \in DOMAIN records : ImportReplays(records, n)

-----------------------------------------------------------------------------
PreviewImport(p, s, t) ==
  /\ Opened(p) /\ Replays(history) /\ s.acquired <= t
  /\ Cardinality(previews) < MaxShown
  /\ previews' = previews \cup
       {[snapshot |-> s, predecessor |-> LastSnapshot(history), process |-> p, revision |-> State.revision,
         at |-> t, rows |-> Movement(s, LastSnapshot(history)), stale |-> StaleAt(s, t)]}
  /\ UNCHANGED <<commandVars, history, told>>

\* importSnapshot up to the consumption: the grant must be the preview's.
Confirm(p, b, t) ==
  LET q == Grant(p, "watchlist_import", b.snapshot, t) IN
  /\ Granted(p, q) /\ b.process = p /\ b.revision = q.revision /\ q.mode = "RESEARCH"
  /\ Goto(p, Command(q, b, None))
  /\ UNCHANGED <<log, now, watchlistVars>>

Existing(s) == {n \in DOMAIN history : history[n].snapshot = s}

Answer(n, r) == [snapshot |-> r.snapshot, predecessor |-> r.predecessor, importedAt |-> r.importedAt, place |-> n]

Importable(p, b, at) ==
  /\ b.stale = StaleAt(b.snapshot, at)
  /\ b.predecessor = LastSnapshot(history)
  /\ history # <<>> => /\ b.snapshot.acquired > Final(history).snapshot.acquired
                       /\ job[p].sequence > Final(history).sequence
  /\ Len(history) < MaxImports
  /\ \A n \in DOMAIN history : history[n].sequence # job[p].sequence

\* The commit callback, under the runtime's lock and the store's.  A snapshot on
\* file is answered again, to whoever confirms the preview it was recorded from.
Import(p, t) ==
  LET b == job[p].about
      at == Checkpoint(p, t)
      r == [snapshot |-> b.snapshot, predecessor |-> b.predecessor, importedAt |-> job[p].checkedAt,
            auth |-> job[p].q.auth.id, sequence |-> job[p].sequence]
  IN
  /\ At(p, "receipted") /\ Replays(history)
  /\ Goto(p, Idle)
  /\ IF /\ Fresh(p, t)
        /\ b.snapshot.acquired <= b.at /\ b.at <= job[p].checkedAt /\ job[p].checkedAt <= at
     THEN \/ /\ \E n \in Existing(b.snapshot) :
                  /\ history[n].predecessor = b.predecessor
                  /\ told' = told \cup {Answer(n, history[n])}
             /\ UNCHANGED history
          \/ /\ Existing(b.snapshot) = {} /\ Importable(p, b, at)
             /\ history' = Append(history, r)
             /\ told' = told \cup {Answer(Len(history'), r)}
     ELSE UNCHANGED <<history, told>>
  /\ UNCHANGED <<log, now, previews>>

WatchlistStep(p) ==
  \/ \E t \in Readings : \/ \E s \in Rankings : PreviewImport(p, s, t)
                         \/ \E b \in previews : Confirm(p, b, t)
                         \/ Import(p, t)
  \/ /\ (\E t \in Readings : Consume(p, t)) \/ Abandon(p) \/ Supersede(p)
     /\ UNCHANGED watchlistVars

WatchlistNext == \/ \E p \in Processes : WatchlistStep(p)
                 \/ (Tick \/ \E m \in {"STOPPED", "RESEARCH"} : SetMode(m)) /\ UNCHANGED watchlistVars

-----------------------------------------------------------------------------
(* Properties. *)

\* Whatever is on file replays, and was imported as an operator saw it: under a check of
\* its own, after the snapshot it was compared with, with the movement and the freshness
\* that the preview showed, each collection in one row.  An answer given stays true.
ImportsAreConfirmed ==
  /\ Replays(history)
  /\ \A n \in DOMAIN history :
       LET r == history[n]
           before == LastSnapshot(SubSeq(history, 1, n - 1)) IN
       \E b \in previews :
         /\ b.snapshot = r.snapshot /\ b.at <= r.importedAt
         /\ b.rows = Movement(r.snapshot, before) /\ b.stale = StaleAt(r.snapshot, r.importedAt)
         /\ Vouched(r.sequence, "watchlist_import", r.snapshot, b.process, b.revision, r.importedAt)
         /\ \A x, y \in b.rows : x.addresses = y.addresses => x = y
  /\ \A a \in told : a.place \in DOMAIN history /\ a = Answer(a.place, history[a.place])

=============================================================================
