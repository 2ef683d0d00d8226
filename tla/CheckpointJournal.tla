-------------------------- MODULE CheckpointJournal --------------------------
(***************************************************************************)
(* The event store and the signed checkpoint journal beside it.            *)
(*                                                                         *)
(* SqliteEventStore is an append-only log of events chained by hash,       *)
(* shared by connections that serialize on SQLite's write lock.  An append *)
(* is idempotent by event id and by idempotency key; an exclusive          *)
(* transaction reads, decides and appends under one lock, and one failed   *)
(* append dooms it even when its caller swallows the error.                *)
(*                                                                         *)
(* The journal is a file of entries that chain by hash and each name a     *)
(* head of the store.  A signer appends under a lock file, inside an       *)
(* exclusive transaction of the store, and only to the head it expects; a  *)
(* verifier reads the journal and then, later, the store.  Either file may *)
(* be put back to an earlier copy while nobody is writing it.              *)
(*                                                                         *)
(* The hash of a row is the sequence of the rows up to it: what SHA-256    *)
(* over the previous hash makes of it as long as nobody finds a collision. *)
(***************************************************************************)
EXTENDS Naturals, Sequences, Functions

CONSTANTS
  Connections,    \* open store objects
  Requests,       \* what a caller may append: [id, key, content]
  None,           \* not supplied; nobody
  MaxEvents       \* bound: rows of the log

\* An id that the store draws is none that a caller supplies.
ASSUME IdsAssumption == \A r \in Requests : r.id \notin [drawn : Nat]

ASSUME ConnectionsAssumption == None \notin Connections

VARIABLES
  log,            \* the committed rows
  tx,             \* the exclusive transaction in progress
  told            \* request with a name |-> the row its caller was last given

storeVars == <<log, tx, told>>

NoTx == [owner |-> None, rows |-> <<>>, told |-> <<>>, failed |-> FALSE]

-----------------------------------------------------------------------------
(* The chain. *)

HashAt(rows, n) == SubSeq(rows, 1, n)
HeadHash(rows) == HashAt(rows, Len(rows))

\* A store given no id draws a fresh one.
EventId(rows, r) == IF r.id # None THEN r.id ELSE [drawn |-> Len(rows) + 1]

Row(rows, r) == [id |-> EventId(rows, r), key |-> r.key, content |-> r.content,
                 previous |-> HeadHash(rows)]

\* verifyIntegrityInternal: every row follows on the hash of the one before it.
StoreIntact(rows) == \A n \in 1..Len(rows) : rows[n].previous = HashAt(rows, n - 1)

-----------------------------------------------------------------------------
(* resolveDuplicate. *)

ById(rows, r) == {n \in 1..Len(rows) : r.id # None /\ rows[n].id = r.id}
ByKey(rows, r) == {n \in 1..Len(rows) : r.key # None /\ rows[n].key = r.key}

Known(rows, r) == ById(rows, r) \cup ByKey(rows, r) # {}

\* The row that a retry repeats: the same event under every name it is given.
Duplicate(rows, r) ==
  {n \in ById(rows, r) \cup ByKey(rows, r) :
     /\ r.id # None => rows[n].id = r.id
     /\ r.key # None => rows[n].key = r.key
     /\ rows[n].content = r.content}

\* The log after an append and the row its caller gets.  A known name with
\* another content is an EventConflictError.
Outcome(rows, r) ==
  IF Known(rows, r)
  THEN IF Duplicate(rows, r) = {} THEN [ok |-> FALSE, rows |-> rows, row |-> None]
       ELSE [ok |-> TRUE, rows |-> rows, row |-> rows[CHOOSE n \in Duplicate(rows, r) : TRUE]]
  ELSE [ok |-> TRUE, rows |-> Append(rows, Row(rows, r)), row |-> Row(rows, r)]

-----------------------------------------------------------------------------
Named == {r \in Requests : r.id # None \/ r.key # None}

Tell(answers, r, row) == IF r \in Named THEN [answers EXCEPT ![r] = row] ELSE answers

StoreInit == log = <<>> /\ tx = NoTx /\ told = [r \in Named |-> None]

Free == tx.owner = None

\* append outside a transaction: BEGIN IMMEDIATE, decide, insert, COMMIT.
AppendEvent(r) ==
  /\ Free /\ StoreIntact(log)
  /\ LET o == Outcome(log, r) IN
       /\ o.ok /\ Len(o.rows) <= MaxEvents
       /\ log' = o.rows
       /\ told' = Tell(told, r, o.row)
  /\ UNCHANGED tx

\* withExclusiveTransaction.
Begin(c) ==
  /\ Free /\ StoreIntact(log)
  /\ tx' = [owner |-> c, rows |-> log, told |-> told, failed |-> FALSE]
  /\ UNCHANGED <<log, told>>

\* append inside it; the caller may go on after a conflict.
AppendInside(c, r) ==
  /\ tx.owner = c
  /\ LET o == Outcome(tx.rows, r) IN
       /\ Len(o.rows) <= MaxEvents
       /\ tx' = IF o.ok THEN [tx EXCEPT !.rows = o.rows, !.told = Tell(tx.told, r, o.row)]
                ELSE [tx EXCEPT !.failed = TRUE]
  /\ UNCHANGED <<log, told>>

Commit(c) ==
  /\ tx.owner = c /\ ~tx.failed
  /\ log' = tx.rows /\ told' = tx.told /\ tx' = NoTx

\* The callback throws, its transaction was doomed, or its process dies.
Rollback(c) ==
  /\ tx.owner = c /\ tx' = NoTx
  /\ UNCHANGED <<log, told>>

StoreStep == \/ \E r \in Requests : AppendEvent(r) \/ \E c \in Connections : AppendInside(c, r)
             \/ \E c \in Connections : Begin(c) \/ Commit(c) \/ Rollback(c)

-----------------------------------------------------------------------------
(* The journal. *)

CONSTANTS
  Signers,          \* processes that hold the signing key
  MaxTime,          \* bound: signers' clocks
  MaxEntries,       \* bound: MAX_JOURNAL_ENTRIES
  MaxRollbacks,     \* bound: files put back
  MaxCrashes        \* bound: signers that die

ASSUME SignersAssumption == None \notin Signers /\ Connections \cap Signers = {}

VARIABLES
  journal,          \* the whole lines of the file
  torn,             \* it ends in a part of a line
  lock,             \* the lock file: whose, or None
  signer,           \* signer |-> where its append is and what it knows
  retained,         \* the journal head kept outside: a hash, <<>> for none
  reader,           \* the verification in progress
  verdict,          \* what the last verification reported, and of what store
  faults            \* [rollbacks, crashes] so far

journalVars == <<journal, torn, lock, signer, retained, reader, verdict, faults>>
checkpointVars == <<storeVars, journalVars>>

Times == 0..MaxTime

Idle == [phase |-> "idle", expected |-> <<>>, entry |-> None]
NoReader == [phase |-> "idle", entries |-> <<>>, valid |-> FALSE, pin |-> <<>>]
Report(status) == [status |-> status, pin |-> <<>>, rows |-> <<>>]
NoVerdict == Report("none")

-----------------------------------------------------------------------------
(* Journals. *)

\* The hash of an entry is the sequence of the entries up to it.
EntryHash(entries, n) == SubSeq(entries, 1, n)
JournalHead(entries) == EntryHash(entries, Len(entries))

\* verifyJournalBytes, of whole lines: each entry follows on the one before it,
\* and names a later head at no earlier time.
JournalChain(entries) ==
  \A n \in 1..Len(entries) :
    /\ entries[n].sequence = n
    /\ entries[n].previous = EntryHash(entries, n - 1)
    /\ entries[n].head > (IF n = 1 THEN 0 ELSE entries[n - 1].head)
    /\ n > 1 => entries[n].at >= entries[n - 1].at

\* The file as a reader finds it, against a head it trusts.
JournalValid(entries, pin) ==
  /\ ~torn
  /\ JournalChain(entries)
  /\ Len(pin) <= Len(entries) /\ EntryHash(entries, Len(pin)) = pin

\* storeContainsAnchor.
Contains(rows, e) == e.head \in 1..Len(rows) /\ HashAt(rows, e.head) = e.hash

-----------------------------------------------------------------------------
JournalInit ==
  /\ journal = <<>> /\ torn = FALSE /\ lock = None
  /\ signer = [s \in Signers |-> Idle]
  /\ retained = <<>> /\ reader = NoReader /\ verdict = NoVerdict
  /\ faults = [rollbacks |-> 0, crashes |-> 0]

CheckpointInit == StoreInit /\ JournalInit

Phase(s, p) == signer[s].phase = p
Move(s, p) == signer' = [signer EXCEPT ![s].phase = p]

\* The lock is given back on every way out.
Leave(s) == lock' = None /\ Move(s, "idle")

\* withJournalLock: O_EXCL, so a second signer is refused and changes nothing.
Lock(s) ==
  /\ Phase(s, "idle") /\ lock = None
  /\ lock' = s /\ Move(s, "locked")
  /\ UNCHANGED <<storeVars, journal, torn, retained, reader, verdict, faults>>

\* The journal has room and is the one this signer left.
Extends(s) == Len(journal) < MaxEntries /\ JournalHead(journal) = signer[s].expected

CheckJournal(s) ==
  /\ Phase(s, "locked")
  /\ IF JournalValid(journal, <<>>) /\ Extends(s)
     THEN Move(s, "checked") /\ UNCHANGED lock
     ELSE Leave(s)
  /\ UNCHANGED <<storeVars, journal, torn, retained, reader, verdict, faults>>

Previous == journal[Len(journal)]

\* What the store and the clock must be like for one more entry.
Signable(t) ==
  /\ log # <<>>
  /\ journal # <<>> => /\ Contains(log, Previous)
                       /\ Len(log) > Previous.head
                       /\ t >= Previous.at

Entry(t) == [sequence |-> Len(journal) + 1, previous |-> JournalHead(journal),
             hash |-> HeadHash(log), head |-> Len(log), at |-> t]

\* withExclusiveTransaction up to the write: the entry is signed.
Sign(s, t) ==
  /\ Phase(s, "checked") /\ Free
  /\ IF StoreIntact(log) /\ Signable(t)
     THEN /\ signer' = [signer EXCEPT ![s] = [phase |-> "signed", expected |-> @.expected,
                                            entry |-> Entry(t)]]
          /\ tx' = [NoTx EXCEPT !.owner = s, !.rows = log, !.told = told]
          /\ UNCHANGED lock
     ELSE Leave(s) /\ UNCHANGED tx
  /\ UNCHANGED <<log, told, journal, torn, retained, reader, verdict, faults>>

\* appendJournalBytes: the line reaches the file, or a part of it does.
WritePart(s) ==
  /\ Phase(s, "signed") /\ ~torn
  /\ torn' = TRUE
  /\ UNCHANGED <<storeVars, journal, lock, signer, retained, reader, verdict, faults>>

WriteLine(s) ==
  /\ Phase(s, "signed")
  /\ journal' = Append(journal, signer[s].entry) /\ torn' = FALSE
  /\ Move(s, "written")
  /\ UNCHANGED <<storeVars, lock, retained, reader, verdict, faults>>

WriteFails(s) ==
  /\ Phase(s, "signed")
  /\ Leave(s) /\ tx' = NoTx
  /\ UNCHANGED <<log, told, journal, torn, retained, reader, verdict, faults>>

\* COMMIT, and the journal is read again; what is not there is not reported.
Persist(s) ==
  /\ Phase(s, "written")
  /\ tx' = NoTx /\ lock' = None
  /\ signer' = IF /\ JournalValid(journal, <<>>) /\ journal # <<>>
                  /\ JournalHead(journal) = Append(signer[s].entry.previous, signer[s].entry)
               THEN [signer EXCEPT ![s] = [phase |-> "signedOff", entry |-> None,
                                           expected |-> JournalHead(journal)]]
               ELSE [signer EXCEPT ![s].phase = "idle"]
  /\ UNCHANGED <<log, told, journal, torn, retained, reader, verdict, faults>>

\* The caller keeps the new head outside of both files.
Retain(s) ==
  /\ Phase(s, "signedOff")
  /\ retained' = signer[s].expected /\ Move(s, "idle")
  /\ UNCHANGED <<storeVars, journal, torn, lock, reader, verdict, faults>>

\* A signer dies; its lock file stays.
Crash(s) ==
  /\ ~Phase(s, "down") /\ faults.crashes < MaxCrashes
  /\ faults' = [faults EXCEPT !.crashes = @ + 1]
  /\ Move(s, "down")
  /\ tx' = IF tx.owner = s THEN NoTx ELSE tx
  /\ UNCHANGED <<log, told, journal, torn, lock, retained, reader, verdict>>

\* A new signer is built with the head that was kept; an operator has removed
\* the lock of the dead one.
Open(s) ==
  /\ Phase(s, "down")
  /\ signer' = [signer EXCEPT ![s] = [Idle EXCEPT !.expected = retained]]
  /\ lock' = IF lock = s THEN None ELSE lock
  /\ UNCHANGED <<storeVars, journal, torn, retained, reader, verdict, faults>>

-----------------------------------------------------------------------------
(* Verification. *)

\* verifyJournal, with the retained head as the trusted one.
ReadJournal ==
  /\ reader.phase = "idle"
  /\ reader' = [phase |-> "read", entries |-> journal, pin |-> retained,
                valid |-> JournalValid(journal, retained)]
  /\ UNCHANGED <<storeVars, journal, torn, lock, signer, retained, verdict, faults>>

\* Mutant: an anchor is there when the store is long enough.
AnchorsHold_Length(entries, rows) ==
  \A n \in 1..Len(entries) : entries[n].head <= Len(rows)

\* checkStoreAnchor, for every entry.
AnchorsHold(entries, rows) == \A n \in 1..Len(entries) : Contains(rows, entries[n])

\* verify: in an exclusive transaction of the store, with the journal as it was read.
VerifyStore ==
  /\ reader.phase = "read" /\ Free
  /\ verdict' = IF ~reader.valid \/ ~StoreIntact(log) THEN Report("INVALID")
                ELSE IF reader.entries = <<>> THEN Report("UNANCHORED")
                ELSE IF ~AnchorsHold(reader.entries, log) THEN Report("INVALID")
                ELSE [status |-> "ANCHORED", pin |-> reader.pin, rows |-> log]
  /\ reader' = NoReader
  /\ UNCHANGED <<storeVars, journal, torn, lock, signer, retained, faults>>

-----------------------------------------------------------------------------
(* Copies put back. *)

Again == faults.rollbacks < MaxRollbacks /\ faults' = [faults EXCEPT !.rollbacks = @ + 1]

RestoreStore(n) ==
  /\ Free /\ Again /\ n < Len(log)
  /\ log' = HashAt(log, n)
  /\ told' = [r \in Named |-> None]
  /\ UNCHANGED <<tx, journal, torn, lock, signer, retained, reader, verdict>>

RestoreJournal(n) ==
  /\ \A s \in Signers : signer[s].phase \in {"idle", "signedOff", "down"}
  /\ Again /\ n < Len(journal)
  /\ journal' = EntryHash(journal, n) /\ torn' = FALSE
  /\ UNCHANGED <<storeVars, lock, signer, retained, reader, verdict>>

Restore == \E n \in 0..(MaxEvents - 1) : RestoreStore(n) \/ RestoreJournal(n)

SignerStep(s) ==
  \/ Lock(s) \/ CheckJournal(s) \/ (\E t \in Times : Sign(s, t)) \/ WritePart(s) \/ WriteLine(s)
  \/ WriteFails(s) \/ Persist(s) \/ Retain(s) \/ Crash(s) \/ Open(s)

CheckpointNext ==
  \/ StoreStep /\ UNCHANGED journalVars
  \/ \E s \in Signers : SignerStep(s)
  \/ ReadJournal \/ VerifyStore \/ Restore

CheckpointSpec == CheckpointInit /\ [][CheckpointNext]_checkpointVars

-----------------------------------------------------------------------------
(* Properties. *)

\* One name never stands for two events, and what a caller was told stays in the
\* log, as the event it asked for, however transactions, retries under either
\* name and conflicts that a callback swallowed were interleaved.
NamesAreUnique ==
  /\ StoreIntact(log)
  /\ \A m, n \in 1..Len(log) :
       m # n => log[m].id # log[n].id /\ (log[m].key = None \/ log[m].key # log[n].key)
  /\ \A r \in Named : told[r] # None =>
       /\ told[r] \in Range(log)
       /\ told[r].content = r.content
       /\ r.id # None => told[r].id = r.id
       /\ r.key # None => told[r].key = r.key

\* The whole lines of the journal are always one chain and vouch for one history
\* of the store, although several signers append, die in the middle, and find
\* either file put back to an earlier copy.  While neither was, the store has what
\* the journal vouches for, and the journal has every head that was kept.
JournalIsChain ==
  /\ JournalChain(journal)
  /\ \A n \in 2..Len(journal) : Contains(journal[n].hash, journal[n - 1])
  /\ faults.rollbacks = 0 => /\ AnchorsHold(journal, log)
                             /\ Len(retained) <= Len(journal)
                             /\ EntryHash(journal, Len(retained)) = retained

\* A store reported ANCHORED had, at that moment, every event that the head kept
\* outside vouches for, whatever was appended or put back between the reading of
\* the journal and that of the store.
AnchoredMeansContained ==
  verdict.status = "ANCHORED" =>
    \A n \in 1..Len(verdict.pin) : Contains(verdict.rows, verdict.pin[n])

\* Whatever callers, signers, crashes and restores interleave: an id or key names one
\* event, the journal is a chain of the signed heads, and a store reported ANCHORED had
\* every event that the head kept outside vouches for.
HistoryIsAnchored == NamesAreUnique /\ JournalIsChain /\ AnchoredMeansContained
=============================================================================
