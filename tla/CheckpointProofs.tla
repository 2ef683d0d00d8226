-------------------------- MODULE CheckpointProofs --------------------------
(***************************************************************************)
(* Theorems about CheckpointJournal and the event store in it, about the   *)
(* outbox and the verifier of ExternalAnchor, about the publication of     *)
(* archives, and about RecoverySet and SignedArchives, for every set of    *)
(* connections, signers, requests, checkpoints, publishers, processes and  *)
(* sessions and every bound.                                               *)
(*                                                                         *)
(* The invariant of the journal has four parts: the log and what a         *)
(* transaction would make of it are sound; the lock and the transaction    *)
(* belong to the signer that its phase says; the lines of the journal, and *)
(* the one a signer has signed, continue one another; and a verification   *)
(* in progress has read lines that begin with the head it trusts.  Those   *)
(* of the outbox, the verifier and the archives follow, each in a section  *)
(* of its own.                                                             *)
(***************************************************************************)
EXTENDS MCEvidence, FiniteSetTheorems, WellFoundedInduction, TLAPS

-----------------------------------------------------------------------------
(* Sequences.  A row holds the rows before it, so rows have no type of their *)
(* own: what matters is that a log is a sequence of something.               *)

IsSeq(s) == s \in Seq({s[i] : i \in 1..Len(s)})

\* A sequence over any set is a sequence of its elements.
LEMMA SeqIsSeq ==
  ASSUME NEW S, NEW s \in Seq(S)
  PROVE  IsSeq(s) /\ Len(s) \in Nat
  BY DEF IsSeq

\* The empty sequence is one.
LEMMA EmptyIsSeq == IsSeq(<<>>) /\ Len(<<>>) = 0
  BY DEF IsSeq

\* A sequence one longer.
LEMMA AppendFacts ==
  ASSUME NEW s, IsSeq(s), NEW e
  PROVE  /\ IsSeq(Append(s, e)) /\ Len(Append(s, e)) = Len(s) + 1 /\ Len(s) \in Nat
         /\ Append(s, e)[Len(s) + 1] = e
         /\ \A i \in 1..Len(s) : Append(s, e)[i] = s[i]
<1> DEFINE S == {s[i] : i \in 1..Len(s)} \cup {e}
<1>1. s \in Seq(S) /\ e \in S
  BY DEF IsSeq
<1>2. Append(s, e) \in Seq(S)
  BY <1>1
<1>3. IsSeq(Append(s, e))
  BY <1>2, SeqIsSeq
<1> HIDE DEF S
<1>4. QED
  BY <1>1, <1>3

\* Two sequences with the same elements in the same places are equal.
LEMMA SeqsEqual ==
  ASSUME NEW s, NEW u, IsSeq(s), IsSeq(u), Len(s) = Len(u), \A i \in 1..Len(s) : s[i] = u[i]
  PROVE  s = u
<1> DEFINE S == {s[i] : i \in 1..Len(s)} \cup {u[i] : i \in 1..Len(u)}
<1>1. s \in Seq(S) /\ u \in Seq(S)
  BY DEF IsSeq
<1> HIDE DEF S
<1>2. QED
  BY <1>1

\* A prefix.
LEMMA PrefixFacts ==
  ASSUME NEW s, IsSeq(s), NEW n \in 0..Len(s)
  PROVE  /\ IsSeq(SubSeq(s, 1, n)) /\ Len(SubSeq(s, 1, n)) = n
         /\ \A i \in 1..n : SubSeq(s, 1, n)[i] = s[i]
<1> DEFINE S == {s[i] : i \in 1..Len(s)}
<1>1. s \in Seq(S)
  BY DEF IsSeq
<1> HIDE DEF S
<1>2. /\ SubSeq(s, 1, n) \in Seq(S) /\ Len(SubSeq(s, 1, n)) = n
      /\ \A i \in 1..n : SubSeq(s, 1, n)[i] = s[i]
  BY <1>1
<1>3. QED
  BY <1>2, SeqIsSeq

\* The longest prefix and the shortest.
LEMMA WholePrefix ==
  ASSUME NEW s, IsSeq(s)
  PROVE  SubSeq(s, 1, Len(s)) = s /\ SubSeq(s, 1, 0) = <<>>
<1>1. Len(s) \in Nat
  BY DEF IsSeq
<1>2. SubSeq(s, 1, Len(s)) = s
  <2>1. IsSeq(SubSeq(s, 1, Len(s))) /\ Len(SubSeq(s, 1, Len(s))) = Len(s)
        /\ \A i \in 1..Len(s) : SubSeq(s, 1, Len(s))[i] = s[i]
    BY <1>1, PrefixFacts
  <2>2. QED
    BY <2>1, SeqsEqual
<1>3. SubSeq(s, 1, 0) = <<>>
  BY <1>1, PrefixFacts, SeqsEqual, EmptyIsSeq
<1>4. QED
  BY <1>2, <1>3

\* A prefix is not changed by what follows, nor by being taken in two steps.
LEMMA PrefixOfAppend ==
  ASSUME NEW s, IsSeq(s), NEW e, NEW n \in 0..Len(s)
  PROVE  SubSeq(Append(s, e), 1, n) = SubSeq(s, 1, n)
<1>1. n \in 0..Len(Append(s, e)) /\ IsSeq(Append(s, e)) /\ \A i \in 1..n : Append(s, e)[i] = s[i]
  BY AppendFacts
<1>2. QED
  BY <1>1, PrefixFacts, SeqsEqual

\* A prefix of a prefix.
LEMMA PrefixOfPrefix ==
  ASSUME NEW s, IsSeq(s), NEW m \in 0..Len(s), NEW n \in 0..m
  PROVE  SubSeq(SubSeq(s, 1, m), 1, n) = SubSeq(s, 1, n)
<1>1. IsSeq(SubSeq(s, 1, m)) /\ Len(SubSeq(s, 1, m)) = m /\ n \in 0..Len(s)
      /\ \A i \in 1..m : SubSeq(s, 1, m)[i] = s[i]
  BY PrefixFacts DEF IsSeq
<1>2. QED
  BY <1>1, PrefixFacts, SeqsEqual

-----------------------------------------------------------------------------
(* The event store. *)

NamesDiffer(rows) ==
  \A m, n \in 1..Len(rows) :
    m # n => rows[m].id # rows[n].id /\ (rows[m].key = None \/ rows[m].key # rows[n].key)

\* An id that was drawn is drawn from the place of its row, so none is drawn twice.
DrawnInPlace(rows) ==
  \A n \in 1..Len(rows) : rows[n].id \in [drawn : Nat] => rows[n].id = [drawn |-> n]

LogSound(rows) == IsSeq(rows) /\ StoreIntact(rows) /\ NamesDiffer(rows) /\ DrawnInPlace(rows)

Answers(rows, answers) ==
  /\ answers = [r \in Named |-> answers[r]]
  /\ \A r \in Named : answers[r] # None =>
       /\ answers[r] \in Range(rows)
       /\ answers[r].content = r.content
       /\ r.id # None => answers[r].id = r.id
       /\ r.key # None => answers[r].key = r.key

\* What the store and a transaction in progress have in common.
StoreSound(rows, answers) == LogSound(rows) /\ Answers(rows, answers)

\* What is in the range of a sequence is at one of its places.
LEMMA InRange ==
  ASSUME NEW s, IsSeq(s), NEW x
  PROVE  x \in Range(s) <=> \E i \in 1..Len(s) : s[i] = x
<1>1. DOMAIN s = 1..Len(s)
  BY DEF IsSeq
<1>2. QED
  BY <1>1 DEF Range

\* A new row is under no name that is taken.
LEMMA NewRowSound ==
  ASSUME NEW rows, LogSound(rows), NEW r \in Requests, ~Known(rows, r)
  PROVE  LogSound(Append(rows, Row(rows, r)))
<1> DEFINE row == Row(rows, r)
           more == Append(rows, row)
<1>1. IsSeq(rows) /\ Len(rows) \in Nat
  BY DEF LogSound, IsSeq
<1>2. /\ IsSeq(more) /\ Len(more) = Len(rows) + 1 /\ more[Len(rows) + 1] = row
      /\ \A i \in 1..Len(rows) : more[i] = rows[i]
  BY <1>1, AppendFacts
<1>3. /\ row.id = IF r.id # None THEN r.id ELSE [drawn |-> Len(rows) + 1]
      /\ row.key = r.key /\ row.previous = rows
  BY <1>1, WholePrefix DEF Row, EventId, HeadHash, HashAt
<1>4. \A n \in 1..Len(rows) : /\ r.id # None => rows[n].id # r.id
                              /\ r.key # None => rows[n].key # r.key
  BY DEF Known, ById, ByKey
<1>5. \A n \in 1..Len(rows) : rows[n].id # row.id
  <2>1. CASE r.id = None
    <3>1. ASSUME NEW n \in 1..Len(rows), rows[n].id = [drawn |-> Len(rows) + 1] PROVE FALSE
      <4>1. rows[n].id = [drawn |-> n]
        BY <1>1, <3>1 DEF LogSound, DrawnInPlace
      <4>2. [drawn |-> n].drawn = [drawn |-> Len(rows) + 1].drawn
        BY <3>1, <4>1
      <4>3. QED
        BY <1>1, <4>2
    <3>2. QED
      BY <1>3, <2>1, <3>1
  <2>2. CASE r.id # None
    BY <1>3, <1>4, <2>2
  <2>3. QED
    BY <2>1, <2>2
<1>6. \A n \in 0..Len(rows) : SubSeq(more, 1, n) = SubSeq(rows, 1, n)
  BY <1>1, PrefixOfAppend
<1> HIDE DEF row, more
<1>7. StoreIntact(more)
  <2> SUFFICES ASSUME NEW n \in 1..Len(more) PROVE more[n].previous = HashAt(more, n - 1)
    BY DEF StoreIntact
  <2>1. HashAt(more, n - 1) = HashAt(rows, n - 1)
    BY <1>1, <1>2, <1>6 DEF HashAt
  <2>2. CASE n = Len(rows) + 1
    <3>1. HashAt(rows, n - 1) = rows
      BY <1>1, <2>2, WholePrefix DEF HashAt
    <3>2. QED
      BY <1>2, <1>3, <2>1, <2>2, <3>1
  <2>3. CASE n \in 1..Len(rows)
    BY <1>2, <2>1, <2>3 DEF LogSound, StoreIntact
  <2>4. QED
    BY <1>1, <1>2, <2>2, <2>3
<1>8. NamesDiffer(more)
  <2> SUFFICES ASSUME NEW m \in 1..Len(more), NEW n \in 1..Len(more), m # n
               PROVE  more[m].id # more[n].id /\ (more[m].key = None \/ more[m].key # more[n].key)
    BY DEF NamesDiffer
  <2>1. CASE m \in 1..Len(rows) /\ n \in 1..Len(rows)
    BY <1>2, <2>1 DEF LogSound, NamesDiffer
  <2>2. CASE m = Len(rows) + 1 /\ n \in 1..Len(rows)
    BY <1>2, <1>3, <1>4, <1>5, <2>2
  <2>3. CASE m \in 1..Len(rows) /\ n = Len(rows) + 1
    BY <1>2, <1>3, <1>4, <1>5, <2>3
  <2>4. QED
    BY <1>1, <1>2, <2>1, <2>2, <2>3
<1>9. DrawnInPlace(more)
  <2> SUFFICES ASSUME NEW n \in 1..Len(more), more[n].id \in [drawn : Nat]
               PROVE  more[n].id = [drawn |-> n]
    BY DEF DrawnInPlace
  <2>1. CASE n \in 1..Len(rows)
    BY <1>2, <2>1 DEF LogSound, DrawnInPlace
  <2>2. CASE n = Len(rows) + 1
    BY <1>2, <1>3, <2>2, IdsAssumption
  <2>3. QED
    BY <1>1, <1>2, <2>1, <2>2
<1>10. QED
  BY <1>2, <1>7, <1>8, <1>9 DEF LogSound, more, row

\* The row a caller is given is in the log and is the event it asked for.
LEMMA OutcomeSound ==
  ASSUME NEW rows, NEW answers, StoreSound(rows, answers), NEW r \in Requests,
         Outcome(rows, r).ok
  PROVE  /\ StoreSound(Outcome(rows, r).rows, Tell(answers, r, Outcome(rows, r).row))
         /\ \/ Outcome(rows, r).rows = rows
            \/ Outcome(rows, r).rows = Append(rows, Row(rows, r))
<1> PICK o : o = Outcome(rows, r)
  OBVIOUS
<1>1. LogSound(rows) /\ IsSeq(rows) /\ Len(rows) \in Nat
  BY DEF StoreSound, LogSound, IsSeq
<1>2. /\ LogSound(o.rows) /\ IsSeq(o.rows)
      /\ o.rows = rows \/ o.rows = Append(rows, Row(rows, r))
      /\ \A i \in 1..Len(rows) : i \in 1..Len(o.rows) /\ o.rows[i] = rows[i]
      /\ \E i \in 1..Len(o.rows) : o.rows[i] = o.row
      /\ o.row.content = r.content
      /\ r.id # None => o.row.id = r.id
      /\ r.key # None => o.row.key = r.key
  <2>1. CASE Known(rows, r)
    <3>1. Duplicate(rows, r) # {}
      BY <2>1 DEF Outcome
    <3>2. PICK n \in Duplicate(rows, r) : n = CHOOSE m \in Duplicate(rows, r) : TRUE
      BY <3>1
    <3>3. o.rows = rows /\ o.row = rows[n]
      BY <2>1, <3>1, <3>2 DEF Outcome
    <3>4. n \in 1..Len(rows) /\ rows[n].content = r.content
          /\ (r.id # None => rows[n].id = r.id) /\ (r.key # None => rows[n].key = r.key)
      BY <3>2 DEF Duplicate, ById, ByKey
    <3>5. QED
      BY <1>1, <3>3, <3>4
  <2>2. CASE ~Known(rows, r)
    <3>1. o.rows = Append(rows, Row(rows, r)) /\ o.row = Row(rows, r)
      BY <2>2 DEF Outcome
    <3>2. o.row.content = r.content /\ (r.id # None => o.row.id = r.id) /\ o.row.key = r.key
      BY <3>1 DEF Row, EventId
    <3>3. LogSound(o.rows) /\ IsSeq(o.rows)
      BY <1>1, <2>2, <3>1, NewRowSound DEF LogSound
    <3>4. /\ Len(o.rows) = Len(rows) + 1 /\ o.rows[Len(rows) + 1] = o.row
          /\ \A i \in 1..Len(rows) : o.rows[i] = rows[i]
      BY <1>1, <3>1, AppendFacts
    <3>5. QED
      BY <1>1, <3>1, <3>2, <3>3, <3>4
  <2>3. QED
    BY <2>1, <2>2
<1>3. Answers(o.rows, Tell(answers, r, o.row))
  <2>1. Tell(answers, r, o.row)
        = [q \in Named |-> IF q = r THEN o.row ELSE answers[q]]
    BY DEF Tell, StoreSound, Answers
  <2>2. ASSUME NEW x, x \in Range(rows) PROVE x \in Range(o.rows)
    BY <1>1, <1>2, <2>2, InRange
  <2>3. o.row \in Range(o.rows)
    BY <1>2, InRange
  <2>4. QED
    BY <1>2, <2>1, <2>2, <2>3 DEF StoreSound, Answers
<1>4. QED
  BY <1>2, <1>3 DEF StoreSound

-----------------------------------------------------------------------------
\* An earlier copy of a log is as sound as the log.
LEMMA CopySound ==
  ASSUME NEW rows, LogSound(rows), NEW n \in 0..Len(rows)
  PROVE  LogSound(HashAt(rows, n))
<1> DEFINE less == SubSeq(rows, 1, n)
<1>1. IsSeq(rows) /\ Len(rows) \in Nat
  BY DEF LogSound, IsSeq
<1>2. IsSeq(less) /\ Len(less) = n /\ \A i \in 1..n : less[i] = rows[i]
  BY <1>1, PrefixFacts
<1>3. ASSUME NEW i \in 1..n PROVE SubSeq(less, 1, i - 1) = SubSeq(rows, 1, i - 1)
  <2>1. i - 1 \in 0..n
    BY <1>1
  <2>2. QED
    BY <1>1, <2>1, PrefixOfPrefix
<1> HIDE DEF less
<1>4. StoreIntact(less)
  <2> SUFFICES ASSUME NEW i \in 1..n PROVE less[i].previous = SubSeq(less, 1, i - 1)
    BY <1>2 DEF StoreIntact, HashAt
  <2>1. i \in 1..Len(rows) /\ less[i] = rows[i]
    BY <1>1, <1>2
  <2>2. rows[i].previous = SubSeq(rows, 1, i - 1)
    BY <2>1 DEF LogSound, StoreIntact, HashAt
  <2>3. QED
    BY <1>3, <2>1, <2>2
<1>5. NamesDiffer(less)
  BY <1>1, <1>2 DEF NamesDiffer, LogSound
<1>6. DrawnInPlace(less)
  BY <1>1, <1>2 DEF DrawnInPlace, LogSound
<1>7. QED
  BY <1>2, <1>4, <1>5, <1>6 DEF LogSound, HashAt, less

(* The invariant. *)

Begins(start, whole) == Len(start) <= Len(whole) /\ SubSeq(whole, 1, Len(start)) = start

Busy(s) == signer[s].phase \in {"locked", "checked", "signed", "written"}
Holding(s) == signer[s].phase \in {"signed", "written"}

\* The log is sound, and so is what a transaction of a connection would make of it.
StoreInv ==
  /\ StoreSound(log, told)
  /\ tx = [owner |-> tx.owner, rows |-> tx.rows, told |-> tx.told, failed |-> tx.failed]
  /\ tx.owner \in Connections => StoreSound(tx.rows, tx.told) /\ Begins(log, tx.rows)

\* The lock is the busy signer's, and the transaction that of a signer who writes.
SignersInv ==
  /\ signer = [s \in Signers |-> signer[s]]
  /\ \A s \in Signers :
       /\ signer[s] = [phase |-> signer[s].phase, expected |-> signer[s].expected,
                       entry |-> signer[s].entry]
       /\ IsSeq(signer[s].expected)
       /\ Busy(s) => lock = s
       /\ Holding(s) <=> tx.owner = s

EntrySound(e) == IsSeq(e.hash) /\ e.head = Len(e.hash)

\* The next line of the journal: what WriteLine may append.
Succeeds(e) ==
  /\ EntrySound(e)
  /\ e.sequence = Len(journal) + 1 /\ e.previous = journal /\ e.hash = log /\ e.head > 0
  /\ journal # <<>> => /\ Contains(log, Previous)
                       /\ e.head > Previous.head /\ e.at >= Previous.at

\* The lines vouch for one another; while nothing was put back, also for the log, and
\* what was kept of them is theirs.
JournalInv ==
  /\ IsSeq(journal) /\ JournalChain(journal)
  /\ \A n \in 1..Len(journal) : EntrySound(journal[n])
  /\ \A n \in 2..Len(journal) : Contains(journal[n].hash, journal[n - 1])
  /\ IsSeq(retained)
  /\ faults = [rollbacks |-> faults.rollbacks, crashes |-> faults.crashes]
  /\ faults.rollbacks \in Nat
  /\ \A s \in Signers : signer[s].phase = "signed" => Succeeds(signer[s].entry)
  /\ faults.rollbacks = 0 =>
       /\ AnchorsHold(journal, log)
       /\ Begins(retained, journal)
       /\ \A s \in Signers : signer[s].phase = "signedOff" => Begins(signer[s].expected, journal)

\* A verification in progress has read lines that begin with the head it trusts.
ReaderInv ==
  /\ reader.phase = "read" /\ reader.valid =>
       IsSeq(reader.entries) /\ IsSeq(reader.pin) /\ Begins(reader.pin, reader.entries)
  /\ AnchoredMeansContained

CheckpointInv == StoreInv /\ SignersInv /\ JournalInv /\ ReaderInv

\* Two empty files satisfy the invariant.
LEMMA CheckpointInitially == CheckpointInit => CheckpointInv
<1> SUFFICES ASSUME CheckpointInit PROVE CheckpointInv
  OBVIOUS
<1> USE DEF CheckpointInit, StoreInit, JournalInit, NoTx, Idle, NoReader, NoVerdict, Report
<1>1. StoreInv
  BY EmptyIsSeq, ConnectionsAssumption
  DEF StoreInv, StoreSound, LogSound, StoreIntact, NamesDiffer, DrawnInPlace, Answers
<1>2. SignersInv
  BY EmptyIsSeq, SignersAssumption DEF SignersInv, Busy, Holding
<1>3. JournalInv
  BY EmptyIsSeq, WholePrefix DEF JournalInv, JournalChain, AnchorsHold, Begins
<1>4. ReaderInv
  BY DEF ReaderInv, AnchoredMeansContained
<1>5. QED
  BY <1>1, <1>2, <1>3, <1>4 DEF CheckpointInv

\* A step of the store that only appends to the log, and not while a signer writes, breaks no
\* line of the journal.
LEMMA AppendingKeeps ==
  ASSUME JournalInv, UNCHANGED journalVars, IsSeq(log), IsSeq(log'), Begins(log, log'),
         \A s \in Signers : signer[s].phase # "signed"
  PROVE  JournalInv'
<1>1. ASSUME NEW e, EntrySound(e), Contains(log, e) PROVE Contains(log', e)
  <2>1. Len(log) \in Nat /\ Len(log') \in Nat
    BY DEF IsSeq
  <2>2. SubSeq(SubSeq(log', 1, Len(log)), 1, e.head) = SubSeq(log', 1, e.head)
    BY <1>1, <2>1, PrefixOfPrefix DEF Begins, Contains
  <2>3. QED
    BY <1>1, <2>1, <2>2 DEF Begins, Contains, HashAt
<1>2. faults.rollbacks = 0 => AnchorsHold(journal, log)'
  BY <1>1 DEF JournalInv, AnchorsHold, journalVars
<1>3. QED
  BY <1>2 DEF JournalInv, journalVars, JournalChain, EntryHash, Contains, HashAt, EntrySound, Begins, AnchorsHold

-----------------------------------------------------------------------------
(* Steps of the store. *)

\* A sequence begins with itself and with what it was appended to.
LEMMA BeginsFacts ==
  ASSUME NEW s, IsSeq(s)
  PROVE  Begins(s, s) /\ (\A e : Begins(s, Append(s, e))) /\ Begins(<<>>, s)
<1>1. Len(s) \in Nat
  BY DEF IsSeq
<1>2. Begins(s, s)
  BY <1>1, WholePrefix DEF Begins
<1>3. ASSUME NEW e PROVE Begins(s, Append(s, e))
  BY <1>1, WholePrefix, PrefixOfAppend, AppendFacts DEF Begins
<1>4. Begins(<<>>, s)
  BY <1>1, WholePrefix, EmptyIsSeq DEF Begins
<1>5. QED
  BY <1>2, <1>3, <1>4

\* A beginning of a beginning.
LEMMA BeginsTrans ==
  ASSUME NEW s, NEW u, NEW v, IsSeq(s), IsSeq(u), IsSeq(v), Begins(s, u), Begins(u, v)
  PROVE  Begins(s, v)
<1>1. Len(s) \in Nat /\ Len(u) \in Nat /\ Len(v) \in Nat
  BY DEF IsSeq
<1>2. SubSeq(SubSeq(v, 1, Len(u)), 1, Len(s)) = SubSeq(v, 1, Len(s))
  BY <1>1, PrefixOfPrefix DEF Begins
<1>3. QED
  BY <1>1, <1>2 DEF Begins

\* What an outcome makes of a log begins with the log.
LEMMA OutcomeBegins ==
  ASSUME NEW rows, NEW answers, StoreSound(rows, answers), NEW r \in Requests,
         Outcome(rows, r).ok
  PROVE  Begins(rows, Outcome(rows, r).rows)
<1>1. IsSeq(rows)
  BY DEF StoreSound, LogSound
<1>2. QED
  BY <1>1, OutcomeSound, BeginsFacts

\* While nobody holds the store, or a connection does, no signer has signed a line.
LEMMA NoSigned ==
  ASSUME CheckpointInv, tx.owner \in Connections \cup {None}
  PROVE  \A s \in Signers : ~Holding(s)
  BY SignersAssumption DEF CheckpointInv, SignersInv

\* What callers do to the store keeps the invariant: a failed append dooms the transaction
\* and a commit replaces the log by one that begins with it.
LEMMA StoreStepKeeps ==
  ASSUME CheckpointInv, StoreStep, UNCHANGED journalVars
  PROVE  CheckpointInv'
<1>1. StoreSound(log, told) /\ IsSeq(log)
  BY DEF CheckpointInv, StoreInv, StoreSound, LogSound
<1>2. ReaderInv'
  BY DEF CheckpointInv, ReaderInv, AnchoredMeansContained, journalVars
<1>3. ASSUME UNCHANGED tx, \A s \in Signers : ~Holding(s)
      PROVE  SignersInv'
  BY <1>3 DEF CheckpointInv, SignersInv, Holding, Busy, journalVars
<1>4. ASSUME NEW r \in Requests, AppendEvent(r) PROVE CheckpointInv'
  <2> PICK o : o = Outcome(log, r)
    OBVIOUS
  <2>1. o.ok /\ log' = o.rows /\ told' = Tell(told, r, o.row) /\ UNCHANGED tx /\ tx.owner = None
    BY <1>4 DEF AppendEvent, Free
  <2>2. \A s \in Signers : ~Holding(s)
    BY <2>1, NoSigned
  <2>3. StoreSound(log, told)' /\ Begins(log, log')
    BY <1>1, <2>1, OutcomeSound, OutcomeBegins
  <2>4. StoreInv'
    BY <2>1, <2>3, ConnectionsAssumption DEF StoreInv, CheckpointInv
  <2>5. JournalInv'
    BY <1>1, <2>2, <2>3, AppendingKeeps DEF CheckpointInv, StoreSound, LogSound, Holding
  <2>6. QED
    BY <1>2, <1>3, <2>1, <2>2, <2>4, <2>5 DEF CheckpointInv
<1>5. ASSUME NEW c \in Connections, Begin(c) PROVE CheckpointInv'
  <2>1. UNCHANGED <<log, told>> /\ tx.owner = None
        /\ tx' = [owner |-> c, rows |-> log, told |-> told, failed |-> FALSE]
    BY <1>5 DEF Begin, Free
  <2>2. \A s \in Signers : ~Holding(s)
    BY <2>1, NoSigned
  <2>3. StoreInv'
    BY <1>1, <2>1, BeginsFacts DEF StoreInv, CheckpointInv
  <2>4. SignersInv'
    BY <2>1, <2>2, SignersAssumption DEF CheckpointInv, SignersInv, Holding, Busy, journalVars
  <2>5. JournalInv'
    BY <1>1, <2>1, <2>2, AppendingKeeps, BeginsFacts DEF CheckpointInv, Holding
  <2>6. QED
    BY <1>2, <2>3, <2>4, <2>5 DEF CheckpointInv
<1>6. ASSUME NEW c \in Connections, NEW r \in Requests, AppendInside(c, r) PROVE CheckpointInv'
  <2> PICK o : o = Outcome(tx.rows, r)
    OBVIOUS
  <2>1. /\ UNCHANGED <<log, told>> /\ tx.owner = c
        /\ tx' = IF o.ok THEN [tx EXCEPT !.rows = o.rows, !.told = Tell(tx.told, r, o.row)]
                 ELSE [tx EXCEPT !.failed = TRUE]
    BY <1>6 DEF AppendInside
  <2>2. StoreSound(tx.rows, tx.told) /\ Begins(log, tx.rows) /\ IsSeq(tx.rows)
    BY <2>1 DEF CheckpointInv, StoreInv, StoreSound, LogSound
  <2>3. tx = [owner |-> tx.owner, rows |-> tx.rows, told |-> tx.told, failed |-> tx.failed]
    BY DEF CheckpointInv, StoreInv
  <2>4. /\ tx' = [owner |-> tx'.owner, rows |-> tx'.rows, told |-> tx'.told, failed |-> tx'.failed]
        /\ tx'.owner = c
        /\ tx'.rows = IF o.ok THEN o.rows ELSE tx.rows
        /\ tx'.told = IF o.ok THEN Tell(tx.told, r, o.row) ELSE tx.told
    BY <2>1, <2>3
  <2>5. StoreSound(tx'.rows, tx'.told) /\ Begins(log, tx'.rows)
    <3>1. CASE ~o.ok
      BY <2>2, <2>4, <3>1
    <3>2. CASE o.ok
      <4>1. StoreSound(o.rows, tx'.told) /\ Begins(tx.rows, o.rows)
        BY <2>2, <2>4, <3>2, OutcomeSound, OutcomeBegins
      <4>2. IsSeq(o.rows)
        BY <4>1 DEF StoreSound, LogSound
      <4>3. QED
        BY <1>1, <2>2, <2>4, <3>2, <4>1, <4>2, BeginsTrans
    <3>3. QED
      BY <3>1, <3>2
  <2>6. StoreInv'
    BY <1>1, <2>1, <2>4, <2>5 DEF StoreInv, StoreSound, LogSound, StoreIntact, Answers
  <2>7. SignersInv'
    BY <2>1, <2>4, SignersAssumption DEF CheckpointInv, SignersInv, Holding, Busy, journalVars
  <2>8. JournalInv'
    BY <1>1, <2>1, NoSigned, AppendingKeeps, BeginsFacts DEF CheckpointInv, Holding
  <2>9. QED
    BY <1>2, <2>6, <2>7, <2>8 DEF CheckpointInv
<1>7. ASSUME NEW c \in Connections, Commit(c) PROVE CheckpointInv'
  <2>1. log' = tx.rows /\ told' = tx.told /\ tx' = NoTx /\ tx.owner = c
    BY <1>7 DEF Commit
  <2>2. StoreSound(log, told)' /\ Begins(log, log')
    BY <2>1 DEF CheckpointInv, StoreInv, StoreSound, LogSound, StoreIntact, Answers
  <2>3. StoreInv'
    BY <2>1, <2>2, ConnectionsAssumption DEF StoreInv, NoTx
  <2>4. \A s \in Signers : ~Holding(s)
    BY <2>1, NoSigned
  <2>5. SignersInv'
    BY <2>1, <2>4, SignersAssumption DEF CheckpointInv, SignersInv, Holding, Busy, journalVars, NoTx
  <2>6. JournalInv'
    BY <1>1, <2>2, <2>4, AppendingKeeps DEF CheckpointInv, StoreSound, LogSound, Holding
  <2>7. QED
    BY <1>2, <2>3, <2>5, <2>6 DEF CheckpointInv
<1>8. ASSUME NEW c \in Connections, Rollback(c) PROVE CheckpointInv'
  <2>1. UNCHANGED <<log, told>> /\ tx' = NoTx /\ tx.owner = c
    BY <1>8 DEF Rollback
  <2>2. StoreInv'
    BY <1>1, <2>1, ConnectionsAssumption DEF StoreInv, NoTx
  <2>3. \A s \in Signers : ~Holding(s)
    BY <2>1, NoSigned
  <2>4. SignersInv'
    BY <2>1, <2>3, SignersAssumption DEF CheckpointInv, SignersInv, Holding, Busy, journalVars, NoTx
  <2>5. JournalInv'
    BY <1>1, <2>1, <2>3, AppendingKeeps, BeginsFacts DEF CheckpointInv, Holding
  <2>6. QED
    BY <1>2, <2>2, <2>4, <2>5 DEF CheckpointInv
<1>9. QED
  BY <1>4, <1>5, <1>6, <1>7, <1>8 DEF StoreStep

-----------------------------------------------------------------------------
(* Signers. *)

\* A step that writes neither file: what it retains and what its signers report is the
\* journal's, and no signer has a line to write that it had not.
LEMMA FilesKept ==
  ASSUME JournalInv, UNCHANGED <<log, journal>>,
         faults' = [rollbacks |-> faults.rollbacks, crashes |-> faults'.crashes],
         IsSeq(retained'), faults.rollbacks = 0 => Begins(retained', journal),
         \A s \in Signers :
           /\ signer'[s].phase = "signed" =>
                signer[s].phase = "signed" /\ signer'[s].entry = signer[s].entry
           /\ signer'[s].phase = "signedOff" /\ faults.rollbacks = 0 =>
                Begins(signer'[s].expected, journal)
  PROVE  JournalInv'
<1>1. faults'.rollbacks = faults.rollbacks
  OBVIOUS
<1>2. faults' = [rollbacks |-> faults'.rollbacks, crashes |-> faults'.crashes]
  BY <1>1
<1>3. (\A s \in Signers : signer[s].phase = "signed" => Succeeds(signer[s].entry))'
  BY DEF JournalInv, Succeeds, Previous, Contains, HashAt, EntrySound
<1>4. (\A s \in Signers : signer[s].phase = "signedOff" /\ faults.rollbacks = 0 =>
          Begins(signer[s].expected, journal))'
  BY <1>1
<1>5. JournalChain(journal)' /\ (\A n \in 1..Len(journal) : EntrySound(journal[n]))'
      /\ (\A n \in 2..Len(journal) : Contains(journal[n].hash, journal[n - 1]))'
      /\ (faults.rollbacks = 0 => AnchorsHold(journal, log)')
  BY DEF JournalInv, JournalChain, EntryHash, EntrySound, Contains, HashAt, AnchorsHold
<1>6. (IsSeq(journal) /\ IsSeq(retained) /\ faults.rollbacks \in Nat
          /\ (faults.rollbacks = 0 => Begins(retained, journal)))'
  BY <1>1 DEF JournalInv
<1>7. QED
  BY <1>1, <1>2, <1>3, <1>4, <1>5, <1>6 DEF JournalInv

\* What JournalInv says of the things that a step leaves as they are.
LEMMA JournalFacts ==
  ASSUME CheckpointInv
  PROVE  /\ JournalInv /\ IsSeq(journal) /\ IsSeq(retained)
         /\ faults = [rollbacks |-> faults.rollbacks, crashes |-> faults.crashes]
         /\ faults.rollbacks = 0 => Begins(retained, journal)
         /\ \A s \in Signers :
              signer[s].phase = "signedOff" /\ faults.rollbacks = 0 => Begins(signer[s].expected, journal)
  BY DEF CheckpointInv, JournalInv

\* Neither the store nor a verification is touched.
LEMMA OthersKept ==
  ASSUME CheckpointInv, UNCHANGED <<log, told, reader, verdict>>,
         UNCHANGED tx \/ tx' = NoTx
  PROVE  StoreInv' /\ ReaderInv'
<1>1. StoreInv'
  BY ConnectionsAssumption DEF CheckpointInv, StoreInv, StoreSound, LogSound, StoreIntact, Answers, NoTx
<1>2. ReaderInv'
  BY DEF CheckpointInv, ReaderInv, AnchoredMeansContained
<1>3. QED
  BY <1>1, <1>2

\* What a move of one signer does to the records of all.
Moved(s, p) ==
  /\ signer' = [q \in Signers |-> signer'[q]]
  /\ \A q \in Signers :
       /\ signer'[q] = [phase |-> signer'[q].phase, expected |-> signer'[q].expected,
                        entry |-> signer'[q].entry]
       /\ signer'[q].phase = IF q = s THEN p ELSE signer[q].phase
       /\ signer'[q].expected = signer[q].expected
       /\ signer'[q].entry = signer[q].entry

\* Only the phase of the signer that moves is another.
LEMMA MoveFacts ==
  ASSUME CheckpointInv, NEW s \in Signers, NEW p, Move(s, p)
  PROVE  Moved(s, p)
<1>1. /\ signer = [r \in Signers |-> signer[r]]
      /\ \A q \in Signers : signer[q] = [phase |-> signer[q].phase, expected |-> signer[q].expected,
                                         entry |-> signer[q].entry]
  BY DEF CheckpointInv, SignersInv
<1>2. signer' = [signer EXCEPT ![s] = [signer[s] EXCEPT !.phase = p]]
  BY DEF Move
<1>3. \A q \in Signers : signer'[q] = IF q = s THEN [signer[s] EXCEPT !.phase = p] ELSE signer[q]
  BY <1>1, <1>2
<1>4. [signer[s] EXCEPT !.phase = p] = [phase |-> p, expected |-> signer[s].expected,
                                        entry |-> signer[s].entry]
  BY <1>1
<1>5. signer' = [r \in Signers |-> signer'[r]]
  BY <1>1, <1>2
<1>6. QED
  BY <1>1, <1>3, <1>4, <1>5 DEF Moved

\* A second signer is refused.
LEMMA LockKeeps ==
  ASSUME CheckpointInv, NEW s \in Signers, Lock(s)
  PROVE  CheckpointInv'
<1>1. Move(s, "locked") /\ lock' = s /\ lock = None /\ signer[s].phase = "idle"
      /\ UNCHANGED <<storeVars, journal, torn, retained, reader, verdict, faults>>
  BY DEF Lock, Phase
<1>2. Moved(s, "locked")
  BY <1>1, MoveFacts
<1>3. SignersInv'
  BY <1>1, <1>2, SignersAssumption DEF CheckpointInv, SignersInv, Busy, Holding, storeVars, Moved
<1>4. JournalInv'
  BY <1>1, <1>2, JournalFacts, FilesKept DEF storeVars, Moved
<1>5. StoreInv' /\ ReaderInv'
  BY <1>1, OthersKept DEF storeVars
<1>6. QED
  BY <1>3, <1>4, <1>5 DEF CheckpointInv

\* Leaving gives the lock back, and the store if the signer has it.
LEMMA LeaveKeeps ==
  ASSUME CheckpointInv, NEW s \in Signers, Busy(s), Leave(s),
         UNCHANGED <<log, told, journal, torn, retained, reader, verdict, faults>>,
         tx' = IF Holding(s) THEN NoTx ELSE tx
  PROVE  CheckpointInv'
<1>1. Move(s, "idle") /\ lock' = None
  BY DEF Leave
<1>2. Moved(s, "idle")
  BY <1>1, MoveFacts
<1>3. SignersInv'
  BY <1>1, <1>2, SignersAssumption DEF CheckpointInv, SignersInv, Busy, Holding, NoTx, Moved
<1>4. JournalInv'
  BY <1>2, JournalFacts, FilesKept DEF Moved
<1>5. StoreInv' /\ ReaderInv'
  BY OthersKept
<1>6. QED
  BY <1>3, <1>4, <1>5 DEF CheckpointInv

\* A signer that finds another head than it expects leaves.
LEMMA CheckJournalKeeps ==
  ASSUME CheckpointInv, NEW s \in Signers, CheckJournal(s)
  PROVE  CheckpointInv'
<1>1. signer[s].phase = "locked" /\ Busy(s) /\ ~Holding(s)
      /\ UNCHANGED <<log, tx, told, journal, torn, retained, reader, verdict, faults>>
  BY DEF CheckJournal, Phase, Busy, Holding, storeVars
<1>2. CASE Leave(s)
  BY <1>1, <1>2, LeaveKeeps
<1>3. CASE Move(s, "checked") /\ UNCHANGED lock
  <2>1. Moved(s, "checked")
    BY <1>3, MoveFacts
  <2>2. SignersInv'
    BY <1>1, <1>3, <2>1 DEF CheckpointInv, SignersInv, Busy, Holding, Moved
  <2>3. JournalInv'
    BY <1>1, <2>1, JournalFacts, FilesKept DEF Moved
  <2>4. StoreInv' /\ ReaderInv'
    BY <1>1, OthersKept
  <2>5. QED
    BY <2>2, <2>3, <2>4 DEF CheckpointInv
<1>4. QED
  BY <1>2, <1>3 DEF CheckJournal

\* The entry for the head of the store is the next line.
LEMMA EntrySucceeds ==
  ASSUME CheckpointInv, NEW t \in Times, Signable(t)
  PROVE  Succeeds(Entry(t))
<1> PICK e : e = Entry(t)
  OBVIOUS
<1>1. /\ IsSeq(log) /\ Len(log) \in Nat /\ (log # <<>> => Len(log) > 0)
      /\ IsSeq(journal) /\ HeadHash(log) = log /\ JournalHead(journal) = journal
  <2>1. IsSeq(log) /\ IsSeq(journal) /\ Len(log) \in Nat
    BY DEF CheckpointInv, JournalInv, StoreInv, StoreSound, LogSound, IsSeq
  <2>2. Len(log) = 0 => log = <<>>
    BY <2>1, EmptyIsSeq, SeqsEqual
  <2>3. QED
    BY <2>1, <2>2, WholePrefix DEF HeadHash, HashAt, JournalHead, EntryHash
<1>2. e = [sequence |-> Len(journal) + 1, previous |-> journal, hash |-> log, head |-> Len(log),
           at |-> t]
  BY <1>1 DEF Entry
<1>3. e.sequence = Len(journal) + 1 /\ e.previous = journal /\ e.hash = log /\ e.head = Len(log)
      /\ e.at = t
  BY <1>2
<1>4. EntrySound(e) /\ e.head > 0
  BY <1>1, <1>3 DEF EntrySound, Signable
<1>5. journal # <<>> => /\ Contains(log, Previous)
                        /\ e.head > Previous.head /\ e.at >= Previous.at
  BY <1>3 DEF Signable
<1>6. QED
  BY <1>3, <1>4, <1>5 DEF Succeeds

\* A signer signs the head of the store it holds.
LEMMA SignKeeps ==
  ASSUME CheckpointInv, NEW s \in Signers, NEW t \in Times, Sign(s, t)
  PROVE  CheckpointInv'
<1>1. signer[s].phase = "checked" /\ Busy(s) /\ ~Holding(s) /\ tx.owner = None
      /\ UNCHANGED <<log, told, journal, torn, retained, reader, verdict, faults>>
  BY DEF Sign, Phase, Busy, Holding, Free
<1>2. CASE Leave(s) /\ UNCHANGED tx
  BY <1>1, <1>2, LeaveKeeps
<1>3. CASE /\ Signable(t) /\ UNCHANGED lock
           /\ signer' = [signer EXCEPT ![s] = [phase |-> "signed", expected |-> @.expected, entry |-> Entry(t)]]
           /\ tx' = [NoTx EXCEPT !.owner = s, !.rows = log, !.told = told]
  <2> PICK e : e = Entry(t)
    OBVIOUS
  <2>1. tx' = [owner |-> s, rows |-> log, told |-> told, failed |-> FALSE]
    BY <1>3 DEF NoTx
  <2>2. signer = [q \in Signers |-> signer[q]]
        /\ \A q \in Signers : signer[q] = [phase |-> signer[q].phase, expected |-> signer[q].expected,
                                           entry |-> signer[q].entry]
    BY DEF CheckpointInv, SignersInv
  <2>3. /\ signer' = [q \in Signers |-> signer'[q]]
        /\ signer'[s] = [phase |-> "signed", expected |-> signer[s].expected, entry |-> e]
        /\ \A q \in Signers \ {s} : signer'[q] = signer[q]
    <3>1. signer' = [signer EXCEPT ![s] = [phase |-> "signed", expected |-> signer[s].expected,
                                           entry |-> e]]
      BY <1>3
    <3>2. QED
      BY <2>2, <3>1
  <2>4. StoreInv'
    BY <1>1, <2>1, SignersAssumption DEF CheckpointInv, StoreInv, StoreSound, LogSound, StoreIntact, Answers
  <2>5. ReaderInv'
    BY <1>1 DEF CheckpointInv, ReaderInv, AnchoredMeansContained
  <2>6. SignersInv'
    BY <1>1, <1>3, <2>1, <2>2, <2>3, SignersAssumption DEF CheckpointInv, SignersInv, Busy, Holding
  <2>7. Succeeds(e)
    BY <1>3, EntrySucceeds
  <2>8. \A q \in Signers : signer'[q].phase = "signed" => Succeeds(signer'[q].entry)
    BY <1>1, <2>3, <2>7 DEF CheckpointInv, JournalInv
  <2>9. JournalInv'
    BY <1>1, <2>3, <2>8
    DEF CheckpointInv, JournalInv, JournalChain, EntryHash, Contains, HashAt, EntrySound, Begins,
        AnchorsHold, Succeeds, Previous
  <2>10. QED
    BY <2>4, <2>5, <2>6, <2>9 DEF CheckpointInv
<1>4. QED
  BY <1>2, <1>3 DEF Sign

\* A write that fails gives the lock and the store back.
LEMMA WriteFailsKeeps ==
  ASSUME CheckpointInv, NEW s \in Signers, WriteFails(s)
  PROVE  CheckpointInv'
  BY LeaveKeeps DEF WriteFails, Phase, Busy, Holding

\* A part of a line is no line.
LEMMA WritePartKeeps ==
  ASSUME CheckpointInv, NEW s \in Signers, WritePart(s)
  PROVE  CheckpointInv'
<1>1. UNCHANGED <<log, tx, told, journal, lock, signer, retained, reader, verdict, faults>>
  BY DEF WritePart, storeVars
<1>2. JournalInv'
  BY <1>1, JournalFacts, FilesKept
<1>3. SignersInv'
  BY <1>1 DEF CheckpointInv, SignersInv, Busy, Holding
<1>4. StoreInv' /\ ReaderInv'
  BY <1>1, OthersKept
<1>5. QED
  BY <1>2, <1>3, <1>4 DEF CheckpointInv

-----------------------------------------------------------------------------
\* A line that may be appended continues the chain.
LEMMA LineAppended ==
  ASSUME CheckpointInv, NEW e, Succeeds(e), journal' = Append(journal, e), UNCHANGED <<log, retained, faults>>,
         \A q \in Signers : /\ signer'[q].phase # "signed"
                            /\ signer'[q].phase = "signedOff" =>
                                 signer[q].phase = "signedOff" /\ signer'[q].expected = signer[q].expected
  PROVE  JournalInv'
<1>1. Succeeds(e) /\ IsSeq(journal) /\ Len(journal) \in Nat /\ IsSeq(log)
  BY DEF CheckpointInv, JournalInv, IsSeq, StoreInv, StoreSound, LogSound
<1>2. /\ IsSeq(journal') /\ Len(journal') = Len(journal) + 1 /\ journal'[Len(journal) + 1] = e
      /\ \A n \in 1..Len(journal) : journal'[n] = journal[n]
      /\ Begins(journal, journal')
  BY <1>1, AppendFacts, BeginsFacts
<1>3. JournalChain(journal')
  <2> SUFFICES ASSUME NEW n \in 1..Len(journal')
               PROVE  /\ journal'[n].sequence = n
                      /\ journal'[n].previous = EntryHash(journal', n - 1)
                      /\ journal'[n].head > (IF n = 1 THEN 0 ELSE journal'[n - 1].head)
                      /\ n > 1 => journal'[n].at >= journal'[n - 1].at
    BY DEF JournalChain
  <2>1. EntryHash(journal', n - 1) = EntryHash(journal, n - 1)
    <3>1. n - 1 \in 0..Len(journal)
      BY <1>1, <1>2
    <3>2. QED
      BY <1>1, <3>1, PrefixOfAppend DEF EntryHash
  <2>2. CASE n \in 1..Len(journal)
    <3>1. journal'[n] = journal[n] /\ (n # 1 => journal'[n - 1] = journal[n - 1])
      BY <1>1, <1>2, <2>2
    <3>2. /\ journal[n].sequence = n
          /\ journal[n].previous = EntryHash(journal, n - 1)
          /\ journal[n].head > (IF n = 1 THEN 0 ELSE journal[n - 1].head)
          /\ n > 1 => journal[n].at >= journal[n - 1].at
      BY <2>2 DEF CheckpointInv, JournalInv, JournalChain
    <3>3. n > 1 <=> n # 1
      OBVIOUS
    <3>4. QED
      BY <2>1, <3>1, <3>2, <3>3
  <2>3. CASE n = Len(journal) + 1
    <3>1. EntryHash(journal, n - 1) = journal
      BY <1>1, <2>3, WholePrefix DEF EntryHash
    <3>2. CASE journal = <<>>
      BY <1>1, <1>2, <2>1, <2>3, <3>1, <3>2, EmptyIsSeq DEF Succeeds
    <3>3. CASE journal # <<>>
      <4>1. Len(journal) # 0
        BY <1>1, <3>3, EmptyIsSeq, SeqsEqual
      <4>2. n # 1 /\ journal'[n - 1] = Previous
        BY <1>1, <1>2, <2>3, <4>1 DEF Previous
      <4>3. QED
        BY <1>1, <1>2, <2>1, <2>3, <3>1, <3>3, <4>2 DEF Succeeds
    <3>4. QED
      BY <3>2, <3>3
  <2>4. QED
    BY <1>1, <1>2, <2>2, <2>3
<1>4. \A n \in 1..Len(journal') : EntrySound(journal'[n])
  BY <1>1, <1>2 DEF CheckpointInv, JournalInv, Succeeds
<1>5. ASSUME NEW n \in 2..Len(journal') PROVE Contains(journal'[n].hash, journal'[n - 1])
  <2>1. CASE n \in 2..Len(journal)
    BY <1>1, <1>2, <2>1 DEF CheckpointInv, JournalInv
  <2>2. CASE n = Len(journal) + 1
    <3>1. journal # <<>>
      BY <1>1, <2>2, EmptyIsSeq
    <3>2. journal'[n - 1] = Previous /\ journal'[n].hash = log
      BY <1>1, <1>2, <2>2 DEF Previous, Succeeds
    <3>3. QED
      BY <1>1, <3>1, <3>2 DEF Succeeds
  <2>3. QED
    BY <1>1, <1>2, <2>1, <2>2
<1>6. ASSUME faults.rollbacks = 0
      PROVE  /\ AnchorsHold(journal', log)
             /\ Begins(retained, journal')
             /\ \A q \in Signers : signer'[q].phase = "signedOff" => Begins(signer'[q].expected, journal')
  <2>1. Contains(log, e)
    BY <1>1, WholePrefix DEF Succeeds, EntrySound, Contains, HashAt, IsSeq
  <2>2. AnchorsHold(journal', log)
    BY <1>1, <1>2, <1>6, <2>1 DEF AnchorsHold, CheckpointInv, JournalInv
  <2>3. IsSeq(retained) /\ Begins(retained, journal)
    BY <1>6 DEF CheckpointInv, JournalInv
  <2>4. ASSUME NEW q \in Signers, signer'[q].phase = "signedOff" PROVE Begins(signer'[q].expected, journal')
    <3>1. signer[q].phase = "signedOff" /\ signer'[q].expected = signer[q].expected
          /\ IsSeq(signer[q].expected)
      BY <2>4 DEF CheckpointInv, SignersInv
    <3>2. Begins(signer[q].expected, journal)
      BY <1>6, <3>1 DEF CheckpointInv, JournalInv
    <3>3. QED
      BY <1>1, <1>2, <3>1, <3>2, BeginsTrans
  <2>5. QED
    BY <1>1, <1>2, <2>2, <2>3, <2>4, BeginsTrans
<1>7. QED
  BY <1>2, <1>3, <1>4, <1>5, <1>6
  DEF JournalInv, CheckpointInv, AnchorsHold, Begins

\* The line a signer writes continues the chain.
LEMMA WriteLineKeeps ==
  ASSUME CheckpointInv, NEW s \in Signers, WriteLine(s)
  PROVE  CheckpointInv'
<1> PICK e : e = signer[s].entry
  OBVIOUS
<1>1. /\ signer[s].phase = "signed" /\ Move(s, "written") /\ journal' = Append(journal, e)
      /\ UNCHANGED <<log, tx, told, lock, retained, reader, verdict, faults>>
  BY DEF WriteLine, Phase, storeVars
<1>2. Moved(s, "written")
  BY <1>1, MoveFacts
<1>3. SignersInv'
  BY <1>1, <1>2 DEF CheckpointInv, SignersInv, Busy, Holding, Moved
<1>4. StoreInv' /\ ReaderInv'
  BY <1>1, OthersKept
<1>5. \A q \in Signers \ {s} : signer[q].phase # "signed"
  BY <1>1, SignersAssumption DEF CheckpointInv, SignersInv, Busy
<1>6. Succeeds(e)
  BY <1>1 DEF CheckpointInv, JournalInv
<1>7. \A q \in Signers : /\ signer'[q].phase # "signed"
                         /\ signer'[q].phase = "signedOff" =>
                              signer[q].phase = "signedOff" /\ signer'[q].expected = signer[q].expected
  <2> SUFFICES ASSUME NEW q \in Signers
               PROVE  /\ signer'[q].phase # "signed"
                      /\ signer'[q].phase = "signedOff" => signer[q].phase = "signedOff"
                      /\ signer'[q].expected = signer[q].expected
    OBVIOUS
  <2>1. signer'[q].phase = (IF q = s THEN "written" ELSE signer[q].phase)
        /\ signer'[q].expected = signer[q].expected
    BY <1>2 DEF Moved
  <2>2. QED
    BY <1>5, <2>1
<1>8. JournalInv'
  BY <1>1, <1>6, <1>7, LineAppended
<1>9. QED
  BY <1>3, <1>4, <1>8 DEF CheckpointInv

\* A signer reports a head that the journal has.
LEMMA PersistKeeps ==
  ASSUME CheckpointInv, NEW s \in Signers, Persist(s)
  PROVE  CheckpointInv'
<1>1. signer[s].phase = "written" /\ Holding(s) /\ Busy(s) /\ tx' = NoTx /\ lock' = None /\ tx.owner = s
      /\ UNCHANGED <<log, told, journal, torn, retained, reader, verdict, faults>>
  BY DEF Persist, Phase, Holding, Busy, CheckpointInv, SignersInv
<1>2. CASE signer' = [signer EXCEPT ![s].phase = "idle"]
  BY <1>1, <1>2, LeaveKeeps DEF Leave, Move
<1>3. CASE signer' = [signer EXCEPT ![s] = [phase |-> "signedOff", entry |-> None,
                                            expected |-> JournalHead(journal)]]
  <2>1. IsSeq(journal) /\ JournalHead(journal) = journal /\ Begins(journal, journal)
    BY WholePrefix, BeginsFacts DEF CheckpointInv, JournalInv, JournalHead, EntryHash
  <2>2. /\ signer' = [q \in Signers |-> signer'[q]]
        /\ signer'[s] = [phase |-> "signedOff", entry |-> None, expected |-> journal]
        /\ \A q \in Signers \ {s} : signer'[q] = signer[q]
    BY <1>3, <2>1 DEF CheckpointInv, SignersInv
  <2>3. SignersInv'
    BY <1>1, <2>1, <2>2, SignersAssumption DEF CheckpointInv, SignersInv, Busy, Holding, NoTx
  <2>4. StoreInv' /\ ReaderInv'
    BY <1>1, OthersKept
  <2>5. JournalInv'
    BY <1>1, <2>1, <2>2, JournalFacts, FilesKept
  <2>6. QED
    BY <2>3, <2>4, <2>5 DEF CheckpointInv
<1>4. QED
  BY <1>2, <1>3 DEF Persist

\* The head that is kept is the one that was reported.
LEMMA RetainKeeps ==
  ASSUME CheckpointInv, NEW s \in Signers, Retain(s)
  PROVE  CheckpointInv'
<1>1. signer[s].phase = "signedOff" /\ Move(s, "idle") /\ retained' = signer[s].expected
      /\ UNCHANGED <<log, tx, told, journal, lock, reader, verdict, faults>>
  BY DEF Retain, Phase, storeVars
<1>2. Moved(s, "idle")
  BY <1>1, MoveFacts
<1>3. SignersInv'
  BY <1>1, <1>2 DEF CheckpointInv, SignersInv, Busy, Holding, Moved
<1>4. StoreInv' /\ ReaderInv'
  BY <1>1, OthersKept
<1>5. IsSeq(retained') /\ (faults.rollbacks = 0 => Begins(retained', journal))
  BY <1>1 DEF CheckpointInv, SignersInv, JournalInv
<1>6. JournalInv'
  BY <1>1, <1>2, <1>5, JournalFacts, FilesKept DEF Moved
<1>7. QED
  BY <1>3, <1>4, <1>6 DEF CheckpointInv

\* A signer that dies leaves the lock and gives the store back.
LEMMA CrashKeeps ==
  ASSUME CheckpointInv, NEW s \in Signers, Crash(s)
  PROVE  CheckpointInv'
<1>1. /\ Move(s, "down") /\ faults' = [faults EXCEPT !.crashes = @ + 1]
      /\ tx' = (IF tx.owner = s THEN NoTx ELSE tx)
      /\ UNCHANGED <<log, told, journal, lock, retained, reader, verdict>>
  BY DEF Crash
<1>2. Moved(s, "down")
  BY <1>1, MoveFacts
<1>3. SignersInv'
  BY <1>1, <1>2, SignersAssumption DEF CheckpointInv, SignersInv, Busy, Holding, Moved, NoTx
<1>4. StoreInv' /\ ReaderInv'
  BY <1>1, OthersKept
<1>5. faults' = [rollbacks |-> faults.rollbacks, crashes |-> faults'.crashes]
  BY <1>1 DEF CheckpointInv, JournalInv
<1>6. JournalInv'
  BY <1>1, <1>2, <1>5, JournalFacts, FilesKept DEF Moved
<1>7. QED
  BY <1>3, <1>4, <1>6 DEF CheckpointInv

\* A new signer expects the head that was kept.
LEMMA OpenKeeps ==
  ASSUME CheckpointInv, NEW s \in Signers, Open(s)
  PROVE  CheckpointInv'
<1>1. /\ signer[s].phase = "down" /\ lock' = (IF lock = s THEN None ELSE lock)
      /\ signer' = [signer EXCEPT ![s] = [Idle EXCEPT !.expected = retained]]
      /\ UNCHANGED <<log, tx, told, journal, retained, reader, verdict, faults>>
  BY DEF Open, Phase, storeVars
<1>2. /\ signer' = [q \in Signers |-> signer'[q]]
      /\ signer'[s] = [phase |-> "idle", expected |-> retained, entry |-> None]
      /\ \A q \in Signers \ {s} : signer'[q] = signer[q]
  BY <1>1 DEF CheckpointInv, SignersInv, Idle
<1>3. SignersInv'
  BY <1>1, <1>2, SignersAssumption DEF CheckpointInv, SignersInv, JournalInv, Busy, Holding
<1>4. StoreInv' /\ ReaderInv'
  BY <1>1, OthersKept
<1>5. JournalInv'
  BY <1>1, <1>2, JournalFacts, FilesKept
<1>6. QED
  BY <1>3, <1>4, <1>5 DEF CheckpointInv

-----------------------------------------------------------------------------
(* Verifications and copies put back. *)

\* A journal is read as valid when it begins with the trusted head.
LEMMA ReadJournalKeeps ==
  ASSUME CheckpointInv, ReadJournal
  PROVE  CheckpointInv'
<1>1. /\ reader' = [phase |-> "read", entries |-> journal, pin |-> retained,
                    valid |-> JournalValid(journal, retained)]
      /\ UNCHANGED <<log, tx, told, journal, torn, lock, signer, retained, verdict, faults>>
  BY DEF ReadJournal, storeVars
<1>2. ReaderInv'
  BY <1>1, JournalFacts
  DEF CheckpointInv, ReaderInv, AnchoredMeansContained, JournalValid, EntryHash, Begins
<1>3. StoreInv'
  BY <1>1 DEF CheckpointInv, StoreInv, StoreSound, LogSound, StoreIntact, Answers
<1>4. SignersInv'
  BY <1>1 DEF CheckpointInv, SignersInv, Busy, Holding
<1>5. JournalInv'
  BY <1>1, JournalFacts, FilesKept
<1>6. QED
  BY <1>2, <1>3, <1>4, <1>5 DEF CheckpointInv

\* A report of ANCHORED is of lines that begin with the trusted head and that the store has.
LEMMA VerifyStoreKeeps ==
  ASSUME CheckpointInv, VerifyStore
  PROVE  CheckpointInv'
<1>1. /\ reader.phase = "read" /\ reader' = NoReader
      /\ UNCHANGED <<log, tx, told, journal, torn, lock, signer, retained, faults>>
  BY DEF VerifyStore, storeVars
<1>2. AnchoredMeansContained'
  <2> SUFFICES ASSUME verdict'.status = "ANCHORED", NEW n \in 1..Len(verdict'.pin)
               PROVE  Contains(verdict'.rows, verdict'.pin[n])
    BY DEF AnchoredMeansContained
  <2>1. /\ reader.valid /\ AnchorsHold(reader.entries, log)
        /\ verdict' = [status |-> "ANCHORED", pin |-> reader.pin, rows |-> log]
    BY DEF VerifyStore, Report
  <2>2. verdict'.pin = reader.pin /\ verdict'.rows = log
    BY <2>1
  <2>3. /\ IsSeq(reader.entries) /\ IsSeq(reader.pin)
        /\ Len(reader.pin) <= Len(reader.entries)
        /\ SubSeq(reader.entries, 1, Len(reader.pin)) = reader.pin
    BY <1>1, <2>1 DEF CheckpointInv, ReaderInv, Begins
  <2>4. Len(reader.pin) \in Nat /\ Len(reader.entries) \in Nat
    BY <2>3 DEF IsSeq
  <2>5. n \in 1..Len(reader.entries) /\ reader.pin[n] = reader.entries[n]
    BY <2>2, <2>3, <2>4, PrefixFacts
  <2>6. QED
    BY <2>1, <2>2, <2>5 DEF AnchorsHold
<1>3. ReaderInv'
  BY <1>1, <1>2 DEF ReaderInv, NoReader
<1>4. StoreInv'
  BY <1>1 DEF CheckpointInv, StoreInv, StoreSound, LogSound, StoreIntact, Answers
<1>5. SignersInv'
  BY <1>1 DEF CheckpointInv, SignersInv, Busy, Holding
<1>6. JournalInv'
  BY <1>1, JournalFacts, FilesKept
<1>7. QED
  BY <1>3, <1>4, <1>5, <1>6 DEF CheckpointInv

\* An earlier copy of the store is sound, and what its callers were told is void.
LEMMA RestoreStoreKeeps ==
  ASSUME CheckpointInv, NEW n \in 0..(MaxEvents - 1), RestoreStore(n)
  PROVE  CheckpointInv'
<1>1. /\ tx.owner = None /\ n < Len(log) /\ log' = HashAt(log, n)
      /\ told' = [r \in Named |-> None] /\ faults' = [faults EXCEPT !.rollbacks = @ + 1]
      /\ UNCHANGED <<tx, journal, torn, lock, signer, retained, reader, verdict>>
  BY DEF RestoreStore, Free, Again
<1>2. LogSound(log) /\ Len(log) \in Nat
  BY DEF CheckpointInv, StoreInv, StoreSound, LogSound, IsSeq
<1>3. n \in 0..Len(log)
  BY <1>1, <1>2
<1>4. LogSound(log')
  BY <1>1, <1>2, <1>3, CopySound
<1>5. Answers(log', told')
  BY <1>1 DEF Answers
<1>6. StoreInv'
  BY <1>1, <1>4, <1>5, ConnectionsAssumption DEF CheckpointInv, StoreInv, StoreSound
<1>7. SignersInv'
  BY <1>1 DEF CheckpointInv, SignersInv, Busy, Holding
<1>8. ReaderInv'
  BY <1>1 DEF CheckpointInv, ReaderInv, AnchoredMeansContained
<1>9. \A s \in Signers : signer[s].phase # "signed"
  BY <1>1, NoSigned DEF Holding
<1>10. /\ faults' = [rollbacks |-> faults'.rollbacks, crashes |-> faults'.crashes]
       /\ faults'.rollbacks \in Nat /\ faults'.rollbacks # 0
  BY <1>1 DEF CheckpointInv, JournalInv
<1>11. JournalInv'
  BY <1>1, <1>9, <1>10 DEF CheckpointInv, JournalInv, JournalChain, EntryHash, EntrySound, Contains, HashAt
<1>12. QED
  BY <1>6, <1>7, <1>8, <1>11 DEF CheckpointInv

\* An earlier copy of the journal is a beginning of it.
LEMMA RestoreJournalKeeps ==
  ASSUME CheckpointInv, NEW n \in 0..(MaxEvents - 1), RestoreJournal(n)
  PROVE  CheckpointInv'
<1>1. /\ \A s \in Signers : signer[s].phase \in {"idle", "signedOff", "down"}
      /\ n < Len(journal) /\ journal' = SubSeq(journal, 1, n)
      /\ faults' = [faults EXCEPT !.rollbacks = @ + 1]
      /\ UNCHANGED <<log, tx, told, lock, signer, retained, reader, verdict>>
  BY DEF RestoreJournal, Again, EntryHash, storeVars
<1>2. IsSeq(journal) /\ Len(journal) \in Nat
  BY DEF CheckpointInv, JournalInv, IsSeq
<1>3. n \in 0..Len(journal)
  BY <1>1, <1>2
<1>4. IsSeq(journal') /\ Len(journal') = n /\ \A i \in 1..n : journal'[i] = journal[i]
  BY <1>1, <1>2, <1>3, PrefixFacts
<1>5. JournalChain(journal')
  <2> SUFFICES ASSUME NEW i \in 1..n
               PROVE  /\ journal'[i].sequence = i
                      /\ journal'[i].previous = EntryHash(journal', i - 1)
                      /\ journal'[i].head > (IF i = 1 THEN 0 ELSE journal'[i - 1].head)
                      /\ i > 1 => journal'[i].at >= journal'[i - 1].at
    BY <1>4 DEF JournalChain
  <2>1. EntryHash(journal', i - 1) = EntryHash(journal, i - 1)
    <3>1. i - 1 \in 0..n
      BY <1>3
    <3>2. QED
      BY <1>1, <1>2, <1>3, <3>1, PrefixOfPrefix DEF EntryHash
  <2>2. i \in 1..Len(journal) /\ journal'[i] = journal[i] /\ (i # 1 => journal'[i - 1] = journal[i - 1])
    BY <1>2, <1>3, <1>4
  <2>3. /\ journal[i].sequence = i
        /\ journal[i].previous = EntryHash(journal, i - 1)
        /\ journal[i].head > (IF i = 1 THEN 0 ELSE journal[i - 1].head)
        /\ i > 1 => journal[i].at >= journal[i - 1].at
    BY <2>2 DEF CheckpointInv, JournalInv, JournalChain
  <2>4. i > 1 <=> i # 1
    BY <1>3
  <2>5. QED
    BY <2>1, <2>2, <2>3, <2>4
<1>6. \A i \in 1..Len(journal') : EntrySound(journal'[i])
  BY <1>2, <1>3, <1>4 DEF CheckpointInv, JournalInv
<1>7. \A i \in 2..Len(journal') : Contains(journal'[i].hash, journal'[i - 1])
  BY <1>2, <1>3, <1>4 DEF CheckpointInv, JournalInv
<1>8. /\ faults' = [rollbacks |-> faults'.rollbacks, crashes |-> faults'.crashes]
      /\ faults'.rollbacks \in Nat /\ faults'.rollbacks # 0
  BY <1>1 DEF CheckpointInv, JournalInv
<1>9. JournalInv'
  BY <1>1, <1>4, <1>5, <1>6, <1>7, <1>8 DEF CheckpointInv, JournalInv
<1>10. SignersInv'
  BY <1>1 DEF CheckpointInv, SignersInv, Busy, Holding
<1>11. StoreInv' /\ ReaderInv'
  BY <1>1, OthersKept
<1>12. QED
  BY <1>9, <1>10, <1>11 DEF CheckpointInv

\* Every step of callers, signers, verifiers and restores keeps the invariant.
LEMMA CheckpointStepKeeps == CheckpointInv /\ [CheckpointNext]_checkpointVars => CheckpointInv'
<1> SUFFICES ASSUME CheckpointInv, [CheckpointNext]_checkpointVars PROVE CheckpointInv'
  OBVIOUS
<1>1. CASE StoreStep /\ UNCHANGED journalVars
  BY <1>1, StoreStepKeeps
<1>2. ASSUME NEW s \in Signers, SignerStep(s) PROVE CheckpointInv'
  BY <1>2, LockKeeps, CheckJournalKeeps, SignKeeps, WritePartKeeps, WriteLineKeeps, WriteFailsKeeps,
     PersistKeeps, RetainKeeps, CrashKeeps, OpenKeeps DEF SignerStep
<1>3. CASE ReadJournal
  BY <1>3, ReadJournalKeeps
<1>4. CASE VerifyStore
  BY <1>4, VerifyStoreKeeps
<1>5. CASE Restore
  BY <1>5, RestoreStoreKeeps, RestoreJournalKeeps DEF Restore
<1>6. CASE UNCHANGED checkpointVars
  <2>1. UNCHANGED <<log, tx, told, journal, torn, lock, signer, retained, reader, verdict, faults>>
    BY <1>6 DEF checkpointVars, storeVars, journalVars
  <2>2. JournalInv'
    BY <2>1, JournalFacts, FilesKept
  <2>3. SignersInv'
    BY <2>1 DEF CheckpointInv, SignersInv, Busy, Holding
  <2>4. QED
    BY <2>1, <2>2, <2>3, OthersKept DEF CheckpointInv
<1>7. QED
  BY <1>1, <1>2, <1>3, <1>4, <1>5, <1>6 DEF CheckpointNext

\* The journal and the store keep their invariant, whatever is interleaved.
THEOREM CheckpointInvariant == CheckpointSpec => []CheckpointInv
  BY CheckpointInitially, CheckpointStepKeeps, PTL DEF CheckpointSpec

\* No interleaving of callers, signers that die in the middle, copies put back and
\* verifications that read the journal before the store leaves a name on two events,
\* a line that does not continue the chain, or a report of ANCHORED for a store that
\* lacks what the retained head vouches for.
THEOREM AnchoredHistory == CheckpointSpec => []HistoryIsAnchored
<1>1. CheckpointInv => HistoryIsAnchored
  <2> SUFFICES ASSUME CheckpointInv PROVE HistoryIsAnchored
    OBVIOUS
  <2>1. NamesAreUnique
    BY DEF CheckpointInv, StoreInv, StoreSound, LogSound, NamesDiffer, Answers, NamesAreUnique
  <2>2. JournalIsChain
    BY DEF CheckpointInv, JournalInv, JournalIsChain, Begins, EntryHash
  <2>3. AnchoredMeansContained
    BY DEF CheckpointInv, ReaderInv
  <2>4. QED
    BY <2>1, <2>2, <2>3 DEF HistoryIsAnchored
<1>2. QED
  BY <1>1, CheckpointInvariant, PTL

-----------------------------------------------------------------------------
(* External anchors.  A publisher that is not idle has a row, and an answer *)
(* that is no conflict repeats the object it is about: rows keep what they  *)
(* were made for, and an object, once stored, is never another.             *)

Attempted == [phase : {"idle", "creating", "answered", "lost", "refused"},
              checkpoint : Checkpoints \cup {Absent}, mode : Modes \cup {Absent}, attempt : Nat,
              answer : Outcomes \cup {Absent}]

OutboxTypeOK ==
  /\ outbox \in [Sequences -> Rows \cup {Absent}]
  /\ publisher \in [Publishers -> Attempted]
  /\ objects \in [Checkpoints -> Objects \cup {Absent}]
  /\ wire \subseteq [checkpoint : Checkpoints, mode : Modes, attempt : Nat]
  /\ crashes \in Nat

RowsInPlace == \A n \in Sequences : outbox[n] # Absent => outbox[n].checkpoint.sequence = n

PublishersAgree ==
  \A p \in Publishers : publisher[p].phase # "idle" =>
    /\ publisher[p].checkpoint \in Checkpoints
    /\ RowOf(p) # Absent
    /\ RowOf(p).checkpoint = publisher[p].checkpoint /\ RowOf(p).mode = publisher[p].mode

\* What an object store that holds o may say to a request.
Repeats(a, o, mode, attempt) ==
  /\ o # Absent /\ o.mode = mode /\ o.storedAt = a.storedAt /\ o.until = a.until
  /\ a.disposition = "created" => o.by = attempt

AnswersAgree ==
  \A p \in Publishers : publisher[p].phase = "answered" =>
    /\ publisher[p].answer # Absent
    /\ publisher[p].answer.disposition # "conflict" =>
         Repeats(publisher[p].answer, objects[publisher[p].checkpoint], publisher[p].mode,
                 publisher[p].attempt)

RowsAgree ==
  \A n \in Sequences : outbox[n] # Absent =>
    /\ RowReadable(outbox[n])
    /\ outbox[n].state = "published" =>
         Repeats(outbox[n], objects[outbox[n].checkpoint], outbox[n].mode, outbox[n].count)

OutboxInv == OutboxTypeOK /\ RowsInPlace /\ PublishersAgree /\ AnswersAgree /\ RowsAgree

\* The bounds of the clocks, and the durations.
LEMMA TickFacts ==
  /\ \A t \in Ticks : t \in Nat
  /\ \A m \in Modes : Days(m) \in {1, 2}
  BY TickAssumption DEF Ticks, Days

\* A row that changes keeps what it is for, and so it stays the row of its publishers.
LEMMA RowChanges ==
  ASSUME OutboxInv, NEW n \in Sequences, NEW r \in Rows, outbox' = [outbox EXCEPT ![n] = r],
         RowReadable(r), r.checkpoint.sequence = n, UNCHANGED objects,
         outbox[n] # Absent => r.checkpoint = outbox[n].checkpoint /\ r.mode = outbox[n].mode,
         r.state = "published" => Repeats(r, objects[r.checkpoint], r.mode, r.count)
  PROVE  /\ outbox' \in [Sequences -> Rows \cup {Absent}] /\ RowsInPlace' /\ RowsAgree'
         /\ \A p \in Publishers : publisher[p].phase # "idle" =>
              LET row == outbox'[publisher[p].checkpoint.sequence]
              IN  row # Absent /\ row.checkpoint = publisher[p].checkpoint /\ row.mode = publisher[p].mode
<1>1. r # Absent /\ outbox' \in [Sequences -> Rows \cup {Absent}] /\ outbox'[n] = r
      /\ \A m \in Sequences \ {n} : outbox'[m] = outbox[m]
  BY AbsentAssumption DEF OutboxInv, OutboxTypeOK
<1>2. RowsInPlace'
  BY <1>1 DEF OutboxInv, RowsInPlace
<1>3. RowsAgree'
  BY <1>1 DEF OutboxInv, RowsAgree, RowReadable, Repeats
<1>4. ASSUME NEW p \in Publishers, publisher[p].phase # "idle"
      PROVE  LET row == outbox'[publisher[p].checkpoint.sequence]
             IN  row # Absent /\ row.checkpoint = publisher[p].checkpoint /\ row.mode = publisher[p].mode
  <2>1. publisher[p].checkpoint.sequence \in Sequences
    BY <1>4 DEF OutboxInv, PublishersAgree, Sequences
  <2>2. QED
    BY <1>1, <1>4, <2>1 DEF OutboxInv, PublishersAgree, RowOf
<1>5. QED
  BY <1>1, <1>2, <1>3, <1>4

\* An object that is stored stays what it is, and everybody who repeats it goes on doing so.
LEMMA ObjectStays ==
  ASSUME OutboxInv, NEW req \in [checkpoint : Checkpoints, mode : Modes, attempt : Nat],
         NEW t \in Ticks, NEW until \in Untils(req.mode, t), objects' = Stored(req, t, until),
         UNCHANGED outbox
  PROVE  /\ objects' \in [Checkpoints -> Objects \cup {Absent}] /\ RowsAgree'
         /\ \A c \in Checkpoints : objects[c] # Absent => objects'[c] = objects[c]
         /\ objects[req.checkpoint] = Absent =>
              objects'[req.checkpoint] =
                [mode |-> req.mode, storedAt |-> t, until |-> until, by |-> req.attempt]
<1> DEFINE new == [mode |-> req.mode, storedAt |-> t, until |-> until, by |-> req.attempt]
<1>1. new \in Objects
  BY TickFacts DEF Objects, Untils
<1>2. \/ objects' = objects
      \/ objects[req.checkpoint] = Absent /\ objects' = [objects EXCEPT ![req.checkpoint] = new]
  BY DEF Stored
<1>3. objects' \in [Checkpoints -> Objects \cup {Absent}]
      /\ (\A c \in Checkpoints : objects[c] # Absent => objects'[c] = objects[c])
  BY <1>1, <1>2 DEF OutboxInv, OutboxTypeOK
<1>4. objects[req.checkpoint] = Absent => objects'[req.checkpoint] = new
  BY AbsentAssumption, <1>1, <1>2 DEF OutboxInv, OutboxTypeOK, Stored
<1>5. RowsAgree'
  <2> SUFFICES ASSUME NEW n \in Sequences, outbox[n] # Absent
               PROVE  /\ RowReadable(outbox[n])
                      /\ outbox[n].state = "published" =>
                           Repeats(outbox[n], objects'[outbox[n].checkpoint], outbox[n].mode, outbox[n].count)
    BY DEF RowsAgree, RowReadable, Repeats
  <2>1. outbox[n].checkpoint \in Checkpoints
    BY DEF OutboxInv, OutboxTypeOK, Rows
  <2>2. QED
    BY <1>3, <2>1 DEF OutboxInv, RowsAgree, Repeats
<1>6. QED
  BY <1>3, <1>4, <1>5

\* An empty outbox beside an object store that an earlier one may have written to.
LEMMA OutboxInitially == OutboxInit => OutboxInv
<1> SUFFICES ASSUME OutboxInit
             PROVE  OutboxInv
  OBVIOUS
<1>1. Resting \in Attempted
  BY DEF Resting, Attempted
<1>2. Foreign \subseteq Objects
  BY TickFacts DEF Foreign, Objects
<1>3. OutboxTypeOK
  BY <1>1, <1>2 DEF OutboxInit, OutboxTypeOK
<1>4. RowsInPlace /\ PublishersAgree /\ AnswersAgree /\ RowsAgree
  BY DEF OutboxInit, RowsInPlace, PublishersAgree, AnswersAgree, RowsAgree, Resting
<1>5. QED
  BY <1>3, <1>4 DEF OutboxInv

\* A sequence that has a row gets no other.
LEMMA EnqueueKeeps ==
  ASSUME OutboxInv, NEW c \in Checkpoints, NEW mode \in Modes, NEW t \in Ticks, Enqueue(c, mode, t)
  PROVE  OutboxInv'
<1> DEFINE r == RowFor(c, mode, t)
<1>1. r \in Rows /\ RowReadable(r) /\ r.checkpoint = c /\ r.state = "pending"
  BY TickFacts DEF RowFor, Rows, RowReadable, MaxAttempts
<1>2. c.sequence \in Sequences /\ outbox' = [outbox EXCEPT ![c.sequence] = r]
      /\ UNCHANGED <<publisher, wire, objects, crashes>>
  BY DEF Enqueue, Sequences
<1> HIDE DEF r
<1>3. /\ outbox' \in [Sequences -> Rows \cup {Absent}] /\ RowsInPlace' /\ RowsAgree'
      /\ \A p \in Publishers : publisher[p].phase # "idle" =>
           LET row == outbox'[publisher[p].checkpoint.sequence]
           IN  row # Absent /\ row.checkpoint = publisher[p].checkpoint /\ row.mode = publisher[p].mode
  BY <1>1, <1>2, RowChanges DEF Enqueue
<1>4. PublishersAgree' /\ AnswersAgree'
  BY <1>2, <1>3 DEF OutboxInv, PublishersAgree, AnswersAgree, Repeats, RowOf
<1>5. OutboxTypeOK'
  BY <1>2, <1>3 DEF OutboxInv, OutboxTypeOK
<1>6. QED
  BY <1>3, <1>4, <1>5 DEF OutboxInv

\* One publisher goes on, to a record of its type.
LEMMA PublisherMoves ==
  ASSUME OutboxInv, NEW p \in Publishers, NEW x \in Attempted, publisher' = [publisher EXCEPT ![p] = x]
  PROVE  /\ publisher' \in [Publishers -> Attempted] /\ publisher'[p] = x
         /\ \A q \in Publishers \ {p} : publisher'[q] = publisher[q]
  BY DEF OutboxInv, OutboxTypeOK

\* A publisher that claims a row has that row.
LEMMA ClaimKeeps ==
  ASSUME OutboxInv, NEW p \in Publishers, NEW t \in Ticks, Claim(p, t)
  PROVE  OutboxInv'
<1>1. PICK n \in InState("pending") :
        /\ t >= outbox[n].updatedAt
        /\ outbox' = [outbox EXCEPT ![n].state = "in_flight", ![n].count = @ + 1,
                                    ![n].active = outbox[n].count + 1, ![n].updatedAt = t]
        /\ publisher' = [publisher EXCEPT ![p] =
             [phase |-> "creating", checkpoint |-> outbox[n].checkpoint, mode |-> outbox[n].mode,
              attempt |-> outbox[n].count + 1, answer |-> Absent]]
  BY DEF Claim
<1> DEFINE r == [outbox[n] EXCEPT !.state = "in_flight", !.count = @ + 1,
                                  !.active = outbox[n].count + 1, !.updatedAt = t]
           x == [phase |-> "creating", checkpoint |-> outbox[n].checkpoint, mode |-> outbox[n].mode,
                 attempt |-> outbox[n].count + 1, answer |-> Absent]
<1>2. n \in Sequences /\ outbox[n] \in Rows /\ outbox[n] # Absent /\ outbox[n].state = "pending"
      /\ RowReadable(outbox[n]) /\ outbox[n].checkpoint.sequence = n
  BY DEF InState, OutboxInv, OutboxTypeOK, RowsAgree, RowsInPlace
<1>3. r \in Rows /\ RowReadable(r) /\ r.checkpoint = outbox[n].checkpoint /\ r.mode = outbox[n].mode
      /\ r.state = "in_flight"
  <2>1. /\ r.state = "in_flight" /\ r.count = outbox[n].count + 1 /\ r.active = outbox[n].count + 1
        /\ r.updatedAt = t /\ r.queuedAt = outbox[n].queuedAt /\ r.storedAt = outbox[n].storedAt
        /\ r.until = outbox[n].until /\ r.disposition = outbox[n].disposition
        /\ r.checkpoint = outbox[n].checkpoint /\ r.mode = outbox[n].mode
    BY <1>2 DEF Rows
  <2>2. outbox[n].count \in Nat /\ outbox[n].updatedAt \in Nat /\ outbox[n].queuedAt \in Nat /\ t \in Nat
    BY <1>2, TickFacts DEF Rows
  <2>3. r \in Rows
    <3>1. outbox[n].count + 1 \in Nat
      BY <2>2
    <3>2. QED
      BY <1>2, <2>2, <3>1 DEF Rows
  <2> HIDE DEF r
  <2>4. RowReadable(r)
    BY <1>1, <1>2, <2>1, <2>2 DEF RowReadable, MaxAttempts
  <2>5. QED
    BY <2>1, <2>3, <2>4
<1>4. outbox' = [outbox EXCEPT ![n] = r]
  BY <1>1, <1>2 DEF OutboxInv, OutboxTypeOK
<1>5. x \in Attempted /\ x.phase = "creating" /\ x.checkpoint = r.checkpoint /\ x.mode = r.mode
  BY <1>2, <1>3 DEF Attempted, Rows
<1> HIDE DEF r, x
<1>6. UNCHANGED <<wire, objects, crashes>>
  BY DEF Claim
<1>7. /\ outbox' \in [Sequences -> Rows \cup {Absent}] /\ RowsInPlace' /\ RowsAgree'
      /\ \A q \in Publishers : publisher[q].phase # "idle" =>
           LET row == outbox'[publisher[q].checkpoint.sequence]
           IN  row # Absent /\ row.checkpoint = publisher[q].checkpoint /\ row.mode = publisher[q].mode
  BY <1>2, <1>3, <1>4, <1>6, RowChanges
<1>8. publisher' \in [Publishers -> Attempted] /\ publisher'[p] = x
      /\ \A q \in Publishers \ {p} : publisher'[q] = publisher[q]
  BY <1>1, <1>5, PublisherMoves DEF x
<1>9. PublishersAgree'
  <2>1. outbox'[n] = r /\ r # Absent /\ r.checkpoint \in Checkpoints /\ r.checkpoint.sequence = n
    BY <1>2, <1>3, <1>4, AbsentAssumption DEF OutboxInv, OutboxTypeOK, Rows
  <2>2. QED
    BY <1>5, <1>7, <1>8, <2>1 DEF OutboxInv, PublishersAgree, RowOf
<1>10. AnswersAgree'
  BY <1>5, <1>6, <1>8 DEF OutboxInv, AnswersAgree, Repeats
<1>11. OutboxTypeOK'
  BY <1>6, <1>7, <1>8 DEF OutboxInv, OutboxTypeOK
<1>12. QED
  BY <1>7, <1>9, <1>10, <1>11 DEF OutboxInv

\* The request of a publisher, and what it has to do with its row.
LEMMA RequestFacts ==
  ASSUME OutboxInv, NEW p \in Publishers, publisher[p].phase # "idle"
  PROVE  /\ publisher[p] \in Attempted /\ publisher[p].checkpoint \in Checkpoints
         /\ publisher[p].mode \in Modes /\ publisher[p].attempt \in Nat
         /\ Request(p) \in [checkpoint : Checkpoints, mode : Modes, attempt : Nat]
         /\ Request(p).checkpoint = publisher[p].checkpoint /\ Request(p).mode = publisher[p].mode
         /\ Request(p).attempt = publisher[p].attempt
         /\ publisher[p].checkpoint.sequence \in Sequences
         /\ RowOf(p) \in Rows /\ RowOf(p) # Absent /\ RowReadable(RowOf(p))
         /\ RowOf(p).checkpoint = publisher[p].checkpoint /\ RowOf(p).mode = publisher[p].mode
<1>1. publisher[p] \in Attempted /\ publisher[p].checkpoint \in Checkpoints
  BY DEF OutboxInv, OutboxTypeOK, PublishersAgree
<1>2. publisher[p].checkpoint.sequence \in Sequences
  BY <1>1 DEF Sequences
<1>3. /\ RowOf(p) \in Rows /\ RowOf(p) # Absent /\ RowReadable(RowOf(p))
      /\ RowOf(p).checkpoint = publisher[p].checkpoint /\ RowOf(p).mode = publisher[p].mode
  BY <1>2 DEF OutboxInv, OutboxTypeOK, PublishersAgree, RowsAgree, RowOf
<1>4. publisher[p].mode \in Modes /\ publisher[p].attempt \in Nat
  BY <1>1, <1>3 DEF Rows, Attempted
<1>5. QED
  BY <1>1, <1>2, <1>3, <1>4 DEF Request

\* The object store answers with what it holds after the request.
LEMMA CreateKeeps ==
  ASSUME OutboxInv, NEW p \in Publishers, NEW t \in Ticks, Create(p, t)
  PROVE  OutboxInv'
<1>1. PICK until \in Untils(publisher[p].mode, t) :
        /\ objects' = Stored(Request(p), t, until)
        /\ publisher' = [publisher EXCEPT ![p].phase = "answered",
                                          ![p].answer = Answer(Request(p), t, until)]
  BY DEF Create
<1> DEFINE a == Answer(Request(p), t, until)
           x == [publisher[p] EXCEPT !.phase = "answered", !.answer = a]
           c == publisher[p].checkpoint
<1>2. publisher[p].phase # "idle" /\ UNCHANGED <<outbox, wire, crashes>>
  BY DEF Create
<1>3. /\ publisher[p] \in Attempted /\ c \in Checkpoints /\ publisher[p].mode \in Modes
      /\ publisher[p].attempt \in Nat
      /\ Request(p) \in [checkpoint : Checkpoints, mode : Modes, attempt : Nat]
      /\ Request(p).checkpoint = c /\ Request(p).mode = publisher[p].mode
      /\ Request(p).attempt = publisher[p].attempt
  BY <1>2, RequestFacts
<1>4. /\ objects' \in [Checkpoints -> Objects \cup {Absent}] /\ RowsAgree'
      /\ \A d \in Checkpoints : objects[d] # Absent => objects'[d] = objects[d]
      /\ objects[c] = Absent =>
           objects'[c] = [mode |-> publisher[p].mode, storedAt |-> t, until |-> until,
                          by |-> publisher[p].attempt]
  BY <1>1, <1>2, <1>3, ObjectStays
<1>5. t \in Nat /\ until \in Nat
  BY <1>1, <1>3, TickFacts DEF Untils
<1>6. a \in Outcomes
  BY <1>3, <1>5 DEF Answer, Outcomes, Dispositions, OutboxInv, OutboxTypeOK, Objects
<1>7. a.disposition # "conflict" => Repeats(a, objects'[c], publisher[p].mode, publisher[p].attempt)
  <2>1. CASE objects[c] = Absent
    <3>1. a = [storedAt |-> t, until |-> until, disposition |-> "created"]
      BY <1>3, <2>1 DEF Answer
    <3>2. objects'[c] # Absent
      <4>1. objects'[c] \in Objects
        BY <1>3, <1>4, <1>5, <2>1 DEF Objects
      <4>2. QED
        BY <4>1, AbsentAssumption
    <3>3. QED
      BY <1>4, <2>1, <3>1, <3>2 DEF Repeats
  <2>2. CASE objects[c] # Absent /\ objects[c].mode # publisher[p].mode
    BY <1>3, <2>2 DEF Answer
  <2>3. CASE objects[c] # Absent /\ objects[c].mode = publisher[p].mode
    <3>1. a = [storedAt |-> objects[c].storedAt, until |-> objects[c].until,
               disposition |-> "already_exists"]
      BY <1>3, <2>3 DEF Answer
    <3>2. QED
      BY <1>3, <1>4, <2>3, <3>1 DEF Repeats
  <2>4. QED
    BY <2>1, <2>2, <2>3
<1>8. x \in Attempted /\ x.phase = "answered" /\ x.answer = a /\ x.checkpoint = c
      /\ x.mode = publisher[p].mode /\ x.attempt = publisher[p].attempt
  BY <1>3, <1>6 DEF Attempted
<1>9. publisher' = [publisher EXCEPT ![p] = x]
  BY <1>1 DEF OutboxInv, OutboxTypeOK
<1>10. a # Absent
  BY <1>6, AbsentAssumption
<1> HIDE DEF x, a
<1>11. publisher' \in [Publishers -> Attempted] /\ publisher'[p] = x
       /\ \A q \in Publishers \ {p} : publisher'[q] = publisher[q]
  BY <1>8, <1>9, PublisherMoves
<1>12. PublishersAgree'
  BY <1>2, <1>8, <1>11 DEF OutboxInv, PublishersAgree, RowOf
<1>13. AnswersAgree'
  <2> SUFFICES ASSUME NEW q \in Publishers, publisher'[q].phase = "answered"
               PROVE  AnswersAgree!(q)'
    BY DEF AnswersAgree
  <2>1. CASE q = p
    BY <1>7, <1>8, <1>10, <1>11, <2>1
  <2>2. CASE q # p
    <3>1. publisher'[q] = publisher[q] /\ publisher[q].checkpoint \in Checkpoints
      BY <1>11, <2>2 DEF OutboxInv, PublishersAgree
    <3>2. QED
      BY <1>4, <3>1 DEF OutboxInv, AnswersAgree, Repeats
  <2>3. QED
    BY <2>1, <2>2
<1>14. OutboxTypeOK'
  BY <1>2, <1>4, <1>11 DEF OutboxInv, OutboxTypeOK
<1>15. QED
  BY <1>2, <1>4, <1>12, <1>13, <1>14 DEF OutboxInv, RowsInPlace

\* A request that outlived its publisher.
LEMMA ArriveKeeps ==
  ASSUME OutboxInv, NEW req \in wire, NEW t \in Ticks, Arrive(req, t)
  PROVE  OutboxInv'
<1>1. PICK until \in Untils(req.mode, t) : objects' = Stored(req, t, until)
  BY DEF Arrive
<1>2. req \in [checkpoint : Checkpoints, mode : Modes, attempt : Nat]
      /\ wire' \subseteq wire /\ UNCHANGED <<outbox, publisher, crashes>>
  BY DEF Arrive, OutboxInv, OutboxTypeOK
<1>3. /\ objects' \in [Checkpoints -> Objects \cup {Absent}] /\ RowsAgree'
      /\ \A d \in Checkpoints : objects[d] # Absent => objects'[d] = objects[d]
  BY <1>1, <1>2, ObjectStays
<1>4. PublishersAgree' /\ RowsInPlace'
  BY <1>2 DEF OutboxInv, PublishersAgree, RowsInPlace, RowOf
<1>5. AnswersAgree'
  <2> SUFFICES ASSUME NEW q \in Publishers, publisher[q].phase = "answered"
               PROVE  AnswersAgree!(q)'
    BY <1>2 DEF AnswersAgree
  <2>1. publisher[q].checkpoint \in Checkpoints
    BY DEF OutboxInv, PublishersAgree
  <2>2. QED
    BY <1>2, <1>3, <2>1 DEF OutboxInv, AnswersAgree, Repeats
<1>6. OutboxTypeOK'
  BY <1>2, <1>3 DEF OutboxInv, OutboxTypeOK
<1>7. QED
  BY <1>3, <1>4, <1>5, <1>6 DEF OutboxInv

\* A publisher that goes on to something that is no answer.
LEMMA PublisherAlone ==
  ASSUME OutboxInv, NEW p \in Publishers, NEW x \in Attempted,
         publisher' = [publisher EXCEPT ![p] = x],
         x.phase # "answered",
         x.phase # "idle" => /\ publisher[p].phase # "idle"
                             /\ x.checkpoint = publisher[p].checkpoint /\ x.mode = publisher[p].mode,
         UNCHANGED <<outbox, objects>>,
         wire' \subseteq [checkpoint : Checkpoints, mode : Modes, attempt : Nat], crashes' \in Nat
  PROVE  OutboxInv'
<1>1. publisher' \in [Publishers -> Attempted] /\ publisher'[p] = x
      /\ \A q \in Publishers \ {p} : publisher'[q] = publisher[q]
  BY PublisherMoves
<1>2. PublishersAgree' /\ AnswersAgree'
  BY <1>1 DEF OutboxInv, PublishersAgree, AnswersAgree, Repeats, RowOf
<1>3. OutboxTypeOK' /\ RowsInPlace' /\ RowsAgree'
  BY <1>1 DEF OutboxInv, OutboxTypeOK, RowsInPlace, RowsAgree, RowReadable, Repeats
<1>4. QED
  BY <1>2, <1>3 DEF OutboxInv

\* What a publisher that has heard nothing, or is refused, becomes.
LEMMA TurnFacts ==
  ASSUME OutboxInv, NEW p \in Publishers, publisher[p].phase # "idle",
         NEW phase \in {"lost", "refused"}
  PROVE  LET x == [publisher[p] EXCEPT !.phase = phase]
         IN  /\ x \in Attempted /\ x.phase = phase /\ x.checkpoint = publisher[p].checkpoint
             /\ x.mode = publisher[p].mode
             /\ [publisher EXCEPT ![p].phase = phase] = [publisher EXCEPT ![p] = x]
  BY RequestFacts DEF OutboxInv, OutboxTypeOK, Attempted

LEMMA TransportFailsKeeps ==
  ASSUME OutboxInv, NEW p \in Publishers, TransportFails(p)
  PROVE  OutboxInv'
<1>1. publisher[p].phase # "idle" /\ publisher' = [publisher EXCEPT ![p].phase = "lost"]
      /\ UNCHANGED <<outbox, wire, objects, crashes>>
  BY DEF TransportFails
<1>2. wire' \subseteq [checkpoint : Checkpoints, mode : Modes, attempt : Nat] /\ crashes' \in Nat
  BY <1>1 DEF OutboxInv, OutboxTypeOK
<1>3. QED
  BY <1>1, <1>2, TurnFacts, PublisherAlone

\* A row that a publisher records, which rests after that.
LEMMA RecordKeeps ==
  ASSUME OutboxInv, NEW p \in Publishers, publisher[p].phase # "idle", NEW r \in Rows,
         Update(p, r), Rest(p), UNCHANGED <<wire, objects, crashes>>,
         RowReadable(r), r.checkpoint = publisher[p].checkpoint, r.mode = publisher[p].mode,
         r.state = "published" => Repeats(r, objects[r.checkpoint], r.mode, r.count)
  PROVE  OutboxInv'
<1> DEFINE n == publisher[p].checkpoint.sequence
<1>1. n \in Sequences /\ outbox[n] # Absent /\ outbox[n].checkpoint = publisher[p].checkpoint
      /\ outbox[n].mode = publisher[p].mode
  BY RequestFacts DEF RowOf
<1>2. outbox' = [outbox EXCEPT ![n] = r] /\ r.checkpoint.sequence = n
  BY DEF Update
<1>3. /\ outbox' \in [Sequences -> Rows \cup {Absent}] /\ RowsInPlace' /\ RowsAgree'
      /\ \A q \in Publishers : publisher[q].phase # "idle" =>
           LET row == outbox'[publisher[q].checkpoint.sequence]
           IN  row # Absent /\ row.checkpoint = publisher[q].checkpoint /\ row.mode = publisher[q].mode
  BY <1>1, <1>2, RowChanges
<1>4. Resting \in Attempted /\ Resting.phase = "idle"
  BY DEF Resting, Attempted
<1>5. publisher' \in [Publishers -> Attempted] /\ publisher'[p] = Resting
      /\ \A q \in Publishers \ {p} : publisher'[q] = publisher[q]
  BY <1>4, PublisherMoves DEF Rest
<1>6. PublishersAgree' /\ AnswersAgree'
  BY <1>3, <1>4, <1>5 DEF OutboxInv, PublishersAgree, AnswersAgree, Repeats, RowOf
<1>7. OutboxTypeOK'
  BY <1>3, <1>5 DEF OutboxInv, OutboxTypeOK
<1>8. QED
  BY <1>3, <1>6, <1>7 DEF OutboxInv

\* Only what the store answered, to the attempt the row is still in, is recorded.
LEMMA CompleteKeeps ==
  ASSUME OutboxInv, NEW p \in Publishers, NEW t \in Ticks, Complete(p, t)
  PROVE  OutboxInv'
<1> DEFINE a == publisher[p].answer
           r == [RowOf(p) EXCEPT !.state = "published", !.active = Absent, !.updatedAt = t,
                                 !.storedAt = a.storedAt, !.until = a.until,
                                 !.disposition = a.disposition]
<1>1. publisher[p].phase = "answered" /\ UNCHANGED <<wire, objects, crashes>>
  BY DEF Complete
<1>2. /\ publisher[p].attempt \in Nat /\ publisher[p] \in Attempted
      /\ RowOf(p) \in Rows /\ RowOf(p) # Absent /\ RowReadable(RowOf(p))
      /\ RowOf(p).checkpoint = publisher[p].checkpoint /\ RowOf(p).mode = publisher[p].mode
  BY <1>1, RequestFacts
<1>3. CASE Completable(p, t)
  <2>1. Update(p, r) /\ Rest(p)
    BY <1>3 DEF Complete
  <2>2. /\ a.disposition # "conflict" /\ RowOf(p).state = "in_flight"
        /\ RowOf(p).active = publisher[p].attempt
        /\ t >= RowOf(p).updatedAt /\ t >= a.storedAt
        /\ KeptLongEnough(RowOf(p).mode, a.storedAt, a.until)
    BY <1>3 DEF Completable, Current, Timely
  <2>3. /\ Repeats(a, objects[publisher[p].checkpoint], publisher[p].mode, publisher[p].attempt)
        /\ a # Absent
    BY <1>1, <2>2 DEF OutboxInv, AnswersAgree
  <2>4. objects[publisher[p].checkpoint] \in Objects
    BY <1>1, <2>3, RequestFacts DEF Repeats, OutboxInv, OutboxTypeOK
  <2>5. a.storedAt \in Nat /\ a.until \in Nat
    BY <2>3, <2>4 DEF Repeats, Objects
  <2>6. a.disposition \in Dispositions
    BY <1>2, <2>2, <2>3 DEF Attempted, Outcomes
  <2>7. t \in Nat
    BY TickFacts
  <2>8. /\ r.state = "published" /\ r.active = Absent /\ r.updatedAt = t /\ r.storedAt = a.storedAt
        /\ r.until = a.until /\ r.disposition = a.disposition /\ r.count = RowOf(p).count
        /\ r.queuedAt = RowOf(p).queuedAt /\ r.checkpoint = RowOf(p).checkpoint /\ r.mode = RowOf(p).mode
        /\ r \in Rows
    BY <1>2, <2>5, <2>6, <2>7 DEF Rows
  <2>9. RowOf(p).count = publisher[p].attempt
    BY <1>2, <2>2 DEF RowReadable
  <2>10. RowOf(p).queuedAt \in Nat /\ RowOf(p).updatedAt \in Nat /\ RowOf(p).count \in Nat
    BY <1>2 DEF Rows
  <2>11. r.storedAt # Absent /\ r.disposition # Absent
    BY <2>5, <2>6, <2>8, AbsentAssumption
  <2> HIDE DEF r, a
  <2>12. RowReadable(r)
    <3>1. r.updatedAt >= r.queuedAt
      BY <1>2, <2>2, <2>7, <2>8, <2>10 DEF RowReadable
    <3>2. r.count <= MaxAttempts /\ r.count >= 1
      BY <1>2, <2>2, <2>8 DEF RowReadable
    <3>3. QED
      BY <2>2, <2>8, <2>11, <3>1, <3>2 DEF RowReadable
  <2>13. Repeats(r, objects[r.checkpoint], r.mode, r.count)
    BY <1>2, <2>3, <2>8, <2>9 DEF Repeats
  <2>14. QED
    BY <1>1, <1>2, <2>1, <2>8, <2>12, <2>13, RecordKeeps
<1>4. CASE ~Completable(p, t)
  <2>1. publisher' = [publisher EXCEPT ![p].phase = "refused"] /\ UNCHANGED outbox
    BY <1>4 DEF Complete
  <2>2. wire' \subseteq [checkpoint : Checkpoints, mode : Modes, attempt : Nat] /\ crashes' \in Nat
    BY <1>1 DEF OutboxInv, OutboxTypeOK
  <2>3. publisher[p].phase # "idle"
    BY <1>1
  <2>4. QED
    BY <1>1, <2>1, <2>2, <2>3, TurnFacts, PublisherAlone
<1>5. QED
  BY <1>3, <1>4

\* A row that is taken out of flight.
Landed(r, t, s) == [r EXCEPT !.active = Absent, !.updatedAt = t, !.state = s]

\* It is readable, and still for the same object.
LEMMA LandedFacts ==
  ASSUME NEW r \in Rows, RowReadable(r), r.state = "in_flight", NEW t \in Nat, t >= r.updatedAt,
         NEW s, s = "failed" \/ (s = "pending" /\ r.count < MaxAttempts)
  PROVE  /\ Landed(r, t, s) \in Rows /\ RowReadable(Landed(r, t, s)) /\ Landed(r, t, s).state = s
         /\ Landed(r, t, s).checkpoint = r.checkpoint /\ Landed(r, t, s).mode = r.mode
<1> DEFINE x == Landed(r, t, s)
<1>1. /\ x.state = s /\ x.active = Absent /\ x.updatedAt = t /\ x.count = r.count
      /\ x.queuedAt = r.queuedAt /\ x.storedAt = r.storedAt /\ x.until = r.until
      /\ x.disposition = r.disposition /\ x.checkpoint = r.checkpoint /\ x.mode = r.mode
      /\ x \in Rows
  BY DEF Rows, Landed
<1>2. r.queuedAt \in Nat /\ r.updatedAt \in Nat /\ r.count \in Nat
  BY DEF Rows
<1> HIDE DEF x
<1>3. x.updatedAt >= x.queuedAt /\ x.count >= 1 /\ x.count <= MaxAttempts
  BY <1>1, <1>2 DEF RowReadable
<1>4. RowReadable(x)
  BY <1>1, <1>3 DEF RowReadable
<1>5. QED
  BY <1>1, <1>4 DEF x

LEMMA FailKeeps ==
  ASSUME OutboxInv, NEW p \in Publishers, NEW t \in Ticks, Fail(p, t)
  PROVE  OutboxInv'
<1> DEFINE s == AfterFailure(publisher[p].attempt, publisher[p].phase = "lost")
           r == [RowOf(p) EXCEPT !.active = Absent, !.updatedAt = t, !.state = s]
<1>1. publisher[p].phase # "idle" /\ Rest(p) /\ UNCHANGED <<wire, objects, crashes>>
  BY DEF Fail
<1>2. /\ RowOf(p) \in Rows /\ RowOf(p) # Absent /\ RowReadable(RowOf(p))
      /\ RowOf(p).checkpoint = publisher[p].checkpoint /\ RowOf(p).mode = publisher[p].mode
  BY <1>1, RequestFacts
<1>3. CASE Current(p) /\ t >= RowOf(p).updatedAt
  <2>1. Update(p, r)
    BY <1>3 DEF Fail
  <2>2. RowOf(p).state = "in_flight" /\ RowOf(p).count = publisher[p].attempt
    BY <1>2, <1>3 DEF Current, RowReadable
  <2>3. s = "failed" \/ (s = "pending" /\ RowOf(p).count < MaxAttempts)
    BY <2>2 DEF AfterFailure
  <2> HIDE DEF s
  <2>4. r \in Rows /\ RowReadable(r) /\ r.state = s /\ r.checkpoint = RowOf(p).checkpoint
        /\ r.mode = RowOf(p).mode
    <3>1. r = Landed(RowOf(p), t, s)
      BY DEF Landed
    <3>2. t \in Nat /\ t >= RowOf(p).updatedAt
      BY <1>3, TickFacts
    <3> HIDE DEF r
    <3>3. QED
      BY <1>2, <2>2, <2>3, <3>1, <3>2, LandedFacts
  <2> HIDE DEF r
  <2>5. QED
    BY <1>1, <1>2, <2>1, <2>3, <2>4, RecordKeeps
<1>4. CASE ~(Current(p) /\ t >= RowOf(p).updatedAt)
  <2>1. UNCHANGED outbox /\ publisher' = [publisher EXCEPT ![p] = Resting]
    BY <1>4 DEF Fail, Rest
  <2>2. wire' \subseteq [checkpoint : Checkpoints, mode : Modes, attempt : Nat] /\ crashes' \in Nat
    BY <1>1 DEF OutboxInv, OutboxTypeOK
  <2>3. Resting \in Attempted /\ Resting.phase = "idle"
    BY DEF Resting, Attempted
  <2>4. QED
    BY <1>1, <2>1, <2>2, <2>3, PublisherAlone
<1>5. QED
  BY <1>3, <1>4

\* Rows are taken out of flight behind the backs of the publishers that have them.
LEMMA RecoverKeeps ==
  ASSUME OutboxInv, NEW t \in Ticks, Recover(t)
  PROVE  OutboxInv'
<1> DEFINE s(n) == IF outbox[n].count < MaxAttempts THEN "pending" ELSE "failed"
           r(n) == [outbox[n] EXCEPT !.active = Absent, !.updatedAt = t, !.state = s(n)]
<1>1. UNCHANGED <<publisher, wire, objects, crashes>>
  BY DEF Recover
<1>2. ASSUME NEW n \in InState("in_flight")
      PROVE  /\ n \in Sequences /\ outbox[n] # Absent /\ outbox[n] \in Rows /\ r(n) \in Rows
             /\ RowReadable(r(n)) /\ r(n).state # "published"
             /\ r(n).checkpoint = outbox[n].checkpoint /\ r(n).mode = outbox[n].mode
  <2>1. /\ n \in Sequences /\ outbox[n] # Absent /\ outbox[n] \in Rows /\ RowReadable(outbox[n])
        /\ outbox[n].state = "in_flight"
    BY DEF InState, OutboxInv, OutboxTypeOK, RowsAgree
  <2>2. t >= outbox[n].updatedAt /\ t \in Nat
    BY TickFacts DEF Recover
  <2>3. s(n) = "failed" \/ (s(n) = "pending" /\ outbox[n].count < MaxAttempts)
    OBVIOUS
  <2> HIDE DEF s
  <2>4. /\ r(n) \in Rows /\ RowReadable(r(n)) /\ r(n).state = s(n)
        /\ r(n).checkpoint = outbox[n].checkpoint /\ r(n).mode = outbox[n].mode
    <3>1. r(n) = Landed(outbox[n], t, s(n))
      BY DEF Landed
    <3> HIDE DEF r
    <3>2. QED
      BY <2>1, <2>2, <2>3, <3>1, LandedFacts
  <2> HIDE DEF r
  <2>5. QED
    BY <2>1, <2>3, <2>4
<1>3. outbox' = [n \in Sequences |-> IF n \in InState("in_flight") THEN r(n) ELSE outbox[n]]
  BY DEF Recover
<1> HIDE DEF r, s
<1>4. \A n \in Sequences :
        /\ n \in InState("in_flight") => outbox'[n] = r(n)
        /\ n \notin InState("in_flight") => outbox'[n] = outbox[n]
  BY <1>3
<1>5. \A n \in InState("in_flight") : outbox'[n] # Absent
  BY <1>2, <1>4, AbsentAssumption
<1>6. outbox' \in [Sequences -> Rows \cup {Absent}]
  BY <1>2, <1>3 DEF OutboxInv, OutboxTypeOK
<1>7. RowsInPlace'
  BY <1>2, <1>4 DEF OutboxInv, RowsInPlace
<1>8. RowsAgree'
  <2> SUFFICES ASSUME NEW n \in Sequences, outbox'[n] # Absent
               PROVE  RowsAgree!(n)'
    BY DEF RowsAgree
  <2>1. CASE n \in InState("in_flight")
    <3>1. outbox'[n] = r(n) /\ RowReadable(r(n)) /\ r(n).state # "published"
      BY <1>2, <1>4, <2>1
    <3>2. QED
      BY <3>1 DEF RowReadable
  <2>2. CASE n \notin InState("in_flight")
    <3>1. outbox'[n] = outbox[n]
      BY <1>4, <2>2
    <3>2. QED
      BY <1>1, <3>1 DEF OutboxInv, RowsAgree, RowReadable, Repeats
  <2>3. QED
    BY <2>1, <2>2
<1>9. PublishersAgree'
  <2> SUFFICES ASSUME NEW p \in Publishers, publisher[p].phase # "idle"
               PROVE  PublishersAgree!(p)'
    BY <1>1 DEF PublishersAgree
  <2>1. /\ publisher[p].checkpoint \in Checkpoints /\ publisher[p].checkpoint.sequence \in Sequences
        /\ RowOf(p) # Absent /\ RowOf(p).checkpoint = publisher[p].checkpoint
        /\ RowOf(p).mode = publisher[p].mode
    BY RequestFacts
  <2>2. QED
    BY <1>1, <1>2, <1>4, <1>5, <2>1 DEF RowOf
<1>10. AnswersAgree'
  BY <1>1 DEF OutboxInv, AnswersAgree, Repeats
<1>11. OutboxTypeOK'
  BY <1>1, <1>6 DEF OutboxInv, OutboxTypeOK
<1>12. QED
  BY <1>7, <1>8, <1>9, <1>10, <1>11 DEF OutboxInv

LEMMA DieKeeps ==
  ASSUME OutboxInv, NEW p \in Publishers, Die(p)
  PROVE  OutboxInv'
<1>1. publisher[p].phase # "idle" /\ publisher' = [publisher EXCEPT ![p] = Resting]
      /\ UNCHANGED <<outbox, objects>> /\ crashes' = crashes + 1
  BY DEF Die, Rest
<1>2. Request(p) \in [checkpoint : Checkpoints, mode : Modes, attempt : Nat]
  BY <1>1, RequestFacts
<1>3. wire' \subseteq [checkpoint : Checkpoints, mode : Modes, attempt : Nat]
  <2>1. wire' \subseteq wire \cup {Request(p)}
    BY DEF Die
  <2>2. QED
    BY <1>2, <2>1 DEF OutboxInv, OutboxTypeOK
<1>4. crashes' \in Nat
  BY <1>1 DEF OutboxInv, OutboxTypeOK
<1>5. Resting \in Attempted /\ Resting.phase = "idle"
  BY DEF Resting, Attempted
<1>6. QED
  BY <1>1, <1>3, <1>4, <1>5, PublisherAlone

LEMMA OutboxStepKeeps == OutboxInv /\ [OutboxNext]_outboxVars => OutboxInv'
<1> SUFFICES ASSUME OutboxInv, [OutboxNext]_outboxVars
             PROVE  OutboxInv'
  OBVIOUS
<1>1. CASE UNCHANGED outboxVars
  BY <1>1 DEF outboxVars, OutboxInv, OutboxTypeOK, RowsInPlace, PublishersAgree, AnswersAgree,
     RowsAgree, RowReadable, Repeats, RowOf
<1>2. CASE OutboxNext
  <2>1. PICK t \in Ticks :
          \/ \E c \in Checkpoints, mode \in Modes : Enqueue(c, mode, t)
          \/ \E p \in Publishers : \/ Claim(p, t) \/ Create(p, t) \/ TransportFails(p)
                                   \/ Complete(p, t) \/ Fail(p, t) \/ Die(p)
          \/ \E req \in wire : Arrive(req, t)
          \/ Recover(t)
    BY <1>2 DEF OutboxNext
  <2>2. QED
    BY <2>1, EnqueueKeeps, ClaimKeeps, CreateKeeps, TransportFailsKeeps, CompleteKeeps, FailKeeps,
       DieKeeps, ArriveKeeps, RecoverKeeps
<1>3. QED
  BY <1>1, <1>2

\* What the outbox says of the object store is so in every reachable state, for any
\* checkpoints, publishers, clocks and number of deaths: every transaction reads its
\* rows (verifyIntegrityInternal throws at none), a published row repeats the object
\* that is stored, and "created" is said of the attempt that created it.
THEOREM OutboxStaysTruthful == OutboxSpec => []OutboxIsTruthful
<1>1. OutboxInv => OutboxIsTruthful
  <2> SUFFICES ASSUME OutboxInv
               PROVE  OutboxIsTruthful
    OBVIOUS
  <2>1. Readable
    BY DEF OutboxInv, RowsAgree, Readable
  <2>2. ASSUME NEW n \in InState("published")
        PROVE  Repeats(outbox[n], objects[outbox[n].checkpoint], outbox[n].mode, outbox[n].count)
    BY DEF InState, OutboxInv, RowsAgree
  <2>3. QED
    BY <2>1, <2>2 DEF OutboxIsTruthful, Repeats
<1>2. QED
  BY <1>1, OutboxInitially, OutboxStepKeeps, PTL DEF OutboxSpec

-----------------------------------------------------------------------------
(* The verifier.  Its sort leaves what was read in an order that has a first *)
(* and a last object, and after every object but the last a next one; what   *)
(* it asks of neighbours is then so of the whole set.                        *)

\* Induction over the subsets of a finite set: the property is given as the set of the subsets
\* that have it.
LEMMA SubsetInduction ==
  ASSUME NEW S, IsFiniteSet(S), NEW F,
         ASSUME NEW T \in SUBSET S, \A U \in SUBSET T : U # T => U \in F PROVE T \in F
  PROVE  \A T \in SUBSET S : T \in F
<1> DEFINE R == StrictSubsetOrdering(S)
           Bad == {T \in SUBSET S : T \notin F}
<1> SUFFICES ASSUME Bad # {} PROVE FALSE
  OBVIOUS
<1>1. IsWellFoundedOn(R, FiniteSubsetsOf(S))
  BY FS_StrictSubsetOrderingWellFounded
<1>2. FiniteSubsetsOf(S) = SUBSET S
  BY FS_FiniteSubsetsOfFinite
<1>3. \E T \in Bad : \A U \in Bad : ~(<<U, T>> \in R)
  <2>1. Bad \subseteq FiniteSubsetsOf(S)
    BY <1>2
  <2> HIDE DEF R, Bad
  <2>2. QED
    BY <1>1, <2>1, WFMin
<1>4. PICK T \in Bad : \A U \in Bad : ~(<<U, T>> \in R)
  BY <1>3
<1>5. ASSUME NEW U \in SUBSET T, U # T PROVE U \in F
  <2>1. <<U, T>> \in R
    BY <1>5 DEF StrictSubsetOrdering
  <2>2. QED
    BY <1>4, <2>1
<1>6. QED
  BY <1>4, <1>5

\* Objects the verifier may have read: at most one to a checkpoint.
AnchorObjects == {Object(c, s) : c \in Signed, s \in Shapes}
OneEach(S) == /\ S \subseteq AnchorObjects /\ IsFiniteSet(S)
            /\ \A x, y \in S : x.checkpoint = y.checkpoint => x = y

\* What an object is made of.
LEMMA ObjectFacts ==
  ASSUME NEW o \in AnchorObjects
  PROVE  /\ o.checkpoint \in Signed /\ o.mode \in Kinds /\ o.storedAt \in 0..LastTime /\ o # Absent
         /\ Sequence(o) \in Nat /\ o.checkpoint.id \in Nat /\ o.checkpoint.head \in Nat
         /\ o.checkpoint.at \in Nat
  BY SignedAssumption DEF AnchorObjects, Object, Shapes, Sequence

\* And a pin.
LEMMA PinFacts ==
  ASSUME pinned \in {Absent} \cup Pins, pinned # Absent
  PROVE  /\ Sequence(pinned) \in Nat /\ pinned.checkpoint.head \in Nat /\ pinned.checkpoint.at \in Nat
         /\ pinned.storedAt \in 0..LastTime /\ pinned.mode \in Kinds
  BY SignedAssumption DEF Pins, Object, Shapes, Sequence

\* The order is total.
LEMMA BeforeFacts ==
  ASSUME NEW S, OneEach(S)
  PROVE  /\ \A x \in S : ~Before(x, x)
         /\ \A x, y, z \in S : Before(x, y) /\ Before(y, z) => Before(x, z)
         /\ \A x, y \in S : x # y => Before(x, y) \/ Before(y, x)
         /\ \A x, y \in S : ~(Before(x, y) /\ Before(y, x))
<1>1. \A x \in S : Sequence(x) \in Nat /\ x.checkpoint.id \in Nat /\ x.checkpoint \in Signed
  BY ObjectFacts DEF OneEach
<1>2. \A x, y \in S : x # y => x.checkpoint.id # y.checkpoint.id
  BY <1>1, SignedAssumption DEF OneEach
<1>3. QED
  BY <1>1, <1>2 DEF Before

\* Some of the objects, if there are any, have a first and a last one.
LEMMA EndsExist ==
  ASSUME NEW S, OneEach(S), NEW T \in SUBSET S, T # {}
  PROVE  (\E x \in T : IsFirst(T, x)) /\ (\E x \in T : IsLast(T, x))
<1> DEFINE F == {U \in SUBSET S : U # {} => (\E x \in U : IsFirst(U, x)) /\ (\E x \in U : IsLast(U, x))}
<1>1. ASSUME NEW U \in SUBSET S, \A V \in SUBSET U : V # U => V \in F PROVE U \in F
  <2> SUFFICES ASSUME U # {} PROVE (\E x \in U : IsFirst(U, x)) /\ (\E x \in U : IsLast(U, x))
    OBVIOUS
  <2>1. PICK a \in U : TRUE
    OBVIOUS
  <2>2. U \ {a} \in F
    BY <1>1, <2>1
  <2>3. CASE U = {a}
    BY <2>1, <2>3 DEF IsFirst, IsLast
  <2>4. CASE U # {a}
    <3>1. PICK x, y \in U \ {a} : IsFirst(U \ {a}, x) /\ IsLast(U \ {a}, y)
      BY <2>1, <2>2, <2>4
    <3>2. \E u \in U : IsFirst(U, u)
      BY <2>1, <3>1, BeforeFacts DEF IsFirst
    <3>3. \E u \in U : IsLast(U, u)
      BY <2>1, <3>1, BeforeFacts DEF IsLast
    <3>4. QED
      BY <3>2, <3>3
  <2>5. QED
    BY <2>3, <2>4
<1>2. IsFiniteSet(S)
  BY DEF OneEach
<1>3. \A U \in SUBSET S : U \in F
  <2> HIDE DEF F
  <2>1. QED
    BY <1>1, <1>2, SubsetInduction
<1>4. QED
  BY <1>3

\* What comes after an object has a next one before it, or is the next one.
LEMMA NextExists ==
  ASSUME NEW S, OneEach(S), NEW x \in S, NEW y \in S, Before(x, y)
  PROVE  \E z \in S : Follows(S, x, z) /\ (z = y \/ Before(z, y))
<1> DEFINE T == {z \in S : Before(x, z)}
<1>1. PICK z \in T : IsFirst(T, z)
  <2>1. T \in SUBSET S /\ T # {}
    OBVIOUS
  <2> HIDE DEF T
  <2>2. QED
    BY <2>1, EndsExist
<1>2. Follows(S, x, z)
  BY <1>1, BeforeFacts DEF Follows, IsFirst
<1>3. z = y \/ Before(z, y)
  BY <1>1 DEF IsFirst
<1>4. QED
  BY <1>2, <1>3

\* What one object that continues another has to be like.
Continues(x, y) ==
  /\ Sequence(y) # Sequence(x) /\ ~(Sequence(y) > Sequence(x) + 1)
  /\ y.checkpoint.previous = x.checkpoint.id
  /\ ~(y.checkpoint.head <= x.checkpoint.head)
  /\ ~(y.checkpoint.at < x.checkpoint.at \/ y.storedAt < x.storedAt)

\* That is what verifyLineage asks.
LEMMA SuccessionIs == ASSUME NEW x, NEW y PROVE Succession(x, y) = {} <=> Continues(x, y)
  BY Zenon DEF Succession, If, Continues

\* The lineage has nothing against a set.
LEMMA LineageIs ==
  ASSUME NEW S
  PROVE  Lineage(S) = {} <=> /\ \A o \in S : IsFirst(S, o) => Start(o) = {}
                             /\ \A x, y \in S : Follows(S, x, y) => Continues(x, y)
                             /\ Downgrade(S) = {}
<1> DEFINE P == {q \in S \X S : Follows(S, q[1], q[2])}
           A == UNION {Start(o) : o \in {x \in S : IsFirst(S, x)}}
           B == UNION {Succession(p[1], p[2]) : p \in P}
<1>1. Lineage(S) = A \cup B \cup Downgrade(S)
  BY Zenon DEF Lineage
<1>2. A = {} <=> \A o \in S : IsFirst(S, o) => Start(o) = {}
  BY Zenon
<1>3. B = {} <=> \A p \in P : Succession(p[1], p[2]) = {}
  BY Zenon
<1>4. (\A p \in P : Succession(p[1], p[2]) = {}) <=> \A x, y \in S : Follows(S, x, y) => Succession(x, y) = {}
  <2>1. ASSUME \A p \in P : Succession(p[1], p[2]) = {}, NEW x \in S, NEW y \in S, Follows(S, x, y)
        PROVE  Succession(x, y) = {}
    <3>1. <<x, y>> \in P /\ <<x, y>>[1] = x /\ <<x, y>>[2] = y
      BY <2>1
    <3>2. QED
      BY <2>1, <3>1
  <2>2. ASSUME \A x, y \in S : Follows(S, x, y) => Succession(x, y) = {}, NEW p \in P
        PROVE  Succession(p[1], p[2]) = {}
    BY <2>2
  <2>3. QED
    BY <2>1, <2>2
<1> HIDE DEF A, B, P
<1>5. (\A x, y \in S : Follows(S, x, y) => Succession(x, y) = {})
      <=> \A x, y \in S : Follows(S, x, y) => Continues(x, y)
  BY SuccessionIs, Zenon
<1>6. QED
  BY <1>1, <1>2, <1>3, <1>4, <1>5

\* The sequences of a set that is a chain are as many as its objects.
LEMMA OneToASequence ==
  ASSUME NEW S, IsFiniteSet(S), NEW first \in Nat, NEW last \in Nat, first <= last,
         {Sequence(o) : o \in S} = first..last
  PROVE  Cardinality(S) = last - first + 1 <=> \A x, y \in S : Sequence(x) = Sequence(y) => x = y
<1> DEFINE f == [o \in S |-> Sequence(o)]
<1>1. f \in Surjection(S, first..last)
  BY DEF Surjection
<1>2. Cardinality(first..last) = last - first + 1
  BY FS_Interval
<1>3. Cardinality(first..last) = Cardinality(S) <=> f \in Injection(S, first..last)
  BY <1>1, FS_Surjection
<1>4. f \in Injection(S, first..last) <=> \A x, y \in S : Sequence(x) = Sequence(y) => x = y
  BY <1>1 DEF Injection, IsInjective, Surjection
<1>5. QED
  BY <1>2, <1>3, <1>4

\* A set that is valid: what neighbours are asked makes a chain of it.
LEMMA ValidIsChain ==
  ASSUME NEW S, OneEach(S), S # {}, pinned \in {Absent} \cup Pins, Lineage(S) = {}, PinMatched(S)
  PROVE  Chain(pinned, S) /\ \A x, y \in S : Sequence(x) = Sequence(y) => x = y
<1>1. /\ \A o \in S : IsFirst(S, o) => Start(o) = {}
      /\ \A x, y \in S : Follows(S, x, y) => Continues(x, y)
      /\ Downgrade(S) = {}
  BY LineageIs
<1>2. \A o \in S : /\ Sequence(o) \in Nat /\ o.checkpoint.head \in Nat /\ o.checkpoint.at \in Nat
                   /\ o.storedAt \in 0..LastTime /\ o.mode \in Kinds /\ o # Absent
  BY ObjectFacts DEF OneEach
<1>3. \A x, y \in S : Before(x, y) => Sequence(x) <= Sequence(y)
  BY <1>2 DEF Before
\* Neighbours are one apart.
<1>4. \A x, y \in S : Follows(S, x, y) => Sequence(y) = Sequence(x) + 1
  <2> SUFFICES ASSUME NEW x \in S, NEW y \in S, Follows(S, x, y) PROVE Sequence(y) = Sequence(x) + 1
    OBVIOUS
  <2>1. Sequence(y) # Sequence(x) /\ ~(Sequence(y) > Sequence(x) + 1)
    BY <1>1 DEF Continues
  <2>2. Sequence(x) <= Sequence(y) /\ Sequence(x) \in Nat /\ Sequence(y) \in Nat
    BY <1>2, <1>3 DEF Follows
  <2>3. QED
    BY <2>1, <2>2
<1>5. \A x, y \in S : Before(x, y) => Sequence(x) < Sequence(y)
  <2> SUFFICES ASSUME NEW x \in S, NEW y \in S, Before(x, y) PROVE Sequence(x) < Sequence(y)
    OBVIOUS
  <2>1. PICK z \in S : Follows(S, x, z) /\ (z = y \/ Before(z, y))
    BY NextExists
  <2>2. QED
    BY <1>2, <1>3, <1>4, <2>1
<1>6. \A x, y \in S : Sequence(x) = Sequence(y) => x = y
  BY <1>2, <1>5, BeforeFacts
<1>7. PICK a, z \in S : IsFirst(S, a) /\ IsLast(S, z)
  BY EndsExist
<1> DEFINE first == Sequence(a)
           last == Sequence(z)
<1>8. \A o \in S : first <= Sequence(o) /\ Sequence(o) <= last
  BY <1>2, <1>3, <1>7 DEF IsFirst, IsLast
<1>9. ASSUME NEW n \in first..last PROVE \E o \in S : Sequence(o) = n
  <2> DEFINE T == {o \in S : Sequence(o) <= n}
  <2>1. a \in T
    BY <1>2, <1>9
  <2>2. PICK x \in T : IsLast(T, x)
    <3>1. T \in SUBSET S /\ T # {}
      BY <2>1
    <3> HIDE DEF T
    <3>2. QED
      BY <3>1, EndsExist
  <2>3. CASE Sequence(x) = n
    BY <2>3
  <2>4. CASE Sequence(x) # n
    <3>1. Sequence(x) < n /\ x # z
      BY <1>2, <1>9, <2>4
    <3>2. Before(x, z)
      BY <1>7, <3>1 DEF IsLast
    <3>3. PICK y \in S : Follows(S, x, y)
      BY <3>2, NextExists
    <3>4. Sequence(y) = Sequence(x) + 1
      BY <1>4, <3>3
    <3>5. y \in T /\ y # x
      BY <1>2, <1>9, <3>1, <3>4
    <3>6. Before(y, x)
      BY <2>2, <3>5 DEF IsLast
    <3>7. QED
      BY <1>2, <1>3, <3>4, <3>6
  <2>5. QED
    BY <2>3, <2>4
<1>10. {Sequence(o) : o \in S} = first..last
  BY <1>2, <1>8, <1>9
<1>11. Cardinality(S) = last - first + 1
  BY <1>2, <1>6, <1>8, <1>10, OneToASequence DEF OneEach
<1>12. Start(a) = {}
  BY <1>1, <1>7
<1> DEFINE added == pinned # Absent /\ first > Sequence(pinned)
           known == S \cup (IF added THEN {pinned} ELSE {})
<1>13. added => Continues(pinned, a)
  BY <1>12, SuccessionIs DEF Start
<1>14. ~added => first = 1 \/ a = pinned
  BY <1>12, Zenon DEF Start, If
<1>15. pinned # Absent => Sequence(pinned) \in Nat /\ pinned.checkpoint.head \in Nat
          /\ pinned.checkpoint.at \in Nat /\ pinned.storedAt \in 0..LastTime /\ pinned.mode \in Kinds
  BY PinFacts
<1>16. added => first = Sequence(pinned) + 1
  BY <1>2, <1>13, <1>15 DEF Continues
<1>17. first = 1 \/ (pinned # Absent /\ first \in {Sequence(pinned), Sequence(pinned) + 1})
  BY <1>2, <1>14, <1>16
<1>18. pinned # Absent => pinned \in known
  <2>1. CASE \E o \in S : o = pinned
    BY <2>1
  <2>2. CASE \E o \in S : IsFirst(S, o) /\ Sequence(o) = Sequence(pinned) + 1
    <3>1. PICK o \in S : IsFirst(S, o) /\ Sequence(o) = Sequence(pinned) + 1
      BY <2>2
    <3>2. o = a
      BY <1>5, <1>2, <1>7, <3>1 DEF IsFirst
    <3>3. QED
      BY <1>2, <1>15, <3>1, <3>2
  <2>3. QED
    BY <2>1, <2>2 DEF PinMatched
<1>19. pinned \notin S /\ pinned # Absent => first = Sequence(pinned) + 1
  BY <1>16, <1>18
<1>20. ASSUME NEW x \in known, NEW y \in known, Sequence(y) = Sequence(x) + 1
       PROVE  Continues(x, y) /\ (x.mode = "compliance" => y.mode = "compliance")
  <2>1. CASE x \in S /\ y \in S
    <3>1. Before(x, y)
      BY <1>2, <1>20, <2>1 DEF Before
    <3>2. Follows(S, x, y)
      BY <1>2, <1>5, <1>20, <2>1, <3>1 DEF Follows
    <3>3. x.mode = "compliance" => y.mode # "governance"
      BY <1>1, <2>1, <3>1, Zenon DEF Downgrade, If
    <3>4. QED
      BY <1>1, <1>2, <2>1, <3>2, <3>3 DEF Kinds
  <2>2. CASE x = pinned /\ added /\ y \in S
    <3>1. y = a
      BY <1>2, <1>6, <1>8, <1>15, <1>16, <1>20, <2>2
    <3>2. \A o \in S : Sequence(o) >= Sequence(pinned)
      BY <1>2, <1>8, <1>15, <2>2
    <3>3. x.mode = "compliance" => y.mode # "governance"
      BY <1>1, <2>2, <3>2, Zenon DEF Downgrade, If
    <3>4. QED
      BY <1>2, <1>13, <2>2, <3>1, <3>3 DEF Kinds
  <2>3. CASE y = pinned /\ added
    BY <1>2, <1>8, <1>15, <1>20, <2>3
  <2>4. QED
    BY <2>1, <2>2, <2>3
<1>21. \A x \in known : /\ x.checkpoint.head \in Nat /\ x.checkpoint.at \in Nat /\ x.storedAt \in 0..LastTime
  BY <1>2, <1>15
<1>22. \A x, y \in known : Sequence(y) = Sequence(x) + 1 =>
          /\ y.checkpoint.previous = x.checkpoint.id
          /\ y.checkpoint.head > x.checkpoint.head
          /\ y.checkpoint.at >= x.checkpoint.at /\ y.storedAt >= x.storedAt
          /\ x.mode = "compliance" => y.mode = "compliance"
  BY <1>20, <1>21 DEF Continues
<1> HIDE DEF first, last, known
<1>23. first \in {Sequence(o) : o \in S} /\ last \in {Sequence(o) : o \in S}
  BY <1>7 DEF first, last
<1>24. Chain(pinned, S)
  BY <1>10, <1>11, <1>17, <1>18, <1>19, <1>22, <1>23 DEF Chain, known
<1>25. QED
  BY <1>6, <1>24

\* A chain is valid: whatever it is asked of neighbours and of the pin is so.
LEMMA ChainIsValid ==
  ASSUME NEW S, OneEach(S), pinned \in {Absent} \cup Pins, Chain(pinned, S)
  PROVE  /\ S # {} /\ Lineage(S) = {} /\ PinMatched(S)
         /\ \A x, y \in S : Sequence(x) = Sequence(y) => x = y
<1>1. \A o \in S : /\ Sequence(o) \in Nat /\ o.checkpoint.head \in Nat /\ o.checkpoint.at \in Nat
                   /\ o.storedAt \in 0..LastTime /\ o.mode \in Kinds /\ o # Absent
  BY ObjectFacts DEF OneEach
<1>2. pinned # Absent => Sequence(pinned) \in Nat /\ pinned.checkpoint.head \in Nat
         /\ pinned.checkpoint.at \in Nat /\ pinned.storedAt \in 0..LastTime /\ pinned.mode \in Kinds
  BY PinFacts
<1>3. PICK first, last \in {Sequence(o) : o \in S} :
        LET known == S \cup (IF pinned # Absent /\ first > Sequence(pinned) THEN {pinned} ELSE {}) IN
          /\ {Sequence(o) : o \in S} = first..last /\ Cardinality(S) = last - first + 1
          /\ first = 1 \/ (pinned # Absent /\ first \in {Sequence(pinned), Sequence(pinned) + 1})
          /\ pinned # Absent => pinned \in known
          /\ pinned \notin S /\ pinned # Absent => first = Sequence(pinned) + 1
          /\ \A x, y \in known : Sequence(y) = Sequence(x) + 1 =>
               /\ y.checkpoint.previous = x.checkpoint.id
               /\ y.checkpoint.head > x.checkpoint.head
               /\ y.checkpoint.at >= x.checkpoint.at /\ y.storedAt >= x.storedAt
               /\ x.mode = "compliance" => y.mode = "compliance"
  BY DEF Chain
<1> DEFINE added == pinned # Absent /\ first > Sequence(pinned)
           known == S \cup (IF added THEN {pinned} ELSE {})
<1>4. /\ {Sequence(o) : o \in S} = first..last /\ Cardinality(S) = last - first + 1
      /\ first = 1 \/ (pinned # Absent /\ first \in {Sequence(pinned), Sequence(pinned) + 1})
      /\ pinned # Absent => pinned \in known
      /\ pinned \notin S /\ pinned # Absent => first = Sequence(pinned) + 1
  BY <1>3
<1>5. \A x, y \in known : Sequence(y) = Sequence(x) + 1 =>
        /\ y.checkpoint.previous = x.checkpoint.id
        /\ y.checkpoint.head > x.checkpoint.head
        /\ y.checkpoint.at >= x.checkpoint.at /\ y.storedAt >= x.storedAt
        /\ x.mode = "compliance" => y.mode = "compliance"
  BY <1>3
<1>6. first \in Nat /\ last \in Nat /\ S # {} /\ \A o \in S : first <= Sequence(o) /\ Sequence(o) <= last
  BY <1>1, <1>4
<1>7. first <= last
  BY <1>6, <1>1
<1>8. \A x, y \in S : Sequence(x) = Sequence(y) => x = y
  BY <1>4, <1>6, <1>7, OneToASequence DEF OneEach
<1>9. \A x, y \in S : Before(x, y) <=> Sequence(x) < Sequence(y)
  BY <1>1, <1>8, BeforeFacts DEF Before
<1>10. \A x \in known : /\ Sequence(x) \in Nat /\ x.checkpoint.head \in Nat /\ x.checkpoint.at \in Nat
                        /\ x.storedAt \in 0..LastTime /\ x.mode \in Kinds
  BY <1>1, <1>2
<1>11. ASSUME NEW x \in known, NEW y \in known, Sequence(y) = Sequence(x) + 1 PROVE Continues(x, y)
  <2>1. /\ y.checkpoint.previous = x.checkpoint.id
        /\ y.checkpoint.head > x.checkpoint.head
        /\ y.checkpoint.at >= x.checkpoint.at /\ y.storedAt >= x.storedAt
    BY <1>5, <1>11
  <2>2. /\ Sequence(x) \in Nat /\ x.checkpoint.head \in Nat /\ y.checkpoint.head \in Nat
        /\ x.checkpoint.at \in Nat /\ y.checkpoint.at \in Nat
        /\ x.storedAt \in 0..LastTime /\ y.storedAt \in 0..LastTime
    BY <1>10, <1>11
  <2>3. QED
    BY <1>11, <2>1, <2>2 DEF Continues
\* After each object of a sequence comes one of the next.
<1>12. ASSUME NEW x \in S, NEW y \in S, Follows(S, x, y) PROVE Sequence(y) = Sequence(x) + 1
  <2>1. Sequence(x) < Sequence(y) /\ Sequence(x) \in Nat /\ Sequence(y) \in Nat
    BY <1>1, <1>9, <1>12 DEF Follows
  <2>2. Sequence(x) + 1 \in first..last
    BY <1>6, <2>1
  <2>3. PICK z \in S : Sequence(z) = Sequence(x) + 1
    BY <1>4, <2>2
  <2>4. ~(Sequence(x) < Sequence(z) /\ Sequence(z) < Sequence(y))
    BY <1>9, <1>12, <2>3 DEF Follows
  <2>5. QED
    BY <2>1, <2>3, <2>4
<1>13. \A x, y \in S : Follows(S, x, y) => Continues(x, y)
  BY <1>11, <1>12
<1>14. ASSUME NEW o \in S, IsFirst(S, o) PROVE Sequence(o) = first /\ Start(o) = {}
  <2>1. Sequence(o) = first
    <3>1. PICK a \in S : Sequence(a) = first
      BY <1>4, <1>6, <1>7
    <3>2. QED
      BY <1>1, <1>6, <1>9, <1>14, <3>1 DEF IsFirst
  <2>2. CASE added
    <3>1. pinned \notin S
      BY <1>2, <1>6, <2>2
    <3>2. first = Sequence(pinned) + 1
      BY <1>4, <2>2, <3>1
    <3>3. Continues(pinned, o)
      BY <1>11, <2>1, <2>2, <3>2
    <3>4. QED
      BY <2>1, <2>2, <3>3, SuccessionIs DEF Start
  <2>3. CASE ~added
    <3>1. first = 1 \/ o = pinned
      <4>1. CASE first = 1
        BY <4>1
      <4>2. CASE first # 1
        <5>1. pinned # Absent /\ first = Sequence(pinned) /\ pinned \in S
          BY <1>2, <1>4, <1>6, <2>3, <4>2
        <5>2. QED
          BY <1>8, <2>1, <5>1
      <4>3. QED
        BY <4>1, <4>2
    <3>2. QED
      BY <2>1, <2>3, <3>1, Zenon DEF Start, If
  <2>4. QED
    BY <2>1, <2>2, <2>3
\* Compliance stays: the first governance after it would have one before it.
<1>15. ASSUME NEW x \in known, x.mode = "compliance", NEW y \in S, Sequence(x) < Sequence(y)
       PROVE  y.mode = "compliance"
  <2> DEFINE T == {o \in S : Sequence(x) < Sequence(o) /\ o.mode # "compliance"}
  <2> SUFFICES ASSUME y \in T PROVE FALSE
    BY <1>15
  <2>1. PICK o \in T : IsFirst(T, o)
    <3>1. T \in SUBSET S /\ T # {}
      OBVIOUS
    <3> HIDE DEF T
    <3>2. QED
      BY <3>1, EndsExist
  <2>2. Sequence(x) < Sequence(o) /\ o.mode # "compliance" /\ o \in S /\ Sequence(o) \in Nat /\ Sequence(x) \in Nat
    BY <1>1, <1>10, <1>15, <2>1
  <2>3. CASE Sequence(o) = Sequence(x) + 1
    BY <1>5, <1>15, <2>2, <2>3
  <2>4. CASE Sequence(o) # Sequence(x) + 1
    <3>1. Sequence(o) - 1 \in first..last
      <4>1. CASE x \in S
        BY <1>6, <2>2, <2>4, <4>1
      <4>2. CASE x \notin S
        <5>1. added /\ x = pinned /\ pinned \notin S
          BY <1>15, <4>2
        <5>2. first = Sequence(pinned) + 1
          BY <1>4, <5>1
        <5>3. QED
          BY <1>6, <2>2, <2>4, <5>1, <5>2
      <4>3. QED
        BY <4>1, <4>2
    <3>2. PICK z \in S : Sequence(z) = Sequence(o) - 1
      BY <1>4, <3>1
    <3>3. Sequence(o) = Sequence(z) + 1 /\ z \in known /\ o \in known
      BY <2>2, <3>2
    <3>4. z.mode # "compliance"
      BY <1>5, <2>2, <3>3
    <3>5. z \in T /\ z # o
      BY <2>2, <2>4, <3>2, <3>4
    <3>6. Before(o, z)
      BY <2>1, <3>5 DEF IsFirst
    <3>7. QED
      BY <1>9, <2>2, <3>2, <3>6
  <2>5. QED
    BY <2>3, <2>4
<1>16. Downgrade(S) = {}
  <2> DEFINE floored == pinned # Absent /\ \A o \in S : Sequence(o) >= Sequence(pinned)
  <2>1. ASSUME NEW y \in S, y.mode = "governance", NEW x \in S, Before(x, y), x.mode = "compliance" PROVE FALSE
    BY <1>9, <1>15, <2>1
  <2>2. ASSUME NEW y \in S, y.mode = "governance", floored, pinned.mode = "compliance" PROVE FALSE
    <3>1. pinned \in known /\ Sequence(pinned) <= Sequence(y)
      BY <1>1, <1>2, <1>4, <2>2
    <3>2. CASE Sequence(pinned) < Sequence(y)
      BY <1>15, <2>2, <3>1, <3>2
    <3>3. CASE Sequence(pinned) = Sequence(y)
      <4>1. pinned \in S
        BY <1>2, <1>6, <3>1, <3>3
      <4>2. QED
        BY <1>8, <2>2, <3>3, <4>1
    <3>4. QED
      BY <1>1, <1>2, <2>2, <3>1, <3>2, <3>3
  <2> HIDE DEF floored
  <2>3. ~\E y \in S : /\ y.mode = "governance"
                      /\ \/ floored /\ pinned.mode = "compliance"
                         \/ \E x \in S : Before(x, y) /\ x.mode = "compliance"
    BY <2>1, <2>2
  <2>4. QED
    BY <2>3, Zenon DEF Downgrade, If, floored
<1>17. PinMatched(S)
  <2>1. CASE pinned = Absent
    BY <2>1 DEF PinMatched
  <2>2. CASE pinned \in S
    <3>1. \A x \in S : Sequence(x) = Sequence(pinned) => ~Before(x, pinned)
      BY <1>1, <1>9, <2>2
    <3>2. QED
      BY <2>2, <3>1 DEF PinMatched
  <2>3. CASE pinned # Absent /\ pinned \notin S
    <3>1. first = Sequence(pinned) + 1 /\ added
      BY <1>4, <2>3
    <3>2. PICK a \in S : IsFirst(S, a)
      BY <1>6, EndsExist
    <3>3. Sequence(a) = first
      BY <1>14, <3>2
    <3>4. \A o \in S : Sequence(o) # Sequence(pinned)
      BY <1>1, <1>2, <1>6, <3>1
    <3>5. a.checkpoint.previous = pinned.checkpoint.id /\ a.checkpoint.head > pinned.checkpoint.head
      BY <1>5, <3>1, <3>3
    <3>6. QED
      BY <3>1, <3>2, <3>3, <3>4, <3>5 DEF PinMatched
  <2>4. QED
    BY <2>1, <2>2, <2>3
<1>18. QED
  BY <1>6, <1>8, <1>13, <1>14, <1>16, <1>17, LineageIs

\* The verifier reads what it listed; its report is not touched again.
VerifierInv ==
  /\ pinned \in {Absent} \cup Pins
  /\ OneEach(read) /\ listed \subseteq AnchorObjects
  /\ \A x, y \in read \cup listed : x.checkpoint = y.checkpoint => x = y
  /\ asked \in {"idle", "reading", "reported"}
  /\ asked = "idle" => read = {}
  /\ ReportIsRight

\* Before the listing.
LEMMA VerifierInitially == VerifierInit => VerifierInv
  BY FS_EmptySet DEF VerifierInit, VerifierInv, OneEach, ReportIsRight

\* A report that is not touched stays right.
LEMMA ReportStays ==
  ASSUME ReportIsRight, UNCHANGED <<pinned, minimum, read, asked, unsound, valid>>
  PROVE  ReportIsRight'
  BY Zenon DEF ReportIsRight

\* The verdict on what was read.
LEMMA VerdictKeeps ==
  ASSUME VerifierInv, ReportVerdict
  PROVE  VerifierInv'
<1> DEFINE Retained == minimum = "compliance" => \E o \in read : IsLast(read, o) /\ o.mode = "compliance"
           Kept == minimum = "compliance" =>
                     \E o \in read : o.mode = "compliance" /\ \A x \in read : Sequence(x) <= Sequence(o)
<1>1. OneEach(read) /\ pinned \in {Absent} \cup Pins
  BY DEF VerifierInv
<1>2. \A o \in read : Sequence(o) \in Nat
  BY <1>1, ObjectFacts DEF OneEach
<1>3. (\A x, y \in read : Sequence(x) = Sequence(y) => x = y) => (Retained <=> Kept)
  BY <1>2 DEF IsLast, Before
<1>4. valid' = (/\ Lineage(read) \cup If(unsound, "UNSOUND_OBJECT")
                  \cup If(~PinMatched(read), "PINNED_HEAD_MISMATCH")
                  \cup If(minimum = "compliance" /\ ~\E o \in read : IsLast(read, o) /\ o.mode = "compliance",
                          "RETENTION_POLICY_MISMATCH")
                  \cup If(read = {}, "EMPTY_ANCHOR_SET") = {}
                /\ PinMatched(read))
  BY DEF ReportVerdict
<1>5. valid' = (Lineage(read) = {} /\ ~unsound /\ PinMatched(read) /\ Retained /\ read # {})
  BY <1>4, Zenon DEF If
<1> HIDE DEF Retained, Kept
<1>6. valid' = (~unsound /\ Chain(pinned, read) /\ Kept)
  BY <1>1, <1>3, <1>5, ValidIsChain, ChainIsValid
<1>7. UNCHANGED <<pinned, minimum, verifiedAt, listed, unsound, read>> /\ asked' = "reported"
  BY DEF ReportVerdict
<1>8. ReportIsRight'
  BY <1>6, <1>7 DEF ReportIsRight, Kept
<1>9. QED
  BY <1>7, <1>8 DEF VerifierInv, OneEach

\* Every step.
LEMMA VerifierStepKeeps == VerifierInv /\ [VerifierNext]_verifierVars => VerifierInv'
<1>1. ASSUME VerifierInv, List PROVE VerifierInv'
  <2>1. PICK f \in [Signed -> Shapes \cup {Absent}] :
          listed' = {Object(c, f[c]) : c \in {x \in Signed : f[x] # Absent}}
    BY <1>1 DEF List
  <2>2. ASSUME NEW o \in listed' PROVE o \in AnchorObjects /\ o.checkpoint \in Signed /\ o = Object(o.checkpoint, f[o.checkpoint])
    BY <2>1, <2>2 DEF AnchorObjects, Object
  <2>3. read = {} /\ read' = {} /\ asked' = "reading" /\ pinned' = pinned
    BY <1>1 DEF List, VerifierInv
  <2>4. \A x, y \in listed' : x.checkpoint = y.checkpoint => x = y
    BY <2>2
  <2>5. QED
    BY <1>1, <2>2, <2>3, <2>4, FS_EmptySet DEF VerifierInv, OneEach, ReportIsRight
<1>2. ASSUME VerifierInv, Read PROVE VerifierInv'
  <2>1. PICK o \in listed : listed' = listed \ {o} /\ (read' = read \cup {o} \/ read' = read)
    BY <1>2 DEF Read
  <2>2. pinned' = pinned /\ asked' = "reading" /\ asked = "reading"
    BY <1>2 DEF Read
  <2>3. IsFiniteSet(read')
    BY <1>2, <2>1, FS_AddElement DEF VerifierInv, OneEach
  <2>4. QED
    BY <1>2, <2>1, <2>2, <2>3 DEF VerifierInv, OneEach, ReportIsRight
<1>3. ASSUME VerifierInv, UNCHANGED verifierVars PROVE VerifierInv'
  BY <1>3, ReportStays DEF VerifierInv, verifierVars, OneEach
<1>4. QED
  BY <1>1, <1>2, <1>3, VerdictKeeps DEF VerifierNext

\* verify says valid of exactly the sets that are a chain through the pin and all of
\* whose objects could be read, whatever was listed, lost, forked or pinned.
THEOREM VerdictsAreRight == VerifierSpec => []ReportIsRight
<1>1. VerifierInv => ReportIsRight
  BY DEF VerifierInv
<1>2. QED
  BY <1>1, VerifierInitially, VerifierStepKeeps, PTL DEF VerifierSpec

-----------------------------------------------------------------------------
(* The archives.  A call goes through its phases alone; what it has done by  *)
(* then is what the disk, the destination and the receipt show of it.        *)

FileStates == {"none", "part", "whole"}

Phases == {"new", "checked", "writing", "written", "closed", "registered", "linked", "unlinked", "published",
           "failed", "done", "dead"}

CallsTyped ==
  /\ call \in [Publications -> [phase : Phases, host : Hosts \cup {None}]]
  /\ bytes \in [Publications -> FileStates]

ReaderTyped == access = [phase |-> access.phase, host |-> access.host, inode |-> access.inode,
                         waits |-> access.waits, read |-> access.read]

RestoreTyped ==
  /\ restore = [exists |-> restore.exists, host |-> restore.host, files |-> restore.files,
                reported |-> restore.reported]
  /\ restore.files \in [Disk!Files -> FileStates]

CallSound(p) ==
  /\ Disk!InProgress(p) => call[p].host \in Hosts
  /\ call[p].phase \in {"new", "checked", "writing", "written"} => p \notin synced
  /\ call[p].phase = "written" => bytes[p] = "whole"
  /\ call[p].phase \in {"closed", "registered", "linked", "unlinked", "published"} => p \in synced
  /\ call[p].phase \in {"linked", "unlinked", "published"} => destination = p \/ p \in deleted
  /\ call[p].phase \in {"unlinked", "published"} => p \notin temp
  /\ call[p].phase = "published" /\ destination = p /\ dirSync => entrySynced

NameKept(p) ==
  /\ dirSync \/ ~outage => destination = p /\ p \notin temp
  /\ dirSync => entrySynced

FileSound(p) ==
  /\ p \in synced => bytes[p] = "whole"
  /\ destination = p => p \in synced
  /\ p \in acknowledged => /\ call[p].phase = "done"
                           /\ p \in synced
                           /\ p \in deleted \/ NameKept(p)

CallsSound ==
  /\ CallsTyped
  /\ destination \in Publications \cup {None} /\ acknowledged \subseteq Publications
  /\ \A p \in Publications : CallSound(p) /\ FileSound(p)

ReaderSound ==
  /\ ReaderTyped
  /\ access.phase = "found" => access.inode \in synced \cap Publications
  /\ access.phase = "read" => access.read = "whole"
  /\ \A r \in results : r[2] = "whole"

RestoreSound == RestoreTyped /\ Disk!RestoredWhole

FilesInv == CallsSound /\ ReaderSound /\ RestoreSound

\* Before anything was published.
LEMMA FilesInitially == Disk!PublicationInit => FilesInv
<1> SUFFICES ASSUME Disk!PublicationInit PROVE FilesInv
  OBVIOUS
<1> USE DEF Disk!PublicationInit
<1>1. CallsSound
  <2>1. CallsTyped
    BY DEF CallsTyped, Phases, FileStates
  <2>2. \A p \in Publications : CallSound(p) /\ FileSound(p)
    BY NoPublicationAssumption DEF CallSound, FileSound, NameKept, Disk!InProgress
  <2>3. QED
    BY <2>1, <2>2 DEF CallsSound
<1>2. ReaderSound
  BY DEF ReaderSound, ReaderTyped, Disk!NoReader
<1>3. RestoreSound
  BY DEF RestoreSound, RestoreTyped, Disk!RestoredWhole, Disk!NoRestore, FileStates, Disk!Files
<1>4. QED
  BY <1>1, <1>2, <1>3 DEF FilesInv

\* What is read and what is restored does not depend on how a call goes on, so
\* long as synced bytes stay.
LEMMA ReadersUnmoved ==
  ASSUME ReaderSound, RestoreSound, UNCHANGED <<kind, dirSync, outage, access, results, restore, powerLost>>,
         synced \subseteq synced'
  PROVE  ReaderSound' /\ RestoreSound'
<1>1. ReaderSound'
  BY DEF ReaderSound, ReaderTyped
<1>2. RestoreSound'
  BY DEF RestoreSound, RestoreTyped, Disk!RestoredWhole
<1>3. QED
  BY <1>1, <1>2

\* A step of one call leaves the others sound: their files are their own, and the
\* destination is taken only when it leads nowhere.
LEMMA OtherCallsKept ==
  ASSUME NEW p \in Publications, NEW q \in Publications \ {p}, CallSound(q), FileSound(q),
         call'[q] = call[q], bytes'[q] = bytes[q], q \in temp' => q \in temp,
         q \in synced' <=> q \in synced, q \in acknowledged' <=> q \in acknowledged,
         UNCHANGED <<deleted, dirSync, outage>>,
         (destination' = destination /\ (dirSync /\ entrySynced => entrySynced'))
         \/ (destination = None /\ destination' = p)
  PROVE  (CallSound(q) /\ FileSound(q))'
<1>1. destination' = q => destination = q /\ destination' = destination
  BY NoPublicationAssumption
<1>2. destination = q => destination' = q /\ (dirSync /\ entrySynced => entrySynced')
  BY NoPublicationAssumption
<1>3. CallSound(q)'
  BY <1>1, <1>2 DEF CallSound, Disk!InProgress
<1>4. FileSound(q)'
  BY <1>1, <1>2 DEF FileSound, NameKept
<1>5. QED
  BY <1>3, <1>4

\* A call that goes on alone.
Moves(p, phase) ==
  /\ call'[p].phase = phase /\ call'[p].host = call[p].host
  /\ \A q \in Publications \ {p} : call'[q] = call[q]
  /\ call' \in [Publications -> [phase : Phases, host : Hosts \cup {None}]]

LEMMA GotoFacts ==
  ASSUME CallsTyped, NEW p \in Publications, NEW phase \in Phases, Disk!Goto(p, phase)
  PROVE  Moves(p, phase)
<1> DEFINE c == [call[p] EXCEPT !.phase = phase]
<1>1. call[p] \in [phase : Phases, host : Hosts \cup {None}]
  BY DEF CallsTyped
<1>2. c \in [phase : Phases, host : Hosts \cup {None}] /\ c.phase = phase /\ c.host = call[p].host
  BY <1>1
<1>3. call' = [call EXCEPT ![p] = c]
  BY DEF Disk!Goto
<1> HIDE DEF c
<1>4. QED
  BY <1>2, <1>3 DEF CallsTyped, Moves

\* What a step of one call has to show.
LEMMA CallStep ==
  ASSUME FilesInv, NEW p \in Publications, CallsTyped', (CallSound(p) /\ FileSound(p))',
         UNCHANGED <<kind, dirSync, outage, access, results, restore, powerLost, deleted>>,
         \A q \in Publications \ {p} : call'[q] = call[q] /\ bytes'[q] = bytes[q],
         temp' \subseteq temp \cup {p}, synced' = synced \/ synced' = synced \cup {p},
         acknowledged' = acknowledged \/ acknowledged' = acknowledged \cup {p},
         (destination' = destination /\ (dirSync /\ entrySynced => entrySynced'))
         \/ (destination = None /\ destination' = p)
  PROVE  FilesInv'
<1>1. ReaderSound' /\ RestoreSound'
  BY ReadersUnmoved DEF FilesInv
<1>2. ASSUME NEW q \in Publications \ {p} PROVE (CallSound(q) /\ FileSound(q))'
  <2>1. CallSound(q) /\ FileSound(q)
    BY DEF FilesInv, CallsSound
  <2>2. call'[q] = call[q] /\ bytes'[q] = bytes[q] /\ (q \in temp' => q \in temp)
        /\ (q \in synced' <=> q \in synced) /\ (q \in acknowledged' <=> q \in acknowledged)
    OBVIOUS
  <2>3. QED
    BY <2>1, <2>2, OtherCallsKept
<1>3. destination' \in Publications \cup {None} /\ acknowledged' \subseteq Publications
  BY DEF FilesInv, CallsSound
<1>4. CallsSound'
  BY <1>2, <1>3 DEF CallsSound
<1>5. QED
  BY <1>1, <1>4 DEF FilesInv

\* A step of one call.
LEMMA PublishStepKeeps ==
  ASSUME FilesInv, NEW p \in Publications, Disk!PublishStep(p)
  PROVE  FilesInv'
<1> USE DEF Disk!fixed, Disk!fileVars, Disk!readVars, Disk!restoreVars, Disk!At
<1>0. CallsTyped /\ CallSound(p) /\ FileSound(p)
  BY DEF FilesInv, CallsSound
<1>1. ASSUME NEW h \in Hosts, Disk!Begin(p, h) PROVE FilesInv'
  <2> USE <1>1 DEF Disk!Begin
  <2>1. CallsTyped'
    BY <1>0 DEF CallsTyped, Phases
  <2>2. /\ call'[p].phase = "checked" /\ call'[p].host = h
        /\ \A q \in Publications \ {p} : call'[q] = call[q]
    BY <1>0 DEF CallsTyped
  <2>3. (CallSound(p) /\ FileSound(p))'
    BY <1>0, <2>2 DEF CallSound, FileSound, NameKept, Disk!InProgress
  <2>4. QED
    BY <2>1, <2>2, <2>3, CallStep
<1>2. ASSUME Disk!CreateTemporary(p) PROVE FilesInv'
  <2> USE <1>2 DEF Disk!CreateTemporary
  <2>1. Moves(p, "writing")
    BY <1>0, GotoFacts DEF Phases
  <2>2. bytes' \in [Publications -> FileStates] /\ \A q \in Publications \ {p} : bytes'[q] = bytes[q]
    BY <1>0 DEF CallsTyped, FileStates
  <2>3. (CallSound(p) /\ FileSound(p))'
    BY <1>0, <2>1 DEF CallSound, FileSound, NameKept, Moves, Disk!InProgress
  <2>4. QED
    BY <2>1, <2>2, <2>3, CallStep DEF CallsTyped, Moves
<1>3. ASSUME Disk!WriteAll(p) PROVE FilesInv'
  <2> USE <1>3 DEF Disk!WriteAll
  <2>1. Moves(p, "written")
    BY <1>0, GotoFacts DEF Phases
  <2>2. /\ bytes' \in [Publications -> FileStates] /\ bytes'[p] = "whole"
        /\ \A q \in Publications \ {p} : bytes'[q] = bytes[q]
    BY <1>0 DEF CallsTyped, FileStates
  <2>3. (CallSound(p) /\ FileSound(p))'
    BY <1>0, <2>1, <2>2 DEF CallSound, FileSound, NameKept, Moves, Disk!InProgress
  <2>4. QED
    BY <2>1, <2>2, <2>3, CallStep DEF CallsTyped, Moves
<1>4. ASSUME Disk!SyncFile(p) PROVE FilesInv'
  <2> USE <1>4 DEF Disk!SyncFile
  <2>1. Moves(p, "closed")
    BY <1>0, GotoFacts DEF Phases
  <2>2. (CallSound(p) /\ FileSound(p))'
    BY <1>0, <2>1 DEF CallSound, FileSound, NameKept, Moves, Disk!InProgress
  <2>3. QED
    BY <1>0, <2>1, <2>2, CallStep DEF CallsTyped, Moves
<1>5. ASSUME Disk!Register(p) PROVE FilesInv'
  <2> USE <1>5 DEF Disk!Register
  <2>1. Moves(p, "registered")
    BY <1>0, GotoFacts DEF Phases
  <2>2. (CallSound(p) /\ FileSound(p))'
    BY <1>0, <2>1 DEF CallSound, FileSound, NameKept, Moves, Disk!InProgress
  <2>3. QED
    BY <1>0, <2>1, <2>2, CallStep DEF CallsTyped, Moves
<1>6. ASSUME Disk!Link(p) PROVE FilesInv'
  <2> USE <1>6 DEF Disk!Link
  <2>1. CASE destination = None
    <3>1. Moves(p, "linked")
      BY <1>0, <2>1, GotoFacts DEF Phases
    <3>2. (CallSound(p) /\ FileSound(p))'
      BY <1>0, <2>1, <3>1 DEF CallSound, FileSound, NameKept, Moves, Disk!InProgress
    <3>3. QED
      BY <1>0, <2>1, <3>1, <3>2, CallStep DEF CallsTyped, Moves
  <2>2. CASE destination # None
    <3>1. Moves(p, "failed")
      BY <1>0, <2>2, GotoFacts DEF Phases
    <3>2. (CallSound(p) /\ FileSound(p))'
      BY <1>0, <2>2, <3>1 DEF CallSound, FileSound, NameKept, Moves, Disk!InProgress
    <3>3. QED
      BY <1>0, <2>2, <3>1, <3>2, CallStep DEF CallsTyped, Moves
  <2>3. QED
    BY <2>1, <2>2
<1>7. ASSUME Disk!Unlink(p) PROVE FilesInv'
  <2> USE <1>7 DEF Disk!Unlink
  <2>1. Moves(p, "unlinked")
    BY <1>0, GotoFacts DEF Phases
  <2>2. (CallSound(p) /\ FileSound(p))'
    BY <1>0, <2>1 DEF CallSound, FileSound, NameKept, Moves, Disk!InProgress
  <2>3. QED
    BY <1>0, <2>1, <2>2, CallStep DEF CallsTyped, Moves
<1>8. ASSUME Disk!SyncDirectory(p) PROVE FilesInv'
  <2> USE <1>8 DEF Disk!SyncDirectory
  <2>1. Moves(p, "published")
    BY <1>0, GotoFacts DEF Phases
  <2>2. (CallSound(p) /\ FileSound(p))'
    BY <1>0, <2>1 DEF CallSound, FileSound, NameKept, Moves, Disk!InProgress
  <2>3. QED
    BY <1>0, <2>1, <2>2, CallStep DEF CallsTyped, Moves
<1>9. ASSUME Disk!Acknowledge(p) PROVE FilesInv'
  <2> USE <1>9 DEF Disk!Acknowledge
  <2>1. Moves(p, "done")
    BY <1>0, GotoFacts DEF Phases
  <2>2. (CallSound(p) /\ FileSound(p))'
    BY <1>0, <2>1 DEF CallSound, FileSound, NameKept, Moves, Disk!InProgress
  <2>3. QED
    BY <1>0, <2>1, <2>2, CallStep DEF CallsTyped, Moves
<1>10. ASSUME Disk!Fails(p) PROVE FilesInv'
  <2> USE <1>10 DEF Disk!Fails
  <2>1. Moves(p, "failed")
    BY <1>0, GotoFacts DEF Phases
  <2>2. (CallSound(p) /\ FileSound(p))'
    BY <1>0, <2>1 DEF CallSound, FileSound, NameKept, Moves, Disk!InProgress
  <2>3. QED
    BY <1>0, <2>1, <2>2, CallStep DEF CallsTyped, Moves
<1>11. QED
  BY <1>1, <1>2, <1>3, <1>4, <1>5, <1>6, <1>7, <1>8, <1>9, <1>10 DEF Disk!PublishStep

\* A step of a reader.
LEMMA ReadStepKeeps ==
  ASSUME FilesInv, Disk!ReadStep
  PROVE  FilesInv'
<1> USE DEF Disk!fixed, Disk!fileVars, Disk!restoreVars
<1>1. UNCHANGED <<kind, dirSync, outage, call, bytes, temp, synced, destination, entrySynced, deleted, acknowledged>>
      /\ UNCHANGED <<restore, powerLost>>
  BY DEF Disk!ReadStep, Disk!StartReading, Disk!Look, Disk!ReadBytes, Disk!CheckAgain
<1>2. CallsSound'
  BY <1>1 DEF FilesInv, CallsSound, CallsTyped, CallSound, FileSound, NameKept, Disk!InProgress
<1>3. RestoreSound'
  BY <1>1 DEF FilesInv, RestoreSound, RestoreTyped, Disk!RestoredWhole
<1>4. /\ ReaderSound /\ ReaderTyped
      /\ \A p \in Publications : (destination = p => p \in synced) /\ (p \in synced => bytes[p] = "whole")
      /\ destination \in Publications \cup {None}
  BY DEF FilesInv, CallsSound, ReaderSound, FileSound
<1>5. ReaderSound'
  <2>1. CASE access' = Disk!NoReader /\ results' = results
    BY <1>4, <2>1 DEF ReaderSound, ReaderTyped, Disk!NoReader
  <2>2. ASSUME NEW h \in Hosts, Disk!StartReading(h) PROVE ReaderSound'
    BY <1>4, <2>2 DEF ReaderSound, ReaderTyped, Disk!StartReading, Disk!NoReader
  <2>3. CASE Disk!Look
    BY <1>1, <1>4, <2>1, <2>3 DEF ReaderSound, ReaderTyped, Disk!Look, Disk!Refuse
  <2>4. CASE Disk!ReadBytes
    BY <1>1, <1>4, <2>1, <2>4 DEF ReaderSound, ReaderTyped, Disk!ReadBytes, Disk!Refuse
  <2>5. CASE Disk!CheckAgain
    BY <1>1, <1>4, <2>1, <2>5 DEF ReaderSound, ReaderTyped, Disk!CheckAgain, Disk!Refuse, Disk!NoReader
  <2>6. QED
    BY <2>2, <2>3, <2>4, <2>5 DEF Disk!ReadStep
<1>6. QED
  BY <1>2, <1>3, <1>5 DEF FilesInv

\* What a directory that is being filled has to show.
LEMMA RestoreKept ==
  ASSUME FilesInv, RestoreSound',
         UNCHANGED <<kind, dirSync, outage, call, bytes, temp, synced, destination, entrySynced, deleted, acknowledged,
                     access, results>>
  PROVE  FilesInv'
<1>1. CallsSound'
  BY DEF FilesInv, CallsSound, CallsTyped, CallSound, FileSound, NameKept, Disk!InProgress
<1>2. ReaderSound'
  BY DEF FilesInv, ReaderSound, ReaderTyped
<1>3. QED
  BY <1>1, <1>2 DEF FilesInv

\* A step of a restore.
LEMMA RestoreStepKeeps ==
  ASSUME FilesInv, Disk!RestoreStep
  PROVE  FilesInv'
<1> USE DEF Disk!fixed, Disk!fileVars, Disk!readVars
<1>0. RestoreTyped /\ Disk!RestoredWhole
  BY DEF FilesInv, RestoreSound
<1>1. UNCHANGED <<kind, dirSync, outage, call, bytes, temp, synced, destination, entrySynced, deleted, acknowledged,
                  access, results>>
  BY DEF Disk!RestoreStep, Disk!StartRestore, Disk!RestoreFile, Disk!FinishRestore, Disk!RestoreFails
<1>2. ASSUME NEW h \in Hosts, Disk!StartRestore(h) PROVE RestoreSound'
  <2>1. /\ restore' = [exists |-> TRUE, host |-> h, files |-> [f \in Disk!Files |-> "none"], reported |-> FALSE]
    BY <1>2 DEF Disk!StartRestore, Disk!NoRestore
  <2>2. /\ restore'.files = [f \in Disk!Files |-> "none"] /\ ~restore'.reported
        /\ restore' = [exists |-> restore'.exists, host |-> restore'.host, files |-> restore'.files,
                       reported |-> restore'.reported]
    BY <2>1
  <2>3. QED
    BY <2>2 DEF RestoreSound, RestoreTyped, Disk!RestoredWhole, Disk!Files, FileStates
<1>3. ASSUME NEW f \in Disk!Files, Disk!RestoreFile(f) PROVE RestoreSound'
  <2> DEFINE v == IF restore.files[f] = "none" THEN "part" ELSE "whole"
  <2>1. restore' = [restore EXCEPT !.files = [restore.files EXCEPT ![f] = v]]
    BY <1>0, <1>3 DEF Disk!RestoreFile, RestoreTyped
  <2>2. /\ restore'.files = [restore.files EXCEPT ![f] = v] /\ restore'.reported = restore.reported
        /\ restore' = [exists |-> restore'.exists, host |-> restore'.host, files |-> restore'.files,
                       reported |-> restore'.reported]
    BY <1>0, <2>1 DEF RestoreTyped
  <2>3. /\ restore'.files \in [Disk!Files -> FileStates] /\ restore'.files[f] = v
        /\ \A g \in Disk!Files \ {f} : restore'.files[g] = restore.files[g]
    BY <1>0, <2>2 DEF RestoreTyped, FileStates
  <2>4. ~restore.reported /\ restore.files[f] # "whole" /\ UNCHANGED <<kind, powerLost>>
        /\ (kind = "bundle" /\ f = Disk!Manifest => \A g \in Payloads : restore.files[g] = "whole")
    BY <1>3 DEF Disk!RestoreFile, Disk!Restoring, Disk!ComesNext, Disk!restoreVars
  <2>5. ASSUME kind' = "bundle", ~powerLost', restore'.files[Disk!Manifest] # "none", NEW g \in Payloads
        PROVE  restore'.files[g] = "whole"
    <3>1. Payloads \subseteq Disk!Files /\ Disk!Manifest \in Disk!Files
      BY DEF Disk!Files
    <3>2. \A a \in Payloads : restore.files[a] = "whole"
      <4>1. CASE f = Disk!Manifest
        BY <2>4, <2>5, <4>1
      <4>2. CASE f # Disk!Manifest
        BY <1>0, <2>3, <2>4, <2>5, <3>1, <4>2 DEF Disk!RestoredWhole
      <4>3. QED
        BY <4>1, <4>2
    <3>3. g # f
      BY <2>4, <3>2
    <3>4. QED
      BY <2>3, <3>1, <3>2, <3>3
  <2>6. Disk!RestoredWhole'
    BY <2>2, <2>4, <2>5 DEF Disk!RestoredWhole
  <2>7. QED
    BY <2>2, <2>3, <2>6 DEF RestoreSound, RestoreTyped
<1>4. ASSUME Disk!FinishRestore PROVE RestoreSound'
  <2>1. /\ restore'.files = restore.files /\ \A f \in Disk!Files : restore.files[f] = "whole"
        /\ restore' = [exists |-> restore'.exists, host |-> restore'.host, files |-> restore'.files,
                       reported |-> restore'.reported]
    BY <1>0, <1>4 DEF Disk!FinishRestore, RestoreTyped
  <2>2. QED
    BY <1>0, <2>1 DEF RestoreSound, RestoreTyped, Disk!RestoredWhole, Disk!Files
<1>5. ASSUME Disk!RestoreFails PROVE RestoreSound'
  <2>1. /\ restore'.files = restore.files /\ restore'.exists = restore.exists
        /\ restore'.reported = restore.reported
        /\ restore' = [exists |-> restore'.exists, host |-> restore'.host, files |-> restore'.files,
                       reported |-> restore'.reported]
        /\ UNCHANGED <<kind, dirSync, powerLost>>
    BY <1>0, <1>5 DEF Disk!RestoreFails, Disk!fixed, RestoreTyped
  <2>2. QED
    BY <1>0, <2>1 DEF RestoreSound, RestoreTyped, Disk!RestoredWhole
<1>6. QED
  BY <1>1, <1>2, <1>3, <1>4, <1>5, RestoreKept DEF Disk!RestoreStep

\* What is left of the calls of dead processes is as sound as it was.
LEMMA KilledFacts ==
  ASSUME FilesInv, NEW hosts \in SUBSET Hosts, Disk!Killed(hosts)
  PROVE  /\ call' \in [Publications -> [phase : Phases, host : Hosts \cup {None}]]
         /\ \A p \in Publications :
              \/ call'[p] = call[p] /\ (Disk!InProgress(p) => call[p].host \notin hosts)
              \/ call'[p].phase = "dead" /\ call[p].phase # "done"
         /\ access' = access \/ access' = Disk!NoReader
<1> DEFINE Dead(p) == [call[p] EXCEPT !.phase = "dead"]
           Hit(p) == Disk!InProgress(p) /\ call[p].host \in hosts
<1>1. \A p \in Publications : call[p] \in [phase : Phases, host : Hosts \cup {None}]
  BY DEF FilesInv, CallsSound, CallsTyped
<1>2. \A p \in Publications :
        Dead(p) \in [phase : Phases, host : Hosts \cup {None}] /\ Dead(p).phase = "dead"
  BY <1>1 DEF Phases
<1>3. call' = [p \in Publications |-> IF Hit(p) THEN Dead(p) ELSE call[p]]
      /\ (access' = access \/ access' = Disk!NoReader)
  BY DEF Disk!Killed
<1>4. \A p \in Publications : Hit(p) => call[p].phase # "done"
  BY DEF Disk!InProgress
<1> HIDE DEF Dead
<1>5. QED
  BY <1>1, <1>2, <1>3, <1>4

\* A process dies.
LEMMA DeathKeeps ==
  ASSUME FilesInv, NEW h \in Hosts, Disk!Die(h)
  PROVE  FilesInv'
<1> USE DEF Disk!fixed, Disk!fileVars
<1>1. Disk!Killed({h}) /\ UNCHANGED <<kind, dirSync, outage, temp, bytes, synced, destination, entrySynced, deleted, acknowledged>>
      /\ UNCHANGED <<results, powerLost>>
  BY DEF Disk!Die
<1>2. CallsSound'
  <2>1. \A p \in Publications : CallSound(p) /\ FileSound(p)
    BY DEF FilesInv, CallsSound
  <2>2. ASSUME NEW p \in Publications PROVE (CallSound(p) /\ FileSound(p))'
    BY <1>1, <2>1, KilledFacts DEF CallSound, FileSound, NameKept, Disk!InProgress
  <2>3. CallsTyped'
    BY <1>1, KilledFacts DEF FilesInv, CallsSound, CallsTyped
  <2>4. QED
    BY <1>1, <2>2, <2>3 DEF FilesInv, CallsSound
<1>3. ReaderSound'
  BY <1>1, KilledFacts DEF FilesInv, ReaderSound, ReaderTyped, Disk!NoReader
<1>4. RestoreSound'
  <2>1. /\ restore'.files = restore.files /\ restore'.exists = restore.exists
        /\ restore'.reported = restore.reported
        /\ restore' = [exists |-> restore'.exists, host |-> restore'.host, files |-> restore'.files,
                       reported |-> restore'.reported]
    BY DEF FilesInv, RestoreSound, RestoreTyped, Disk!Die
  <2>2. QED
    BY <1>1, <2>1 DEF FilesInv, RestoreSound, RestoreTyped, Disk!RestoredWhole
<1>5. QED
  BY <1>2, <1>3, <1>4 DEF FilesInv

\* The machine loses power: every call is dead, and what was synced is still there,
\* a restored directory as a whole or not at all.
LEMMA PowerLossKeeps ==
  ASSUME FilesInv, Disk!PowerLoss
  PROVE  FilesInv'
<1>0. \A p \in Publications : CallSound(p) /\ FileSound(p)
  BY DEF FilesInv, CallsSound
<1>1. /\ Disk!Killed(Hosts) /\ UNCHANGED <<kind, dirSync, synced, entrySynced, deleted, acknowledged, results>>
      /\ bytes' \in [Publications -> FileStates] /\ powerLost' = TRUE /\ outage' = TRUE
      /\ \A p \in synced \cap Publications : bytes'[p] = bytes[p]
      /\ destination' = destination \/ (destination' = None /\ ~entrySynced)
      /\ \A p \in Publications : p \notin temp /\ destination = p /\ entrySynced => p \notin temp'
  BY DEF Disk!PowerLoss, Disk!fixed, FileStates
<1>2. /\ call' \in [Publications -> [phase : Phases, host : Hosts \cup {None}]]
      /\ \A p \in Publications :
           \/ call'[p] = call[p] /\ call[p].phase \in {"new", "failed", "done", "dead"}
           \/ call'[p].phase = "dead" /\ call[p].phase # "done"
      /\ access' = access \/ access' = Disk!NoReader
  BY <1>0, <1>1, KilledFacts DEF CallSound, Disk!InProgress
<1>3. CallsSound'
  <2>1. ASSUME NEW p \in Publications PROVE CallSound(p)'
    BY <1>0, <1>1, <1>2 DEF CallSound, Disk!InProgress
  <2>2. ASSUME NEW p \in Publications PROVE FileSound(p)'
    BY <1>0, <1>1, <1>2, NoPublicationAssumption DEF FileSound, NameKept
  <2>3. QED
    BY <1>1, <1>2, <2>1, <2>2 DEF FilesInv, CallsSound, CallsTyped
<1>4. ReaderSound'
  BY <1>1, <1>2 DEF FilesInv, ReaderSound, ReaderTyped, Disk!NoReader
<1>5. RestoreSound'
  <2>0. RestoreTyped /\ Disk!RestoredWhole
    BY DEF FilesInv, RestoreSound
  <2>1. CASE restore' = [restore EXCEPT !.exists = FALSE, !.host = None,
                          !.files = [f \in Disk!Files |-> "none"]]
    <3>1. /\ restore'.files = [f \in Disk!Files |-> "none"] /\ restore'.exists = FALSE
          /\ restore' = [exists |-> restore'.exists, host |-> restore'.host, files |-> restore'.files,
                         reported |-> restore'.reported]
      BY <2>0, <2>1 DEF RestoreTyped
    <3>2. QED
      BY <1>1, <3>1 DEF RestoreSound, RestoreTyped, Disk!RestoredWhole, FileStates
  <2>2. ASSUME NEW lost \in SUBSET Disk!Files, restore.reported /\ dirSync => lost = {},
               restore' = [restore EXCEPT !.host = None,
                            !.files = [f \in Disk!Files |-> IF f \in lost THEN "none" ELSE restore.files[f]]]
        PROVE  RestoreSound'
    <3>1. /\ restore'.files = [f \in Disk!Files |-> IF f \in lost THEN "none" ELSE restore.files[f]]
          /\ restore'.reported = restore.reported /\ restore'.exists = restore.exists
          /\ restore' = [exists |-> restore'.exists, host |-> restore'.host, files |-> restore'.files,
                         reported |-> restore'.reported]
      BY <2>0, <2>2 DEF RestoreTyped
    <3>2. restore'.files \in [Disk!Files -> FileStates]
      BY <2>0, <3>1 DEF RestoreTyped, FileStates
    <3>3. ASSUME restore'.reported, dirSync'
          PROVE  \/ \A f \in Disk!Files : restore'.files[f] = "whole"
                 \/ ~restore'.exists /\ \A f \in Disk!Files : restore'.files[f] = "none"
      <4>1. restore.reported /\ dirSync /\ lost = {}
        BY <1>1, <2>2, <3>1, <3>3
      <4>2. \A f \in Disk!Files : restore'.files[f] = restore.files[f]
        BY <3>1, <4>1
      <4>3. QED
        BY <2>0, <3>1, <4>1, <4>2 DEF Disk!RestoredWhole
    <3>4. QED
      BY <1>1, <3>1, <3>2, <3>3 DEF RestoreSound, RestoreTyped, Disk!RestoredWhole
  <2>3. QED
    BY <2>1, <2>2 DEF Disk!PowerLoss
<1>6. QED
  BY <1>3, <1>4, <1>5 DEF FilesInv

\* An operator deletes the destination.
LEMMA DeleteKeeps ==
  ASSUME FilesInv, Disk!Delete
  PROVE  FilesInv'
<1> USE DEF Disk!Delete, Disk!fixed, Disk!readVars, Disk!restoreVars
<1>1. ReaderSound' /\ RestoreSound'
  BY ReadersUnmoved DEF FilesInv
<1>2. ASSUME NEW p \in Publications PROVE (CallSound(p) /\ FileSound(p))'
  <2>1. CallSound(p) /\ FileSound(p)
    BY DEF FilesInv, CallsSound
  <2>2. destination' # p /\ (destination = p => p \in deleted') /\ (p \in deleted => p \in deleted')
    BY NoPublicationAssumption
  <2>3. QED
    BY <2>1, <2>2 DEF CallSound, FileSound, NameKept, Disk!InProgress
<1>3. CallsSound'
  BY <1>2 DEF FilesInv, CallsSound, CallsTyped
<1>4. QED
  BY <1>1, <1>3 DEF FilesInv

\* Every step.
LEMMA FilesStepKeeps == FilesInv /\ [Disk!PublicationNext]_(Disk!publicationVars) => FilesInv'
<1>1. ASSUME FilesInv, UNCHANGED Disk!publicationVars PROVE FilesInv'
  BY <1>1, RestoreKept DEF Disk!publicationVars, Disk!fixed, Disk!fileVars, Disk!readVars, Disk!restoreVars,
       FilesInv, RestoreSound, RestoreTyped, Disk!RestoredWhole
<1>2. ASSUME FilesInv, Disk!PublicationNext PROVE FilesInv'
  BY <1>2, PublishStepKeeps, ReadStepKeeps, RestoreStepKeeps, DeathKeeps, PowerLossKeeps, DeleteKeeps
     DEF Disk!PublicationNext
<1>3. QED
  BY <1>1, <1>2

\* The invariant gives the property.
LEMMA FilesShow == FilesInv => WholeOrAbsent
<1> SUFFICES ASSUME FilesInv PROVE WholeOrAbsent
  OBVIOUS
<1>1. ASSUME NEW p \in acknowledged \ deleted
      PROVE  /\ bytes[p] = "whole" /\ p \in synced
             /\ dirSync \/ ~outage => destination = p /\ Disk!Links(p) = 1
             /\ dirSync => entrySynced
  BY <1>1 DEF FilesInv, CallsSound, FileSound, NameKept, Disk!Links
<1>2. QED
  BY <1>1 DEF FilesInv, ReaderSound, RestoreSound, WholeOrAbsent, Disk!PublishedWhole

\* Whatever dies, fails or loses power between the steps of concurrent calls of
\* publishArchiveCreateOnly and publishBundleCreateOnly: a reader gets whole bytes
\* or nothing; a receipt stands for synced bytes, under the destination until they
\* are deleted or, where directories cannot be synced, power is lost; and a reported
\* restore left every file whole until a loss of power takes the directory, or any
\* of it where directories cannot be synced.
THEOREM ArchivesStayWhole == Disk!PublicationSpec => []WholeOrAbsent
<1>1. Disk!PublicationInit => FilesInv
  BY FilesInitially
<1>2. FilesInv /\ [Disk!PublicationNext]_(Disk!publicationVars) => FilesInv'
  BY FilesStepKeeps
<1>3. QED
  BY <1>1, <1>2, FilesShow, PTL DEF Disk!PublicationSpec

-----------------------------------------------------------------------------
(* The recovery set.  Each line of a journal vouches for all the lines       *)
(* before it, and still does in whatever was exported and signed; so events  *)
(* that hash to the last line of some evidence contain what every line names.*)

Telescoped(entries) ==
  /\ IsSeq(entries)
  /\ \A n \in 1..Len(entries) : EntrySound(entries[n])
  /\ \A n \in 1..Len(entries) : \A m \in 1..n : Contains(entries[n].hash, entries[m])

EvidenceSound(e) ==
  /\ Telescoped(e.journal) /\ e.journal # <<>>
  /\ e.hash = e.journal[Len(e.journal)].hash /\ e.count = e.journal[Len(e.journal)].head

ExportSound ==
  /\ exported = [journal |-> exported.journal, rows |-> exported.rows, events |-> exported.events]
  /\ Telescoped(exported.journal) /\ IsSeq(exported.rows) /\ IsSeq(exported.events)

TargetVouched ==
  target # <<>> =>
    /\ \A n \in 1..Len(trusted.journal) : Contains(target, trusted.journal[n])
    /\ Len(target) = trusted.journal[Len(trusted.journal)].head
    /\ Session(target[Len(target)]) = trusted.session
    /\ \A n \in 1..Len(target) : target[n].content.at <= trusted.stateAt

\* Signers append from beginning to end, and no connection keeps the store.
NobodyInside == tx.owner = None /\ \A s \in Signers : signer[s].phase = "idle"

RecoveryInv ==
  /\ CheckpointInv /\ NobodyInside /\ Telescoped(journal) /\ ExportSound
  /\ \A e \in evidence : EvidenceSound(e)
  /\ \A a \in archives : IsSeq(a.events)
  /\ TargetVouched

\* What contains the head of a line contains what that line vouches for.
LEMMA ContainsTrans ==
  ASSUME NEW rows, IsSeq(rows), NEW f, EntrySound(f), NEW e, Contains(rows, f), Contains(f.hash, e)
  PROVE  Contains(rows, e)
<1>1. Len(rows) \in Nat /\ f.head \in 1..Len(rows) /\ f.hash = SubSeq(rows, 1, f.head)
      /\ e.head \in 1..f.head /\ e.hash = SubSeq(f.hash, 1, e.head)
  BY DEF IsSeq, Contains, HashAt, EntrySound
<1>2. f.head \in 0..Len(rows) /\ e.head \in 0..f.head /\ e.head \in 1..Len(rows)
  BY <1>1
<1>3. SubSeq(SubSeq(rows, 1, f.head), 1, e.head) = SubSeq(rows, 1, e.head)
  BY <1>2, PrefixOfPrefix
<1>4. QED
  BY <1>1, <1>2, <1>3 DEF Contains, HashAt

\* A line vouches for its own head.
LEMMA ContainsItself ==
  ASSUME NEW e, EntrySound(e), e.head > 0
  PROVE  Contains(e.hash, e)
  BY WholePrefix DEF EntrySound, Contains, HashAt, IsSeq

\* The next line vouches for all the lines.
LEMMA TelescopeGrows ==
  ASSUME IsSeq(log), Telescoped(journal), NEW e, Succeeds(e)
  PROVE  Telescoped(Append(journal, e))
<1> DEFINE more == Append(journal, e)
<1>1. /\ IsSeq(journal) /\ Len(journal) \in Nat /\ IsSeq(more) /\ Len(more) = Len(journal) + 1
      /\ more[Len(journal) + 1] = e /\ \A i \in 1..Len(journal) : more[i] = journal[i]
  BY AppendFacts DEF Telescoped
<1> HIDE DEF more
<1>2. EntrySound(e) /\ e.hash = log /\ e.head > 0
  BY DEF Succeeds
<1>3. \A n \in 1..Len(more) : EntrySound(more[n])
  BY <1>1, <1>2 DEF Telescoped
<1>4. ASSUME NEW n \in 1..Len(more), NEW m \in 1..n PROVE Contains(more[n].hash, more[m])
  <2>1. CASE n \in 1..Len(journal)
    <3>1. m \in 1..Len(journal)
      BY <1>1, <2>1
    <3>2. QED
      BY <1>1, <2>1, <3>1 DEF Telescoped
  <2>2. CASE n = Len(journal) + 1 /\ m = n
    BY <1>1, <1>2, <2>2, ContainsItself
  <2>3. CASE n = Len(journal) + 1 /\ m # n
    <3>1. m \in 1..Len(journal) /\ Len(journal) \in 1..Len(journal)
      BY <1>1, <2>3
    <3>2. journal # <<>>
      BY <3>1, EmptyIsSeq
    <3>3. Contains(log, Previous) /\ Previous = journal[Len(journal)]
      BY <3>2 DEF Succeeds, Previous
    <3>4. EntrySound(Previous) /\ Contains(Previous.hash, journal[m])
      BY <3>1, <3>3 DEF Telescoped
    <3>5. Contains(log, journal[m])
      BY <3>3, <3>4, ContainsTrans
    <3>6. QED
      BY <1>1, <1>2, <2>3, <3>1, <3>5
  <2>4. QED
    BY <1>1, <2>1, <2>2, <2>3
<1>5. QED
  BY <1>1, <1>3, <1>4 DEF Telescoped, more

\* So do the lines of an earlier copy.
LEMMA TelescopeCut ==
  ASSUME NEW entries, Telescoped(entries), NEW n \in 0..Len(entries)
  PROVE  Telescoped(SubSeq(entries, 1, n))
<1> DEFINE less == SubSeq(entries, 1, n)
<1>1. IsSeq(less) /\ Len(less) = n /\ \A i \in 1..n : less[i] = entries[i]
  BY PrefixFacts DEF Telescoped
<1>2. Len(entries) \in Nat /\ n \in Nat /\ n <= Len(entries)
  BY DEF Telescoped, IsSeq
<1> HIDE DEF less
<1>3. \A i \in 1..n : i \in 1..Len(entries) /\ \A m \in 1..i : m \in 1..n
  BY <1>2
<1>4. QED
  BY <1>1, <1>3 DEF Telescoped, less

\* Before anything was exported.
LEMMA RecoveryInitially == RecoveryInit => RecoveryInv
<1> SUFFICES ASSUME RecoveryInit PROVE RecoveryInv
  OBVIOUS
<1>1. CheckpointInv
  BY CheckpointInitially DEF RecoveryInit
<1>2. NobodyInside
  BY DEF RecoveryInit, CheckpointInit, StoreInit, JournalInit, NoTx, Idle, NobodyInside
<1>3. Telescoped(<<>>) /\ IsSeq(<<>>)
  BY EmptyIsSeq DEF Telescoped
<1>4. Telescoped(journal)
  BY <1>3 DEF RecoveryInit, CheckpointInit, JournalInit
<1>5. ExportSound
  BY <1>3 DEF RecoveryInit, NothingExported, ExportSound
<1>6. QED
  BY <1>1, <1>2, <1>4, <1>5 DEF RecoveryInv, RecoveryInit, TargetVouched

\* What happens to the running store alone.
LEMMA StoreMoves ==
  ASSUME RecoveryInv, CheckpointInv', NobodyInside', Telescoped(journal)', UNCHANGED recoveryVars
  PROVE  RecoveryInv'
  BY DEF RecoveryInv, recoveryVars, ExportSound, Telescoped, EvidenceSound, TargetVouched, Contains, HashAt,
         EntrySound, Session

\* A caller appends.
LEMMA RecordEventKeeps ==
  ASSUME RecoveryInv, NEW r \in Requests, RecordEvent(r)
  PROVE  RecoveryInv'
<1>1. AppendEvent(r) /\ UNCHANGED journalVars /\ UNCHANGED recoveryVars
  BY DEF RecordEvent
<1>2. CheckpointInv'
  BY <1>1, CheckpointStepKeeps DEF RecoveryInv, CheckpointNext, StoreStep
<1>3. tx' = tx /\ signer' = signer /\ journal' = journal
  BY <1>1 DEF AppendEvent, journalVars
<1>4. NobodyInside'
  BY <1>3 DEF RecoveryInv, NobodyInside
<1>5. Telescoped(journal)'
  BY <1>3 DEF RecoveryInv, Telescoped, EntrySound, Contains, HashAt
<1>6. QED
  BY <1>1, <1>2, <1>4, <1>5, StoreMoves

\* A signer appends a checkpoint.
LEMMA CheckpointKeeps ==
  ASSUME RecoveryInv, NEW t \in Times, Checkpoint(t)
  PROVE  RecoveryInv'
<1> PICK e : e = Entry(t)
  OBVIOUS
<1>1. /\ Signable(t) /\ journal' = Append(journal, e) /\ UNCHANGED recoveryVars
      /\ UNCHANGED <<log, tx, told, torn, lock, signer, retained, reader, verdict, faults>>
  BY DEF Checkpoint, storeVars
<1>2. Succeeds(e)
  BY <1>1, EntrySucceeds DEF RecoveryInv
<1>3. JournalInv'
  <2>1. \A q \in Signers : signer'[q].phase = "idle"
    BY <1>1 DEF RecoveryInv, NobodyInside
  <2>2. QED
    BY <1>1, <1>2, <2>1, LineAppended DEF RecoveryInv
<1>4. SignersInv'
  BY <1>1 DEF RecoveryInv, CheckpointInv, SignersInv, Busy, Holding
<1>5. StoreInv' /\ ReaderInv'
  BY <1>1, OthersKept DEF RecoveryInv
<1>6. Telescoped(Append(journal, e)) /\ NobodyInside'
  BY <1>1, <1>2, TelescopeGrows
  DEF RecoveryInv, CheckpointInv, StoreInv, StoreSound, LogSound, NobodyInside
<1>7. Telescoped(journal)'
  BY <1>1, <1>6 DEF Telescoped, EntrySound, Contains, HashAt
<1>8. QED
  BY <1>1, <1>3, <1>4, <1>5, <1>6, <1>7, StoreMoves DEF CheckpointInv

\* An earlier copy of either file is put back.
LEMMA PutBackKeeps ==
  ASSUME RecoveryInv, PutBack
  PROVE  RecoveryInv'
<1>1. Restore /\ UNCHANGED recoveryVars
  BY DEF PutBack
<1>2. CheckpointInv'
  BY <1>1, CheckpointStepKeeps DEF RecoveryInv, CheckpointNext
<1>3. PICK n \in 0..(MaxEvents - 1) : RestoreStore(n) \/ RestoreJournal(n)
  BY <1>1 DEF Restore
<1>4. tx' = tx /\ signer' = signer
  BY <1>3 DEF RestoreStore, RestoreJournal, storeVars
<1>5. NobodyInside'
  BY <1>4 DEF RecoveryInv, NobodyInside
<1>6. journal' = journal \/ (n < Len(journal) /\ journal' = SubSeq(journal, 1, n))
  BY <1>3 DEF RestoreStore, RestoreJournal, EntryHash
<1>7. Telescoped(journal)'
  <2>1. CASE journal' = journal
    BY <2>1 DEF RecoveryInv, Telescoped, EntrySound, Contains, HashAt
  <2>2. CASE n < Len(journal) /\ journal' = SubSeq(journal, 1, n)
    <3>1. n \in 0..Len(journal)
      BY <2>2 DEF RecoveryInv, Telescoped, IsSeq
    <3>2. Telescoped(SubSeq(journal, 1, n))
      BY <3>1, TelescopeCut DEF RecoveryInv
    <3>3. QED
      BY <2>2, <3>2 DEF Telescoped, EntrySound, Contains, HashAt
  <2>3. QED
    BY <1>6, <2>1, <2>2
<1>8. QED
  BY <1>1, <1>2, <1>5, <1>7, StoreMoves

\* What stays when only the files of the recovery set change.
LEMMA StoreRests ==
  ASSUME RecoveryInv, UNCHANGED checkpointVars
  PROVE  /\ CheckpointInv' /\ NobodyInside' /\ Telescoped(journal)'
         /\ UNCHANGED <<log, tx, told, journal, torn, lock, signer, retained, reader, verdict, faults>>
<1>1. UNCHANGED <<log, tx, told, journal, torn, lock, signer, retained, reader, verdict, faults>>
  BY DEF checkpointVars, storeVars, journalVars
<1>2. CheckpointInv'
  BY CheckpointStepKeeps DEF RecoveryInv
<1>3. QED
  BY <1>1, <1>2 DEF RecoveryInv, NobodyInside, Telescoped, EntrySound, Contains, HashAt

\* The operator exports one part.
LEMMA ExportKeeps ==
  ASSUME RecoveryInv, ExportStep
  PROVE  RecoveryInv'
<1>1. PICK part, value :
        /\ Export(part, value)
        /\ (part = "journal" /\ value = journal) \/ (part = "rows" /\ value = log) \/ (part = "events" /\ value = log)
  BY DEF ExportStep
<1>2. UNCHANGED checkpointVars /\ UNCHANGED <<evidence, archives, target, trusted>>
      /\ exported' = [exported EXCEPT ![part] = value]
  BY <1>1 DEF Export
<1>3. exported' = [journal |-> IF part = "journal" THEN value ELSE exported.journal,
                   rows |-> IF part = "rows" THEN value ELSE exported.rows,
                   events |-> IF part = "events" THEN value ELSE exported.events]
  <2>1. exported = [journal |-> exported.journal, rows |-> exported.rows, events |-> exported.events]
    BY DEF RecoveryInv, ExportSound
  <2>2. QED
    BY <1>1, <1>2, <2>1
<1>4. Telescoped(journal) /\ IsSeq(log) /\ Telescoped(exported.journal)
      /\ IsSeq(exported.rows) /\ IsSeq(exported.events)
  BY DEF RecoveryInv, ExportSound, CheckpointInv, StoreInv, StoreSound, LogSound
<1>5. Telescoped(exported'.journal) /\ IsSeq(exported'.rows) /\ IsSeq(exported'.events)
  BY <1>1, <1>3, <1>4
<1>6. exported' = [journal |-> exported'.journal, rows |-> exported'.rows, events |-> exported'.events]
  BY <1>3
<1>7. ExportSound'
  BY <1>5, <1>6 DEF ExportSound, Telescoped, EntrySound, Contains, HashAt
<1>8. QED
  BY <1>2, <1>7, StoreRests
  DEF RecoveryInv, EvidenceSound, TargetVouched, Telescoped, EntrySound, Contains, HashAt, Session

\* Evidence is signed of the state that the last line of the exported journal names.
LEMMA CreateEvidenceKeeps ==
  ASSUME RecoveryInv, NEW session, NEW stateAt, NEW now, NEW release, CreateEvidence(session, stateAt, now, release)
  PROVE  RecoveryInv'
<1> PICK e : e = Evidence(session, stateAt, now, release)
  OBVIOUS
<1>1. /\ UNCHANGED checkpointVars /\ UNCHANGED <<exported, archives, target, trusted>>
      /\ evidence' = evidence \cup {e} /\ JournalFits(exported.journal, exported.rows, stateAt)
  BY DEF CreateEvidence
<1>2. e.count = Len(exported.rows) /\ e.hash = HeadHash(exported.rows) /\ e.journal = exported.journal
  BY DEF Evidence
<1>3. EvidenceSound(e)
  BY <1>1, <1>2 DEF EvidenceSound, JournalFits, RecoveryInv, ExportSound
<1>4. ExportSound' /\ TargetVouched'
  BY <1>1 DEF RecoveryInv, ExportSound, TargetVouched, Telescoped, EntrySound, Contains, HashAt, Session
<1>5. \A d \in evidence' : EvidenceSound(d)
  BY <1>1, <1>3 DEF RecoveryInv
<1>6. \A d \in evidence' : EvidenceSound(d)'
  BY <1>5 DEF EvidenceSound, Telescoped, EntrySound, Contains, HashAt
<1>7. QED
  BY <1>1, <1>4, <1>6, StoreRests DEF RecoveryInv, IsSeq

\* Events are archived beside the evidence they are bound to.
LEMMA CreateArchiveKeeps ==
  ASSUME RecoveryInv, NEW e \in evidence, NEW now, CreateArchive(e, now)
  PROVE  RecoveryInv'
<1>1. /\ UNCHANGED checkpointVars /\ UNCHANGED <<exported, evidence, target, trusted>>
      /\ archives' = archives \cup {Archive(exported.events, e, now)}
  BY DEF CreateArchive
<1>2. IsSeq(exported.events) /\ Archive(exported.events, e, now).events = exported.events
  BY DEF RecoveryInv, ExportSound, Archive
<1>3. ExportSound' /\ TargetVouched' /\ \A d \in evidence' : EvidenceSound(d)'
  BY <1>1 DEF RecoveryInv, ExportSound, TargetVouched, EvidenceSound, Telescoped, EntrySound, Contains, HashAt,
              Session
<1>4. \A a \in archives' : IsSeq(a.events)
  BY <1>1, <1>2 DEF RecoveryInv
<1>5. QED
  BY <1>3, <1>4, StoreRests, <1>1 DEF RecoveryInv, IsSeq

\* An import rebuilds the events that hash to the last line of its evidence, which vouches
\* for all the others.
LEMMA ImportKeeps ==
  ASSUME RecoveryInv, NEW file \in archives, NEW receipt \in archives, NEW e \in evidence,
         Import(file, receipt, e)
  PROVE  RecoveryInv'
<1> PICK rows : rows = file.events
  OBVIOUS
<1>1. /\ UNCHANGED checkpointVars /\ UNCHANGED <<exported, evidence, archives>>
      /\ target' = rows /\ trusted' = e /\ ChainFits(rows, e)
  BY DEF Import, ArchiveFits
<1>2. IsSeq(rows) /\ EvidenceSound(e)
  BY DEF RecoveryInv
<1> DEFINE L == Len(e.journal)
<1>3. L \in 1..L
  <2>1. IsSeq(e.journal) /\ L \in Nat /\ e.journal # <<>>
    BY <1>2 DEF EvidenceSound, Telescoped, IsSeq
  <2>2. L # 0
    BY <2>1, EmptyIsSeq, SeqsEqual
  <2>3. QED
    BY <2>1, <2>2
<1>4. Len(rows) = e.journal[L].head /\ e.journal[L].hash = rows
  BY <1>1, <1>2, WholePrefix DEF EvidenceSound, ChainFits, HeadHash, HashAt
<1>5. \A n \in 1..L : Contains(rows, e.journal[n])
  BY <1>2, <1>3, <1>4 DEF EvidenceSound, Telescoped
<1> HIDE DEF L
<1>6. Session(rows[Len(rows)]) = e.session /\ \A n \in 1..Len(rows) : rows[n].content.at <= e.stateAt
  BY <1>1 DEF ChainFits
<1>7. TargetVouched'
  <2>1. \A n \in 1..Len(trusted'.journal) : Contains(target', trusted'.journal[n])
    BY <1>1, <1>5 DEF L
  <2>2. /\ Len(target') = trusted'.journal[Len(trusted'.journal)].head
        /\ Session(target'[Len(target')]) = trusted'.session
        /\ \A n \in 1..Len(target') : target'[n].content.at <= trusted'.stateAt
    BY <1>1, <1>4, <1>6 DEF L
  <2>3. QED
    BY <2>1, <2>2 DEF TargetVouched, Contains, HashAt, Session
<1>8. ExportSound' /\ \A d \in evidence' : EvidenceSound(d)'
  BY <1>1 DEF RecoveryInv, ExportSound, EvidenceSound, Telescoped, EntrySound, Contains, HashAt
<1>9. QED
  BY <1>1, <1>7, <1>8, StoreRests DEF RecoveryInv, IsSeq

\* Every step keeps the invariant.
LEMMA RecoveryStepKeeps == RecoveryInv /\ [RecoveryNext]_setVars => RecoveryInv'
<1> SUFFICES ASSUME RecoveryInv, [RecoveryNext]_setVars PROVE RecoveryInv'
  OBVIOUS
<1>1. CASE RecoveryNext
  BY <1>1, RecordEventKeeps, CheckpointKeeps, PutBackKeeps, ExportKeeps, CreateEvidenceKeeps, CreateArchiveKeeps,
     ImportKeeps DEF RecoveryNext
<1>2. CASE UNCHANGED setVars
  <2>1. UNCHANGED checkpointVars /\ UNCHANGED recoveryVars
    BY <1>2 DEF setVars
  <2>2. QED
    BY <2>1, StoreRests, StoreMoves
<1>3. QED
  BY <1>1, <1>2

\* The invariant gives the property.
LEMMA RecoveryShows == RecoveryInv => RebuiltAsVouched
<1> SUFFICES ASSUME RecoveryInv PROVE RebuiltAsVouched
  OBVIOUS
<1>1. NamesAreUnique
  BY DEF RecoveryInv, CheckpointInv, StoreInv, StoreSound, LogSound, NamesDiffer, Answers, NamesAreUnique
<1>2. QED
  BY <1>1 DEF RecoveryInv, TargetVouched, RebuiltAsVouched

\* Whatever was exported at different moments, put back or mixed up, a store rebuilt from
\* an event archive has every event that a checkpoint of its evidence names.
THEOREM RebuiltStaysVouched == RecoverySpec => []RebuiltAsVouched
  BY RecoveryInitially, RecoveryStepKeeps, RecoveryShows, PTL DEF RecoverySpec

-----------------------------------------------------------------------------
(* The signed documents.  A file that verifies has the manifest and the      *)
(* artifacts that were signed together, whatever it was mixed with; a number *)
(* is that of one piece of evidence.                                         *)

Sealed(file) == file = Documents!SignedFile(file.manifest, file.artifacts)

\* What was signed can be verified, and what was retained of it is of it.
BundleKept(d) ==
  Sealed(d.file) /\ Documents!BundleVerifies(d.file, Documents!BundleTrust(d.receipt, d.file.manifest.signer.key))

EvidenceKept(d) ==
  /\ Sealed(d.file)
  /\ d.receipt = Documents!Receipt(d.file, Documents!EvidenceFacts(d.file.manifest))
  /\ Documents!EvidenceVerifies(d.file, Documents!EvidenceTrust(d.receipt, d.file.artifacts.keys.release.key,
                                                                d.file.artifacts.keys.checkpoint.key))

ArchiveKept(d) ==
  /\ Sealed(d.file)
  /\ Documents!ArchiveVerifies(d.file, Documents!ArchiveTrust(d.receipt, d.file.manifest.signer.key, d.companion))
  /\ \E s \in statements : d.companion = Documents!Companion(s)

EvidenceNumbered ==
  /\ IsFiniteSet(statements)
  /\ \A d \in statements : d.file.manifest.id \in Nat /\ d.file.manifest.id < Cardinality(statements)
  /\ \A c, d \in statements : c.file.manifest.id = d.file.manifest.id => c = d

DocumentsInv ==
  /\ \A d \in bundles : BundleKept(d)
  /\ \A d \in statements : EvidenceKept(d)
  /\ \A d \in bound : ArchiveKept(d)
  /\ EvidenceNumbered
  /\ Documents!ReportIsOfOneSession

\* A sealed file, part by part.
LEMMA SealedFacts ==
  ASSUME NEW m, NEW a
  PROVE  LET file == Documents!SignedFile(m, a)
         IN /\ Sealed(file) /\ file.manifest = m /\ file.artifacts = a
            /\ file.signature = Documents!Signature(m.signer.key, m)
<1> DEFINE file == Documents!SignedFile(m, a)
<1>1. /\ file.manifest = m /\ file.artifacts = a
      /\ file.signature = Documents!Signature(m.signer.key, m)
  BY DEF Documents!SignedFile
<1>2. Sealed(file)
  BY <1>1 DEF Sealed
<1>3. QED
  BY <1>1, <1>2

\* A bundle is signed after the checks that its verification repeats.
LEMMA BundleSigned ==
  ASSUME NEW id, NEW fileSet, NEW r, NEW by, Documents!Normal(fileSet), Documents!IdentityFits(r, fileSet),
         NEW d, d = LET file == Documents!SignedFile(Documents!BundleManifest(id, fileSet, r, by), fileSet)
                    IN [file |-> file, receipt |-> Documents!Receipt(file, Documents!BundleFacts(file.manifest))]
  PROVE  BundleKept(d)
<1> PICK m : m = Documents!BundleManifest(id, fileSet, r, by)
  OBVIOUS
<1> PICK file : file = Documents!SignedFile(m, fileSet)
  OBVIOUS
<1>1. m.kind = "bundle" /\ m.files = fileSet /\ m.release = r /\ m.signer = by
  BY DEF Documents!BundleManifest
<1>2. Sealed(file) /\ file.manifest = m /\ file.artifacts = fileSet
      /\ file.signature = Documents!Signature(m.signer.key, m)
  BY SealedFacts
<1>3. d.file = file /\ d.receipt = Documents!Receipt(file, Documents!BundleFacts(m))
  BY <1>2
<1>4. d.receipt.archive = file /\ d.receipt.manifest = m /\ d.receipt.facts = Documents!BundleFacts(m)
  BY <1>2, <1>3 DEF Documents!Receipt
<1>5. Documents!BundleParses(m)
  <2>1. fileSet # {}
    <3>1. "tests" \in DOMAIN Documents!RoleOf
      BY DEF Documents!RoleOf
    <3>2. QED
      BY <3>1 DEF Documents!Normal, Documents!Complete
  <2>2. Documents!DescriptorsFit(fileSet)
    BY <2>1 DEF Documents!Normal, Documents!DescriptorsFit
  <2>3. QED
    BY <1>1, <2>2 DEF Documents!BundleParses, Documents!IdentityFits
<1>6. r.bindings = Documents!Bindings(fileSet) /\ Documents!Means(fileSet, r)
  BY DEF Documents!IdentityFits
<1>7. PICK trust : trust = Documents!BundleTrust(d.receipt, m.signer.key)
  OBVIOUS
<1>8. trust.receipt = d.receipt /\ trust.key = m.signer.key
  BY <1>7 DEF Documents!BundleTrust
<1>9. Documents!BundleVerifies(file, trust)
  BY <1>1, <1>2, <1>4, <1>5, <1>6, <1>8 DEF Documents!BundleVerifies, Documents!DecodesBundle
<1>10. QED
  BY <1>2, <1>3, <1>7, <1>9 DEF BundleKept

\* So is evidence.
LEMMA EvidenceSigned ==
  ASSUME NEW id, NEW s, NEW t, NEW by, Documents!Sanitized(s), by = s.releaseKey, t >= s.at,
         NEW m, m = Documents!EvidenceManifest(id, s, t, by), NEW file, file = Documents!SignedFile(m, m.artifacts),
         NEW d, d = [file |-> file, receipt |-> Documents!Receipt(file, Documents!EvidenceFacts(m))]
  PROVE  EvidenceKept(d) /\ d.file.manifest.id = id
<1> PICK a : a = Documents!Artifacts(s)
  OBVIOUS
<1>1. /\ a.events = s.events /\ a.journal = s.journal /\ a.head = Documents!Last(s.journal)
      /\ a.keys = [checkpoint |-> s.checkpointKey, release |-> s.releaseKey]
      /\ a.schemas = s.schemas /\ a.recovery = s.recovery /\ a.release = s.release
  BY DEF Documents!Artifacts
<1>2. /\ m.kind = "evidence" /\ m.id = id /\ m.artifacts = a /\ m.checkpoint = a.head /\ m.at = t
      /\ m.events = s.events /\ m.release = s.release /\ m.stateAt = s.at /\ m.signer = s.releaseKey
  BY <1>1 DEF Documents!EvidenceManifest
<1>3. Sealed(file) /\ file.manifest = m /\ file.artifacts = a
      /\ file.signature = Documents!Signature(m.signer.key, m)
  BY <1>2, SealedFacts
<1>4. d.file = file /\ d.receipt = Documents!Receipt(file, Documents!EvidenceFacts(m))
  OBVIOUS
<1>5. d.receipt.archive = file /\ d.receipt.manifest = m /\ d.receipt.facts = Documents!EvidenceFacts(m)
  BY <1>3, <1>4 DEF Documents!Receipt
<1>6. a.keys.checkpoint = s.checkpointKey /\ a.keys.release = s.releaseKey
  BY <1>1
<1>7. Documents!ArtifactsFit(a, m.stateAt)
  BY <1>1, <1>2, <1>6 DEF Documents!Sanitized, Documents!ArtifactsFit
<1>8. m.signer = m.release.signer
  BY <1>2 DEF Documents!Sanitized, Documents!ReleaseFits
<1>9. PICK trust : trust = Documents!EvidenceTrust(d.receipt, a.keys.release.key, a.keys.checkpoint.key)
  OBVIOUS
<1>10. trust.receipt = d.receipt /\ trust.key = m.signer.key /\ trust.key = a.keys.release.key
       /\ trust.checkpointKey = a.keys.checkpoint.key
  BY <1>2, <1>6, <1>9 DEF Documents!EvidenceTrust
<1>11. Documents!DecodesEvidence(file)
  BY <1>2, <1>3 DEF Documents!DecodesEvidence, Documents!EvidenceParses
<1>12. Documents!EvidenceVerifies(file, trust)
  BY <1>1, <1>2, <1>3, <1>5, <1>7, <1>8, <1>10, <1>11 DEF Documents!EvidenceVerifies
<1>13. QED
  BY <1>2, <1>3, <1>4, <1>9, <1>12 DEF EvidenceKept

\* And the archive of the events of evidence that was signed.
LEMMA ArchiveSigned ==
  ASSUME NEW id, NEW s, NEW t, NEW by, Documents!ArchiveSanitized(s), t >= s.stateAt, t >= s.evidence.manifest.at,
         Documents!ProofSigned(s.evidence, by.key), by.key = s.evidence.receipt.facts.key,
         by.id = s.evidence.releaseId, \E e \in statements : s.evidence = Documents!Companion(e),
         NEW m, m = Documents!ArchiveManifest(id, s, t, by), NEW file, file = Documents!SignedFile(m, m.events),
         NEW d, d = [file |-> file, receipt |-> Documents!Receipt(file, Documents!ArchiveFacts(m)),
                     companion |-> s.evidence]
  PROVE  ArchiveKept(d)
<1> PICK c : c = s.evidence
  OBVIOUS
<1>1. /\ m.kind = "archive" /\ m.events = s.events /\ m.at = t /\ m.profile = s.profile
      /\ m.release = c.receipt.facts.release /\ m.session = s.session /\ m.stateAt = s.stateAt /\ m.signer = by
      /\ m.store = c.events
      /\ m.evidence = [binding |-> c, archive |-> c.receipt.archive, id |-> c.receipt.facts.id,
                       checkpoint |-> c.receipt.facts.checkpoint, manifest |-> c.receipt.manifest]
  BY DEF Documents!ArchiveManifest
<1>2. /\ m.evidence.binding = c /\ m.evidence.archive = c.receipt.archive /\ m.evidence.id = c.receipt.facts.id
      /\ m.evidence.checkpoint = c.receipt.facts.checkpoint /\ m.evidence.manifest = c.receipt.manifest
  BY <1>1
<1>3. Sealed(file) /\ file.manifest = m /\ file.artifacts = m.events
      /\ file.signature = Documents!Signature(m.signer.key, m)
  BY SealedFacts
<1>4. d.file = file /\ d.receipt = Documents!Receipt(file, Documents!ArchiveFacts(m)) /\ d.companion = c
  OBVIOUS
<1>5. d.receipt.archive = file /\ d.receipt.manifest = m /\ d.receipt.facts = Documents!ArchiveFacts(m)
  BY <1>3, <1>4 DEF Documents!Receipt
<1>6. /\ Documents!CompanionFits(c) /\ c.profile = s.profile /\ c.session = s.session /\ c.stateAt = s.stateAt
      /\ Documents!EventsFit(s.events) /\ Documents!ChainFits(s.events, c)
  BY DEF Documents!ArchiveSanitized
<1>7. Documents!EvidenceFacts(c.manifest) = c.receipt.facts /\ c.manifest.profile = c.profile
      /\ c.manifest.session = c.session /\ Documents!StateFits(c.events)
  BY <1>6 DEF Documents!CompanionFits
<1>8. c.receipt.facts.profile = c.profile /\ c.receipt.facts.session = c.session
  <2>1. Documents!EvidenceFacts(c.manifest).profile = c.manifest.profile
        /\ Documents!EvidenceFacts(c.manifest).session = c.manifest.session
    BY DEF Documents!EvidenceFacts
  <2>2. QED
    BY <1>7, <2>1
<1>9. Documents!EvidenceBinds(m, c)
  BY <1>1, <1>2, <1>6, <1>8 DEF Documents!EvidenceBinds
<1>10. Documents!ArchiveDataFits(m.events, m, c)
  BY <1>1, <1>6 DEF Documents!ArchiveDataFits
<1>11. Documents!DecodesArchive(file)
  BY <1>1, <1>3, <1>7 DEF Documents!DecodesArchive, Documents!ArchiveParses
<1>12. PICK trust : trust = Documents!ArchiveTrust(d.receipt, m.signer.key, c)
  OBVIOUS
<1>13. trust.receipt = d.receipt /\ trust.key = m.signer.key /\ trust.evidence = c
  BY <1>12 DEF Documents!ArchiveTrust
<1>14. Documents!ArchiveVerifies(file, trust)
  BY <1>1, <1>3, <1>5, <1>6, <1>9, <1>10, <1>11, <1>13 DEF Documents!ArchiveVerifies
<1>15. QED
  BY <1>3, <1>4, <1>12, <1>14 DEF ArchiveKept

\* A file of mixed parts whose signature is over its manifest has manifest and signature of
\* one file that was signed.
LEMMA MixedFile ==
  ASSUME NEW sealed, \A s \in sealed : Sealed(s), NEW f \in Documents!Mixed(sealed), NEW key,
         f.signature = Documents!Signature(key, f.manifest)
  PROVE  \E s \in sealed : f = Documents!SignedFile(s.manifest, f.artifacts)
<1>0. PICK s \in sealed, t \in sealed : \E part \in DOMAIN s : f = [s EXCEPT ![part] = t[part]]
  BY DEF Documents!Mixed
<1>1. PICK part \in DOMAIN s : f = [s EXCEPT ![part] = t[part]]
  BY <1>0
<1>2. /\ s = [manifest |-> s.manifest, signature |-> s.signature, artifacts |-> s.artifacts]
      /\ t = [manifest |-> t.manifest, signature |-> t.signature, artifacts |-> t.artifacts]
      /\ s.signature = Documents!Signature(s.manifest.signer.key, s.manifest)
      /\ t.signature = Documents!Signature(t.manifest.signer.key, t.manifest)
  BY DEF Sealed, Documents!SignedFile
<1>3. part \in {"manifest", "signature", "artifacts"}
  BY <1>2
<1>4. \A k, l, x, y : Documents!Signature(k, x) = Documents!Signature(l, y) => x = y
  BY DEF Documents!Signature
<1>5. CASE part = "manifest"
  <2>1. f = [manifest |-> t.manifest, signature |-> s.signature, artifacts |-> s.artifacts]
    BY <1>1, <1>2, <1>5
  <2>2. t.manifest = s.manifest
    BY <1>2, <1>4, <2>1
  <2>3. QED
    BY <1>2, <2>1, <2>2 DEF Documents!SignedFile
<1>6. CASE part = "signature"
  <2>1. f = [manifest |-> s.manifest, signature |-> t.signature, artifacts |-> s.artifacts]
    BY <1>1, <1>2, <1>6
  <2>2. t.manifest = s.manifest
    BY <1>2, <1>4, <2>1
  <2>3. QED
    BY <1>2, <2>1, <2>2 DEF Documents!SignedFile
<1>7. CASE part = "artifacts"
  <2>1. f = [manifest |-> s.manifest, signature |-> s.signature, artifacts |-> t.artifacts]
    BY <1>1, <1>2, <1>7
  <2>2. QED
    BY <1>2, <2>1 DEF Documents!SignedFile
<1>8. QED
  BY <1>3, <1>5, <1>6, <1>7

\* A manifest that was edited no longer has its signature, unless the edit changed nothing.
Edited(s, f) == \E x \in Sessions : f = [s EXCEPT !.manifest.session = x]

LEMMA EditedFile ==
  ASSUME NEW s, Sealed(s), NEW f, Edited(s, f), NEW key,
         f.signature = Documents!Signature(key, f.manifest)
  PROVE  f = s
<1> PICK x \in Sessions : f = [s EXCEPT !.manifest.session = x]
  BY DEF Edited
<1>1. /\ s = [manifest |-> s.manifest, signature |-> s.signature, artifacts |-> s.artifacts]
      /\ s.signature = Documents!Signature(s.manifest.signer.key, s.manifest)
  BY DEF Sealed, Documents!SignedFile
<1> PICK m : m = [s.manifest EXCEPT !.session = x]
  OBVIOUS
<1>2. f = [manifest |-> m, signature |-> s.signature, artifacts |-> s.artifacts]
  BY <1>1
<1>3. m = s.manifest
  BY <1>1, <1>2 DEF Documents!Signature
<1>4. QED
  BY <1>1, <1>2, <1>3

\* Of mixed and edited files, only one that was signed verifies.
LEMMA UnalteredFile ==
  ASSUME NEW sealed, \A s \in sealed : Sealed(s), NEW f, NEW key, f.signature = Documents!Signature(key, f.manifest),
         f \in Documents!Mixed(sealed) \/ \E s \in sealed : Edited(s, f),
         \A s \in sealed : s.manifest = f.manifest => s.artifacts = f.artifacts
  PROVE  f \in sealed
<1>1. CASE f \in Documents!Mixed(sealed)
  <2>1. PICK s \in sealed : f = Documents!SignedFile(s.manifest, f.artifacts)
    BY <1>1, MixedFile
  <2>2. f.manifest = s.manifest
    BY <2>1 DEF Documents!SignedFile
  <2>3. f = Documents!SignedFile(s.manifest, s.artifacts)
    BY <2>1, <2>2
  <2>4. QED
    BY <2>3 DEF Sealed
<1>2. CASE \E s \in sealed : Edited(s, f)
  BY <1>2, EditedFile
<1>3. QED
  BY <1>1, <1>2

\* Evidence that verifies is evidence that was signed.
LEMMA EvidencePresented ==
  ASSUME DocumentsInv, NEW key, NEW e \in Documents!PresentedEvidence(key)
  PROVE  \E d \in statements : e.file = d.file
<1> DEFINE sealed == {d.file : d \in statements}
<1> PICK f : f = e.file
  OBVIOUS
<1>1. e \in Documents!Presented(statements, Documents!EditedEvidence)
      /\ \E k : Documents!EvidenceVerifies(f, Documents!EvidenceTrust(e.receipt, key, k))
  BY DEF Documents!PresentedEvidence
<1>2. f.signature = Documents!Signature(key, f.manifest) /\ f.artifacts = f.manifest.artifacts
  BY <1>1 DEF Documents!EvidenceVerifies, Documents!EvidenceTrust, Documents!DecodesEvidence
<1>3. f \in Documents!Mixed(sealed) \/ \E s \in sealed : Edited(s, f)
  BY <1>1 DEF Documents!Presented, Documents!Files, Documents!EditedEvidence, Edited
<1>4. \A s \in sealed : Sealed(s) /\ s.artifacts = s.manifest.artifacts
  BY DEF DocumentsInv, EvidenceKept, Documents!EvidenceVerifies, Documents!DecodesEvidence
<1> HIDE DEF sealed
<1>5. (\A s \in sealed : Sealed(s)) /\ \A s \in sealed : s.manifest = f.manifest => s.artifacts = f.artifacts
  BY <1>2, <1>4
<1>6. f \in sealed
  BY <1>2, <1>3, <1>5, UnalteredFile
<1>7. QED
  BY <1>6 DEF sealed

\* So is an archive.
LEMMA ArchivePresented ==
  ASSUME DocumentsInv, NEW key, NEW e \in Documents!PresentedArchives(key)
  PROVE  \E d \in bound : e.file = d.file
<1> DEFINE sealed == {d.file : d \in bound}
<1> PICK f : f = e.file
  OBVIOUS
<1>1. e \in Documents!Presented(bound, Documents!EditedArchive)
      /\ \E c : Documents!ArchiveVerifies(f, Documents!ArchiveTrust(e.receipt, key, c))
  BY DEF Documents!PresentedArchives
<1>2. f.signature = Documents!Signature(key, f.manifest) /\ f.artifacts = f.manifest.events
  BY <1>1 DEF Documents!ArchiveVerifies, Documents!ArchiveTrust, Documents!DecodesArchive
<1>3. f \in Documents!Mixed(sealed) \/ \E s \in sealed : Edited(s, f)
  BY <1>1 DEF Documents!Presented, Documents!Files, Documents!EditedArchive, Edited
<1>4. \A s \in sealed : Sealed(s) /\ s.artifacts = s.manifest.events
  BY DEF DocumentsInv, ArchiveKept, Documents!ArchiveVerifies, Documents!DecodesArchive
<1> HIDE DEF sealed
<1>5. (\A s \in sealed : Sealed(s)) /\ \A s \in sealed : s.manifest = f.manifest => s.artifacts = f.artifacts
  BY <1>2, <1>4
<1>6. f \in sealed
  BY <1>2, <1>3, <1>5, UnalteredFile
<1>7. QED
  BY <1>6 DEF sealed

\* And a bundle.
LEMMA BundlePresented ==
  ASSUME DocumentsInv, NEW key, NEW e \in Documents!PresentedBundles(key)
  PROVE  \E d \in bundles : e.file = d.file
<1> DEFINE sealed == {d.file : d \in bundles}
<1> PICK f : f = e.file
  OBVIOUS
<1>1. e \in Documents!Presented(bundles, LAMBDA d : {})
      /\ Documents!BundleVerifies(f, Documents!BundleTrust(e.receipt, key))
  BY DEF Documents!PresentedBundles
<1>2. f.signature = Documents!Signature(key, f.manifest) /\ f.artifacts = f.manifest.files
  BY <1>1 DEF Documents!BundleVerifies, Documents!BundleTrust, Documents!DecodesBundle
<1>3. f \in Documents!Mixed(sealed) \/ \E s \in sealed : Edited(s, f)
  BY <1>1 DEF Documents!Presented, Documents!Files
<1>4. \A s \in sealed : Sealed(s) /\ s.artifacts = s.manifest.files
  BY DEF DocumentsInv, BundleKept, Documents!BundleVerifies, Documents!DecodesBundle
<1> HIDE DEF sealed
<1>5. (\A s \in sealed : Sealed(s)) /\ \A s \in sealed : s.manifest = f.manifest => s.artifacts = f.artifacts
  BY <1>2, <1>4
<1>6. f \in sealed
  BY <1>2, <1>3, <1>5, UnalteredFile
<1>7. QED
  BY <1>6 DEF sealed

\* What a signed bundle says.
BundleSays(d) ==
  LET m == d.file.manifest
  IN /\ d.file.signature.key = m.signer.key
     /\ {f.path : f \in m.files} = DOMAIN Documents!RoleOf
     /\ \A f \in m.files : f.role = "test-summary" => /\ f.content.passed /\ f.content.commit = m.release.commit
                                                     /\ f.content.at <= m.release.at

\* Its verification establishes that.
LEMMA BundleTells ==
  ASSUME NEW d, BundleKept(d)
  PROVE  BundleSays(d)
<1> PICK m : m = d.file.manifest
  OBVIOUS
<1>1. /\ Sealed(d.file) /\ Documents!Normal(d.file.artifacts) /\ d.file.artifacts = m.files
      /\ Documents!Means(d.file.artifacts, m.release)
  BY DEF BundleKept, Documents!BundleVerifies, Documents!DecodesBundle
<1>2. d.file.signature.key = m.signer.key
  BY <1>1 DEF Sealed, Documents!SignedFile, Documents!Signature
<1>3. {f.path : f \in m.files} = DOMAIN Documents!RoleOf
  BY <1>1 DEF Documents!Normal, Documents!PathAllowed, Documents!Complete
<1>4. ASSUME NEW f \in m.files, f.role = "test-summary"
      PROVE  f.content.passed /\ f.content.commit = m.release.commit /\ f.content.at <= m.release.at
  <2>1. f.path \in DOMAIN Documents!RoleOf /\ Documents!RoleOf[f.path] = "test-summary"
    BY <1>1, <1>4 DEF Documents!Normal, Documents!PathAllowed
  <2>2. f.path = "tests"
    BY <2>1 DEF Documents!RoleOf
  <2>3. \A g \in m.files : g.path = "tests" => g = f
    BY <1>1, <2>2 DEF Documents!Normal
  <2>4. Documents!At(m.files, "tests") = f.content
    BY <2>2, <2>3 DEF Documents!At
  <2>5. f.content.passed
    BY <1>1, <1>4 DEF Documents!Normal, Documents!ContentFits
  <2>6. QED
    BY <1>1, <2>4, <2>5 DEF Documents!Means
<1>5. QED
  BY <1>2, <1>3, <1>4 DEF BundleSays

\* What signed evidence says.
EvidenceSays(d) ==
  LET m == d.file.manifest
  IN /\ d.file.signature.key = m.signer.key
     /\ \A n \in 1..Len(m.artifacts.journal) : m.artifacts.journal[n].signer.key # m.signer.key
     /\ m.events = Documents!Last(m.artifacts.journal).head
     /\ \A r \in m.artifacts.recovery : r.release = m.release.manifest /\ r.at <= m.stateAt
     /\ m.stateAt <= m.at

\* Its verification establishes that.
LEMMA EvidenceTells ==
  ASSUME NEW d, EvidenceKept(d)
  PROVE  EvidenceSays(d)
<1> PICK m : m = d.file.manifest
  OBVIOUS
<1> PICK a : a = d.file.artifacts
  OBVIOUS
<1>1. /\ Sealed(d.file) /\ a = m.artifacts /\ m.at >= m.stateAt
      /\ Documents!ArtifactsFit(a, m.stateAt) /\ m.events = a.events /\ m.release = a.release
  BY DEF EvidenceKept, Documents!EvidenceVerifies, Documents!DecodesEvidence, Documents!EvidenceParses
<1>2. a.keys.release.key = m.signer.key
  BY DEF EvidenceKept, Documents!EvidenceVerifies, Documents!EvidenceTrust
<1>3. d.file.signature.key = m.signer.key
  BY <1>1 DEF Sealed, Documents!SignedFile, Documents!Signature
<1>4. \A n \in 1..Len(a.journal) : a.journal[n].signer.key # m.signer.key
  BY <1>1, <1>2 DEF Documents!ArtifactsFit, Documents!JournalFits, Documents!KeysDiffer
<1>5. m.events = Documents!Last(a.journal).head
  BY <1>1 DEF Documents!ArtifactsFit, Documents!JournalFits
<1>6. \A r \in a.recovery : r.release = m.release.manifest /\ r.at <= m.stateAt
  BY <1>1 DEF Documents!ArtifactsFit, Documents!RecoveryFits
<1>7. QED
  BY <1>1, <1>3, <1>4, <1>5, <1>6 DEF EvidenceSays

\* What a signed archive says of the evidence s it was signed beside.
ArchiveSays(d, s) ==
  LET m == d.file.manifest  e == s.file.manifest
  IN /\ d.file.signature.key = m.signer.key
     /\ m.evidence.manifest = e /\ m.evidence.id = e.id /\ m.events = e.events /\ e.at <= m.at
     /\ Documents!Last(m.events).session = m.session
     /\ \A n \in 1..Len(m.events) : m.events[n].at <= e.stateAt /\ m.events[n].profile = m.profile

\* Its verification establishes that, with the number of the evidence.
LEMMA ArchiveTells ==
  ASSUME DocumentsInv, NEW d \in bound
  PROVE  \E s \in statements : ArchiveSays(d, s)
<1>1. PICK s \in statements : d.companion = Documents!Companion(s)
  BY DEF DocumentsInv, ArchiveKept
<1> PICK m : m = d.file.manifest
  OBVIOUS
<1> PICK e : e = s.file.manifest
  OBVIOUS
<1> PICK c : c = d.companion
  OBVIOUS
<1>2. c.events = e.events /\ c.manifest = e /\ c.receipt = s.receipt /\ c.stateAt = e.stateAt
  BY <1>1 DEF Documents!Companion
<1>3. s.receipt = Documents!Receipt(s.file, Documents!EvidenceFacts(e))
  BY DEF DocumentsInv, EvidenceKept
<1>4. s.receipt.manifest = e /\ s.receipt.facts = Documents!EvidenceFacts(e)
  BY <1>3 DEF Documents!Receipt
<1>5. s.receipt.facts.id = e.id
  BY <1>4 DEF Documents!EvidenceFacts
<1>6. ArchiveKept(d)
  BY DEF DocumentsInv
<1>7. PICK trust : trust = Documents!ArchiveTrust(d.receipt, m.signer.key, c)
  OBVIOUS
<1>8. trust.evidence = c
  BY <1>7 DEF Documents!ArchiveTrust
<1>9. Documents!ArchiveVerifies(d.file, trust)
  BY <1>6, <1>7 DEF ArchiveKept
<1>10. /\ d.file.artifacts = m.events /\ Documents!EvidenceBinds(m, c)
       /\ Documents!ArchiveDataFits(d.file.artifacts, m, c)
  BY <1>8, <1>9 DEF Documents!ArchiveVerifies, Documents!DecodesArchive
<1>11. m.evidence.manifest = e /\ m.evidence.id = e.id /\ m.at >= e.at
  BY <1>2, <1>4, <1>5, <1>10 DEF Documents!EvidenceBinds
<1>12. /\ m.events = e.events /\ Documents!Last(m.events).session = m.session
       /\ \A n \in 1..Len(m.events) : m.events[n].at <= e.stateAt /\ m.events[n].profile = m.profile
  BY <1>2, <1>10 DEF Documents!ArchiveDataFits, Documents!ChainFits
<1>13. d.file.signature.key = m.signer.key
  BY <1>6 DEF ArchiveKept, Sealed, Documents!SignedFile, Documents!Signature
<1>14. ArchiveSays(d, s)
  BY <1>11, <1>12, <1>13 DEF ArchiveSays
<1>15. QED
  BY <1>14

\* More that was signed changes nothing of a report.
LEMMA BelievedStays ==
  ASSUME Documents!ReportIsOfOneSession, report' = report,
         bundles \subseteq bundles', statements \subseteq statements', bound \subseteq bound'
  PROVE  Documents!ReportIsOfOneSession'
<1>1. CASE report = None
  BY <1>1 DEF Documents!ReportIsOfOneSession
<1>2. CASE report # None
  <2>1. /\ \E d \in statements : d.file = report.evidence
        /\ \E d \in bound : d.file = report.archive
        /\ \E d \in bundles : d.file = report.bundle
    BY <1>2 DEF Documents!ReportIsOfOneSession
  <2>2. /\ \E d \in statements' : d.file = report.evidence
        /\ \E d \in bound' : d.file = report.archive
        /\ \E d \in bundles' : d.file = report.bundle
    BY <2>1
  <2>3. QED
    BY <1>2, <2>2 DEF Documents!ReportIsOfOneSession
<1>3. QED
  BY <1>1, <1>2

\* Both count alike.
LEMMA CountAgrees == \A S : Documents!Cardinality(S) = Cardinality(S)
  BY DEF Documents!Cardinality, Cardinality

\* Nothing was signed.
LEMMA DocumentsInitially == Documents!ArchivesInit => DocumentsInv
<1> SUFFICES ASSUME Documents!ArchivesInit PROVE DocumentsInv
  OBVIOUS
<1>1. bundles = {} /\ statements = {} /\ bound = {} /\ report = None
  BY DEF Documents!ArchivesInit
<1>2. EvidenceNumbered
  BY <1>1, FS_EmptySet DEF EvidenceNumbered
<1>3. QED
  BY <1>1, <1>2 DEF DocumentsInv, Documents!ReportIsOfOneSession

\* A release is signed.
LEMMA SignBundleKeeps ==
  ASSUME DocumentsInv, NEW fileSet, NEW r, NEW by, Documents!SignBundle(fileSet, r, by)
  PROVE  DocumentsInv'
<1>1. PICK d : /\ bundles' = bundles \cup {d}
               /\ d = LET file == Documents!SignedFile(Documents!BundleManifest(Documents!Cardinality(bundles),
                                                                                fileSet, r, by), fileSet)
                      IN [file |-> file, receipt |-> Documents!Receipt(file, Documents!BundleFacts(file.manifest))]
  BY DEF Documents!SignBundle
<1>2. /\ Documents!Normal(fileSet) /\ Documents!IdentityFits(r, fileSet)
      /\ statements' = statements /\ bound' = bound /\ report' = report
  BY DEF Documents!SignBundle
<1>3. BundleKept(d)
  BY <1>1, <1>2, BundleSigned
<1>4. Documents!ReportIsOfOneSession'
  BY <1>1, <1>2, BelievedStays DEF DocumentsInv
<1>5. EvidenceNumbered'
  BY <1>2 DEF DocumentsInv, EvidenceNumbered
<1>6. \A x \in bound' : ArchiveKept(x)'
  BY <1>2 DEF DocumentsInv, ArchiveKept
<1>7. QED
  BY <1>1, <1>2, <1>3, <1>4, <1>5, <1>6 DEF DocumentsInv

\* Evidence is signed, under a number that no other has.
LEMMA SignEvidenceKeeps ==
  ASSUME DocumentsInv, NEW s, NEW t, NEW by, Documents!SignEvidence(s, t, by)
  PROVE  DocumentsInv'
<1> PICK m : m = Documents!EvidenceManifest(Documents!Cardinality(statements), s, t, by)
  OBVIOUS
<1> PICK file : file = Documents!SignedFile(m, m.artifacts)
  OBVIOUS
<1> PICK d : d = [file |-> file, receipt |-> Documents!Receipt(file, Documents!EvidenceFacts(m))]
  OBVIOUS
<1>1. /\ Documents!Sanitized(s) /\ by = s.releaseKey /\ t >= s.at /\ statements' = statements \cup {d}
      /\ bundles' = bundles /\ bound' = bound /\ report' = report
  BY DEF Documents!SignEvidence
<1>2. EvidenceKept(d) /\ d.file.manifest.id = Cardinality(statements)
  BY <1>1, EvidenceSigned, CountAgrees
<1>3. EvidenceNumbered
  BY DEF DocumentsInv
<1>4. Cardinality(statements) \in Nat
  BY <1>3, FS_CardinalityType DEF EvidenceNumbered
<1>5. d \notin statements
  BY <1>2, <1>3, <1>4 DEF EvidenceNumbered
<1>6. IsFiniteSet(statements') /\ Cardinality(statements') = Cardinality(statements) + 1
  BY <1>1, <1>3, <1>5, FS_AddElement DEF EvidenceNumbered
<1>7. EvidenceNumbered'
  <2>1. ASSUME NEW x \in statements'
        PROVE  x.file.manifest.id \in Nat /\ x.file.manifest.id < Cardinality(statements')
    BY <1>1, <1>2, <1>3, <1>4, <1>6 DEF EvidenceNumbered
  <2>2. ASSUME NEW x \in statements', NEW y \in statements', x.file.manifest.id = y.file.manifest.id
        PROVE  x = y
    <3>1. \A z \in statements : z.file.manifest.id # Cardinality(statements)
      BY <1>3, <1>4 DEF EvidenceNumbered
    <3>2. QED
      BY <1>1, <1>2, <1>3, <2>2, <3>1 DEF EvidenceNumbered
  <2>3. QED
    BY <1>6, <2>1, <2>2 DEF EvidenceNumbered
<1>8. Documents!ReportIsOfOneSession'
  BY <1>1, BelievedStays DEF DocumentsInv
<1>9. \A x \in bound' : ArchiveKept(x)'
  BY <1>1 DEF DocumentsInv, ArchiveKept
<1>10. QED
  BY <1>1, <1>2, <1>7, <1>8, <1>9 DEF DocumentsInv

\* What an operator holds of several archives' evidence is some evidence that was signed.
LEMMA SnapshotEvidence ==
  ASSUME NEW s \in Documents!Mixed(Documents!ArchiveSnapshots)
  PROVE  \E e \in statements : s.evidence = Documents!Companion(e)
<1>1. \A u \in Documents!ArchiveSnapshots :
        /\ \E e \in statements : u.evidence = Documents!Companion(e)
        /\ u = [events |-> u.events, profile |-> u.profile, session |-> u.session, stateAt |-> u.stateAt,
                evidence |-> u.evidence]
  BY DEF Documents!ArchiveSnapshots, Documents!ArchiveSnapshot
<1>2. PICK u \in Documents!ArchiveSnapshots, v \in Documents!ArchiveSnapshots :
        \E part \in DOMAIN u : s = [u EXCEPT ![part] = v[part]]
  BY DEF Documents!Mixed
<1>3. PICK part \in DOMAIN u : s = [u EXCEPT ![part] = v[part]]
  BY <1>2
<1>4. s.evidence = u.evidence \/ s.evidence = v.evidence
  <2>1. "evidence" \in DOMAIN u
    BY <1>1
  <2>2. CASE part = "evidence"
    BY <1>3, <2>1, <2>2
  <2>3. CASE part # "evidence"
    BY <1>3, <2>1, <2>3
  <2>4. QED
    BY <2>2, <2>3
<1>5. QED
  BY <1>1, <1>4

\* An archive is signed.
LEMMA SignArchiveKeeps ==
  ASSUME DocumentsInv, NEW s \in Documents!Mixed(Documents!ArchiveSnapshots), NEW t, NEW by,
         Documents!SignArchive(s, t, by)
  PROVE  DocumentsInv'
<1> PICK m : m = Documents!ArchiveManifest(Documents!Cardinality(bound), s, t, by)
  OBVIOUS
<1> PICK file : file = Documents!SignedFile(m, m.events)
  OBVIOUS
<1> PICK d : d = [file |-> file, receipt |-> Documents!Receipt(file, Documents!ArchiveFacts(m)),
                  companion |-> s.evidence]
  OBVIOUS
<1>1. /\ Documents!ArchiveSanitized(s) /\ t >= s.stateAt /\ t >= s.evidence.manifest.at
      /\ Documents!ProofSigned(s.evidence, by.key)
      /\ by.key = s.evidence.receipt.facts.key /\ by.id = s.evidence.releaseId
      /\ bound' = bound \cup {d} /\ bundles' = bundles /\ statements' = statements /\ report' = report
  BY DEF Documents!SignArchive
<1>2. ArchiveKept(d)
  BY <1>1, SnapshotEvidence, ArchiveSigned
<1>3. \A x \in bound' : ArchiveKept(x)
  BY <1>1, <1>2 DEF DocumentsInv
<1>4. \A x \in bound' : ArchiveKept(x)'
  BY <1>1, <1>3 DEF ArchiveKept
<1>5. Documents!ReportIsOfOneSession'
  BY <1>1, BelievedStays DEF DocumentsInv
<1>6. EvidenceNumbered'
  BY <1>1 DEF DocumentsInv, EvidenceNumbered
<1>7. QED
  BY <1>1, <1>4, <1>5, <1>6 DEF DocumentsInv

\* A report agrees with what its three files say, and the archive's evidence, having the
\* number of the reported one, is the reported one.
LEMMA VerifyRecoveryKeeps ==
  ASSUME DocumentsInv, Documents!VerifyRecovery
  PROVE  DocumentsInv'
<1>1. PICK a, e, b, expected :
        /\ \E k : a \in Documents!PresentedArchives(k)
        /\ \E k : e \in Documents!PresentedEvidence(k)
        /\ \E k : b \in Documents!PresentedBundles(k)
        /\ Documents!Agree(e.file.manifest, a.file.manifest, b.file.manifest, expected)
        /\ \E d \in bundles : expected.release = d.file.manifest
        /\ report' = [evidence |-> e.file, archive |-> a.file, bundle |-> b.file, expected |-> expected]
        /\ bundles' = bundles /\ statements' = statements /\ bound' = bound
  <2>1. PICK a \in UNION {Documents!PresentedArchives(k) : k \in Documents!Keys},
             e \in UNION {Documents!PresentedEvidence(k) : k \in Documents!Keys},
             b \in UNION {Documents!PresentedBundles(k) : k \in Documents!Keys},
             s \in Sessions, p \in Documents!Profiles, d \in bundles :
          LET expected == [session |-> s, profile |-> p, release |-> d.file.manifest]
          IN /\ Documents!Agree(e.file.manifest, a.file.manifest, b.file.manifest, expected)
             /\ report' = [evidence |-> e.file, archive |-> a.file, bundle |-> b.file, expected |-> expected]
             /\ UNCHANGED <<bundles, statements, bound>>
    BY DEF Documents!VerifyRecovery
  <2> PICK expected : expected = [session |-> s, profile |-> p, release |-> d.file.manifest]
    OBVIOUS
  <2>2. expected.release = d.file.manifest
    OBVIOUS
  <2>3. /\ \E k : a \in Documents!PresentedArchives(k)
        /\ \E k : e \in Documents!PresentedEvidence(k)
        /\ \E k : b \in Documents!PresentedBundles(k)
    OBVIOUS
  <2>4. /\ Documents!Agree(e.file.manifest, a.file.manifest, b.file.manifest, expected)
        /\ report' = [evidence |-> e.file, archive |-> a.file, bundle |-> b.file, expected |-> expected]
        /\ bundles' = bundles /\ statements' = statements /\ bound' = bound
    BY <2>1
  <2>5. QED
    BY <2>2, <2>3, <2>4
<1>2. PICK da \in bound, de \in statements, db \in bundles : a.file = da.file /\ e.file = de.file /\ b.file = db.file
  BY <1>1, ArchivePresented, EvidencePresented, BundlePresented
<1> PICK ma : ma = a.file.manifest
  OBVIOUS
<1> PICK me : me = e.file.manifest
  OBVIOUS
<1> PICK mb : mb = b.file.manifest
  OBVIOUS
<1>3. /\ ma.profile = expected.profile /\ ma.session = expected.session
      /\ me.release.manifest = expected.release /\ mb = expected.release
      /\ ma.evidence.id = me.id /\ me.signer.key = ma.signer.key /\ me.signer.key = mb.signer.key
  BY <1>1 DEF Documents!Agree
<1>4. BundleSays(db) /\ EvidenceSays(de)
  BY BundleTells, EvidenceTells DEF DocumentsInv
<1>5. PICK s \in statements : ArchiveSays(da, s)
  BY ArchiveTells
<1>6. s = de
  BY <1>2, <1>3, <1>5 DEF ArchiveSays, DocumentsInv, EvidenceNumbered
<1>7. /\ ma.evidence.manifest = me /\ ma.events = me.events /\ me.at <= ma.at
      /\ Documents!Last(ma.events).session = expected.session
      /\ \A n \in 1..Len(ma.events) : ma.events[n].at <= me.stateAt /\ ma.events[n].profile = expected.profile
  BY <1>2, <1>3, <1>5, <1>6 DEF ArchiveSays
<1>8. /\ \A n \in 1..Len(me.artifacts.journal) : me.artifacts.journal[n].signer.key # me.signer.key
      /\ me.events = Documents!Last(me.artifacts.journal).head
      /\ \A r \in me.artifacts.recovery : r.release = mb /\ r.at <= me.stateAt
      /\ me.stateAt <= me.at
  BY <1>2, <1>3, <1>4 DEF EvidenceSays
<1>9. /\ {f.path : f \in mb.files} = DOMAIN Documents!RoleOf
      /\ \A f \in mb.files : f.role = "test-summary" => /\ f.content.passed /\ f.content.commit = mb.release.commit
                                                       /\ f.content.at <= mb.release.at
  BY <1>2, <1>4 DEF BundleSays
<1>10. /\ report'.evidence = e.file /\ report'.archive = a.file /\ report'.bundle = b.file
       /\ report'.expected = expected
  BY <1>1
<1>11. Cardinality({report'[f].signature.key : f \in {"evidence", "archive", "bundle"}}) = 1
  <2>1. e.file.signature.key = me.signer.key /\ a.file.signature.key = me.signer.key
        /\ b.file.signature.key = me.signer.key
    BY <1>2, <1>3, <1>4, <1>5 DEF BundleSays, EvidenceSays, ArchiveSays
  <2>2. {report'[f].signature.key : f \in {"evidence", "archive", "bundle"}} = {me.signer.key}
    BY <1>10, <2>1
  <2>3. QED
    BY <2>2, FS_Singleton
<1>12. Documents!ReportIsOfOneSession'
  <2>1. Documents!Cardinality({report'[f].signature.key : f \in {"evidence", "archive", "bundle"}}) = 1
    BY <1>11, CountAgrees
  <2>2. /\ \E d \in statements' : d.file = report'.evidence
        /\ \E d \in bound' : d.file = report'.archive
        /\ \E d \in bundles' : d.file = report'.bundle
    BY <1>1, <1>2, <1>10
  <2>3. /\ report'.evidence.manifest = me /\ report'.archive.manifest = ma /\ report'.bundle.manifest = mb
        /\ report'.expected = expected
    BY <1>10
  <2>4. LET m == report'.evidence.manifest  c == report'.archive.manifest  x == report'.expected
        IN /\ c.evidence.manifest = m /\ c.events = Documents!Last(m.artifacts.journal).head
           /\ Documents!Last(c.events).session = x.session
           /\ \A n \in 1..Len(c.events) : c.events[n].at <= m.stateAt /\ c.events[n].profile = x.profile
           /\ m.stateAt <= m.at /\ m.at <= c.at
    BY <1>7, <1>8, <2>3
  <2>5. LET m == report'.evidence.manifest  r == report'.bundle.manifest
        IN /\ \A n \in 1..Len(m.artifacts.journal) : m.artifacts.journal[n].signer.key # m.signer.key
           /\ \A q \in m.artifacts.recovery : q.release = r /\ q.at <= m.stateAt
    BY <1>8, <2>3
  <2>6. LET r == report'.bundle.manifest
        IN /\ \A f \in r.files : f.role = "test-summary" => /\ f.content.passed /\ f.content.commit = r.release.commit
                                                          /\ f.content.at <= r.release.at
           /\ {f.path : f \in r.files} = DOMAIN Documents!RoleOf
    BY <1>9, <2>3
  <2>7. QED
    BY <2>1, <2>2, <2>4, <2>5, <2>6 DEF Documents!ReportIsOfOneSession
<1>13. EvidenceNumbered' /\ \A x \in bound' : ArchiveKept(x)'
  BY <1>1 DEF DocumentsInv, EvidenceNumbered, ArchiveKept
<1>14. QED
  BY <1>1, <1>12, <1>13 DEF DocumentsInv

\* Every step keeps what was signed verifiable and what is believed true.
LEMMA DocumentsStepKeep ==
  DocumentsInv /\ [Documents!ArchivesNext]_documents => DocumentsInv'
<1> SUFFICES ASSUME DocumentsInv, [Documents!ArchivesNext]_documents PROVE DocumentsInv'
  OBVIOUS
<1>1. CASE Documents!ArchivesNext
  BY <1>1, SignBundleKeeps, SignEvidenceKeeps, SignArchiveKeeps, VerifyRecoveryKeeps DEF Documents!ArchivesNext
<1>2. CASE UNCHANGED documents
  <2>1. bundles' = bundles /\ statements' = statements /\ bound' = bound /\ report' = report
    BY <1>2 DEF documents
  <2>2. Documents!ReportIsOfOneSession'
    BY <2>1, BelievedStays DEF DocumentsInv
  <2>3. QED
    BY <2>1, <2>2 DEF DocumentsInv, EvidenceNumbered, ArchiveKept
<1>3. QED
  BY <1>1, <1>2

\* The run is of one of the parts; nothing is rebuilt in another than the recovery set.
EvidenceInv ==
  /\ scope = "contents" => RecoveryInv
  /\ scope # "contents" => target = <<>>
  /\ DocumentsInv

\* A rebuilt store is the history that its evidence vouches for, a report of verified
\* recovery artifacts is of one session, release and key with every file as it was signed,
\* and whatever was signed can be verified: of createSanitizedStateEvidence,
\* createSanitizedEventArchive, importSanitizedEventArchiveToEmptyStore, the release bundle
\* and verifySessionRecoveryArtifacts, whatever an operator mixes up.
THEOREM DocumentsStayVouchedFor == MCSpec => []VouchedFor
<1>1. MCInit => EvidenceInv
  BY RecoveryInitially, DocumentsInitially DEF MCInit, EvidenceInv, RecoveryInit
<1>2. EvidenceInv /\ [MCNext]_<<setVars, anchors, published, scope>> => EvidenceInv'
  <2> SUFFICES ASSUME EvidenceInv, [MCNext]_<<setVars, anchors, published, scope>> PROVE EvidenceInv'
    OBVIOUS
  <2>1. scope' = scope
    BY DEF MCNext
  <2>2. DocumentsInv'
    <3>1. Documents!ArchivesNext \/ UNCHANGED documents
      BY DEF MCNext, published
    <3>2. QED
      BY <3>1, DocumentsStepKeep DEF EvidenceInv
  <2>3. CASE scope = "contents"
    <3>1. RecoveryNext \/ UNCHANGED setVars
      BY <2>3 DEF MCNext
    <3>2. QED
      BY <2>1, <2>2, <2>3, <3>1, RecoveryStepKeeps DEF EvidenceInv
  <2>4. CASE scope # "contents"
    <3>1. UNCHANGED recoveryVars
      BY <2>4 DEF MCNext, setVars
    <3>2. target' = target
      BY <3>1 DEF recoveryVars
    <3>3. QED
      BY <2>1, <2>2, <2>4, <3>2 DEF EvidenceInv
  <2>5. QED
    BY <2>3, <2>4
<1>3. EvidenceInv => VouchedFor
  <2> SUFFICES ASSUME EvidenceInv PROVE VouchedFor
    OBVIOUS
  <2>1. RebuiltAsVouched
    BY RecoveryShows DEF EvidenceInv, RebuiltAsVouched
  <2>2. Documents!ReportIsOfOneSession
    BY DEF EvidenceInv, DocumentsInv
  <2>3. Documents!SignedVerifies
    BY DEF EvidenceInv, DocumentsInv, BundleKept, EvidenceKept, ArchiveKept, Documents!SignedVerifies
  <2>4. QED
    BY <2>1, <2>2, <2>3 DEF VouchedFor
<1>4. QED
  BY <1>1, <1>2, <1>3, PTL DEF MCSpec

=============================================================================
