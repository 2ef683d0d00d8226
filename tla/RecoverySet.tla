----------------------------- MODULE RecoverySet -----------------------------
(***************************************************************************)
(* What is needed to rebuild a lost event store: signed state evidence     *)
(* (backup), the archive of the events bound to it (event-archive), their  *)
(* retained receipts, and the import into an empty store.  An operator     *)
(* exports journal, state and events of a running store one after the      *)
(* other, may mix up what was exported, created or retained at different   *)
(* moments, and store and journal may have been put back in between.       *)
(*                                                                         *)
(* A signed manifest is a record; its digest and its id are the record.    *)
(***************************************************************************)
EXTENDS CheckpointJournal, FiniteSets

CONSTANTS
  Sessions,       \* session ids; an event's content is [session, at]
  Releases,       \* digests of release manifests
  MaxEvidence,    \* bound: evidence created
  MaxArchives     \* bound: archives created

VARIABLES
  exported,       \* what the operator holds: [journal, rows (of the state), events]
  evidence,       \* state evidence that was signed
  archives,       \* event archives that were signed
  target,         \* the rows of the store that is rebuilt
  trusted         \* the companion evidence its import was given

recoveryVars == <<exported, evidence, archives, target, trusted>>
setVars == <<checkpointVars, recoveryVars>>

NothingExported == [journal |-> <<>>, rows |-> <<>>, events |-> <<>>]

RecoveryInit ==
  /\ CheckpointInit
  /\ exported = NothingExported /\ evidence = {} /\ archives = {} /\ target = <<>> /\ trusted = None

-----------------------------------------------------------------------------
(* The running store. *)

RecordEvent(r) ==
  /\ AppendEvent(r)
  /\ UNCHANGED <<journalVars, recoveryVars>>

\* A signer's append from beginning to end.
Checkpoint(t) ==
  /\ JournalChain(journal) /\ Len(journal) < MaxEntries /\ Signable(t)
  /\ journal' = Append(journal, Entry(t))
  /\ UNCHANGED <<storeVars, torn, lock, signer, retained, reader, verdict, faults, recoveryVars>>

PutBack == Restore /\ UNCHANGED recoveryVars

Export(part, value) ==
  /\ exported' = [exported EXCEPT ![part] = value]
  /\ UNCHANGED <<checkpointVars, evidence, archives, target, trusted>>

ExportStep == Export("journal", journal) \/ Export("rows", log) \/ Export("events", log)

-----------------------------------------------------------------------------
(* backup. *)

\* validateCheckpointJournal: signed entries that chain, none later than the
\* session's state, the last one naming exactly the exported state.
JournalFits(entries, rows, stateAt) ==
  /\ entries # <<>> /\ JournalChain(entries)
  /\ \A n \in 1..Len(entries) : entries[n].at <= stateAt
  /\ entries[Len(entries)].head = Len(rows)
  /\ entries[Len(entries)].hash = HeadHash(rows)

\* The signed manifest, which is also its receipt and the archives' companion.
Evidence(session, stateAt, now, release) ==
  [session |-> session, stateAt |-> stateAt, createdAt |-> now, release |-> release,
   count |-> Len(exported.rows), hash |-> HeadHash(exported.rows), journal |-> exported.journal]

\* createSanitizedStateEvidence.
CreateEvidence(session, stateAt, now, release) ==
  /\ Cardinality(evidence) < MaxEvidence
  /\ JournalFits(exported.journal, exported.rows, stateAt) /\ now >= stateAt
  /\ evidence' = evidence \cup {Evidence(session, stateAt, now, release)}
  /\ UNCHANGED <<checkpointVars, exported, archives, target, trusted>>

-----------------------------------------------------------------------------
(* event-archive. *)

Session(row) == row.content.session

\* validateEventChain.
ChainFits(events, e) ==
  /\ events # <<>> /\ Len(events) = e.count /\ StoreIntact(events)
  /\ \A m, n \in 1..Len(events) : m # n => events[m].id # events[n].id /\ events[m].key # events[n].key
  /\ \A n \in 1..Len(events) : events[n].content.at <= e.stateAt
  /\ Session(events[Len(events)]) = e.session
  /\ HeadHash(events) = e.hash

Archive(events, e, now) ==
  [events |-> events, evidenceHash |-> e, createdAt |-> now,
   session |-> e.session, stateAt |-> e.stateAt, release |-> e.release]

\* createSanitizedEventArchive.
CreateArchive(e, now) ==
  /\ Cardinality(archives) < MaxArchives
  /\ ChainFits(exported.events, e)
  /\ now >= e.createdAt /\ now >= exported.events[Len(exported.events)].content.at
  /\ archives' = archives \cup {Archive(exported.events, e, now)}
  /\ UNCHANGED <<checkpointVars, exported, evidence, target, trusted>>

\* verifyEventArchiveBytes: the file against a retained receipt and the evidence
\* that is retained beside it.
ArchiveFits(file, receipt, e) ==
  /\ file = receipt
  /\ file.evidenceHash = e
  /\ file.session = e.session /\ file.release = e.release /\ file.createdAt >= e.createdAt
  /\ ChainFits(file.events, e)

\* The rows an empty store has after the archived events were appended to it.
Rebuilt(events) ==
  LET rows[n \in 0..Len(events)] ==
        IF n = 0 THEN <<>>
        ELSE Append(rows[n - 1], Row(rows[n - 1], [id |-> events[n].id, key |-> events[n].key,
                                                   content |-> events[n].content]))
  IN rows[Len(events)]

\* importSanitizedEventArchiveToEmptyStore: in one exclusive transaction, each row
\* compared with the archived one.
Import(file, receipt, e) ==
  /\ ArchiveFits(file, receipt, e)
  /\ target = <<>> /\ Rebuilt(file.events) = file.events
  /\ target' = Rebuilt(file.events) /\ trusted' = e
  /\ UNCHANGED <<checkpointVars, exported, evidence, archives>>

-----------------------------------------------------------------------------
RecoveryNext ==
  \/ \E r \in Requests : RecordEvent(r)
  \/ \E t \in Times : Checkpoint(t)
  \/ PutBack \/ ExportStep
  \/ \E s \in Sessions, stateAt, now \in Times, release \in Releases :
       CreateEvidence(s, stateAt, now, release)
  \/ \E e \in evidence, now \in Times : CreateArchive(e, now)
  \/ \E file, receipt \in archives, e \in evidence : Import(file, receipt, e)

RecoverySpec == RecoveryInit /\ [][RecoveryNext]_setVars

-----------------------------------------------------------------------------
(* How each of these files reaches the disk, which its contents do not depend on. *)

CONSTANTS
  Publications, Hosts, Payloads, MaxMishaps, MaxWaits   \* of ArchivePublication

VARIABLES
  kind, dirSync, temp, bytes, synced, destination, entrySynced, active, call, acknowledged, deleted,
  access, results, restore, mishaps, powerLost, outage

Disk == INSTANCE ArchivePublication WITH MaxFaults <- MaxMishaps, faults <- mishaps, reader <- access

ASSUME NoPublicationAssumption == None \notin Publications

-----------------------------------------------------------------------------
(* Properties. *)

\* A rebuilt store is the history its trusted evidence vouches for: it has every
\* event that any checkpoint of the evidence's journal names, ends with the last
\* of them, which is the session's, and holds nothing later than the session's
\* state, whatever was exported at different moments, put back or mixed up.
RebuiltAsVouched ==
  target # <<>> =>
    /\ \A n \in 1..Len(trusted.journal) : Contains(target, trusted.journal[n])
    /\ Len(target) = trusted.journal[Len(trusted.journal)].head
    /\ Session(target[Len(target)]) = trusted.session
    /\ \A n \in 1..Len(target) : target[n].content.at <= trusted.stateAt
    /\ NamesAreUnique

\* Whatever dies, fails or loses power: a reader gets whole bytes or nothing, a receipt
\* stands for synced bytes and, where directories can be synced, for a name that a loss
\* of power leaves; a restore that was reported left every file whole until a loss of
\* power takes its directory, whose own name is never synced.
WholeOrAbsent == Disk!PublishedWhole /\ Disk!RestoredWhole

=============================================================================
