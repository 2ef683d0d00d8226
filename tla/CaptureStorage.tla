--------------------------- MODULE CaptureStorage ---------------------------
(***************************************************************************)
(* Encrypted ephemeral captures: the vault of packages/vault (a directory  *)
(* with up to five artifact files per capture), the capture registry of    *)
(* packages/capture-registry (SQLite), and the two callers that keep them  *)
(* together: the ingestion of packages/ingestion, which captures a         *)
(* response and commits it to the registry, and recoverCaptureStorage, the *)
(* repair every host runs before it does anything else.                    *)
(*                                                                         *)
(* A vault operation is a plan, a sequence of publications and removals of *)
(* artifacts.  Each is durable before the next one starts, and a crash or  *)
(* an I/O error may hit any of them at any point.  A publication writes a  *)
(* temporary file, links it to its name and unlinks it: hit half way, it   *)
(* leaves the temporary, alone or as a second link of the artifact, which  *)
(* the vault refuses to touch until a recovery has taken the temporary     *)
(* away.  The vault runs one operation at a time (job).  A registry        *)
(* operation is one SQLite transaction, hence one action.  Clock readings  *)
(* are arbitrary: the wall clock may run backwards.                        *)
(***************************************************************************)
EXTENDS Naturals, Sequences, FiniteSets, TLC

CONSTANTS
  Attempts,   \* capture attempts; each attempt id is used for one collection
  Captures,   \* capture ids, allocated at random and never twice
  MaxRecords, \* rows the registry holds at most
  MaxTime,    \* bound: wall clock readings
  None        \* no receipt, no attempt, no entry

ASSUME TimeAssumption == MaxTime \in Nat
ASSUME RecordsAssumption == MaxRecords \in Nat \ {0}
ASSUME NoneAssumption == None \notin Attempts \cup Captures \cup Nat

Times == 0..MaxTime

VARIABLES
  vault,       \* the artifacts of each capture, with the receipts two of them hold
  meta,        \* the metadata each capture was acquired with
  registry,    \* the registry entry of each attempt
  nextSequence,\* the sequence number of the next row of the registry
  job,         \* the vault operation that is running
  owner,       \* in memory: what the code that owns each attempt is doing
  phase,       \* in memory: how far the host's storage recovery is
  recoveredAt  \* in memory: the time that recovery was given

store == <<registry, nextSequence>>
vars == <<vault, meta, store, job, owner, phase, recoveredAt>>
durable == <<vault, meta, store>>

-----------------------------------------------------------------------------
(* Artifacts and plans. *)

Artifacts == {"creating", "body", "dek", "deleting", "deleted"}
Empty == [files |-> {}, temporaries |-> {}, intent |-> None, tombstone |-> None]

Publish(k) == <<"publish", k>>
Remove(k) == <<"remove", k>>

\* The artifacts v after one step; r is the receipt of the running deletion.
\* The tombstone repeats the receipt of the intent, whoever asked for it.
After(v, step, r) ==
  [v EXCEPT
     !.files = IF step[1] = "publish" THEN @ \cup {step[2]} ELSE @ \ {step[2]},
     !.intent = CASE step = Publish("deleting") -> r
                  [] step = Remove("deleting") -> None
                  [] OTHER -> @,
     !.tombstone = IF step = Publish("deleted") THEN v.intent ELSE @]

\* An artifact that still shares its inode with a temporary is not read, and
\* nothing is done to the capture it belongs to.
Settled(v) == v.temporaries \cap v.files = {}

\* What an error or a crash leaves of a step: nothing, all of it, or, of a
\* publication, the temporary, alone or as a second link of the artifact.
\* Bound: a capture has one temporary left over at a time.
Cut(v, step, r) ==
  IF ~Settled(v) THEN {v}
  ELSE {v, After(v, step, r)} \cup
       (IF step[1] = "remove" \/ v.temporaries # {} THEN {}
        ELSE {[v EXCEPT !.temporaries = {"loose"}],
              [After(v, step, r) EXCEPT !.temporaries = {step[2]}]})

\* A removal is skipped when its artifact does not exist.
RemoveThen(v, k, rest) == IF k \in v.files THEN <<Remove(k)>> \o rest ELSE rest

CapturePlan == <<Publish("creating"), Publish("body"), Publish("dek"), Remove("creating")>>
DiscardPlan(v) ==
  IF "creating" \in v.files
  THEN RemoveThen(v, "dek", RemoveThen(v, "body", <<Remove("creating")>>)) ELSE <<>>

CleanupPlan(v) == RemoveThen(v, "dek", RemoveThen(v, "body", RemoveThen(v, "deleting", <<>>)))
CompletionPlan(v) ==
  RemoveThen(v, "dek", <<Publish("deleted")>> \o
    RemoveThen(v, "body", RemoveThen(v, "deleting", <<>>)))

DeletePlan(v) ==
  IF "deleted" \in v.files THEN CleanupPlan(v)
  ELSE IF "deleting" \in v.files THEN CompletionPlan(v)
  ELSE <<Publish("deleting")>> \o CompletionPlan([v EXCEPT !.files = @ \cup {"deleting"}])

\* Mutant: a half-deleted capture is left for its owner.
RecoverPlan_Lazy(v) ==
  IF "creating" \in v.files THEN DiscardPlan(v)
  ELSE IF "deleted" \in v.files THEN CleanupPlan(v)
  ELSE IF v.files = {"body"} THEN <<Remove("body")>>
  ELSE <<>>

RecoverPlan(v) ==
  IF "creating" \in v.files THEN DiscardPlan(v)
  ELSE IF "deleted" \in v.files THEN CleanupPlan(v)
  ELSE IF "deleting" \in v.files THEN CompletionPlan(v)
  ELSE IF v.files = {"body"} THEN <<Remove("body")>>
  ELSE <<>>

\* What recover() refuses as an integrity error.
Damaged(v) ==
  \/ "creating" \in v.files /\ v.files \cap {"deleting", "deleted"} # {}
  \/ {"deleting", "deleted"} \subseteq v.files /\ v.intent # v.tombstone
  \/ v.files = {"dek"}

Readable(v) == v.files = {"body", "dek"}
Active(v) == "dek" \in v.files

-----------------------------------------------------------------------------
(* Registry entries. *)

State(a) == IF registry[a] = None THEN "absent" ELSE registry[a].state
Committed == {a \in Attempts : State(a) = "committed"}
CommittedCaptures == {registry[a].capture : a \in Committed}
Orphans == {c \in Captures : Active(vault[c]) /\ c \notin CommittedCaptures}

PendingEntry(t, e) ==
  [state |-> "pending", begunAt |-> t, expiresAt |-> e, capture |-> None,
   committedAt |-> None, removal |-> None, sequence |-> nextSequence]
CommittedEntry(a, c, t) ==
  [registry[a] EXCEPT !.state = "committed", !.capture = c, !.committedAt = t]

\* Removing an entry destroys its key: of what it said only the capture that a
\* deletion receipt names is left.
RemovedEntry(a, r) ==
  [state |-> "removed", begunAt |-> None, expiresAt |-> None, committedAt |-> None,
   capture |-> registry[a].capture, removal |-> r, sequence |-> registry[a].sequence]

\* A purged entry has no row; only its attempt id stays used up.
PurgedEntry ==
  [state |-> "purged", begunAt |-> None, expiresAt |-> None, committedAt |-> None,
   capture |-> None, removal |-> None, sequence |-> None]
Rows == {a \in Attempts : State(a) \notin {"absent", "purged"}}

\* The window of an attempt, and a commit inside it.
RecordSound(entry) ==
  /\ entry.begunAt < entry.expiresAt
  /\ entry.state = "committed" =>
       entry.begunAt <= entry.committedAt /\ entry.committedAt <= entry.expiresAt

\* A row that still has its key decrypts to a sound record, which names a capture
\* when it is committed.
SensitiveRowSound(entry) ==
  RecordSound(entry) /\ (entry.state = "pending" <=> entry.capture = None)

\* The row of a removed attempt says no more than when and why.
TombstoneSound(entry) ==
  /\ {entry.begunAt, entry.expiresAt, entry.committedAt} = {None}
  /\ entry.removal # None
  /\ entry.removal.reason = "pending" <=> entry.capture = None

RowSound(entry) ==
  /\ entry.sequence >= 1
  /\ IF entry.state = "removed" THEN TombstoneSound(entry) ELSE SensitiveRowSound(entry)

\* What opening the registry and each of its transactions check of all rows.
VerifyIntegrity ==
  /\ Cardinality(Rows) <= MaxRecords
  /\ \A a \in Rows :
       /\ RowSound(registry[a]) /\ registry[a].sequence < nextSequence
       /\ \A b \in Rows \ {a} : registry[b].sequence # registry[a].sequence

CaptureOf(a) == CHOOSE c \in Captures : meta[c] # None /\ meta[c].attempt = a
Receipt(t, why) == [at |-> t, reason |-> why]

-----------------------------------------------------------------------------
(* The vault's operation queue. *)

NoJob == [kind |-> "none", attempt |-> None, capture |-> None,
          todo |-> <<>>, left |-> {}, receipt |-> None]
JobOn(kind, a, c, plan, r) ==
  [kind |-> kind, attempt |-> a, capture |-> c, todo |-> plan, left |-> {}, receipt |-> r]
Batch(kind, S, r) == [NoJob EXCEPT !.kind = kind, !.left = S, !.receipt = r]
VaultFree == job = NoJob
Ready == phase = "ready"

Init ==
  /\ vault = [c \in Captures |-> Empty]
  /\ meta = [c \in Captures |-> None]
  /\ registry = [a \in Attempts |-> None] /\ nextSequence = 1
  /\ job = NoJob
  /\ owner = [a \in Attempts |-> "idle"]
  /\ phase = "closed" /\ recoveredAt = 0

JobStep ==
  /\ job.todo # <<>> /\ Settled(vault[job.capture])
  /\ vault' = [vault EXCEPT ![job.capture] = After(@, Head(job.todo), job.receipt)]
  /\ job' = [job EXCEPT !.todo = Tail(@)]
  /\ UNCHANGED <<meta, store, owner, phase, recoveredAt>>

\* The running operation fails and leaves v.  A failed creation discards what it
\* published, best effort; any other operation gives up where it stands.
JobAborts(v) ==
  /\ vault' = [vault EXCEPT ![job.capture] = v]
  /\ IF job.kind = "capture" /\ job.todo # CapturePlan
     THEN /\ job' = [job EXCEPT !.kind = "discard", !.todo = DiscardPlan(v)]
          /\ UNCHANGED <<owner, phase>>
     ELSE /\ job' = NoJob
          /\ owner' = [a \in Attempts |-> IF a = job.attempt THEN "over" ELSE owner[a]]
          /\ phase' = IF job.kind \in {"recover", "reconcile"} THEN "boot" ELSE phase
  /\ UNCHANGED <<meta, store, recoveredAt>>

\* An I/O error, before, during or after the step.
JobStepFails ==
  /\ job.todo # <<>> /\ Settled(vault[job.capture])
  /\ \E v \in Cut(vault[job.capture], Head(job.todo), job.receipt) : JobAborts(v)

JobRefused ==
  /\ job.todo # <<>> /\ ~Settled(vault[job.capture])
  /\ JobAborts(vault[job.capture])

\* A finished operation answers the owner that asked for it.
JobDone(a) ==
  /\ job.attempt = a /\ job.todo = <<>>
  /\ job' = NoJob
  /\ owner' = [owner EXCEPT ![a] = IF job.kind = "capture" THEN "captured"
                                   ELSE IF job.kind = "discard" \/ owner[a] = "shredding" THEN "over"
                                   ELSE "deleted"]
  /\ UNCHANGED <<durable, phase, recoveredAt>>

-----------------------------------------------------------------------------
(* Ingestion of one response. *)

\* beginAttempt, bound before any egress.
Begin(a, t, e) ==
  /\ Ready /\ State(a) = "absent" /\ owner[a] = "idle"
  /\ t < e /\ Cardinality(Rows) < MaxRecords
  /\ nextSequence' = nextSequence + 1
  /\ registry' = [registry EXCEPT ![a] = PendingEntry(t, e)]
  /\ owner' = [owner EXCEPT ![a] = "collecting"]
  /\ UNCHANGED <<vault, meta, job, phase, recoveredAt>>

\* No response, or one outside the window of the attempt.
CollectionFails(a) ==
  /\ owner[a] = "collecting"
  /\ owner' = [owner EXCEPT ![a] = "over"]
  /\ UNCHANGED <<durable, job, phase, recoveredAt>>

StartCapture(a, c, t) ==
  /\ owner[a] = "collecting" /\ VaultFree /\ meta[c] = None
  /\ registry[a].begunAt <= t /\ t <= registry[a].expiresAt
  /\ meta' = [meta EXCEPT ![c] = [attempt |-> a, acquiredAt |-> t,
                                  expiresAt |-> registry[a].expiresAt]]
  /\ job' = JobOn("capture", a, c, CapturePlan, None)
  /\ owner' = [owner EXCEPT ![a] = "capturing"]
  /\ UNCHANGED <<vault, store, phase, recoveredAt>>

InWindow(a, t) == meta[CaptureOf(a)].acquiredAt <= t /\ t <= registry[a].expiresAt

\* Mutant: an unreadable outcome is taken for a failed commit.
Commit_Optimistic(a, t) ==
  /\ owner[a] = "captured"
  /\ \/ /\ InWindow(a, t)
        /\ registry' = [registry EXCEPT ![a] = CommittedEntry(a, CaptureOf(a), t)]
        /\ owner' = [owner EXCEPT ![a] = "held"]
     \/ /\ owner' = [owner EXCEPT ![a] = "uncommitted"]
        /\ registry' \in {registry, [registry EXCEPT ![a] = CommittedEntry(a, CaptureOf(a), t)]}
  /\ UNCHANGED <<vault, meta, nextSequence, job, phase, recoveredAt>>

\* commitCapture: done; failed and known to have failed, also when the commit
\* time is outside the window; or failed, with or without effect, and the
\* registry unreadable, so that the capture must be kept.
Commit(a, t) ==
  LET done == [registry EXCEPT ![a] = CommittedEntry(a, CaptureOf(a), t)] IN
  /\ owner[a] = "captured"
  /\ \/ /\ InWindow(a, t)
        /\ registry' = done
        /\ owner' = [owner EXCEPT ![a] = "held"]
     \/ /\ owner' = [owner EXCEPT ![a] = "uncommitted"]
        /\ UNCHANGED registry
     \/ /\ InWindow(a, t)
        /\ registry' \in {registry, done}
        /\ owner' = [owner EXCEPT ![a] = "over"]
  /\ UNCHANGED <<vault, meta, nextSequence, job, phase, recoveredAt>>

\* deleteUncommittedCapture, as of the acquisition.
Shred(a) ==
  LET c == CaptureOf(a) IN
  /\ owner[a] = "uncommitted" /\ VaultFree
  /\ job' = JobOn("delete", a, c, DeletePlan(vault[c]), Receipt(meta[c].acquiredAt, "explicit"))
  /\ owner' = [owner EXCEPT ![a] = "shredding"]
  /\ UNCHANGED <<durable, phase, recoveredAt>>

-----------------------------------------------------------------------------
(* The end of a committed capture. *)

\* The owner, in this process or in a later one, returns to its capture.
Resume(a) ==
  /\ Ready /\ State(a) = "committed" /\ owner[a] \in {"idle", "over"}
  /\ owner' = [owner EXCEPT ![a] = "held"]
  /\ UNCHANGED <<durable, job, phase, recoveredAt>>

\* The result's completion time: a clock reading, but not before the commit.
DeletionTime(a, t) ==
  IF t < registry[a].committedAt THEN registry[a].committedAt ELSE t

StartDelete(a, t) ==
  LET c == registry[a].capture IN
  /\ owner[a] = "held" /\ VaultFree
  /\ job' = JobOn("delete", a, c, DeletePlan(vault[c]), Receipt(DeletionTime(a, t), "explicit"))
  /\ owner' = [owner EXCEPT ![a] = "deleting"]
  /\ UNCHANGED <<durable, phase, recoveredAt>>

\* recordVerifiedDeletion accepts receipts no older than the commit.
Acceptable(a, r) == registry[a].committedAt <= r.at

\* recordVerifiedDeletion with the receipt the vault answered; an error may
\* come after the transaction, from the compaction.
RecordDeletion(a) ==
  LET r == vault[registry[a].capture].tombstone IN
  /\ owner[a] = "deleted"
  /\ owner' = [owner EXCEPT ![a] = "over"]
  /\ registry' \in {registry} \cup
       (IF Acceptable(a, r) THEN {[registry EXCEPT ![a] = RemovedEntry(a, r)]} ELSE {})
  /\ UNCHANGED <<vault, meta, nextSequence, job, phase, recoveredAt>>

\* removePendingAttempt, by an owner that has given up.
RemovePending(a, t) ==
  /\ owner[a] = "over" /\ State(a) = "pending"
  /\ t >= registry[a].begunAt
  /\ registry' = [registry EXCEPT ![a] = RemovedEntry(a, Receipt(t, "pending"))]
  /\ UNCHANGED <<vault, meta, nextSequence, job, owner, phase, recoveredAt>>

\* purgeRemoved: the oldest of the removed rows that are old enough, a bounded
\* number of them.
PurgeRemoved(t) ==
  LET eligible == {a \in Attempts : State(a) = "removed" /\ registry[a].removal.at <= t} IN
  /\ Ready
  /\ \E S \in SUBSET eligible \ {{}} :
       /\ \A a \in S, b \in eligible \ S : registry[a].sequence < registry[b].sequence
       /\ registry' = [a \in Attempts |-> IF a \in S THEN PurgedEntry ELSE registry[a]]
  /\ UNCHANGED <<vault, meta, nextSequence, job, owner, phase, recoveredAt>>

\* sweepExpired: one pass over the captures with a key.
StartSweep(t) ==
  /\ Ready /\ VaultFree /\ \E c \in Captures : Active(vault[c])
  /\ job' = Batch("sweep", {c \in Captures : Active(vault[c])}, Receipt(t, "expired"))
  /\ UNCHANGED <<durable, owner, phase, recoveredAt>>

\* The sweep reaches capture c; a capture that is half created or half deleted
\* fails the whole sweep.
SweepNext(c) ==
  /\ job.kind = "sweep" /\ job.todo = <<>> /\ c \in job.left
  /\ job' = IF ~Readable(vault[c]) THEN NoJob
            ELSE [job EXCEPT !.capture = c, !.left = @ \ {c},
                    !.todo = IF meta[c].expiresAt <= job.receipt.at
                             THEN DeletePlan(vault[c]) ELSE <<>>]
  /\ UNCHANGED <<durable, owner, phase, recoveredAt>>

SweepDone ==
  /\ job.kind = "sweep" /\ job.todo = <<>> /\ job.left = {}
  /\ job' = NoJob
  /\ UNCHANGED <<durable, owner, phase, recoveredAt>>

-----------------------------------------------------------------------------
(* recoverCaptureStorage. *)

\* The host opens its storage; the registry is checked as a whole.
Open ==
  /\ phase = "closed"
  /\ phase' = IF VerifyIntegrity THEN "boot" ELSE "corrupt"
  /\ UNCHANGED <<durable, job, owner, recoveredAt>>

\* At boot, or from a process none of whose attempts is being ingested.
StartRecovery(t) ==
  /\ \/ phase = "boot"
     \/ Ready /\ \A a \in Attempts : owner[a] \in {"idle", "over"}
  /\ VaultFree
  /\ phase' = "vault" /\ recoveredAt' = t
  /\ job' = Batch("recover", {c \in Captures : vault[c].files # {}}, None)
  /\ UNCHANGED <<durable, owner>>

\* vault.recover removes the temporaries before it looks at a capture; one that
\* cannot be removed ends it.
RemoveTemporary(c, k) ==
  /\ job.kind = "recover" /\ job.todo = <<>> /\ k \in vault[c].temporaries
  /\ vault' = [vault EXCEPT ![c].temporaries = @ \ {k}]
  /\ UNCHANGED <<meta, store, job, owner, phase, recoveredAt>>

TemporaryStays(c) ==
  /\ job.kind = "recover" /\ job.todo = <<>> /\ vault[c].temporaries # {}
  /\ job' = NoJob /\ phase' = "boot"
  /\ UNCHANGED <<durable, owner, recoveredAt>>

IoError == JobStepFails \/ \E c \in Captures : TemporaryStays(c)

\* vault.recover reaches capture c.
RecoverNext(c) ==
  /\ job.kind = "recover" /\ job.todo = <<>> /\ c \in job.left
  /\ \A d \in Captures : vault[d].temporaries = {}
  /\ IF Damaged(vault[c])
     THEN job' = NoJob /\ phase' = "corrupt"
     ELSE /\ job' = [job EXCEPT !.capture = c, !.left = @ \ {c}, !.todo = RecoverPlan(vault[c])]
          /\ UNCHANGED phase
  /\ UNCHANGED <<durable, owner, recoveredAt>>

RecoverDone ==
  /\ job.kind = "recover" /\ job.todo = <<>> /\ job.left = {}
  /\ \A d \in Captures : vault[d].temporaries = {}
  /\ job' = NoJob /\ phase' = "pending"
  /\ UNCHANGED <<durable, owner, recoveredAt>>

\* recoverPendingAttempts: one bounded batch, after a check of all of them.
RecoverPending ==
  LET pending == {a \in Attempts : State(a) = "pending"} IN
  /\ phase = "pending"
  /\ IF \E a \in pending : recoveredAt < registry[a].begunAt
     THEN phase' = "boot" /\ UNCHANGED registry
     ELSE \E S \in SUBSET pending :
            /\ S = {} => pending = {}
            /\ \A a \in S, b \in pending \ S : registry[a].sequence < registry[b].sequence
            /\ registry' = [a \in Attempts |-> IF a \in S
                              THEN RemovedEntry(a, Receipt(recoveredAt, "pending"))
                              ELSE registry[a]]
            /\ phase' = IF S = pending THEN "repair" ELSE phase
  /\ UNCHANGED <<vault, meta, nextSequence, job, owner, recoveredAt>>

\* A committed capture that is gone must have a tombstone, whose receipt the
\* registry missed.
Repair(a) ==
  LET v == vault[registry[a].capture] IN
  /\ phase = "repair" /\ a \in Committed /\ ~Readable(v)
  /\ \/ /\ v.tombstone = None
        /\ phase' = "corrupt" /\ UNCHANGED registry
     \/ /\ v.tombstone # None /\ ~Acceptable(a, v.tombstone)
        /\ phase' = "boot" /\ UNCHANGED registry
     \/ /\ v.tombstone # None /\ Acceptable(a, v.tombstone)
        /\ registry' = [registry EXCEPT ![a] = RemovedEntry(a, v.tombstone)]
        /\ UNCHANGED phase
  /\ UNCHANGED <<vault, meta, nextSequence, job, owner, recoveredAt>>

\* The metadata of every readable committed capture agrees with its entry.
MetadataAgrees(a) ==
  LET m == meta[registry[a].capture] IN
  /\ m.expiresAt = registry[a].expiresAt
  /\ registry[a].begunAt <= m.acquiredAt /\ m.acquiredAt <= registry[a].committedAt

VerifyCommitted ==
  /\ phase = "repair"
  /\ \A a \in Committed : Readable(vault[registry[a].capture])
  /\ phase' = IF \A a \in Committed : MetadataAgrees(a) THEN "reconcile" ELSE "corrupt"
  /\ UNCHANGED <<durable, job, owner, recoveredAt>>

\* Mutant: the repair ends without a look for orphans.
Reconcile_Skipped ==
  /\ phase = "reconcile" /\ VaultFree
  /\ phase' = "ready" /\ recoveredAt' = 0
  /\ UNCHANGED <<durable, job, owner>>

\* reconcileRegisteredCaptures checks everything before it deletes the first
\* orphan, a bounded batch at a time.
Reconcile ==
  /\ phase = "reconcile" /\ VaultFree
  /\ IF \E c \in CommittedCaptures : ~Readable(vault[c])
     THEN phase' = "corrupt" /\ UNCHANGED job
     ELSE IF \E c \in Orphans : ~Readable(vault[c]) \/ recoveredAt < meta[c].acquiredAt
     THEN phase' = "boot" /\ UNCHANGED job
     ELSE IF Orphans = {}
     THEN phase' = "ready" /\ UNCHANGED job
     ELSE /\ \E S \in SUBSET Orphans \ {{}} :
               job' = Batch("reconcile", S, Receipt(recoveredAt, "explicit"))
          /\ UNCHANGED phase
  /\ recoveredAt' = IF phase' = "reconcile" THEN recoveredAt ELSE 0
  /\ UNCHANGED <<durable, owner>>

ReconcileNext(c) ==
  /\ job.kind = "reconcile" /\ job.todo = <<>> /\ c \in job.left
  /\ job' = [job EXCEPT !.capture = c, !.left = @ \ {c}, !.todo = DeletePlan(vault[c])]
  /\ UNCHANGED <<durable, owner, phase, recoveredAt>>

ReconcileDone ==
  /\ job.kind = "reconcile" /\ job.todo = <<>> /\ job.left = {}
  /\ job' = NoJob
  /\ UNCHANGED <<durable, owner, phase, recoveredAt>>

\* The process ends at any point; the next one starts with the recovery.
Crash ==
  /\ phase' = "closed" /\ job' = NoJob
  /\ owner' = [a \in Attempts |-> "idle"]
  /\ recoveredAt' = 0
  /\ IF job.todo = <<>> THEN UNCHANGED vault
     ELSE \E v \in Cut(vault[job.capture], Head(job.todo), job.receipt) :
            vault' = [vault EXCEPT ![job.capture] = v]
  /\ UNCHANGED <<meta, store>>

Recovery ==
  \/ Open \/ JobStep \/ JobRefused
  \/ \E c \in Captures : \/ RecoverNext(c) \/ ReconcileNext(c)
                         \/ \E k \in Artifacts \cup {"loose"} : RemoveTemporary(c, k)
  \/ RecoverDone \/ RecoverPending \/ VerifyCommitted \/ Reconcile \/ ReconcileDone
  \/ \E a \in Attempts : Repair(a)

Next ==
  \/ Recovery
  \/ IoError
  \/ \E t \in Times : StartRecovery(t) \/ StartSweep(t) \/ PurgeRemoved(t)
  \/ \E c \in Captures : SweepNext(c)
  \/ SweepDone
  \/ \E a \in Attempts :
       \/ JobDone(a) \/ CollectionFails(a) \/ Shred(a) \/ Resume(a) \/ RecordDeletion(a)
       \/ \E t \in Times : \/ Commit(a, t) \/ StartDelete(a, t) \/ RemovePending(a, t)
                           \/ \E e \in Times : Begin(a, t, e)
                           \/ \E c \in Captures : StartCapture(a, c, t)
  \/ Crash

Spec == Init /\ [][Next]_vars
\* The host starts its recovery again until it succeeds, and the wall clock it
\* reads eventually has caught up with every recorded time.
FairSpec ==
  Spec /\ WF_vars(Recovery) /\ SF_vars(phase = "boot" /\ StartRecovery(MaxTime))

-----------------------------------------------------------------------------
(* Properties. *)

Receipts == [at : Nat, reason : {"explicit", "expired", "pending"}]
Contents == [files : SUBSET Artifacts, temporaries : SUBSET (Artifacts \cup {"loose"}), intent : Receipts \cup {None},
             tombstone : Receipts \cup {None}]
Metadata == [attempt : Attempts, acquiredAt : Nat, expiresAt : Nat]
Entry == [state : {"pending", "committed", "removed", "purged"}, begunAt : Nat \cup {None},
          expiresAt : Nat \cup {None}, capture : Captures \cup {None}, committedAt : Nat \cup {None},
          removal : Receipts \cup {None}, sequence : Nat \cup {None}]
Job == [kind : {"none", "capture", "discard", "delete", "recover", "sweep", "reconcile"},
        attempt : Attempts \cup {None}, capture : Captures \cup {None},
        todo : Seq({"publish", "remove"} \X Artifacts), left : SUBSET Captures,
        receipt : Receipts \cup {None}]

ASSUME NoRecordAssumption ==
  None \notin Receipts /\ None \notin Metadata /\ None \notin Entry

\* The shapes of the state, and that a receipt exists exactly as long as the
\* artifact that holds it.
TypeOK ==
  /\ vault \in [Captures -> Contents]
  /\ \A c \in Captures : /\ "deleting" \in vault[c].files <=> vault[c].intent # None
                         /\ "deleted" \in vault[c].files <=> vault[c].tombstone # None
  /\ meta \in [Captures -> Metadata \cup {None}]
  /\ registry \in [Attempts -> Entry \cup {None}] /\ nextSequence \in Nat
  /\ job \in Job
  /\ owner \in [Attempts -> {"idle", "collecting", "capturing", "captured", "uncommitted",
                            "shredding", "held", "deleting", "deleted", "over"}]
  /\ phase \in {"closed", "boot", "vault", "pending", "repair", "reconcile", "ready", "corrupt"}
  /\ recoveredAt \in Nat

\* No crash and no I/O error, wherever it hits, leaves artifacts or entries
\* that recoverCaptureStorage takes for damage.
NeverCorrupt == phase # "corrupt"

\* The receipt a deletion of v is committed to.
ReceiptOf(v) == IF v.tombstone # None THEN v.tombstone ELSE v.intent

\* A capture the registry references can be read, or a receipt of its deletion
\* survives which the registry will accept, so that no host is ever locked out.
CommittedAreHeld ==
  \A a \in Committed :
    LET v == vault[registry[a].capture]
    IN  Readable(v) \/ (ReceiptOf(v) # None /\ Acceptable(a, ReceiptOf(v)))

\* An entry says a capture was deleted only when its key is gone for good and
\* its tombstone says the same.
RemovalsAreTrue ==
  \A a \in Attempts :
    State(a) = "removed" /\ registry[a].capture # None =>
      LET v == vault[registry[a].capture]
      IN  ~Active(v) /\ v.tombstone = registry[a].removal

\* Registry and vault tell one story, although no transaction spans them: what
\* the registry holds is there or properly deleted, and what it calls deleted is
\* gone (Commit, RecordDeletion, RemovePending against the artifacts).
EntriesAreAccountedFor == TypeOK /\ VerifyIntegrity /\ CommittedAreHeld /\ RemovalsAreTrue

\* Wherever a crash or an I/O error hits, the vault and the registry stay a pair
\* that the recovery accepts and that tells one story.
CaptureIntegrity == NeverCorrupt /\ EntriesAreAccountedFor

\* Once a deletion of a capture is on record its receipt never changes,
\* whatever other deletion of it is asked for, and its key never comes back.
ReceiptsAreFinal ==
  [][\A c \in Captures :
       ReceiptOf(vault[c]) # None =>
         /\ ReceiptOf(vault'[c]) = ReceiptOf(vault[c])
         /\ Active(vault'[c]) => Active(vault[c])]_vars

\* A host gets past its recovery only with the vault and the registry in step:
\* a key for each committed entry and no other, nothing half done.
ReadyMeansReconciled ==
  [][phase # "ready" /\ phase' = "ready" =>
       /\ {c \in Captures : Active(vault[c])} = CommittedCaptures
       /\ \A c \in CommittedCaptures : Readable(vault[c])
       /\ \A c \in Captures \ CommittedCaptures : vault[c].files \subseteq {"deleted"}
       /\ \A c \in Captures : vault[c].temporaries = {}
       /\ \A a \in Attempts : State(a) # "pending"]_vars

\* Recovery brings vault and registry in step before the host is ready, and never
\* by rewriting the record of a deletion or reviving what was deleted.
RecoveryReconciles == ReadyMeansReconciled /\ ReceiptsAreFinal

\* Once crashes and I/O errors stop, a host that boots becomes ready.
BecomesReady ==
  <>[][~IoError /\ ~Crash]_vars => (phase = "boot" ~> phase = "ready")

-----------------------------------------------------------------------------
\* For TLC: attempts and captures are interchangeable.
Interchangeable == Permutations(Attempts) \cup Permutations(Captures)
=============================================================================
