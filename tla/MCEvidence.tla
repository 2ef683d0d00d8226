----------------------------- MODULE MCEvidence -----------------------------
(* Events, their checkpoints and anchors, and what is published of them, as   *)
(* alternatives of a run: callers of the event store, signers beside it,      *)
(* publishers of anchors, and the verifier of what they published; or the     *)
(* publication and restore of the three archives, the recovery set that they  *)
(* make up, and what is signed and believed of them.  A .cfg names the scopes *)
(* of its run.                                                                *)
EXTENDS RecoverySet, ExternalAnchor, TLC

CONSTANTS
  Scopes,
  Latest, Lifetime, MaxSigned,          \* of SignedArchives
  e1, e2, k1, s1, s2, checkpoint        \* names

VARIABLES
  scope,     \* which of them
  bundles, statements, bound, report    \* of SignedArchives

-----------------------------------------------------------------------------
(* Events, journal, outbox and verifier. *)

\* Two events under every way of naming them, and two that have no name.
NamedRequests == {[id |-> e1, key |-> k1, content |-> 1], [id |-> e1, key |-> None, content |-> 1],
                  [id |-> None, key |-> k1, content |-> 1], [id |-> e2, key |-> None, content |-> 2],
                  [id |-> e2, key |-> k1, content |-> 2],
                  [id |-> None, key |-> None, content |-> 1], [id |-> None, key |-> None, content |-> 2]}

\* A chain of three checkpoints, and a fork of the second that does not move on.
Anchored(i, n, p, h, t) == [id |-> i, sequence |-> n, previous |-> p, head |-> h, at |-> t]
First == Anchored(1, 1, 0, 1, 0)
Second == Anchored(2, 2, 1, 2, 0)
Third == Anchored(4, 3, 2, 3, 1)
MCSigned == {First, Second, Anchored(3, 2, 1, 1, 0), Third}
MCCheckpoints == {First}
MCPinnable == {First, Second, Third}

Events == StoreStep /\ UNCHANGED journalVars

Journals == \/ \E r \in Requests \ Named : AppendEvent(r) /\ UNCHANGED journalVars
            \/ \E s \in Signers : SignerStep(s)
            \/ ReadJournal \/ VerifyStore \/ Restore

-----------------------------------------------------------------------------
(* Files, contents and documents. *)

\* The names of publications and hosts also serve as keys and versions, so that one
\* small symmetry group does for every scope.
Documents == INSTANCE SignedArchives WITH
               Signers <- {[key |-> p, id |-> "release"] : p \in Publications},
               Checkpointer <- [key |-> checkpoint, id |-> "checkpoint"],
               Versions <- Hosts, evidence <- statements, archives <- bound

SessionRequests == {[id |-> e1, key |-> e1, content |-> [session |-> s1, at |-> 0]],
                    [id |-> e2, key |-> e2, content |-> [session |-> s1, at |-> 1]],
                    [id |-> e2, key |-> e2, content |-> [session |-> s2, at |-> 0]]}

files == <<kind, dirSync, temp, bytes, synced, destination, entrySynced, active, call, acknowledged, deleted,
           access, results, restore, mishaps, powerLost, outage>>
documents == <<bundles, statements, bound, report>>
anchors == <<outboxVars, verifierVars>>
published == <<files, documents>>

-----------------------------------------------------------------------------
\* The variables of the instances that do not run have one value.
MCInit ==
  /\ scope \in Scopes
  /\ RecoveryInit /\ Disk!PublicationInit /\ Documents!ArchivesInit
  /\ OutboxInit /\ VerifierInit
  /\ scope # "files" => kind = "archive" /\ dirSync
  /\ scope # "outbox" => objects = [c \in Checkpoints |-> Absent]
  /\ scope # "verifier" => pinned = Absent /\ minimum = "governance" /\ verifiedAt = 0

MCNext ==
  /\ UNCHANGED scope
  /\ \/ /\ \/ scope = "events" /\ Events
           \/ scope = "journal" /\ Journals
        /\ UNCHANGED <<recoveryVars, anchors, published>>
     \/ scope = "outbox" /\ OutboxNext /\ UNCHANGED <<setVars, verifierVars, published>>
     \/ scope = "verifier" /\ VerifierNext /\ UNCHANGED <<setVars, outboxVars, published>>
     \/ scope = "files" /\ Disk!PublicationNext /\ UNCHANGED <<setVars, anchors, documents>>
     \/ scope = "contents" /\ RecoveryNext /\ UNCHANGED <<anchors, published>>
     \/ scope = "documents" /\ Documents!ArchivesNext /\ UNCHANGED <<setVars, anchors, files>>

Interchangeable == Permutations(Signers) \cup Permutations(Publishers)
                     \cup Permutations(Publications) \cup Permutations(Hosts) \cup Permutations(Payloads)

MCSpec == MCInit /\ [][MCNext]_<<setVars, anchors, published, scope>>

\* A rebuilt store is the history its evidence vouches for; a report of verified recovery
\* artifacts is of one session, release and key, each of its files as it was signed; and
\* whatever was signed can be verified afterwards.
VouchedFor ==
  /\ RebuiltAsVouched
  /\ scope = "documents" => Documents!ReportIsOfOneSession /\ Documents!SignedVerifies
=============================================================================
