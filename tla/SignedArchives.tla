---------------------------- MODULE SignedArchives ----------------------------
(***************************************************************************)
(* What the three signed artifacts of a closed session say, and when they  *)
(* are believed: the release bundle (release-bundle), the state evidence   *)
(* (backup), the archive of the events bound to it (event-archive), and    *)
(* the check that all three vouch for one session (session-controller).    *)
(*                                                                         *)
(* A manifest is a record, which is its own digest; a file is a manifest,  *)
(* a signature and the artifacts that the manifest digests.  An operator   *)
(* may hand a signer inconsistent inputs, and a verifier files, receipts   *)
(* and companions that were mixed up, edited or rewritten to fit.          *)
(***************************************************************************)
EXTENDS Naturals, Sequences, FiniteSets, SequencesExt

CONSTANTS
  None,
  Signers,        \* who may sign a release: [key, id]
  Checkpointer,   \* who signs checkpoints: [key, id]
  Sessions, Versions,
  Lifetime,       \* how long a capture may be kept
  Latest,         \* bound: moments are 0..Latest
  MaxSigned, MaxArchives       \* bounds: bundles and evidence, archives that are signed

VARIABLES
  bundles, evidence, archives,   \* what was signed: [file, receipt], of archives with its companion
  report                         \* what VerifyRecovery last accepted

archiveVars == <<bundles, evidence, archives, report>>

Moments == 0..Latest
Profiles == {"canary", "production-observer"}

Signature(key, manifest) == [key |-> key, over |-> manifest]

\* Records that are mixed up in one field.
Mixed(S) == UNION {{[s EXCEPT ![f] = t[f]] : f \in DOMAIN s} : s, t \in S}

SignedFile(manifest, artifacts) ==
  [manifest |-> manifest, signature |-> Signature(manifest.signer.key, manifest), artifacts |-> artifacts]

Receipt(file, facts) == [archive |-> file, manifest |-> file.manifest, facts |-> facts]

\* What a verifier is given: of the release bundle, of the state evidence, of the event archive.
BundleTrust(receipt, key) == [receipt |-> receipt, key |-> key]
EvidenceTrust(receipt, key, checkpointKey) == [receipt |-> receipt, key |-> key, checkpointKey |-> checkpointKey]
ArchiveTrust(receipt, key, companion) == [receipt |-> receipt, key |-> key, evidence |-> companion]

-----------------------------------------------------------------------------
(* release-bundle.  A file of a release is [path, role, content]. *)

RoleOf == [package |-> "source", code |-> "source", lockfile |-> "lockfile", config |-> "config-schema",
           runbook |-> "runbook", procedure |-> "recovery-procedure", sbom |-> "sbom", tests |-> "test-summary"]

Entry(path, content) == [path |-> path, role |-> RoleOf[path], content |-> content]

\* What a checkout of a version has.
Tree(v) ==
  {Entry("package", [version |-> v, node |-> 24, pnpm |-> 11]), Entry("code", [text |-> v, secret |-> FALSE]),
   Entry("lockfile", [text |-> v]), Entry("config", [schema |-> v, named |-> TRUE]),
   Entry("runbook", [complete |-> TRUE]), Entry("procedure", [complete |-> TRUE]),
   Entry("sbom", [version |-> v]), Entry("tests", [commit |-> v, at |-> 0, passed |-> TRUE])}

Strays ==
  {Entry("code", [text |-> None, secret |-> TRUE]), Entry("config", [schema |-> None, named |-> FALSE]),
   Entry("runbook", [complete |-> FALSE]), Entry("procedure", [complete |-> FALSE]),
   [path |-> "notes", role |-> "source", content |-> [complete |-> TRUE]],
   [path |-> "sbom", role |-> "source", content |-> [version |-> None]]}
    \cup {Entry("tests", [commit |-> v, at |-> Latest, passed |-> p]) : v \in Versions, p \in BOOLEAN}

\* Sets of files that differ from a checkout by at most one of them.
Trees(v) ==
  LET others == Strays \cup UNION {Tree(w) : w \in Versions}
  IN {Tree(v)} \cup {Tree(v) \ {f} : f \in Tree(v)} \cup {(Tree(v) \ {f}) \cup {g} : f \in Tree(v), g \in others}

OfRole(files, roles) == {f \in files : f.role \in roles}

\* validateArtifactPath, pathAllowedForRole: a closed list of places per role.
PathAllowed(f) == f.path \in DOMAIN RoleOf /\ RoleOf[f.path] = f.role

\* scanContent: no file has a secret.
NoSecret(f) == f.path = "code" => ~f.content.secret

\* validateRoleContent.
ContentFits(f) ==
  /\ f.role = "config-schema" => f.content.named
  /\ f.role = "test-summary" => f.content.passed
  /\ f.role \in {"runbook", "recovery-procedure"} => f.content.complete

\* assertClosedArtifactPolicy.
Complete(files) ==
  /\ DOMAIN RoleOf \subseteq {f.path : f \in files}
  /\ \A role \in {"lockfile", "sbom", "test-summary"} : Cardinality(OfRole(files, {role})) = 1

\* normalizeReleaseArtifacts.
Normal(files) ==
  /\ \A f \in files : PathAllowed(f) /\ NoSecret(f) /\ ContentFits(f)
  /\ \A f, g \in files : f.path = g.path => f = g
  /\ Complete(files)

\* bindingsFor.
Bindings(files) ==
  [all |-> files, config |-> {f.content.schema : f \in OfRole(files, {"config-schema"})},
   lockfile |-> OfRole(files, {"lockfile"}), recovery |-> OfRole(files, {"recovery-procedure"}),
   runbooks |-> OfRole(files, {"runbook"}), sbom |-> OfRole(files, {"sbom"}),
   source |-> OfRole(files, {"source", "lockfile"}), tests |-> OfRole(files, {"test-summary"})]

At(files, path) == (CHOOSE f \in files : f.path = path).content

\* validateReleaseArtifactSemantics.
Means(files, r) ==
  /\ At(files, "package") = [version |-> r.version, node |-> r.node, pnpm |-> r.pnpm]
  /\ At(files, "tests").commit = r.commit /\ At(files, "tests").at <= r.at
  /\ At(files, "sbom").version = r.version

PinnedRuntime(r) == r.node = 24 /\ r.pnpm = 11

\* normalizeReleaseIdentity.
IdentityFits(r, files) ==
  /\ PinnedRuntime(r)
  /\ r.bindings = Bindings(files)
  /\ Means(files, r)

BundleManifest(id, files, r, signer) ==
  [kind |-> "bundle", id |-> id, files |-> files, release |-> r, signer |-> signer]

\* receiptFor.
BundleFacts(m) == [id |-> m.id, release |-> m.release, signer |-> m.signer]

Identities(v) ==
  Mixed({[bindings |-> Bindings(Tree(w)), version |-> w, commit |-> w, node |-> 24, pnpm |-> 11, at |-> t] :
           w \in Versions, t \in {0, Latest}})
    \cup {[bindings |-> Bindings(Tree(v)), version |-> v, commit |-> v, node |-> 22, pnpm |-> 11, at |-> 0]}

\* encodeSignedReleaseArchive.
SignBundle(files, r, signer) ==
  /\ Cardinality(bundles) + Cardinality(evidence) < MaxSigned
  /\ Normal(files) /\ IdentityFits(r, files)
  /\ LET file == SignedFile(BundleManifest(Cardinality(bundles), files, r, signer), files)
     IN bundles' = bundles \cup {[file |-> file, receipt |-> Receipt(file, BundleFacts(file.manifest))]}
  /\ UNCHANGED <<evidence, archives, report>>

\* parseArtifactDescriptors.
DescriptorsFit(files) ==
  /\ files # {} /\ \A f \in files : PathAllowed(f)
  /\ \A f, g \in files : f.path = g.path => f = g

\* parseManifest.
BundleParses(m) == m.kind = "bundle" /\ DescriptorsFit(m.files) /\ PinnedRuntime(m.release)

\* decodeArchive: the artifacts are those the manifest digests.
DecodesBundle(file) == BundleParses(file.manifest) /\ file.artifacts = file.manifest.files

\* verifyReleaseArchiveBytes.
BundleVerifies(file, trust) ==
  LET m == file.manifest
  IN /\ file = trust.receipt.archive
     /\ DecodesBundle(file)
     /\ m = trust.receipt.manifest /\ BundleFacts(m) = trust.receipt.facts
     /\ trust.key = m.signer.key /\ file.signature = Signature(trust.key, m)
     /\ Normal(file.artifacts)
     /\ m.release.bindings = Bindings(file.artifacts)
     /\ Means(file.artifacts, m.release)

-----------------------------------------------------------------------------
(* backup.  The head of a store is the sequence of its events. *)

Deletion(s, profile, t) == [type |-> "deleted", session |-> s, profile |-> profile, at |-> t]
Capture(s, profile, t) ==
  [type |-> "recorded", session |-> s, profile |-> profile, at |-> t, expires |-> t + 1,
   status |-> "accepted", counts |-> [records |-> 1, edited |-> 1], failure |-> None]

ProfileOf(s) == IF s = CHOOSE u \in Sessions : TRUE THEN "canary" ELSE "production-observer"

\* A deletion of a session before it, and a capture of its own.
History(s) ==
  <<Deletion(CHOOSE u \in Sessions : u # s, ProfileOf(s), 0), Capture(s, ProfileOf(s), Latest - 1)>>

Checkpoint(events, t, signer) == [head |-> events, at |-> t, signer |-> signer]

\* What the operator of a session in fact has when it is in its state.
Snapshot(s, bundle) ==
  [session |-> s, profile |-> ProfileOf(s), at |-> Latest - 1, events |-> History(s),
   journal |-> <<Checkpoint(SubSeq(History(s), 1, 1), 0, Checkpointer),
                 Checkpoint(History(s), Latest - 1, Checkpointer)>>,
   trusted |-> Checkpoint(History(s), Latest - 1, Checkpointer),
   checkpointKey |-> Checkpointer, releaseKey |-> bundle.manifest.signer,
   release |-> [manifest |-> bundle.manifest, config |-> bundle.manifest.release.bindings.config,
                signer |-> bundle.manifest.signer],
   schemas |-> bundle.manifest.release.bindings.config,
   recovery |-> {[at |-> 0, release |-> bundle.manifest]}]

\* What it might hand over instead of any part of it.
Wrong(s, bundle) ==
  [Snapshot(s, bundle) EXCEPT
     !.at = 0, !.events = SubSeq(@, 1, 1), !.journal = SubSeq(@, 1, 1), !.trusted.head = SubSeq(@, 1, 1),
     !.checkpointKey = bundle.manifest.signer, !.releaseKey = Checkpointer,
     !.release.config = {}, !.schemas = {None}, !.recovery = {[at |-> Latest, release |-> bundle.manifest]}]

\* The same store, with a capture that no writer records: accepted and failed, with
\* more edited records than records, or kept for too long.
Contradictory(s, bundle) ==
  LET capture == Last(History(s))
      head(e) == Checkpoint(<<History(s)[1], e>>, Latest - 1, Checkpointer)
  IN {[Snapshot(s, bundle) EXCEPT !.events = <<History(s)[1], e>>, !.journal = <<head(e)>>, !.trusted = head(e)] :
        e \in {[capture EXCEPT !.failure = "code"], [capture EXCEPT !.counts.edited = 2],
              [capture EXCEPT !.expires = capture.at + Lifetime + 1]}}

\* parseRecoveryEvidence: drills of this release, none after the session's state.
RecoveryFits(recovery, release, stateAt) ==
  recovery # {} /\ \A r \in recovery : r.at <= stateAt /\ r.release = release.manifest

\* parseConfigSchemas.
SchemasFit(schemas) == schemas # {}

\* parseReleaseEvidence and what binds it to its key and to the config schemas.
ReleaseFits(release, key, schemas) == release.signer = key /\ SchemasFit(schemas) /\ schemas = release.config

\* parseSignedCheckpoint, validateCheckpointJournal.
JournalFits(journal, signer, events, stateAt) ==
  /\ journal # <<>>
  /\ \A n \in 1..Len(journal) : journal[n].signer = signer /\ journal[n].at <= stateAt
  /\ \A n \in 2..Len(journal) : /\ journal[n - 1].at <= journal[n].at
                                /\ Len(journal[n - 1].head) < Len(journal[n].head)
  /\ Last(journal).head = events

\* parsePublicKeysArtifact: two keys that are distinct.
KeysDiffer(checkpointKey, releaseKey) == checkpointKey.key # releaseKey.key

\* parseEventState: at least one event, as many as the head's sequence.
StateFits(events) == events # <<>>

\* sanitizeSnapshot.
Sanitized(s) ==
  /\ StateFits(s.events) /\ KeysDiffer(s.checkpointKey, s.releaseKey)
  /\ ReleaseFits(s.release, s.releaseKey, s.schemas)
  /\ RecoveryFits(s.recovery, s.release, s.at)
  /\ JournalFits(s.journal, s.checkpointKey, s.events, s.at)
  /\ Last(s.journal) = s.trusted

\* encodeArtifactBytes: the seven artifacts.
Artifacts(s) ==
  [events |-> s.events, journal |-> s.journal, head |-> Last(s.journal),
   keys |-> [checkpoint |-> s.checkpointKey, release |-> s.releaseKey],
   schemas |-> s.schemas, recovery |-> s.recovery, release |-> s.release]

EvidenceManifest(id, s, t, signer) ==
  [kind |-> "evidence", id |-> id, artifacts |-> Artifacts(s), checkpoint |-> Last(s.journal), at |-> t,
   events |-> s.events, profile |-> s.profile, release |-> s.release, session |-> s.session, stateAt |-> s.at,
   signer |-> signer]

\* receiptFor.
EvidenceFacts(m) ==
  [id |-> m.id, profile |-> m.profile, session |-> m.session, release |-> m.release.manifest,
   checkpoint |-> m.checkpoint, key |-> m.signer.key]

\* encodeSignedArchive.
SignEvidence(s, t, signer) ==
  /\ Cardinality(bundles) + Cardinality(evidence) < MaxSigned
  /\ Sanitized(s) /\ signer = s.releaseKey /\ t >= s.at
  /\ LET m == EvidenceManifest(Cardinality(evidence), s, t, signer)
         file == SignedFile(m, m.artifacts)
     IN evidence' = evidence \cup {[file |-> file, receipt |-> Receipt(file, EvidenceFacts(m))]}
  /\ UNCHANGED <<bundles, archives, report>>

\* parseManifest.
EvidenceParses(m) == m.kind = "evidence" /\ m.at >= m.stateAt

\* decodeArchive.
DecodesEvidence(file) == EvidenceParses(file.manifest) /\ file.artifacts = file.manifest.artifacts

\* validateDecodedArtifacts.
ArtifactsFit(a, stateAt) ==
  /\ KeysDiffer(a.keys.checkpoint, a.keys.release)
  /\ RecoveryFits(a.recovery, a.release, stateAt)
  /\ ReleaseFits(a.release, a.keys.release, a.schemas)
  /\ StateFits(a.events) /\ JournalFits(a.journal, a.keys.checkpoint, a.events, stateAt)
  /\ a.head = Last(a.journal)

\* verifyArchiveBytes: against a retained receipt and the two trusted keys.
EvidenceVerifies(file, trust) ==
  LET m == file.manifest  a == file.artifacts
  IN /\ file = trust.receipt.archive
     /\ DecodesEvidence(file)
     /\ m = trust.receipt.manifest /\ EvidenceFacts(m) = trust.receipt.facts
     /\ trust.key = m.signer.key /\ m.signer = m.release.signer /\ file.signature = Signature(trust.key, m)
     /\ ArtifactsFit(a, m.stateAt)
     /\ a.keys.release.key = trust.key /\ a.keys.checkpoint.key = trust.checkpointKey
     /\ m.events = a.events /\ m.checkpoint = a.head /\ m.release = a.release

-----------------------------------------------------------------------------
(* event-archive. *)

\* What a signed evidence is retained as.
Companion(d) ==
  LET m == d.file.manifest
  IN [events |-> m.events, manifest |-> m, signature |-> d.file.signature, receipt |-> d.receipt,
      profile |-> m.profile, releaseId |-> m.release.signer.id, session |-> m.session, stateAt |-> m.stateAt]

\* parseStateEvidenceBackupManifest: it names the seven artifacts.
ManifestNames(m) ==
  m.kind = "evidence" /\ DOMAIN m.artifacts = {"events", "journal", "head", "keys", "schemas", "recovery", "release"}

\* parseStateEvidenceBackupManifest: unlike in backup, the manifest itself has to name
\* one head and one signer.
ManifestBinds(m) ==
  /\ StateFits(m.events)
  /\ m.checkpoint.head = m.events /\ m.at >= m.stateAt /\ m.signer = m.release.signer

\* parseStateEvidenceCompanion.
CompanionFits(c) ==
  LET m == c.manifest
  IN /\ StateFits(c.events) /\ ManifestNames(m) /\ ManifestBinds(m)
     /\ m = c.receipt.manifest /\ EvidenceFacts(m) = c.receipt.facts
     /\ m.profile = c.profile /\ m.session = c.session /\ m.stateAt = c.stateAt
     /\ m.release.signer.id = c.releaseId /\ m.events = c.events

\* assertStateEvidenceManifestProofSignature.
ProofSigned(c, key) == key = c.manifest.signer.key /\ c.signature = Signature(key, c.manifest)

\* parseCaptureCounts.
CountsFit(c) == c.edited <= c.records

\* parseCaptureRecorded.
CaptureFits(e) ==
  /\ IF e.status = "accepted" THEN e.counts # None /\ CountsFit(e.counts) /\ e.failure = None
     ELSE e.counts = None /\ e.failure # None
  /\ e.at <= e.expires /\ e.expires <= e.at + Lifetime

\* parseSanitizedEvent: of two types.
EventFits(e) == e.type \in {"recorded", "deleted"} /\ (e.type = "recorded" => CaptureFits(e))

\* parseEventJournal.
EventsFit(events) == events # <<>> /\ \A n \in 1..Len(events) : EventFits(events[n])

\* validateEventChain: the hashes chain from the store's first event to its head.
ChainFits(events, c) ==
  /\ \A n \in 1..Len(events) : events[n].profile = c.profile /\ events[n].at <= c.stateAt
  /\ Last(events).session = c.session
  /\ events = c.events

ArchiveSnapshot(c) ==
  [events |-> c.events, profile |-> c.profile, session |-> c.session, stateAt |-> c.stateAt, evidence |-> c]

\* sanitizeSnapshot.
ArchiveSanitized(s) ==
  /\ CompanionFits(s.evidence)
  /\ s.evidence.profile = s.profile /\ s.evidence.session = s.session /\ s.evidence.stateAt = s.stateAt
  /\ EventsFit(s.events) /\ ChainFits(s.events, s.evidence)

ArchiveManifest(id, s, t, signer) ==
  [kind |-> "archive", id |-> id, events |-> s.events, at |-> t, profile |-> s.profile,
   release |-> s.evidence.receipt.facts.release, session |-> s.session, stateAt |-> s.stateAt, signer |-> signer,
   evidence |-> [binding |-> s.evidence, archive |-> s.evidence.receipt.archive, id |-> s.evidence.receipt.facts.id,
                 checkpoint |-> s.evidence.receipt.facts.checkpoint, manifest |-> s.evidence.receipt.manifest],
   store |-> s.evidence.events]

\* receiptFor.
ArchiveFacts(m) ==
  [id |-> m.id, store |-> m.store, profile |-> m.profile, release |-> m.release, session |-> m.session,
   key |-> m.signer.key, evidence |-> [m.evidence EXCEPT !.binding = None]]

\* encodeSignedEventArchive: by the signer of the evidence, not before it.
SignArchive(s, t, signer) ==
  /\ Cardinality(archives) < MaxArchives
  /\ ArchiveSanitized(s)
  /\ t >= s.stateAt /\ t >= Last(s.events).at /\ t >= s.evidence.manifest.at
  /\ ProofSigned(s.evidence, signer.key)
  /\ signer.key = s.evidence.receipt.facts.key /\ signer.id = s.evidence.releaseId
  /\ LET m == ArchiveManifest(Cardinality(archives), s, t, signer)
         file == SignedFile(m, m.events)
     IN archives' = archives \cup
                       {[file |-> file, receipt |-> Receipt(file, ArchiveFacts(m)), companion |-> s.evidence]}
  /\ UNCHANGED <<bundles, evidence, report>>

\* parseManifest.
ArchiveParses(m) == m.kind = "archive" /\ m.at >= m.stateAt /\ StateFits(m.store)

\* decodeArchive.
DecodesArchive(file) == ArchiveParses(file.manifest) /\ file.artifacts = file.manifest.events

\* What verifyEventArchiveBytes compares with the retained companion.
EvidenceBinds(m, c) ==
  /\ m.evidence.binding = c /\ m.evidence.archive = c.receipt.archive /\ m.evidence.id = c.receipt.facts.id
  /\ m.evidence.checkpoint = c.receipt.facts.checkpoint /\ m.evidence.manifest = c.receipt.manifest
  /\ m.release = c.receipt.facts.release /\ m.profile = c.receipt.facts.profile
  /\ m.session = c.receipt.facts.session /\ m.at >= c.manifest.at

\* validateDecodedArchiveData.
ArchiveDataFits(events, m, c) ==
  /\ m.store = c.events /\ c.profile = m.profile /\ c.session = m.session /\ c.stateAt = m.stateAt
  /\ ChainFits(events, c)

\* verifyEventArchiveBytes: against a retained receipt, the trusted key and the companion.
ArchiveVerifies(file, trust) ==
  LET m == file.manifest  c == trust.evidence
  IN /\ CompanionFits(c) /\ ProofSigned(c, trust.key)
     /\ file = trust.receipt.archive
     /\ DecodesArchive(file)
     /\ m = trust.receipt.manifest /\ ArchiveFacts(m) = trust.receipt.facts
     /\ EvidenceBinds(m, c)
     /\ trust.key = m.signer.key /\ m.signer.key = c.receipt.facts.key /\ m.signer.id = c.releaseId
     /\ file.signature = Signature(trust.key, m)
     /\ EventsFit(file.artifacts) /\ ArchiveDataFits(file.artifacts, m, c)

-----------------------------------------------------------------------------
(* session-controller. *)

Files(docs) == Mixed({d.file : d \in docs})
Receipts(docs) == Mixed({d.receipt : d \in docs})
Keys == {s.key : s \in Signers}

\* An edited manifest, with the receipt rewritten to fit.
EditedEvidence(d) ==
  {[file |-> f, receipt |-> Receipt(f, EvidenceFacts(f.manifest))] :
     f \in {[d.file EXCEPT !.manifest.session = s] : s \in Sessions}}
EditedArchive(d) ==
  {[file |-> f, receipt |-> Receipt(f, ArchiveFacts(f.manifest))] :
     f \in {[d.file EXCEPT !.manifest.session = s] : s \in Sessions}}

\* What there is to present: every file with every receipt, mixed up in any one part.
Presented(docs, Edited(_)) ==
  {[file |-> f, receipt |-> r] : f \in Files(docs), r \in Receipts(docs)} \cup UNION {Edited(d) : d \in docs}

PresentedEvidence(key) ==
  {p \in Presented(evidence, EditedEvidence) :
     EvidenceVerifies(p.file, EvidenceTrust(p.receipt, key, Checkpointer.key))}

PresentedArchives(key) ==
  {p \in Presented(archives, EditedArchive) :
     \E c \in Mixed({Companion(d) : d \in evidence}) : ArchiveVerifies(p.file, ArchiveTrust(p.receipt, key, c))}

PresentedBundles(key) ==
  {p \in Presented(bundles, LAMBDA d : {}) : BundleVerifies(p.file, BundleTrust(p.receipt, key))}

\* That the archive is of this very evidence is not asked.
Agree_AnyEvidence(e, a, b, expected) ==
  /\ e.profile = expected.profile /\ a.profile = expected.profile
  /\ e.session = expected.session /\ a.session = expected.session
  /\ e.release.manifest = expected.release /\ a.release = expected.release /\ b = expected.release
  /\ e.signer.key = a.signer.key /\ e.signer.key = b.signer.key

\* The bindings of verifySessionRecoveryArtifacts, over the manifests of its three reports.
Agree(e, a, b, expected) ==
  /\ e.profile = expected.profile /\ a.profile = expected.profile
  /\ e.session = expected.session /\ a.session = expected.session
  /\ e.release.manifest = expected.release /\ a.release = expected.release /\ b = expected.release
  /\ a.evidence.id = e.id
  /\ e.signer.key = a.signer.key /\ e.signer.key = b.signer.key

\* verifySessionRecoveryArtifacts: each of the three with the key it is presented with.
VerifyRecovery ==
  \E a \in UNION {PresentedArchives(k) : k \in Keys} :
  \E e \in UNION {PresentedEvidence(k) : k \in Keys}, b \in UNION {PresentedBundles(k) : k \in Keys},
     s \in Sessions, p \in Profiles, d \in bundles :
    LET expected == [session |-> s, profile |-> p, release |-> d.file.manifest]
    IN /\ Agree(e.file.manifest, a.file.manifest, b.file.manifest, expected)
       /\ report' = [evidence |-> e.file, archive |-> a.file, bundle |-> b.file, expected |-> expected]
       /\ UNCHANGED <<bundles, evidence, archives>>

-----------------------------------------------------------------------------
ArchivesInit == bundles = {} /\ evidence = {} /\ archives = {} /\ report = None

Snapshots == UNION {{Snapshot(s, d.file), Wrong(s, d.file)} : s \in Sessions, d \in bundles}
ArchiveSnapshots == UNION {{ArchiveSnapshot(Companion(d))} : d \in evidence}

ArchivesNext ==
  \/ \E v \in Versions : \E files \in Trees(v), r \in Identities(v), s \in Signers : SignBundle(files, r, s)
  \/ \E s \in Mixed(Snapshots) \cup UNION {Contradictory(CHOOSE u \in Sessions : TRUE, d.file) : d \in bundles},
        t \in Moments, signer \in Signers : SignEvidence(s, t, signer)
  \/ \E s \in Mixed(ArchiveSnapshots), t \in Moments, signer \in Signers : SignArchive(s, t, signer)
  \/ VerifyRecovery

-----------------------------------------------------------------------------
(* Properties. *)

\* A report of verified recovery artifacts is of one closed session: three unaltered files,
\* each signed with the one release key, which did not sign the checkpoints; the archive is
\* bound to that very evidence and holds the events its last checkpoint names, the last one
\* being the session's, none after its state; the drills are of the reported release and had
\* been passed by then; the release is complete and was tested at its own commit beforehand.
ReportIsOfOneSession ==
  report # None =>
    LET e == report.evidence.manifest  a == report.archive.manifest  b == report.bundle.manifest
        x == report.expected
    IN /\ \E d \in evidence : d.file = report.evidence
       /\ \E d \in archives : d.file = report.archive
       /\ \E d \in bundles : d.file = report.bundle
       /\ Cardinality({report[f].signature.key : f \in {"evidence", "archive", "bundle"}}) = 1
       /\ \A n \in 1..Len(e.artifacts.journal) : e.artifacts.journal[n].signer.key # e.signer.key
       /\ a.evidence.manifest = e /\ a.events = Last(e.artifacts.journal).head
       /\ Last(a.events).session = x.session
       /\ \A n \in 1..Len(a.events) : a.events[n].at <= e.stateAt /\ a.events[n].profile = x.profile
       /\ \A r \in e.artifacts.recovery : r.release = b /\ r.at <= e.stateAt
       /\ \A f \in b.files : f.role = "test-summary" => /\ f.content.passed /\ f.content.commit = b.release.commit
                                                       /\ f.content.at <= b.release.at
       /\ {f.path : f \in b.files} = DOMAIN RoleOf
       /\ e.stateAt <= e.at /\ e.at <= a.at

\* What was signed can be verified afterwards, with what was retained of it.
SignedVerifies ==
  /\ \A d \in bundles : BundleVerifies(d.file, BundleTrust(d.receipt, d.file.manifest.signer.key))
  /\ \A d \in evidence :
       LET a == d.file.artifacts
       IN EvidenceVerifies(d.file, EvidenceTrust(d.receipt, a.keys.release.key, a.keys.checkpoint.key))
  /\ \A d \in archives : ArchiveVerifies(d.file, ArchiveTrust(d.receipt, d.file.manifest.signer.key, d.companion))
=============================================================================
