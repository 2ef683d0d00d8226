------------------------- MODULE ArchivePublication -------------------------
(***************************************************************************)
(* How event archives, state evidence and release bundles reach the disk:  *)
(* a destination is created once, by linking a temporary file that is      *)
(* whole and synced; a reader accepts only a file with one link that is    *)
(* the same before and after it was read; a restore creates its directory  *)
(* and fills it file by file.  Processes die, the machine loses power, and *)
(* an operator may delete what was published.  The code syncs files and    *)
(* the directories it writes into, not the parent of a directory it makes, *)
(* and goes on where a filesystem cannot sync directories.                 *)
(*                                                                         *)
(* The three packages have the same protocol with two differences, which   *)
(* `kind' selects: a reader of an archive (event archives and evidence)    *)
(* waits for a publication of its own process and create reads back what   *)
(* it wrote, and a bundle's restore writes the signed manifest last.       *)
(***************************************************************************)
EXTENDS Naturals, Sequences, FiniteSets

CONSTANTS
  Publications,   \* calls of create, each with a temporary file of its own
  Hosts,          \* processes
  Payloads,       \* the files of a restore beside its manifest
  None,
  MaxFaults,      \* bound: I/O errors, deaths, power losses, deletions
  MaxWaits        \* bound: PUBLISH_WAIT_ATTEMPTS

VARIABLES
  kind,           \* "archive" or "bundle"
  dirSync,        \* the filesystem can sync a directory
  temp,           \* publications whose temporary name exists
  bytes,          \* publication |-> its inode: "none", "part" or "whole"
  synced,         \* publications whose bytes are on the disk
  destination,    \* the publication the destination name leads to, or None
  entrySynced,    \* the directory entry of the destination is on the disk
  active,         \* host |-> activePublications: the one it registered, or None
  call,           \* publication |-> [phase, host]
  acknowledged,   \* publications whose receipt was returned
  deleted,        \* publications an operator deleted afterwards
  reader,         \* one readArchiveFile / readBundleFile
  results,        \* what it returned: pairs of a publication and its bytes
  restore,        \* the restore directory and who fills it
  faults,
  powerLost,      \* the machine lost power since the restore began
  outage          \* the machine lost power at some time

fixed == <<kind, dirSync>>
fileVars == <<temp, bytes, synced, destination, entrySynced, deleted>>
readVars == <<reader, results>>
restoreVars == <<restore, powerLost, outage>>
publicationVars == <<fixed, fileVars, active, call, acknowledged, readVars, restoreVars, faults>>

Manifest == "manifest"
Files == Payloads \cup {Manifest}

NoReader == [phase |-> "idle", host |-> None, inode |-> None, waits |-> 0, read |-> "none"]
NoRestore == [exists |-> FALSE, host |-> None, files |-> [f \in Files |-> "none"], reported |-> FALSE]

\* Hard links of an inode.
Links(p) == (IF p \in temp THEN 1 ELSE 0) + (IF destination = p THEN 1 ELSE 0)

PublicationInit ==
  /\ kind \in {"archive", "bundle"} /\ dirSync \in BOOLEAN
  /\ temp = {} /\ bytes = [p \in Publications |-> "none"] /\ synced = {}
  /\ destination = None /\ entrySynced = FALSE /\ active = [h \in Hosts |-> None]
  /\ call = [p \in Publications |-> [phase |-> "new", host |-> None]]
  /\ acknowledged = {} /\ deleted = {}
  /\ reader = NoReader /\ results = {} /\ restore = NoRestore /\ faults = 0
  /\ powerLost = FALSE /\ outage = FALSE

At(p, phase) == call[p].phase = phase
Goto(p, phase) == call' = [call EXCEPT ![p].phase = phase]
Fault == faults < MaxFaults /\ faults' = faults + 1

-----------------------------------------------------------------------------
(* publishArchiveCreateOnly, publishBundleCreateOnly. *)

\* assertMissing.
Begin(p, h) ==
  /\ At(p, "new") /\ destination = None
  /\ call' = [call EXCEPT ![p] = [phase |-> "checked", host |-> h]]
  /\ UNCHANGED <<fixed, fileVars, active, acknowledged, readVars, restoreVars, faults>>

CreateTemporary(p) ==
  /\ At(p, "checked") /\ Goto(p, "writing")
  /\ temp' = temp \cup {p} /\ bytes' = [bytes EXCEPT ![p] = "part"]
  /\ UNCHANGED <<fixed, synced, destination, entrySynced, deleted, active, acknowledged, readVars,
                 restoreVars, faults>>

\* writeAll.
WriteAll(p) ==
  /\ At(p, "writing") /\ Goto(p, "written")
  /\ bytes' = [bytes EXCEPT ![p] = "whole"]
  /\ UNCHANGED <<fixed, temp, synced, destination, entrySynced, deleted, active, acknowledged, readVars,
                 restoreVars, faults>>

\* Mutant: the file is linked without having been synced.
SyncFile_Skipped(p) ==
  /\ At(p, "written") /\ Goto(p, "closed")
  /\ UNCHANGED <<fixed, fileVars, active, acknowledged, readVars, restoreVars, faults>>

SyncFile(p) ==
  /\ At(p, "written") /\ Goto(p, "closed")
  /\ synced' = synced \cup {p}
  /\ UNCHANGED <<fixed, temp, bytes, destination, entrySynced, deleted, active, acknowledged, readVars,
                 restoreVars, faults>>

\* An archive's publication is known to its process from here on.
Register(p) ==
  /\ At(p, "closed") /\ Goto(p, "registered")
  /\ active' = IF kind = "archive" THEN [active EXCEPT ![call[p].host] = p] ELSE active
  /\ UNCHANGED <<fixed, fileVars, acknowledged, readVars, restoreVars, faults>>

\* The registration is by destination: it goes whoever made it.
Deregistered(p) == IF kind = "archive" THEN [active EXCEPT ![call[p].host] = None] ELSE active

\* link does not replace what is there.
Link(p) ==
  /\ At(p, "registered")
  /\ IF destination = None
     THEN /\ destination' = p /\ entrySynced' = FALSE /\ Goto(p, "linked")
          /\ UNCHANGED <<temp, bytes, synced, deleted, active>>
     ELSE /\ temp' = temp \ {p} /\ active' = Deregistered(p) /\ Goto(p, "failed")
          /\ UNCHANGED <<bytes, synced, destination, entrySynced, deleted>>
  /\ UNCHANGED <<fixed, acknowledged, readVars, restoreVars, faults>>

\* The link is the expected one and the temporary name goes.
Unlink(p) ==
  /\ At(p, "linked") /\ destination = p /\ Links(p) = 2
  /\ temp' = temp \ {p} /\ active' = Deregistered(p) /\ Goto(p, "unlinked")
  /\ UNCHANGED <<fixed, bytes, synced, destination, entrySynced, deleted, acknowledged, readVars,
                 restoreVars, faults>>

\* The error of a filesystem that cannot sync a directory is swallowed.
SyncDirectory(p) ==
  /\ At(p, "unlinked") /\ destination = p /\ Links(p) = 1
  /\ entrySynced' = dirSync /\ Goto(p, "published")
  /\ UNCHANGED <<fixed, temp, bytes, synced, destination, deleted, active, acknowledged, readVars,
                 restoreVars, faults>>

\* The digest of the receipt is the first thing a verification compares, so that
\* only the whole bytes of an archive pass.
Verified(read) == read = "whole"

\* create: the receipt, after an archive was read back and verified.
Acknowledge(p) ==
  /\ At(p, "published")
  /\ kind = "archive" => destination = p /\ Links(p) = 1 /\ Verified(bytes[p])
  /\ acknowledged' = acknowledged \cup {p} /\ Goto(p, "done")
  /\ UNCHANGED <<fixed, fileVars, active, readVars, restoreVars, faults>>

InProgress(p) == call[p].phase \notin {"new", "failed", "done", "dead"}

\* A check finds that the destination is no longer the file that was linked.
Changed(p) == call[p].phase \in {"linked", "unlinked", "published"} /\ destination # p

\* An error at any step, or such a check: the temporary name is removed if it can
\* be, the destination is left as it is.
Fails(p) ==
  /\ InProgress(p) /\ (Fault \/ (Changed(p) /\ UNCHANGED faults))
  /\ temp' \in {temp, temp \ {p}}
  /\ active' = IF call[p].phase \in {"registered", "linked"} THEN Deregistered(p) ELSE active
  /\ Goto(p, "failed")
  /\ UNCHANGED <<fixed, bytes, synced, destination, entrySynced, deleted, acknowledged, readVars,
                 restoreVars>>

PublishStep(p) ==
  \/ \E h \in Hosts : Begin(p, h)
  \/ CreateTemporary(p) \/ WriteAll(p) \/ SyncFile(p) \/ Register(p) \/ Link(p) \/ Unlink(p)
  \/ SyncDirectory(p) \/ Acknowledge(p) \/ Fails(p)

-----------------------------------------------------------------------------
(* readArchiveFile, readBundleFile. *)

Refuse == reader' = NoReader

\* isActivePublicationLink.
OwnPublication == LET p == destination IN
                    kind = "archive" /\ active[reader.host] = p /\ p \in temp /\ Links(p) = 2

StartReading(h) ==
  /\ reader.phase = "idle" /\ destination # None
  /\ reader' = [NoReader EXCEPT !.phase = "looking", !.host = h]
  /\ UNCHANGED <<fixed, fileVars, active, call, acknowledged, results, restoreVars, faults>>

\* lstat of the path: wait, refuse, or go on with the inode that was found.
Look ==
  /\ reader.phase = "looking"
  /\ IF destination = None THEN Refuse
     ELSE IF Links(destination) = 2
     THEN IF OwnPublication /\ reader.waits < MaxWaits
          THEN reader' = [reader EXCEPT !.waits = @ + 1] ELSE Refuse
     ELSE reader' = [reader EXCEPT !.phase = "found", !.inode = destination]
  /\ UNCHANGED <<fixed, fileVars, active, call, acknowledged, results, restoreVars, faults>>

\* open, and what is read through the handle if it is the file that was found.
ReadBytes ==
  /\ reader.phase = "found"
  /\ IF destination = reader.inode /\ Links(reader.inode) = 1
     THEN reader' = [reader EXCEPT !.phase = "read", !.read = bytes[reader.inode]]
     ELSE Refuse
  /\ UNCHANGED <<fixed, fileVars, active, call, acknowledged, results, restoreVars, faults>>

\* The handle and the path still have the same one link.
CheckAgain ==
  /\ reader.phase = "read" /\ Refuse
  /\ results' = IF destination = reader.inode /\ Links(reader.inode) = 1
                THEN results \cup {<<reader.inode, reader.read>>} ELSE results
  /\ UNCHANGED <<fixed, fileVars, active, call, acknowledged, restoreVars, faults>>

ReadStep == (\E h \in Hosts : StartReading(h)) \/ Look \/ ReadBytes \/ CheckAgain

-----------------------------------------------------------------------------
(* restoreVerifiedArchive, restoreVerifiedReleaseArchive: of verified bytes in
   memory, so it does not look at the archive again. *)

\* mkdir does not take a directory that exists.
StartRestore(h) ==
  /\ (\E r \in results : Verified(r[2])) /\ ~restore.exists
  /\ restore' = [NoRestore EXCEPT !.exists = TRUE, !.host = h] /\ powerLost' = FALSE
  /\ UNCHANGED <<fixed, fileVars, active, call, acknowledged, readVars, outage, faults>>

\* The order of the files.
ComesNext(f) ==
  LET whole(g) == restore.files[g] = "whole" IN
    IF kind = "bundle" THEN f = Manifest => \A g \in Payloads : whole(g)
    ELSE f # Manifest => whole(Manifest)

Restoring == restore.exists /\ restore.host # None /\ ~restore.reported

RestoreFile(f) ==
  /\ Restoring /\ ComesNext(f)
  /\ \A g \in Files : restore.files[g] # "part" \/ g = f
  /\ restore' = [restore EXCEPT !.files[f] = IF @ = "none" THEN "part" ELSE "whole"]
  /\ restore.files[f] # "whole"
  /\ UNCHANGED <<fixed, fileVars, active, call, acknowledged, readVars, powerLost, outage, faults>>

\* The restored directories are synced, if they can be, and the restore reports.
\* The directory that holds them is not.
FinishRestore ==
  /\ Restoring /\ \A f \in Files : restore.files[f] = "whole"
  /\ restore' = [restore EXCEPT !.reported = TRUE]
  /\ UNCHANGED <<fixed, fileVars, active, call, acknowledged, readVars, powerLost, outage, faults>>

RestoreFails ==
  /\ Restoring /\ Fault
  /\ restore' = [restore EXCEPT !.host = None]
  /\ UNCHANGED <<fixed, fileVars, active, call, acknowledged, readVars, powerLost, outage>>

RestoreStep == (\E h \in Hosts : StartRestore(h)) \/ (\E f \in Files : RestoreFile(f))
               \/ FinishRestore \/ RestoreFails

-----------------------------------------------------------------------------
(* Faults. *)

\* What is left of the calls of dead processes.
Killed(hosts) ==
  /\ call' = [p \in Publications |->
       IF InProgress(p) /\ call[p].host \in hosts THEN [call[p] EXCEPT !.phase = "dead"] ELSE call[p]]
  /\ active' = [h \in Hosts |-> IF h \in hosts THEN None ELSE active[h]]
  /\ reader' = IF reader.host \in hosts THEN NoReader ELSE reader

Die(h) ==
  /\ Fault /\ Killed({h})
  /\ restore' = IF restore.host = h THEN [restore EXCEPT !.host = None] ELSE restore
  /\ UNCHANGED <<fixed, fileVars, acknowledged, results, powerLost, outage>>

\* What was not synced may be gone: bytes, directory entries, the removal of a
\* temporary name, restored files, and a restored directory, reported or not.
PowerLoss ==
  /\ Fault /\ Killed(Hosts)
  /\ bytes' \in [Publications -> {"none", "part", "whole"}]
  /\ \A p \in Publications : bytes'[p] # bytes[p] => p \notin synced /\ bytes'[p] = "part"
                                                   /\ bytes[p] = "whole"
  /\ destination' \in {destination} \cup (IF entrySynced THEN {} ELSE {None})
  /\ LET removed == {p \in Publications \ deleted :
                       bytes[p] # "none" /\ (destination = p => ~entrySynced)}
     IN temp' \in SUBSET (temp \cup removed)
  /\ powerLost' = TRUE /\ outage' = TRUE
  /\ \/ restore' = [restore EXCEPT !.exists = FALSE, !.host = None, !.files = [f \in Files |-> "none"]]
     \/ \E lost \in SUBSET Files :
          /\ restore.reported /\ dirSync => lost = {}
          /\ restore' = [restore EXCEPT !.host = None,
                           !.files = [f \in Files |-> IF f \in lost THEN "none" ELSE @[f]]]
  /\ UNCHANGED <<fixed, synced, entrySynced, deleted, acknowledged, results>>

\* An operator deletes the destination, for good.
Delete ==
  /\ destination # None /\ Fault
  /\ deleted' = deleted \cup {destination} /\ destination' = None
  /\ UNCHANGED <<fixed, temp, bytes, synced, entrySynced, active, call, acknowledged, readVars, restoreVars>>

PublicationNext ==
  \/ \E p \in Publications : PublishStep(p)
  \/ ReadStep \/ RestoreStep \/ (\E h \in Hosts : Die(h)) \/ PowerLoss \/ Delete

PublicationSpec == PublicationInit /\ [][PublicationNext]_publicationVars

-----------------------------------------------------------------------------
(* Properties. *)

\* Whatever dies, fails or loses power between the steps of concurrent
\* publications: a reader gets whole bytes or nothing; a receipt stands for whole,
\* synced bytes, which the destination leads to, and nothing else does, until
\* somebody deletes it, so that no publication replaces another.  Where a
\* directory cannot be synced, a receipt does not promise that a loss of power
\* leaves the name.
PublishedWhole ==
  /\ \A r \in results : r[2] = "whole"
  /\ \A p \in acknowledged \ deleted :
       /\ bytes[p] = "whole" /\ p \in synced
       /\ dirSync \/ ~outage => destination = p /\ Links(p) = 1
       /\ dirSync => entrySynced

\* A restore that was reported left every file whole, or a loss of power took its
\* directory as a whole; where a directory cannot be synced, a loss of power may
\* take any of it.  And the signed manifest of a bundle does not stand beside
\* missing or half-written artifacts because the restore was interrupted: by an
\* error or a death, not by a loss of power.
RestoredWhole ==
  /\ restore.reported /\ (dirSync \/ ~powerLost) =>
       \/ \A f \in Files : restore.files[f] = "whole"
       \/ powerLost /\ ~restore.exists /\ \A f \in Files : restore.files[f] = "none"
  /\ kind = "bundle" /\ ~powerLost /\ restore.files[Manifest] # "none" =>
       \A f \in Payloads : restore.files[f] = "whole"

=============================================================================
