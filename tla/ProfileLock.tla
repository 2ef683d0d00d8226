---------------------------- MODULE ProfileLock ----------------------------
(***************************************************************************)
(* The lock artifact that lets one operator process at a time own the      *)
(* canary's stores: acquired before anything is opened, released after     *)
(* everything is known to be closed, and left behind whenever that is not  *)
(* certain.  What is locked is abstract: it starts or fails, closes or     *)
(* leaves something open (OperatorHost).                                   *)
(***************************************************************************)
EXTENDS Naturals

CONSTANTS
  Processes,
  None,
  MaxMishaps      \* bound: I/O errors, crashes, losses of power

VARIABLES
  artifact,       \* [owner, whole]: who created the lock file and whether its token is in it
  durable,        \* the file that a loss of power leaves: None, or as artifact
  pc,             \* process |-> where it is
  open,           \* processes with the stores open
  uncertain,      \* processes that could not close everything
  mishaps

lockVars == <<artifact, durable, pc, open, uncertain, mishaps>>

LockInit ==
  /\ artifact = None /\ durable = None
  /\ pc = [p \in Processes |-> "down"] /\ open = {} /\ uncertain = {} /\ mishaps = 0

At(p, where) == pc[p] = where
Goto(p, where) == pc' = [pc EXCEPT ![p] = where]
Mishap == mishaps < MaxMishaps /\ mishaps' = mishaps + 1
Owned(p) == artifact # None /\ artifact.owner = p

-----------------------------------------------------------------------------
(* acquireProfileServiceLock. *)

\* Mutant: the lock of a process that has nothing open yet is taken to be stale.
Takeable_Idle == artifact = None \/ artifact.owner \notin open

\* O_EXCL: nobody's artifact is looked into.
Takeable == artifact = None

Create(p) ==
  /\ At(p, "down")
  /\ IF Takeable
     THEN artifact' = [owner |-> p, whole |-> FALSE] /\ Goto(p, "created")
     ELSE UNCHANGED artifact /\ Goto(p, "refused")
  /\ UNCHANGED <<durable, open, uncertain, mishaps>>

WriteToken(p) ==
  /\ At(p, "created") /\ Owned(p)
  /\ artifact' = [artifact EXCEPT !.whole = TRUE] /\ Goto(p, "written")
  /\ UNCHANGED <<durable, open, uncertain, mishaps>>

\* From here on the artifact stays, whatever fails.
SyncLock(p) ==
  /\ At(p, "written") /\ durable' = artifact /\ Goto(p, "acquired")
  /\ UNCHANGED <<artifact, open, uncertain, mishaps>>

\* removePartiallyOwnedArtifact, or the artifact that must remain.
AcquireFails(p) ==
  /\ pc[p] \in {"created", "written"} /\ Mishap
  /\ artifact' = IF At(p, "created") /\ Owned(p) THEN None ELSE artifact
  /\ Goto(p, "refused")
  /\ UNCHANGED <<durable, open, uncertain>>

-----------------------------------------------------------------------------
(* The production entry: start, bindProfileServiceLock, and the decision after a
   failed start. *)

Start(p) ==
  /\ At(p, "acquired") /\ open' = open \cup {p} /\ Goto(p, "serving")
  /\ UNCHANGED <<artifact, durable, uncertain, mishaps>>

\* A start that fails closes what it opened; what it could not close keeps the lock.
StartFails(p) ==
  /\ At(p, "acquired") /\ Mishap
  /\ \/ Goto(p, "closed") /\ UNCHANGED <<open, uncertain>>
     \/ Goto(p, "held") /\ open' = open \cup {p} /\ uncertain' = uncertain \cup {p}
  /\ UNCHANGED <<artifact, durable>>

Close(p) ==
  /\ At(p, "serving") /\ open' = open \ {p} /\ Goto(p, "closed")
  /\ UNCHANGED <<artifact, durable, uncertain, mishaps>>

CloseUncertain(p) ==
  /\ At(p, "serving") /\ Mishap /\ uncertain' = uncertain \cup {p} /\ Goto(p, "held")
  /\ UNCHANGED <<artifact, durable, open>>

\* releaseOnce: the artifact goes if it is provably the process's own.
Release(p) ==
  /\ At(p, "closed")
  /\ IF Owned(p) /\ artifact.whole
     THEN artifact' = None /\ Goto(p, "released") ELSE UNCHANGED artifact /\ Goto(p, "done")
  /\ UNCHANGED <<durable, open, uncertain, mishaps>>

ReleaseSync(p) ==
  /\ At(p, "released") /\ Goto(p, "done")
  /\ \/ durable' = (IF durable # None /\ durable.owner = p THEN None ELSE durable) /\ UNCHANGED mishaps
     \/ Mishap /\ UNCHANGED durable
  /\ UNCHANGED <<artifact, open, uncertain>>

-----------------------------------------------------------------------------
(* The end of a process, and what an operator may do about a lock that stays. *)

Exit(p) ==
  /\ pc[p] \in {"refused", "done", "held"}
  /\ Goto(p, "down") /\ open' = open \ {p} /\ uncertain' = uncertain \ {p}
  /\ UNCHANGED <<artifact, durable, mishaps>>

Crash(p) ==
  /\ ~At(p, "down") /\ Mishap
  /\ Goto(p, "down") /\ open' = open \ {p} /\ uncertain' = uncertain \ {p}
  /\ UNCHANGED <<artifact, durable>>

\* A loss of power: what was not synced may be gone.
LosePower ==
  /\ Mishap /\ artifact' \in {artifact, durable}
  /\ durable' = artifact'
  /\ pc' = [p \in Processes |-> "down"] /\ open' = {} /\ uncertain' = {}

\* The documented manual recovery: the artifact of a process that is gone.
RemoveStale ==
  /\ artifact # None /\ At(artifact.owner, "down")
  /\ artifact' = None /\ durable' = None
  /\ UNCHANGED <<pc, open, uncertain, mishaps>>

ProcessStep(p) == Create(p) \/ WriteToken(p) \/ SyncLock(p) \/ AcquireFails(p) \/ Start(p) \/ StartFails(p)
                  \/ Close(p) \/ CloseUncertain(p) \/ Release(p) \/ ReleaseSync(p) \/ Exit(p) \/ Crash(p)

LockNext == (\E p \in Processes : ProcessStep(p)) \/ LosePower \/ RemoveStale

LockSpec == LockInit /\ [][LockNext]_lockVars

-----------------------------------------------------------------------------
(* Properties. *)

\* One process at a time has the canary's stores open, and as long as it has, or does
\* not know that it has not, its own lock file is there, whole and on the disk.
OneHost ==
  /\ \A p, q \in open : p = q
  /\ \A p \in open \cup uncertain : Owned(p) /\ artifact.whole /\ durable = artifact

=============================================================================
