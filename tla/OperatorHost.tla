---------------------------- MODULE OperatorHost ----------------------------
(***************************************************************************)
(* One canary operator process: the loopback server with its routes, the   *)
(* provider that admits, aborts and awaits the one-shot run, and shutdown. *)
(* Everything runs on one event loop, so that a step is what happens       *)
(* between two awaits; requests, recovery, status reads, the run, STOP and *)
(* shutdown interleave at those points.                                    *)
(*                                                                         *)
(* The run itself (ReadCanaries) is three steps here: prepare, send, end.  *)
(* `kind' selects the host: only X recovers on a status read, and skips the *)
(* recovery when nothing is on record; only Base RPC never answers with a  *)
(* receipt it did not just make.                                           *)
(***************************************************************************)
EXTENDS Naturals, FiniteSets

CONSTANTS
  Calls,          \* HTTP requests of the operator's browser
  Requests,       \* request ids of run commands
  Asks,           \* bound: call |-> the <<kind, request id>> it may ask
  None,
  MaxFaults       \* bound: failing keychain reads, claims, openings, closings, STOPs

RunPhases == {"recovering", "claiming", "revealing", "opened", "executing", "prepared", "sent",
              "executed", "ending"}
RunResults == {None, "receipt", "conflict", "error", "cleanup"}
Runs == [phase : RunPhases, request : Requests \cup {None}, epoch : Nat, revision : Nat,
         stops : Nat, result : RunResults]
Commands == {"run", "stop", "research", "status"}

ASSUME AsksAssumption == \A c \in Calls : Asks[c] \subseteq Commands \X (Requests \cup {None})
ASSUME FaultsAssumption == MaxFaults \in Nat
ASSUME NoneAssumption ==
  /\ None \notin Requests \cup Runs
  /\ None \notin {"reading", "open", "waiting", "failed", "receipt", "conflict", "error", "cleanup"}

VARIABLES
  kind,           \* "x", "opensea" or "base"
  mode, revision, \* the runtime
  stops,          \* STOPs so far
  record,         \* the durable canary: [state, request]
  marker,         \* the one-shot marker is in the Keychain
  closing,        \* #closing
  epoch,          \* #abortEpoch
  aborted,        \* the active controller was told to abort
  owned,          \* #ownedCanaryClaim
  reconciled,     \* #startupRecoveryReconciled
  incomplete,     \* #incompleteCleanupError
  run,            \* #activeRun
  recovery,       \* #activeRecovery
  status,         \* #activeStatus
  handles,        \* who has the stores open
  leaked,         \* a store was not closed
  running,        \* readCanaryRouteState.running
  call,           \* call |-> [phase, kind, request, seen, answer]
  shutdown,       \* [phase, awaited, failed]
  sent,           \* requests sent to the provider: [admitted, at] counting STOPs
  faults

runtimeVars == <<mode, revision, stops>>
durableVars == <<record, marker>>
flagVars == <<closing, epoch, aborted, owned, reconciled, incomplete>>
workVars == <<run, recovery, status, handles, leaked>>
serverVars == <<running, call>>
hostVars == <<kind, runtimeVars, durableVars, flagVars, workVars, serverVars, shutdown, sent, faults>>

NoRecord == [state |-> "none", request |-> None]
NewCall == [phase |-> "new", kind |-> None, request |-> None, seen |-> 0, answer |-> None]

\* initialize has run: its recovery may not have been made for want of a credential,
\* which X does not need when nothing is on record; a receipt comes with its marker.
HostInit ==
  /\ kind \in {"x", "opensea", "base"}
  /\ mode = "RESEARCH" /\ revision = 1 /\ stops = 0
  /\ reconciled \in BOOLEAN
  /\ \/ record = NoRecord /\ marker = FALSE /\ (kind = "x" => reconciled)
     \/ \E q \in Requests : record = [state |-> "done", request |-> q] /\ marker = TRUE
     \/ \E q \in Requests : record = [state |-> "interrupted", request |-> q] /\ marker = FALSE
                            /\ ~reconciled
  /\ closing = FALSE /\ epoch = 0 /\ aborted = FALSE /\ owned = FALSE /\ incomplete = FALSE
  /\ run = None /\ recovery = None /\ status = None /\ handles = {} /\ leaked = FALSE
  /\ running = FALSE /\ call = [c \in Calls |-> NewCall]
  /\ shutdown = [phase |-> "open", awaited |-> {}, failed |-> FALSE]
  /\ sent = {} /\ faults = 0

Fault == faults < MaxFaults /\ faults' = faults + 1
NoFault == UNCHANGED faults
HostClosing == shutdown.phase # "open"
Controlled == run # None /\ run.phase \in {"executing", "prepared", "sent"}

-----------------------------------------------------------------------------
(* The server: a request waits for its body and then for its handler. *)

Answer(c, answer) == call' = [call EXCEPT ![c].phase = "done", ![c].answer = answer]

\* route up to readControlBody.  The routes of OpenSea and Base RPC look at the
\* mode before they read the body of a run.
Arrive(c, k, q) ==
  /\ call[c].phase = "new" /\ shutdown.phase \in {"open", "stopped"}
  /\ LET refused == k = "run" /\ kind # "x" /\ (HostClosing \/ mode # "RESEARCH") IN
       call' = [call EXCEPT ![c] = [NewCall EXCEPT !.phase = IF refused THEN "done" ELSE "body",
                  !.kind = k, !.request = q, !.seen = revision,
                  !.answer = IF refused THEN "conflict" ELSE None]]
  /\ UNCHANGED <<kind, runtimeVars, durableVars, flagVars, workVars, running, shutdown, sent, faults>>

\* The client goes away, or its body does not come in time; of what already
\* executes neither stops anything.
Disconnect(c) ==
  /\ call[c].phase = "body" /\ call' = [call EXCEPT ![c].phase = "done"]
  /\ UNCHANGED <<kind, runtimeVars, durableVars, flagVars, workVars, running, shutdown, sent, faults>>

Body(c, k) == call[c].phase = "body" /\ call[c].kind = k

\* abortActive: the epoch moves on whatever the controller does, which may throw.
Aborts == epoch' = epoch + 1 /\ aborted' = (aborted \/ Controlled)
AbortThrows == Controlled /\ Fault /\ epoch' = epoch + 1 /\ UNCHANGED aborted

StopPersists == mode' = "STOPPED" /\ revision' = revision + 1 /\ stops' = stops + 1

\* An abort that throws never keeps the STOP from being persisted.
HandleStop(c) ==
  /\ Body(c, "stop")
  /\ \/ /\ (Aborts /\ NoFault) \/ AbortThrows
        /\ \/ ~HostClosing /\ StopPersists /\ Answer(c, "ok")
           \/ HostClosing /\ Answer(c, "conflict") /\ UNCHANGED runtimeVars
     \/ ~HostClosing /\ Aborts /\ Fault /\ Answer(c, "error") /\ UNCHANGED runtimeVars
  /\ UNCHANGED <<kind, durableVars, closing, owned, reconciled, incomplete, workVars, running,
                 shutdown, sent>>

HandleResearch(c) ==
  /\ Body(c, "research")
  /\ IF ~HostClosing /\ mode = "STOPPED" /\ call[c].seen = revision
     THEN mode' = "RESEARCH" /\ revision' = revision + 1 /\ UNCHANGED stops /\ Answer(c, "ok")
     ELSE UNCHANGED runtimeVars /\ Answer(c, "conflict")
  /\ UNCHANGED <<kind, durableVars, flagVars, workVars, running, shutdown, sent, faults>>

\* #existingReceipt.
Existing == record.state = "done"
Retained(q) == Existing /\ record.request = q /\ kind # "base"

\* recoverInterruptedIfPossible up to its first await: what a caller has to wait
\* for.  Only X looks at the record first; the others open their stores anyway.
RecoveryWanted == ~Controlled /\ ~owned /\ run = None /\ ~reconciled
NothingToRecover == kind = "x" /\ record.state = "none"

\* The run route and executeReadCanary up to the first await.
HandleRun(c) ==
  /\ Body(c, "run") /\ NoFault
  /\ LET q == call[c].request
         current == mode = "RESEARCH" /\ revision = call[c].seen
         admitted == ~running /\ ~closing /\ run = None /\ current
     IN \/ /\ admitted /\ ~Existing /\ ~owned
           /\ running' = TRUE /\ call' = [call EXCEPT ![c].phase = "executing"]
           /\ run' = [phase |-> "recovering", request |-> q, epoch |-> epoch, revision |-> revision,
                      stops |-> stops, result |-> None]
           /\ recovery' = IF recovery = None /\ RecoveryWanted /\ ~NothingToRecover
                          THEN "reading" ELSE recovery
           /\ reconciled' = (reconciled \/ (recovery = None /\ RecoveryWanted /\ NothingToRecover))
        \/ /\ admitted /\ Retained(q) /\ Answer(c, "receipt")
           /\ UNCHANGED <<running, run, recovery, reconciled>>
        \/ /\ ~admitted \/ (Existing /\ ~Retained(q)) \/ (~Existing /\ owned)
           /\ Answer(c, "conflict") /\ UNCHANGED <<running, run, recovery, reconciled>>
  /\ UNCHANGED <<kind, runtimeVars, durableVars, closing, epoch, aborted, owned, incomplete, status,
                 handles, leaked, shutdown, sent>>

\* getReadCanaryProjection of X, refresh...CredentialStatus of the others.
HandleStatus(c) ==
  /\ Body(c, "status") /\ NoFault
  /\ \/ closing /\ Answer(c, "conflict") /\ UNCHANGED <<status, recovery, reconciled>>
     \/ /\ ~closing /\ status # None /\ call' = [call EXCEPT ![c].phase = "joined"]
        /\ UNCHANGED <<status, recovery, reconciled>>
     \/ /\ ~closing /\ status = None /\ kind = "x" /\ Controlled /\ Answer(c, "ok")
        /\ UNCHANGED <<status, recovery, reconciled>>
     \/ /\ ~closing /\ status = None /\ ~(kind = "x" /\ Controlled)
        /\ call' = [call EXCEPT ![c].phase = "joined"]
        /\ LET recovers == kind = "x" /\ recovery = None /\ RecoveryWanted IN
             /\ recovery' = IF recovers /\ ~NothingToRecover THEN "reading" ELSE recovery
             /\ reconciled' = (reconciled \/ (recovers /\ NothingToRecover))
             /\ status' = IF kind = "x" /\ ~owned /\ recovery' # None THEN "waiting" ELSE "reading"
  /\ UNCHANGED <<kind, runtimeVars, durableVars, closing, epoch, aborted, owned, incomplete, run,
                 handles, leaked, running, shutdown, sent>>

-----------------------------------------------------------------------------
(* Recovery and status. *)

\* withStorageSecrets: a missing credential ends it, otherwise the stores are opened.
RecoveryOpens ==
  /\ recovery = "reading" /\ recovery' = "open" /\ handles' = handles \cup {"recovery"}
  /\ UNCHANGED <<kind, runtimeVars, durableVars, flagVars, run, status, leaked, serverVars, shutdown,
                 sent, faults>>

\* Settling a piece of work that a shutdown waits for.
Settled(what) == shutdown' = [shutdown EXCEPT !.awaited = @ \ {what}]

\* Mutant: a recovery that failed does not wake the status read that waits for it.
WaitersGoOn_Swallowed(failed) ==
  /\ status' = IF status = "waiting" /\ failed = None THEN "reading" ELSE status
  /\ run' = IF run # None /\ run.phase = "recovering" /\ failed # None
            THEN [run EXCEPT !.phase = "ending", !.result = "error"] ELSE run

\* What an error does to those who wait: a status read swallows that of a missing
\* credential and no other, the run ends with any.
WaitersGoOn(failed) ==
  /\ status' = IF status # "waiting" THEN status
               ELSE IF failed \in {"cleanup", "error"} THEN "failed" ELSE "reading"
  /\ run' = IF run # None /\ run.phase = "recovering" /\ failed # None
            THEN [run EXCEPT !.phase = "ending", !.result = "error"] ELSE run

\* #latchIncompleteCleanupError.
Latch == closing' = TRUE /\ incomplete' = TRUE

RecoveryUnavailable ==
  /\ recovery = "reading" /\ Fault
  /\ recovery' = None /\ WaitersGoOn("credential") /\ Settled("recovery")
  /\ UNCHANGED <<kind, runtimeVars, durableVars, flagVars, handles, leaked, serverVars, sent>>

\* What is interrupted on record gets its receipt.
Settles == record' = [record EXCEPT !.state = IF @ = "interrupted" THEN "done" ELSE @]

\* The canary is settled and the stores are closed.  A recovery that throws, before
\* or after it settled the canary, may be made again; one that could not open or
\* close a store latches.
RecoveryEnds ==
  /\ recovery = "open" /\ recovery' = None /\ handles' = handles \ {"recovery"} /\ Settled("recovery")
  /\ \/ /\ NoFault /\ Settles /\ reconciled' = TRUE /\ WaitersGoOn(None)
        /\ UNCHANGED <<closing, incomplete, leaked>>
     \/ /\ Fault /\ (Settles \/ UNCHANGED record) /\ WaitersGoOn("error")
        /\ UNCHANGED <<closing, incomplete, leaked, reconciled>>
     \/ /\ Fault /\ (Settles \/ UNCHANGED record) /\ WaitersGoOn("cleanup")
        /\ leaked' = TRUE /\ Latch /\ UNCHANGED reconciled
  /\ UNCHANGED <<kind, runtimeVars, marker, epoch, aborted, owned, serverVars, sent>>

\* The status of the credential is read, and then the canary's events.
StatusEnds ==
  /\ status \in {"reading", "failed"} /\ status' = None /\ Settled("status")
  /\ call' = [c \in Calls |-> IF call[c].phase = "joined"
                THEN [call[c] EXCEPT !.phase = "done",
                                     !.answer = IF status = "failed" THEN "error" ELSE "ok"]
                ELSE call[c]]
  /\ UNCHANGED <<kind, runtimeVars, durableVars, flagVars, run, recovery, handles, leaked, running,
                 sent, faults>>

-----------------------------------------------------------------------------
(* The run. *)

\* The run goes to a phase; `Ends' is its last await before the promise settles.
RunGoes(phase) == run' = [run EXCEPT !.phase = phase]
RunEnds(result) == run' = [run EXCEPT !.phase = "ending", !.result = result]

Stopped == closing \/ epoch # run.epoch
Stale == mode # "RESEARCH" \/ revision # run.revision

InRun(phase) == run # None /\ run.phase = phase

Recovered == recovery = None

\* executeAfterRecovery and runWithKeychain up to the claim.
RunRecovered ==
  /\ InRun("recovering") /\ Recovered
  /\ IF Stopped THEN RunEnds("conflict")
     ELSE IF Retained(run.request) THEN RunEnds("receipt")
     ELSE IF Existing \/ Stale THEN RunEnds("conflict")
     ELSE RunGoes("claiming")
  /\ UNCHANGED <<kind, runtimeVars, durableVars, flagVars, recovery, status, handles, leaked,
                 serverVars, shutdown, sent, faults>>

\* The claim, which may be made although its answer is lost.
RunClaims ==
  /\ InRun("claiming")
  /\ \/ /\ ~marker /\ marker' = TRUE /\ owned' = TRUE /\ NoFault
        /\ IF Stopped \/ Stale THEN RunEnds("conflict") ELSE RunGoes("revealing")
     \/ marker /\ RunEnds("error") /\ NoFault /\ UNCHANGED <<marker, owned>>
     \/ Fault /\ marker' \in {marker, TRUE} /\ RunEnds("error") /\ UNCHANGED owned
  /\ UNCHANGED <<kind, runtimeVars, record, closing, epoch, aborted, reconciled, incomplete, recovery,
                 status, handles, leaked, serverVars, shutdown, sent>>

\* withSecrets, and the stores are opened for the run; an opening that fails may
\* have left something open.
RunOpens ==
  /\ InRun("revealing")
  /\ \/ ~Stopped /\ NoFault /\ handles' = handles \cup {"run"} /\ RunGoes("opened") /\ UNCHANGED leaked
     \/ Stopped /\ NoFault /\ RunEnds("conflict") /\ UNCHANGED <<handles, leaked>>
     \/ Fault /\ RunEnds("error") /\ UNCHANGED <<handles, leaked>>
     \/ ~Stopped /\ Fault /\ RunEnds("cleanup") /\ leaked' = TRUE /\ UNCHANGED handles
  /\ UNCHANGED <<kind, runtimeVars, durableVars, flagVars, recovery, status, serverVars, shutdown, sent>>

\* The run's own recovery, which may throw too, and then the controller.
RunReady ==
  /\ InRun("opened")
  /\ \/ /\ NoFault /\ Settles
        /\ IF record.state = "none" THEN RunGoes("executing")
           ELSE run' = [run EXCEPT !.phase = "executed",
                          !.result = IF Retained(run.request) THEN "receipt" ELSE "conflict"]
     \/ /\ Fault /\ (Settles \/ UNCHANGED record)
        /\ run' = [run EXCEPT !.phase = "executed", !.result = "error"]
  /\ aborted' = FALSE
  /\ UNCHANGED <<kind, runtimeVars, marker, closing, epoch, owned, reconciled, incomplete, recovery,
                 status, handles, leaked, serverVars, shutdown, sent>>

\* The controller and the runtime's dispatch check the mode, not the host.
Authorized == ~Stale

ControllerPrepares ==
  /\ InRun("executing")
  /\ IF Authorized /\ ~aborted
     THEN record' = [state |-> "interrupted", request |-> run.request] /\ RunGoes("prepared")
     ELSE run' = [run EXCEPT !.phase = "executed", !.result = "conflict"] /\ UNCHANGED record
  /\ UNCHANGED <<kind, runtimeVars, marker, flagVars, recovery, status, handles, leaked, serverVars,
                 shutdown, sent, faults>>

ControllerSends ==
  /\ InRun("prepared") /\ Authorized /\ ~aborted /\ RunGoes("sent")
  /\ sent' = sent \cup {[request |-> run.request, admitted |-> run.stops, at |-> stops]}
  /\ UNCHANGED <<kind, runtimeVars, durableVars, flagVars, recovery, status, handles, leaked,
                 serverVars, shutdown, faults>>

\* With a receipt, of success or of failure, or without one.
ControllerEnds ==
  /\ InRun("sent") \/ (InRun("prepared") /\ (aborted \/ ~Authorized))
  /\ \/ /\ NoFault /\ record' = [record EXCEPT !.state = "done"]
        /\ run' = [run EXCEPT !.phase = "executed", !.result = "receipt"]
     \/ /\ Fault /\ UNCHANGED record
        /\ run' = [run EXCEPT !.phase = "executed", !.result = "error"]
  /\ UNCHANGED <<kind, runtimeVars, marker, flagVars, recovery, status, handles, leaked, serverVars,
                 shutdown, sent>>

\* The finally of runWithKeychain.
RunCloses ==
  /\ InRun("executed") /\ handles' = handles \ {"run"}
  /\ \/ NoFault /\ RunGoes("ending") /\ UNCHANGED leaked
     \/ Fault /\ RunEnds("cleanup") /\ leaked' = TRUE
  /\ UNCHANGED <<kind, runtimeVars, durableVars, flagVars, recovery, status, serverVars, shutdown, sent>>

\* The promise settles: the provider forgets the run, the route answers.
RunSettles ==
  /\ InRun("ending") /\ run' = None /\ running' = FALSE /\ Settled("run")
  /\ IF run.result = "cleanup" THEN Latch ELSE UNCHANGED <<closing, incomplete>>
  /\ call' = [c \in Calls |-> IF call[c].phase = "executing"
                THEN [call[c] EXCEPT !.phase = "done",
                                     !.answer = IF run.result = "cleanup" THEN "error" ELSE run.result]
                ELSE call[c]]
  /\ UNCHANGED <<kind, runtimeVars, durableVars, epoch, aborted, owned, reconciled, recovery, status,
                 handles, leaked, sent, faults>>

RunStep == RunRecovered \/ RunClaims \/ RunOpens \/ RunReady \/ ControllerPrepares \/ ControllerSends
           \/ ControllerEnds \/ RunCloses \/ RunSettles

-----------------------------------------------------------------------------
(* Shutdown: closeCanaryResourceSet takes every step, whatever fails. *)

ShutdownGoes(phase, failed) ==
  shutdown' = [shutdown EXCEPT !.phase = phase, !.failed = @ \/ failed]

\* beginClosing and the first STOP.  An abort that throws is remembered, and the
\* provider's close reports it.
CloseBegins ==
  /\ shutdown.phase = "open" /\ closing' = TRUE
  /\ \/ Aborts /\ StopPersists /\ ShutdownGoes("stopped", FALSE) /\ NoFault
     \/ Aborts /\ Fault /\ ShutdownGoes("stopped", TRUE) /\ UNCHANGED runtimeVars
     \/ AbortThrows /\ StopPersists /\ ShutdownGoes("stopped", TRUE)
  /\ UNCHANGED <<kind, durableVars, owned, reconciled, incomplete, workVars, serverVars, sent>>

\* Mutant: what a status read began is not waited for.
Awaited_NoStatus == (IF run # None THEN {"run"} ELSE {}) \cup (IF recovery # None THEN {"recovery"} ELSE {})

\* What the provider's close waits for: what is active when it is called.
Awaited == (IF run # None THEN {"run"} ELSE {}) \cup (IF recovery # None THEN {"recovery"} ELSE {})
           \cup (IF status # None THEN {"status"} ELSE {})

\* The server's close, which goes on if the abort throws: no connection is left.
ServerCloses ==
  /\ shutdown.phase = "stopped" /\ ((Aborts /\ NoFault) \/ AbortThrows)
  /\ shutdown' = [shutdown EXCEPT !.phase = "unserved", !.awaited = Awaited]
  /\ call' = [c \in Calls |-> [call[c] EXCEPT !.phase = IF @ = "body" THEN "done" ELSE @]]
  /\ UNCHANGED <<kind, runtimeVars, durableVars, closing, owned, reconciled, incomplete, workVars,
                 running, sent>>

ProviderCloses ==
  /\ shutdown.phase = "unserved" /\ shutdown.awaited = {}
  /\ ShutdownGoes("settled", incomplete)
  /\ UNCHANGED <<kind, runtimeVars, durableVars, flagVars, workVars, serverVars, sent, faults>>

StoresClose ==
  /\ shutdown.phase = "settled"
  /\ \/ NoFault /\ ShutdownGoes("stores closed", FALSE)
     \/ Fault /\ ShutdownGoes("stores closed", TRUE)
  /\ UNCHANGED <<kind, runtimeVars, durableVars, flagVars, workVars, serverVars, sent>>

\* The second STOP, under an id of its own and so a revision of its own, and the end.
RuntimeCloses ==
  /\ shutdown.phase = "stores closed"
  /\ \/ ShutdownGoes("closed", FALSE) /\ NoFault /\ StopPersists
     \/ Fault /\ ShutdownGoes("closed", TRUE) /\ UNCHANGED runtimeVars
  /\ UNCHANGED <<kind, durableVars, flagVars, workVars, serverVars, sent>>

ShutdownStep == ServerCloses \/ ProviderCloses \/ StoresClose \/ RuntimeCloses

-----------------------------------------------------------------------------
HandlerStep(c) == HandleStop(c) \/ HandleResearch(c) \/ HandleRun(c) \/ HandleStatus(c)
WorkStep == RecoveryOpens \/ RecoveryUnavailable \/ RecoveryEnds \/ StatusEnds \/ RunStep

HostNext ==
  \/ \E c \in Calls : HandlerStep(c) \/ Disconnect(c)
  \/ \E c \in Calls : \E ask \in Asks[c] : Arrive(c, ask[1], ask[2])
  \/ WorkStep \/ CloseBegins \/ ShutdownStep

HostSpec == HostInit /\ [][HostNext]_hostVars

\* Whatever the loop has to do, it does: a body comes or times out, a keychain
\* command ends by its timeout, the controller by its own.  Nobody has to shut
\* the process down or to send a request.
HostFairness == /\ WF_hostVars(WorkStep) /\ WF_hostVars(ShutdownStep)
                /\ \A c \in Calls : WF_hostVars(HandlerStep(c) \/ Disconnect(c))

FairHost == HostSpec /\ HostFairness

-----------------------------------------------------------------------------
(* What the host is given by its process and by the machine: the lock under which it *)
(* opens the stores, and the Keychain that holds its keys and the marker.            *)

CONSTANTS
  Processes, MaxMishaps,       \* of ProfileLock
  Uses, Claimants, MaxUpsets   \* of Keychain

ASSUME NoArtifactAssumption ==
  None \notin [owner : Processes, whole : BOOLEAN] \cup {"whole", "wiped"}

VARIABLES
  artifact, durable, pc, open, uncertain, mishaps,      \* of ProfileLock
  item, use, key, onceMarker, claim, claimed, upsets    \* of Keychain

Lock == INSTANCE ProfileLock
Keys == INSTANCE Keychain WITH marker <- onceMarker

-----------------------------------------------------------------------------
(* Properties. *)

\* The stores of the canary are open once at a time: a recovery that a status
\* read began and the run that came after it do not overlap.
RunsAlone == Cardinality(handles) =< 1

\* When the stores and the runtime are closed, nothing that uses them is left, and
\* a shutdown that reports no failure, upon which the profile lock is released,
\* has left the runtime stopped and nothing open.
ClosedMeansQuiet ==
  /\ shutdown.phase \in {"stores closed", "closed"} =>
       run = None /\ recovery = None /\ status = None /\ handles = {}
  /\ shutdown.phase = "closed" /\ ~shutdown.failed => ~leaked /\ mode = "STOPPED"

\* No provider request goes out once a STOP came after the run was admitted, at most
\* one goes out, under the permanent marker; and an answer with a receipt is of
\* the caller's own request.
RequestsFollowConsent ==
  /\ \A s \in sent : s.admitted = s.at
  /\ Cardinality(sent) =< 1 /\ (sent # {} => marker /\ owned)
  /\ \A c \in Calls : call[c].answer = "receipt" => Existing /\ record.request = call[c].request

\* The canary's stores are open once at a time, a shutdown that reports no failure has
\* left nothing running or open, and no provider request goes out after a STOP, without
\* the permanent marker or a second time.
HostIsAlone == RunsAlone /\ ClosedMeansQuiet /\ RequestsFollowConsent

\* One process at a time has the canary's stores open, its lock file on the disk for as
\* long; a key is in memory only while the call that read it runs, and over all
\* processes one claim succeeds at most.
LockAndKeysAreKept == Lock!OneHost /\ Keys!KeychainIsKept

\* Every call is answered or dropped, and a shutdown that began ends.
CallsEnd ==
  /\ \A c \in Calls : (call[c].phase \in {"body", "executing", "joined"} ~> call[c].phase = "done")
  /\ HostClosing ~> shutdown.phase = "closed"

=============================================================================
