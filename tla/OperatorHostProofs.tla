------------------------- MODULE OperatorHostProofs -------------------------
(***************************************************************************)
(* Theorems about OperatorHost, for every set of calls and requests and    *)
(* every number of faults: the stores of the canary are open once at a     *)
(* time, a shutdown that reports no failure leaves nothing behind it, and  *)
(* no request goes out after a STOP, without the marker or a second time.  *)
(* The last two parts are about the profile's lock and the Keychain.       *)
(***************************************************************************)
EXTENDS OperatorHost, Sequences, FiniteSetTheorems, TLAPS

-----------------------------------------------------------------------------
(* The invariant: the types first. *)

FlagsTyped ==
  /\ kind \in {"x", "opensea", "base"}
  /\ mode \in {"RESEARCH", "STOPPED"} /\ revision \in Nat /\ stops \in Nat
  /\ marker \in BOOLEAN /\ closing \in BOOLEAN /\ aborted \in BOOLEAN /\ owned \in BOOLEAN
  /\ reconciled \in BOOLEAN /\ incomplete \in BOOLEAN /\ leaked \in BOOLEAN /\ running \in BOOLEAN
  /\ epoch \in Nat /\ faults \in Nat
  /\ recovery \in {None, "reading", "open"}
  /\ status \in {None, "waiting", "reading", "failed"}
  /\ handles \subseteq {"run", "recovery"}

Records == [state : {"none", "interrupted", "done"}, request : Requests \cup {None}]
RecordTyped == record \in Records

RunTyped == run = None \/ run \in Runs

CallRecords == [phase : {"new", "body", "executing", "joined", "done"},
                kind : Commands \cup {None}, request : Requests \cup {None}, seen : Nat,
                answer : RunResults \cup {"ok"}]
CallsTyped == call \in [Calls -> CallRecords]

Shutdowns == [phase : {"open", "stopped", "unserved", "settled", "stores closed", "closed"},
              awaited : SUBSET {"run", "recovery", "status"}, failed : BOOLEAN]
ShutdownTyped == shutdown \in Shutdowns

SentTyped == sent \subseteq [request : Requests \cup {None}, admitted : Nat, at : Nat]

HostTypeOK == FlagsTyped /\ RecordTyped /\ RunTyped /\ CallsTyped /\ ShutdownTyped /\ SentTyped

(* Who has the stores open is who says so, and a recovery is over before the *)
(* run that waits for it goes on.                                            *)
Holding == {"opened", "executing", "prepared", "sent", "executed"}

HandlesAgree ==
  /\ "run" \in handles => run # None /\ run.phase \in Holding
  /\ "recovery" \in handles => recovery = "open"
  /\ recovery # None => run = None \/ run.phase = "recovering"

(* Once the host closes nothing new begins, so that what the shutdown waits *)
(* for is all there is; what a store left open is reported, if need be by   *)
(* the run that is about to end.                                            *)
Settling == {"settled", "stores closed", "closed"}

ShutdownAgrees ==
  /\ HostClosing => closing
  /\ shutdown.phase = "unserved" => Awaited \subseteq shutdown.awaited
  /\ shutdown.phase \in Settling => Awaited = {} /\ (leaked => shutdown.failed)
  /\ shutdown.phase = "closed" /\ ~shutdown.failed => mode = "STOPPED"
  /\ leaked => incomplete \/ (InRun("ending") /\ run.result = "cleanup")

(* While the revision is the one a run was admitted at no STOP has come; a *)
(* run past its claim holds the marker and is the first that did.          *)
Claimed == {"revealing", "opened", "executing", "prepared"}

RequestsAgree ==
  /\ run # None => run.revision <= revision /\ (run.revision = revision => run.stops = stops)
  /\ \A s \in sent : s.admitted = s.at
  /\ \A s, t \in sent : s = t
  /\ sent # {} => marker /\ owned
  /\ run # None /\ run.phase \in Claimed => sent = {} /\ marker /\ owned

(* The canary on record is the run's from its preparation on. *)
RecordAgrees ==
  /\ run # None /\ run.result = "receipt" => Existing /\ record.request = run.request
  /\ InRun("executing") => record.state = "none"
  /\ InRun("prepared") \/ InRun("sent") => record = [state |-> "interrupted", request |-> run.request]

CallsAgree ==
  \A c \in Calls :
    /\ call[c].phase = "executing" => run # None /\ run.request = call[c].request
    /\ call[c].answer = "receipt" => Existing /\ record.request = call[c].request

HostInv == /\ HostTypeOK
           /\ HandlesAgree /\ ShutdownAgrees /\ RequestsAgree /\ RecordAgrees /\ CallsAgree

-----------------------------------------------------------------------------
(* What the assignments of the steps do to the records. *)

\* The fields of a run.
LEMMA RunFields ==
  ASSUME NEW r \in Runs
  PROVE  /\ r # None /\ r.phase \in RunPhases /\ r.result \in RunResults
         /\ r.request \in Requests \cup {None} /\ r.revision \in Nat /\ r.stops \in Nat
  BY NoneAssumption DEF Runs

\* The run is in a new phase, with a result, and otherwise as it was.
Moved(p, result) ==
  /\ run' \in Runs /\ run' # None /\ run'.phase = p /\ run'.result = result
  /\ run'.request = run.request /\ run'.revision = run.revision /\ run'.stops = run.stops

\* RunGoes, RunEnds and the answer of the controller only move the run.
LEMMA RunMoves ==
  ASSUME NEW p \in RunPhases, NEW result \in RunResults, RunTyped, run # None
  PROVE  /\ RunGoes(p) => Moved(p, run.result)
         /\ RunEnds(result) => Moved("ending", result)
         /\ run' = [run EXCEPT !.phase = p, !.result = result] => Moved(p, result)
<1>1. run \in Runs
  BY DEF RunTyped
<1>2. ASSUME NEW q \in RunPhases, NEW x \in RunResults
      PROVE  run' = [run EXCEPT !.phase = q, !.result = x] => Moved(q, x)
  <2>1. [run EXCEPT !.phase = q, !.result = x] \in Runs
    BY <1>1 DEF Runs
  <2>2. QED
    BY <1>1, <2>1, RunFields DEF Runs, Moved
<1>3. RunGoes(p) => Moved(p, run.result)
  <2>1. [run EXCEPT !.phase = p] \in Runs
    BY <1>1 DEF Runs
  <2>2. QED
    BY <1>1, <2>1, RunFields DEF Runs, Moved, RunGoes
<1>4. QED
  BY <1>2, <1>3 DEF RunEnds, RunPhases

\* A recovery that failed ends the run that waits for it; a status read goes on.
RunWaited == run # None /\ run.phase = "recovering" /\ Moved("ending", "error")

LEMMA WaitersMove ==
  ASSUME NEW failed, RunTyped, FlagsTyped, WaitersGoOn(failed)
  PROVE  /\ run' = run \/ RunWaited
         /\ status' \in {None, "waiting", "reading", "failed"}
         /\ status' = None <=> status = None
<1>1. run' = run \/ RunWaited
  <2>1. CASE run # None /\ run.phase = "recovering" /\ failed # None
    <3>1. run' = [run EXCEPT !.phase = "ending", !.result = "error"]
      BY <2>1 DEF WaitersGoOn
    <3>2. QED
      BY <2>1, <3>1, RunMoves DEF RunWaited, RunPhases, RunResults
  <2>2. QED
    BY <2>1 DEF WaitersGoOn
<1>2. QED
  BY <1>1, NoneAssumption DEF WaitersGoOn, FlagsTyped

\* A shutdown goes to a phase, and remembers a failure.
LEMMA ShutdownMoves ==
  ASSUME ShutdownTyped, NEW f \in BOOLEAN,
         NEW p \in {"open", "stopped", "unserved", "settled", "stores closed", "closed"},
         ShutdownGoes(p, f)
  PROVE  /\ ShutdownTyped' /\ shutdown'.phase = p /\ shutdown'.awaited = shutdown.awaited
         /\ shutdown'.failed = (shutdown.failed \/ f)
  BY DEF ShutdownTyped, Shutdowns, ShutdownGoes

\* A piece of work that settles is no longer waited for.
LEMMA SettledMoves ==
  ASSUME ShutdownTyped, NEW what, Settled(what)
  PROVE  /\ ShutdownTyped' /\ shutdown'.phase = shutdown.phase /\ shutdown'.failed = shutdown.failed
         /\ shutdown'.awaited = shutdown.awaited \ {what}
  BY DEF ShutdownTyped, Shutdowns, Settled

\* No call begins to execute or gets a receipt.
NothingPromised ==
  /\ CallsTyped'
  /\ \A c \in Calls :
       /\ call'[c].phase = "executing" => call[c].phase = "executing" /\ call'[c].request = call[c].request
       /\ call'[c].answer = "receipt" => call[c].answer = "receipt" /\ call'[c].request = call[c].request

\* One call is answered, and the others are as they were.
LEMMA CallAnswered ==
  ASSUME CallsTyped, NEW c \in Calls, NEW answer \in RunResults \cup {"ok"}, Answer(c, answer)
  PROVE  /\ CallsTyped' /\ call'[c].phase = "done" /\ call'[c].answer = answer
         /\ call'[c].request = call[c].request
         /\ \A d \in Calls \ {c} : call'[d] = call[d]
         /\ answer # "receipt" => NothingPromised
<1>1. call[c] \in CallRecords
  BY DEF CallsTyped
<1>2. [call[c] EXCEPT !.phase = "done", !.answer = answer] \in CallRecords
  BY <1>1 DEF CallRecords
<1>3. call' = [call EXCEPT ![c] = [call[c] EXCEPT !.phase = "done", !.answer = answer]]
  BY DEF Answer, CallsTyped
<1>4. CallsTyped' /\ \A d \in Calls \ {c} : call'[d] = call[d]
  BY <1>2, <1>3 DEF CallsTyped
<1>5. call'[c].phase = "done" /\ call'[c].answer = answer /\ call'[c].request = call[c].request
  BY <1>1, <1>3 DEF CallsTyped, CallRecords
<1>6. QED
  BY <1>4, <1>5 DEF NothingPromised

\* One call goes to another phase, and the others are as they were.
LEMMA CallMoves ==
  ASSUME CallsTyped, NEW c \in Calls, NEW p \in {"executing", "joined", "done"},
         call' = [call EXCEPT ![c].phase = p]
  PROVE  /\ CallsTyped' /\ call'[c].phase = p /\ call'[c].answer = call[c].answer
         /\ call'[c].request = call[c].request
         /\ \A d \in Calls \ {c} : call'[d] = call[d]
         /\ p # "executing" => NothingPromised
<1>1. call[c] \in CallRecords
  BY DEF CallsTyped
<1>2. [call[c] EXCEPT !.phase = p] \in CallRecords
  BY <1>1 DEF CallRecords
<1>3. call' = [call EXCEPT ![c] = [call[c] EXCEPT !.phase = p]]
  BY DEF CallsTyped
<1>4. CallsTyped' /\ \A d \in Calls \ {c} : call'[d] = call[d]
  BY <1>2, <1>3 DEF CallsTyped
<1>5. call'[c].phase = p /\ call'[c].answer = call[c].answer /\ call'[c].request = call[c].request
  BY <1>1, <1>3 DEF CallsTyped, CallRecords
<1>6. QED
  BY <1>4, <1>5 DEF NothingPromised

\* With nothing promised, and run and record as they were, the calls still agree.
LEMMA CallsStillAgree ==
  ASSUME CallsAgree, NothingPromised, UNCHANGED <<run, record>>
  PROVE  CallsAgree'
  BY DEF CallsAgree, NothingPromised, Existing

\* A recovery settles an interrupted canary, or throws before, and leaves every other
\* record alone.
LEMMA RecordSettles ==
  ASSUME RecordTyped, Settles \/ UNCHANGED record
  PROVE  /\ RecordTyped' /\ record'.request = record.request
         /\ record.state # "interrupted" => record' = record
<1>1. record \in Records
  BY DEF RecordTyped
<1>2. CASE UNCHANGED record
  BY <1>1, <1>2 DEF RecordTyped, Records
<1>3. CASE Settles /\ record.state = "interrupted"
  BY <1>1, <1>3 DEF Settles, RecordTyped, Records
<1>4. CASE Settles /\ record.state # "interrupted"
  BY <1>1, <1>4 DEF Settles, RecordTyped, Records
<1>5. QED
  BY <1>2, <1>3, <1>4

\* An abort, thrown or not, moves the epoch on and may tell the controller.
LEMMA AbortMoves ==
  ASSUME FlagsTyped, (Aborts /\ NoFault) \/ (Aborts /\ Fault) \/ AbortThrows
  PROVE  /\ epoch' = epoch + 1 /\ aborted' \in BOOLEAN /\ faults' \in {faults, faults + 1}
         /\ epoch' \in Nat /\ faults' \in Nat
<1>1. epoch \in Nat /\ faults \in Nat /\ aborted \in BOOLEAN
  BY DEF FlagsTyped
<1>2. aborted' \in BOOLEAN
  BY <1>1 DEF Aborts, AbortThrows
<1>3. faults' \in {faults, faults + 1} /\ epoch' = epoch + 1
  BY DEF Aborts, AbortThrows, Fault, NoFault
<1>4. QED
  BY <1>1, <1>2, <1>3

-----------------------------------------------------------------------------
(* One lemma to a step.  The last group of each is what the step leaves alone. *)

\* A request that arrives waits for its body, or is refused.
LEMMA ArriveKeeps ==
  ASSUME HostInv, NEW c \in Calls, NEW k, NEW q, <<k, q>> \in Asks[c], Arrive(c, k, q)
  PROVE  HostInv'
<1> DEFINE refused == k = "run" /\ kind # "x" /\ (HostClosing \/ mode # "RESEARCH")
           new == [NewCall EXCEPT !.phase = IF refused THEN "done" ELSE "body",
                     !.kind = k, !.request = q, !.seen = revision,
                     !.answer = IF refused THEN "conflict" ELSE None]
<1>1. call' = [call EXCEPT ![c] = new]
  BY DEF Arrive
<1>2. k \in Commands /\ q \in Requests \cup {None} /\ revision \in Nat
  BY AsksAssumption DEF HostInv, HostTypeOK, FlagsTyped
<1>3. new \in CallRecords /\ new.phase # "executing" /\ new.answer # "receipt"
  BY <1>2, NoneAssumption DEF NewCall, CallRecords, RunResults
<1>4. NothingPromised
  BY <1>1, <1>3 DEF HostInv, HostTypeOK, CallsTyped, NothingPromised
<1>5. CallsTyped' /\ CallsAgree'
  BY <1>4, CallsStillAgree DEF HostInv, NothingPromised, Arrive, durableVars, workVars
<1>6. (/\ FlagsTyped /\ RecordTyped /\ RunTyped /\ ShutdownTyped
      /\ SentTyped /\ HandlesAgree /\ ShutdownAgrees /\ RequestsAgree /\ RecordAgrees)'
  BY DEF HostInv, HostTypeOK, FlagsTyped, RecordTyped, RunTyped, ShutdownTyped, SentTyped,
         HandlesAgree, ShutdownAgrees, Awaited, HostClosing, InRun, RequestsAgree, RecordAgrees,
         Existing, Arrive, runtimeVars, durableVars, flagVars, workVars, serverVars
<1>7. QED
  BY <1>5, <1>6 DEF HostInv, HostTypeOK

\* A call whose body does not come is dropped.
LEMMA DisconnectKeeps ==
  ASSUME HostInv, NEW c \in Calls, Disconnect(c)
  PROVE  HostInv'
<1>1. NothingPromised
  BY CallMoves DEF HostInv, HostTypeOK, Disconnect
<1>2. CallsTyped' /\ CallsAgree'
  BY <1>1, CallsStillAgree
  DEF HostInv, NothingPromised, Disconnect, runtimeVars, durableVars, flagVars, workVars,
      serverVars
<1>3. (/\ FlagsTyped /\ RecordTyped /\ RunTyped /\ ShutdownTyped
      /\ SentTyped /\ HandlesAgree /\ ShutdownAgrees /\ RequestsAgree /\ RecordAgrees)'
  BY DEF HostInv, HostTypeOK, FlagsTyped, RecordTyped, RunTyped, ShutdownTyped, SentTyped,
         HandlesAgree, ShutdownAgrees, Awaited, HostClosing, InRun, RequestsAgree, RecordAgrees,
         Existing, Disconnect, runtimeVars, durableVars, flagVars, workVars, serverVars
<1>4. QED
  BY <1>2, <1>3 DEF HostInv, HostTypeOK

\* A STOP moves the revision on, so that no run is current any more.
LEMMA HandleStopKeeps ==
  ASSUME HostInv, NEW c \in Calls, HandleStop(c)
  PROVE  HostInv'
<1>1. NothingPromised
  BY CallAnswered DEF HostInv, HostTypeOK, HandleStop, RunResults
<1>2. CallsTyped' /\ CallsAgree'
  BY <1>1, CallsStillAgree
  DEF HostInv, NothingPromised, HandleStop, runtimeVars, durableVars, flagVars, workVars,
      serverVars
<1>3. \/ UNCHANGED runtimeVars
      \/ revision' = revision + 1 /\ mode' \in {"RESEARCH", "STOPPED"} /\ stops' \in {stops, stops + 1}
  BY DEF HandleStop, StopPersists
<1>4. /\ epoch' \in Nat /\ aborted' \in BOOLEAN /\ faults' \in Nat
      /\ UNCHANGED <<kind, durableVars, closing, owned, reconciled, incomplete, workVars, running,
                     shutdown, sent>>
  BY AbortMoves DEF HandleStop, HostInv, HostTypeOK
<1>5. RequestsAgree'
  BY <1>3, <1>4, RunFields
  DEF HostInv, HostTypeOK, RequestsAgree, RunTyped, FlagsTyped, Claimed, runtimeVars, durableVars, workVars
<1>6. FlagsTyped'
  BY <1>3, <1>4 DEF HostInv, HostTypeOK, FlagsTyped, runtimeVars, durableVars, workVars
<1>7. ShutdownAgrees'
  <2>1. mode = "STOPPED" => mode' = "STOPPED"
    BY DEF HandleStop, StopPersists, runtimeVars
  <2>2. QED
    BY <1>4, <2>1 DEF HostInv, ShutdownAgrees, Awaited, HostClosing, InRun, Settling, durableVars, workVars
<1>8. (RecordTyped /\ RunTyped /\ ShutdownTyped /\ SentTyped /\ HandlesAgree /\ RecordAgrees)'
  BY <1>4
  DEF HostInv, HostTypeOK, RecordTyped, RunTyped, ShutdownTyped, SentTyped, HandlesAgree, InRun,
      RecordAgrees, Existing, durableVars, workVars
<1>9. QED
  BY <1>2, <1>5, <1>6, <1>7, <1>8 DEF HostInv, HostTypeOK

\* So does a return to RESEARCH, which a closing host refuses.
LEMMA HandleResearchKeeps ==
  ASSUME HostInv, NEW c \in Calls, HandleResearch(c)
  PROVE  HostInv'
<1>1. NothingPromised
  BY CallAnswered DEF HostInv, HostTypeOK, HandleResearch, RunResults
<1>2. CallsTyped' /\ CallsAgree'
  BY <1>1, CallsStillAgree
  DEF HostInv, NothingPromised, HandleResearch, runtimeVars, durableVars, flagVars, workVars,
      serverVars
<1>3. \/ UNCHANGED runtimeVars
      \/ revision' = revision + 1 /\ mode' \in {"RESEARCH", "STOPPED"} /\ stops' \in {stops, stops + 1}
  BY DEF HandleResearch
<1>4. RequestsAgree'
  BY <1>3, RunFields
  DEF HostInv, HostTypeOK, RequestsAgree, RunTyped, FlagsTyped, runtimeVars, HandleResearch,
      durableVars, flagVars, workVars, serverVars
<1>5. (/\ FlagsTyped /\ RecordTyped /\ RunTyped /\ ShutdownTyped
      /\ SentTyped /\ HandlesAgree /\ ShutdownAgrees /\ RecordAgrees)'
  BY DEF HostInv, HostTypeOK, FlagsTyped, RecordTyped, RunTyped, ShutdownTyped, SentTyped,
         HandlesAgree, ShutdownAgrees, Awaited, HostClosing, InRun, RecordAgrees, Existing,
         HandleResearch, runtimeVars, durableVars, flagVars, workVars, serverVars
<1>6. QED
  BY <1>2, <1>4, <1>5 DEF HostInv, HostTypeOK

\* A run begins when there is none, as the run of the call that asked for it; or the
\* call gets the receipt of its own request, or nothing.
LEMMA HandleRunKeeps ==
  ASSUME HostInv, NEW c \in Calls, HandleRun(c)
  PROVE  HostInv'
<1> DEFINE q == call[c].request
           new == [phase |-> "recovering", request |-> q, epoch |-> epoch, revision |-> revision,
                   stops |-> stops, result |-> None]
<1>1. /\ q \in Requests \cup {None} /\ call[c].answer \in RunResults \cup {"ok"}
      /\ new \in Runs /\ new # None
  <2>1. q \in Requests \cup {None} /\ call[c].answer \in RunResults \cup {"ok"}
    BY DEF HostInv, HostTypeOK, CallsTyped, CallRecords
  <2>2. new \in Runs
    BY <2>1 DEF HostInv, HostTypeOK, FlagsTyped, Runs, RunPhases, RunResults
  <2>3. QED
    BY <2>1, <2>2, NoneAssumption
<1>2. \/ /\ run = None /\ ~closing /\ run' = new /\ recovery' \in {recovery, "reading"}
         /\ (recovery # None => recovery' = recovery)
         /\ call' = [call EXCEPT ![c].phase = "executing"]
      \/ UNCHANGED <<run, recovery>> /\ Answer(c, "receipt") /\ Existing /\ record.request = q
      \/ UNCHANGED <<run, recovery>> /\ Answer(c, "conflict")
  BY DEF HandleRun, Retained
<1>3. FlagsTyped'
  <2>1. reconciled' \in BOOLEAN /\ running' \in BOOLEAN
    BY DEF HandleRun, HostInv, HostTypeOK, FlagsTyped
  <2>2. UNCHANGED <<kind, runtimeVars, durableVars, closing, epoch, aborted, owned, incomplete, status,
                    handles, leaked, faults>>
    BY DEF HandleRun, NoFault
  <2>3. recovery' \in {None, "reading", "open"}
    BY <1>2 DEF HostInv, HostTypeOK, FlagsTyped
  <2>4. QED
    BY <2>1, <2>2, <2>3 DEF HostInv, HostTypeOK, FlagsTyped, runtimeVars, durableVars
<1>4. (RecordTyped /\ RunTyped /\ ShutdownTyped /\ SentTyped)'
  BY <1>1, <1>2 DEF HostInv, HostTypeOK, RecordTyped, RunTyped, ShutdownTyped, SentTyped, HandleRun,
                    durableVars
<1>5. HandlesAgree'
  BY <1>1, <1>2, NoneAssumption DEF HostInv, HandlesAgree, HandleRun
<1>6. ShutdownAgrees'
  BY <1>1, <1>2 DEF HostInv, ShutdownAgrees, Settling, HostClosing, Awaited, InRun, HandleRun, runtimeVars
<1>7. RequestsAgree'
  BY <1>1, <1>2 DEF HostInv, HostTypeOK, FlagsTyped, RequestsAgree, Claimed, HandleRun, runtimeVars,
                    durableVars
<1>8. RecordAgrees'
  BY <1>1, <1>2, NoneAssumption DEF HostInv, RecordAgrees, Existing, InRun, HandleRun, durableVars
<1>9. (CallsTyped /\ CallsAgree)'
  <2>1. CASE run = None /\ run' = new /\ call' = [call EXCEPT ![c].phase = "executing"]
    <3>1. /\ CallsTyped' /\ call'[c].answer = call[c].answer /\ call'[c].request = q
          /\ \A d \in Calls \ {c} : call'[d] = call[d]
      BY <2>1, CallMoves DEF HostInv, HostTypeOK
    <3>2. run'.request = q
      BY <2>1
    <3>3. QED
      BY <1>1, <2>1, <3>1, <3>2 DEF HostInv, CallsAgree, Existing, HandleRun, durableVars
  <2>2. CASE UNCHANGED run /\ Answer(c, "receipt") /\ Existing /\ record.request = q
    <3>1. /\ CallsTyped' /\ call'[c].phase = "done" /\ call'[c].request = q
          /\ \A d \in Calls \ {c} : call'[d] = call[d]
      BY <2>2, CallAnswered DEF HostInv, HostTypeOK, RunResults
    <3>2. QED
      BY <2>2, <3>1 DEF HostInv, CallsAgree, Existing, HandleRun, durableVars
  <2>3. CASE UNCHANGED run /\ Answer(c, "conflict")
    <3>1. NothingPromised
      BY <2>3, CallAnswered DEF HostInv, HostTypeOK, RunResults
    <3>2. QED
      BY <2>3, <3>1, CallsStillAgree DEF HostInv, NothingPromised, HandleRun, durableVars
  <2>4. QED
    BY <1>2, <2>1, <2>2, <2>3
<1>10. QED
  BY <1>3, <1>4, <1>5, <1>6, <1>7, <1>8, <1>9 DEF HostInv, HostTypeOK

\* A status read, or the recovery it begins, begins while the host is open.
LEMMA HandleStatusKeeps ==
  ASSUME HostInv, NEW c \in Calls, HandleStatus(c)
  PROVE  HostInv'
<1>1. NothingPromised
  BY CallAnswered, CallMoves DEF HostInv, HostTypeOK, HandleStatus, RunResults
<1>2. CallsTyped' /\ CallsAgree'
  BY <1>1, CallsStillAgree
  DEF HostInv, NothingPromised, HandleStatus, runtimeVars, durableVars, flagVars, workVars,
      serverVars
<1>3. \/ UNCHANGED <<status, recovery>>
      \/ ~closing /\ status' \in {"waiting", "reading"} /\ recovery' \in {recovery, "reading"}
         /\ (recovery' # recovery => run = None /\ recovery = None)
  BY DEF HandleStatus, RecoveryWanted
<1>4. HandlesAgree'
  BY <1>3, NoneAssumption
  DEF HostInv, HostTypeOK, HandlesAgree, HandleStatus, NoFault, RecoveryWanted, NothingToRecover,
      Controlled, runtimeVars, durableVars, flagVars, workVars, serverVars
<1>5. ShutdownAgrees'
  BY <1>3
  DEF HostInv, HostTypeOK, ShutdownAgrees, Awaited, HostClosing, InRun, Settling, HandleStatus,
      NoFault, RecoveryWanted, NothingToRecover, Controlled, runtimeVars, durableVars, flagVars,
      workVars, serverVars
<1>6. FlagsTyped'
  <2>1. reconciled' \in BOOLEAN
    BY DEF HandleStatus, HostInv, HostTypeOK, FlagsTyped
  <2>2. QED
    BY <1>3, <2>1 DEF HandleStatus, NoFault, HostInv, HostTypeOK, FlagsTyped, runtimeVars, durableVars
<1>7. (/\ RecordTyped /\ RunTyped /\ ShutdownTyped
      /\ SentTyped /\ RequestsAgree /\ RecordAgrees)'
  BY DEF HostInv, HostTypeOK, RecordTyped, RunTyped, ShutdownTyped, SentTyped, RequestsAgree,
         RecordAgrees, Existing, InRun, HandleStatus, NoFault, RecoveryWanted, NothingToRecover,
         Controlled, runtimeVars, durableVars, flagVars, workVars, serverVars
<1>8. QED
  BY <1>2, <1>4, <1>5, <1>6, <1>7 DEF HostInv, HostTypeOK

\* A recovery opens the stores while no run has them open.
LEMMA RecoveryOpensKeeps ==
  ASSUME HostInv, RecoveryOpens
  PROVE  HostInv'
<1>1. HandlesAgree'
  BY NoneAssumption
  DEF HostInv, HostTypeOK, HandlesAgree, Holding, RecoveryOpens, runtimeVars, durableVars,
      flagVars, workVars, serverVars
<1>2. ShutdownAgrees'
  BY NoneAssumption
  DEF HostInv, HostTypeOK, ShutdownAgrees, Awaited, HostClosing, InRun, Settling, RecoveryOpens,
      runtimeVars, durableVars, flagVars, workVars, serverVars
<1>3. (CallsTyped /\ CallsAgree)'
  BY DEF HostInv, HostTypeOK, CallsTyped, CallsAgree, Existing, RecoveryOpens, runtimeVars,
         durableVars, flagVars, workVars, serverVars
<1>4. (/\ FlagsTyped /\ RecordTyped /\ RunTyped
      /\ ShutdownTyped /\ SentTyped /\ RequestsAgree /\ RecordAgrees)'
  BY DEF HostInv, HostTypeOK, FlagsTyped, RecordTyped, RunTyped, ShutdownTyped, SentTyped,
         RequestsAgree, RecordAgrees, Existing, InRun, RecoveryOpens, runtimeVars, durableVars,
         flagVars, workVars, serverVars
<1>5. QED
  BY <1>1, <1>2, <1>3, <1>4 DEF HostInv, HostTypeOK

\* A recovery without a credential sends the run that waits for it to its end.
LEMMA RecoveryUnavailableKeeps ==
  ASSUME HostInv, RecoveryUnavailable
  PROVE  HostInv'
<1>1. /\ run' = run \/ RunWaited
      /\ status' \in {None, "waiting", "reading", "failed"}
      /\ status' = None <=> status = None
      /\ recovery \in {"reading", "open"} /\ recovery' = None
  BY WaitersMove DEF HostInv, HostTypeOK, RecoveryUnavailable
<1>2. /\ ShutdownTyped' /\ shutdown'.phase = shutdown.phase /\ shutdown'.failed = shutdown.failed
      /\ shutdown'.awaited = shutdown.awaited \ {"recovery"}
  BY SettledMoves DEF HostInv, HostTypeOK, RecoveryUnavailable
<1>3. FlagsTyped'
  BY <1>1
  DEF HostInv, HostTypeOK, FlagsTyped, RecoveryUnavailable, Fault, runtimeVars, durableVars,
      flagVars, workVars, serverVars
<1>4. RunTyped'
  BY <1>1
  DEF HostInv, HostTypeOK, RunTyped, RunWaited, Moved, RecoveryUnavailable, Fault, runtimeVars,
      durableVars, flagVars, workVars, serverVars
<1>5. HandlesAgree'
  BY <1>1, NoneAssumption
  DEF HostInv, HostTypeOK, HandlesAgree, RunWaited, Moved, Holding, RecoveryUnavailable, Fault,
      runtimeVars, durableVars, flagVars, workVars, serverVars
<1>6. ShutdownAgrees'
  BY NoneAssumption, <1>1, <1>2
  DEF HostInv, HostTypeOK, ShutdownAgrees, Awaited, HostClosing, InRun, RunWaited, Moved,
      Settling, RecoveryUnavailable, Fault, runtimeVars, durableVars, flagVars, workVars,
      serverVars
<1>7. RequestsAgree'
  BY <1>1
  DEF HostInv, HostTypeOK, RequestsAgree, RunWaited, Moved, Claimed, RecoveryUnavailable, Fault,
      runtimeVars, durableVars, flagVars, workVars, serverVars
<1>8. RecordAgrees'
  BY <1>1
  DEF HostInv, HostTypeOK, RecordAgrees, Existing, InRun, RunWaited, Moved, RecoveryUnavailable,
      Fault, runtimeVars, durableVars, flagVars, workVars, serverVars
<1>9. CallsAgree'
  BY <1>1
  DEF HostInv, HostTypeOK, CallsAgree, Existing, RunWaited, Moved, RecoveryUnavailable, Fault,
      runtimeVars, durableVars, flagVars, workVars, serverVars
<1>10. (RecordTyped /\ CallsTyped /\ SentTyped)'
  BY DEF HostInv, HostTypeOK, RecordTyped, CallsTyped, SentTyped, RecoveryUnavailable, Fault,
         runtimeVars, durableVars, flagVars, workVars, serverVars
<1>11. QED
  BY <1>2, <1>3, <1>4, <1>5, <1>6, <1>7, <1>8, <1>9, <1>10 DEF HostInv, HostTypeOK

\* A recovery that ends has settled the canary and closed the stores, or reports one left open.
LEMMA RecoveryEndsKeeps ==
  ASSUME HostInv, RecoveryEnds
  PROVE  HostInv'
<1>1. /\ run' = run \/ RunWaited
      /\ status' \in {None, "waiting", "reading", "failed"}
      /\ status' = None <=> status = None
      /\ recovery \in {"reading", "open"} /\ recovery' = None
  BY WaitersMove DEF HostInv, HostTypeOK, RecoveryEnds
<1>2. /\ ShutdownTyped' /\ shutdown'.phase = shutdown.phase /\ shutdown'.failed = shutdown.failed
      /\ shutdown'.awaited = shutdown.awaited \ {"recovery"}
  BY SettledMoves DEF HostInv, HostTypeOK, RecoveryEnds
<1>3. /\ RecordTyped' /\ record'.request = record.request
      /\ record.state # "interrupted" => record' = record
  BY RecordSettles DEF HostInv, HostTypeOK, RecoveryEnds
<1>4. \/ UNCHANGED <<closing, incomplete, leaked>> /\ reconciled' \in {reconciled, TRUE}
      \/ closing' = TRUE /\ incomplete' = TRUE /\ leaked' = TRUE /\ UNCHANGED reconciled
  BY DEF RecoveryEnds, Latch
<1>5. /\ UNCHANGED <<kind, runtimeVars, marker, epoch, aborted, owned, serverVars, sent>>
      /\ handles' = handles \ {"recovery"}
      /\ faults' \in {faults, faults + 1}
  BY DEF RecoveryEnds, Fault, NoFault
<1>6. FlagsTyped'
  <2>1. closing' \in BOOLEAN /\ incomplete' \in BOOLEAN /\ leaked' \in BOOLEAN /\ reconciled' \in BOOLEAN
    BY <1>4 DEF HostInv, HostTypeOK, FlagsTyped
  <2>2. handles' \subseteq {"run", "recovery"} /\ faults' \in Nat
    BY <1>5 DEF HostInv, HostTypeOK, FlagsTyped
  <2>3. QED
    BY <1>1, <1>5, <2>1, <2>2 DEF HostInv, HostTypeOK, FlagsTyped, runtimeVars, serverVars
<1>7. RunTyped'
  BY <1>1
  DEF HostInv, HostTypeOK, RunTyped, RunWaited, Moved, RecoveryEnds, runtimeVars, durableVars,
      flagVars, workVars, serverVars
<1>8. HandlesAgree'
  BY <1>1, NoneAssumption
  DEF HostInv, HostTypeOK, HandlesAgree, RunWaited, Moved, Holding, RecoveryEnds, runtimeVars,
      durableVars, flagVars, workVars, serverVars
<1>9. ShutdownAgrees'
  <2>1. HostClosing' = HostClosing /\ (HostClosing => closing')
    <3>1. HostClosing' = HostClosing
      BY <1>2 DEF HostClosing
    <3>2. HostClosing => closing'
      BY <1>4 DEF HostInv, ShutdownAgrees
    <3>3. QED
      BY <3>1, <3>2
  <2>2. Awaited' = Awaited \ {"recovery"} /\ "recovery" \in Awaited
    BY <1>1, RunFields, NoneAssumption DEF Awaited, RunWaited, Moved
  <2>3. (shutdown.phase = "unserved" => Awaited \subseteq shutdown.awaited)'
    BY <1>2, <2>2 DEF HostInv, ShutdownAgrees
  <2>4. shutdown'.phase \notin Settling
    BY <1>2, <2>2 DEF HostInv, ShutdownAgrees
  <2>5. leaked' => incomplete'
    BY <1>1, <1>4, NoneAssumption DEF HostInv, ShutdownAgrees, HandlesAgree, InRun
  <2>6. QED
    BY <2>1, <2>3, <2>4, <2>5 DEF ShutdownAgrees, Settling
<1>10. RequestsAgree'
  BY <1>1
  DEF HostInv, HostTypeOK, RequestsAgree, RunWaited, Moved, Claimed, RecoveryEnds, runtimeVars,
      durableVars, flagVars, workVars, serverVars
<1>11. RecordAgrees'
  BY NoneAssumption, <1>1, <1>3
  DEF HostInv, HostTypeOK, RecordAgrees, Existing, InRun, RunWaited, Moved, HandlesAgree,
      runtimeVars, durableVars, flagVars, workVars, serverVars
<1>12. CallsAgree'
  BY <1>1, <1>3
  DEF HostInv, HostTypeOK, CallsAgree, Existing, RunWaited, Moved, RecoveryEnds, runtimeVars,
      durableVars, flagVars, workVars, serverVars
<1>13. (CallsTyped /\ SentTyped)'
  BY DEF HostInv, HostTypeOK, CallsTyped, SentTyped, RecoveryEnds, runtimeVars, durableVars,
         flagVars, workVars, serverVars
<1>14. QED
  BY <1>2, <1>3, <1>6, <1>7, <1>8, <1>9, <1>10, <1>11, <1>12, <1>13 DEF HostInv, HostTypeOK

\* A status read answers everyone who joined it.
LEMMA StatusEndsKeeps ==
  ASSUME HostInv, StatusEnds
  PROVE  HostInv'
<1>1. \A c \in Calls : call'[c] \in CallRecords
        /\ (call'[c].phase = "executing" => call[c].phase = "executing" /\ call'[c].request = call[c].request)
        /\ (call'[c].answer = "receipt" => call[c].answer = "receipt" /\ call'[c].request = call[c].request)
  <2> SUFFICES ASSUME NEW c \in Calls
               PROVE  /\ call'[c] \in CallRecords
                      /\ call'[c].phase = "executing" => call[c].phase = "executing" /\ call'[c].request = call[c].request
                      /\ call'[c].answer = "receipt" => call[c].answer = "receipt" /\ call'[c].request = call[c].request
    OBVIOUS
  <2>1. call[c] \in CallRecords
    BY DEF HostInv, HostTypeOK, CallsTyped
  <2>2. \/ call'[c] = call[c]
        \/ \E a \in {"ok", "error"} : call'[c] = [call[c] EXCEPT !.phase = "done", !.answer = a]
    BY DEF StatusEnds
  <2>3. QED
    BY <2>1, <2>2 DEF CallRecords, RunResults
<1>2. NothingPromised
  BY <1>1 DEF StatusEnds, CallsTyped, NothingPromised
<1>3. CallsTyped' /\ CallsAgree'
  BY <1>2, CallsStillAgree DEF HostInv, NothingPromised, StatusEnds, durableVars
<1>4. /\ ShutdownTyped' /\ shutdown'.phase = shutdown.phase /\ shutdown'.failed = shutdown.failed
      /\ shutdown'.awaited = shutdown.awaited \ {"status"}
  BY SettledMoves DEF HostInv, HostTypeOK, StatusEnds
<1>5. ShutdownAgrees'
  BY <1>4
  DEF HostInv, HostTypeOK, ShutdownAgrees, Awaited, HostClosing, InRun, Settling, StatusEnds,
      runtimeVars, durableVars, flagVars, workVars, serverVars
<1>6. FlagsTyped'
  BY DEF HostInv, HostTypeOK, FlagsTyped, StatusEnds, runtimeVars, durableVars, flagVars,
         workVars, serverVars
<1>7. RequestsAgree'
  BY DEF HostInv, HostTypeOK, RequestsAgree, StatusEnds, runtimeVars, durableVars, flagVars,
         workVars, serverVars
<1>8. (RecordTyped /\ RunTyped /\ SentTyped /\ HandlesAgree /\ RecordAgrees)'
  BY DEF HostInv, HostTypeOK, RecordTyped, RunTyped, SentTyped, HandlesAgree, RecordAgrees,
         Existing, InRun, StatusEnds, runtimeVars, durableVars, flagVars, workVars, serverVars
<1>9. QED
  BY <1>3, <1>4, <1>5, <1>6, <1>7, <1>8 DEF HostInv, HostTypeOK

\* Once its recovery is over the run goes on to its claim, or ends.
LEMMA RunRecoveredKeeps ==
  ASSUME HostInv, RunRecovered
  PROVE  HostInv'
<1>1. /\ run # None /\ run.phase = "recovering" /\ recovery = None
      /\ \/ Moved("claiming", run.result) \/ Moved("ending", "conflict")
         \/ Moved("ending", "receipt") /\ Existing /\ record.request = run.request
  BY RunMoves
  DEF HostInv, HostTypeOK, RunRecovered, InRun, RunPhases, RunResults, Retained, Recovered
<1>2. RunTyped'
  BY <1>1
  DEF HostInv, HostTypeOK, RunTyped, Moved, RunRecovered, runtimeVars, durableVars, flagVars,
      workVars, serverVars
<1>3. HandlesAgree'
  BY <1>1, NoneAssumption
  DEF HostInv, HostTypeOK, HandlesAgree, Moved, Holding, InRun, RunRecovered, runtimeVars,
      durableVars, flagVars, workVars, serverVars
<1>4. ShutdownAgrees'
  BY <1>1
  DEF HostInv, HostTypeOK, ShutdownAgrees, Awaited, HostClosing, InRun, Moved, Settling,
      RunRecovered, runtimeVars, durableVars, flagVars, workVars, serverVars
<1>5. RequestsAgree'
  BY <1>1
  DEF HostInv, HostTypeOK, RequestsAgree, Moved, Claimed, InRun, RunRecovered, runtimeVars,
      durableVars, flagVars, workVars, serverVars
<1>6. RecordAgrees'
  BY <1>1
  DEF HostInv, HostTypeOK, RecordAgrees, Existing, InRun, Moved, RunRecovered, runtimeVars,
      durableVars, flagVars, workVars, serverVars
<1>7. (CallsTyped /\ CallsAgree)'
  BY <1>1
  DEF HostInv, HostTypeOK, CallsTyped, CallsAgree, Existing, Moved, RunRecovered, runtimeVars,
      durableVars, flagVars, workVars, serverVars
<1>8. (FlagsTyped /\ RecordTyped /\ ShutdownTyped /\ SentTyped)'
  BY DEF HostInv, HostTypeOK, FlagsTyped, RecordTyped, ShutdownTyped, SentTyped, RunRecovered,
         runtimeVars, durableVars, flagVars, workVars, serverVars
<1>9. QED
  BY <1>2, <1>3, <1>4, <1>5, <1>6, <1>7, <1>8 DEF HostInv, HostTypeOK

\* The first claim is granted, while nothing was sent; a later one is refused.
LEMMA RunClaimsKeeps ==
  ASSUME HostInv, RunClaims
  PROVE  HostInv'
<1>1. /\ run # None /\ run.phase = "claiming"
      /\ \/ /\ ~marker /\ marker' = TRUE /\ owned' = TRUE
            /\ Moved("ending", "conflict") \/ Moved("revealing", run.result)
         \/ Moved("ending", "error") /\ marker' \in {marker, TRUE} /\ owned' = owned
  BY RunMoves DEF HostInv, HostTypeOK, RunClaims, InRun, RunPhases, RunResults
<1>2. /\ UNCHANGED <<kind, runtimeVars, record, closing, epoch, aborted, reconciled, incomplete, recovery,
                     status, handles, leaked, serverVars, shutdown, sent>>
      /\ faults' \in {faults, faults + 1}
  BY DEF RunClaims, Fault, NoFault
<1>3. FlagsTyped'
  <2>1. /\ marker' \in BOOLEAN /\ closing' \in BOOLEAN /\ aborted' \in BOOLEAN /\ owned' \in BOOLEAN
        /\ reconciled' \in BOOLEAN /\ incomplete' \in BOOLEAN /\ leaked' \in BOOLEAN
        /\ running' \in BOOLEAN
    BY <1>1, <1>2 DEF HostInv, HostTypeOK, FlagsTyped, durableVars, flagVars, serverVars
  <2>2. handles' \subseteq {"run", "recovery"}
    BY <1>1, <1>2 DEF HostInv, HostTypeOK, FlagsTyped
  <2>3. QED
    BY <1>2, <2>1, <2>2 DEF HostInv, HostTypeOK, FlagsTyped, runtimeVars, flagVars
<1>4. RunTyped'
  BY <1>1
  DEF HostInv, HostTypeOK, RunTyped, Moved, RunClaims, Fault, NoFault, runtimeVars, durableVars,
      flagVars, workVars, serverVars
<1>5. RecordAgrees'
  BY <1>1
  DEF HostInv, HostTypeOK, RecordAgrees, Existing, InRun, Moved, RunClaims, Fault, NoFault,
      runtimeVars, durableVars, flagVars, workVars, serverVars
<1>6. (CallsTyped /\ CallsAgree)'
  BY <1>1
  DEF HostInv, HostTypeOK, CallsTyped, CallsAgree, Existing, Moved, RunClaims, Fault, NoFault,
      runtimeVars, durableVars, flagVars, workVars, serverVars
<1>7. ShutdownAgrees'
  <2>1. Awaited' = Awaited /\ Awaited # {}
    BY <1>1, <1>2 DEF Awaited, Moved
  <2>2. leaked' => incomplete' \/ (InRun("ending")' /\ run'.result = "cleanup")
    BY <1>1, <1>2 DEF HostInv, ShutdownAgrees, InRun, Moved, flagVars
  <2>3. QED
    BY <1>2, <2>1, <2>2 DEF HostInv, ShutdownAgrees, HostClosing, Settling, flagVars
<1>8. RequestsAgree'
  <2>1. sent' # {} => marker' /\ owned'
    <3> SUFFICES ASSUME sent' # {}
                 PROVE  marker' /\ owned'
      OBVIOUS
    <3>1. sent # {} /\ marker = TRUE /\ owned = TRUE
      BY <1>2 DEF HostInv, HostTypeOK, FlagsTyped, RequestsAgree
    <3>2. marker' = TRUE /\ owned' = TRUE
      BY <1>1, <1>2, <3>1 DEF durableVars, flagVars
    <3>3. QED
      BY <3>2
  <2>2. run'.phase \in Claimed => sent' = {} /\ marker' /\ owned'
    BY <1>1, <1>2 DEF HostInv, RequestsAgree, Moved, Claimed, durableVars, flagVars
  <2>3. run'.revision = run.revision /\ run'.stops = run.stops
    BY <1>1 DEF Moved
  <2>4. QED
    BY <1>1, <1>2, <2>1, <2>2, <2>3 DEF HostInv, RequestsAgree, runtimeVars
<1>9. HandlesAgree'
  BY <1>1, <1>2, NoneAssumption
  DEF HostInv, HostTypeOK, HandlesAgree, Moved, Holding, runtimeVars, durableVars, flagVars,
      workVars, serverVars
<1>10. (ShutdownTyped /\ SentTyped)'
  BY <1>2
  DEF HostInv, HostTypeOK, ShutdownTyped, SentTyped, runtimeVars, durableVars, flagVars, workVars,
      serverVars
<1>11. RecordTyped'
  BY DEF HostInv, HostTypeOK, RecordTyped, RunClaims, Fault, NoFault, runtimeVars, durableVars,
         flagVars, workVars, serverVars
<1>12. QED
  BY <1>3, <1>4, <1>5, <1>6, <1>7, <1>8, <1>9, <1>10, <1>11 DEF HostInv, HostTypeOK

\* The stores are opened for the run when no recovery has them open; one that was left
\* open is reported at the run's end.
LEMMA RunOpensKeeps ==
  ASSUME HostInv, RunOpens
  PROVE  HostInv'
<1>1. /\ run # None /\ run.phase = "revealing"
      /\ \/ Moved("opened", run.result) /\ handles' = handles \cup {"run"} /\ UNCHANGED leaked
         \/ Moved("ending", "conflict") /\ UNCHANGED <<handles, leaked>>
         \/ Moved("ending", "error") /\ UNCHANGED <<handles, leaked>>
         \/ Moved("ending", "cleanup") /\ leaked' = TRUE /\ UNCHANGED handles
  BY RunMoves DEF HostInv, HostTypeOK, RunOpens, InRun, RunPhases, RunResults
<1>2. /\ UNCHANGED <<kind, runtimeVars, durableVars, flagVars, recovery, status, serverVars, shutdown,
                     sent>>
      /\ faults' \in {faults, faults + 1}
  BY DEF RunOpens, Fault, NoFault
<1>3. FlagsTyped'
  <2>1. /\ marker' \in BOOLEAN /\ closing' \in BOOLEAN /\ aborted' \in BOOLEAN /\ owned' \in BOOLEAN
        /\ reconciled' \in BOOLEAN /\ incomplete' \in BOOLEAN /\ leaked' \in BOOLEAN
        /\ running' \in BOOLEAN
    BY <1>1, <1>2 DEF HostInv, HostTypeOK, FlagsTyped, durableVars, flagVars, serverVars
  <2>2. handles' \subseteq {"run", "recovery"}
    BY <1>1, <1>2 DEF HostInv, HostTypeOK, FlagsTyped
  <2>3. QED
    BY <1>2, <2>1, <2>2 DEF HostInv, HostTypeOK, FlagsTyped, runtimeVars, flagVars
<1>4. RunTyped'
  BY <1>1
  DEF HostInv, HostTypeOK, RunTyped, Moved, RunOpens, Fault, NoFault, runtimeVars, durableVars,
      flagVars, workVars, serverVars
<1>5. RecordAgrees'
  BY <1>1
  DEF HostInv, HostTypeOK, RecordAgrees, Existing, InRun, Moved, RunOpens, Fault, NoFault,
      runtimeVars, durableVars, flagVars, workVars, serverVars
<1>6. (CallsTyped /\ CallsAgree)'
  BY <1>1
  DEF HostInv, HostTypeOK, CallsTyped, CallsAgree, Existing, Moved, RunOpens, Fault, NoFault,
      runtimeVars, durableVars, flagVars, workVars, serverVars
<1>7. ShutdownAgrees'
  <2>1. Awaited' = Awaited /\ Awaited # {}
    BY <1>1, <1>2 DEF Awaited, Moved
  <2>2. leaked' => incomplete' \/ (InRun("ending")' /\ run'.result = "cleanup")
    BY <1>1, <1>2 DEF HostInv, ShutdownAgrees, InRun, Moved, flagVars
  <2>3. QED
    BY <1>2, <2>1, <2>2 DEF HostInv, ShutdownAgrees, HostClosing, Settling, flagVars
<1>8. RequestsAgree'
  <2>1. sent' # {} => marker' /\ owned'
    BY <1>1, <1>2 DEF HostInv, RequestsAgree, durableVars, flagVars
  <2>2. run'.phase \in Claimed => sent' = {} /\ marker' /\ owned'
    BY <1>1, <1>2 DEF HostInv, RequestsAgree, Moved, Claimed, durableVars, flagVars
  <2>3. run'.revision = run.revision /\ run'.stops = run.stops
    BY <1>1 DEF Moved
  <2>4. QED
    BY <1>1, <1>2, <2>1, <2>2, <2>3 DEF HostInv, RequestsAgree, runtimeVars
<1>9. HandlesAgree'
  BY <1>1, <1>2, NoneAssumption
  DEF HostInv, HostTypeOK, HandlesAgree, Moved, Holding, runtimeVars, durableVars, flagVars,
      workVars, serverVars
<1>10. (ShutdownTyped /\ SentTyped)'
  BY <1>2
  DEF HostInv, HostTypeOK, ShutdownTyped, SentTyped, runtimeVars, durableVars, flagVars, workVars,
      serverVars
<1>11. RecordTyped'
  BY DEF HostInv, HostTypeOK, RecordTyped, RunOpens, Fault, NoFault, runtimeVars, durableVars,
         flagVars, workVars, serverVars
<1>12. QED
  BY <1>3, <1>4, <1>5, <1>6, <1>7, <1>8, <1>9, <1>10, <1>11 DEF HostInv, HostTypeOK

\* The controller starts on a canary that was never prepared.
LEMMA RunReadyKeeps ==
  ASSUME HostInv, RunReady
  PROVE  HostInv'
<1>1. /\ run # None /\ run.phase = "opened"
      /\ \/ Moved("executing", run.result) /\ record.state = "none"
         \/ Moved("executed", "conflict") \/ Moved("executed", "error")
         \/ Moved("executed", "receipt") /\ Existing /\ record.request = run.request
  BY RunMoves DEF HostInv, HostTypeOK, RunReady, InRun, RunPhases, RunResults, Retained
<1>2. /\ UNCHANGED <<kind, runtimeVars, marker, closing, epoch, owned, reconciled, incomplete, recovery,
                     status, handles, leaked, serverVars, shutdown, sent>>
      /\ aborted' = FALSE /\ faults' \in {faults, faults + 1}
  BY DEF RunReady, Fault, NoFault
<1>3. FlagsTyped'
  <2>1. /\ marker' \in BOOLEAN /\ closing' \in BOOLEAN /\ aborted' \in BOOLEAN /\ owned' \in BOOLEAN
        /\ reconciled' \in BOOLEAN /\ incomplete' \in BOOLEAN /\ leaked' \in BOOLEAN
        /\ running' \in BOOLEAN
    BY <1>1, <1>2 DEF HostInv, HostTypeOK, FlagsTyped, durableVars, flagVars, serverVars
  <2>2. handles' \subseteq {"run", "recovery"}
    BY <1>1, <1>2 DEF HostInv, HostTypeOK, FlagsTyped
  <2>3. QED
    BY <1>2, <2>1, <2>2 DEF HostInv, HostTypeOK, FlagsTyped, runtimeVars, flagVars
<1>4. /\ RecordTyped' /\ record'.request = record.request
      /\ record.state # "interrupted" => record' = record
  BY RecordSettles DEF HostInv, HostTypeOK, RunReady
<1>5. RunTyped'
  BY <1>1
  DEF HostInv, HostTypeOK, RunTyped, Moved, RunReady, runtimeVars, durableVars, flagVars,
      workVars, serverVars
<1>6. RecordAgrees'
  BY <1>1, <1>4
  DEF HostInv, HostTypeOK, RecordAgrees, Existing, InRun, Moved, RunReady, runtimeVars,
      durableVars, flagVars, workVars, serverVars
<1>7. (CallsTyped /\ CallsAgree)'
  BY <1>1, <1>4
  DEF HostInv, HostTypeOK, CallsTyped, CallsAgree, Existing, Moved, RunReady, runtimeVars,
      durableVars, flagVars, workVars, serverVars
<1>8. ShutdownAgrees'
  <2>1. Awaited' = Awaited /\ Awaited # {}
    BY <1>1, <1>2 DEF Awaited, Moved
  <2>2. leaked' => incomplete' \/ (InRun("ending")' /\ run'.result = "cleanup")
    BY <1>1, <1>2 DEF HostInv, ShutdownAgrees, InRun, Moved, flagVars
  <2>3. QED
    BY <1>2, <2>1, <2>2 DEF HostInv, ShutdownAgrees, HostClosing, Settling, flagVars
<1>9. RequestsAgree'
  <2>1. sent' # {} => marker' /\ owned'
    BY <1>1, <1>2 DEF HostInv, RequestsAgree, durableVars, flagVars
  <2>2. run'.phase \in Claimed => sent' = {} /\ marker' /\ owned'
    BY <1>1, <1>2 DEF HostInv, RequestsAgree, Moved, Claimed, durableVars, flagVars
  <2>3. run'.revision = run.revision /\ run'.stops = run.stops
    BY <1>1 DEF Moved
  <2>4. QED
    BY <1>1, <1>2, <2>1, <2>2, <2>3 DEF HostInv, RequestsAgree, runtimeVars
<1>10. HandlesAgree'
  BY <1>1, <1>2, NoneAssumption
  DEF HostInv, HostTypeOK, HandlesAgree, Moved, Holding, runtimeVars, durableVars, flagVars,
      workVars, serverVars
<1>11. (ShutdownTyped /\ SentTyped)'
  BY <1>2
  DEF HostInv, HostTypeOK, ShutdownTyped, SentTyped, runtimeVars, durableVars, flagVars, workVars,
      serverVars
<1>12. QED
  BY <1>3, <1>4, <1>5, <1>6, <1>7, <1>8, <1>9, <1>10, <1>11 DEF HostInv, HostTypeOK

\* The controller prepares a canary in its own name, over none.
LEMMA ControllerPreparesKeeps ==
  ASSUME HostInv, ControllerPrepares
  PROVE  HostInv'
<1>1. /\ run # None /\ run.phase = "executing" /\ record.state = "none"
      /\ \/ Moved("prepared", run.result) /\ record' = [state |-> "interrupted", request |-> run.request]
         \/ Moved("executed", "conflict") /\ record' = record
  BY RunMoves
  DEF HostInv, HostTypeOK, ControllerPrepares, InRun, RunPhases, RunResults, RecordAgrees
<1>2. RunTyped'
  BY <1>1
  DEF HostInv, HostTypeOK, RunTyped, Moved, ControllerPrepares, runtimeVars, durableVars,
      flagVars, workVars, serverVars
<1>3. HandlesAgree'
  BY <1>1, NoneAssumption
  DEF HostInv, HostTypeOK, HandlesAgree, Moved, Holding, InRun, ControllerPrepares, runtimeVars,
      durableVars, flagVars, workVars, serverVars
<1>4. ShutdownAgrees'
  BY <1>1
  DEF HostInv, HostTypeOK, ShutdownAgrees, Awaited, HostClosing, InRun, Moved, Settling,
      ControllerPrepares, runtimeVars, durableVars, flagVars, workVars, serverVars
<1>5. RequestsAgree'
  BY <1>1
  DEF HostInv, HostTypeOK, RequestsAgree, Moved, Claimed, InRun, ControllerPrepares, runtimeVars,
      durableVars, flagVars, workVars, serverVars
<1>6. RecordAgrees'
  BY <1>1
  DEF HostInv, HostTypeOK, RecordAgrees, Existing, InRun, Moved, ControllerPrepares, runtimeVars,
      durableVars, flagVars, workVars, serverVars
<1>7. (CallsTyped /\ CallsAgree)'
  BY <1>1
  DEF HostInv, HostTypeOK, CallsTyped, CallsAgree, Existing, Moved, ControllerPrepares,
      runtimeVars, durableVars, flagVars, workVars, serverVars
<1>8. RecordTyped'
  BY <1>1, RunFields
  DEF HostInv, HostTypeOK, RecordTyped, Records, RunTyped, ControllerPrepares, runtimeVars,
      durableVars, flagVars, workVars, serverVars
<1>9. (FlagsTyped /\ ShutdownTyped /\ SentTyped)'
  BY DEF HostInv, HostTypeOK, FlagsTyped, ShutdownTyped, SentTyped, ControllerPrepares,
         runtimeVars, durableVars, flagVars, workVars, serverVars
<1>10. QED
  BY <1>2, <1>3, <1>4, <1>5, <1>6, <1>7, <1>8, <1>9 DEF HostInv, HostTypeOK

\* The one request goes out while the run is current.
LEMMA ControllerSendsKeeps ==
  ASSUME HostInv, ControllerSends
  PROVE  HostInv'
<1>1. /\ run # None /\ run.phase = "prepared" /\ Moved("sent", run.result)
      /\ run.revision = revision
      /\ sent' = sent \cup {[request |-> run.request, admitted |-> run.stops, at |-> stops]}
  BY RunMoves
  DEF HostInv, HostTypeOK, ControllerSends, InRun, RunPhases, RunResults, Authorized, Stale
<1>2. RunTyped'
  BY <1>1
  DEF HostInv, HostTypeOK, RunTyped, Moved, ControllerSends, runtimeVars, durableVars, flagVars,
      workVars, serverVars
<1>3. HandlesAgree'
  BY <1>1, NoneAssumption
  DEF HostInv, HostTypeOK, HandlesAgree, Moved, Holding, InRun, ControllerSends, runtimeVars,
      durableVars, flagVars, workVars, serverVars
<1>4. ShutdownAgrees'
  BY <1>1
  DEF HostInv, HostTypeOK, ShutdownAgrees, Awaited, HostClosing, InRun, Moved, Settling,
      ControllerSends, runtimeVars, durableVars, flagVars, workVars, serverVars
<1>5. RequestsAgree'
  BY <1>1
  DEF HostInv, HostTypeOK, RequestsAgree, Moved, Claimed, InRun, ControllerSends, runtimeVars,
      durableVars, flagVars, workVars, serverVars
<1>6. RecordAgrees'
  BY <1>1
  DEF HostInv, HostTypeOK, RecordAgrees, Existing, InRun, Moved, ControllerSends, runtimeVars,
      durableVars, flagVars, workVars, serverVars
<1>7. (CallsTyped /\ CallsAgree)'
  BY <1>1
  DEF HostInv, HostTypeOK, CallsTyped, CallsAgree, Existing, Moved, ControllerSends, runtimeVars,
      durableVars, flagVars, workVars, serverVars
<1>8. SentTyped'
  BY <1>1, RunFields
  DEF HostInv, HostTypeOK, SentTyped, FlagsTyped, RunTyped, ControllerSends, runtimeVars,
      durableVars, flagVars, workVars, serverVars
<1>9. (FlagsTyped /\ RecordTyped /\ ShutdownTyped)'
  BY DEF HostInv, HostTypeOK, FlagsTyped, RecordTyped, ShutdownTyped, ControllerSends,
         runtimeVars, durableVars, flagVars, workVars, serverVars
<1>10. QED
  BY <1>2, <1>3, <1>4, <1>5, <1>6, <1>7, <1>8, <1>9 DEF HostInv, HostTypeOK

\* The controller ends with the receipt of its own request, or with an error.
LEMMA ControllerEndsKeeps ==
  ASSUME HostInv, ControllerEnds
  PROVE  HostInv'
<1>1. /\ run # None /\ run.phase \in {"prepared", "sent"}
      /\ record = [state |-> "interrupted", request |-> run.request]
      /\ \/ Moved("executed", "receipt") /\ record' = [record EXCEPT !.state = "done"]
         \/ Moved("executed", "error") /\ record' = record
  BY RunMoves DEF HostInv, HostTypeOK, ControllerEnds, InRun, RunPhases, RunResults, RecordAgrees
<1>2. RunTyped'
  BY <1>1
  DEF HostInv, HostTypeOK, RunTyped, Moved, ControllerEnds, Fault, NoFault, runtimeVars,
      durableVars, flagVars, workVars, serverVars
<1>3. HandlesAgree'
  BY <1>1, NoneAssumption
  DEF HostInv, HostTypeOK, HandlesAgree, Moved, Holding, InRun, ControllerEnds, Fault, NoFault,
      runtimeVars, durableVars, flagVars, workVars, serverVars
<1>4. ShutdownAgrees'
  BY <1>1
  DEF HostInv, HostTypeOK, ShutdownAgrees, Awaited, HostClosing, InRun, Moved, Settling,
      ControllerEnds, Fault, NoFault, runtimeVars, durableVars, flagVars, workVars, serverVars
<1>5. RequestsAgree'
  BY <1>1
  DEF HostInv, HostTypeOK, RequestsAgree, Moved, Claimed, InRun, ControllerEnds, Fault, NoFault,
      runtimeVars, durableVars, flagVars, workVars, serverVars
<1>6. RecordAgrees'
  BY <1>1
  DEF HostInv, HostTypeOK, RecordAgrees, Existing, InRun, Moved, ControllerEnds, Fault, NoFault,
      runtimeVars, durableVars, flagVars, workVars, serverVars
<1>7. (CallsTyped /\ CallsAgree)'
  BY <1>1
  DEF HostInv, HostTypeOK, CallsTyped, CallsAgree, Existing, Moved, ControllerEnds, Fault,
      NoFault, runtimeVars, durableVars, flagVars, workVars, serverVars
<1>8. RecordTyped'
  BY <1>1
  DEF HostInv, HostTypeOK, RecordTyped, Records, ControllerEnds, Fault, NoFault, runtimeVars,
      durableVars, flagVars, workVars, serverVars
<1>9. (FlagsTyped /\ ShutdownTyped /\ SentTyped)'
  BY DEF HostInv, HostTypeOK, FlagsTyped, ShutdownTyped, SentTyped, ControllerEnds, Fault,
         NoFault, runtimeVars, durableVars, flagVars, workVars, serverVars
<1>10. QED
  BY <1>2, <1>3, <1>4, <1>5, <1>6, <1>7, <1>8, <1>9 DEF HostInv, HostTypeOK

\* The stores of the run are closed, or one that stays open is reported at its end.
LEMMA RunClosesKeeps ==
  ASSUME HostInv, RunCloses
  PROVE  HostInv'
<1>1. /\ run # None /\ run.phase = "executed" /\ handles' = handles \ {"run"}
      /\ \/ Moved("ending", run.result) /\ UNCHANGED leaked
         \/ Moved("ending", "cleanup") /\ leaked' = TRUE
  BY RunMoves DEF HostInv, HostTypeOK, RunCloses, InRun, RunPhases, RunResults
<1>2. /\ UNCHANGED <<kind, runtimeVars, durableVars, flagVars, recovery, status, serverVars, shutdown,
                     sent>>
      /\ faults' \in {faults, faults + 1}
  BY DEF RunCloses, Fault, NoFault
<1>3. FlagsTyped'
  <2>1. /\ marker' \in BOOLEAN /\ closing' \in BOOLEAN /\ aborted' \in BOOLEAN /\ owned' \in BOOLEAN
        /\ reconciled' \in BOOLEAN /\ incomplete' \in BOOLEAN /\ leaked' \in BOOLEAN
        /\ running' \in BOOLEAN
    BY <1>1, <1>2 DEF HostInv, HostTypeOK, FlagsTyped, durableVars, flagVars, serverVars
  <2>2. handles' \subseteq {"run", "recovery"}
    BY <1>1, <1>2 DEF HostInv, HostTypeOK, FlagsTyped
  <2>3. QED
    BY <1>2, <2>1, <2>2 DEF HostInv, HostTypeOK, FlagsTyped, runtimeVars, flagVars
<1>4. RunTyped'
  BY <1>1
  DEF HostInv, HostTypeOK, RunTyped, Moved, RunCloses, Fault, NoFault, runtimeVars, durableVars,
      flagVars, workVars, serverVars
<1>5. RecordAgrees'
  BY <1>1
  DEF HostInv, HostTypeOK, RecordAgrees, Existing, InRun, Moved, RunCloses, Fault, NoFault,
      runtimeVars, durableVars, flagVars, workVars, serverVars
<1>6. (CallsTyped /\ CallsAgree)'
  BY <1>1
  DEF HostInv, HostTypeOK, CallsTyped, CallsAgree, Existing, Moved, RunCloses, Fault, NoFault,
      runtimeVars, durableVars, flagVars, workVars, serverVars
<1>7. ShutdownAgrees'
  <2>1. Awaited' = Awaited /\ Awaited # {}
    BY <1>1, <1>2 DEF Awaited, Moved
  <2>2. leaked' => incomplete' \/ (InRun("ending")' /\ run'.result = "cleanup")
    BY <1>1, <1>2 DEF HostInv, ShutdownAgrees, InRun, Moved, flagVars
  <2>3. QED
    BY <1>2, <2>1, <2>2 DEF HostInv, ShutdownAgrees, HostClosing, Settling, flagVars
<1>8. RequestsAgree'
  <2>1. sent' # {} => marker' /\ owned'
    BY <1>1, <1>2 DEF HostInv, RequestsAgree, durableVars, flagVars
  <2>2. run'.phase \in Claimed => sent' = {} /\ marker' /\ owned'
    BY <1>1, <1>2 DEF HostInv, RequestsAgree, Moved, Claimed, durableVars, flagVars
  <2>3. run'.revision = run.revision /\ run'.stops = run.stops
    BY <1>1 DEF Moved
  <2>4. QED
    BY <1>1, <1>2, <2>1, <2>2, <2>3 DEF HostInv, RequestsAgree, runtimeVars
<1>9. HandlesAgree'
  BY <1>1, <1>2, NoneAssumption
  DEF HostInv, HostTypeOK, HandlesAgree, Moved, Holding, runtimeVars, durableVars, flagVars,
      workVars, serverVars
<1>10. (ShutdownTyped /\ SentTyped)'
  BY <1>2
  DEF HostInv, HostTypeOK, ShutdownTyped, SentTyped, runtimeVars, durableVars, flagVars, workVars,
      serverVars
<1>11. RecordTyped'
  BY DEF HostInv, HostTypeOK, RecordTyped, RunCloses, Fault, NoFault, runtimeVars, durableVars,
         flagVars, workVars, serverVars
<1>12. QED
  BY <1>3, <1>4, <1>5, <1>6, <1>7, <1>8, <1>9, <1>10, <1>11 DEF HostInv, HostTypeOK

\* A run that settles answers the call that asked for it, with its own receipt if any, and
\* reports what it left open.
LEMMA RunSettlesKeeps ==
  ASSUME HostInv, RunSettles
  PROVE  HostInv'
<1>1. run # None /\ run \in Runs /\ run.phase = "ending" /\ run' = None
  BY DEF HostInv, HostTypeOK, RunTyped, RunSettles, InRun
<1>2. /\ ShutdownTyped' /\ shutdown'.phase = shutdown.phase /\ shutdown'.failed = shutdown.failed
      /\ shutdown'.awaited = shutdown.awaited \ {"run"}
  BY SettledMoves DEF HostInv, HostTypeOK, RunSettles
<1>3. /\ UNCHANGED <<kind, runtimeVars, durableVars, epoch, aborted, owned, reconciled, recovery, status,
                     handles, leaked, sent, faults>>
      /\ running' = FALSE
  BY DEF RunSettles
<1>4. \/ run.result = "cleanup" /\ closing' = TRUE /\ incomplete' = TRUE
      \/ run.result # "cleanup" /\ UNCHANGED <<closing, incomplete>>
  BY DEF RunSettles, Latch
<1>5. FlagsTyped'
  <2>1. running' \in BOOLEAN /\ closing' \in BOOLEAN /\ incomplete' \in BOOLEAN
    BY <1>3, <1>4 DEF HostInv, HostTypeOK, FlagsTyped
  <2>2. QED
    BY <1>3, <2>1 DEF HostInv, HostTypeOK, FlagsTyped, runtimeVars, durableVars
<1>6. \A c \in Calls :
        /\ call'[c] \in CallRecords /\ call'[c].request = call[c].request
        /\ call'[c].phase # "executing"
        /\ \/ call'[c].answer = call[c].answer
           \/ call[c].phase = "executing" /\ call'[c].answer \in {"error", run.result}
  <2> SUFFICES ASSUME NEW c \in Calls
               PROVE  /\ call'[c] \in CallRecords /\ call'[c].request = call[c].request
                      /\ call'[c].phase # "executing"
                      /\ \/ call'[c].answer = call[c].answer
                         \/ call[c].phase = "executing" /\ call'[c].answer \in {"error", run.result}
    OBVIOUS
  <2>1. call[c] \in CallRecords /\ run.result \in RunResults
    BY <1>1, RunFields DEF HostInv, HostTypeOK, CallsTyped
  <2>2. \/ call'[c] = call[c] /\ call[c].phase # "executing"
        \/ /\ call[c].phase = "executing"
           /\ \E a \in {"error", run.result} : call'[c] = [call[c] EXCEPT !.phase = "done", !.answer = a]
    BY DEF RunSettles
  <2>3. QED
    BY <2>1, <2>2 DEF CallRecords, RunResults
<1>7. CallsTyped'
  BY <1>6
  DEF HostInv, HostTypeOK, CallsTyped, RunSettles, runtimeVars, durableVars, flagVars, workVars,
      serverVars
<1>8. CallsAgree'
  <2> SUFFICES ASSUME NEW c \in Calls, call'[c].answer = "receipt"
               PROVE  Existing /\ record.request = call[c].request
    BY <1>3, <1>6 DEF CallsAgree, Existing, durableVars
  <2>1. CASE call'[c].answer = call[c].answer
    BY <2>1 DEF HostInv, CallsAgree
  <2>2. CASE call[c].phase = "executing" /\ call'[c].answer \in {"error", run.result}
    BY <2>2 DEF HostInv, CallsAgree, RecordAgrees
  <2>3. QED
    BY <1>6, <2>1, <2>2
<1>9. ShutdownAgrees'
  <2>1. HostClosing' = HostClosing /\ (HostClosing => closing')
    BY <1>2, <1>4 DEF HostInv, ShutdownAgrees, HostClosing
  <2>2. Awaited' = Awaited \ {"run"} /\ "run" \in Awaited
    BY <1>1, <1>3 DEF Awaited
  <2>3. leaked' => incomplete'
    BY <1>1, <1>3, <1>4 DEF HostInv, ShutdownAgrees, InRun
  <2>4. QED
    BY <1>2, <2>1, <2>2, <2>3 DEF HostInv, ShutdownAgrees, Settling
<1>10. (RunTyped /\ HandlesAgree /\ RequestsAgree /\ RecordAgrees)'
  BY <1>1, <1>3
  DEF HostInv, HostTypeOK, RunTyped, HandlesAgree, RequestsAgree, RecordAgrees, Existing, InRun,
      Holding, runtimeVars, durableVars, flagVars, workVars, serverVars
<1>11. (RecordTyped /\ SentTyped)'
  BY <1>3
  DEF HostInv, HostTypeOK, RecordTyped, SentTyped, runtimeVars, durableVars, flagVars, workVars,
      serverVars
<1>12. QED
  BY <1>2, <1>5, <1>7, <1>8, <1>9, <1>10, <1>11 DEF HostInv, HostTypeOK

\* The shutdown begins: nothing new does from now on.
LEMMA CloseBeginsKeeps ==
  ASSUME HostInv, CloseBegins
  PROVE  HostInv'
<1>1. ShutdownTyped' /\ shutdown'.phase = "stopped"
  BY ShutdownMoves DEF HostInv, HostTypeOK, CloseBegins
<1>2. \/ UNCHANGED runtimeVars
      \/ revision' = revision + 1 /\ mode' \in {"RESEARCH", "STOPPED"} /\ stops' \in {stops, stops + 1}
  BY DEF CloseBegins, StopPersists
<1>3. FlagsTyped'
  <2>1. closing' = TRUE /\ aborted' \in BOOLEAN /\ epoch' = epoch + 1 /\ faults' \in {faults, faults + 1}
    BY AbortMoves DEF CloseBegins, HostInv, HostTypeOK
  <2>2. UNCHANGED <<kind, durableVars, owned, reconciled, incomplete, workVars, serverVars>>
    BY DEF CloseBegins
  <2>3. QED
    BY <1>2, <2>1, <2>2 DEF HostInv, HostTypeOK, FlagsTyped, runtimeVars, durableVars, workVars, serverVars
<1>4. ShutdownAgrees'
  BY <1>1
  DEF HostInv, HostTypeOK, ShutdownAgrees, Awaited, HostClosing, InRun, Settling, CloseBegins,
      runtimeVars, durableVars, flagVars, workVars, serverVars
<1>5. RequestsAgree'
  BY <1>2, RunFields
  DEF HostInv, HostTypeOK, RequestsAgree, RunTyped, FlagsTyped, Claimed, CloseBegins, runtimeVars,
      durableVars, flagVars, workVars, serverVars
<1>6. (/\ RecordTyped /\ RunTyped /\ CallsTyped
      /\ SentTyped /\ HandlesAgree /\ RecordAgrees /\ CallsAgree)'
  BY DEF HostInv, HostTypeOK, RecordTyped, RunTyped, CallsTyped, SentTyped, HandlesAgree,
         RecordAgrees, Existing, InRun, CallsAgree, CloseBegins, runtimeVars, durableVars,
         flagVars, workVars, serverVars
<1>7. QED
  BY <1>1, <1>3, <1>4, <1>5, <1>6 DEF HostInv, HostTypeOK

\* The server closes, and the provider waits for what is active.
LEMMA ServerClosesKeeps ==
  ASSUME HostInv, ServerCloses
  PROVE  HostInv'
<1>1. ShutdownTyped' /\ shutdown'.phase = "unserved" /\ shutdown'.awaited = Awaited
  BY DEF HostInv, HostTypeOK, ShutdownTyped, Shutdowns, ServerCloses, Awaited
<1>2. \A c \in Calls :
        /\ call'[c] \in CallRecords /\ call'[c].request = call[c].request /\ call'[c].answer = call[c].answer
        /\ call'[c].phase = "executing" => call[c].phase = "executing"
  <2> SUFFICES ASSUME NEW c \in Calls
               PROVE  /\ call'[c] \in CallRecords /\ call'[c].request = call[c].request
                      /\ call'[c].answer = call[c].answer
                      /\ call'[c].phase = "executing" => call[c].phase = "executing"
    OBVIOUS
  <2>1. call[c] \in CallRecords
    BY DEF HostInv, HostTypeOK, CallsTyped
  <2>2. \E p \in {"done", call[c].phase} : call'[c] = [call[c] EXCEPT !.phase = p]
    BY DEF ServerCloses
  <2>3. QED
    BY <2>1, <2>2 DEF CallRecords
<1>3. NothingPromised
  BY <1>2 DEF ServerCloses, CallsTyped, NothingPromised
<1>4. CallsTyped' /\ CallsAgree'
  BY <1>3, CallsStillAgree DEF HostInv, NothingPromised, ServerCloses, durableVars, workVars
<1>5. ShutdownAgrees'
  BY <1>1
  DEF HostInv, HostTypeOK, ShutdownAgrees, Awaited, HostClosing, InRun, Settling, workVars,
      ServerCloses, Aborts, runtimeVars, durableVars, flagVars, serverVars
<1>6. (/\ FlagsTyped /\ RecordTyped /\ RunTyped
      /\ SentTyped /\ HandlesAgree /\ RequestsAgree /\ RecordAgrees)'
  BY AbortMoves
  DEF HostInv, HostTypeOK, FlagsTyped, RecordTyped, RunTyped, SentTyped, HandlesAgree,
         RequestsAgree, RecordAgrees, Existing, InRun, ServerCloses, runtimeVars, durableVars,
         workVars
<1>7. QED
  BY <1>1, <1>4, <1>5, <1>6 DEF HostInv, HostTypeOK

\* The provider has closed when nothing is left, and reports what was left open.
LEMMA ProviderClosesKeeps ==
  ASSUME HostInv, ProviderCloses
  PROVE  HostInv'
<1>1. /\ ShutdownTyped' /\ shutdown'.phase = "settled"
      /\ shutdown'.failed = (shutdown.failed \/ incomplete)
  BY ShutdownMoves DEF HostInv, HostTypeOK, FlagsTyped, ProviderCloses
<1>2. Awaited = {}
  BY DEF HostInv, ShutdownAgrees, ProviderCloses
<1>3. ShutdownAgrees'
  <2>1. leaked => incomplete
    BY <1>2 DEF HostInv, ShutdownAgrees, InRun, Awaited
  <2>2. Awaited' = {} /\ UNCHANGED <<closing, incomplete, leaked>>
    BY <1>2 DEF ProviderCloses, flagVars, workVars, Awaited
  <2>3. HostClosing /\ closing
    BY DEF ProviderCloses, HostInv, ShutdownAgrees, HostClosing
  <2>4. QED
    BY <1>1, <2>1, <2>2, <2>3 DEF ShutdownAgrees, HostClosing, Settling
<1>4. (/\ FlagsTyped /\ RecordTyped /\ RunTyped /\ CallsTyped
      /\ SentTyped /\ HandlesAgree /\ RequestsAgree /\ RecordAgrees /\ CallsAgree)'
  BY DEF HostInv, HostTypeOK, FlagsTyped, RecordTyped, RunTyped, CallsTyped, SentTyped,
         HandlesAgree, RequestsAgree, RecordAgrees, Existing, InRun, CallsAgree, ProviderCloses,
         runtimeVars, durableVars, flagVars, workVars, serverVars
<1>5. QED
  BY <1>1, <1>3, <1>4 DEF HostInv, HostTypeOK

\* The durable stores close, whatever fails.
LEMMA StoresCloseKeeps ==
  ASSUME HostInv, StoresClose
  PROVE  HostInv'
<1>1. /\ ShutdownTyped' /\ shutdown'.phase = "stores closed" /\ shutdown.phase = "settled"
      /\ shutdown.failed => shutdown'.failed
  BY ShutdownMoves DEF HostInv, HostTypeOK, StoresClose
<1>2. ShutdownAgrees'
  BY <1>1
  DEF HostInv, HostTypeOK, ShutdownAgrees, Awaited, HostClosing, InRun, Settling, StoresClose,
      Fault, NoFault, runtimeVars, durableVars, flagVars, workVars, serverVars
<1>3. /\ UNCHANGED <<kind, runtimeVars, durableVars, flagVars, workVars, serverVars, sent>>
      /\ faults' \in {faults, faults + 1}
  BY DEF StoresClose, Fault, NoFault
<1>4. FlagsTyped'
  BY <1>3
  DEF HostInv, HostTypeOK, FlagsTyped, runtimeVars, durableVars, flagVars, workVars, serverVars
<1>5. (/\ RecordTyped /\ RunTyped /\ CallsTyped /\ SentTyped
      /\ HandlesAgree /\ RequestsAgree /\ RecordAgrees /\ CallsAgree)'
  BY DEF HostInv, HostTypeOK, RecordTyped, RunTyped, CallsTyped, SentTyped, HandlesAgree,
         RequestsAgree, RecordAgrees, Existing, InRun, CallsAgree, StoresClose, Fault, NoFault,
         runtimeVars, durableVars, flagVars, workVars, serverVars
<1>6. QED
  BY <1>1, <1>2, <1>4, <1>5 DEF HostInv, HostTypeOK

\* The runtime closes stopped, or the failure is reported.
LEMMA RuntimeClosesKeeps ==
  ASSUME HostInv, RuntimeCloses
  PROVE  HostInv'
<1>1. /\ ShutdownTyped' /\ shutdown'.phase = "closed" /\ shutdown.phase = "stores closed"
      /\ shutdown.failed => shutdown'.failed
      /\ ~shutdown'.failed => mode' = "STOPPED"
  BY ShutdownMoves DEF HostInv, HostTypeOK, RuntimeCloses, StopPersists, runtimeVars
<1>2. \/ UNCHANGED runtimeVars
      \/ revision' = revision + 1 /\ mode' \in {"RESEARCH", "STOPPED"} /\ stops' \in {stops, stops + 1}
  BY DEF RuntimeCloses, StopPersists
<1>3. /\ UNCHANGED <<kind, durableVars, flagVars, workVars, serverVars, sent>>
      /\ faults' \in {faults, faults + 1}
  BY DEF RuntimeCloses, Fault, NoFault
<1>4. FlagsTyped'
  BY <1>2, <1>3
  DEF HostInv, HostTypeOK, FlagsTyped, runtimeVars, durableVars, flagVars, workVars, serverVars
<1>5. ShutdownAgrees'
  BY <1>1
  DEF HostInv, HostTypeOK, ShutdownAgrees, Awaited, HostClosing, InRun, Settling, RuntimeCloses,
      Fault, NoFault, runtimeVars, durableVars, flagVars, workVars, serverVars
<1>6. RequestsAgree'
  BY <1>2, <1>3, RunFields
  DEF HostInv, HostTypeOK, RequestsAgree, RunTyped, FlagsTyped, Claimed, runtimeVars, durableVars,
      flagVars, workVars, serverVars
<1>7. (/\ RecordTyped /\ RunTyped /\ CallsTyped
      /\ SentTyped /\ HandlesAgree /\ RecordAgrees /\ CallsAgree)'
  BY DEF HostInv, HostTypeOK, RecordTyped, RunTyped, CallsTyped, SentTyped, HandlesAgree,
         RecordAgrees, Existing, InRun, CallsAgree, RuntimeCloses, Fault, NoFault, runtimeVars,
         durableVars, flagVars, workVars, serverVars
<1>8. QED
  BY <1>1, <1>4, <1>5, <1>6, <1>7 DEF HostInv, HostTypeOK
-----------------------------------------------------------------------------
(* Theorems. *)

\* The initial states, whatever canary is on record.
LEMMA HostInitially == HostInit => HostInv
<1> SUFFICES ASSUME HostInit
             PROVE  HostInv
  OBVIOUS
<1>1. CallsTyped /\ \A c \in Calls : call[c] = NewCall
  BY DEF HostInit, NewCall, CallsTyped, CallRecords, RunResults
<1>2. FlagsTyped /\ RunTyped /\ ShutdownTyped /\ SentTyped
  BY DEF HostInit, FlagsTyped, RunTyped, ShutdownTyped, Shutdowns, SentTyped
<1>3. RecordTyped
  BY DEF HostInit, RecordTyped, Records, NoRecord
<1>4. HandlesAgree /\ ShutdownAgrees /\ RequestsAgree /\ RecordAgrees
  BY DEF HostInit, HandlesAgree, ShutdownAgrees, HostClosing, Settling, InRun, RequestsAgree, RecordAgrees
<1>5. CallsAgree
  BY <1>1, NoneAssumption DEF CallsAgree, NewCall
<1>6. QED
  BY <1>1, <1>2, <1>3, <1>4, <1>5 DEF HostInv, HostTypeOK

\* Every step of the host keeps the invariant.
LEMMA HostStepKeeps ==
  ASSUME HostInv, [HostNext]_hostVars
  PROVE  HostInv'
<1>1. CASE \E c \in Calls : HandlerStep(c) \/ Disconnect(c)
  BY <1>1, HandleStopKeeps, HandleResearchKeeps, HandleRunKeeps, HandleStatusKeeps, DisconnectKeeps
  DEF HandlerStep
<1>2. CASE \E c \in Calls : \E ask \in Asks[c] : Arrive(c, ask[1], ask[2])
  <2>1. PICK c \in Calls : \E ask \in Asks[c] : Arrive(c, ask[1], ask[2])
    BY <1>2
  <2>2. PICK ask \in Asks[c] : Arrive(c, ask[1], ask[2])
    BY <2>1
  <2>3. ask = <<ask[1], ask[2]>>
    BY AsksAssumption
  <2>4. QED
    BY <2>2, <2>3, ArriveKeeps
<1>3. CASE RunStep
  BY <1>3, RunRecoveredKeeps, RunClaimsKeeps, RunOpensKeeps, RunReadyKeeps, ControllerPreparesKeeps,
     ControllerSendsKeeps, ControllerEndsKeeps, RunClosesKeeps, RunSettlesKeeps
  DEF RunStep
<1>4. CASE RecoveryOpens \/ RecoveryUnavailable \/ RecoveryEnds \/ StatusEnds
  BY <1>4, RecoveryOpensKeeps, RecoveryUnavailableKeeps, RecoveryEndsKeeps, StatusEndsKeeps
<1>5. CASE CloseBegins \/ ShutdownStep
  BY <1>5, CloseBeginsKeeps, ServerClosesKeeps, ProviderClosesKeeps, StoresCloseKeeps, RuntimeClosesKeeps
  DEF ShutdownStep
<1>6. CASE UNCHANGED hostVars
  BY <1>6 DEF hostVars, runtimeVars, durableVars, flagVars, workVars, serverVars, HostInv, HostTypeOK,
              FlagsTyped, RecordTyped, RunTyped, CallsTyped, ShutdownTyped, SentTyped, HandlesAgree,
              ShutdownAgrees, HostClosing, Awaited, InRun, RequestsAgree, RecordAgrees, Existing, CallsAgree
<1>7. QED
  BY <1>1, <1>2, <1>3, <1>4, <1>5, <1>6 DEF HostNext, WorkStep

\* A set whose members are all the same has one at most.
LEMMA AtMostOne ==
  ASSUME NEW S, \A s, t \in S : s = t
  PROVE  Cardinality(S) <= 1
<1>1. CASE S = {}
  <2>1. Cardinality(S) = 0
    BY <1>1, FS_EmptySet, Zenon
  <2>2. QED
    BY <2>1
<1>2. CASE S # {}
  <2>1. PICK s : s \in S
    BY <1>2
  <2>2. S = {s}
    <3>1. \A x \in S : x = s
      BY <2>1
    <3>2. QED
      BY <2>1, <3>1
  <2>3. Cardinality(S) = 1
    BY <2>2, FS_Singleton, Zenon
  <2>4. QED
    BY <2>3
<1>3. QED
  BY <1>1, <1>2

\* The invariant says that the host is alone.
LEMMA HostInvIsEnough == HostInv => HostIsAlone
<1> SUFFICES ASSUME HostInv
             PROVE  HostIsAlone
  OBVIOUS
<1>1. RunsAlone
  <2>1. handles \subseteq {"run", "recovery"}
        /\ ~("run" \in handles /\ "recovery" \in handles)
    BY NoneAssumption DEF HostInv, HostTypeOK, FlagsTyped, HandlesAgree, Holding
  <2>2. \A s, t \in handles : s = t
    BY <2>1
  <2>3. QED
    BY <2>2, AtMostOne DEF RunsAlone
<1>2. ClosedMeansQuiet
  <2>1. ASSUME shutdown.phase \in {"stores closed", "closed"}
        PROVE  /\ run = None /\ recovery = None /\ status = None
               /\ leaked => shutdown.failed
    BY <2>1 DEF HostInv, ShutdownAgrees, Settling, Awaited
  <2>2. run = None /\ recovery = None => handles = {}
    BY NoneAssumption DEF HostInv, HostTypeOK, FlagsTyped, HandlesAgree
  <2>3. QED
    BY <2>1, <2>2 DEF ClosedMeansQuiet, HostInv, ShutdownAgrees
<1>3. RequestsFollowConsent
  <2>1. Cardinality(sent) <= 1
    BY AtMostOne DEF HostInv, RequestsAgree
  <2>2. QED
    BY <2>1 DEF RequestsFollowConsent, HostInv, RequestsAgree, CallsAgree
<1>4. QED
  BY <1>1, <1>2, <1>3 DEF HostIsAlone

\* The invariant holds throughout.
LEMMA HostInvariant == HostSpec => []HostInv
<1>1. HostInv /\ [HostNext]_hostVars => HostInv'
  BY HostStepKeeps
<1>2. QED
  BY HostInitially, <1>1, PTL DEF HostSpec

\* Every variable of the host keeps its type.
THEOREM HostTypeCorrect == HostSpec => []HostTypeOK
<1>1. HostInv => HostTypeOK
  BY DEF HostInv
<1>2. QED
  BY HostInvariant, <1>1, PTL

\* The stores of the canary are open once at a time, however status reads, recoveries, a
\* run and a shutdown interleave; a shutdown that reports no failure leaves nothing
\* running or open and the runtime stopped; and no request goes out once a STOP came,
\* without the marker of this process or a second time, nor does a call get another's receipt.
THEOREM HostStaysAlone == HostSpec => []HostIsAlone
  BY HostInvariant, HostInvIsEnough, PTL

-----------------------------------------------------------------------------
(* The lock. *)

Wheres == {"down", "created", "written", "refused", "acquired", "serving", "closed", "held",
           "released", "done"}
LockFiles == [owner : Processes, whole : BOOLEAN]

LockTypeOK ==
  /\ artifact \in LockFiles \cup {None} /\ durable \in LockFiles \cup {None}
  /\ pc \in [Processes -> Wheres] /\ open \subseteq Processes /\ uncertain \subseteq Processes
  /\ mishaps \in Nat

(* The lock file of a process that has created it and not yet tried to remove it is *)
(* its own, whole once the token is written, and on the disk once that was synced;  *)
(* only such a process has, or may have, something open.                            *)
Locked == {"acquired", "serving", "closed", "held"}
Owns(p) == artifact # None /\ artifact.owner = p

LockIsHeld ==
  \A p \in Processes :
    /\ pc[p] \in Locked \cup {"created", "written"} => Owns(p)
    /\ pc[p] \in Locked \cup {"written"} => artifact.whole
    /\ pc[p] \in Locked => durable = artifact
    /\ p \in open => pc[p] \in {"serving", "held"}
    /\ p \in uncertain => pc[p] = "held"

LockInv == LockTypeOK /\ LockIsHeld

\* A lock file is a lock file, not nothing, and keeps its owner when its token is written.
LEMMA LockFileTypes ==
  /\ \A p \in Processes : [owner |-> p, whole |-> FALSE] \in LockFiles
  /\ \A f \in LockFiles : /\ f # None /\ f.owner \in Processes
                           /\ [f EXCEPT !.whole = TRUE] \in LockFiles
                           /\ [f EXCEPT !.whole = TRUE].owner = f.owner
                           /\ [f EXCEPT !.whole = TRUE].whole = TRUE
<1>1. \A p \in Processes : [owner |-> p, whole |-> FALSE] \in LockFiles
  BY Zenon DEF LockFiles
<1>2. ASSUME NEW f \in LockFiles
      PROVE  f # None /\ f.owner \in Processes
  BY NoArtifactAssumption DEF LockFiles
<1>3. ASSUME NEW f \in LockFiles
      PROVE  /\ [f EXCEPT !.whole = TRUE] \in LockFiles
             /\ [f EXCEPT !.whole = TRUE].owner = f.owner
             /\ [f EXCEPT !.whole = TRUE].whole = TRUE
  BY DEF LockFiles
<1>4. QED
  BY <1>1, <1>2, <1>3

\* Nobody has anything at first.
LEMMA LockInitially == Lock!LockInit => LockInv
  BY DEF Lock!LockInit, LockInv, LockTypeOK, LockIsHeld, Wheres, Locked

\* Only where there is no lock file does one come to be, so nobody else's is taken.
LEMMA CreateKeepsLock ==
  ASSUME LockInv, NEW p \in Processes, Lock!Create(p)
  PROVE  LockInv'
<1>1. LockTypeOK'
  BY LockFileTypes DEF Lock!Create, Lock!At, Lock!Goto, Lock!Mishap, Lock!Owned, Lock!Takeable, LockInv,
      LockTypeOK, LockIsHeld, Wheres, Locked, Owns
<1>2. CASE artifact = None
  <2>1. \A q \in Processes : pc[q] \notin Locked \cup {"created", "written"}
    BY <1>2 DEF LockInv, LockIsHeld, Owns
  <2>2. artifact' = [owner |-> p, whole |-> FALSE] /\ artifact' # None
    BY <1>2, LockFileTypes DEF Lock!Create, Lock!Takeable
  <2>3. pc' = [pc EXCEPT ![p] = "created"] /\ UNCHANGED <<durable, open, uncertain>>
    BY <1>2 DEF Lock!Create, Lock!Takeable, Lock!Goto
  <2>4. LockIsHeld'
    BY <2>1, <2>2, <2>3 DEF LockInv, LockTypeOK, LockIsHeld, Locked, Owns
  <2>5. QED
    BY <1>1, <2>4 DEF LockInv
<1>3. CASE artifact # None
  BY <1>1, <1>3 DEF Lock!Create, Lock!At, Lock!Goto, Lock!Takeable, LockInv, LockTypeOK, LockIsHeld,
      Locked, Owns
<1>4. QED
  BY <1>2, <1>3

\* The token is written into the process's own file.
LEMMA WriteTokenKeepsLock ==
  ASSUME LockInv, NEW p \in Processes, Lock!WriteToken(p)
  PROVE  LockInv'
<1>1. LockTypeOK'
  BY LockFileTypes DEF Lock!WriteToken, Lock!At, Lock!Goto, Lock!Mishap, Lock!Owned, Lock!Takeable,
      LockInv, LockTypeOK, LockIsHeld, Wheres, Locked, Owns
<1>2. LockIsHeld'
  BY LockFileTypes DEF Lock!WriteToken, Lock!At, Lock!Goto, Lock!Mishap, Lock!Owned, Lock!Takeable,
      LockInv, LockTypeOK, LockIsHeld, Wheres, Locked, Owns
<1>3. QED
  BY <1>1, <1>2 DEF LockInv

\* From here on the file on the disk is the whole one.
LEMMA SyncLockKeepsLock ==
  ASSUME LockInv, NEW p \in Processes, Lock!SyncLock(p)
  PROVE  LockInv'
<1>1. LockTypeOK'
  BY LockFileTypes DEF Lock!SyncLock, Lock!At, Lock!Goto, Lock!Mishap, Lock!Owned, Lock!Takeable,
      LockInv, LockTypeOK, LockIsHeld, Wheres, Locked, Owns
<1>2. LockIsHeld'
  BY LockFileTypes DEF Lock!SyncLock, Lock!At, Lock!Goto, Lock!Mishap, Lock!Owned, Lock!Takeable,
      LockInv, LockTypeOK, LockIsHeld, Wheres, Locked, Owns
<1>3. QED
  BY <1>1, <1>2 DEF LockInv

\* A failed acquisition removes only a file that it created itself.
LEMMA AcquireFailsKeepsLock ==
  ASSUME LockInv, NEW p \in Processes, Lock!AcquireFails(p)
  PROVE  LockInv'
<1>1. LockTypeOK'
  BY LockFileTypes DEF Lock!AcquireFails, Lock!At, Lock!Goto, Lock!Mishap, Lock!Owned, Lock!Takeable,
      LockInv, LockTypeOK, LockIsHeld, Wheres, Locked, Owns
<1>2. LockIsHeld'
  BY LockFileTypes DEF Lock!AcquireFails, Lock!At, Lock!Goto, Lock!Mishap, Lock!Owned, Lock!Takeable,
      LockInv, LockTypeOK, LockIsHeld, Wheres, Locked, Owns
<1>3. QED
  BY <1>1, <1>2 DEF LockInv

\* A host starts under the lock that its process acquired.
LEMMA StartKeepsLock ==
  ASSUME LockInv, NEW p \in Processes, Lock!Start(p)
  PROVE  LockInv'
<1>1. LockTypeOK'
  BY LockFileTypes DEF Lock!Start, Lock!At, Lock!Goto, Lock!Mishap, Lock!Owned, Lock!Takeable, LockInv,
      LockTypeOK, LockIsHeld, Wheres, Locked, Owns
<1>2. LockIsHeld'
  BY LockFileTypes DEF Lock!Start, Lock!At, Lock!Goto, Lock!Mishap, Lock!Owned, Lock!Takeable, LockInv,
      LockTypeOK, LockIsHeld, Wheres, Locked, Owns
<1>3. QED
  BY <1>1, <1>2 DEF LockInv

\* A failed start that left something open keeps the lock.
LEMMA StartFailsKeepsLock ==
  ASSUME LockInv, NEW p \in Processes, Lock!StartFails(p)
  PROVE  LockInv'
<1>1. LockTypeOK'
  BY LockFileTypes DEF Lock!StartFails, Lock!At, Lock!Goto, Lock!Mishap, Lock!Owned, Lock!Takeable,
      LockInv, LockTypeOK, LockIsHeld, Wheres, Locked, Owns
<1>2. LockIsHeld'
  BY LockFileTypes DEF Lock!StartFails, Lock!At, Lock!Goto, Lock!Mishap, Lock!Owned, Lock!Takeable,
      LockInv, LockTypeOK, LockIsHeld, Wheres, Locked, Owns
<1>3. QED
  BY <1>1, <1>2 DEF LockInv

\* The lock outlives what it protects.
LEMMA CloseKeepsLock ==
  ASSUME LockInv, NEW p \in Processes, Lock!Close(p)
  PROVE  LockInv'
<1>1. LockTypeOK'
  BY LockFileTypes DEF Lock!Close, Lock!At, Lock!Goto, Lock!Mishap, Lock!Owned, Lock!Takeable, LockInv,
      LockTypeOK, LockIsHeld, Wheres, Locked, Owns
<1>2. LockIsHeld'
  BY LockFileTypes DEF Lock!Close, Lock!At, Lock!Goto, Lock!Mishap, Lock!Owned, Lock!Takeable, LockInv,
      LockTypeOK, LockIsHeld, Wheres, Locked, Owns
<1>3. QED
  BY <1>1, <1>2 DEF LockInv

\* What may be open is treated as open.
LEMMA CloseUncertainKeepsLock ==
  ASSUME LockInv, NEW p \in Processes, Lock!CloseUncertain(p)
  PROVE  LockInv'
<1>1. LockTypeOK'
  BY LockFileTypes DEF Lock!CloseUncertain, Lock!At, Lock!Goto, Lock!Mishap, Lock!Owned, Lock!Takeable,
      LockInv, LockTypeOK, LockIsHeld, Wheres, Locked, Owns
<1>2. LockIsHeld'
  BY LockFileTypes DEF Lock!CloseUncertain, Lock!At, Lock!Goto, Lock!Mishap, Lock!Owned, Lock!Takeable,
      LockInv, LockTypeOK, LockIsHeld, Wheres, Locked, Owns
<1>3. QED
  BY <1>1, <1>2 DEF LockInv

\* A release removes only its own file, after everything is closed.
LEMMA ReleaseKeepsLock ==
  ASSUME LockInv, NEW p \in Processes, Lock!Release(p)
  PROVE  LockInv'
<1>1. LockTypeOK'
  BY LockFileTypes DEF Lock!Release, Lock!At, Lock!Goto, Lock!Mishap, Lock!Owned, Lock!Takeable, LockInv,
      LockTypeOK, LockIsHeld, Wheres, Locked, Owns
<1>2. LockIsHeld'
  BY LockFileTypes DEF Lock!Release, Lock!At, Lock!Goto, Lock!Mishap, Lock!Owned, Lock!Takeable, LockInv,
      LockTypeOK, LockIsHeld, Wheres, Locked, Owns
<1>3. QED
  BY <1>1, <1>2 DEF LockInv

\* The disk forgets the released file or, after an error, does not; no other file is
\* touched.
LEMMA ReleaseSyncKeepsLock ==
  ASSUME LockInv, NEW p \in Processes, Lock!ReleaseSync(p)
  PROVE  LockInv'
<1>1. LockTypeOK'
  BY LockFileTypes DEF Lock!ReleaseSync, Lock!At, Lock!Goto, Lock!Mishap, Lock!Owned, Lock!Takeable,
      LockInv, LockTypeOK, LockIsHeld, Wheres, Locked, Owns
<1>2. LockIsHeld'
  BY LockFileTypes DEF Lock!ReleaseSync, Lock!At, Lock!Goto, Lock!Mishap, Lock!Owned, Lock!Takeable,
      LockInv, LockTypeOK, LockIsHeld, Wheres, Locked, Owns
<1>3. QED
  BY <1>1, <1>2 DEF LockInv

\* What a process had open ends with it.
LEMMA ExitKeepsLock ==
  ASSUME LockInv, NEW p \in Processes, Lock!Exit(p)
  PROVE  LockInv'
<1>1. LockTypeOK'
  BY LockFileTypes DEF Lock!Exit, Lock!At, Lock!Goto, Lock!Mishap, Lock!Owned, Lock!Takeable, LockInv,
      LockTypeOK, LockIsHeld, Wheres, Locked, Owns
<1>2. LockIsHeld'
  BY LockFileTypes DEF Lock!Exit, Lock!At, Lock!Goto, Lock!Mishap, Lock!Owned, Lock!Takeable, LockInv,
      LockTypeOK, LockIsHeld, Wheres, Locked, Owns
<1>3. QED
  BY <1>1, <1>2 DEF LockInv

\* A crash leaves the file behind, but nothing open.
LEMMA CrashKeepsLock ==
  ASSUME LockInv, NEW p \in Processes, Lock!Crash(p)
  PROVE  LockInv'
<1>1. LockTypeOK'
  BY LockFileTypes DEF Lock!Crash, Lock!At, Lock!Goto, Lock!Mishap, Lock!Owned, Lock!Takeable, LockInv,
      LockTypeOK, LockIsHeld, Wheres, Locked, Owns
<1>2. LockIsHeld'
  BY LockFileTypes DEF Lock!Crash, Lock!At, Lock!Goto, Lock!Mishap, Lock!Owned, Lock!Takeable, LockInv,
      LockTypeOK, LockIsHeld, Wheres, Locked, Owns
<1>3. QED
  BY <1>1, <1>2 DEF LockInv

\* A loss of power ends all processes.
LEMMA LosePowerKeepsLock ==
  ASSUME LockInv, Lock!LosePower
  PROVE  LockInv'
<1>1. LockTypeOK'
  BY LockFileTypes DEF Lock!LosePower, Lock!At, Lock!Goto, Lock!Mishap, Lock!Owned, Lock!Takeable,
      LockInv, LockTypeOK, LockIsHeld, Wheres, Locked, Owns
<1>2. LockIsHeld'
  BY LockFileTypes DEF Lock!LosePower, Lock!At, Lock!Goto, Lock!Mishap, Lock!Owned, Lock!Takeable,
      LockInv, LockTypeOK, LockIsHeld, Wheres, Locked, Owns
<1>3. QED
  BY <1>1, <1>2 DEF LockInv

\* An operator removes the file of a process that is gone.
LEMMA RemoveStaleKeepsLock ==
  ASSUME LockInv, Lock!RemoveStale
  PROVE  LockInv'
<1>1. LockTypeOK'
  BY LockFileTypes DEF Lock!RemoveStale, Lock!At, Lock!Goto, Lock!Mishap, Lock!Owned, Lock!Takeable,
      LockInv, LockTypeOK, LockIsHeld, Wheres, Locked, Owns
<1>2. LockIsHeld'
  BY LockFileTypes DEF Lock!RemoveStale, Lock!At, Lock!Goto, Lock!Mishap, Lock!Owned, Lock!Takeable,
      LockInv, LockTypeOK, LockIsHeld, Wheres, Locked, Owns
<1>3. QED
  BY <1>1, <1>2 DEF LockInv

\* Every step keeps the invariant of the lock.
LEMMA LockStepKeeps ==
  ASSUME LockInv, [Lock!LockNext]_(Lock!lockVars)
  PROVE  LockInv'
<1>1. ASSUME NEW p \in Processes, Lock!ProcessStep(p)
      PROVE  LockInv'
  BY <1>1, CreateKeepsLock, WriteTokenKeepsLock, SyncLockKeepsLock, AcquireFailsKeepsLock, StartKeepsLock,
     StartFailsKeepsLock, CloseKeepsLock, CloseUncertainKeepsLock, ReleaseKeepsLock, ReleaseSyncKeepsLock,
     ExitKeepsLock, CrashKeepsLock DEF Lock!ProcessStep
<1>2. CASE Lock!LosePower
  BY <1>2, LosePowerKeepsLock
<1>3. CASE Lock!RemoveStale
  BY <1>3, RemoveStaleKeepsLock
<1>4. CASE UNCHANGED Lock!lockVars
  BY <1>4 DEF Lock!lockVars, LockInv, LockTypeOK, LockIsHeld, Owns
<1>5. QED
  BY <1>1, <1>2, <1>3, <1>4 DEF Lock!LockNext

\* The invariant of the lock holds throughout.
LEMMA LockInvariant == Lock!LockSpec => []LockInv
<1>1. LockInv /\ [Lock!LockNext]_(Lock!lockVars) => LockInv'
  BY LockStepKeeps
<1>2. QED
  BY LockInitially, <1>1, PTL DEF Lock!LockSpec

\* Two processes with something open would both own the one lock file.
LEMMA LockInvIsEnough == LockInv => Lock!OneHost
<1> SUFFICES ASSUME LockInv
             PROVE  Lock!OneHost
  OBVIOUS
<1>1. \A p \in open \cup uncertain : Lock!Owned(p) /\ artifact.whole /\ durable = artifact
  BY DEF LockInv, LockTypeOK, LockIsHeld, Locked, Owns, Lock!Owned
<1>2. \A p, q \in open : p = q
  BY <1>1 DEF Lock!Owned
<1>3. QED
  BY <1>1, <1>2 DEF Lock!OneHost

-----------------------------------------------------------------------------
(* The Keychain. *)

UseKinds == {None, "status", "secrets", "storage"}
UsePhases == {"new", "reading", "consuming", "done"}
UseOutcomes == {None, "missing", "unavailable", "invalid", "configured", "used", "error"}

UsesTyped ==
  /\ use \in [Uses -> [kind : UseKinds, phase : UsePhases, next : 0..4, outcome : UseOutcomes]]
  /\ key \in [Uses -> [Keys!Keys -> {None, "whole", "wiped"}]]

(* A call that reads has in memory exactly the keys that it has read so far; what it *)
(* hands to its consumer are all of them, and afterwards none is left.               *)
KeysFollowCalls ==
  \A u \in Uses :
    /\ use[u].phase = "new" => \A n \in Keys!Keys : key[u][n] = None
    /\ use[u].phase = "reading" => use[u].next \in 1..4
    /\ use[u].phase = "reading" /\ use[u].kind # "status" =>
         \A i \in 2..4 : key[u][Keys!Names[i]] = (IF i < use[u].next THEN "whole" ELSE None)
    /\ use[u].phase = "consuming" => \A n \in Keys!Keys : key[u][n] = "whole"
    /\ use[u].phase = "done" => \A n \in Keys!Keys : key[u][n] # "whole"

(* A claim that succeeded made the marker, and nobody makes it twice. *)
OneClaim == onceMarker \in BOOLEAN /\ claimed \in 0..1 /\ (claimed = 1 => onceMarker)

KeyInv == UsesTyped /\ KeysFollowCalls /\ OneClaim

\* The order in which the four items are read.
LEMMA NamesInOrder ==
  /\ Len(Keys!Names) = 4
  /\ Keys!Names[2] = "operationsStateKey" /\ Keys!Names[3] = "captureRegistryKey"
  /\ Keys!Names[4] = "vaultWrappingKey" /\ Keys!Names[1] = "bearerToken"
  /\ Keys!Keys = {"operationsStateKey", "captureRegistryKey", "vaultWrappingKey"}
<1>1. Len(Keys!Names) = 4 /\ Keys!Names[1] = "bearerToken" /\ Keys!Names[2] = "operationsStateKey"
      /\ Keys!Names[3] = "captureRegistryKey" /\ Keys!Names[4] = "vaultWrappingKey"
  BY DEF Keys!Names
<1>2. Keys!Keys = {Keys!Names[i] : i \in {2, 3, 4}}
  <2>1. 2..Len(Keys!Names) = {2, 3, 4}
    BY <1>1
  <2>2. QED
    BY <2>1 DEF Keys!Keys
<1>3. {Keys!Names[i] : i \in {2, 3, 4}} = {Keys!Names[2], Keys!Names[3], Keys!Names[4]}
  OBVIOUS
<1>4. QED
  BY <1>1, <1>2, <1>3

\* No call has read anything at first, and nobody has claimed.
LEMMA KeysInitially == Keys!KeychainInit => KeyInv
<1> SUFFICES ASSUME Keys!KeychainInit
             PROVE  KeyInv
  OBVIOUS
<1>1. UsesTyped
  BY DEF Keys!KeychainInit, UsesTyped, UseKinds, UsePhases, UseOutcomes
<1>2. KeysFollowCalls
  BY DEF Keys!KeychainInit, KeysFollowCalls
<1>3. OneClaim
  <2>1. onceMarker = FALSE /\ claimed = 0
    BY DEF Keys!KeychainInit
  <2>2. claimed \in 0..1 /\ claimed # 1
    BY <2>1
  <2>3. onceMarker \in BOOLEAN
    BY <2>1, Zenon
  <2>4. QED
    BY <2>2, <2>3 DEF OneClaim
<1>4. QED
  BY <1>1, <1>2, <1>3 DEF KeyInv

\* A call that ends leaves no key behind.
LEMMA EndsUseKeeps ==
  ASSUME UsesTyped, KeysFollowCalls, NEW u \in Uses, NEW outcome \in UseOutcomes,
         Keys!EndsUse(u, outcome)
  PROVE  UsesTyped' /\ KeysFollowCalls'
<1>1. Keys!Wiped(u) \in [Keys!Keys -> {None, "wiped"}]
  BY DEF UsesTyped, Keys!Wiped
<1>2. use' = [use EXCEPT ![u] = [@ EXCEPT !.phase = "done", !.outcome = outcome]]
      /\ key' = [key EXCEPT ![u] = Keys!Wiped(u)]
  BY DEF Keys!EndsUse, UsesTyped
<1>3. UsesTyped'
  BY <1>1, <1>2 DEF UsesTyped, UsePhases
<1>4. \A n \in Keys!Keys : key'[u][n] # "whole"
  BY <1>1, <1>2, NoArtifactAssumption DEF UsesTyped
<1>5. use'[u].phase = "done" /\ \A v \in Uses \ {u} : use'[v] = use[v] /\ key'[v] = key[v]
  BY <1>2 DEF UsesTyped
<1>6. KeysFollowCalls'
  BY <1>4, <1>5 DEF KeysFollowCalls
<1>7. QED
  BY <1>3, <1>6

\* A call starts with nothing in memory.
LEMMA StartUseKeeps ==
  ASSUME KeyInv, NEW u \in Uses, NEW kind1 \in {"status", "secrets", "storage"}, Keys!StartUse(u, kind1)
  PROVE  KeyInv'
<1>1. UsesTyped'
  BY NoArtifactAssumption DEF KeyInv, UsesTyped, Keys!StartUse, UseKinds, UsePhases, UseOutcomes
<1>2. KeysFollowCalls'
  <2>1. key' = key /\ \A n \in Keys!Keys : key[u][n] = None
    BY DEF KeyInv, KeysFollowCalls, Keys!StartUse
  <2>2. /\ use'[u].phase = "reading" /\ use'[u].next \in 1..2
        /\ \A v \in Uses \ {u} : use'[v] = use[v]
    BY DEF KeyInv, UsesTyped, Keys!StartUse
  <2>3. \A i \in 2..4 : Keys!Names[i] \in Keys!Keys
    BY NamesInOrder
  <2>4. QED
    BY <2>1, <2>2, <2>3 DEF KeyInv, KeysFollowCalls
<1>3. OneClaim'
  BY DEF KeyInv, OneClaim, Keys!StartUse, Keys!claimVars
<1>4. QED
  BY <1>1, <1>2, <1>3 DEF KeyInv

\* A status call reads no key.
LEMMA StatusStepKeeps ==
  ASSUME UsesTyped, KeysFollowCalls, NEW u \in Uses,
         NEW reply \in {"missing", "found", "failed"}, Keys!StatusStep(u, reply)
  PROVE  UsesTyped' /\ KeysFollowCalls'
<1>1. CASE \E outcome \in UseOutcomes : Keys!EndsUse(u, outcome)
  BY <1>1, EndsUseKeeps
<1>2. CASE use' = [use EXCEPT ![u].next = @ + 1] /\ UNCHANGED key /\ use[u].next # 4
  <2>1. use[u].phase = "reading" /\ use[u].kind = "status"
    BY DEF Keys!StatusStep, Keys!Reading
  <2>2. use[u].next \in 1..3
    BY <1>2, <2>1 DEF KeysFollowCalls
  <2>3. UsesTyped'
    BY <1>2, <2>2 DEF UsesTyped
  <2>4. /\ use'[u].phase = "reading" /\ use'[u].kind = "status" /\ use'[u].next \in 1..4
        /\ \A v \in Uses \ {u} : use'[v] = use[v]
    BY <1>2, <2>1, <2>2 DEF UsesTyped
  <2>5. KeysFollowCalls'
    BY <1>2, <2>4 DEF KeysFollowCalls
  <2>6. QED
    BY <2>3, <2>5
<1>3. QED
  <2>1. CASE reply \in {"missing", "failed"} \/ use[u].next = Len(Keys!Names)
    <3>1. \E outcome \in {"missing", "unavailable", "configured"} : Keys!EndsUse(u, outcome)
      BY <2>1 DEF Keys!StatusStep
    <3>2. QED
      BY <1>1, <3>1 DEF UseOutcomes
  <2>2. CASE reply = "found" /\ use[u].next # Len(Keys!Names)
    <3>1. use' = [use EXCEPT ![u].next = @ + 1] /\ UNCHANGED key
      BY <2>2 DEF Keys!StatusStep
    <3>2. QED
      BY <1>2, <2>2, <3>1, NamesInOrder
  <2>3. QED
    BY <2>1, <2>2

\* A reading adds the next key in order, or ends the call with all that was read wiped.
LEMMA ReadStepKeeps ==
  ASSUME UsesTyped, KeysFollowCalls, NEW u \in Uses,
         NEW reply \in {"missing", "invalid", "found", "failed"}, Keys!ReadStep(u, reply)
  PROVE  UsesTyped' /\ KeysFollowCalls'
<1>1. CASE reply # "found"
  <2>1. PICK outcome \in UseOutcomes : Keys!EndsUse(u, outcome)
    BY <1>1 DEF Keys!ReadStep, UseOutcomes
  <2>2. QED
    BY <2>1, EndsUseKeeps
<1>2. CASE reply = "found"
  <2> DEFINE m == use[u].next
  <2>1. use[u].phase = "reading" /\ use[u].kind # "status" /\ m \in 1..4
    BY DEF Keys!ReadStep, Keys!Reading, KeysFollowCalls
  <2>2. key' = [key EXCEPT ![u] = [n \in Keys!Keys |-> IF n = Keys!Names[m] THEN "whole" ELSE key[u][n]]]
    BY <1>2 DEF Keys!ReadStep, Keys!Name
  <2>3. use' = [use EXCEPT ![u] = IF m = 4 THEN [use[u] EXCEPT !.phase = "consuming"]
                                  ELSE [use[u] EXCEPT !.next = m + 1]]
    <3>1. use' = IF use[u].next = Len(Keys!Names) THEN [use EXCEPT ![u].phase = "consuming"]
                 ELSE [use EXCEPT ![u].next = @ + 1]
      BY <1>2 DEF Keys!ReadStep
    <3>2. QED
      BY <3>1, NamesInOrder
  <2>4. UsesTyped'
    <3>1. key' \in [Uses -> [Keys!Keys -> {None, "whole", "wiped"}]]
      BY <2>2 DEF UsesTyped
    <3>2. use' \in [Uses -> [kind : UseKinds, phase : UsePhases, next : 0..4, outcome : UseOutcomes]]
      BY <2>1, <2>3 DEF UsesTyped, UsePhases
    <3>3. QED
      BY <3>1, <3>2 DEF UsesTyped
  <2>5. \A v \in Uses \ {u} : use'[v] = use[v] /\ key'[v] = key[v]
    BY <2>2, <2>3 DEF UsesTyped
  <2>6. \A i \in 2..4 : key'[u][Keys!Names[i]] = (IF i < m + 1 THEN "whole" ELSE None)
    <3>1. \A i \in 2..4 : /\ Keys!Names[i] \in Keys!Keys
                          /\ Keys!Names[i] = Keys!Names[m] => i = m
      BY <2>1, NamesInOrder
    <3>2. \A n \in Keys!Keys : key'[u][n] = IF n = Keys!Names[m] THEN "whole" ELSE key[u][n]
      BY <2>2 DEF UsesTyped
    <3>3. QED
      BY <2>1, <3>1, <3>2 DEF KeysFollowCalls
  <2>7. CASE m = 4
    <3>1. use'[u].phase = "consuming"
      BY <2>3, <2>7 DEF UsesTyped
    <3>2. \A n \in Keys!Keys : key'[u][n] = "whole"
      BY <2>6, <2>7, NamesInOrder
    <3>3. QED
      BY <2>4, <2>5, <3>1, <3>2 DEF KeysFollowCalls
  <2>8. CASE m # 4
    <3>1. use'[u].phase = "reading" /\ use'[u].kind = use[u].kind /\ use'[u].next = m + 1
      BY <2>1, <2>3, <2>8 DEF UsesTyped
    <3>2. QED
      BY <2>1, <2>4, <2>5, <2>6, <2>8, <3>1 DEF KeysFollowCalls
  <2>9. QED
    BY <2>7, <2>8
<1>3. QED
  BY <1>1, <1>2

\* One command of the Keychain, answered or not.
LEMMA ReadItemKeeps ==
  ASSUME KeyInv, NEW u \in Uses, Keys!ReadItem(u)
  PROVE  KeyInv'
<1>1. \/ \E reply \in {"missing", "found", "failed"} : Keys!StatusStep(u, reply)
      \/ \E reply \in {"missing", "invalid", "found", "failed"} : Keys!ReadStep(u, reply)
  <2>1. Keys!Replies(u) \subseteq {"missing", "invalid", "found"}
    BY DEF Keys!Replies
  <2>2. use[u].kind = "status" => Keys!Replies(u) \subseteq {"missing", "found"}
    BY DEF Keys!Replies
  <2>3. \A reply : Keys!StatusStep(u, reply) => use[u].kind = "status"
    BY DEF Keys!StatusStep
  <2>4. QED
    BY <2>1, <2>2, <2>3 DEF Keys!ReadItem
<1>2. UsesTyped' /\ KeysFollowCalls'
  BY <1>1, StatusStepKeeps, ReadStepKeeps DEF KeyInv
<1>3. OneClaim'
  BY DEF Keys!ReadItem, Keys!claimVars, KeyInv, OneClaim
<1>4. QED
  BY <1>2, <1>3 DEF KeyInv

\* Whatever the consumer did, the call ends.
LEMMA ConsumerEndsKeeps ==
  ASSUME KeyInv, NEW u \in Uses, Keys!ConsumerEnds(u)
  PROVE  KeyInv'
<1>1. \E outcome \in UseOutcomes : Keys!EndsUse(u, outcome)
  BY DEF Keys!ConsumerEnds, UseOutcomes
<1>2. UsesTyped' /\ KeysFollowCalls'
  BY <1>1, EndsUseKeeps DEF KeyInv
<1>3. OneClaim'
  BY DEF Keys!ConsumerEnds, Keys!claimVars, KeyInv, OneClaim
<1>4. QED
  BY <1>2, <1>3 DEF KeyInv

\* Whether the marker is there decides what a claim is told.
LEMMA ClaimStepKeeps ==
  ASSUME KeyInv, NEW h \in Claimants,
         \/ Keys!StartClaim(h) \/ Keys!ClaimRuns(h) \/ Keys!ClaimFails(h)
         \/ Keys!ClaimStatus(h) \/ Keys!Restart(h)
  PROVE  KeyInv'
<1>1. UNCHANGED <<use, key>>
  BY DEF Keys!StartClaim, Keys!ClaimRuns, Keys!ClaimFails, Keys!ClaimStatus, Keys!Restart, Keys!useVars
<1>2. UsesTyped' /\ KeysFollowCalls'
  BY <1>1 DEF KeyInv, UsesTyped, KeysFollowCalls
<1>3. CASE Keys!ClaimRuns(h)
  <2>1. onceMarker' = TRUE /\ claimed' \in {claimed, claimed + (IF onceMarker THEN 0 ELSE 1)}
    BY <1>3 DEF Keys!ClaimRuns, Keys!Added
  <2>2. OneClaim'
    BY <2>1 DEF KeyInv, OneClaim
  <2>3. QED
    BY <1>2, <2>2 DEF KeyInv
<1>4. CASE Keys!StartClaim(h) \/ Keys!ClaimFails(h) \/ Keys!ClaimStatus(h) \/ Keys!Restart(h)
  <2>1. claimed' = claimed /\ onceMarker' \in {onceMarker, TRUE}
    BY <1>4 DEF Keys!StartClaim, Keys!ClaimFails, Keys!ClaimStatus, Keys!Restart
  <2>2. OneClaim'
    BY <2>1 DEF KeyInv, OneClaim
  <2>3. QED
    BY <1>2, <2>2 DEF KeyInv
<1>5. QED
  BY <1>3, <1>4

\* Every step keeps the invariant of the Keychain.
LEMMA KeyStepKeeps ==
  ASSUME KeyInv, [Keys!KeychainNext]_(Keys!keychainVars)
  PROVE  KeyInv'
<1>1. CASE UNCHANGED Keys!keychainVars
  BY <1>1 DEF Keys!keychainVars, Keys!useVars, Keys!claimVars, KeyInv, UsesTyped, KeysFollowCalls, OneClaim
<1>2. ASSUME NEW n, Keys!OwnerChanges(n)
      PROVE  KeyInv'
  BY <1>2 DEF Keys!OwnerChanges, Keys!claimVars, KeyInv, UsesTyped, KeysFollowCalls, OneClaim
<1>3. QED
  BY <1>1, <1>2, ReadItemKeeps, ConsumerEndsKeeps, StartUseKeeps, ClaimStepKeeps DEF Keys!KeychainNext

\* The invariant of the Keychain holds throughout.
LEMMA KeyInvariant == Keys!KeychainSpec => []KeyInv
<1>1. KeyInv /\ [Keys!KeychainNext]_(Keys!keychainVars) => KeyInv'
  BY KeyStepKeeps
<1>2. QED
  BY KeysInitially, <1>1, PTL DEF Keys!KeychainSpec

\* The invariant says that keys and claims are kept.
LEMMA KeyInvIsEnough == KeyInv => Keys!KeychainIsKept
<1> SUFFICES ASSUME KeyInv
             PROVE  Keys!KeychainIsKept
  OBVIOUS
<1>1. ASSUME NEW u \in Uses, NEW n \in Keys!Keys, key[u][n] = "whole"
      PROVE  use[u].phase \in {"reading", "consuming"}
  <2>1. use[u].phase \in UsePhases
    BY DEF KeyInv, UsesTyped
  <2>2. None # "whole"
    BY NoArtifactAssumption
  <2>3. use[u].phase # "new" /\ use[u].phase # "done"
    BY <1>1, <2>2 DEF KeyInv, KeysFollowCalls
  <2>4. QED
    BY <2>1, <2>3 DEF UsePhases
<1>2. \A u \in Uses : use[u].phase = "consuming" => \A n \in Keys!Keys : key[u][n] = "whole"
  BY DEF KeyInv, KeysFollowCalls
<1>3. claimed =< 1 /\ (claimed = 1 => onceMarker)
  BY DEF KeyInv, OneClaim
<1>4. QED
  BY <1>1, <1>2, <1>3 DEF Keys!KeychainIsKept

\* However processes start, fail, close, die or lose power, and whichever commands of the
\* Keychain fail or are late: one process at a time has the canary's stores open, under its
\* own lock file on the disk; no key stays in memory after the call that read it; and over all
\* processes and restarts one claim succeeds at most.
THEOREM LockAndKeysStayKept == Lock!LockSpec /\ Keys!KeychainSpec => []LockAndKeysAreKept
<1>1. LockInv /\ KeyInv => LockAndKeysAreKept
  BY LockInvIsEnough, KeyInvIsEnough DEF LockAndKeysAreKept
<1>2. QED
  BY LockInvariant, KeyInvariant, <1>1, PTL

=============================================================================
