---------------------------- MODULE LocalClosure ----------------------------
(***************************************************************************)
(* The local closure of a session: a verifier reads what the session left  *)
(* behind, one store after another, and has the coordinator record that    *)
(* the session is closed or that it is not.  Several verifiers may do this *)
(* at a time, each over reports of recovery artifacts.                     *)
(*                                                                         *)
(* What a session leaves is the doing of its attempts: captures, and       *)
(* incidents.  An attempt is reserved while the session  *)
(* runs, and captures and reports until it is closed; if its process died  *)
(* it is closed as failed, with whatever capture it had begun.             *)
(***************************************************************************)
EXTENDS Integers, Sequences, FiniteSets, TLC

CONSTANTS
  Lanes, Verifiers,
  Profile,
  Reports,        \* of recovery artifacts: state evidence, event archive, release bundle, and what is expected
  MaxAttempts,    \* bound: attempts
  MaxEvents,      \* bound: events appended
  None

VARIABLES
  session,        \* its state
  attempts,       \* in order: [lane, profile, outcome]; None while open, succeeded and empty are "useful"
  captures,       \* of them: attempt |-> "pending" | "committed" | "removed"
  incidents,      \* the attempts that had one
  log,            \* [events, anchored]: how many there are, and how many a checkpoint covers
  verifier

closureVars == <<session, attempts, captures, incidents, log, verifier>>

Idle == [at |-> 0]

ClosureInit == /\ session = "running" /\ attempts = <<>> /\ captures = <<>> /\ incidents = {}
               /\ log = [events |-> 1, anchored |-> 1] /\ verifier = [v \in Verifiers |-> Idle]

-----------------------------------------------------------------------------
(* The session. *)

Open(n) == attempts[n].outcome = None

Reserve(lane, profile) ==
  /\ session = "running" /\ Len(attempts) < MaxAttempts
  /\ attempts' = Append(attempts, [lane |-> lane, profile |-> profile, outcome |-> None])
  /\ UNCHANGED <<session, captures, incidents, log, verifier>>

\* The stop blocks the egress.
StopSession == /\ session = "running" /\ session' = "stopping"
               /\ UNCHANGED <<attempts, captures, incidents, log, verifier>>

Capture(n) ==
  /\ Open(n)
  /\ \/ n \notin DOMAIN captures /\ captures' = [m \in DOMAIN captures \cup {n} |-> IF m = n THEN "pending" ELSE captures[m]]
     \/ n \in DOMAIN captures /\ captures[n] = "pending" /\ captures' = [captures EXCEPT ![n] = "committed"]
  /\ UNCHANGED <<session, attempts, incidents, log, verifier>>

RemoveCapture(n) == /\ n \in DOMAIN captures /\ captures[n] = "committed"
                    /\ captures' = [captures EXCEPT ![n] = "removed"]
                    /\ UNCHANGED <<session, attempts, incidents, log, verifier>>

CloseAttempt(n, outcome) ==
  /\ Open(n) /\ (n \in DOMAIN captures /\ captures[n] = "pending" => outcome = "failed")
  /\ attempts' = [attempts EXCEPT ![n].outcome = outcome]
  /\ UNCHANGED <<session, captures, incidents, log, verifier>>

Raise(n) == /\ Open(n) /\ incidents' = incidents \cup {n}
            /\ UNCHANGED <<session, attempts, captures, log, verifier>>

LogEvent == /\ log.events < MaxEvents /\ log' = [log EXCEPT !.events = @ + 1]
            /\ UNCHANGED <<session, attempts, captures, incidents, verifier>>
Anchor == /\ log.anchored < log.events /\ log' = [log EXCEPT !.anchored = log.events]
          /\ UNCHANGED <<session, attempts, captures, incidents, verifier>>

-----------------------------------------------------------------------------
(* verifySessionRecoveryArtifacts. *)

\* The three were each verified and speak of one session and one release, signed by one key.
Bound(r) ==
  /\ r.state.profile = r.expected.profile /\ r.archive.profile = r.expected.profile
  /\ r.state.session = r.expected.session /\ r.archive.session = r.expected.session
  /\ {r.state.release, r.archive.release, r.release.manifest} = {r.expected.release}
  /\ r.archive.backup = r.state.id
  /\ r.state.signer = r.archive.signer /\ r.state.signer = r.release.signer

Verified(reports) == {r \in reports : Bound(r)}

-----------------------------------------------------------------------------
(* What the stores say of the session. *)

Of(lane) == {n \in DOMAIN attempts : attempts[n].lane = lane /\ attempts[n].profile = Profile}

GroupOf(lane) ==
  [attempts |-> Cardinality(Of(lane)), closed |-> Cardinality({n \in Of(lane) : ~Open(n)}),
   useful |-> Cardinality({n \in Of(lane) : attempts[n].outcome = "useful"})]

\* getSessionAttemptSummary: the attempts on another profile's budget are only counted.
AttemptSummary == [foreign |-> {n \in DOMAIN attempts : attempts[n].profile # Profile},
                   groups |-> [lane \in Lanes |-> GroupOf(lane)]]

SourceGroupClosed(group) == group.attempts > 0 /\ group.closed = group.attempts /\ group.useful > 0

\* A store that does not verify or cannot be read closes no lane.
LaneClosed(summary, lane) == summary.foreign = {} /\ SourceGroupClosed(summary.groups[lane])

-----------------------------------------------------------------------------
(* verifyAndRecordLocalClosure. *)

\* Mutant: the attempts are summarised last.
Order_AttemptsLast == <<"recover", "captures", "alerts", "attempts", "record">>

\* One store after another, the recovery of the captures being awaited.
Order == <<"attempts", "recover", "captures", "alerts", "record">>

NoFacts == [sources |-> FALSE, purge |-> FALSE, events |-> FALSE, incident |-> TRUE]

At(v, step) == verifier[v].at # 0 /\ Order[verifier[v].at] = step
Found(v, facts) == verifier' = [verifier EXCEPT ![v] = [at |-> @.at + 1, facts |-> facts]]

BeginClosure(v, r) ==
  /\ verifier[v] = Idle /\ session = "stopping" /\ r.expected.profile = Profile
  /\ verifier' = [verifier EXCEPT ![v] = [at |-> 1, facts |-> NoFacts]]
  /\ UNCHANGED <<session, attempts, captures, incidents, log>>

SummariseAttempts(v) ==
  /\ At(v, "attempts")
  /\ \E readable \in BOOLEAN :
       Found(v, [verifier[v].facts EXCEPT !.sources =
                   readable /\ \A lane \in Lanes : LaneClosed(AttemptSummary, lane)])
  /\ UNCHANGED <<session, attempts, captures, incidents, log>>

\* recoverCaptureStorage takes away what was begun and not committed.
Recovered(state) == IF state = "pending" THEN "removed" ELSE state

Settled(states) == \A n \in DOMAIN states : states[n] = "removed"

Recover(v) ==
  /\ At(v, "recover")
  /\ captures' = [n \in DOMAIN captures |-> Recovered(captures[n])]
  /\ Found(v, verifier[v].facts)
  /\ UNCHANGED <<session, attempts, incidents, log>>

ReadCaptures(v) ==
  /\ At(v, "captures")
  /\ \E readable \in BOOLEAN : Found(v, [verifier[v].facts EXCEPT !.purge = readable /\ Settled(captures)])
  /\ UNCHANGED <<session, attempts, captures, incidents, log>>

\* The whole log has to be under a checkpoint; an alert that is not delivered has its incident.
ReadEventsAndAlerts(v) ==
  /\ At(v, "alerts")
  /\ \E readable \in BOOLEAN :
       Found(v, [verifier[v].facts EXCEPT !.events = readable /\ log.anchored = log.events,
                                          !.incident = readable => incidents # {}])
  /\ UNCHANGED <<session, attempts, captures, incidents, log>>

\* What the coordinator finds in the facts; None if nothing is wrong.
LocalFailureReason(facts) ==
  IF facts.incident THEN "incident-detected"
  ELSE IF ~facts.purge THEN "purge-failed"
  ELSE IF ~facts.sources THEN "source-incomplete"
  ELSE IF ~facts.events THEN "local-verification-failed"
  ELSE None

RecordClosure(v) ==
  /\ At(v, "record") /\ verifier' = [verifier EXCEPT ![v] = Idle]
  /\ session' = IF session # "stopping" THEN session
                ELSE IF LocalFailureReason(verifier[v].facts) = None THEN "locally_verified" ELSE "invalid"
  /\ UNCHANGED <<attempts, captures, incidents, log>>

ClosureNext ==
  \/ StopSession \/ LogEvent \/ Anchor
  \/ \E lane \in Lanes, profile \in {Profile, "other"} : Reserve(lane, profile)
  \/ \E n \in DOMAIN attempts :
       \/ Capture(n) \/ RemoveCapture(n) \/ Raise(n)
       \/ \E outcome \in {"useful", "failed"} : CloseAttempt(n, outcome)
  \/ \E v \in Verifiers :
       \/ \E r \in Verified(Reports) : BeginClosure(v, r)
       \/ SummariseAttempts(v) \/ Recover(v) \/ ReadCaptures(v) \/ ReadEventsAndAlerts(v) \/ RecordClosure(v)

ClosureSpec == ClosureInit /\ [][ClosureNext]_closureVars

-----------------------------------------------------------------------------
(* Property. *)

\* However its attempts, its captures and two verifiers interleave, of a session that is
\* recorded as locally verified nothing is left, and nothing comes later: every attempt is
\* closed and on its own profile, every lane was of use once, every capture is removed, and
\* there was no incident.
ClosedMeansNothingLeft ==
  session = "locally_verified" =>
    /\ \A n \in DOMAIN attempts : ~Open(n) /\ attempts[n].profile = Profile
    /\ \A lane \in Lanes : \E n \in DOMAIN attempts :
         attempts[n].lane = lane /\ attempts[n].outcome = "useful"
    /\ \A n \in DOMAIN captures : captures[n] = "removed"
    /\ incidents = {}

=============================================================================
