------------------------- MODULE MCSessionLifecycle -------------------------
(* Three scopes: two sessions that compete, the hours of which are one tick;  *)
(* one session through all of its windows, which keep their order; and the    *)
(* closure of a session by two verifiers.                                     *)
EXTENDS SessionLifecycle, TLC

CONSTANTS Verifiers, Lanes, Profile, Reports, MaxAttempts, MaxEvents   \* of LocalClosure

VARIABLES
  scope,
  wSessions, wAudit, wOpen, wPin, wCopy,                   \* of the windows
  session, attempts, captures, incidents, log, verifier    \* of LocalClosure

W == INSTANCE SessionLifecycle WITH
       Sessions <- {"s1"}, Minute45 <- 1, Minute90 <- 2, Grace <- 1, MaxSupervised <- 3,
       MaxReconciliation <- 1, DayLength <- 4, MaxSessions <- 1, MaxTime <- 5, HeadsAt <- {0, 10}, CopiesAt <- {9},
       sessions <- wSessions, audit <- wAudit, open <- wOpen, pin <- wPin, copy <- wCopy

\* A report with each of the bindings broken once, and one that is sound.
SoundReport == [state |-> [profile |-> "canary", session |-> "s", release |-> "m", id |-> "i", signer |-> "k"],
          archive |-> [profile |-> "canary", session |-> "s", release |-> "m", backup |-> "i", signer |-> "k"],
          release |-> [manifest |-> "m", signer |-> "k"],
          expected |-> [profile |-> "canary", session |-> "s", release |-> "m"]]
MCReports == {SoundReport, [SoundReport EXCEPT !.archive.backup = "j"], [SoundReport EXCEPT !.release.manifest = "n"],
              [SoundReport EXCEPT !.archive.session = "t"], [SoundReport EXCEPT !.state.signer = "l"]}

C == INSTANCE LocalClosure

\* What stands for an open attempt and for no failure is neither.
ASSUME OutcomeAssumption ==
  None \notin {"useful", "failed", "incident-detected", "purge-failed", "source-incomplete", "local-verification-failed"}

windows == <<wSessions, wAudit, wOpen, wPin, wCopy>>
closure == <<session, attempts, captures, incidents, log, verifier>>

MCInit == /\ scope \in {"pairs", "windows", "closure"}
          /\ Init /\ W!Init /\ C!ClosureInit

MCNext ==
  /\ UNCHANGED scope
  /\ \/ scope = "pairs" /\ Next /\ UNCHANGED <<windows, closure>>
     \/ scope = "windows" /\ W!Next /\ UNCHANGED <<vars, closure>>
     \/ scope = "closure" /\ C!ClosureNext /\ UNCHANGED <<vars, windows>>

MCSpec == MCInit /\ [][MCNext]_<<vars, scope, windows, closure>>

\* The two sessions are alike, and so are the verifiers.
Interchangeable == Permutations(Sessions) \cup Permutations(Verifiers)

\* At every edge of a window the records of the one session stay sound, across restarts
\* and copies of its file.
WindowsStaySound == W!SessionsStaySound

\* A session that is recorded as locally verified left nothing open, however its attempts,
\* its captures and the verifiers interleave.
ClosedMeansNothingLeft == C!ClosedMeansNothingLeft
=============================================================================
