-------------------------- MODULE BoundaryCommands --------------------------
(***************************************************************************)
(* How a local store uses the runtime: a command asks for an authorization *)
(* bound to what it is about to record, consumes it (one committed check   *)
(* in the runtime's log), and, if the boundary is one of local commit,     *)
(* records under a second transaction that finds the authority still fresh.*)
(* Several processes share the runtime's log and the store; each runs one  *)
(* synchronous command at a time, so others interleave only between the    *)
(* transactions.  What a check decides is RuntimeController's.             *)
(***************************************************************************)
EXTENDS Integers, Sequences

CONSTANTS
  Processes,
  TTL,            \* lifetime of an authorization
  MaxTime,        \* bound: the clocks
  MaxLog,         \* bound: the runtime's log
  None

ASSUME LifetimeAssumption == TTL \in Nat

VARIABLES
  log,            \* the runtime's audit log
  now,            \* the monotonic clock; the wall clock may read one unit less
  job             \* process |-> the command it is in the middle of

commandVars == <<log, now, job>>

R == INSTANCE RuntimeController WITH
       Requests <- {}, AuthIds <- {}, Tickets <- {}, Boundaries <- {},
       open <- {}, ticket <- <<>>, mono <- now, tx <- 0, sends <- <<>>,
       durable <- {}, results <- {}, commits <- {}, reply <- "none"

State == R!State(log)
Readings == {t \in {now - 1, now} : t >= 0}
Idle == [stage |-> "idle"]
At(p, stage) == job[p].stage = stage
Goto(p, j) == job' = [job EXCEPT ![p] = j]
Opened(p) == \E n \in DOMAIN log : log[n].type = "startup" /\ log[n].process = p

\* A process is up and its operator has enabled the mode its commands need.
CommandInit(p, modes) ==
  LET start == <<R!StopEvent("startup", R!State(<<>>), p, p, 0)>>
      raise(l, m) == Append(l, R!TransitionEvent(R!State(l), m, Len(l), 0))
  IN  /\ now = 0 /\ job = [q \in Processes |-> Idle]
      /\ log = IF Len(modes) = 1 THEN raise(start, modes[1])
               ELSE raise(raise(start, modes[1]), modes[2])

HasRoom == Len(log) < MaxLog

-----------------------------------------------------------------------------
(* The runtime, as far as the commands can tell. *)

\* Another controller opens on the same log: it stops and supersedes.
Supersede(p) ==
  /\ ~Opened(p) /\ HasRoom
  /\ log' = Append(log, R!StopEvent("startup", State, p, p, R!NonRegressing(now, log)))
  /\ UNCHANGED <<now, job>>

SetMode(to) ==
  /\ HasRoom
  /\ LET e == IF to = "STOPPED" THEN R!StopEvent("stop", State, State.process, Len(log), R!NonRegressing(now, log))
              ELSE R!TransitionEvent(State, to, Len(log), R!NonRegressing(now, log))
     IN /\ (to = "STOPPED" /\ State.mode # "STOPPED") \/ R!TransitionAllowed(State.mode, to)
        /\ log' = Append(log, e)
  /\ UNCHANGED <<now, job>>

Tick == now < MaxTime /\ now' = now + 1 /\ UNCHANGED <<log, job>>

-----------------------------------------------------------------------------
(* A command. *)

\* The authorization p is given for an action; its id is new whenever it is checked.
Grant(p, boundary, action, t) ==
  [auth |-> [id |-> <<p, Len(log)>>, action |-> action], boundary |-> boundary,
   process |-> p, mode |-> State.mode, revision |-> State.revision,
   requestedAt |-> R!NonRegressing(t, log), expiresAt |-> R!NonRegressing(t, log) + TTL,
   monotonicIssuedAt |-> now, monotonicExpiresAt |-> now + TTL]

Granted(p, q) ==
  /\ At(p, "idle") /\ Opened(p)
  /\ R!BoundaryReason(q, State, q.requestedAt) = "ALLOWED"

Command(q, about, state) == [stage |-> "granted", q |-> q, about |-> about, state |-> state]

\* A refusal is logged as well, and the command is over.
Consume(p, t) ==
  /\ At(p, "granted") /\ HasRoom
  /\ LET e == R!CheckEvent(job[p].q, State, R!CheckedAt(job[p].q, t)) IN
       /\ log' = Append(log, e)
       /\ Goto(p, IF e.reason # "ALLOWED" THEN Idle
                  ELSE [stage |-> "receipted", q |-> job[p].q, about |-> job[p].about,
                        state |-> job[p].state, sequence |-> Len(log) + 1, checkedAt |-> e.at])
  /\ UNCHANGED now

\* The command throws, its lock is not granted in time, or its process dies.
Abandon(p) == ~At(p, "idle") /\ Goto(p, Idle) /\ UNCHANGED <<log, now>>

Fresh(p, t) == R!FreshCommit(job[p].q, t)

\* What checkpoint() answers.
Checkpoint(p, t) == R!LaterOf(R!NonRegressing(t, log), job[p].q.requestedAt)

\* The check a record names is in the log, allowed, and was about this record.
Vouched(sequence, boundary, action, process, revision, at) ==
  /\ sequence \in DOMAIN log
  /\ LET e == log[sequence] IN
       /\ e.type = "boundary" /\ e.reason = "ALLOWED" /\ e.boundary = boundary
       /\ e.auth.action = action /\ e.process = process /\ e.revision = revision /\ e.at = at

=============================================================================
