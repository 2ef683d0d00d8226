--------------------------- MODULE FixturePipeline ---------------------------
(***************************************************************************)
(* The fixture pipeline: a run appends its stages to the event log, one    *)
(* transaction to a stage, and ends in one exclusive transaction in which  *)
(* the policy kernel is rebuilt from the decisions on file and decides.    *)
(* Calls of several processes, each with its own policy and its own time,  *)
(* share the log; a process may die between any two transactions, and the  *)
(* run be called again.  An append under a key that is on file returns the *)
(* event if it says the same, and throws if it does not.                   *)
(***************************************************************************)
EXTENDS Integers, Sequences, FiniteSets

CONSTANTS
  Runs,
  Requests,       \* [scenario, amount]
  Policies,       \* process |-> the policy it opened the pipeline with
  Gathered,      \* scenario |-> the observations of its fixtures
  Template,       \* what every intent has in common
  IntentLife,     \* the 30 seconds
  FirstTime, MaxTime, \* bound: the wall clock
  MaxCalls,       \* bound: calls
  MaxLosses,      \* bound: deaths of a process in a call
  DayLength, None

VARIABLES
  events,         \* the log
  clock,
  call,           \* process |-> the call it is in
  reports,        \* what callers were given
  calls, losses

pipelineVars == <<events, clock, call, reports, calls, losses>>

K == INSTANCE PolicyKernel

NoCall == [stage |-> "idle"]

PipelineInit == /\ events = <<>> /\ clock = FirstTime /\ reports = {} /\ calls = 0 /\ losses = 0
                /\ call = [p \in DOMAIN Policies |-> [stage |-> "closed"]]

-----------------------------------------------------------------------------
(* The log. *)

Event(run, type, payload) == [run |-> run, type |-> type, payload |-> payload]
Filed(log, run, type) == {n \in DOMAIN log : log[n].run = run /\ log[n].type = type}
PayloadOf(log, run, type) == log[CHOOSE n \in Filed(log, run, type) : TRUE].payload

Conflicts(log, run, type, payload) ==
  Filed(log, run, type) # {} /\ PayloadOf(log, run, type) # payload

Appended(log, run, type, payload) ==
  IF Filed(log, run, type) # {} THEN log ELSE Append(log, Event(run, type, payload))

-----------------------------------------------------------------------------
(* restoreKernelState. *)

Decisions(log) == {n \in DOMAIN log : log[n].type = "policy.decided"}
Approvals(log) == {n \in Decisions(log) : log[n].payload.approved}

\* Decisions of another policy, or approvals with an intent or a nonce twice, are an error.
Restorable(log, policy) ==
  /\ \A n \in Decisions(log) : log[n].payload.policy = policy
  /\ \A j, k \in Approvals(log) : j # k =>
       /\ log[j].payload.intent.id # log[k].payload.intent.id
       /\ log[j].payload.intent.nonce # log[k].payload.intent.nonce

\* What the kernel remembers after each event, in order.
Memory(log) ==
  LET state[n \in 0..Len(log)] ==
        IF n = 0 THEN K!NothingApproved
        ELSE IF n \in Approvals(log) THEN K!Remember(state[n - 1], log[n].payload.intent, log[n].payload.at)
        ELSE state[n - 1]
  IN  state

Restored(log) == Memory(log)[Len(log)]

-----------------------------------------------------------------------------
Open(p) ==
  /\ call[p].stage = "closed" /\ Restorable(events, Policies[p])
  /\ call' = [call EXCEPT ![p] = NoCall]
  /\ UNCHANGED <<events, clock, reports, calls, losses>>

Die(p) ==
  /\ call[p].stage # "closed" /\ losses < MaxLosses
  /\ call' = [call EXCEPT ![p] = [stage |-> "closed"]] /\ losses' = losses + 1
  /\ UNCHANGED <<events, clock, reports, calls>>

Matches(report, c) == report.scenario = c.scenario /\ report.amount = c.amount
Goto(p, c) == call' = [call EXCEPT ![p] = c]
Throw(p) == Goto(p, NoCall) /\ UNCHANGED <<events, reports>>
Give(p, report) == Goto(p, NoCall) /\ reports' = reports \cup {report} /\ UNCHANGED events

\* A run that is complete is answered; one that was started goes on as of that time.
Begin(p, run, scenario, amount) ==
  LET asked == [run |-> run, scenario |-> scenario, amount |-> amount] IN
  /\ call[p].stage = "idle" /\ calls < MaxCalls /\ calls' = calls + 1
  /\ IF Filed(events, run, "run.completed") # {}
     THEN LET report == PayloadOf(events, run, "run.completed")
          IN  IF Matches(report, asked) THEN Give(p, report) ELSE Throw(p)
     ELSE /\ Goto(p, [stage |-> "begun", run |-> run, scenario |-> scenario, amount |-> amount,
                      now |-> IF Filed(events, run, "run.started") = {} THEN clock
                              ELSE PayloadOf(events, run, "run.started").at])
          /\ UNCHANGED <<events, reports>>
  /\ UNCHANGED <<clock, losses>>

\* One stage, its transaction, and the next stage.
Stage(p, type, payload, next) ==
  /\ IF Conflicts(events, call[p].run, type, payload) THEN Throw(p)
     ELSE /\ events' = Appended(events, call[p].run, type, payload)
          /\ Goto(p, [call[p] EXCEPT !.stage = next]) /\ UNCHANGED reports
  /\ UNCHANGED <<clock, calls, losses>>

Start(p) ==
  /\ call[p].stage = "begun"
  /\ Stage(p, "run.started", [at |-> call[p].now, scenario |-> call[p].scenario, amount |-> call[p].amount],
           "started")

\* The events of the fixtures, their extraction and analysis, and the correlation, which
\* depend on the scenario and on the time of the run.
Research(p) ==
  /\ call[p].stage = "started"
  /\ Stage(p, "evidence.correlated", [scenario |-> call[p].scenario, at |-> call[p].now], "researched")

IntentFor(c, policy) ==
  [id |-> c.run, nonce |-> c.run, policy |-> policy, amount |-> c.amount,
   evidence |-> [n \in DOMAIN Gathered[c.scenario] |-> Gathered[c.scenario][n].id],
   createdAt |-> c.now - 1, expiresAt |-> c.now + IntentLife,
   surface |-> Template.surface, asset |-> Template.asset, order |-> Template.order]

Propose(p) ==
  /\ call[p].stage = "researched"
  /\ Stage(p, "intent.proposed", IntentFor(call[p], Policies[p]), "proposed")

FirstOf(run, log) == CHOOSE n \in DOMAIN log : log[n].run = run /\ \A k \in 1..(n - 1) : log[k].run # run

Report(c, decision, log) ==
  [run |-> c.run, scenario |-> c.scenario, amount |-> c.amount, at |-> c.now, decision |-> decision,
   first |-> FirstOf(c.run, log), last |-> Len(log) + 1]

\* The exclusive transaction.  A decision on file is taken as it is.
Decided(c, policy, log) ==
  IF Filed(log, c.run, "policy.decided") # {} THEN PayloadOf(log, c.run, "policy.decided")
  ELSE K!Decision(policy, Restored(log), IntentFor(c, policy), Gathered[c.scenario], c.now)

Complete(p) ==
  LET c == call[p]
      raced == Filed(events, c.run, "run.completed") # {}
      restored == Restored(events)
      decision == Decided(c, Policies[p], events)
      fresh == Filed(events, c.run, "policy.decided") = {}
      state == IF fresh /\ decision.approved THEN K!Remember(restored, decision.intent, c.now) ELSE restored
      log == Appended(Appended(events, c.run, "policy.decided", decision), c.run, "policy.state", state)
      report == Report(c, decision, log)
  IN
  /\ c.stage = "proposed"
  /\ IF raced
     THEN LET found == PayloadOf(events, c.run, "run.completed")
          IN  IF Matches(found, c) THEN Give(p, found) ELSE Throw(p)
     ELSE IF ~Restorable(events, Policies[p]) THEN Throw(p)
     ELSE /\ events' = Append(log, Event(c.run, "run.completed", report))
          /\ Goto(p, NoCall) /\ reports' = reports \cup {report}
  /\ UNCHANGED <<clock, calls, losses>>

Pass == clock < MaxTime /\ clock' = clock + 1 /\ UNCHANGED <<events, call, reports, calls, losses>>

PipelineNext ==
  \/ Pass
  \/ \E p \in DOMAIN Policies :
       \/ Open(p) \/ Die(p) \/ Start(p) \/ Research(p) \/ Propose(p) \/ Complete(p)
       \/ \E run \in Runs, r \in Requests : Begin(p, run, r.scenario, r.amount)

-----------------------------------------------------------------------------
(* Properties. *)

\* What was approved for a day, after each event.
Spending(day, log) ==
  LET sum[n \in 0..Len(log)] ==
        IF n = 0 THEN 0
        ELSE IF n \in Approvals(log) /\ K!Day(log[n].payload.at) = day THEN sum[n - 1] + log[n].payload.intent.amount
        ELSE sum[n - 1]
  IN  sum

SpentThatDay(day, log) == Spending(day, log)[Len(log)]

\* Whoever runs, restarts and retries what, under whatever policy it was opened with: the
\* approvals on file are of one policy, no run is decided twice, and no day's approvals
\* exceed that policy's daily limit.
SpendStaysLimited ==
  /\ \A j, k \in Decisions(events) : /\ events[j].payload.policy = events[k].payload.policy
                                     /\ events[j].run = events[k].run => j = k
  /\ \A n \in Approvals(events) :
       LET d == events[n].payload IN SpentThatDay(K!Day(d.at), events) <= d.policy.daily

\* A report says what the log says: of the request that started the run, at its time, with
\* the decision on file, over the events from its start to its completion; and there is
\* never another.
ReportsAgree ==
  \A r \in reports :
    /\ \A other \in reports : other.run = r.run => other = r
    /\ r.last \in DOMAIN events /\ events[r.last] = Event(r.run, "run.completed", r)
    /\ PayloadOf(events, r.run, "run.started") = [at |-> r.at, scenario |-> r.scenario, amount |-> r.amount]
    /\ r.decision = PayloadOf(events, r.run, "policy.decided") /\ r.decision.at = r.at
    /\ \A n \in DOMAIN events : events[n].run = r.run => n \in r.first..r.last

=============================================================================
