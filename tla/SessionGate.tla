----------------------------- MODULE SessionGate -----------------------------
(***************************************************************************)
(* What the session lifecycle promises: one session at a time, one run of  *)
(* each session, and one accepted session per qualification date, accepted *)
(* only when its run is over.                                              *)
(***************************************************************************)
CONSTANTS Sessions, Dates, None

VARIABLES
  holder,   \* the session that is not over yet, or None
  date,     \* its qualification date, or None
  running,  \* its record is marked eligible for egress
  ran,      \* the sessions that were ever marked so
  accepted  \* the accepted sessions, with their dates

vars == <<holder, date, running, ran, accepted>>

TypeOK ==
  /\ holder \in Sessions \cup {None} /\ date \in Dates \cup {None}
  /\ running \in BOOLEAN /\ ran \subseteq Sessions
  /\ accepted \subseteq Sessions \X Dates

Init == holder = None /\ date = None /\ running = FALSE /\ ran = {} /\ accepted = {}

Begin(s, d) ==
  /\ holder = None /\ s \notin ran
  /\ holder' = s /\ date' = d
  /\ UNCHANGED <<running, ran, accepted>>

Run ==
  /\ holder # None /\ holder \notin ran
  /\ running' = TRUE /\ ran' = ran \cup {holder}
  /\ UNCHANGED <<holder, date, accepted>>

Halt == running /\ running' = FALSE /\ UNCHANGED <<holder, date, ran, accepted>>

Accept ==
  /\ holder \in ran /\ ~running
  /\ \A a \in accepted : a[2] # date
  /\ accepted' = accepted \cup {<<holder, date>>}
  /\ holder' = None /\ date' = None
  /\ UNCHANGED <<running, ran>>

Abandon ==
  /\ holder # None
  /\ holder' = None /\ date' = None /\ running' = FALSE
  /\ UNCHANGED <<ran, accepted>>

Next == (\E s \in Sessions, d \in Dates : Begin(s, d)) \/ Run \/ Halt \/ Accept \/ Abandon

Spec == Init /\ [][Next]_vars
=============================================================================
