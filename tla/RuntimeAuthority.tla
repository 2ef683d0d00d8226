-------------------------- MODULE RuntimeAuthority --------------------------
(***************************************************************************)
(* What the Stage 0 runtime promises its users (packages/runtime), without *)
(* the audit log, the clocks, the lock or the request ids it promises it   *)
(* with: one authority, held by one process in one mode, whose every       *)
(* change starts a new revision, and grants that are good for exactly one  *)
(* use under the revision they were issued in.                             *)
(***************************************************************************)
EXTENDS Integers

CONSTANTS Processes, Tickets, None

VARIABLES
  authority,  \* [mode, revision, process]: the current mode event
  grant,      \* per ticket: the authority it was granted under, or None
  sent,       \* per ticket: transports invoked
  completed,  \* tickets whose result was checkpointed
  committed   \* tickets whose local commit was written

vars == <<authority, grant, sent, completed, committed>>

Init ==
  /\ authority = [mode |-> "null", revision |-> 0, process |-> None]
  /\ grant = [k \in Tickets |-> None]
  /\ sent = [k \in Tickets |-> 0]
  /\ completed = {} /\ committed = {}

\* Every boot and every STOP stops, whatever the mode was.
NextAuthority(mode, p) ==
  authority' = [mode |-> mode, revision |-> authority.revision + 1, process |-> p]

Boot(p) ==
  /\ authority.process # p
  /\ NextAuthority("STOPPED", p)
  /\ UNCHANGED <<grant, sent, completed, committed>>

Halt ==
  /\ authority.mode # "null"
  /\ NextAuthority("STOPPED", authority.process)
  /\ UNCHANGED <<grant, sent, completed, committed>>

Escalate(mode) ==
  /\ <<authority.mode, mode>> \in {<<"STOPPED", "RESEARCH">>, <<"RESEARCH", "PROPOSE_ONLY">>,
                                   <<"PROPOSE_ONLY", "RESEARCH">>}
  /\ NextAuthority(mode, authority.process)
  /\ UNCHANGED <<grant, sent, completed, committed>>

Grant(k) ==
  /\ grant[k] = None
  /\ authority.mode \notin {"null", "STOPPED"}
  /\ grant' = [grant EXCEPT ![k] = authority]
  /\ UNCHANGED <<authority, sent, completed, committed>>

\* Every use needs the grant to be the authority of this moment.
Send(k) ==
  /\ grant[k] = authority /\ sent[k] = 0
  /\ sent' = [sent EXCEPT ![k] = 1]
  /\ UNCHANGED <<authority, grant, completed, committed>>

Complete(k) ==
  /\ grant[k] = authority /\ k \notin completed
  /\ completed' = completed \cup {k}
  /\ UNCHANGED <<authority, grant, sent, committed>>

Commit(k) ==
  /\ grant[k] = authority /\ authority.mode = "RESEARCH" /\ k \notin committed
  /\ committed' = committed \cup {k}
  /\ UNCHANGED <<authority, grant, sent, completed>>

Next ==
  \/ \E p \in Processes : Boot(p)
  \/ Halt
  \/ \E mode \in {"RESEARCH", "PROPOSE_ONLY"} : Escalate(mode)
  \/ \E k \in Tickets : Grant(k) \/ Send(k) \/ Complete(k) \/ Commit(k)

Spec == Init /\ [][Next]_vars
=============================================================================
