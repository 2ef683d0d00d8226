-------------------------- MODULE ReadCanaryProofs --------------------------
(***************************************************************************)
(* Theorems about the three canaries of ReadCanaries, for any clock, any   *)
(* lifetime of an authorization, and any number of operator commands,      *)
(* processes and faults.                                                   *)
(*                                                                         *)
(* Six stores change one at a time, so what a process finds is decided by  *)
(* where an earlier one died.  The invariant has two parts: Stores says    *)
(* which records can be there together and what each then says of the      *)
(* others, whoever left them; Control says what is on record at each step  *)
(* of the host.  None of its steps is "refused": it is Stores that makes   *)
(* every evidence a recovery asks for true.                                *)
(*                                                                         *)
(* The last part is about the three collectors on their own, for any byte  *)
(* limit and any answer.                                                   *)
(***************************************************************************)
EXTENDS MCProviders, TLAPS

-----------------------------------------------------------------------------
(* The inductive invariant: what the stores say. *)

\* A record is there only with those it was made from.
RecordsFollow ==
  /\ prepared # None => marker
  /\ attempt # None => prepared # None
  /\ entry # None => attempt # None
  /\ check # None => entry # None
  /\ capture # None => RuntimeChecked
  /\ captured # None => capture # None
  /\ result # None => captured # None
  /\ receipt # None => prepared # None
  /\ failure # None => prepared # None

\* An allowed check is the one of the prepared authorization, and the attempt was
\* consumed before it was recorded.
CheckBinds == RuntimeChecked => RuntimeEvidence /\ attempt.dispatchedAt # None

\* The attempt of the ledger: when and as what it is closed, and that a request is
\* never without its dispatch.
AttemptTells ==
  /\ requests <= 1
  /\ requests = 1 => attempt # None /\ attempt.dispatchedAt # None
  /\ attempt # None =>
       /\ attempt.state = "reserved" => attempt.dispatchedAt = None
       /\ attempt.state = "dispatched" => attempt.dispatchedAt # None
       /\ attempt.dispatchedAt # None => prepared.at <= attempt.dispatchedAt
       /\ attempt.state # "closed" => attempt.outcome = None
  /\ attempt # None /\ attempt.state = "closed" =>
       IF result # None
       THEN attempt.outcome = AttemptOutcome /\ attempt.closedAt = result.completedAt
       ELSE \/ /\ attempt.outcome = "aborted" /\ attempt.dispatchedAt = None
               /\ attempt.closedAt = prepared.at
            \/ /\ attempt.outcome = "failed" /\ attempt.dispatchedAt # None
               /\ attempt.closedAt = attempt.dispatchedAt

\* The registry holds the capture, or has destroyed its key.
Destroyed == entry.state = "removed" /\ entry.reason = "deleted"
Settled == entry # None /\ (entry.state = "committed" \/ Destroyed)

\* A committed capture is in its window and is deleted only for a result, as of its
\* completion; the key of a destroyed one went with it.  Until the result its attempt
\* is open.
EntryTells ==
  entry # None =>
    /\ entry.state = "removed" => entry.reason \in {"pending", "deleted"}
    /\ entry.state = "committed" /\ result = None => attempt.state = "dispatched"
    /\ Settled => /\ capture # None
                  /\ entry.committedAt # None /\ capture.acquiredAt <= entry.committedAt
                  /\ capture.state = "deleted" =>
                       result # None /\ capture.deletedAt = result.completedAt
    /\ Destroyed => /\ result # None /\ capture.state = "deleted"
                    /\ entry.removedAt = result.completedAt

\* A capture was acquired after the dispatch; its projection is the event.
CaptureTells ==
  /\ capture # None => /\ attempt.dispatchedAt <= capture.acquiredAt
                       /\ provider = "base" => capture.content # "none"
  /\ captured # None => captured = Projection /\ Settled

\* A result was made from the projection, after the commit, and there is no failure.
ResultTells ==
  result # None =>
    /\ failure = None
    /\ result.acquiredAt = captured.at
    /\ entry.committedAt <= result.completedAt
    /\ ~result.denied =>
         result.outcome = (IF captured.status = "rejected" THEN "rejected"
                           ELSE IF captured.empty THEN "empty" ELSE "accepted")

\* A failure checkpoint agrees with what is stored; without it a later canary closes
\* no attempt as a failure.
FailureTells ==
  /\ failure # None => provider # "x" /\ failure \in Failures /\ FailureBinds
  /\ provider # "x" /\ attempt # None /\ attempt.state = "closed" =>
       result # None \/ failure # None

\* A receipt repeats the result, or the failure.
ReceiptTells ==
  receipt # None =>
    /\ attempt # None => attempt.state = "closed"
    /\ entry # None => entry.state = "removed"
    /\ IF result # None THEN receipt = ResultReceipt /\ attempt # None
       ELSE /\ receipt = [outcome |-> "failed", completedAt |-> FailedAt,
                          runtime |-> RuntimeChecked, capture |-> FALSE]
            /\ provider # "x" => /\ failure # None
                                 /\ capture # None => capture.state = "deleted"

Stores == /\ RecordsFollow /\ CheckBinds /\ AttemptTells /\ EntryTells /\ CaptureTells
          /\ ResultTells /\ FailureTells /\ ReceiptTells

-----------------------------------------------------------------------------
(* What the host knows at each of its steps. *)

\* No run has been prepared.
Fresh == context = "live" /\ prepared = None

\* The run of this process, which has no outcome yet.
Underway ==
  /\ context = "live" /\ prepared # None
  /\ result = None /\ failure = None /\ receipt = None

IsReserved == attempt # None /\ attempt.state = "reserved"
IsDispatched == attempt # None /\ attempt.state = "dispatched"
IsPending == entry # None /\ entry.state = "pending"
IsCommitted == entry # None /\ entry.state = "committed"
NotCommitted == entry # None => entry.state # "committed"
NotPending == entry # None => entry.state # "pending"
IsClosed == attempt # None => attempt.state = "closed"
NotLive == capture # None => capture.state # "live"

AllowedCheck(c) ==
  /\ c \in Checks /\ c.decision = "allowed" /\ prepared.at <= c.at
  /\ c.revision = prepared.revision /\ c.process = prepared.process

Permit == held.issuedAt \in Times /\ prepared.at <= held.issuedAt

AtBegin == Underway /\ IsReserved /\ entry = None /\ Permit
AtDispatch == Underway /\ IsReserved /\ IsPending /\ check = None /\ Permit
AtConsume == AtDispatch /\ AllowedCheck(held.check)
AtSeal == Underway /\ IsDispatched /\ IsPending /\ check = None /\ AllowedCheck(held.check)
AtReceive == Underway /\ IsDispatched /\ IsPending /\ RuntimeChecked /\ capture = None
AtCapture == /\ AtReceive
             /\ held.content \in Contents /\ held.acquiredAt \in Times
             /\ provider = "base" => held.content # "none"
             /\ attempt.dispatchedAt <= held.acquiredAt
AtCommit == /\ Underway /\ IsDispatched /\ IsPending
            /\ capture # None /\ capture.state = "live"
AtProject == Underway /\ IsDispatched /\ IsCommitted /\ captured = None

Starting ==
  /\ pc \in {"claim", "claimed", "authorize", "prepare"} => Fresh
  /\ pc \in {"claimed", "authorize", "prepare"} => marker
  /\ pc = "prepare" => held \in Tickets
  /\ pc = "reserve" => Underway /\ attempt = None
  /\ pc = "begin" => AtBegin
  /\ pc = "dispatch" => AtDispatch
  /\ pc = "consume" => AtConsume
  /\ pc = "send" => AtSeal /\ requests = 0
  /\ pc = "seal" => AtSeal

Receiving ==
  /\ pc = "receive" => AtReceive
  /\ pc = "capture" => AtCapture
  /\ pc \in {"commit", "shred"} => AtCommit
  /\ pc = "project" => AtProject

\* An interrupted live run, as its catch clause finds it.
Catchable == failure = None /\ (receipt # None => result # None)

\* A captured run without a result.
Captured == /\ IsCommitted /\ captured # None /\ IsDispatched
            /\ result = None /\ failure = None /\ receipt = None

Recovering == prepared # None /\ context # "live"
Failing == Recovering /\ result = None /\ NotCommitted
NoReceipt == receipt = None /\ failure = None
Checkpointed == Failing /\ provider # "x" /\ failure # None

Ending ==
  /\ pc = "complete" => Captured /\ Underway
  /\ pc = "deny" => Captured
  /\ pc = "close" => result # None
  /\ pc = "destroy" => result # None /\ IsClosed
  /\ pc = "record" => result # None /\ IsClosed /\ IsCommitted /\ capture.state = "deleted"
  /\ pc = "receipt" => result # None /\ IsClosed /\ Destroyed
  /\ pc = "caught" => context = "live" /\ prepared # None /\ Catchable

FailEnding ==
  /\ pc = "abort" => Failing /\ NoReceipt
  /\ pc = "remove" => Failing /\ NoReceipt /\ provider = "x" /\ IsClosed
  /\ pc = "fail" => /\ Failing /\ IsClosed /\ NotPending
                    /\ IF provider = "x" THEN NoReceipt ELSE failure # None /\ NotLive
  /\ pc \in {"tidy", "mend", "sweep", "shut", "drop"} => Checkpointed
  /\ pc \in {"shut", "drop"} => NotLive
  /\ pc = "drop" => IsClosed

\* Every step of the host but the refusal.
Places ==
  {"off", "ready", "spent", "admit", "claim", "claimed", "authorize", "prepare", "reserve",
   "begin", "dispatch", "consume", "send", "seal", "receive", "capture", "commit", "shred",
   "project", "complete", "deny", "close", "destroy", "record", "receipt", "caught", "abort",
   "remove", "fail", "tidy", "mend", "sweep", "shut", "drop", "storage", "repair", "reconcile",
   "recover", "resume"}

Recoveries ==
  /\ pc \in {"storage", "repair", "reconcile", "recover"} => Recovering
  /\ pc \in {"repair", "reconcile", "mend", "sweep"} => held.recoveredAt \in Times
  /\ pc = "resume" => /\ Recovering /\ IsCommitted /\ IsDispatched
                      /\ result = None /\ failure = None /\ receipt = None
  /\ pc = "admit" => context = "boot"
  /\ context = "live" /\ Running => Catchable
  /\ pc \in Places

Control == Starting /\ Receiving /\ Ending /\ FailEnding /\ Recoveries

Providers == provider \in {"x", "opensea", "base"}

IInv == TypeOK /\ Providers /\ Stores /\ Control

-----------------------------------------------------------------------------
(* The records after an update: their shape and their fields.               *)

Runtimes == [mode : {"STOPPED", "RESEARCH", "PROPOSE_ONLY"}, revision : Nat,
             process : 0..MaxBoots]

LEMMA RuntimeEdited ==
  ASSUME NEW r \in Runtimes, NEW m \in {"STOPPED", "RESEARCH", "PROPOSE_ONLY"}, NEW n \in Nat
  PROVE  [r EXCEPT !.mode = m, !.revision = n] \in Runtimes
<1> DEFINE s == [r EXCEPT !.mode = m]
<1>1. s \in Runtimes BY DEF Runtimes
<1>2. [s EXCEPT !.revision = n] \in Runtimes BY <1>1 DEF Runtimes
<1>3. [r EXCEPT !.mode = m, !.revision = n] = [s EXCEPT !.revision = n] BY DEF Runtimes
<1> QED BY <1>2, <1>3

Consumed(a, t) == [a EXCEPT !.state = "dispatched", !.dispatchedAt = t]

LEMMA Dispatched ==
  ASSUME NEW a \in Attempts, NEW t \in Times
  PROVE  LET b == Consumed(a, t) IN
         /\ b \in Attempts
         /\ b.state = "dispatched" /\ b.dispatchedAt = t
         /\ b.closedAt = a.closedAt /\ b.outcome = a.outcome
<1> DEFINE s == [a EXCEPT !.state = "dispatched"]
           b == Consumed(a, t)
<1>1. s \in Attempts BY DEF Attempts
<1>2. [s EXCEPT !.dispatchedAt = t] \in Attempts BY <1>1 DEF Attempts, Timestamps, Maybe
<1>3. b = [s EXCEPT !.dispatchedAt = t] BY DEF Attempts, Consumed
<1>4. /\ b.state = "dispatched" /\ b.dispatchedAt = t
      /\ b.closedAt = a.closedAt /\ b.outcome = a.outcome
  BY DEF Attempts, Consumed
<1> QED BY <1>2, <1>3, <1>4

LEMMA ClosedAs ==
  ASSUME attempt \in Attempts, NEW t \in Times,
         NEW o \in {"succeeded", "empty", "failed", "aborted"}
  PROVE  LET b == Closed(t, o) IN
         /\ b \in Attempts
         /\ b.state = "closed" /\ b.closedAt = t /\ b.outcome = o
         /\ b.dispatchedAt = attempt.dispatchedAt
<1> DEFINE s == [attempt EXCEPT !.state = "closed"]
           u == [s EXCEPT !.closedAt = t]
           b == Closed(t, o)
<1>1. s \in Attempts BY DEF Attempts
<1>2. u \in Attempts BY <1>1 DEF Attempts, Timestamps, Maybe
<1>3. [u EXCEPT !.outcome = o] \in Attempts BY <1>2 DEF Attempts, Maybe
<1>4. b = [u EXCEPT !.outcome = o] BY DEF Attempts, Closed
<1>5. /\ b.state = "closed" /\ b.closedAt = t /\ b.outcome = o
      /\ b.dispatchedAt = attempt.dispatchedAt
  BY DEF Attempts, Closed
<1> QED BY <1>3, <1>4, <1>5

Committed(e, t) == [e EXCEPT !.state = "committed", !.committedAt = t]

LEMMA CommittedAt ==
  ASSUME NEW e \in Entries, NEW t \in Times
  PROVE  LET f == Committed(e, t) IN
         /\ f \in Entries
         /\ f.state = "committed" /\ f.committedAt = t
         /\ f.begunAt = e.begunAt /\ f.removedAt = e.removedAt /\ f.reason = e.reason
<1> DEFINE s == [e EXCEPT !.state = "committed"]
           f == Committed(e, t)
<1>1. s \in Entries BY DEF Entries
<1>2. [s EXCEPT !.committedAt = t] \in Entries BY <1>1 DEF Entries, Timestamps, Maybe
<1>3. f = [s EXCEPT !.committedAt = t] BY DEF Entries, Committed
<1>4. /\ f.state = "committed" /\ f.committedAt = t
      /\ f.begunAt = e.begunAt /\ f.removedAt = e.removedAt /\ f.reason = e.reason
  BY DEF Entries, Committed
<1> QED BY <1>2, <1>3, <1>4

Removed(e, t, r) == [e EXCEPT !.state = "removed", !.removedAt = t, !.reason = r]

LEMMA RemovedAs ==
  ASSUME NEW e \in Entries, NEW t \in Times, NEW r \in {"pending", "deleted"}
  PROVE  LET f == Removed(e, t, r) IN
         /\ f \in Entries
         /\ f.state = "removed" /\ f.removedAt = t /\ f.reason = r
         /\ f.begunAt = e.begunAt /\ f.committedAt = e.committedAt
<1> DEFINE s == [e EXCEPT !.state = "removed"]
           u == [s EXCEPT !.removedAt = t]
           f == Removed(e, t, r)
<1>1. s \in Entries BY DEF Entries
<1>2. u \in Entries BY <1>1 DEF Entries, Timestamps, Maybe
<1>3. [u EXCEPT !.reason = r] \in Entries BY <1>2 DEF Entries, Maybe
<1>4. f = [u EXCEPT !.reason = r] BY DEF Entries, Removed
<1>5. /\ f.state = "removed" /\ f.removedAt = t /\ f.reason = r
      /\ f.begunAt = e.begunAt /\ f.committedAt = e.committedAt
  BY DEF Entries, Removed
<1> QED BY <1>3, <1>4, <1>5

\* The order of the assignments does not matter.
LEMMA RemovedToo ==
  ASSUME NEW e \in Entries, NEW t, NEW r
  PROVE  Removed(e, t, r) = [e EXCEPT !.state = "removed", !.reason = r, !.removedAt = t]
BY DEF Removed, Entries

Deleted(c, t) == [c EXCEPT !.state = "deleted", !.deletedAt = t]

LEMMA DeletedAt ==
  ASSUME NEW c \in Captures, NEW t \in Times
  PROVE  LET d == Deleted(c, t) IN
         /\ d \in Captures
         /\ d.state = "deleted" /\ d.deletedAt = t
         /\ d.content = c.content /\ d.acquiredAt = c.acquiredAt
<1> DEFINE s == [c EXCEPT !.state = "deleted"]
           d == Deleted(c, t)
<1>1. s \in Captures BY DEF Captures
<1>2. [s EXCEPT !.deletedAt = t] \in Captures BY <1>1 DEF Captures, Timestamps, Maybe
<1>3. d = [s EXCEPT !.deletedAt = t] BY DEF Captures, Deleted
<1>4. /\ d.state = "deleted" /\ d.deletedAt = t
      /\ d.content = c.content /\ d.acquiredAt = c.acquiredAt
  BY DEF Captures, Deleted
<1> QED BY <1>2, <1>3, <1>4

-----------------------------------------------------------------------------
(* Frames: what leaves the stores alone, and where an exception leads.      *)

kept == <<check, marker, prepared, attempt, entry, capture, captured, result, receipt,
          requests, failure, provider>>

LEMMA StoresFrame ==
  ASSUME Stores, UNCHANGED kept PROVE Stores'
<1>1. CheckBinds' /\ RecordsFollow'
  BY DEF kept, Stores, CheckBinds, RecordsFollow, RuntimeChecked, RuntimeEvidence
<1>2. AttemptTells'
  BY DEF kept, Stores, AttemptTells, AttemptOutcome
<1>3. EntryTells'
  BY DEF kept, Stores, EntryTells, Settled, Destroyed
<1>4. CaptureTells'
  BY DEF kept, Stores, CaptureTells, Settled, Destroyed, Projection
<1>5. ResultTells'
  BY DEF kept, Stores, ResultTells
<1>6. FailureTells'
  BY DEF kept, Stores, FailureTells, FailureBinds, OpenSeaRuntimeChecked, RuntimeChecked,
         OpenSeaRuntimeEvidence, RuntimeEvidence
<1>7. ReceiptTells'
  BY DEF kept, Stores, ReceiptTells, FailedAt, RuntimeChecked, ResultReceipt
<1> QED BY <1>1, <1>2, <1>3, <1>4, <1>5, <1>6, <1>7 DEF Stores

\* At rest nothing is asked of the host.
LEMMA AtRest ==
  ASSUME pc' \in {"off", "ready", "spent"} PROVE Control'
<1>1. Starting' /\ Receiving' BY DEF Starting, Receiving
<1>2. Ending' /\ FailEnding' BY DEF Ending, FailEnding
<1>3. Recoveries' BY DEF Recoveries, Running, Places
<1> QED BY <1>1, <1>2, <1>3 DEF Control

LEMMA AtCaught ==
  ASSUME pc' = "caught", context' = "live", prepared' # None, Catchable' PROVE Control'
<1>1. Starting' /\ Receiving' BY DEF Starting, Receiving
<1>2. Ending' /\ FailEnding' BY DEF Ending, FailEnding
<1>3. Recoveries' BY DEF Recoveries, Running, Places
<1> QED BY <1>1, <1>2, <1>3 DEF Control

\* An exception: the next step is Rescue, and a live run is caught with what it has.
LEMMA Rescued ==
  ASSUME IInv, Running, pc' = Rescue, UNCHANGED context, prepared # None => prepared' # None,
         context = "live" => Catchable'
  PROVE  Control'
<1>1. CASE context # "live" \/ pc = "claim" \/ pc \in Unprepared \cup {"caught"}
  <2>1. pc' \in {"off", "ready", "spent"}
    BY <1>1 DEF Rescue, IInv, TypeOK, Unprepared
  <2> QED BY <2>1, AtRest
<1>2. CASE context = "live" /\ pc # "claim" /\ pc \notin Unprepared \cup {"caught"}
  <2>1. pc' = "caught" BY <1>2 DEF Rescue
  <2>2. prepared # None
    <3>1. pc \in {"reserve", "begin", "dispatch", "consume", "send", "seal"} => prepared # None
      BY DEF IInv, Control, Starting, AtBegin, AtDispatch, AtConsume, AtSeal, Underway
    <3>2. pc \in {"receive", "capture", "commit", "shred", "project"} => prepared # None
      BY DEF IInv, Control, Receiving, AtReceive, AtCapture, AtCommit, AtProject, Underway
    <3>3. pc \in {"complete", "deny", "close", "destroy", "record", "receipt"} => prepared # None
      BY DEF IInv, Control, Ending, Captured, IsCommitted, Stores, RecordsFollow, RuntimeChecked
    <3>4. pc \notin {"abort", "remove", "fail", "tidy", "mend", "sweep", "shut", "drop"}
      BY <1>2 DEF IInv, Control, FailEnding, Failing, Recovering, Checkpointed
    <3>5. pc \notin {"storage", "repair", "reconcile", "recover", "resume", "admit"}
      BY <1>2 DEF IInv, Control, Recoveries, Recovering
    <3> QED BY <3>1, <3>2, <3>3, <3>4, <3>5, <1>2
        DEF IInv, Control, Recoveries, Places, Running, Unprepared
  <2> QED BY <1>2, <2>1, <2>2, AtCaught
<1> QED BY <1>1, <1>2

-----------------------------------------------------------------------------
(* The host process and the operator.                                       *)

LEMMA TypeFrame ==
  ASSUME TypeOK, UNCHANGED <<durable, requests>>, faults' \in 0..MaxFaults,
         context' \in {"boot", "late", "live", "rescue"}
  PROVE  TypeOK'
BY DEF TypeOK, durable

LEMMA FailsCount ==
  ASSUME TypeOK, Fails PROVE faults' \in 0..MaxFaults /\ pc' = Rescue
BY BoundsAssumption DEF TypeOK, Fails

\* A step that changes no store and no provider.
Pure == UNCHANGED <<durable, requests, failure, provider>>

LEMMA PureStep ==
  ASSUME IInv, Pure, faults' \in 0..MaxFaults,
         context' \in {"boot", "late", "live", "rescue"}, Control'
  PROVE  IInv'
<1>1. TypeOK' BY TypeFrame DEF IInv, Pure
<1>2. Stores' BY StoresFrame DEF IInv, Pure, kept, durable
<1>3. Providers' BY DEF IInv, Pure, Providers
<1> QED BY <1>1, <1>2, <1>3 DEF IInv

LEMMA BootKeeps ==
  ASSUME IInv, Kept(Boot), UNCHANGED provider PROVE IInv'
<1>1. TypeOK' BY BoundsAssumption DEF IInv, TypeOK, Kept, Boot, Goto
<1>2. Stores' BY StoresFrame DEF IInv, kept, Kept, Boot
<1>3. Control'
  <2>1. Starting' /\ Receiving' BY DEF Starting, Receiving, Kept, Boot, Goto
  <2>2. Ending' /\ FailEnding' BY DEF Ending, FailEnding, Kept, Boot, Goto
  <2>3. Recoveries' BY DEF Recoveries, Recovering, Running, Places, Kept, Boot, Goto
  <2> QED BY <2>1, <2>2, <2>3 DEF Control
<1>4. Providers' BY DEF IInv, Providers
<1> QED BY <1>1, <1>2, <1>3, <1>4 DEF IInv

\* A change of mode only touches the runtime.
LEMMA OperateKeeps ==
  ASSUME IInv, NEW to \in {"STOPPED", "RESEARCH", "PROPOSE_ONLY"}, Kept(Operate(to)),
         UNCHANGED provider
  PROVE  IInv'
<1> USE DEF Kept, Operate
<1>1. TypeOK'
  <2>1. runtime' \in Runtimes
    <3>1. runtime \in Runtimes /\ runtime.revision + 1 \in Nat /\ runtime.revision + 2 \in Nat
      BY DEF IInv, TypeOK, Runtimes
    <3>2. runtime' = [runtime EXCEPT !.mode = to, !.revision = runtime.revision + 1]
      OBVIOUS
    <3> HIDE DEF Kept, Operate
    <3> QED BY <3>1, <3>2, RuntimeEdited
  <2>2. UNCHANGED <<check, marker, prepared, attempt, entry, capture, captured, result, receipt,
                    requests, faults, context>>
    OBVIOUS
  <2> HIDE DEF Kept, Operate
  <2> QED BY <2>1, <2>2 DEF IInv, TypeOK, Runtimes
<1>2. Stores' BY StoresFrame DEF IInv, kept
<1>3. Starting'
  BY DEF IInv, Control, Starting, Fresh, Underway, IsReserved, IsDispatched, IsPending,
        AllowedCheck, Permit, AtBegin, AtDispatch, AtConsume, AtSeal
<1>4. Receiving' BY DEF IInv, Control, Receiving, Underway, IsDispatched, IsPending, IsCommitted,
        RuntimeChecked, AtReceive, AtCapture, AtCommit, AtProject
<1>5. Ending' BY DEF IInv, Control, Ending, Captured, Underway, IsDispatched, IsCommitted,
        IsClosed, Destroyed, Catchable
<1>6. FailEnding' BY DEF IInv, Control, FailEnding, Failing, NoReceipt, Recovering, NotCommitted,
        IsClosed, NotPending, NotLive, Checkpointed
<1>7. Recoveries' BY DEF IInv, Control, Recoveries, Recovering, IsDispatched, IsCommitted,
        Catchable, Running
<1>8. Providers' BY DEF IInv, Providers
<1> QED BY <1>1, <1>2, <1>3, <1>4, <1>5, <1>6, <1>7, <1>8 DEF IInv, Control

LEMMA CloseKeeps ==
  ASSUME IInv, NEW p, Kept(CloseFrom(p)), UNCHANGED provider PROVE IInv'
<1> USE DEF Kept, CloseFrom, Goto
<1>1. TypeOK'
  <2>1. runtime' \in Runtimes
    <3>1. runtime \in Runtimes /\ runtime.revision + 1 \in Nat /\ runtime.revision + 2 \in Nat
      BY DEF IInv, TypeOK, Runtimes
    <3>2. runtime' = [runtime EXCEPT !.mode = "STOPPED", !.revision = runtime.revision + 2]
      OBVIOUS
    <3> HIDE DEF Kept, CloseFrom, Goto
    <3> QED BY <3>1, <3>2, RuntimeEdited
  <2>2. UNCHANGED <<check, marker, prepared, attempt, entry, capture, captured, result, receipt,
                    requests, faults, context>>
    OBVIOUS
  <2> HIDE DEF Kept, CloseFrom, Goto
  <2> QED BY <2>1, <2>2 DEF IInv, TypeOK, Runtimes
<1>2. Stores' BY StoresFrame DEF IInv, kept
<1>3. Control' BY AtRest
<1>4. Providers' BY DEF IInv, Providers
<1> QED BY <1>1, <1>2, <1>3, <1>4 DEF IInv

LEMMA CrashKeeps ==
  ASSUME IInv, Kept(Crash), UNCHANGED provider PROVE IInv'
<1>1. Pure /\ pc' = "off" BY DEF Kept, Crash, Pure
<1>2. faults' \in 0..MaxFaults BY BoundsAssumption DEF IInv, TypeOK, Kept, Crash
<1>3. context' \in {"boot", "late", "live", "rescue"} BY DEF IInv, TypeOK, Kept, Crash
<1> QED BY <1>1, <1>2, <1>3, AtRest, PureStep

LEMMA FaultKeeps ==
  ASSUME IInv, Kept(Fault), UNCHANGED provider PROVE IInv'
<1>1. Pure /\ Running /\ Fails /\ UNCHANGED context BY DEF Kept, Fault, Pure
<1>2. faults' \in 0..MaxFaults /\ pc' = Rescue BY <1>1, FailsCount DEF IInv
<1>3. context' \in {"boot", "late", "live", "rescue"} BY <1>1 DEF IInv, TypeOK
<1>4. context = "live" => Catchable'
  BY <1>1 DEF IInv, Control, Recoveries, Catchable, Pure, durable
<1>5. prepared # None => prepared' # None BY <1>1 DEF Pure, durable
<1>6. Control' BY <1>1, <1>2, <1>4, <1>5, Rescued
<1> QED BY <1>1, <1>2, <1>3, <1>6, PureStep

LEMMA AtAdmit ==
  ASSUME pc' = "admit", context' = "boot" PROVE Control'
<1>1. Starting' /\ Receiving' BY DEF Starting, Receiving
<1>2. Ending' /\ FailEnding' BY DEF Ending, FailEnding
<1>3. Recoveries' BY DEF Recoveries, Places
<1> QED BY <1>1, <1>2, <1>3 DEF Control

LEMMA PutOffKeeps ==
  ASSUME IInv, Kept(PutOff), UNCHANGED provider PROVE IInv'
<1>1. Pure /\ pc' = "admit" /\ context' = "boot" BY DEF Kept, PutOff, Pure
<1>2. faults' \in 0..MaxFaults BY BoundsAssumption DEF IInv, TypeOK, Kept, PutOff
<1>3. Control' BY <1>1, AtAdmit
<1> QED BY <1>1, <1>2, <1>3, PureStep

LEMMA AdmitKeeps ==
  ASSUME IInv, Kept(Admit), UNCHANGED provider PROVE IInv'
<1>1. Pure /\ pc' \in {"off", "ready"} /\ UNCHANGED <<faults, context>>
  BY DEF Kept, Admit, Pure, Goto
<1>2. faults' \in 0..MaxFaults /\ context' \in {"boot", "late", "live", "rescue"}
  BY <1>1 DEF IInv, TypeOK
<1>3. Control' BY <1>1, AtRest
<1> QED BY <1>1, <1>2, <1>3, PureStep

LEMMA RecoverLateKeeps ==
  ASSUME IInv, Kept(RecoverLate), UNCHANGED provider PROVE IInv'
<1>1. Pure /\ pc' = "storage" /\ context' = "late" /\ UNCHANGED faults
  BY DEF Kept, RecoverLate, Pure, Goto
<1>2. prepared' # None BY <1>1 DEF Kept, RecoverLate, Status, Pure, durable
<1>3. faults' \in 0..MaxFaults BY <1>1 DEF IInv, TypeOK
<1>4. Control'
  <2>1. Starting' /\ Receiving' BY <1>1 DEF Starting, Receiving
  <2>2. Ending' /\ FailEnding' BY <1>1 DEF Ending, FailEnding
  <2>3. Recoveries' BY <1>1, <1>2 DEF Recoveries, Recovering, Places
  <2> QED BY <2>1, <2>2, <2>3 DEF Control
<1> QED BY <1>1, <1>3, <1>4, PureStep

-----------------------------------------------------------------------------
(* The step the host comes to, and what it must know there.                 *)

EarlySteps == {"claim", "claimed", "authorize", "prepare", "reserve", "begin", "dispatch",
               "consume", "send", "seal"}
MiddleSteps == {"receive", "capture", "commit", "shred", "project"}
EndSteps == {"complete", "deny", "close", "destroy", "record", "receipt"}

LEMMA AtEarly ==
  ASSUME pc' \in EarlySteps, Starting', Catchable' PROVE Control'
<1>1. Receiving' BY DEF EarlySteps, Receiving
<1>2. Ending' /\ FailEnding' BY DEF EarlySteps, Ending, FailEnding
<1>3. Recoveries' BY DEF EarlySteps, Recoveries, Places
<1> QED BY <1>1, <1>2, <1>3 DEF Control

LEMMA AtMiddle ==
  ASSUME pc' \in MiddleSteps, Receiving', Catchable' PROVE Control'
<1>1. Starting' BY DEF MiddleSteps, Starting
<1>2. Ending' /\ FailEnding' BY DEF MiddleSteps, Ending, FailEnding
<1>3. Recoveries' BY DEF MiddleSteps, Recoveries, Places
<1> QED BY <1>1, <1>2, <1>3 DEF Control

LEMMA AtEnd ==
  ASSUME pc' \in EndSteps, Ending', context' = "live" => Catchable' PROVE Control'
<1>1. Starting' /\ Receiving' BY DEF EndSteps, Starting, Receiving
<1>2. FailEnding' BY DEF EndSteps, FailEnding
<1>3. Recoveries' BY DEF EndSteps, Recoveries, Places
<1> QED BY <1>1, <1>2, <1>3 DEF Control

\* Nothing of a run is there before it is prepared; and later records follow earlier ones.
LEMMA NothingYet ==
  ASSUME Stores
  PROVE  /\ prepared = None => attempt = None /\ receipt = None /\ failure = None
         /\ attempt = None => entry = None /\ requests # 1
         /\ entry = None => check = None
         /\ check = None => capture = None
         /\ capture = None => captured = None
         /\ captured = None => result = None
BY DEF Stores, RecordsFollow, AttemptTells, RuntimeChecked

-----------------------------------------------------------------------------
(* The live run, up to the network.                                         *)

LEMMA ExecuteKeeps ==
  ASSUME IInv, Kept(Execute), UNCHANGED provider PROVE IInv'
<1>1. Pure /\ pc' = "claim" /\ context' = "live" /\ UNCHANGED faults
  BY DEF Kept, Execute, Pure, Goto
<1>2. prepared = None /\ receipt = None BY DEF Kept, Execute, Status
<1>3. failure = None BY <1>2, NothingYet DEF IInv
<1>4. faults' \in 0..MaxFaults BY <1>1 DEF IInv, TypeOK
<1>5. Starting' BY <1>1, <1>2 DEF Starting, Fresh, Pure, durable
<1>6. Catchable' BY <1>1, <1>2, <1>3 DEF Catchable, Pure, durable
<1>7. Control' BY <1>1, <1>5, <1>6, AtEarly DEF EarlySteps
<1> QED BY <1>1, <1>4, <1>7, PureStep

LEMMA ClaimKeeps ==
  ASSUME IInv, Kept(Claim), UNCHANGED provider PROVE IInv'
<1>1. Fresh /\ At("claim") BY DEF IInv, Control, Starting, Kept, Claim, At
<1>2. UNCHANGED <<runtime, check, prepared, attempt, entry, capture, captured, result, receipt,
                  requests, context, failure, provider>>
  BY DEF Kept, Claim
<1>3. faults' \in 0..MaxFaults
  BY FailsCount DEF IInv, TypeOK, Kept, Claim, Then, Goto
<1>4. marker' \in BOOLEAN BY DEF IInv, TypeOK, Kept, Claim
<1>5. TypeOK' BY <1>2, <1>3, <1>4 DEF IInv, TypeOK
<1>6. Stores'
  <2>1. /\ prepared = None /\ attempt = None /\ entry = None /\ check = None /\ capture = None
        /\ captured = None /\ result = None /\ receipt = None /\ failure = None /\ requests = 0
    BY <1>1, NothingYet DEF IInv, Fresh, TypeOK, Stores, AttemptTells
  <2> QED BY <1>2, <2>1 DEF Stores, RecordsFollow, CheckBinds, RuntimeChecked, AttemptTells,
             EntryTells, CaptureTells, ResultTells, FailureTells, ReceiptTells
<1>7. Catchable' BY <1>1, <1>2, NothingYet DEF IInv, Fresh, Catchable
<1>8. Control'
  <2>1. CASE Goto("claimed") /\ marker' = TRUE
    <3>1. Starting' BY <1>1, <1>2, <2>1 DEF Starting, Fresh, Goto
    <3> QED BY <2>1, <3>1, <1>7, AtEarly DEF Goto, EarlySteps
  <2>2. CASE Goto("ready")
    BY <2>2, AtRest DEF Goto
  <2>3. CASE Fails
    <3>1. pc' = Rescue BY <2>3 DEF Fails
    <3>2. Running BY <1>1 DEF At, Running
    <3> QED BY <3>1, <3>2, <1>2, <1>7, Rescued
  <2> QED BY <2>1, <2>2, <2>3 DEF Kept, Claim, Then
<1>9. Providers' BY DEF IInv, Providers
<1> QED BY <1>5, <1>6, <1>8, <1>9 DEF IInv

LEMMA RecheckKeeps ==
  ASSUME IInv, Kept(Recheck), UNCHANGED provider PROVE IInv'
<1>1. Fresh /\ marker /\ At("claimed") BY DEF IInv, Control, Starting, Kept, Recheck, At
<1>2. Pure /\ pc' \in {"authorize", "spent"} /\ UNCHANGED <<context, held, faults>>
  BY DEF Kept, Recheck, Pure, Goto
<1>3. faults' \in 0..MaxFaults /\ context' \in {"boot", "late", "live", "rescue"}
  BY <1>2 DEF IInv, TypeOK
<1>4. Control'
  <2>1. CASE pc' = "authorize"
    <3>1. Starting' BY <1>1, <1>2, <2>1 DEF Starting, Fresh, Pure, durable
    <3>2. Catchable' BY <1>1, <1>2, NothingYet DEF IInv, Fresh, Catchable, Pure, durable
    <3> QED BY <2>1, <3>1, <3>2, AtEarly DEF EarlySteps
  <2>2. CASE pc' = "spent" BY <2>2, AtRest
  <2> QED BY <1>2, <2>1, <2>2
<1> QED BY <1>2, <1>3, <1>4, PureStep

LEMMA AuthorizeKeeps ==
  ASSUME IInv, NEW t \in Times, Kept(Authorize(t)), UNCHANGED provider PROVE IInv'
<1>1. Fresh /\ marker /\ At("authorize") BY DEF IInv, Control, Starting, Kept, Authorize, At
<1>2. /\ Pure /\ UNCHANGED <<context, faults>>
      /\ (pc' = "prepare" /\ held' = Ticket(t)) \/ pc' = "spent"
  BY DEF Kept, Authorize, Pure, Goto
<1>3. faults' \in 0..MaxFaults /\ context' \in {"boot", "late", "live", "rescue"}
  BY <1>2 DEF IInv, TypeOK
<1>4. Ticket(t) \in Tickets
  <2>1. runtime.revision \in Nat /\ runtime.process \in Nat
    BY BoundsAssumption DEF IInv, TypeOK
  <2>2. t \in Times /\ t + TTL \in Until BY BoundsAssumption DEF Times, Until
  <2> QED BY <2>1, <2>2 DEF Ticket, Tickets
<1>5. Control'
  <2>1. CASE pc' = "prepare" /\ held' = Ticket(t)
    <3>1. Starting' BY <1>1, <1>2, <1>4, <2>1 DEF Starting, Fresh, Pure, durable
    <3>2. Catchable' BY <1>1, <1>2, NothingYet DEF IInv, Fresh, Catchable, Pure, durable
    <3> QED BY <2>1, <3>1, <3>2, AtEarly DEF EarlySteps
  <2>2. CASE pc' = "spent" BY <2>2, AtRest
  <2> QED BY <1>2, <2>1, <2>2
<1> QED BY <1>2, <1>3, <1>5, PureStep

LEMMA PrepareKeeps ==
  ASSUME IInv, Kept(Prepare), UNCHANGED provider PROVE IInv'
<1>1. Fresh /\ marker /\ held \in Tickets /\ At("prepare")
  BY DEF IInv, Control, Starting, Kept, Prepare, At
<1>2. /\ prepared' = held
      /\ UNCHANGED <<runtime, check, marker, attempt, entry, capture, captured, result, receipt,
                     requests, context, held, failure, provider>>
  BY DEF Kept, Prepare
<1>3. faults' \in 0..MaxFaults
  BY FailsCount DEF IInv, TypeOK, Kept, Prepare, Then, Goto
<1>4. prepared' \in Tickets /\ prepared' # None BY <1>1, <1>2, NoneAssumption
<1>5. TypeOK' BY <1>2, <1>3, <1>4 DEF IInv, TypeOK, Maybe
<1>6. /\ attempt = None /\ entry = None /\ check = None /\ capture = None
      /\ captured = None /\ result = None /\ receipt = None /\ failure = None /\ requests = 0
  BY <1>1, NothingYet DEF IInv, Fresh, TypeOK, Stores, AttemptTells
<1>7. Stores'
  BY <1>1, <1>2, <1>6 DEF Stores, RecordsFollow, CheckBinds, RuntimeChecked, AttemptTells,
     EntryTells, CaptureTells, ResultTells, FailureTells, ReceiptTells
<1>8. Catchable' BY <1>2, <1>6 DEF Catchable
<1>9. Control'
  <2>1. CASE Goto("reserve")
    <3>1. Starting' BY <1>1, <1>2, <1>4, <1>6, <2>1 DEF Starting, Fresh, Underway, Goto
    <3> QED BY <2>1, <3>1, <1>8, AtEarly DEF Goto, EarlySteps
  <2>2. CASE Fails
    <3>1. pc' = Rescue BY <2>2 DEF Fails
    <3>2. Running BY <1>1 DEF At, Running
    <3> QED BY <3>1, <3>2, <1>2, <1>4, <1>8, Rescued
  <2> QED BY <2>1, <2>2 DEF Kept, Prepare, Then
<1>10. Providers' BY DEF IInv, Providers
<1> QED BY <1>5, <1>7, <1>9, <1>10 DEF IInv

LEMMA ReserveKeeps ==
  ASSUME IInv, NEW t \in Times, Kept(Reserve(t)), UNCHANGED provider PROVE IInv'
<1>1. Underway /\ attempt = None /\ At("reserve")
  BY DEF IInv, Control, Starting, Kept, Reserve, At
<1>2. /\ attempt' = [state |-> "reserved", dispatchedAt |-> None, closedAt |-> None,
                     outcome |-> None]
      /\ held' = [issuedAt |-> t]
      /\ UNCHANGED <<runtime, check, marker, prepared, entry, capture, captured, result, receipt,
                     requests, context, failure, provider>>
  BY DEF Kept, Reserve
<1>3. faults' \in 0..MaxFaults
  BY FailsCount DEF IInv, TypeOK, Kept, Reserve, Then, Goto
<1>4. attempt' \in Attempts /\ attempt' # None
  <2>1. attempt' \in Attempts BY <1>2 DEF Attempts, Timestamps, Maybe
  <2> QED BY <2>1, NoneAssumption
<1>5. TypeOK' BY <1>2, <1>3, <1>4 DEF IInv, TypeOK, Maybe
<1>6. /\ entry = None /\ check = None /\ capture = None /\ captured = None /\ requests = 0
  BY <1>1, NothingYet DEF IInv, TypeOK, Stores, AttemptTells
<1>7. Stores'
  BY <1>1, <1>2, <1>4, <1>6 DEF IInv, Underway, Stores, RecordsFollow, CheckBinds, RuntimeChecked,
     AttemptTells, EntryTells, CaptureTells, ResultTells, FailureTells, ReceiptTells
<1>8. Underway' /\ Catchable' BY <1>1, <1>2 DEF Underway, Catchable
<1>9. Control'
  <2>1. CASE prepared.at <= t /\ Goto("begin")
    <3>1. IsReserved' /\ Permit' BY <1>2, <1>4, <2>1 DEF IsReserved, Permit
    <3>2. AtBegin' BY <1>2, <1>6, <1>8, <3>1 DEF AtBegin
    <3>3. Starting' BY <2>1, <3>2 DEF Starting, Goto
    <3> QED BY <2>1, <3>3, <1>8, AtEarly DEF Goto, EarlySteps
  <2>2. CASE Goto("caught")
    BY <1>8, <2>2, AtCaught DEF Underway, Goto
  <2>3. CASE Fails
    <3>1. pc' = Rescue BY <2>3 DEF Fails
    <3>2. Running BY <1>1 DEF At, Running
    <3> QED BY <3>1, <3>2, <1>2, <1>8, Rescued
  <2> QED BY <2>1, <2>2, <2>3 DEF Kept, Reserve, Then
<1>10. Providers' BY DEF IInv, Providers
<1> QED BY <1>5, <1>7, <1>9, <1>10 DEF IInv

LEMMA BeginKeeps ==
  ASSUME IInv, NEW t \in Times, Kept(Begin(t)), UNCHANGED provider PROVE IInv'
<1>1. AtBegin /\ At("begin") BY DEF IInv, Control, Starting, Kept, Begin, At
<1>2. UNCHANGED <<runtime, check, marker, prepared, attempt, capture, captured, result, receipt,
                  requests, context, held, failure, provider>>
  BY DEF Kept, Begin
<1>3. Underway /\ IsReserved /\ entry = None /\ Permit BY <1>1 DEF AtBegin
<1>4. /\ check = None /\ capture = None /\ captured = None
  BY <1>3, NothingYet DEF IInv
<1>5. Underway' /\ Catchable' BY <1>2, <1>3 DEF Underway, Catchable
<1>6. CASE Goto("caught") /\ UNCHANGED entry
  <2>1. Pure /\ UNCHANGED faults BY <1>2, <1>6 DEF Pure, durable, Goto
  <2>2. faults' \in 0..MaxFaults /\ context' \in {"boot", "late", "live", "rescue"}
    BY <2>1, <1>2 DEF IInv, TypeOK
  <2>3. Control' BY <1>5, <1>6, AtCaught DEF Underway, Goto
  <2> QED BY <2>1, <2>2, <2>3, PureStep
<1>7. CASE /\ entry' = [state |-> "pending", begunAt |-> t, committedAt |-> None,
                        removedAt |-> None, reason |-> None]
           /\ Then("dispatch")
  <2>1. entry' \in Entries /\ entry' # None
    <3>1. entry' \in Entries BY <1>7 DEF Entries, Timestamps, Maybe
    <3> QED BY <3>1, NoneAssumption
  <2>2. faults' \in 0..MaxFaults BY <1>7, FailsCount DEF IInv, TypeOK, Then, Goto
  <2>3. TypeOK' BY <1>2, <1>7, <2>1, <2>2 DEF IInv, TypeOK, Maybe
  <2>4. Stores'
    <3>1. RecordsFollow' /\ CheckBinds'
      BY <1>2, <1>3, <1>4 DEF IInv, Stores, RecordsFollow, CheckBinds, RuntimeChecked, IsReserved
    <3>2. AttemptTells' BY <1>2 DEF IInv, Stores, AttemptTells, AttemptOutcome
    <3>3. EntryTells' /\ CaptureTells'
      BY <1>2, <1>4, <1>7 DEF EntryTells, CaptureTells, Settled, Destroyed
    <3>4. ResultTells' /\ ReceiptTells'
      BY <1>2, <1>3 DEF Underway, ResultTells, ReceiptTells
    <3>5. FailureTells' BY <1>2, <1>3 DEF Underway, IsReserved, FailureTells
    <3> QED BY <3>1, <3>2, <3>3, <3>4, <3>5 DEF Stores
  <2>5. Control'
    <3>1. CASE Goto("dispatch")
      <4>1. IsReserved' /\ IsPending' /\ Permit'
        BY <1>2, <1>3, <1>7, <2>1 DEF IsReserved, IsPending, Permit
      <4>2. AtDispatch' BY <1>2, <1>4, <1>5, <4>1 DEF AtDispatch
      <4>3. Starting' BY <3>1, <4>2 DEF Starting, Goto
      <4> QED BY <3>1, <4>3, <1>5, AtEarly DEF Goto, EarlySteps
    <3>2. CASE Fails
      <4>1. pc' = Rescue BY <3>2 DEF Fails
      <4>2. Running BY <1>1 DEF At, Running
      <4> QED BY <4>1, <4>2, <1>2, <1>5, Rescued
    <3> QED BY <1>7, <3>1, <3>2 DEF Then
  <2>6. Providers' BY DEF IInv, Providers
  <2> QED BY <2>3, <2>4, <2>5, <2>6 DEF IInv
<1> QED BY <1>6, <1>7 DEF Kept, Begin

LEMMA CheckIs ==
  ASSUME TypeOK, prepared \in Tickets, NEW t \in Times, NEW d \in {"allowed", "denied"}
  PROVE  /\ CheckOf(d, t) \in Checks /\ CheckOf(d, t).decision = d
         /\ prepared.at <= CheckOf(d, t).at
         /\ CheckOf(d, t).revision = runtime.revision
         /\ CheckOf(d, t).process = runtime.process
<1>1. runtime.revision \in Nat /\ runtime.process \in Nat BY BoundsAssumption DEF TypeOK
<1>2. prepared.at \in Times BY DEF Tickets
<1>3. LaterOf(t, prepared.at) \in Until /\ prepared.at <= LaterOf(t, prepared.at)
  BY <1>2, BoundsAssumption DEF LaterOf, Times, Until
<1> QED BY <1>1, <1>3 DEF CheckOf, Checks

LEMMA DispatchKeeps ==
  ASSUME IInv, NEW t \in Times, Kept(Dispatch(t)), UNCHANGED provider PROVE IInv'
<1>1. AtDispatch /\ At("dispatch") BY DEF IInv, Control, Starting, Kept, Dispatch, At
<1>2. UNCHANGED <<runtime, marker, prepared, attempt, entry, capture, captured, result, receipt,
                  requests, context, failure, provider>>
  BY DEF Kept, Dispatch
<1>3. Underway /\ IsReserved /\ IsPending /\ check = None /\ Permit BY <1>1 DEF AtDispatch
<1>4. prepared \in Tickets BY <1>3 DEF IInv, TypeOK, Maybe, Underway
<1>5. Underway' /\ Catchable' BY <1>2, <1>3 DEF Underway, Catchable
<1>6. CASE /\ Standing /\ Goto("consume") /\ UNCHANGED check
           /\ held' = [issuedAt |-> held.issuedAt, check |-> CheckOf("allowed", t)]
  <2>1. Pure /\ UNCHANGED faults BY <1>2, <1>6 DEF Pure, durable, Goto
  <2>2. faults' \in 0..MaxFaults /\ context' \in {"boot", "late", "live", "rescue"}
    BY <2>1, <1>2 DEF IInv, TypeOK
  <2>3. AtDispatch'
    <3>1. IsReserved' /\ IsPending' /\ Permit'
      BY <1>2, <1>3, <1>6 DEF IsReserved, IsPending, Permit
    <3> QED BY <1>3, <1>5, <1>6, <3>1 DEF AtDispatch
  <2>4. AllowedCheck(held.check)'
    <3>1. held'.check = CheckOf("allowed", t) BY <1>6
    <3>2. AllowedCheck(CheckOf("allowed", t))
      BY <1>4, <1>6, CheckIs DEF IInv, AllowedCheck, Standing
    <3> QED BY <1>2, <3>1, <3>2 DEF AllowedCheck
  <2>5. Starting' BY <1>6, <2>3, <2>4 DEF Starting, AtConsume, Goto
  <2>6. Control' BY <1>5, <1>6, <2>5, AtEarly DEF Goto, EarlySteps
  <2> QED BY <2>1, <2>2, <2>6, PureStep
<1>7. CASE check' = CheckOf("denied", t) /\ Then("caught")
  <2>1. check' \in Checks /\ check' # None /\ check'.decision = "denied"
    BY <1>4, <1>7, CheckIs, NoneAssumption DEF IInv
  <2>2. faults' \in 0..MaxFaults BY <1>7, FailsCount DEF IInv, TypeOK, Then, Goto
  <2>3. TypeOK' BY <1>2, <2>1, <2>2 DEF IInv, TypeOK, Maybe
  <2>4. Stores'
    <3>1. capture = None /\ captured = None BY <1>3, NothingYet DEF IInv
    <3>2. RecordsFollow' /\ CheckBinds'
      BY <1>2, <1>3, <2>1, <3>1
      DEF IInv, Stores, RecordsFollow, CheckBinds, RuntimeChecked, IsPending
    <3>3. AttemptTells' BY <1>2 DEF IInv, Stores, AttemptTells, AttemptOutcome
    <3>4. EntryTells' /\ CaptureTells'
      BY <1>2, <3>1 DEF IInv, Stores, EntryTells, CaptureTells, Settled, Destroyed
    <3>5. ResultTells' /\ ReceiptTells'
      BY <1>2, <1>3 DEF Underway, ResultTells, ReceiptTells
    <3>6. FailureTells' BY <1>2, <1>3 DEF Underway, IsReserved, FailureTells
    <3> QED BY <3>2, <3>3, <3>4, <3>5, <3>6 DEF Stores
  <2>5. Control'
    <3>1. CASE Goto("caught")
      BY <1>5, <3>1, AtCaught DEF Underway, Goto
    <3>2. CASE Fails
      <4>1. pc' = Rescue BY <3>2 DEF Fails
      <4>2. Running BY <1>1 DEF At, Running
      <4> QED BY <4>1, <4>2, <1>2, <1>5, Rescued
    <3> QED BY <1>7, <3>1, <3>2 DEF Then
  <2>6. Providers' BY DEF IInv, Providers
  <2> QED BY <2>3, <2>4, <2>5, <2>6 DEF IInv
<1> QED BY <1>6, <1>7 DEF Kept, Dispatch

LEMMA ConsumeKeeps ==
  ASSUME IInv, NEW t \in Times, Kept(Consume(t)), UNCHANGED provider PROVE IInv'
<1>1. AtConsume /\ At("consume") BY DEF IInv, Control, Starting, Kept, Consume, At
<1>2. UNCHANGED <<runtime, check, marker, prepared, entry, capture, captured, result, receipt,
                  requests, context, held, failure, provider>>
  BY DEF Kept, Consume
<1>3. /\ Underway /\ IsReserved /\ IsPending /\ check = None /\ Permit
      /\ AllowedCheck(held.check)
  BY <1>1 DEF AtConsume, AtDispatch
<1>4. Underway' /\ Catchable' BY <1>2, <1>3 DEF Underway, Catchable
<1>5. CASE Goto("caught") /\ UNCHANGED attempt
  <2>1. Pure /\ UNCHANGED faults BY <1>2, <1>5 DEF Pure, durable, Goto
  <2>2. faults' \in 0..MaxFaults /\ context' \in {"boot", "late", "live", "rescue"}
    BY <2>1, <1>2 DEF IInv, TypeOK
  <2>3. Control' BY <1>4, <1>5, AtCaught DEF Underway, Goto
  <2> QED BY <2>1, <2>2, <2>3, PureStep
<1>6. CASE /\ attempt' = [attempt EXCEPT !.state = "dispatched",
                                         !.dispatchedAt = LaterOf(t, held.issuedAt)]
           /\ Then("send")
  <2> DEFINE d == LaterOf(t, held.issuedAt)
  <2>1. attempt \in Attempts /\ attempt.state = "reserved" /\ prepared \in Tickets
    BY <1>3 DEF IInv, TypeOK, Maybe, IsReserved, Underway
  <2>2. d \in Times /\ prepared.at <= d /\ d # None
    <3>1. prepared.at \in Times BY <2>1 DEF Tickets
    <3> QED BY <1>3, <3>1, NoneAssumption, BoundsAssumption DEF Permit, LaterOf, Times
  <2>3. attempt' = Consumed(attempt, d) BY <1>6 DEF Consumed
  <2> HIDE DEF d
  <2>4. /\ attempt' \in Attempts
        /\ attempt'.state = "dispatched" /\ attempt'.dispatchedAt = d
        /\ attempt'.closedAt = attempt.closedAt /\ attempt'.outcome = attempt.outcome
    BY <2>1, <2>2, <2>3, Dispatched
  <2>5. attempt' # None BY <2>4, NoneAssumption
  <2>6. faults' \in 0..MaxFaults BY <1>6, FailsCount DEF IInv, TypeOK, Then, Goto
  <2>7. attempt.closedAt = None BY <2>1, <1>3 DEF IInv, TypeOK, IsReserved
  <2>8. TypeOK' BY <1>2, <2>4, <2>5, <2>6, <2>7 DEF IInv, TypeOK, Maybe
  <2>9. capture = None /\ captured = None BY <1>3, NothingYet DEF IInv
  <2>10. requests = 0
    BY <2>1, <1>3 DEF IInv, TypeOK, Stores, AttemptTells, IsReserved
  <2>11. Stores'
    <3>1. RecordsFollow' /\ CheckBinds'
      BY <1>2, <1>3, <2>5, <2>9
      DEF IInv, Stores, RecordsFollow, CheckBinds, RuntimeChecked, Underway
    <3>2. AttemptTells'
      <4>1. attempt.outcome = None
        BY <2>1, <1>3 DEF IInv, Stores, AttemptTells, IsReserved
      <4> QED BY <1>2, <2>2, <2>4, <2>5, <2>10, <4>1 DEF AttemptTells
    <3>3. EntryTells' /\ CaptureTells'
      BY <1>2, <1>3, <2>9
      DEF IInv, Stores, EntryTells, CaptureTells, Settled, Destroyed, IsPending
    <3>4. ResultTells' /\ ReceiptTells'
      BY <1>2, <1>3 DEF Underway, ResultTells, ReceiptTells
    <3>5. FailureTells' BY <1>2, <1>3, <2>4 DEF Underway, FailureTells
    <3>6. RecordsFollow' BY <3>1
    <3> QED BY <3>1, <3>2, <3>3, <3>4, <3>5 DEF Stores
  <2>12. Control'
    <3>1. CASE Goto("send")
      <4>1. IsDispatched' /\ IsPending' /\ AllowedCheck(held.check)'
        BY <1>2, <1>3, <2>4, <2>5 DEF IsDispatched, IsPending, AllowedCheck
      <4>2. AtSeal' /\ requests' = 0 BY <1>2, <1>3, <1>4, <2>10, <4>1 DEF AtSeal
      <4>3. Starting' BY <3>1, <4>2 DEF Starting, Goto
      <4> QED BY <3>1, <4>3, <1>4, AtEarly DEF Goto, EarlySteps
    <3>2. CASE Fails
      <4>1. pc' = Rescue BY <3>2 DEF Fails
      <4>2. Running BY <1>1 DEF At, Running
      <4> QED BY <4>1, <4>2, <1>2, <1>4, Rescued
    <3> QED BY <1>6, <3>1, <3>2 DEF Then
  <2>13. Providers' BY DEF IInv, Providers
  <2> QED BY <2>8, <2>11, <2>12, <2>13 DEF IInv
<1> QED BY <1>5, <1>6 DEF Kept, Consume

LEMMA SendKeeps ==
  ASSUME IInv, Kept(Send), UNCHANGED provider PROVE IInv'
<1>1. AtSeal /\ requests = 0 /\ At("send") BY DEF IInv, Control, Starting, Kept, Send, At
<1>2. /\ UNCHANGED <<runtime, check, marker, prepared, attempt, entry, capture, captured, result,
                     receipt, context, held, failure, provider, faults>>
      /\ requests' \in {0, 1} /\ pc' = "seal"
  BY <1>1 DEF Kept, Send, durable, Goto
<1>3. TypeOK' BY <1>2 DEF IInv, TypeOK
<1>4. Stores'
  <2>1. RecordsFollow' /\ CheckBinds'
    BY <1>2 DEF IInv, Stores, RecordsFollow, CheckBinds, RuntimeChecked, RuntimeEvidence
  <2>2. AttemptTells'
    <3>1. attempt # None /\ attempt.dispatchedAt # None
      BY <1>1 DEF AtSeal, IsDispatched, IInv, Stores, AttemptTells
    <3> QED BY <1>2, <3>1 DEF IInv, Stores, AttemptTells, AttemptOutcome
  <2>3. EntryTells' BY <1>2 DEF IInv, Stores, EntryTells, Settled, Destroyed
  <2>4. CaptureTells' BY <1>2 DEF IInv, Stores, CaptureTells, Settled, Destroyed, Projection
  <2>5. ResultTells' /\ ReceiptTells' /\ FailureTells'
    BY <1>1, <1>2 DEF AtSeal, Underway, IsDispatched, ResultTells, ReceiptTells, FailureTells
  <2> QED BY <2>1, <2>2, <2>3, <2>4, <2>5 DEF Stores
<1>5. AtSeal'
  BY <1>1, <1>2 DEF AtSeal, Underway, IsDispatched, IsPending, AllowedCheck
<1>6. Control'
  <2>1. Starting' BY <1>2, <1>5 DEF Starting
  <2>2. Catchable' BY <1>5 DEF AtSeal, Underway, Catchable
  <2> QED BY <1>2, <2>1, <2>2, AtEarly DEF EarlySteps
<1>7. Providers' BY DEF IInv, Providers
<1> QED BY <1>3, <1>4, <1>6, <1>7 DEF IInv

LEMMA SealKeeps ==
  ASSUME IInv, Kept(Seal), UNCHANGED provider PROVE IInv'
<1>1. AtSeal /\ At("seal") BY DEF IInv, Control, Starting, Kept, Seal, At
<1>2. /\ check' = held.check
      /\ UNCHANGED <<runtime, marker, prepared, attempt, entry, capture, captured, result,
                     receipt, requests, context, held, failure, provider>>
  BY DEF Kept, Seal
<1>3. /\ Underway /\ IsDispatched /\ IsPending /\ check = None /\ AllowedCheck(held.check)
  BY <1>1 DEF AtSeal
<1>4. check' \in Checks /\ check' # None BY <1>2, <1>3, NoneAssumption DEF AllowedCheck
<1>5. faults' \in 0..MaxFaults
  BY FailsCount DEF IInv, TypeOK, Kept, Seal, Then, Goto
<1>6. TypeOK' BY <1>2, <1>4, <1>5 DEF IInv, TypeOK, Maybe
<1>7. capture = None /\ captured = None BY <1>3, NothingYet DEF IInv
<1>8. RuntimeChecked' BY <1>2, <1>3, <1>4 DEF RuntimeChecked, AllowedCheck
<1>9. Stores'
  <2>1. RecordsFollow'
    BY <1>2, <1>3, <1>7 DEF IInv, Stores, RecordsFollow, IsPending
  <2>2. CheckBinds'
    <3>1. attempt'.dispatchedAt # None
      BY <1>2, <1>3 DEF IsDispatched, IInv, Stores, AttemptTells
    <3> QED BY <1>2, <1>3, <1>4, <3>1 DEF CheckBinds, RuntimeEvidence, AllowedCheck
  <2>3. AttemptTells' BY <1>2 DEF IInv, Stores, AttemptTells, AttemptOutcome
  <2>4. EntryTells' /\ CaptureTells'
    BY <1>2, <1>7 DEF IInv, Stores, EntryTells, CaptureTells, Settled, Destroyed
  <2>5. ResultTells' /\ ReceiptTells' /\ FailureTells'
    BY <1>2, <1>3 DEF Underway, IsDispatched, ResultTells, ReceiptTells, FailureTells
  <2> QED BY <2>1, <2>2, <2>3, <2>4, <2>5 DEF Stores
<1>10. Underway' /\ Catchable' BY <1>2, <1>3 DEF Underway, Catchable
<1>11. Control'
  <2>1. CASE Goto("receive")
    <3>1. AtReceive'
      BY <1>2, <1>3, <1>7, <1>8, <1>10 DEF AtReceive, IsDispatched, IsPending
    <3>2. Receiving' BY <2>1, <3>1 DEF Receiving, Goto
    <3> QED BY <2>1, <3>2, <1>10, AtMiddle DEF Goto, MiddleSteps
  <2>2. CASE Fails
    <3>1. pc' = Rescue BY <2>2 DEF Fails
    <3>2. Running BY <1>1 DEF At, Running
    <3> QED BY <3>1, <3>2, <1>2, <1>10, Rescued
  <2> QED BY <2>1, <2>2 DEF Kept, Seal, Then
<1>12. Providers' BY DEF IInv, Providers
<1> QED BY <1>6, <1>9, <1>11, <1>12 DEF IInv

-----------------------------------------------------------------------------
(* The response.                                                            *)

LEMMA ReceiveKeeps ==
  ASSUME IInv, NEW t \in Times, NEW k \in Contents, provider = "base" => k # "none",
         Kept(Receive(k, t)), UNCHANGED provider
  PROVE  IInv'
<1>1. AtReceive /\ At("receive") BY DEF IInv, Control, Receiving, Kept, Receive, At
<1>2. Pure /\ UNCHANGED <<context, faults>> BY DEF Kept, Receive, Pure, Goto
<1>3. faults' \in 0..MaxFaults /\ context' \in {"boot", "late", "live", "rescue"}
  BY <1>2 DEF IInv, TypeOK
<1>4. AtReceive'
  BY <1>1, <1>2 DEF AtReceive, Underway, IsDispatched, IsPending, RuntimeChecked, Pure, durable
<1>5. Underway' /\ Catchable' BY <1>4 DEF AtReceive, Underway, Catchable
<1>6. CASE InCaptureWindow(t) /\ held' = [content |-> k, acquiredAt |-> t] /\ Goto("capture")
  <2>1. AtCapture'
    <3>1. held'.content = k /\ held'.acquiredAt = t BY <1>6
    <3>2. attempt'.dispatchedAt <= t BY <1>2, <1>6 DEF InCaptureWindow, Pure, durable
    <3> QED BY <1>4, <3>1, <3>2 DEF AtCapture
  <2>2. Receiving' BY <1>6, <2>1 DEF Receiving, Goto
  <2>3. Control' BY <1>6, <2>2, <1>5, AtMiddle DEF Goto, MiddleSteps
  <2> QED BY <1>2, <1>3, <2>3, PureStep
<1>7. CASE Goto("caught")
  <2>1. Control' BY <1>5, <1>7, AtCaught DEF Underway, Goto
  <2> QED BY <1>2, <1>3, <2>1, PureStep
<1> QED BY <1>6, <1>7 DEF Kept, Receive

LEMMA CaptureKeeps ==
  ASSUME IInv, Kept(Capture), UNCHANGED provider PROVE IInv'
<1>1. AtCapture /\ At("capture") BY DEF IInv, Control, Receiving, Kept, Capture, At
<1>2. /\ capture' = [state |-> "live", content |-> held.content,
                     acquiredAt |-> held.acquiredAt, deletedAt |-> None]
      /\ UNCHANGED <<runtime, check, marker, prepared, attempt, entry, captured, result,
                     receipt, requests, context, held, failure, provider>>
  BY DEF Kept, Capture
<1>3. /\ Underway /\ IsDispatched /\ IsPending /\ RuntimeChecked /\ capture = None
      /\ held.content \in Contents /\ held.acquiredAt \in Times
      /\ provider = "base" => held.content # "none"
      /\ attempt.dispatchedAt <= held.acquiredAt
  BY <1>1 DEF AtCapture, AtReceive
<1>4. capture' \in Captures /\ capture' # None
  <2>1. capture' \in Captures BY <1>2, <1>3 DEF Captures, Timestamps, Maybe
  <2> QED BY <2>1, NoneAssumption
<1>5. faults' \in 0..MaxFaults
  BY FailsCount DEF IInv, TypeOK, Kept, Capture, Then, Goto
<1>6. TypeOK' BY <1>2, <1>4, <1>5 DEF IInv, TypeOK, Maybe
<1>7. captured = None BY <1>3, NothingYet DEF IInv
<1>8. Stores'
  <2>1. RecordsFollow' /\ CheckBinds'
    BY <1>2, <1>3, <1>7
    DEF IInv, Stores, RecordsFollow, CheckBinds, RuntimeChecked, RuntimeEvidence
  <2>2. AttemptTells' BY <1>2 DEF IInv, Stores, AttemptTells, AttemptOutcome
  <2>3. EntryTells' /\ CaptureTells'
    BY <1>2, <1>3, <1>7
    DEF IInv, Stores, EntryTells, CaptureTells, Settled, Destroyed, IsPending
  <2>4. ResultTells' /\ ReceiptTells' /\ FailureTells'
    BY <1>2, <1>3 DEF Underway, IsDispatched, ResultTells, ReceiptTells, FailureTells
  <2> QED BY <2>1, <2>2, <2>3, <2>4 DEF Stores
<1>9. Underway' /\ Catchable' BY <1>2, <1>3 DEF Underway, Catchable
<1>10. Control'
  <2>1. CASE Goto("commit")
    <3>1. AtCommit'
      BY <1>2, <1>3, <1>4, <1>9 DEF AtCommit, IsDispatched, IsPending
    <3>2. Receiving' BY <2>1, <3>1 DEF Receiving, Goto
    <3> QED BY <2>1, <3>2, <1>9, AtMiddle DEF Goto, MiddleSteps
  <2>2. CASE Fails
    <3>1. pc' = Rescue BY <2>2 DEF Fails
    <3>2. Running BY <1>1 DEF At, Running
    <3> QED BY <3>1, <3>2, <1>2, <1>9, Rescued
  <2> QED BY <2>1, <2>2 DEF Kept, Capture, Then
<1>11. Providers' BY DEF IInv, Providers
<1> QED BY <1>6, <1>8, <1>10, <1>11 DEF IInv

LEMMA CommitKeeps ==
  ASSUME IInv, NEW t \in Times, Kept(Commit(t)), UNCHANGED provider PROVE IInv'
<1>1. AtCommit /\ At("commit") BY DEF IInv, Control, Receiving, Kept, Commit, At
<1>2. UNCHANGED <<runtime, check, marker, prepared, attempt, capture, captured, result,
                  receipt, requests, context, held, failure, provider>>
  BY DEF Kept, Commit
<1>3. /\ Underway /\ IsDispatched /\ IsPending /\ capture # None /\ capture.state = "live"
  BY <1>1 DEF AtCommit
<1>4. Underway' /\ Catchable' BY <1>2, <1>3 DEF Underway, Catchable
<1>5. faults' \in 0..MaxFaults
  BY FailsCount DEF IInv, TypeOK, Kept, Commit, Goto
<1>6. CASE UNCHANGED entry /\ (Goto("shred") \/ Fails)
  <2>1. Pure BY <1>2, <1>6 DEF Pure, durable
  <2>2. context' \in {"boot", "late", "live", "rescue"} BY <1>2 DEF IInv, TypeOK
  <2>3. CASE Goto("shred")
    <3>1. AtCommit' BY <1>2, <1>3, <1>4, <1>6 DEF AtCommit, IsDispatched, IsPending
    <3>2. Receiving' BY <2>3, <3>1 DEF Receiving, Goto
    <3>3. Control' BY <2>3, <3>2, <1>4, AtMiddle DEF Goto, MiddleSteps
    <3> QED BY <2>1, <2>2, <3>3, <1>5, PureStep
  <2>4. CASE Fails
    <3>1. pc' = Rescue /\ Running BY <2>4, <1>1 DEF Fails, At, Running
    <3>2. Control' BY <3>1, <1>2, <1>4, Rescued
    <3> QED BY <2>1, <2>2, <3>2, <1>5, PureStep
  <2> QED BY <1>6, <2>3, <2>4
<1>7. CASE /\ capture.acquiredAt <= t
           /\ entry' = [entry EXCEPT !.state = "committed", !.committedAt = t]
           /\ Goto("project") \/ Fails
  <2>1. entry \in Entries /\ entry.state = "pending" BY <1>3 DEF IInv, TypeOK, Maybe, IsPending
  <2>2. entry' = Committed(entry, t) BY <1>7 DEF Committed
  <2>3. /\ entry' \in Entries
        /\ entry'.state = "committed" /\ entry'.committedAt = t
        /\ entry'.begunAt = entry.begunAt /\ entry'.removedAt = entry.removedAt
        /\ entry'.reason = entry.reason
    BY <2>1, <2>2, CommittedAt
  <2>4. entry' # None /\ t # None BY <2>3, NoneAssumption DEF Times
  <2>5. entry.removedAt = None BY <2>1, <1>3 DEF IInv, TypeOK, IsPending
  <2>6. TypeOK' BY <1>2, <1>5, <2>3, <2>4, <2>5 DEF IInv, TypeOK, Maybe
  <2>7. captured = None
    BY <1>3 DEF IInv, Stores, CaptureTells, Settled, Destroyed, IsPending
  <2>8. Stores'
    <3>1. RecordsFollow' /\ CheckBinds'
      BY <1>2, <1>3, <2>4
      DEF IInv, Stores, RecordsFollow, CheckBinds, RuntimeChecked, RuntimeEvidence, IsDispatched
    <3>2. AttemptTells' BY <1>2 DEF IInv, Stores, AttemptTells, AttemptOutcome
    <3>3. EntryTells'
      BY <1>2, <1>3, <1>7, <2>3, <2>4 DEF EntryTells, Settled, Destroyed, IsDispatched
    <3>4. CaptureTells' BY <1>2, <2>7 DEF IInv, Stores, CaptureTells
    <3>5. ResultTells' /\ ReceiptTells' /\ FailureTells'
      BY <1>2, <1>3 DEF Underway, IsDispatched, ResultTells, ReceiptTells, FailureTells
    <3> QED BY <3>1, <3>2, <3>3, <3>4, <3>5 DEF Stores
  <2>9. Control'
    <3>1. CASE Goto("project")
      <4>1. AtProject'
        BY <1>2, <1>3, <1>4, <2>3, <2>4, <2>7 DEF AtProject, IsDispatched, IsCommitted
      <4>2. Receiving' BY <3>1, <4>1 DEF Receiving, Goto
      <4> QED BY <3>1, <4>2, <1>4, AtMiddle DEF Goto, MiddleSteps
    <3>2. CASE Fails
      <4>1. pc' = Rescue /\ Running BY <3>2, <1>1 DEF Fails, At, Running
      <4> QED BY <4>1, <1>2, <1>4, Rescued
    <3> QED BY <1>7, <3>1, <3>2
  <2>10. Providers' BY DEF IInv, Providers
  <2> QED BY <2>6, <2>8, <2>9, <2>10 DEF IInv
<1> QED BY <1>6, <1>7 DEF Kept, Commit

LEMMA ShredKeeps ==
  ASSUME IInv, Kept(Shred), UNCHANGED provider PROVE IInv'
<1>1. AtCommit /\ At("shred") BY DEF IInv, Control, Receiving, Kept, Shred, At
<1>2. /\ capture' = Deleted(capture, capture.acquiredAt)
      /\ UNCHANGED <<runtime, check, marker, prepared, attempt, entry, captured, result,
                     receipt, requests, context, held, failure, provider>>
  BY DEF Kept, Shred, Deleted
<1>3. /\ Underway /\ IsDispatched /\ IsPending /\ capture # None /\ capture.state = "live"
  BY <1>1 DEF AtCommit
<1>4. capture \in Captures /\ capture.acquiredAt \in Times
  BY <1>3 DEF IInv, TypeOK, Maybe, Captures
<1>5. /\ capture' \in Captures /\ capture'.state = "deleted"
      /\ capture'.deletedAt = capture.acquiredAt
      /\ capture'.content = capture.content /\ capture'.acquiredAt = capture.acquiredAt
  BY <1>2, <1>4, DeletedAt
<1>6. capture' # None /\ capture'.deletedAt # None
  BY <1>4, <1>5, NoneAssumption DEF Times
<1>7. faults' \in 0..MaxFaults
  BY FailsCount DEF IInv, TypeOK, Kept, Shred, Then, Goto
<1>8. TypeOK' BY <1>2, <1>5, <1>6, <1>7 DEF IInv, TypeOK, Maybe
<1>9. captured = None
  BY <1>3 DEF IInv, Stores, CaptureTells, Settled, Destroyed, IsPending
<1>10. Stores'
  <2>1. RecordsFollow' /\ CheckBinds'
    BY <1>2, <1>3, <1>9
    DEF IInv, Stores, RecordsFollow, CheckBinds, RuntimeChecked, RuntimeEvidence
  <2>2. AttemptTells' BY <1>2 DEF IInv, Stores, AttemptTells, AttemptOutcome
  <2>3. EntryTells' BY <1>2, <1>3 DEF IsPending, IInv, Stores, EntryTells, Settled, Destroyed
  <2>4. CaptureTells' BY <1>2, <1>3, <1>5, <1>9 DEF IInv, Stores, CaptureTells
  <2>5. ResultTells' /\ ReceiptTells' /\ FailureTells'
    BY <1>2, <1>3 DEF Underway, IsDispatched, ResultTells, ReceiptTells, FailureTells
  <2> QED BY <2>1, <2>2, <2>3, <2>4, <2>5 DEF Stores
<1>11. Underway' /\ Catchable' BY <1>2, <1>3 DEF Underway, Catchable
<1>12. Control'
  <2>1. CASE Goto("caught")
    BY <1>11, <2>1, AtCaught DEF Underway, Goto
  <2>2. CASE Fails
    <3>1. pc' = Rescue /\ Running BY <2>2, <1>1 DEF Fails, At, Running
    <3> QED BY <3>1, <1>2, <1>11, Rescued
  <2> QED BY <2>1, <2>2 DEF Kept, Shred, Then
<1>13. Providers' BY DEF IInv, Providers
<1> QED BY <1>8, <1>10, <1>12, <1>13 DEF IInv

LEMMA ProjectionIs ==
  ASSUME capture \in Captures
  PROVE  Projection \in Projections /\ Projection # None
<1>1. Projection \in Projections BY DEF Projection, Captures, Projections, Contents
<1> QED BY <1>1, NoneAssumption

LEMMA ProjectKeeps ==
  ASSUME IInv, Kept(Project), UNCHANGED provider PROVE IInv'
<1>1. AtProject /\ At("project") BY DEF IInv, Control, Receiving, Kept, Project, At
<1>2. /\ captured' = Projection
      /\ UNCHANGED <<runtime, check, marker, prepared, attempt, entry, capture, result,
                     receipt, requests, context, held, failure, provider>>
  BY DEF Kept, Project
<1>3. Underway /\ IsDispatched /\ IsCommitted BY <1>1 DEF AtProject
<1>4. Settled /\ capture # None /\ capture \in Captures
  BY <1>3 DEF IsCommitted, Settled, IInv, Stores, EntryTells, TypeOK, Maybe
<1>5. captured' \in Projections /\ captured' # None BY <1>2, <1>4, ProjectionIs
<1>6. faults' \in 0..MaxFaults
  BY FailsCount DEF IInv, TypeOK, Kept, Project, Then, Goto
<1>7. TypeOK' BY <1>2, <1>5, <1>6 DEF IInv, TypeOK, Maybe
<1>8. Stores'
  <2>1. RecordsFollow' /\ CheckBinds'
    BY <1>2, <1>3, <1>4
    DEF IInv, Stores, RecordsFollow, CheckBinds, RuntimeChecked, RuntimeEvidence, Underway
  <2>2. AttemptTells' BY <1>2 DEF IInv, Stores, AttemptTells, AttemptOutcome
  <2>3. EntryTells' BY <1>2 DEF IInv, Stores, EntryTells, Settled, Destroyed
  <2>4. CaptureTells'
    BY <1>2, <1>4 DEF IInv, Stores, CaptureTells, Settled, Destroyed, Projection
  <2>5. ResultTells' /\ ReceiptTells' /\ FailureTells'
    BY <1>2, <1>3 DEF Underway, IsDispatched, ResultTells, ReceiptTells, FailureTells
  <2> QED BY <2>1, <2>2, <2>3, <2>4, <2>5 DEF Stores
<1>9. Underway' /\ Catchable' BY <1>2, <1>3 DEF Underway, Catchable
<1>10. Control'
  <2>1. CASE Goto("complete")
    <3>1. Captured'
      BY <1>2, <1>3, <1>5 DEF Captured, Underway, IsDispatched, IsCommitted
    <3>2. Ending' BY <2>1, <3>1, <1>9 DEF Ending, Goto
    <3> QED BY <2>1, <3>2, <1>9, AtEnd DEF Goto, EndSteps
  <2>2. CASE Fails
    <3>1. pc' = Rescue /\ Running BY <2>2, <1>1 DEF Fails, At, Running
    <3> QED BY <3>1, <1>2, <1>9, Rescued
  <2> QED BY <2>1, <2>2 DEF Kept, Project, Then
<1>11. Providers' BY DEF IInv, Providers
<1> QED BY <1>7, <1>8, <1>10, <1>11 DEF IInv

-----------------------------------------------------------------------------
(* The result: of a live run, or of a recovered one.                        *)

\* What a captured run without a result has on record.
LEMMA CapturedIs ==
  ASSUME IInv, Captured
  PROVE  /\ CandidateReady /\ capture # None /\ capture.state = "live"
         /\ entry \in Entries /\ entry.state = "committed" /\ entry.committedAt \in Times
         /\ captured \in Projections /\ captured = Projection
         /\ capture \in Captures /\ capture.acquiredAt <= entry.committedAt
         /\ attempt \in Attempts /\ attempt.dispatchedAt \in Times
         /\ attempt.dispatchedAt <= capture.acquiredAt
         /\ prepared \in Tickets
<1>1. /\ entry # None /\ entry.state = "committed" /\ Settled /\ captured # None
      /\ attempt # None /\ attempt.state = "dispatched" /\ result = None
  BY DEF Captured, IsCommitted, Settled, IsDispatched
<1>2. /\ capture # None /\ RuntimeChecked /\ prepared # None
      /\ entry.committedAt # None /\ capture.acquiredAt <= entry.committedAt
      /\ capture.state # "deleted" /\ captured = Projection
      /\ attempt.dispatchedAt # None /\ attempt.dispatchedAt <= capture.acquiredAt
  BY <1>1 DEF IInv, Stores, RecordsFollow, EntryTells, CaptureTells, AttemptTells
<1>3. /\ entry \in Entries /\ captured \in Projections /\ capture \in Captures
      /\ attempt \in Attempts /\ prepared \in Tickets
  BY <1>1, <1>2 DEF IInv, TypeOK, Maybe
<1>4. entry.committedAt \in Times /\ attempt.dispatchedAt \in Times
  BY <1>1, <1>2, <1>3 DEF Entries, Attempts, Timestamps, Maybe
<1>5. capture.state = "live" BY <1>2, <1>3 DEF Captures
<1>6. CandidateReady BY <1>1, <1>2 DEF CandidateReady, RuntimeChecked
<1> QED BY <1>1, <1>2, <1>3, <1>4, <1>5, <1>6

\* What the result made of it says.
LEMMA CandidateIs ==
  ASSUME IInv, Captured, NEW t \in Times, NEW d \in BOOLEAN
  PROVE  LET r == Candidate(d, t) IN
         /\ r \in Results /\ r # None
         /\ r.denied = d /\ r.acquiredAt = captured.at
         /\ entry.committedAt <= r.completedAt
         /\ ~d => r.outcome = (IF captured.status = "rejected" THEN "rejected"
                               ELSE IF captured.empty THEN "empty" ELSE "accepted")
<1> DEFINE r == Candidate(d, t)
           later == LaterOf(t, LaterOf(captured.at, entry.committedAt))
<1>1. captured \in Projections /\ captured.at \in Times /\ entry.committedAt \in Times
  BY CapturedIs DEF Projections
<1>2. later \in Times /\ entry.committedAt <= later
  BY <1>1, BoundsAssumption DEF LaterOf, Times
<1>3. r.completedAt = later /\ r.acquiredAt = captured.at /\ r.denied = d
  BY DEF Candidate
<1>4. r.outcome \in {"accepted", "empty", "rejected"}
  BY DEF Candidate
<1>5. ~d => r.outcome = (IF captured.status = "rejected" THEN "rejected"
                         ELSE IF captured.empty THEN "empty" ELSE "accepted")
  BY DEF Candidate
<1>6. r \in Results
  <2>1. r = [outcome |-> r.outcome, denied |-> d, acquiredAt |-> captured.at,
             completedAt |-> later]
    BY DEF Candidate
  <2> HIDE DEF r, later
  <2> QED BY <2>1, <1>1, <1>2, <1>4 DEF Results
<1>7. r # None BY <1>6, NoneAssumption
<1> QED BY <1>2, <1>3, <1>5, <1>6, <1>7

\* The stores with a new result.
LEMMA ResultStored ==
  ASSUME IInv, Captured, NEW t \in Times, NEW d \in BOOLEAN, result' = Candidate(d, t),
         UNCHANGED <<runtime, check, marker, prepared, attempt, entry, capture, captured,
                     receipt, requests, failure, provider, context>>,
         faults' \in 0..MaxFaults
  PROVE  TypeOK' /\ Stores' /\ result' # None
<1>1. /\ result' \in Results /\ result' # None
      /\ result'.denied = d /\ result'.acquiredAt = captured.at
      /\ entry.committedAt <= result'.completedAt
      /\ ~d => result'.outcome = (IF captured.status = "rejected" THEN "rejected"
                                  ELSE IF captured.empty THEN "empty" ELSE "accepted")
  BY CandidateIs
<1>2. TypeOK' BY <1>1 DEF IInv, TypeOK, Maybe
<1>3. /\ IsCommitted /\ captured # None /\ IsDispatched /\ failure = None /\ receipt = None
      /\ capture.state = "live"
  BY CapturedIs DEF Captured
<1>4. RecordsFollow' /\ CheckBinds'
  BY <1>3 DEF IInv, Stores, RecordsFollow, CheckBinds, RuntimeChecked, RuntimeEvidence
<1>5. AttemptTells' BY <1>3 DEF IInv, Stores, AttemptTells, IsDispatched
<1>6. EntryTells'
  BY <1>1, <1>3 DEF IInv, Stores, EntryTells, Settled, Destroyed, IsCommitted
<1>7. CaptureTells' BY DEF IInv, Stores, CaptureTells, Settled, Destroyed, Projection
<1>8. ResultTells' BY <1>1, <1>3 DEF ResultTells
<1>9. FailureTells' /\ ReceiptTells'
  BY <1>3 DEF IsDispatched, FailureTells, ReceiptTells
<1> QED BY <1>1, <1>2, <1>4, <1>5, <1>6, <1>7, <1>8, <1>9 DEF Stores

LEMMA CompleteKeeps ==
  ASSUME IInv, NEW t \in Times, Kept(Complete(t)), UNCHANGED provider PROVE IInv'
<1>1. Captured /\ Underway /\ At("complete")
  BY DEF IInv, Control, Ending, Kept, Complete, At
<1>2. UNCHANGED <<runtime, check, marker, prepared, attempt, entry, capture, captured,
                  receipt, requests, context, held, failure, provider>>
  BY DEF Kept, Complete
<1>3. CandidateReady BY <1>1, CapturedIs
<1>4. CASE result' = Candidate(FALSE, t) /\ Then("close")
  <2>1. faults' \in 0..MaxFaults BY <1>4, FailsCount DEF IInv, TypeOK, Then, Goto
  <2>2. TypeOK' /\ Stores' /\ result' # None BY <1>1, <1>2, <1>4, <2>1, ResultStored
  <2>3. Catchable' BY <1>1, <1>2, <2>2 DEF Underway, Catchable
  <2>4. Control'
    <3>1. CASE Goto("close")
      <4>1. Ending' BY <3>1, <2>2 DEF Ending, Goto
      <4> QED BY <3>1, <4>1, <2>3, AtEnd DEF Goto, EndSteps
    <3>2. CASE Fails
      <4>1. pc' = Rescue /\ Running BY <3>2, <1>1 DEF Fails, At, Running
      <4> QED BY <4>1, <1>2, <2>3, Rescued
    <3> QED BY <1>4, <3>1, <3>2 DEF Then
  <2>5. Providers' BY DEF IInv, Providers
  <2> QED BY <2>2, <2>4, <2>5 DEF IInv
<1>5. CASE Goto("deny") /\ UNCHANGED result
  <2>1. Pure /\ UNCHANGED faults BY <1>2, <1>5 DEF Pure, durable, Goto
  <2>2. faults' \in 0..MaxFaults /\ context' \in {"boot", "late", "live", "rescue"}
    BY <2>1, <1>2 DEF IInv, TypeOK
  <2>3. Captured'
    BY <1>1, <1>2, <1>5 DEF Captured, IsCommitted, IsDispatched
  <2>4. Ending' BY <1>5, <2>3 DEF Ending, Goto
  <2>5. Catchable' BY <2>3 DEF Captured, Catchable
  <2>6. Control' BY <1>5, <2>4, <2>5, AtEnd DEF Goto, EndSteps
  <2> QED BY <2>1, <2>2, <2>6, PureStep
<1> QED BY <1>3, <1>4, <1>5 DEF Kept, Complete

LEMMA DenyKeeps ==
  ASSUME IInv, NEW t \in Times, Kept(Deny(t)), UNCHANGED provider PROVE IInv'
<1>1. Captured /\ At("deny") BY DEF IInv, Control, Ending, Kept, Deny, At
<1>2. UNCHANGED <<runtime, check, marker, prepared, attempt, entry, capture, captured,
                  receipt, requests, context, held, failure, provider>>
  BY DEF Kept, Deny
<1>3. CandidateReady BY <1>1, CapturedIs
<1>4. result' = Candidate(TRUE, t) /\ Then("close") BY <1>3 DEF Kept, Deny
<1>5. faults' \in 0..MaxFaults BY <1>4, FailsCount DEF IInv, TypeOK, Then, Goto
<1>6. TypeOK' /\ Stores' /\ result' # None BY <1>1, <1>2, <1>4, <1>5, ResultStored
<1>7. Catchable' BY <1>1, <1>2, <1>6 DEF Captured, Catchable
<1>8. Control'
  <2>1. CASE Goto("close")
    <3>1. Ending' BY <2>1, <1>6 DEF Ending, Goto
    <3> QED BY <2>1, <3>1, <1>7, AtEnd DEF Goto, EndSteps
  <2>2. CASE Fails
    <3>1. pc' = Rescue /\ Running BY <2>2, <1>1 DEF Fails, At, Running
    <3> QED BY <3>1, <1>2, <1>7, Rescued
  <2> QED BY <1>4, <2>1, <2>2 DEF Then
<1>9. Providers' BY DEF IInv, Providers
<1> QED BY <1>6, <1>8, <1>9 DEF IInv

-----------------------------------------------------------------------------
(* finalizeResult.                                                          *)

\* What a run with a result has on record.
LEMMA ResultIs ==
  ASSUME IInv, result # None
  PROVE  /\ result \in Results /\ failure = None /\ prepared # None
         /\ RuntimeChecked /\ RuntimeEvidence
         /\ attempt # None /\ attempt \in Attempts
         /\ attempt.dispatchedAt # None /\ attempt.dispatchedAt <= capture.acquiredAt
         /\ Settled /\ entry \in Entries
         /\ entry.committedAt \in Times /\ entry.committedAt <= result.completedAt
         /\ capture # None /\ capture \in Captures /\ captured # None
         /\ captured = Projection /\ captured \in Projections
         /\ result.acquiredAt = captured.at /\ captured.at = capture.acquiredAt
<1>1. /\ captured # None /\ capture # None /\ RuntimeChecked /\ failure = None
      /\ result.acquiredAt = captured.at
      /\ entry.committedAt <= result.completedAt
      /\ captured = Projection /\ Settled
  BY DEF IInv, Stores, RecordsFollow, ResultTells, CaptureTells
<1>2. check # None /\ entry # None /\ attempt # None /\ prepared # None
  BY <1>1 DEF RuntimeChecked, IInv, Stores, RecordsFollow
<1>3. /\ result \in Results /\ attempt \in Attempts /\ entry \in Entries
      /\ capture \in Captures /\ captured \in Projections
  BY <1>1, <1>2 DEF IInv, TypeOK, Maybe
<1>4. RuntimeEvidence /\ attempt.dispatchedAt # None
  BY <1>1 DEF IInv, Stores, CheckBinds
<1>5. attempt.dispatchedAt <= capture.acquiredAt BY <1>1 DEF IInv, Stores, CaptureTells
<1>6. entry.committedAt # None BY <1>1, <1>2 DEF IInv, Stores, EntryTells
<1>7. entry.committedAt \in Times BY <1>3, <1>6 DEF Entries, Timestamps, Maybe
<1>8. captured.at = capture.acquiredAt BY <1>1 DEF Projection
<1> QED BY <1>1, <1>2, <1>3, <1>4, <1>5, <1>7, <1>8

LEMMA ResultHasEvidence ==
  ASSUME IInv, result # None
  PROVE  ResultBinds /\ AttemptOutcome \in {"succeeded", "empty", "failed"}
<1>1. /\ captured # None /\ captured.at = result.acquiredAt /\ entry # None
      /\ Settled /\ entry.committedAt <= result.completedAt
      /\ RuntimeEvidence /\ attempt # None /\ captured \in Projections /\ result \in Results
  BY ResultIs DEF Settled
<1>2. ~result.denied =>
        /\ captured.status = (IF result.outcome = "rejected" THEN "rejected" ELSE "accepted")
        /\ captured.status = "accepted" => captured.empty = (result.outcome = "empty")
  <2>1. ~result.denied =>
          result.outcome = (IF captured.status = "rejected" THEN "rejected"
                            ELSE IF captured.empty THEN "empty" ELSE "accepted")
    BY DEF IInv, Stores, ResultTells
  <2>2. captured.status \in {"accepted", "rejected"} /\ captured.empty \in BOOLEAN
    BY <1>1 DEF Projections
  <2> QED BY <2>1, <2>2
<1>3. \/ entry.state = "committed" /\ entry.committedAt <= result.completedAt
      \/ /\ entry.state = "removed" /\ entry.reason = "deleted"
         /\ result.completedAt <= entry.removedAt
  <2>1. CASE entry.state = "committed" BY <2>1, <1>1
  <2>2. CASE Destroyed
    <3>1. entry.removedAt = result.completedAt
      BY <2>2, <1>1 DEF IInv, Stores, EntryTells
    <3>2. result.completedAt \in Nat BY <1>1, BoundsAssumption DEF Results, Times
    <3> QED BY <2>2, <3>1, <3>2 DEF Destroyed
  <2> QED BY <2>1, <2>2, <1>1 DEF Settled
<1>4. CaptureEvidence BY <1>1, <1>2, <1>3 DEF CaptureEvidence
<1>5. AttemptOutcome \in {"succeeded", "empty", "failed"}
  BY DEF AttemptOutcome
<1> QED BY <1>1, <1>4, <1>5 DEF ResultBinds


LEMMA CloseAttemptKeeps ==
  ASSUME IInv, Kept(CloseAttempt), UNCHANGED provider PROVE IInv'
<1>1. result # None /\ At("close")
  BY DEF IInv, Control, Ending, Kept, CloseAttempt, At
<1>2. /\ prepared # None /\ attempt # None /\ attempt \in Attempts
      /\ attempt.dispatchedAt # None /\ attempt.dispatchedAt <= result.acquiredAt
      /\ result \in Results /\ failure = None /\ RuntimeEvidence
  BY <1>1, ResultIs
<1>3. Closable
  BY <1>1, <1>2 DEF Closable, IInv, Stores, AttemptTells
<1>4. /\ attempt' = Closed(result.completedAt, AttemptOutcome) /\ Then("destroy")
      /\ UNCHANGED <<runtime, check, marker, prepared, entry, capture, captured,
                     result, receipt, requests, context, held, failure, provider>>
  BY <1>1, <1>3, ResultHasEvidence DEF Kept, CloseAttempt
<1>5. AttemptOutcome \in {"succeeded", "empty", "failed"} /\ result.completedAt \in Times
  BY <1>1, <1>2, ResultHasEvidence DEF Results
<1>6. /\ attempt' \in Attempts
      /\ attempt'.state = "closed" /\ attempt'.closedAt = result.completedAt
      /\ attempt'.outcome = AttemptOutcome
      /\ attempt'.dispatchedAt = attempt.dispatchedAt
  BY <1>2, <1>4, <1>5, ClosedAs
<1>7. attempt' # None /\ attempt'.closedAt # None
  BY <1>5, <1>6, NoneAssumption DEF Times
<1>8. faults' \in 0..MaxFaults BY <1>4, FailsCount DEF IInv, TypeOK, Then, Goto
<1>9. TypeOK' BY <1>4, <1>6, <1>7, <1>8 DEF IInv, TypeOK, Maybe
<1>10. Stores'
  <2>1. RecordsFollow' /\ CheckBinds'
    BY <1>2, <1>4, <1>6, <1>7
    DEF IInv, Stores, RecordsFollow, CheckBinds, RuntimeChecked, RuntimeEvidence
  <2>2. AttemptTells'
    <3>1. AttemptOutcome' = AttemptOutcome BY <1>4 DEF AttemptOutcome
    <3> QED BY <1>1, <1>2, <1>4, <1>6, <1>7, <3>1 DEF IInv, Stores, AttemptTells
  <2>3. EntryTells' BY <1>1, <1>4 DEF IInv, Stores, EntryTells, Settled, Destroyed
  <2>4. CaptureTells'
    BY <1>4, <1>6 DEF IInv, Stores, CaptureTells, Settled, Destroyed, Projection
  <2>5. ResultTells' BY <1>4 DEF IInv, Stores, ResultTells
  <2>6. FailureTells' BY <1>1, <1>2, <1>4 DEF FailureTells
  <2>7. ReceiptTells'
    BY <1>1, <1>4, <1>6, <1>7 DEF IInv, Stores, ReceiptTells, ResultReceipt
  <2> QED BY <2>1, <2>2, <2>3, <2>4, <2>5, <2>6, <2>7 DEF Stores
<1>11. Catchable' BY <1>1, <1>2, <1>4 DEF Catchable
<1>12. Control'
  <2>1. CASE Goto("destroy")
    <3>1. Ending' BY <2>1, <1>1, <1>4, <1>6 DEF Ending, IsClosed, Goto
    <3> QED BY <2>1, <3>1, <1>11, AtEnd DEF Goto, EndSteps
  <2>2. CASE Fails
    <3>1. pc' = Rescue /\ Running BY <2>2, <1>1 DEF Fails, At, Running
    <3> QED BY <3>1, <1>4, <1>11, Rescued
  <2> QED BY <1>4, <2>1, <2>2 DEF Then
<1>13. Providers' BY DEF IInv, Providers
<1> QED BY <1>9, <1>10, <1>12, <1>13 DEF IInv

LEMMA DestroyKeeps ==
  ASSUME IInv, Kept(Destroy), UNCHANGED provider PROVE IInv'
<1>1. result # None /\ IsClosed /\ At("destroy")
  BY DEF IInv, Control, Ending, Kept, Destroy, At
<1>2. /\ prepared # None /\ attempt # None /\ result \in Results /\ failure = None
      /\ Settled /\ capture # None /\ capture \in Captures /\ captured = Projection
      /\ RuntimeChecked
  BY <1>1, ResultIs
<1>3. UNCHANGED <<runtime, check, marker, prepared, attempt, entry, captured,
                  result, receipt, requests, context, held, failure, provider>>
  BY DEF Kept, Destroy
<1>4. Catchable' BY <1>1, <1>2, <1>3 DEF Catchable
<1>5. CASE entry.state = "removed" /\ Goto("receipt") /\ UNCHANGED capture
  <2>1. Pure /\ UNCHANGED faults BY <1>3, <1>5 DEF Pure, durable, Goto
  <2>2. faults' \in 0..MaxFaults /\ context' \in {"boot", "late", "live", "rescue"}
    BY <2>1, <1>3 DEF IInv, TypeOK
  <2>3. Destroyed' /\ IsClosed' BY <1>1, <1>2, <1>3, <1>5 DEF Settled, Destroyed, IsClosed
  <2>4. Ending' BY <1>1, <1>3, <1>5, <2>3 DEF Ending, Goto
  <2>5. Control' BY <1>4, <1>5, <2>4, AtEnd DEF Goto, EndSteps
  <2> QED BY <2>1, <2>2, <2>5, PureStep
<1>6. CASE /\ entry.state # "removed" /\ Then("record")
           /\ capture' = IF capture.state = "deleted" THEN capture
                         ELSE Deleted(capture, result.completedAt)
  <2>1. IsCommitted /\ result.completedAt \in Times
    BY <1>2, <1>6 DEF Settled, Destroyed, IsCommitted, Results
  <2>2. capture.state = "deleted" => capture.deletedAt = result.completedAt
    BY <1>2 DEF IInv, Stores, EntryTells, Settled
  <2>3. /\ capture' \in Captures /\ capture'.state = "deleted"
        /\ capture'.deletedAt = result.completedAt
        /\ capture'.content = capture.content /\ capture'.acquiredAt = capture.acquiredAt
    <3>1. CASE capture.state = "deleted" BY <3>1, <2>2, <1>2, <1>6
    <3>2. CASE capture.state # "deleted" BY <3>2, <2>1, <1>2, <1>6, DeletedAt
    <3> QED BY <3>1, <3>2
  <2>4. capture' # None /\ capture'.deletedAt # None
    BY <2>1, <2>3, NoneAssumption DEF Times
  <2>5. faults' \in 0..MaxFaults BY <1>6, FailsCount DEF IInv, TypeOK, Then, Goto
  <2>6. TypeOK' BY <1>3, <2>3, <2>4, <2>5 DEF IInv, TypeOK, Maybe
  <2>7. Stores'
    <3>1. RecordsFollow' /\ CheckBinds'
      BY <1>2, <1>3, <2>4
      DEF IInv, Stores, RecordsFollow, CheckBinds, RuntimeChecked, RuntimeEvidence
    <3>2. AttemptTells' BY <1>3 DEF IInv, Stores, AttemptTells, AttemptOutcome
    <3>3. EntryTells'
      BY <1>1, <1>2, <1>3, <2>1, <2>3, <2>4
      DEF IInv, Stores, EntryTells, Settled, Destroyed, IsCommitted
    <3>4. CaptureTells'
      BY <1>2, <1>3, <2>3 DEF IInv, Stores, CaptureTells, Settled, Destroyed, Projection
    <3>5. ResultTells' BY <1>3 DEF IInv, Stores, ResultTells
    <3>6. FailureTells' BY <1>1, <1>2, <1>3 DEF FailureTells
    <3>7. ReceiptTells'
      BY <1>1, <1>3 DEF IInv, Stores, ReceiptTells, ResultReceipt
    <3> QED BY <3>1, <3>2, <3>3, <3>4, <3>5, <3>6, <3>7 DEF Stores
  <2>8. Control'
    <3>1. CASE Goto("record")
      <4>1. IsClosed' /\ IsCommitted' BY <1>1, <1>3, <2>1 DEF IsClosed, IsCommitted
      <4>2. Ending' BY <3>1, <1>1, <1>3, <2>3, <4>1 DEF Ending, Goto
      <4> QED BY <3>1, <4>2, <1>4, AtEnd DEF Goto, EndSteps
    <3>2. CASE Fails
      <4>1. pc' = Rescue /\ Running BY <3>2, <1>1 DEF Fails, At, Running
      <4> QED BY <4>1, <1>3, <1>4, Rescued
    <3> QED BY <1>6, <3>1, <3>2 DEF Then
  <2>9. Providers' BY DEF IInv, Providers
  <2> QED BY <2>6, <2>7, <2>8, <2>9 DEF IInv
<1> QED BY <1>5, <1>6 DEF Kept, Destroy, Deleted

\* A committed capture that is deleted was deleted for its result, after the commit; the
\* registry may say so.
LEMMA DeletionIs ==
  ASSUME IInv, IsCommitted, capture.state = "deleted"
  PROVE  /\ result # None /\ entry \in Entries
         /\ capture.deletedAt = result.completedAt /\ result.completedAt \in Times
         /\ entry.committedAt <= capture.deletedAt
<1>1. Settled BY DEF IsCommitted, Settled
<1>2. /\ result # None /\ capture.deletedAt = result.completedAt
  BY <1>1 DEF IInv, Stores, EntryTells, Settled
<1>3. /\ entry \in Entries /\ entry.committedAt <= result.completedAt
      /\ result \in Results
  BY <1>2, ResultIs
<1> QED BY <1>2, <1>3 DEF Results

LEMMA DeletionStored ==
  ASSUME IInv, IsCommitted, capture.state = "deleted", entry' = Deletion,
         UNCHANGED <<runtime, check, marker, prepared, attempt, capture, captured,
                     result, receipt, requests, failure, provider, context>>,
         faults' \in 0..MaxFaults
  PROVE  TypeOK' /\ Stores' /\ Destroyed' /\ entry' # None
<1> DEFINE d == capture.deletedAt
<1>1. /\ result # None /\ entry \in Entries /\ entry # None
      /\ d = result.completedAt /\ d \in Times
      /\ entry.committedAt <= result.completedAt
  BY DeletionIs DEF IsCommitted
<1>2. entry' = Removed(entry, d, "deleted") BY DEF Deletion, Removed
<1> HIDE DEF d
<1>3. /\ entry' \in Entries
      /\ entry'.state = "removed" /\ entry'.removedAt = d /\ entry'.reason = "deleted"
      /\ entry'.committedAt = entry.committedAt
  BY <1>1, <1>2, RemovedAs
<1>4. entry' # None /\ entry'.removedAt # None BY <1>1, <1>3, NoneAssumption DEF Times
<1>5. TypeOK' BY <1>3, <1>4 DEF IInv, TypeOK, Maybe
<1>6. /\ prepared # None /\ attempt # None /\ failure = None /\ Settled
      /\ capture # None /\ RuntimeChecked /\ captured = Projection
  BY <1>1, ResultIs
<1>7. RecordsFollow' /\ CheckBinds'
  BY <1>4, <1>6 DEF IInv, Stores, RecordsFollow, CheckBinds, RuntimeChecked, RuntimeEvidence
<1>8. AttemptTells' BY DEF IInv, Stores, AttemptTells, AttemptOutcome
<1>9. EntryTells'
  <2>1. /\ entry.committedAt # None /\ capture.acquiredAt <= entry.committedAt
    BY <1>1, <1>6 DEF IInv, Stores, EntryTells
  <2> QED BY <1>1, <1>3, <1>4, <1>6, <2>1 DEF EntryTells, Settled, Destroyed, d
<1>10. CaptureTells'
  BY <1>3, <1>4, <1>6 DEF IInv, Stores, CaptureTells, Settled, Destroyed, Projection
<1>11. ResultTells' BY <1>1, <1>3 DEF IInv, Stores, ResultTells
<1>12. FailureTells' BY <1>1, <1>6 DEF FailureTells
<1>13. ReceiptTells'
  BY <1>1, <1>3 DEF IInv, Stores, ReceiptTells, ResultReceipt
<1> QED BY <1>3, <1>4, <1>5, <1>7, <1>8, <1>9, <1>10, <1>11, <1>12, <1>13 DEF Stores, Destroyed

LEMMA RecordDeletionKeeps ==
  ASSUME IInv, Kept(RecordDeletion), UNCHANGED provider PROVE IInv'
<1>1. result # None /\ IsClosed /\ IsCommitted /\ capture.state = "deleted" /\ At("record")
  BY DEF IInv, Control, Ending, Kept, RecordDeletion, At
<1>2. /\ entry' = Deletion /\ Then("receipt")
      /\ UNCHANGED <<runtime, check, marker, prepared, attempt, capture, captured,
                     result, receipt, requests, context, held, failure, provider>>
  BY <1>1, DeletionIs DEF Kept, RecordDeletion
<1>3. faults' \in 0..MaxFaults BY <1>2, FailsCount DEF IInv, TypeOK, Then, Goto
<1>4. TypeOK' /\ Stores' /\ Destroyed' BY <1>1, <1>2, <1>3, DeletionStored
<1>5. Catchable' BY <1>1, <1>2, ResultIs DEF Catchable
<1>6. Control'
  <2>1. CASE Goto("receipt")
    <3>1. Ending' BY <2>1, <1>1, <1>2, <1>4 DEF Ending, IsClosed, Goto
    <3> QED BY <2>1, <3>1, <1>5, AtEnd DEF Goto, EndSteps
  <2>2. CASE Fails
    <3>1. pc' = Rescue /\ Running BY <2>2, <1>1 DEF Fails, At, Running
    <3> QED BY <3>1, <1>2, <1>5, Rescued
  <2> QED BY <1>2, <2>1, <2>2 DEF Then
<1>7. Providers' BY DEF IInv, Providers
<1> QED BY <1>4, <1>6, <1>7 DEF IInv

\* The receipt is written, or the failure after it: the run is over either way.
LEMMA Over ==
  ASSUME IInv, Running, Then(End), context' = context, context' = "live" => Catchable',
         prepared # None => prepared' # None, context # "boot"
  PROVE  Control'
<1>1. CASE Goto(End)
  <2>1. pc' \in {"ready", "spent"} BY <1>1 DEF Goto, End, IInv, TypeOK
  <2> QED BY <2>1, AtRest
<1>2. CASE Fails
  <2>1. pc' = Rescue BY <1>2 DEF Fails
  <2> QED BY <2>1, Rescued
<1> QED BY <1>1, <1>2 DEF Then

LEMMA OverAtBoot ==
  ASSUME IInv, Running, Then(End), context' = context,
         prepared # None => prepared' # None, context = "boot"
  PROVE  Control'
<1>1. CASE Goto(End) BY <1>1, AtAdmit DEF Goto, End
<1>2. CASE Fails
  <2>1. pc' = Rescue BY <1>2 DEF Fails
  <2> QED BY <2>1, Rescued
<1> QED BY <1>1, <1>2 DEF Then

LEMMA AppendReceiptKeeps ==
  ASSUME IInv, Kept(AppendReceipt), UNCHANGED provider PROVE IInv'
<1>1. result # None /\ IsClosed /\ Destroyed /\ At("receipt")
  BY DEF IInv, Control, Ending, Kept, AppendReceipt, At
<1>2. /\ prepared # None /\ attempt # None /\ result \in Results /\ failure = None
      /\ Settled /\ capture # None
  BY <1>1, ResultIs
<1>3. receipt \in {None, ResultReceipt} BY <1>1 DEF IInv, Stores, ReceiptTells
<1>4. /\ receipt' = ResultReceipt /\ Then(End)
      /\ UNCHANGED <<runtime, check, marker, prepared, attempt, entry, capture,
                     captured, result, requests, context, held, failure, provider>>
  BY <1>1, <1>3, ResultHasEvidence DEF Kept, AppendReceipt
<1>5. receipt' \in Receipts /\ receipt' # None
  <2>1. receipt' \in Receipts BY <1>2, <1>4 DEF ResultReceipt, Receipts, Results
  <2> QED BY <2>1, NoneAssumption
<1>6. faults' \in 0..MaxFaults BY <1>4, FailsCount DEF IInv, TypeOK, Then, Goto
<1>7. TypeOK' BY <1>4, <1>5, <1>6 DEF IInv, TypeOK, Maybe
<1>8. Stores'
  <2>1. RecordsFollow' /\ CheckBinds'
    BY <1>2, <1>4 DEF IInv, Stores, RecordsFollow, CheckBinds, RuntimeChecked, RuntimeEvidence
  <2>2. AttemptTells' BY <1>4 DEF IInv, Stores, AttemptTells, AttemptOutcome
  <2>3. EntryTells' BY <1>4 DEF IInv, Stores, EntryTells, Settled, Destroyed
  <2>4. CaptureTells' BY <1>4 DEF IInv, Stores, CaptureTells, Settled, Destroyed, Projection
  <2>5. ResultTells' BY <1>4 DEF IInv, Stores, ResultTells
  <2>6. FailureTells' BY <1>1, <1>2, <1>4 DEF FailureTells
  <2>7. ReceiptTells'
    BY <1>1, <1>2, <1>4 DEF ReceiptTells, ResultReceipt, IsClosed, Destroyed
  <2> QED BY <2>1, <2>2, <2>3, <2>4, <2>5, <2>6, <2>7 DEF Stores
<1>9. Catchable' BY <1>1, <1>2, <1>4 DEF Catchable
<1>10. Control'
  <2>1. Running BY <1>1 DEF At, Running
  <2> QED BY <2>1, <1>4, <1>9, Over, OverAtBoot
<1>11. Providers' BY DEF IInv, Providers
<1> QED BY <1>7, <1>8, <1>10, <1>11 DEF IInv

-----------------------------------------------------------------------------
(* terminalizeFailure of the X canary.                                      *)

LEMMA AtFailing ==
  ASSUME pc' \in {"abort", "remove", "fail", "tidy", "mend", "sweep", "shut", "drop"},
         FailEnding', context' # "live",
         pc' \in {"mend", "sweep"} => held'.recoveredAt \in Times
  PROVE  Control'
<1>1. Starting' /\ Receiving' BY DEF Starting, Receiving
<1>2. Ending' BY DEF Ending
<1>3. Recoveries' BY DEF Recoveries, Places
<1> QED BY <1>1, <1>2, <1>3 DEF Control

\* What a failing run has on record, of an attempt or of none.
LEMMA FailingIs ==
  ASSUME IInv, Failing
  PROVE  /\ prepared \in Tickets /\ prepared.at \in Times /\ captured = None
         /\ entry # None => entry \in Entries /\ ~Settled
         /\ attempt # None =>
              /\ attempt \in Attempts
              /\ attempt.state = "closed" => attempt.closedAt \in Times
              /\ attempt.dispatchedAt # None => attempt.dispatchedAt \in Times
<1>1. prepared \in Tickets /\ prepared.at \in Times
  BY DEF IInv, TypeOK, Maybe, Failing, Recovering, Tickets
<1>2. ~Settled
  BY DEF IInv, Stores, EntryTells, Settled, Failing, NotCommitted
<1>3. captured = None BY <1>2 DEF IInv, Stores, CaptureTells
<1>4. entry # None => entry \in Entries BY DEF IInv, TypeOK, Maybe
<1>5. attempt # None =>
        /\ attempt \in Attempts
        /\ attempt.state = "closed" => attempt.closedAt # None
  BY DEF IInv, TypeOK, Maybe
<1>6. attempt # None =>
        /\ attempt.state = "closed" => attempt.closedAt \in Times
        /\ attempt.dispatchedAt # None => attempt.dispatchedAt \in Times
  BY <1>5 DEF Attempts, Timestamps, Maybe
<1> QED BY <1>1, <1>2, <1>3, <1>4, <1>5, <1>6

LEMMA CloseFailedKeeps ==
  ASSUME IInv, provider = "x", Kept(CloseFailed), UNCHANGED provider PROVE IInv'
<1>1. Failing /\ NoReceipt /\ At("abort")
  BY DEF IInv, Control, FailEnding, Kept, CloseFailed, At
<1>2. /\ attempt' = IF attempt = None \/ attempt.state = "closed" THEN attempt
                    ELSE IF attempt.state = "reserved" THEN Closed(prepared.at, "aborted")
                    ELSE Closed(attempt.dispatchedAt, "failed")
      /\ UNCHANGED <<runtime, check, marker, prepared, entry, capture, captured,
                     result, receipt, requests, context, held, failure, provider>>
  BY DEF Kept, CloseFailed
<1>3. result = None /\ prepared # None /\ context # "live" BY <1>1 DEF Failing, Recovering
<1>4. faults' \in 0..MaxFaults
  BY FailsCount DEF IInv, TypeOK, Kept, CloseFailed, Then, Goto
<1>5. /\ IsClosed' /\ (attempt = None <=> attempt' = None)
      /\ attempt # None => attempt'.dispatchedAt = attempt.dispatchedAt
      /\ AttemptTells' /\ TypeOK'
  <2>1. CASE attempt = None \/ attempt.state = "closed"
    <3>1. UNCHANGED attempt BY <1>2, <2>1
    <3>2. AttemptTells' BY <1>2, <3>1 DEF IInv, Stores, AttemptTells, AttemptOutcome
    <3>3. TypeOK' BY <1>2, <1>4, <3>1 DEF IInv, TypeOK
    <3> QED BY <2>1, <3>1, <3>2, <3>3 DEF IsClosed
  <2>2. CASE attempt # None /\ attempt.state = "reserved"
    <3>1. attempt' = Closed(prepared.at, "aborted") BY <1>2, <2>2
    <3>2. attempt \in Attempts /\ prepared.at \in Times BY <1>1, <2>2, FailingIs
    <3>3. /\ attempt' \in Attempts
          /\ attempt'.state = "closed" /\ attempt'.closedAt = prepared.at
          /\ attempt'.outcome = "aborted" /\ attempt'.dispatchedAt = attempt.dispatchedAt
      BY <3>1, <3>2, ClosedAs
    <3>4. attempt' # None /\ attempt'.closedAt # None
      BY <3>2, <3>3, NoneAssumption DEF Times
    <3>5. TypeOK' BY <1>2, <1>4, <3>3, <3>4 DEF IInv, TypeOK, Maybe
    <3>6. AttemptTells'
      BY <1>2, <1>3, <2>2, <3>3, <3>4 DEF IInv, Stores, AttemptTells
    <3> QED BY <2>2, <3>3, <3>4, <3>5, <3>6 DEF IsClosed
  <2>3. CASE attempt # None /\ attempt.state = "dispatched"
    <3>1. attempt' = Closed(attempt.dispatchedAt, "failed") BY <1>2, <2>3
    <3>2. /\ attempt \in Attempts /\ attempt.dispatchedAt # None
          /\ attempt.dispatchedAt \in Times
      BY <1>1, <2>3, FailingIs DEF IInv, Stores, AttemptTells
    <3>3. /\ attempt' \in Attempts
          /\ attempt'.state = "closed" /\ attempt'.closedAt = attempt.dispatchedAt
          /\ attempt'.outcome = "failed" /\ attempt'.dispatchedAt = attempt.dispatchedAt
      BY <3>1, <3>2, ClosedAs
    <3>4. attempt' # None BY <3>3, NoneAssumption
    <3>5. TypeOK' BY <1>2, <1>4, <3>2, <3>3, <3>4 DEF IInv, TypeOK, Maybe
    <3>6. AttemptTells'
      BY <1>2, <1>3, <2>3, <3>2, <3>3, <3>4 DEF IInv, Stores, AttemptTells
    <3> QED BY <2>3, <3>3, <3>4, <3>5, <3>6 DEF IsClosed
  <2> QED BY <2>1, <2>2, <2>3 DEF IInv, TypeOK, Maybe, Attempts
<1>6. Stores'
  <2>1. RecordsFollow'
    BY <1>2, <1>5 DEF IInv, Stores, RecordsFollow, RuntimeChecked
  <2>2. CheckBinds'
    <3>1. RuntimeChecked => attempt # None BY DEF RuntimeChecked, IInv, Stores, RecordsFollow
    <3> QED BY <1>2, <1>5, <3>1 DEF IInv, Stores, CheckBinds, RuntimeChecked, RuntimeEvidence
  <2>3. EntryTells'
    BY <1>1, <1>2 DEF Failing, NotCommitted, IInv, Stores, EntryTells, Settled, Destroyed
  <2>4. CaptureTells'
    <3>1. capture # None => attempt # None
      BY DEF RuntimeChecked, IInv, Stores, RecordsFollow
    <3> QED BY <1>2, <1>5, <3>1
        DEF IInv, Stores, CaptureTells, Settled, Destroyed, Projection
  <2>5. ResultTells' /\ ReceiptTells' /\ FailureTells'
    BY <1>1, <1>2, <1>3 DEF NoReceipt, ResultTells, ReceiptTells, FailureTells
  <2> QED BY <1>5, <2>1, <2>2, <2>3, <2>4, <2>5 DEF Stores
<1>7. Control'
  <2>1. CASE Goto("remove")
    <3>1. Failing' /\ NoReceipt'
      BY <1>1, <1>2 DEF Failing, NoReceipt, Recovering, NotCommitted
    <3>2. FailEnding' BY <2>1, <3>1, <1>5 DEF FailEnding, Goto
    <3> QED BY <2>1, <3>2, <1>2, <1>3, AtFailing DEF Goto
  <2>2. CASE Fails
    <3>1. pc' = Rescue /\ Running BY <2>2, <1>1 DEF Fails, At, Running
    <3> QED BY <3>1, <1>2, <1>3, Rescued
  <2> QED BY <2>1, <2>2 DEF Kept, CloseFailed, Then
<1>8. Providers' BY DEF IInv, Providers
<1> QED BY <1>5, <1>6, <1>7, <1>8 DEF IInv

\* A pending entry is removed, whoever finds it.
LEMMA PendingRemoved ==
  ASSUME IInv, IsPending, NEW t \in Times,
         entry' = [entry EXCEPT !.state = "removed", !.reason = "pending", !.removedAt = t],
         UNCHANGED <<runtime, check, marker, prepared, attempt, capture, captured,
                     result, receipt, requests, failure, provider>>,
         context' \in {"boot", "late", "live", "rescue"}, faults' \in 0..MaxFaults
  PROVE  TypeOK' /\ Stores' /\ NotCommitted' /\ NotPending' /\ entry' # None
<1>1. entry \in Entries /\ entry # None /\ entry.state = "pending"
  BY DEF IInv, TypeOK, Maybe, IsPending
<1>2. entry' = Removed(entry, t, "pending") BY <1>1, RemovedToo
<1>3. /\ entry' \in Entries
      /\ entry'.state = "removed" /\ entry'.removedAt = t /\ entry'.reason = "pending"
  BY <1>1, <1>2, RemovedAs
<1>4. entry' # None /\ entry'.removedAt # None BY <1>3, NoneAssumption DEF Times
<1>5. TypeOK' BY <1>3, <1>4 DEF IInv, TypeOK, Maybe
<1>6. captured = None /\ result = None /\ receipt = None
  BY <1>1 DEF IInv, Stores, RecordsFollow, CaptureTells, Settled, Destroyed, ReceiptTells
<1>7. attempt # None BY <1>1 DEF IInv, Stores, RecordsFollow
<1>8. RecordsFollow' /\ CheckBinds'
  BY <1>4, <1>7 DEF IInv, Stores, RecordsFollow, CheckBinds, RuntimeChecked, RuntimeEvidence
<1>9. AttemptTells' BY DEF IInv, Stores, AttemptTells, AttemptOutcome
<1>10. EntryTells' BY <1>3 DEF EntryTells, Settled, Destroyed
<1>11. CaptureTells' BY <1>6 DEF IInv, Stores, CaptureTells
<1>12. ResultTells' /\ ReceiptTells' BY <1>6 DEF ResultTells, ReceiptTells
<1>13. FailureTells'
  BY <1>1, <1>3 DEF IInv, Stores, FailureTells, FailureBinds, OpenSeaRuntimeChecked,
     RuntimeChecked, OpenSeaRuntimeEvidence, RuntimeEvidence
<1> QED BY <1>3, <1>4, <1>5, <1>8, <1>9, <1>10, <1>11, <1>12, <1>13
    DEF Stores, NotCommitted, NotPending

LEMMA FailedAtIs ==
  ASSUME IInv, Failing, IsClosed
  PROVE  FailedAt \in Times
BY FailingIs DEF IsClosed, FailedAt

LEMMA RemovePendingKeeps ==
  ASSUME IInv, provider = "x", Kept(RemovePending), UNCHANGED provider PROVE IInv'
<1>1. Failing /\ NoReceipt /\ IsClosed /\ At("remove")
  BY DEF IInv, Control, FailEnding, Kept, RemovePending, At
<1>2. UNCHANGED <<runtime, check, marker, prepared, attempt, capture, captured,
                  result, receipt, requests, context, held, failure, provider>>
  BY DEF Kept, RemovePending
<1>3. prepared # None /\ context # "live" /\ context' \in {"boot", "late", "live", "rescue"}
  BY <1>1, <1>2 DEF Failing, Recovering, IInv, TypeOK
<1>4. faults' \in 0..MaxFaults
  BY FailsCount DEF IInv, TypeOK, Kept, RemovePending, Then, Goto
<1>5. TypeOK' /\ Stores' /\ NotCommitted' /\ NotPending'
  <2>1. CASE IsPending
    <3> DEFINE t == LaterOf(FailedAt, entry.begunAt)
    <3>1. entry' = [entry EXCEPT !.state = "removed", !.reason = "pending", !.removedAt = t]
      BY <2>1 DEF Kept, RemovePending, IsPending
    <3>2. t \in Times
      <4>1. entry.begunAt \in Times BY <2>1 DEF IsPending, IInv, TypeOK, Maybe, Entries
      <4> QED BY <4>1, <1>1, FailedAtIs DEF LaterOf
    <3> HIDE DEF t
    <3> QED BY <2>1, <3>1, <3>2, <1>2, <1>3, <1>4, PendingRemoved
  <2>2. CASE ~IsPending
    <3>1. UNCHANGED entry BY <2>2 DEF Kept, RemovePending, IsPending
    <3>2. TypeOK' BY <3>1, <1>2, <1>4 DEF IInv, TypeOK
    <3>3. Stores' BY <3>1, <1>2, StoresFrame DEF IInv, kept
    <3>4. NotCommitted' /\ NotPending'
      BY <3>1, <2>2, <1>1 DEF Failing, NotCommitted, NotPending, IsPending
    <3> QED BY <3>2, <3>3, <3>4
  <2> QED BY <2>1, <2>2
<1>6. Control'
  <2>1. CASE Goto("fail")
    <3>1. Failing' /\ NoReceipt' /\ IsClosed'
      BY <1>1, <1>2, <1>5 DEF Failing, NoReceipt, Recovering, IsClosed
    <3>2. FailEnding' BY <2>1, <3>1, <1>2, <1>5 DEF FailEnding, Goto
    <3> QED BY <2>1, <3>2, <1>2, <1>3, AtFailing DEF Goto
  <2>2. CASE Fails
    <3>1. pc' = Rescue /\ Running BY <2>2, <1>1 DEF Fails, At, Running
    <3> QED BY <3>1, <1>2, <1>3, Rescued
  <2> QED BY <2>1, <2>2 DEF Kept, RemovePending, Then
<1>7. Providers' BY DEF IInv, Providers
<1> QED BY <1>5, <1>6, <1>7 DEF IInv

LEMMA AppendFailureKeeps ==
  ASSUME IInv, provider = "x", Kept(AppendFailure), UNCHANGED provider PROVE IInv'
<1>1. Failing /\ NoReceipt /\ IsClosed /\ NotPending /\ At("fail")
  BY DEF IInv, Control, FailEnding, Kept, AppendFailure, At
<1>2. /\ receipt' = [outcome |-> "failed", completedAt |-> FailedAt,
                     runtime |-> RuntimeChecked, capture |-> FALSE]
      /\ Then(End)
      /\ UNCHANGED <<runtime, check, marker, prepared, attempt, entry, capture, captured,
                     result, requests, context, held, failure, provider>>
  BY DEF Kept, AppendFailure
<1>3. /\ prepared # None /\ context # "live" /\ result = None /\ NotCommitted
      /\ failure = None
  BY <1>1 DEF Failing, Recovering, NoReceipt
<1>4. receipt' \in Receipts /\ receipt' # None
  <2>1. FailedAt \in Times BY <1>1, FailedAtIs
  <2>2. RuntimeChecked \in BOOLEAN BY DEF RuntimeChecked
  <2>3. receipt' \in Receipts BY <1>2, <2>1, <2>2 DEF Receipts
  <2> QED BY <2>3, NoneAssumption
<1>5. faults' \in 0..MaxFaults BY <1>2, FailsCount DEF IInv, TypeOK, Then, Goto
<1>6. TypeOK' BY <1>2, <1>4, <1>5 DEF IInv, TypeOK, Maybe
<1>7. Stores'
  <2>1. RecordsFollow' /\ CheckBinds'
    BY <1>2, <1>3 DEF IInv, Stores, RecordsFollow, CheckBinds, RuntimeChecked, RuntimeEvidence
  <2>2. AttemptTells' BY <1>2 DEF IInv, Stores, AttemptTells, AttemptOutcome
  <2>3. EntryTells' BY <1>2 DEF IInv, Stores, EntryTells, Settled, Destroyed
  <2>4. CaptureTells' BY <1>2 DEF IInv, Stores, CaptureTells, Settled, Destroyed, Projection
  <2>5. ResultTells' /\ FailureTells' BY <1>2, <1>3 DEF ResultTells, FailureTells
  <2>6. ReceiptTells'
    <3>1. FailedAt' = FailedAt /\ RuntimeChecked' = RuntimeChecked
      BY <1>2 DEF FailedAt, RuntimeChecked
    <3>2. entry # None => entry.state = "removed"
      BY <1>1, <1>3 DEF NotCommitted, NotPending, IInv, TypeOK, Maybe, Entries
    <3> QED BY <1>1, <1>2, <1>3, <3>1, <3>2 DEF ReceiptTells, IsClosed
  <2> QED BY <2>1, <2>2, <2>3, <2>4, <2>5, <2>6 DEF Stores
<1>8. Control'
  <2>1. Running BY <1>1 DEF At, Running
  <2> QED BY <2>1, <1>2, <1>3, Over, OverAtBoot
<1>9. Providers' BY DEF IInv, Providers
<1> QED BY <1>6, <1>7, <1>8, <1>9 DEF IInv

-----------------------------------------------------------------------------
(* Recovery.                                                                *)

LEMMA AtRecovery ==
  ASSUME pc' \in {"storage", "repair", "reconcile", "recover", "resume"}, Recovering',
         pc' \in {"repair", "reconcile"} => held'.recoveredAt \in Times,
         pc' = "resume" => /\ IsCommitted' /\ IsDispatched'
                           /\ result' = None /\ failure' = None /\ receipt' = None
  PROVE  Control'
<1>1. Starting' /\ Receiving' BY DEF Starting, Receiving
<1>2. Ending' /\ FailEnding' BY DEF Ending, FailEnding
<1>3. Recoveries' BY DEF Recoveries, Recovering, Places
<1> QED BY <1>1, <1>2, <1>3 DEF Control

LEMMA CaughtKeeps ==
  ASSUME IInv, Kept(Caught), UNCHANGED provider PROVE IInv'
<1>1. prepared # None /\ Catchable /\ At("caught")
  BY DEF IInv, Control, Ending, Kept, Caught, At
<1>2. Pure /\ context' = "rescue" /\ UNCHANGED <<faults, held>>
  BY DEF Kept, Caught, Pure, Goto
<1>3. faults' \in 0..MaxFaults BY <1>2 DEF IInv, TypeOK
<1>4. Recovering' BY <1>1, <1>2 DEF Recovering, Pure, durable
<1>5. CASE Goto("recover")
  <2>1. Control' BY <1>4, <1>5, AtRecovery DEF Goto
  <2> QED BY <1>2, <1>3, <2>1, PureStep
<1>6. CASE Goto("abort") /\ result = None /\ NotCommitted
  <2>1. Failing' /\ NoReceipt'
    BY <1>1, <1>2, <1>4, <1>6 DEF Failing, NoReceipt, NotCommitted, Catchable, Pure, durable
  <2>2. FailEnding' BY <1>6, <2>1 DEF FailEnding, Goto
  <2>3. Control' BY <1>2, <1>6, <2>2, AtFailing DEF Goto
  <2> QED BY <1>2, <1>3, <2>3, PureStep
<1> QED BY <1>5, <1>6 DEF Kept, Caught, NotCommitted

\* recoverCaptureStorage: what each of its three steps leaves in the stores, wherever
\* it is called from.
LEMMA InterruptedStored ==
  ASSUME IInv, NEW here, NEW next, NEW t \in Times, Kept(RemoveInterrupted(here, next, t)),
         UNCHANGED provider
  PROVE  /\ TypeOK' /\ Stores' /\ Providers'
         /\ Goto(next) \/ pc' = Rescue
         /\ held'.recoveredAt \in Times
         /\ NotCommitted => NotCommitted'
<1>1. /\ held' = [recoveredAt |-> t]
      /\ UNCHANGED <<runtime, check, marker, prepared, attempt, capture, captured,
                     result, receipt, requests, context, failure, provider>>
  BY DEF Kept, RemoveInterrupted
<1>2. held'.recoveredAt \in Times BY <1>1
<1>3. Providers' BY DEF IInv, Providers
<1>4. CASE /\ IsPending /\ Then(next)
           /\ entry' = [entry EXCEPT !.state = "removed", !.removedAt = t, !.reason = "pending"]
  <2>1. entry \in Entries BY <1>4 DEF IsPending, IInv, TypeOK, Maybe
  <2>2. entry' = [entry EXCEPT !.state = "removed", !.reason = "pending", !.removedAt = t]
    <3>1. entry' = Removed(entry, t, "pending") BY <1>4 DEF Removed
    <3> QED BY <2>1, <3>1, RemovedToo
  <2>3. faults' \in 0..MaxFaults BY <1>4, FailsCount DEF IInv, TypeOK, Then, Goto
  <2>4. context' \in {"boot", "late", "live", "rescue"} BY <1>1 DEF IInv, TypeOK
  <2>5. TypeOK' /\ Stores' /\ NotCommitted'
    BY <1>1, <1>4, <2>2, <2>3, <2>4, PendingRemoved
  <2>6. Goto(next) \/ pc' = Rescue BY <1>4 DEF Then, Fails
  <2> QED BY <1>2, <1>3, <2>5, <2>6
<1>5. CASE UNCHANGED <<faults, entry>> /\ (Goto(next) \/ pc' = Rescue)
  <2>1. TypeOK' BY <1>1, <1>5 DEF IInv, TypeOK
  <2>2. Stores' BY <1>1, <1>5, StoresFrame DEF IInv, kept
  <2>3. NotCommitted => NotCommitted' BY <1>5 DEF NotCommitted
  <2> QED BY <1>2, <1>3, <1>5, <2>1, <2>2, <2>3
<1> QED BY <1>4, <1>5 DEF Kept, RemoveInterrupted, IsPending, Goto

LEMMA DeletionRepaired ==
  ASSUME IInv, NEW here, NEW next, Kept(RepairDeletion(here, next)), UNCHANGED provider
  PROVE  /\ TypeOK' /\ Stores' /\ Providers'
         /\ Goto(next) \/ pc' = Rescue
         /\ NotCommitted => NotCommitted'
<1>1. UNCHANGED <<runtime, check, marker, prepared, attempt, capture, captured,
                  result, receipt, requests, context, held, failure, provider>>
  BY DEF Kept, RepairDeletion
<1>2. Providers' BY DEF IInv, Providers
<1>3. CASE IsCommitted /\ capture.state = "deleted"
  <2>1. entry' = Deletion /\ Then(next)
    BY <1>3, DeletionIs DEF Kept, RepairDeletion, IsCommitted
  <2>2. faults' \in 0..MaxFaults BY <2>1, FailsCount DEF IInv, TypeOK, Then, Goto
  <2>3. TypeOK' /\ Stores' /\ Destroyed' BY <1>1, <1>3, <2>1, <2>2, DeletionStored
  <2>4. NotCommitted' BY <2>3 DEF NotCommitted, Destroyed
  <2>5. Goto(next) \/ pc' = Rescue BY <2>1 DEF Then, Fails
  <2> QED BY <1>2, <2>3, <2>4, <2>5
<1>4. CASE ~(IsCommitted /\ capture.state = "deleted")
  <2>1. Goto(next) /\ UNCHANGED entry BY <1>4 DEF Kept, RepairDeletion, IsCommitted
  <2>2. TypeOK' BY <1>1, <2>1 DEF IInv, TypeOK, Goto
  <2>3. Stores' BY <1>1, <2>1, StoresFrame DEF IInv, kept
  <2>4. NotCommitted => NotCommitted' BY <2>1 DEF NotCommitted
  <2> QED BY <1>2, <2>1, <2>2, <2>3, <2>4
<1> QED BY <1>3, <1>4

LEMMA OrphanReconciled ==
  ASSUME IInv, NEW here, NEW next, Kept(ReconcileOrphan(here, next)), UNCHANGED provider,
         held.recoveredAt \in Times
  PROVE  /\ TypeOK' /\ Stores' /\ Providers'
         /\ Goto(next) \/ pc' = Rescue
         /\ NotCommitted => NotLive' \/ pc' = Rescue
<1>1. UNCHANGED <<runtime, check, marker, prepared, attempt, entry, captured,
                  result, receipt, requests, context, held, failure, provider>>
  BY DEF Kept, ReconcileOrphan
<1>2. Providers' BY DEF IInv, Providers
<1>3. CASE /\ capture # None /\ capture.state = "live" /\ NotCommitted
           /\ capture' = [capture EXCEPT !.state = "deleted", !.deletedAt = held.recoveredAt]
           /\ Then(next)
  <2> DEFINE t == held.recoveredAt
  <2>1. capture \in Captures BY <1>3 DEF IInv, TypeOK, Maybe
  <2>2. capture' = Deleted(capture, t) BY <1>3 DEF Deleted
  <2>3. t \in Times OBVIOUS
  <2> HIDE DEF t
  <2>4. /\ capture' \in Captures /\ capture'.state = "deleted" /\ capture'.deletedAt = t
        /\ capture'.content = capture.content /\ capture'.acquiredAt = capture.acquiredAt
    BY <2>1, <2>2, <2>3, DeletedAt
  <2>5. capture' # None /\ capture'.deletedAt # None
    BY <2>3, <2>4, NoneAssumption DEF Times
  <2>6. faults' \in 0..MaxFaults BY <1>3, FailsCount DEF IInv, TypeOK, Then, Goto
  <2>7. TypeOK' BY <1>1, <2>4, <2>5, <2>6 DEF IInv, TypeOK, Maybe
  <2>8. ~Settled /\ entry # None
    <3>1. entry # None
      BY <1>3 DEF IInv, Stores, RecordsFollow, RuntimeChecked
    <3>2. ~Destroyed BY <1>3, <3>1 DEF IInv, Stores, EntryTells
    <3> QED BY <1>3, <3>1, <3>2 DEF Settled, NotCommitted
  <2>9. captured = None BY <2>8 DEF IInv, Stores, CaptureTells
  <2>10. result = None BY <2>9 DEF IInv, Stores, RecordsFollow
  <2>11. Stores'
    <3>1. RecordsFollow' /\ CheckBinds'
      BY <1>1, <1>3, <2>9
      DEF IInv, Stores, RecordsFollow, CheckBinds, RuntimeChecked, RuntimeEvidence
    <3>2. AttemptTells' BY <1>1 DEF IInv, Stores, AttemptTells, AttemptOutcome
    <3>3. EntryTells'
      BY <1>1, <2>8 DEF IInv, Stores, EntryTells, Settled, Destroyed
    <3>4. CaptureTells' BY <1>1, <1>3, <2>4, <2>9 DEF IInv, Stores, CaptureTells
    <3>5. ResultTells' BY <1>1, <2>10 DEF ResultTells
    <3>6. FailureTells'
      BY <1>1 DEF IInv, Stores, FailureTells, FailureBinds, OpenSeaRuntimeChecked,
         RuntimeChecked, OpenSeaRuntimeEvidence, RuntimeEvidence
    <3>7. ReceiptTells'
      BY <1>1, <2>4, <2>10 DEF IInv, Stores, ReceiptTells, FailedAt, RuntimeChecked
    <3> QED BY <3>1, <3>2, <3>3, <3>4, <3>5, <3>6, <3>7 DEF Stores
  <2>12. NotLive' BY <2>4 DEF NotLive
  <2>13. Goto(next) \/ pc' = Rescue BY <1>3 DEF Then, Fails
  <2> QED BY <1>2, <2>7, <2>11, <2>12, <2>13
<1>4. CASE /\ UNCHANGED <<faults, capture>>
           /\ \/ pc' = Rescue
              \/ Goto(next) /\ ~(capture # None /\ capture.state = "live" /\ NotCommitted)
  <2>1. TypeOK' BY <1>1, <1>4 DEF IInv, TypeOK
  <2>2. Stores' BY <1>1, <1>4, StoresFrame DEF IInv, kept
  <2>3. NotCommitted => NotLive' \/ pc' = Rescue
    BY <1>4 DEF NotCommitted, NotLive
  <2> QED BY <1>2, <1>4, <2>1, <2>2, <2>3
<1> QED BY <1>3, <1>4 DEF Kept, ReconcileOrphan, NotCommitted, Goto

\* The recovery of the storage at startup and before a late recovery.
LEMMA StorageKeeps ==
  ASSUME IInv, NEW t \in Times, OpenSeaStorage(t), UNCHANGED provider PROVE IInv'
<1>1. CASE Kept(StoragePending(t))
  <2>1. Recovering /\ Running
    BY <1>1 DEF IInv, Control, Recoveries, Kept, StoragePending, RemoveInterrupted, At, Running
  <2>2. UNCHANGED <<context, prepared>> BY <1>1 DEF Kept, StoragePending, RemoveInterrupted
  <2>3. /\ TypeOK' /\ Stores' /\ Providers'
        /\ Goto("repair") \/ pc' = Rescue
        /\ held'.recoveredAt \in Times
    BY <1>1, InterruptedStored DEF StoragePending
  <2>4. Control'
    <3>1. CASE Goto("repair") BY <3>1, <2>1, <2>2, <2>3, AtRecovery DEF Goto, Recovering
    <3>2. CASE pc' = Rescue BY <3>2, <2>1, <2>2, Rescued DEF Recovering
    <3> QED BY <2>3, <3>1, <3>2
  <2> QED BY <2>3, <2>4 DEF IInv
<1>2. CASE Kept(StorageRepair)
  <2>1. Recovering /\ Running /\ held.recoveredAt \in Times
    BY <1>2 DEF IInv, Control, Recoveries, Kept, StorageRepair, RepairDeletion, At, Running
  <2>2. UNCHANGED <<context, prepared, held>> BY <1>2 DEF Kept, StorageRepair, RepairDeletion
  <2>3. /\ TypeOK' /\ Stores' /\ Providers'
        /\ Goto("reconcile") \/ pc' = Rescue
    BY <1>2, DeletionRepaired DEF StorageRepair
  <2>4. Control'
    <3>1. CASE Goto("reconcile") BY <3>1, <2>1, <2>2, AtRecovery DEF Goto, Recovering
    <3>2. CASE pc' = Rescue BY <3>2, <2>1, <2>2, Rescued DEF Recovering
    <3> QED BY <2>3, <3>1, <3>2
  <2> QED BY <2>3, <2>4 DEF IInv
<1>3. CASE Kept(StorageReconcile)
  <2>1. Recovering /\ Running /\ held.recoveredAt \in Times
    BY <1>3 DEF IInv, Control, Recoveries, Kept, StorageReconcile, ReconcileOrphan, At, Running
  <2>2. UNCHANGED <<context, prepared, held>>
    BY <1>3 DEF Kept, StorageReconcile, ReconcileOrphan
  <2>3. /\ TypeOK' /\ Stores' /\ Providers'
        /\ Goto("recover") \/ pc' = Rescue
    BY <1>3, <2>1, OrphanReconciled DEF StorageReconcile
  <2>4. Control'
    <3>1. CASE Goto("recover") BY <3>1, <2>1, <2>2, AtRecovery DEF Goto, Recovering
    <3>2. CASE pc' = Rescue BY <3>2, <2>1, <2>2, Rescued DEF Recovering
    <3> QED BY <2>3, <3>1, <3>2
  <2> QED BY <2>3, <2>4 DEF IInv
<1> QED BY <1>1, <1>2, <1>3 DEF OpenSeaStorage

-----------------------------------------------------------------------------
(* recoverPreparedCanary, for each of the three.                            *)

LEMMA CommittedIs ==
  ASSUME IInv, IsCommitted, result = None
  PROVE  IsDispatched /\ failure = None /\ receipt = None
<1>1. IsDispatched
  BY DEF IsCommitted, IsDispatched, IInv, Stores, RecordsFollow, EntryTells
<1>2. failure = None BY DEF IsCommitted, IInv, Stores, FailureTells, FailureBinds
<1>3. receipt = None BY DEF IsCommitted, IInv, Stores, ReceiptTells
<1> QED BY <1>1, <1>2, <1>3

\* The recovery goes where the records send it.
LEMMA RecoveredTo ==
  ASSUME IInv, At("recover"), Pure, UNCHANGED <<context, held, faults>>,
         \/ Goto("close") /\ result # None
         \/ Goto("tidy") /\ failure # None
         \/ Goto("resume") /\ IsCommitted /\ result = None
         \/ Goto("abort") /\ result = None /\ NotCommitted /\ NoReceipt
         \/ Goto(End)
  PROVE  IInv'
<1>1. Recovering BY DEF IInv, Control, Recoveries, At
<1>2. /\ faults' \in 0..MaxFaults /\ context' \in {"boot", "late", "live", "rescue"}
      /\ context' # "live" /\ Recovering'
  BY <1>1 DEF IInv, TypeOK, Recovering, Pure, durable
<1>3. CASE Goto("close") /\ result # None
  <2>1. Ending' BY <1>3 DEF Ending, Goto, Pure, durable
  <2>2. Control' BY <1>2, <1>3, <2>1, AtEnd DEF Goto, EndSteps
  <2> QED BY <1>2, <2>2, PureStep
<1>4. CASE Goto("tidy") /\ failure # None
  <2>1. Checkpointed'
    <3>1. /\ result = None /\ NotCommitted /\ provider # "x"
      BY <1>4 DEF IInv, Stores, FailureTells, FailureBinds, NotCommitted
    <3> QED BY <1>2, <1>4, <3>1 DEF Checkpointed, Failing, NotCommitted, Pure, durable
  <2>2. FailEnding' BY <1>4, <2>1 DEF FailEnding, Goto
  <2>3. Control' BY <1>2, <1>4, <2>2, AtFailing DEF Goto
  <2> QED BY <1>2, <2>3, PureStep
<1>5. CASE Goto("resume") /\ IsCommitted /\ result = None
  <2>1. /\ IsCommitted' /\ IsDispatched'
        /\ result' = None /\ failure' = None /\ receipt' = None
    BY <1>5, CommittedIs DEF IsCommitted, IsDispatched, Pure, durable
  <2>2. Control' BY <1>2, <1>5, <2>1, AtRecovery DEF Goto
  <2> QED BY <1>2, <2>2, PureStep
<1>6. CASE Goto("abort") /\ result = None /\ NotCommitted /\ NoReceipt
  <2>1. Failing' /\ NoReceipt'
    BY <1>2, <1>6 DEF Failing, NoReceipt, NotCommitted, Pure, durable
  <2>2. FailEnding' BY <1>6, <2>1 DEF FailEnding, Goto
  <2>3. Control' BY <1>2, <1>6, <2>2, AtFailing DEF Goto
  <2> QED BY <1>2, <2>3, PureStep
<1>7. CASE Goto(End)
  <2>1. Control'
    <3>1. CASE context = "boot" BY <1>7, <3>1, AtAdmit DEF Goto, End
    <3>2. CASE context # "boot"
      <4>1. pc' \in {"ready", "spent"} BY <1>7, <3>2 DEF Goto, End
      <4> QED BY <4>1, AtRest
    <3> QED BY <3>1, <3>2
  <2> QED BY <1>2, <2>1, PureStep
<1> QED BY <1>3, <1>4, <1>5, <1>6, <1>7

\* Which receipt is there.
LEMMA ReceiptIs ==
  ASSUME IInv, receipt # None
  PROVE  /\ receipt.capture <=> result # None
         /\ result = None => /\ receipt.completedAt = FailedAt
                             /\ receipt.runtime = RuntimeChecked
                             /\ provider # "x" => failure # None
         /\ entry # None => entry.state = "removed"
         /\ attempt # None => attempt.state = "closed"
<1>1. CASE result # None
  <2>1. receipt = ResultReceipt /\ attempt # None
    BY <1>1 DEF IInv, Stores, ReceiptTells
  <2>2. receipt.capture BY <2>1 DEF ResultReceipt
  <2> QED BY <1>1, <2>2 DEF IInv, Stores, ReceiptTells
<1>2. CASE result = None
  <2>1. receipt = [outcome |-> "failed", completedAt |-> FailedAt,
                   runtime |-> RuntimeChecked, capture |-> FALSE]
    BY <1>2 DEF IInv, Stores, ReceiptTells
  <2>2. receipt.completedAt = FailedAt /\ receipt.capture = FALSE BY <2>1
  <2>3. receipt.runtime = RuntimeChecked BY <2>1
  <2> QED BY <1>2, <2>2, <2>3 DEF IInv, Stores, ReceiptTells
<1> QED BY <1>1, <1>2

LEMMA FailureReceiptIs ==
  ASSUME IInv, receipt # None, result = None
  PROVE  FailureReceiptBinds
<1>1. /\ receipt.completedAt = FailedAt /\ receipt.runtime = RuntimeChecked
      /\ entry # None => entry.state = "removed"
      /\ attempt # None => attempt.state = "closed"
  BY ReceiptIs
<1>2. prepared # None /\ prepared \in Tickets
  BY DEF IInv, Stores, RecordsFollow, TypeOK, Maybe
<1>3. prepared.at \in Nat BY <1>2, BoundsAssumption DEF Tickets, Times
<1>4. attempt # None =>
        /\ attempt.closedAt = receipt.completedAt
        /\ attempt.outcome \in {"aborted", "failed"}
        /\ prepared.at <= attempt.closedAt
  BY <1>1, <1>3 DEF FailedAt, IInv, Stores, AttemptTells
<1>5. prepared.at <= receipt.completedAt BY <1>1, <1>3, <1>4 DEF FailedAt
<1>6. RuntimeChecked => RuntimeEvidence BY DEF IInv, Stores, CheckBinds
<1> QED BY <1>1, <1>4, <1>5, <1>6 DEF FailureReceiptBinds

LEMMA RecoverKeeps ==
  ASSUME IInv, provider = "x", Kept(Recover), UNCHANGED provider PROVE IInv'
<1>1. Pure /\ UNCHANGED <<context, held, faults>> /\ At("recover")
  BY DEF Kept, Recover, Pure, Goto
<1>2. failure = None BY DEF IInv, Stores, FailureTells
<1>3. CASE receipt # None /\ result # None
  <2>1. Goto("close") BY <1>3, ReceiptIs DEF Kept, Recover
  <2> QED BY <1>1, <1>3, <2>1, RecoveredTo
<1>4. CASE receipt # None /\ result = None
  <2>1. Goto(End) BY <1>4, ReceiptIs, FailureReceiptIs DEF Kept, Recover
  <2> QED BY <1>1, <2>1, RecoveredTo
<1>5. CASE receipt = None
  <2>1. \/ Goto("close") /\ result # None
        \/ Goto("resume") /\ IsCommitted /\ result = None
        \/ Goto("abort") /\ result = None /\ NotCommitted
    BY <1>5 DEF Kept, Recover, IsCommitted, NotCommitted
  <2>2. NoReceipt BY <1>2, <1>5 DEF NoReceipt
  <2> QED BY <1>1, <2>1, <2>2, RecoveredTo
<1> QED BY <1>3, <1>4, <1>5

\* What the later two load agrees with what is stored.
LEMMA Loaded ==
  ASSUME IInv
  PROVE  LoadedEvidence /\ ~(result # None /\ failure # None)
<1>1. result # None => OpenSeaResultBinds /\ failure = None
  BY ResultHasEvidence, ResultIs
  DEF OpenSeaResultBinds, OpenSeaRuntimeEvidence, OpenSeaCaptureEvidence, ResultBinds
<1>2. failure # None => FailureBinds BY DEF IInv, Stores, FailureTells
<1> QED BY <1>1, <1>2 DEF LoadedEvidence

LEMMA FailureRepeated ==
  ASSUME IInv, receipt # None, result = None, provider # "x"
  PROVE  failure # None /\ ReceiptRepeatsFailure
<1>1. /\ failure # None
      /\ receipt = [outcome |-> "failed", completedAt |-> FailedAt,
                    runtime |-> RuntimeChecked, capture |-> FALSE]
      /\ entry # None => entry.state = "removed"
      /\ attempt # None => attempt.state = "closed"
  BY DEF IInv, Stores, ReceiptTells
<1>2. FailureBinds BY <1>1 DEF IInv, Stores, FailureTells
<1>3. failure.completedAt = FailedAt /\ failure.runtime = RuntimeChecked
  BY <1>1, <1>2 DEF FailureBinds, FailedAt, OpenSeaRuntimeChecked
<1> QED BY <1>1, <1>3 DEF ReceiptRepeatsFailure, FailureReceipt

LEMMA UnfinishedIs ==
  \/ Unfinished = "close" /\ result # None
  \/ Unfinished = "tidy" /\ failure # None
  \/ Unfinished = "resume" /\ IsCommitted /\ result = None
  \/ Unfinished = "abort" /\ result = None /\ failure = None /\ NotCommitted
BY DEF Unfinished, IsCommitted, NotCommitted

LEMMA OpenSeaRecoverKeeps ==
  ASSUME IInv, provider # "x", OpenSeaRecover, UNCHANGED provider PROVE IInv'
<1>1. Pure /\ UNCHANGED <<context, held, faults>> /\ At("recover")
  BY DEF OpenSeaRecover, Pure, Goto
<1>2. LoadedEvidence /\ ~(result # None /\ failure # None) BY Loaded
<1>3. CASE receipt # None /\ result # None
  <2>1. Goto("close") BY <1>2, <1>3, ReceiptIs DEF OpenSeaRecover
  <2> QED BY <1>1, <1>3, <2>1, RecoveredTo
<1>4. CASE receipt # None /\ result = None
  <2>1. Goto("tidy") /\ failure # None
    BY <1>2, <1>4, ReceiptIs, FailureRepeated DEF OpenSeaRecover
  <2> QED BY <1>1, <2>1, RecoveredTo
<1>5. CASE receipt = None
  <2>1. \/ Goto("close") /\ result # None
        \/ Goto("tidy") /\ failure # None
        \/ Goto("resume") /\ IsCommitted /\ result = None
        \/ Goto("abort") /\ result = None /\ failure = None /\ NotCommitted
    <3>1. Goto(Unfinished) BY <1>2, <1>5 DEF OpenSeaRecover
    <3> QED BY <3>1, UnfinishedIs
  <2> QED BY <1>1, <1>5, <2>1, RecoveredTo DEF NoReceipt
<1> QED BY <1>3, <1>4, <1>5

\* The Base canary asks for the same agreement in its own words.
LEMMA BaseLoaded ==
  ASSUME IInv, provider = "base"
  PROVE  BaseLoadedEvidence
<1>1. result # None => BaseResultBinds
  <2> SUFFICES ASSUME result # None PROVE BaseResultBinds OBVIOUS
  <2>1. ResultBinds BY ResultHasEvidence
  <2>2. /\ capture \in Captures /\ capture.content # "none" /\ captured = Projection
        /\ result \in Results
    BY ResultIs DEF IInv, Stores, CaptureTells
  <2>3. captured.status = (IF capture.content = "malformed" THEN "rejected" ELSE "accepted")
    BY <2>2 DEF Projection
  <2>4. captured.empty = (capture.content # "posts")
    BY <2>2 DEF Projection
  <2>5. captured.status = "accepted" => ~captured.empty
    BY <2>2, <2>3, <2>4 DEF Captures, Contents
  <2>6. ~result.denied => captured.status = result.outcome
    <3>1. ~result.denied => result.outcome = (IF captured.status = "rejected" THEN "rejected"
                                             ELSE IF captured.empty THEN "empty" ELSE "accepted")
      BY DEF IInv, Stores, ResultTells
    <3> QED BY <2>3, <2>5, <3>1
  <2>7. BaseCaptureEvidence
    BY <2>1, <2>5, <2>6 DEF ResultBinds, CaptureEvidence, BaseCaptureEvidence
  <2> QED BY <2>1, <2>7 DEF ResultBinds, BaseResultBinds, BaseRuntimeEvidence
<1>2. failure # None => BaseFailureBinds
  <2> SUFFICES ASSUME failure # None PROVE BaseFailureBinds OBVIOUS
  <2>1. FailureBinds BY DEF IInv, Stores, FailureTells
  <2>2. BaseClosure
    <3>1. CASE attempt = None BY <3>1, <2>1 DEF FailureBinds, BaseClosure
    <3>2. CASE attempt # None /\ attempt.state = "reserved"
      BY <3>2, <2>1 DEF FailureBinds, BaseClosure
    <3>3. CASE attempt # None /\ attempt.state = "dispatched"
      BY <3>3, <2>1 DEF FailureBinds, BaseClosure
    <3>4. CASE attempt # None /\ attempt.state = "closed"
      <4>1. attempt.closedAt = (IF attempt.outcome = "aborted" THEN prepared.at
                                ELSE attempt.dispatchedAt)
        BY <3>4, <2>1 DEF FailureBinds, IInv, Stores, AttemptTells
      <4>2. failure.outcome = attempt.outcome /\ failure.completedAt = attempt.closedAt
        BY <3>4, <2>1 DEF FailureBinds
      <4> QED BY <3>4, <4>1, <4>2 DEF BaseClosure
    <3> QED BY <3>1, <3>2, <3>3, <3>4 DEF IInv, TypeOK, Maybe, Attempts
  <2> QED BY <2>1, <2>2 DEF FailureBinds, BaseFailureBinds, BaseRuntimeChecked,
             OpenSeaRuntimeChecked, BaseRuntimeEvidence, OpenSeaRuntimeEvidence
<1> QED BY <1>1, <1>2 DEF BaseLoadedEvidence

LEMMA BaseRecoverKeeps ==
  ASSUME IInv, provider = "base", BaseRecover, UNCHANGED provider PROVE IInv'
<1>1. Pure /\ UNCHANGED <<context, held, faults>> /\ At("recover")
  BY DEF BaseRecover, Pure, Goto
<1>2. BaseLoadedEvidence /\ ~(result # None /\ failure # None) BY BaseLoaded, Loaded
<1>3. CASE receipt # None
  <2>1. Goto(BaseReceipted) BY <1>2, <1>3 DEF BaseRecover
  <2>2. CASE result # None
    <3>1. BaseReceipted = "close" BY <1>3, <2>2, ReceiptIs DEF BaseReceipted
    <3> QED BY <1>1, <2>1, <2>2, <3>1, RecoveredTo
  <2>3. CASE result = None
    <3>1. failure # None /\ ReceiptRepeatsFailure BY <1>3, <2>3, FailureRepeated
    <3>2. BaseFailureReceiptRepeats
      BY <1>2, <3>1 DEF BaseLoadedEvidence, BaseFailureReceiptRepeats, ReceiptRepeatsFailure,
         BaseFailedReceipt
    <3>3. BaseReceipted = "tidy"
      BY <1>3, <2>3, <3>1, <3>2, ReceiptIs DEF BaseReceipted
    <3> QED BY <1>1, <2>1, <3>1, <3>3, RecoveredTo
  <2> QED BY <2>2, <2>3
<1>4. CASE receipt = None
  <2>1. Goto(Unfinished) BY <1>2, <1>4 DEF BaseRecover
  <2> QED BY <1>1, <1>4, <2>1, UnfinishedIs, RecoveredTo DEF NoReceipt
<1> QED BY <1>3, <1>4

\* A committed capture is still there and agrees with the event: resumeCommittedAttempt
\* never refuses.
LEMMA ResumeKeeps ==
  ASSUME IInv, Kept(Resume), UNCHANGED provider PROVE IInv'
<1>1. /\ At("resume") /\ Recovering /\ IsCommitted /\ IsDispatched
      /\ result = None /\ failure = None /\ receipt = None
  BY DEF IInv, Control, Recoveries, Kept, Resume, At
<1>2. Settled /\ attempt # None /\ entry # None /\ prepared # None
  BY <1>1 DEF IsCommitted, Settled, IsDispatched, Recovering
<1>3. /\ capture # None /\ capture.state # "deleted"
      /\ attempt.dispatchedAt # None /\ attempt.dispatchedAt <= capture.acquiredAt
      /\ captured \in {None, Projection}
  BY <1>1, <1>2 DEF IsDispatched, IInv, Stores, EntryTells, AttemptTells, CaptureTells
<1>4. capture \in Captures /\ capture.state = "live"
  BY <1>3 DEF IInv, TypeOK, Maybe, Captures
<1>5. /\ captured' = Projection /\ Then("deny")
      /\ UNCHANGED <<runtime, check, marker, prepared, attempt, entry, capture,
                     result, receipt, requests, context, held, failure, provider>>
  BY <1>2, <1>3, <1>4 DEF Kept, Resume
<1>6. captured' \in Projections /\ captured' # None BY <1>4, <1>5, ProjectionIs
<1>7. faults' \in 0..MaxFaults BY <1>5, FailsCount DEF IInv, TypeOK, Then, Goto
<1>8. TypeOK' BY <1>5, <1>6, <1>7 DEF IInv, TypeOK, Maybe
<1>9. Stores'
  <2>1. RecordsFollow' /\ CheckBinds'
    BY <1>1, <1>3, <1>5
    DEF IInv, Stores, RecordsFollow, CheckBinds, RuntimeChecked, RuntimeEvidence
  <2>2. AttemptTells' BY <1>5 DEF IInv, Stores, AttemptTells, AttemptOutcome
  <2>3. EntryTells' BY <1>5 DEF IInv, Stores, EntryTells, Settled, Destroyed
  <2>4. CaptureTells'
    BY <1>2, <1>5 DEF IInv, Stores, CaptureTells, Settled, Destroyed, Projection
  <2>5. ResultTells' /\ ReceiptTells' /\ FailureTells'
    BY <1>1, <1>5 DEF IsDispatched, ResultTells, ReceiptTells, FailureTells
  <2> QED BY <2>1, <2>2, <2>3, <2>4, <2>5 DEF Stores
<1>10. context' # "live" BY <1>1, <1>5 DEF Recovering
<1>11. Control'
  <2>1. CASE Goto("deny")
    <3>1. Captured' BY <1>1, <1>5, <1>6 DEF Captured, IsCommitted, IsDispatched
    <3>2. Ending' BY <2>1, <3>1 DEF Ending, Goto
    <3> QED BY <2>1, <3>2, <1>10, AtEnd DEF Goto, EndSteps
  <2>2. CASE Fails
    <3>1. pc' = Rescue /\ Running BY <2>2, <1>1 DEF Fails, At, Running
    <3> QED BY <3>1, <1>5, <1>10, Rescued
  <2> QED BY <1>5, <2>1, <2>2 DEF Then
<1>12. Providers' BY DEF IInv, Providers
<1> QED BY <1>8, <1>9, <1>11, <1>12 DEF IInv

LEMMA BaseResumeKeeps ==
  ASSUME IInv, BaseResume, UNCHANGED provider PROVE IInv'
<1>1. At("resume") BY DEF BaseResume
<1>2. attempt.state = "dispatched"
  BY <1>1 DEF IInv, Control, Recoveries, IsDispatched, At
<1>3. OpenSeaResume BY <1>2 DEF BaseResume, BaseResumable
<1> QED BY <1>3, ResumeKeeps DEF OpenSeaResume

-----------------------------------------------------------------------------
(* The failure checkpoint of the later two.                                 *)

\* Only a failure is written down, and it agrees with what is stored.
LEMMA CandidateFails ==
  ASSUME IInv, Failing, NoReceipt, provider # "x"
  PROVE  /\ FailureOutcome \in {None, "aborted", "failed"}
         /\ FailureDate \in Times
         /\ IF attempt = None THEN FailureOutcome = None /\ FailureDate = prepared.at
            ELSE \/ /\ attempt.state = "reserved"
                    /\ FailureOutcome = "aborted" /\ FailureDate = prepared.at
                 \/ /\ attempt.state = "dispatched"
                    /\ FailureOutcome = "failed" /\ FailureDate = attempt.dispatchedAt
<1>1. attempt # None => attempt.state \in {"reserved", "dispatched"}
  <2>1. attempt # None => attempt.state # "closed"
    BY DEF IInv, Stores, FailureTells, Failing, NoReceipt
  <2> QED BY <2>1 DEF IInv, TypeOK, Maybe, Attempts
<1>2. prepared.at \in Times BY FailingIs
<1>3. CASE attempt = None
  BY <1>2, <1>3 DEF FailureOutcome, FailureDate
<1>4. CASE attempt # None /\ attempt.state = "reserved"
  BY <1>2, <1>4 DEF FailureOutcome, FailureDate
<1>5. CASE attempt # None /\ attempt.state = "dispatched"
  <2>1. attempt.dispatchedAt \in Times
    BY <1>5, FailingIs DEF IInv, Stores, AttemptTells
  <2> QED BY <1>5, <2>1 DEF FailureOutcome, FailureDate
<1> QED BY <1>1, <1>3, <1>4, <1>5

LEMMA PersistFailureKeeps ==
  ASSUME IInv, provider # "x", PersistFailure, UNCHANGED provider PROVE IInv'
<1>1. Failing /\ NoReceipt /\ At("abort")
  BY DEF IInv, Control, FailEnding, PersistFailure, At
<1>2. /\ failure' = FailureCandidate /\ Then("tidy")
      /\ UNCHANGED <<runtime, check, marker, prepared, attempt, entry, capture, captured,
                     result, receipt, requests, context, held, provider>>
  BY <1>1, CandidateFails DEF PersistFailure, durable
<1>3. faults' \in 0..MaxFaults BY <1>2, FailsCount DEF IInv, TypeOK, Then, Goto
<1>4. TypeOK' BY <1>2, <1>3 DEF IInv, TypeOK
<1>5. result = None /\ prepared # None /\ context # "live" /\ NotCommitted /\ receipt = None
  BY <1>1 DEF Failing, Recovering, NoReceipt
<1>6. /\ failure'.outcome = FailureOutcome /\ failure'.completedAt = FailureDate
      /\ failure'.runtime = RuntimeChecked
  BY <1>2 DEF FailureCandidate, OpenSeaRuntimeChecked
<1>7. failure' \in Failures /\ failure' # None
  <2>1. FailureOutcome \in Maybe({"aborted", "failed"}) /\ FailureDate \in Times
    BY <1>1, CandidateFails DEF Maybe
  <2>2. RuntimeChecked \in BOOLEAN BY DEF RuntimeChecked
  <2>3. failure' \in Failures
    BY <1>2, <2>1, <2>2 DEF FailureCandidate, OpenSeaRuntimeChecked, Failures
  <2> QED BY <2>3, NoFailureAssumption
<1>8. FailureBinds'
  <2>1. captured = None BY <1>1, FailingIs
  <2>2. IF attempt' = None
        THEN failure'.outcome = None /\ failure'.completedAt = prepared'.at
        ELSE /\ failure'.outcome # None
             /\ failure'.completedAt = (IF failure'.outcome = "aborted" THEN prepared'.at
                                        ELSE attempt'.dispatchedAt)
             /\ attempt'.state = "reserved" => failure'.outcome = "aborted"
             /\ attempt'.state = "dispatched" => failure'.outcome = "failed"
             /\ attempt'.state = "closed" => /\ attempt'.closedAt = failure'.completedAt
                                             /\ attempt'.outcome = failure'.outcome
    BY <1>1, <1>2, <1>6, CandidateFails, NoneAssumption
  <2>3. failure'.runtime = OpenSeaRuntimeChecked' /\ RuntimeChecked' = RuntimeChecked
    BY <1>2, <1>6 DEF OpenSeaRuntimeChecked, RuntimeChecked
  <2>4. failure'.runtime => OpenSeaRuntimeEvidence'
    BY <1>2, <1>6
    DEF IInv, Stores, CheckBinds, OpenSeaRuntimeEvidence, RuntimeEvidence, RuntimeChecked
  <2> QED BY <1>2, <1>5, <2>1, <2>2, <2>3, <2>4 DEF FailureBinds, NotCommitted
<1>9. Stores'
  <2>1. RecordsFollow' /\ CheckBinds'
    BY <1>2, <1>5 DEF IInv, Stores, RecordsFollow, CheckBinds, RuntimeChecked, RuntimeEvidence
  <2>2. AttemptTells' BY <1>2 DEF IInv, Stores, AttemptTells, AttemptOutcome
  <2>3. EntryTells' BY <1>2 DEF IInv, Stores, EntryTells, Settled, Destroyed
  <2>4. CaptureTells' BY <1>2 DEF IInv, Stores, CaptureTells, Settled, Destroyed, Projection
  <2>5. ResultTells' /\ ReceiptTells' BY <1>2, <1>5 DEF ResultTells, ReceiptTells
  <2>6. FailureTells' BY <1>2, <1>7, <1>8 DEF FailureTells
  <2> QED BY <2>1, <2>2, <2>3, <2>4, <2>5, <2>6 DEF Stores
<1>10. Control'
  <2>1. CASE Goto("tidy")
    <3>1. Checkpointed'
      BY <1>2, <1>5, <1>7 DEF Checkpointed, Failing, Recovering, NotCommitted
    <3>2. FailEnding' BY <2>1, <3>1 DEF FailEnding, Goto
    <3> QED BY <2>1, <3>2, <1>2, <1>5, AtFailing DEF Goto
  <2>2. CASE Fails
    <3>1. pc' = Rescue /\ Running BY <2>2, <1>1 DEF Fails, At, Running
    <3> QED BY <3>1, <1>2, <1>5, Rescued
  <2> QED BY <1>2, <2>1, <2>2 DEF Then
<1>11. Providers' BY DEF IInv, Providers
<1> QED BY <1>4, <1>9, <1>10, <1>11 DEF IInv

LEMMA BasePersistFailureKeeps ==
  ASSUME IInv, provider # "x", BasePersistFailure, UNCHANGED provider PROVE IInv'
<1>1. PersistFailure
  BY DEF BasePersistFailure, PersistFailure, BaseFailureCandidate, FailureCandidate
<1> QED BY <1>1, PersistFailureKeeps

\* A checkpoint on record agrees with what is stored.
LEMMA CheckpointIs ==
  ASSUME IInv, Checkpointed
  PROVE  /\ FailureBinds /\ failure \in Failures /\ failure.completedAt \in Times
         /\ prepared # None /\ prepared.at \in Times /\ context # "live"
         /\ result = None /\ captured = None /\ NotCommitted /\ provider # "x"
<1>1. Failing /\ failure # None BY DEF Checkpointed
<1>2. FailureBinds /\ failure \in Failures BY <1>1 DEF IInv, Stores, FailureTells
<1>3. failure.completedAt \in Times BY <1>2 DEF Failures
<1> QED BY <1>1, <1>2, <1>3, FailingIs DEF Checkpointed, Failing, Recovering

\* finalizeFailureCheckpoint recovers the capture storage in the three steps of a start.
LEMMA TidyKeeps ==
  ASSUME IInv, provider # "x", NEW t \in Times, BaseTidy(t), UNCHANGED provider PROVE IInv'
<1>1. CASE TidyPending(t)
  <2> DEFINE u == LaterOf(t, LaterOf(prepared.at, failure.completedAt))
  <2>1. Checkpointed /\ Running
    BY <1>1 DEF IInv, Control, FailEnding, TidyPending, At, Running
  <2>2. Kept(RemoveInterrupted("tidy", "mend", u))
    BY <1>1, <2>1, CheckpointIs DEF TidyPending
  <2>3. u \in Times BY <2>1, CheckpointIs DEF LaterOf
  <2> HIDE DEF u
  <2>4. /\ TypeOK' /\ Stores' /\ Providers'
        /\ Goto("mend") \/ pc' = Rescue
        /\ held'.recoveredAt \in Times /\ NotCommitted'
    BY <2>1, <2>2, <2>3, InterruptedStored, CheckpointIs
  <2>5. UNCHANGED <<context, prepared, result, failure>>
    BY <2>2 DEF Kept, RemoveInterrupted
  <2>6. Control'
    <3>1. CASE Goto("mend")
      <4>1. Checkpointed'
        BY <2>1, <2>4, <2>5 DEF Checkpointed, Failing, Recovering
      <4>2. FailEnding' BY <3>1, <4>1 DEF FailEnding, Goto
      <4> QED BY <2>1, <2>4, <2>5, <3>1, <4>2, CheckpointIs, AtFailing DEF Goto
    <3>2. CASE pc' = Rescue BY <3>2, <2>1, <2>5, CheckpointIs, Rescued
    <3> QED BY <2>4, <3>1, <3>2
  <2> QED BY <2>4, <2>6 DEF IInv
<1>2. CASE TidyDeletion
  <2>1. Checkpointed /\ Running /\ held.recoveredAt \in Times
    BY <1>2 DEF IInv, Control, FailEnding, Recoveries, TidyDeletion, Kept, RepairDeletion, At,
       Running
  <2>2. /\ TypeOK' /\ Stores' /\ Providers'
        /\ Goto("sweep") \/ pc' = Rescue
        /\ NotCommitted'
    BY <1>2, <2>1, DeletionRepaired, CheckpointIs DEF TidyDeletion
  <2>3. UNCHANGED <<context, prepared, result, failure, held>>
    BY <1>2 DEF TidyDeletion, Kept, RepairDeletion
  <2>4. Control'
    <3>1. CASE Goto("sweep")
      <4>1. Checkpointed'
        BY <2>1, <2>2, <2>3 DEF Checkpointed, Failing, Recovering
      <4>2. FailEnding' BY <3>1, <4>1 DEF FailEnding, Goto
      <4> QED BY <2>1, <2>3, <3>1, <4>2, CheckpointIs, AtFailing DEF Goto
    <3>2. CASE pc' = Rescue BY <3>2, <2>1, <2>3, CheckpointIs, Rescued
    <3> QED BY <2>2, <3>1, <3>2
  <2> QED BY <2>2, <2>4 DEF IInv
<1>3. CASE TidyOrphan
  <2>1. Checkpointed /\ Running /\ held.recoveredAt \in Times
    BY <1>3 DEF IInv, Control, FailEnding, Recoveries, TidyOrphan, Kept, ReconcileOrphan, At,
       Running
  <2>2. /\ TypeOK' /\ Stores' /\ Providers'
        /\ Goto("shut") \/ pc' = Rescue
        /\ NotLive' \/ pc' = Rescue
    BY <1>3, <2>1, OrphanReconciled, CheckpointIs DEF TidyOrphan
  <2>3. UNCHANGED <<context, prepared, entry, result, failure, held>>
    BY <1>3 DEF TidyOrphan, Kept, ReconcileOrphan
  <2>4. Control'
    <3>1. CASE Goto("shut") /\ NotLive'
      <4>1. Checkpointed'
        BY <2>1, <2>3 DEF Checkpointed, Failing, Recovering, NotCommitted
      <4>2. FailEnding' BY <3>1, <4>1 DEF FailEnding, Goto
      <4> QED BY <2>1, <2>3, <3>1, <4>2, CheckpointIs, AtFailing DEF Goto
    <3>2. CASE pc' = Rescue BY <3>2, <2>1, <2>3, CheckpointIs, Rescued
    <3> QED BY <2>2, <3>1, <3>2
  <2> QED BY <2>2, <2>4 DEF IInv
<1> QED BY <1>1, <1>2, <1>3 DEF BaseTidy

LEMMA ShutAttemptKeeps ==
  ASSUME IInv, ShutAttempt, UNCHANGED provider PROVE IInv'
<1>1. Checkpointed /\ NotLive /\ At("shut")
  BY DEF IInv, Control, FailEnding, ShutAttempt, At
<1>2. FailureBinds /\ result = None /\ prepared # None /\ context # "live" /\ captured = None
  BY <1>1, CheckpointIs
<1>3. /\ attempt' = IF failure.outcome = None \/ attempt.state = "closed" THEN attempt
                    ELSE Closed(failure.completedAt, failure.outcome)
      /\ Then("drop")
      /\ UNCHANGED <<runtime, check, marker, prepared, entry, capture, captured, result,
                     receipt, requests, context, held, failure, provider>>
  BY <1>2 DEF ShutAttempt
<1>4. faults' \in 0..MaxFaults BY <1>3, FailsCount DEF IInv, TypeOK, Then, Goto
<1>5. CASE failure.outcome = None \/ attempt.state = "closed"
  <2>1. UNCHANGED attempt BY <1>3, <1>5
  <2>2. TypeOK' BY <1>3, <1>4, <2>1 DEF IInv, TypeOK
  <2>3. Stores' BY <1>3, <2>1, StoresFrame DEF IInv, kept
  <2>4. IsClosed' BY <1>2, <1>5, <2>1 DEF FailureBinds, IsClosed
  <2> QED
  <3>1. CASE Goto("drop")
    <4>1. Checkpointed' /\ NotLive'
      BY <1>1, <1>3 DEF Checkpointed, Failing, Recovering, NotCommitted, NotLive
    <4>2. FailEnding' BY <3>1, <4>1, <2>4 DEF FailEnding, Goto
    <4>3. Control' BY <1>2, <1>3, <3>1, <4>2, AtFailing DEF Goto
    <4> QED BY <2>2, <2>3, <4>3, <1>3 DEF IInv, Providers
  <3>2. CASE Fails
    <4>1. pc' = Rescue /\ Running BY <3>2, <1>1 DEF Fails, At, Running
    <4>2. Control' BY <4>1, <1>3, <1>2, Rescued
    <4> QED BY <2>2, <2>3, <4>2, <1>3 DEF IInv, Providers
  <3> QED BY <1>3, <3>1, <3>2 DEF Then
<1>6. CASE ~(failure.outcome = None \/ attempt.state = "closed")
  <2> DEFINE d == failure.completedAt
             o == failure.outcome
  <2>1. attempt # None /\ attempt \in Attempts
    BY <1>2, <1>6 DEF FailureBinds, IInv, TypeOK, Maybe
  <2>2. d \in Times /\ o \in {"aborted", "failed"}
    BY <1>1, <1>6, CheckpointIs DEF Failures, Maybe
  <2>3. \/ attempt.state = "reserved" /\ o = "aborted" /\ d = prepared.at
        \/ attempt.state = "dispatched" /\ o = "failed" /\ d = attempt.dispatchedAt
    BY <1>2, <1>6, <2>1 DEF FailureBinds, Attempts
  <2>4. attempt' = Closed(d, o) BY <1>3, <1>6
  <2> HIDE DEF d, o
  <2>5. /\ attempt' \in Attempts
        /\ attempt'.state = "closed" /\ attempt'.closedAt = d /\ attempt'.outcome = o
        /\ attempt'.dispatchedAt = attempt.dispatchedAt
    BY <2>1, <2>2, <2>4, ClosedAs
  <2>6. attempt' # None /\ attempt'.closedAt # None
    BY <2>2, <2>5, NoneAssumption DEF Times
  <2>7. TypeOK' BY <1>3, <1>4, <2>5, <2>6 DEF IInv, TypeOK, Maybe
  <2>8. Stores'
    <3>1. RecordsFollow' /\ CheckBinds'
      BY <1>3, <2>1, <2>5, <2>6
      DEF IInv, Stores, RecordsFollow, CheckBinds, RuntimeChecked, RuntimeEvidence
    <3>2. AttemptTells'
      <4>1. /\ attempt.state = "reserved" => attempt.dispatchedAt = None
            /\ attempt.state = "dispatched" => attempt.dispatchedAt # None
        BY <2>1 DEF IInv, Stores, AttemptTells
      <4> QED BY <1>2, <1>3, <2>1, <2>3, <2>5, <2>6, <4>1 DEF IInv, Stores, AttemptTells
    <3>3. EntryTells'
      BY <1>1, <1>3 DEF Checkpointed, Failing, NotCommitted, IInv, Stores, EntryTells, Settled,
         Destroyed
    <3>4. CaptureTells'
      BY <1>2, <1>3, <2>5 DEF IInv, Stores, CaptureTells
    <3>5. ResultTells' BY <1>2, <1>3 DEF ResultTells
    <3>6. FailureTells'
      <4>1. FailureBinds'
        <5>1. /\ failure.outcome # None
              /\ failure.completedAt = (IF failure.outcome = "aborted" THEN prepared.at
                                        ELSE attempt.dispatchedAt)
          BY <1>2, <2>1 DEF FailureBinds
        <5>2. OpenSeaRuntimeChecked' = OpenSeaRuntimeChecked
              /\ OpenSeaRuntimeEvidence' = OpenSeaRuntimeEvidence
          BY <1>3 DEF OpenSeaRuntimeChecked, OpenSeaRuntimeEvidence, RuntimeChecked,
             RuntimeEvidence
        <5> QED BY <1>2, <1>3, <2>5, <2>6, <5>1, <5>2 DEF FailureBinds, d, o
      <4> QED BY <1>1, <1>3, <4>1, CheckpointIs DEF FailureTells, Checkpointed
    <3>7. ReceiptTells'
      <4>1. receipt = None BY <2>1, <1>6 DEF IInv, Stores, ReceiptTells
      <4> QED BY <1>3, <4>1 DEF ReceiptTells
    <3> QED BY <3>1, <3>2, <3>3, <3>4, <3>5, <3>6, <3>7 DEF Stores
  <2> QED
  <3>1. CASE Goto("drop")
    <4>1. Checkpointed' /\ NotLive' /\ IsClosed'
      BY <1>1, <1>3, <2>5 DEF Checkpointed, Failing, Recovering, NotCommitted, NotLive, IsClosed
    <4>2. FailEnding' BY <3>1, <4>1 DEF FailEnding, Goto
    <4>3. Control' BY <1>2, <1>3, <3>1, <4>2, AtFailing DEF Goto
    <4> QED BY <2>7, <2>8, <4>3, <1>3 DEF IInv, Providers
  <3>2. CASE Fails
    <4>1. pc' = Rescue /\ Running BY <3>2, <1>1 DEF Fails, At, Running
    <4>2. Control' BY <4>1, <1>3, <1>2, Rescued
    <4> QED BY <2>7, <2>8, <4>2, <1>3 DEF IInv, Providers
  <3> QED BY <1>3, <3>1, <3>2 DEF Then
<1> QED BY <1>5, <1>6

LEMMA DropPendingKeeps ==
  ASSUME IInv, DropPending, UNCHANGED provider PROVE IInv'
<1>1. Checkpointed /\ NotLive /\ IsClosed /\ At("drop")
  BY DEF IInv, Control, FailEnding, DropPending, At
<1>2. /\ result = None /\ prepared # None /\ context # "live" /\ NotCommitted
      /\ failure.completedAt \in Times
  BY <1>1, CheckpointIs
<1>3. /\ Then("fail")
      /\ UNCHANGED <<runtime, check, marker, prepared, attempt, capture, captured, result,
                     receipt, requests, context, held, failure, provider>>
  BY <1>2 DEF DropPending, NotCommitted
<1>4. /\ faults' \in 0..MaxFaults /\ context' \in {"boot", "late", "live", "rescue"}
  BY <1>3, FailsCount DEF IInv, TypeOK, Then, Goto
<1>5. TypeOK' /\ Stores' /\ NotCommitted' /\ NotPending'
  <2>1. CASE IsPending
    <3> DEFINE t == LaterOf(failure.completedAt, entry.begunAt)
    <3>1. entry' = [entry EXCEPT !.state = "removed", !.reason = "pending", !.removedAt = t]
      BY <2>1 DEF DropPending, IsPending
    <3>2. t \in Times
      <4>1. entry.begunAt \in Times BY <2>1 DEF IsPending, IInv, TypeOK, Maybe, Entries
      <4> QED BY <4>1, <1>2 DEF LaterOf
    <3> HIDE DEF t
    <3> QED BY <2>1, <3>1, <3>2, <1>3, <1>4, PendingRemoved
  <2>2. CASE ~IsPending
    <3>1. UNCHANGED entry BY <2>2 DEF DropPending, IsPending
    <3>2. TypeOK' BY <3>1, <1>3, <1>4 DEF IInv, TypeOK
    <3>3. Stores' BY <3>1, <1>3, StoresFrame DEF IInv, kept
    <3>4. NotCommitted' /\ NotPending'
      BY <3>1, <2>2, <1>2 DEF NotCommitted, NotPending, IsPending
    <3> QED BY <3>2, <3>3, <3>4
  <2> QED BY <2>1, <2>2
<1>6. Control'
  <2>1. CASE Goto("fail")
    <3>1. Failing' /\ IsClosed' /\ NotLive' /\ failure' # None /\ provider' # "x"
      BY <1>1, <1>3, <1>5 DEF Checkpointed, Failing, Recovering, IsClosed, NotLive
    <3>2. FailEnding' BY <2>1, <3>1, <1>5 DEF FailEnding, Goto
    <3> QED BY <2>1, <3>2, <1>2, <1>3, AtFailing DEF Goto
  <2>2. CASE Fails
    <3>1. pc' = Rescue /\ Running BY <2>2, <1>1 DEF Fails, At, Running
    <3> QED BY <3>1, <1>2, <1>3, Rescued
  <2> QED BY <1>3, <2>1, <2>2 DEF Then
<1>7. Providers' BY <1>3 DEF IInv, Providers
<1> QED BY <1>5, <1>6, <1>7 DEF IInv

LEMMA AppendFailureReceiptKeeps ==
  ASSUME IInv, provider # "x", AppendFailureReceipt, UNCHANGED provider PROVE IInv'
<1>1. Checkpointed /\ IsClosed /\ NotPending /\ NotLive /\ At("fail")
  BY DEF IInv, Control, FailEnding, AppendFailureReceipt, Checkpointed, At
<1>2. /\ FailureBinds /\ result = None /\ prepared # None /\ context # "live" /\ NotCommitted
      /\ failure \in Failures /\ failure # None
  BY <1>1, CheckpointIs DEF Checkpointed
<1>3. /\ failure.completedAt = FailedAt /\ failure.runtime = RuntimeChecked
      /\ FailedAt \in Times
  BY <1>1, <1>2, FailedAtIs DEF FailureBinds, IsClosed, FailedAt, OpenSeaRuntimeChecked,
     Checkpointed
<1>4. receipt \in {None, FailureReceipt}
  BY <1>2, FailureRepeated, CheckpointIs, <1>1 DEF ReceiptRepeatsFailure
<1>5. /\ receipt' = FailureReceipt /\ Then(End)
      /\ UNCHANGED <<runtime, check, marker, prepared, attempt, entry, capture, captured,
                     result, requests, context, held, failure, provider>>
  BY <1>2, <1>4 DEF AppendFailureReceipt
<1>6. receipt' \in Receipts /\ receipt' # None
  <2>1. RuntimeChecked \in BOOLEAN BY DEF RuntimeChecked
  <2>2. receipt' \in Receipts BY <1>3, <1>5, <2>1 DEF FailureReceipt, Receipts
  <2> QED BY <2>2, NoneAssumption
<1>7. faults' \in 0..MaxFaults BY <1>5, FailsCount DEF IInv, TypeOK, Then, Goto
<1>8. TypeOK' BY <1>5, <1>6, <1>7 DEF IInv, TypeOK, Maybe
<1>9. Stores'
  <2>1. RecordsFollow' /\ CheckBinds'
    BY <1>2, <1>5 DEF IInv, Stores, RecordsFollow, CheckBinds, RuntimeChecked, RuntimeEvidence
  <2>2. AttemptTells' BY <1>5 DEF IInv, Stores, AttemptTells, AttemptOutcome
  <2>3. EntryTells' BY <1>5 DEF IInv, Stores, EntryTells, Settled, Destroyed
  <2>4. CaptureTells' BY <1>5 DEF IInv, Stores, CaptureTells, Settled, Destroyed, Projection
  <2>5. ResultTells' BY <1>2, <1>5 DEF ResultTells
  <2>6. FailureTells'
    BY <1>5 DEF IInv, Stores, FailureTells, FailureBinds, OpenSeaRuntimeChecked, RuntimeChecked,
       OpenSeaRuntimeEvidence, RuntimeEvidence
  <2>7. ReceiptTells'
    <3>1. FailedAt' = FailedAt /\ RuntimeChecked' = RuntimeChecked
      BY <1>5 DEF FailedAt, RuntimeChecked
    <3>2. entry # None => entry.state = "removed"
      BY <1>1, <1>2 DEF NotCommitted, NotPending, IInv, TypeOK, Maybe, Entries
    <3>3. capture # None => capture.state = "deleted"
      BY <1>1 DEF NotLive, IInv, TypeOK, Maybe, Captures
    <3>4. receipt' = [outcome |-> "failed", completedAt |-> FailedAt,
                      runtime |-> RuntimeChecked, capture |-> FALSE]
      BY <1>3, <1>5 DEF FailureReceipt
    <3> QED BY <1>1, <1>2, <1>5, <3>1, <3>2, <3>3, <3>4 DEF ReceiptTells, IsClosed
  <2> QED BY <2>1, <2>2, <2>3, <2>4, <2>5, <2>6, <2>7 DEF Stores
<1>10. Control'
  <2>1. Running BY <1>1 DEF At, Running
  <2> QED BY <2>1, <1>2, <1>5, Over, OverAtBoot
<1>11. Providers' BY <1>5 DEF IInv, Providers
<1> QED BY <1>8, <1>9, <1>10, <1>11 DEF IInv

-----------------------------------------------------------------------------
(* Every step of every canary.                                              *)

\* The steps that all three take alike.
LEMMA LiveKeeps ==
  ASSUME IInv, Kept(Live), UNCHANGED provider PROVE IInv'
<1>1. \/ Kept(Admit) \/ Kept(Claim) \/ Kept(Recheck) \/ Kept(Prepare) \/ Kept(Send)
      \/ Kept(Seal) \/ Kept(Capture) \/ Kept(Shred) \/ Kept(Project)
  BY DEF Kept, Live
<1> QED BY <1>1, AdmitKeeps, ClaimKeeps, RecheckKeeps, PrepareKeeps, SendKeeps, SealKeeps,
       CaptureKeeps, ShredKeeps, ProjectKeeps

LEMMA HostKeeps ==
  ASSUME IInv, UNCHANGED provider,
         \/ Kept(Boot) \/ Kept(RecoverLate) \/ Kept(Execute) \/ Kept(Crash) \/ Kept(Fault)
         \/ Kept(PutOff) \/ Kept(OperatorNext) \/ \E p \in {"spent", "ready"} : Kept(CloseFrom(p))
  PROVE  IInv'
<1>1. CASE Kept(OperatorNext)
  <2>1. PICK to \in {"STOPPED", "RESEARCH", "PROPOSE_ONLY"} : Kept(Operate(to))
    BY <1>1 DEF Kept, OperatorNext
  <2> QED BY <2>1, OperateKeeps
<1>2. CASE \E p \in {"spent", "ready"} : Kept(CloseFrom(p)) BY <1>2, CloseKeeps
<1> QED BY <1>1, <1>2, BootKeeps, RecoverLateKeeps, ExecuteKeeps, CrashKeeps, FaultKeeps,
       PutOffKeeps

LEMMA TimedKeeps ==
  ASSUME IInv, UNCHANGED provider, NEW t \in Times,
         \/ Kept(Authorize(t)) \/ Kept(Reserve(t)) \/ Kept(Begin(t)) \/ Kept(Dispatch(t))
         \/ Kept(Consume(t)) \/ Kept(Commit(t)) \/ Kept(Complete(t)) \/ Kept(Deny(t))
         \/ OpenSeaStorage(t)
  PROVE  IInv'
BY AuthorizeKeeps, ReserveKeeps, BeginKeeps, DispatchKeeps, ConsumeKeeps, CommitKeeps,
   CompleteKeeps, DenyKeeps, StorageKeeps

LEMMA XKeeps ==
  ASSUME IInv, provider = "x", Kept(Next), UNCHANGED provider PROVE IInv'
<1>1. \/ Kept(Live) \/ Kept(Finish) \/ Kept(Recovery) \/ \E t \in Times : Kept(Timed(t))
      \/ Kept(Boot) \/ Kept(RecoverLate) \/ Kept(Execute) \/ Kept(CloseFrom("spent"))
      \/ Kept(Crash) \/ Kept(Fault) \/ Kept(PutOff) \/ Kept(OperatorNext)
  BY DEF Kept, Next, HostNext, Step, Close
<1>2. CASE Kept(Finish)
  <2>1. \/ Kept(CloseAttempt) \/ Kept(Destroy) \/ Kept(RecordDeletion) \/ Kept(AppendReceipt)
        \/ Kept(CloseFailed) \/ Kept(RemovePending) \/ Kept(AppendFailure)
    BY <1>2 DEF Kept, Finish
  <2> QED BY <2>1, CloseAttemptKeeps, DestroyKeeps, RecordDeletionKeeps, AppendReceiptKeeps,
         CloseFailedKeeps, RemovePendingKeeps, AppendFailureKeeps
<1>3. CASE Kept(Recovery)
  <2>1. \/ Kept(Caught) \/ Kept(Recover) \/ Kept(Resume)
        \/ Kept(StorageRepair) \/ Kept(StorageReconcile)
    BY <1>3 DEF Kept, Recovery
  <2>2. CASE Kept(StorageRepair) \/ Kept(StorageReconcile)
    <3>1. 0 \in Times BY BoundsAssumption DEF Times
    <3>2. OpenSeaStorage(0) BY <2>2 DEF OpenSeaStorage
    <3> QED BY <3>1, <3>2, StorageKeeps
  <2> QED BY <2>1, <2>2, CaughtKeeps, RecoverKeeps, ResumeKeeps
<1>4. CASE \E t \in Times : Kept(Timed(t))
  <2>1. PICK t \in Times : Kept(Timed(t)) BY <1>4
  <2>2. CASE \E k \in Contents : Kept(Receive(k, t)) BY <2>2, ReceiveKeeps
  <2>3. CASE \/ Kept(Authorize(t)) \/ Kept(Reserve(t)) \/ Kept(Begin(t)) \/ Kept(Dispatch(t))
             \/ Kept(Consume(t)) \/ Kept(Commit(t)) \/ Kept(Complete(t)) \/ Kept(Deny(t))
             \/ OpenSeaStorage(t)
    BY <2>3, TimedKeeps
  <2> QED BY <2>1, <2>2, <2>3 DEF Kept, Timed, OpenSeaStorage
<1> QED BY <1>1, <1>2, <1>3, <1>4, LiveKeeps, HostKeeps

\* The later two: an attempt is closed for a result only without a checkpoint, and there
\* is none.
LEMMA OpenSeaCloseAttemptKeeps ==
  ASSUME IInv, OpenSeaCloseAttempt, UNCHANGED provider PROVE IInv'
<1>1. result # None BY DEF IInv, Control, Ending, OpenSeaCloseAttempt, At
<1>2. Kept(CloseAttempt) BY <1>1, ResultIs DEF OpenSeaCloseAttempt
<1> QED BY <1>2, CloseAttemptKeeps

LEMMA OpenSeaLiveKeeps ==
  ASSUME IInv, OpenSeaLive, UNCHANGED provider PROVE IInv'
<1>1. Kept(Live) \/ Kept(Caught)
  BY DEF OpenSeaLive, OpenSeaAdmit, OpenSeaClaim, OpenSeaRecheck, OpenSeaPrepare, OpenSeaSend,
     OpenSeaSeal, OpenSeaCapture, OpenSeaShred, OpenSeaProject, OpenSeaCaught, Kept, Live
<1> QED BY <1>1, LiveKeeps, CaughtKeeps

LEMMA OpenSeaFinishKeeps ==
  ASSUME IInv, provider # "x", OpenSeaFinish, UNCHANGED provider PROVE IInv'
<1>1. 0 \in Times BY BoundsAssumption DEF Times
<1>2. CASE TidyDeletion \/ TidyOrphan
  <2>1. BaseTidy(0) BY <1>2 DEF BaseTidy
  <2> QED BY <1>1, <2>1, TidyKeeps
<1> QED BY <1>2, OpenSeaCloseAttemptKeeps, DestroyKeeps, RecordDeletionKeeps, AppendReceiptKeeps,
       PersistFailureKeeps, ShutAttemptKeeps, DropPendingKeeps, AppendFailureReceiptKeeps
    DEF OpenSeaFinish, OpenSeaDestroy, OpenSeaRecordDeletion, OpenSeaReceipt

LEMMA OpenSeaTimedKeeps ==
  ASSUME IInv, provider # "x", NEW t \in Times, OpenSeaTimed(t), UNCHANGED provider PROVE IInv'
<1>1. CASE TidyPending(t)
  <2>1. BaseTidy(t) BY <1>1 DEF BaseTidy
  <2> QED BY <2>1, TidyKeeps
<1> QED BY <1>1, TimedKeeps DEF OpenSeaTimed, OpenSeaAuthorize, OpenSeaReserve, OpenSeaBegin,
       OpenSeaDispatch, OpenSeaCommit, OpenSeaComplete, OpenSeaDeny

LEMMA OpenSeaKeeps ==
  ASSUME IInv, provider = "opensea", OpenSeaNext, UNCHANGED provider PROVE IInv'
<1>1. CASE OpenSeaStep
  <2>1. CASE \E t \in Times : OpenSeaTimed(t) \/ \E k \in Contents : OpenSeaReceive(k, t)
    <3>1. PICK t \in Times : OpenSeaTimed(t) \/ \E k \in Contents : OpenSeaReceive(k, t)
      BY <2>1
    <3>2. CASE \E k \in Contents : OpenSeaReceive(k, t)
      BY <3>2, ReceiveKeeps DEF OpenSeaReceive
    <3> QED BY <3>1, <3>2, OpenSeaTimedKeeps
  <2> QED BY <1>1, <2>1, OpenSeaLiveKeeps, OpenSeaFinishKeeps, OpenSeaRecoverKeeps, ResumeKeeps
      DEF OpenSeaStep, OpenSeaResume
<1>2. CASE OpenSeaBoot \/ OpenSeaRecoverLate \/ OpenSeaExecute \/ OpenSeaClose \/ OpenSeaPutOff
           \/ Kept(Crash) \/ Kept(Fault) \/ Kept(OperatorNext)
  BY <1>2, HostKeeps DEF OpenSeaBoot, OpenSeaRecoverLate, OpenSeaExecute, OpenSeaClose, Kept,
     Close, OpenSeaPutOff
<1> QED BY <1>1, <1>2 DEF OpenSeaNext

LEMMA BaseKeeps ==
  ASSUME IInv, provider = "base", BaseNext, UNCHANGED provider PROVE IInv'
<1>1. CASE BaseStep
  <2>1. CASE BaseLive
    <3>1. OpenSeaLive
      BY <2>1 DEF BaseLive, OpenSeaLive, BaseAdmit, BaseClaim, BaseRecheck, BasePrepare, BaseSend,
         BaseSeal, BaseCapture, BaseShred, BaseProject, BaseCaught
    <3> QED BY <3>1, OpenSeaLiveKeeps
  <2>2. CASE BaseFinish
    BY <2>2, OpenSeaCloseAttemptKeeps, DestroyKeeps, RecordDeletionKeeps, AppendReceiptKeeps,
       BasePersistFailureKeeps, ShutAttemptKeeps, DropPendingKeeps, AppendFailureReceiptKeeps
    DEF BaseFinish, BaseCloseAttempt, BaseDestroy, BaseRecordDeletion, BaseReceipt,
        OpenSeaDestroy, OpenSeaRecordDeletion, OpenSeaReceipt, BaseShutAttempt, BaseDropPending,
        BaseFailureReceipt
  <2>3. CASE \E t \in Times : BaseTimed(t) \/ \E k \in BaseContents : BaseReceive(k, t)
    <3>1. PICK t \in Times : BaseTimed(t) \/ \E k \in BaseContents : BaseReceive(k, t)
      BY <2>3
    <3>2. CASE \E k \in BaseContents : BaseReceive(k, t)
      BY <3>2, ReceiveKeeps DEF BaseContents, BaseReceive, OpenSeaReceive
    <3>3. CASE BaseTimed(t)
      BY <3>3, TimedKeeps, TidyKeeps
      DEF BaseTimed, BaseAuthorize, BaseReserve, BaseBegin, BaseDispatch, BaseCommit,
          BaseComplete, BaseDeny, OpenSeaAuthorize, OpenSeaReserve, OpenSeaBegin,
          OpenSeaDispatch, OpenSeaCommit, OpenSeaComplete, OpenSeaDeny
    <3> QED BY <3>1, <3>2, <3>3
  <2> QED BY <1>1, <2>1, <2>2, <2>3, BaseRecoverKeeps, BaseResumeKeeps DEF BaseStep
<1>2. CASE BaseBoot \/ BaseRecoverLate \/ BaseExecute \/ BaseClose \/ BasePutOff
           \/ Kept(Crash) \/ Kept(Fault) \/ Kept(OperatorNext)
  BY <1>2, HostKeeps DEF BaseBoot, OpenSeaBoot, BaseRecoverLate, BaseExecute, OpenSeaExecute,
     BaseClose, Kept, Close, BasePutOff, OpenSeaPutOff
<1> QED BY <1>1, <1>2 DEF BaseNext

-----------------------------------------------------------------------------
(* The theorems.                                                            *)

LEMMA InitKeeps == CanaryInit => IInv
<1> SUFFICES ASSUME CanaryInit PROVE IInv OBVIOUS
<1> USE DEF CanaryInit, OpenSeaInit, Init
<1>1. TypeOK
  <2>1. runtime \in [mode : {"STOPPED", "RESEARCH", "PROPOSE_ONLY"}, revision : Nat,
                     process : 0..MaxBoots]
    BY BoundsAssumption
  <2>2. faults \in 0..MaxFaults BY BoundsAssumption
  <2> QED BY <2>1, <2>2 DEF TypeOK, Maybe
<1>2. Stores
  <2>1. RecordsFollow /\ CheckBinds BY DEF RecordsFollow, CheckBinds, RuntimeChecked
  <2>2. AttemptTells BY DEF AttemptTells
  <2>3. EntryTells /\ CaptureTells BY DEF EntryTells, CaptureTells
  <2>4. ResultTells /\ FailureTells /\ ReceiptTells BY DEF ResultTells, FailureTells, ReceiptTells
  <2> QED BY <2>1, <2>2, <2>3, <2>4 DEF Stores
<1>3. Control
  <2>1. Starting /\ Receiving BY DEF Starting, Receiving
  <2>2. Ending /\ FailEnding BY DEF Ending, FailEnding
  <2>3. Recoveries BY DEF Recoveries, Running, Places
  <2> QED BY <2>1, <2>2, <2>3 DEF Control
<1>4. Providers BY DEF Providers
<1> QED BY <1>1, <1>2, <1>3, <1>4 DEF IInv

LEMMA StepKeeps == IInv /\ [CanaryNext]_canaryVars => IInv'
<1> SUFFICES ASSUME IInv, [CanaryNext]_canaryVars PROVE IInv' OBVIOUS
<1>1. CASE CanaryNext BY <1>1, XKeeps, OpenSeaKeeps, BaseKeeps DEF CanaryNext
<1>2. CASE UNCHANGED canaryVars
  <2>1. /\ Pure /\ UNCHANGED <<pc, context, held, faults>>
    BY <1>2 DEF canaryVars, openSeaVars, vars, Pure
  <2>2. faults' \in 0..MaxFaults /\ context' \in {"boot", "late", "live", "rescue"}
    BY <2>1 DEF IInv, TypeOK
  <2>3. Control'
    <3> USE <2>1 DEF Pure, durable
    <3>1. Starting' BY DEF IInv, Control, Starting, Fresh, Underway, AtBegin, AtDispatch, AtConsume,
          AtSeal, IsReserved, IsDispatched, IsPending, AllowedCheck, Permit
    <3>2. Receiving' BY DEF IInv, Control, Receiving, Underway, AtReceive, AtCapture, AtCommit,
          AtProject, IsDispatched, IsPending, IsCommitted, RuntimeChecked
    <3>3. Ending' BY DEF IInv, Control, Ending, Captured, Underway, IsCommitted, IsDispatched,
          IsClosed, Destroyed, Catchable
    <3>4. FailEnding' BY DEF IInv, Control, FailEnding, Failing, Recovering, NotCommitted,
          NoReceipt, IsClosed, NotPending, NotLive, Checkpointed
    <3>5. Recoveries' BY DEF IInv, Control, Recoveries, Recovering, IsCommitted, IsDispatched,
          Running, Catchable
    <3> QED BY <3>1, <3>2, <3>3, <3>4, <3>5 DEF Control
  <2> QED BY <2>1, <2>2, <2>3, PureStep
<1> QED BY <1>1, <1>2

LEMMA Invariance == CanarySpec => []IInv
BY InitKeeps, StepKeeps, PTL DEF CanarySpec

\* What the invariant says of a request, a receipt and a failure.
LEMMA RequestAccounted ==
  ASSUME IInv PROVE OneAccountedRequest
<1>1. requests = 1 => attempt # None /\ attempt.dispatchedAt # None /\ prepared # None /\ marker
  BY DEF IInv, Stores, AttemptTells, RecordsFollow
<1>2. requests = 1 => attempt.outcome # "aborted"
  <2> SUFFICES ASSUME requests = 1 PROVE attempt.outcome # "aborted" OBVIOUS
  <2>1. CASE attempt.state = "closed"
    <3>1. attempt.dispatchedAt # None /\ attempt # None BY <1>1
    <3>2. result # None => attempt.outcome \in {"succeeded", "empty", "failed"}
      BY <2>1, <3>1, ResultHasEvidence DEF IInv, Stores, AttemptTells
    <3> QED BY <2>1, <3>1, <3>2 DEF IInv, Stores, AttemptTells
  <2>2. CASE attempt.state # "closed"
    BY <1>1, <2>2, NoneAssumption DEF IInv, Stores, AttemptTells
  <2> QED BY <2>1, <2>2
<1> QED BY <1>1, <1>2 DEF IInv, Stores, AttemptTells, OneAccountedRequest

LEMMA ReceiptIsTrue ==
  ASSUME IInv PROVE ReceiptTellsTheTruth
<1> SUFFICES ASSUME receipt # None PROVE ReceiptTellsTheTruth BY DEF ReceiptTellsTheTruth
<1>1. /\ attempt # None => attempt.state = "closed"
      /\ entry # None => entry.state = "removed"
  BY ReceiptIs
<1>2. CASE result # None
  <2>1. receipt = ResultReceipt /\ attempt # None BY <1>2 DEF IInv, Stores, ReceiptTells
  <2>2. /\ receipt.capture = TRUE /\ receipt.outcome = result.outcome
        /\ receipt.completedAt = result.completedAt
    BY <2>1 DEF ResultReceipt
  <2>3. attempt.outcome = AttemptOutcome /\ attempt.closedAt = result.completedAt
    BY <1>1, <1>2, <2>1 DEF IInv, Stores, AttemptTells
  <2>4. entry # None /\ Settled BY <1>2, ResultIs DEF Settled
  <2>5. Destroyed BY <1>1, <2>4 DEF Settled
  <2>6. entry.reason = "deleted" /\ capture.state = "deleted"
    BY <2>4, <2>5 DEF Destroyed, IInv, Stores, EntryTells
  <2> QED BY <1>1, <1>2, <2>1, <2>2, <2>3, <2>4, <2>6 DEF ReceiptTellsTheTruth
<1>3. CASE result = None
  <2>1. receipt = [outcome |-> "failed", completedAt |-> FailedAt,
                   runtime |-> RuntimeChecked, capture |-> FALSE]
    BY <1>3 DEF IInv, Stores, ReceiptTells
  <2>2. receipt.capture = FALSE /\ receipt.outcome = "failed" /\ receipt.completedAt = FailedAt
    BY <2>1
  <2>3. attempt # None => /\ attempt.closedAt = receipt.completedAt
                          /\ attempt.outcome \in {"aborted", "failed"}
    BY <1>1, <1>3, <2>2 DEF FailedAt, IInv, Stores, AttemptTells
  <2>4. entry # None => entry.reason = "pending"
    BY <1>1, <1>3 DEF IInv, Stores, EntryTells, Settled, Destroyed
  <2> QED BY <1>1, <1>3, <2>2, <2>3, <2>4 DEF ReceiptTellsTheTruth
<1> QED BY <1>2, <1>3

LEMMA FailureIsFinal ==
  ASSUME IInv PROVE FailuresAreFinal
<1> SUFFICES ASSUME failure # None PROVE FailuresAreFinal BY DEF FailuresAreFinal
<1>1. /\ failure \in Failures /\ provider # "x"
      /\ result = None
      /\ entry # None => entry.state # "committed"
  BY DEF IInv, Stores, FailureTells, FailureBinds
<1>2. receipt # None => /\ receipt = FailureReceipt
                        /\ entry # None => entry.state = "removed"
  BY <1>1, FailureRepeated DEF ReceiptRepeatsFailure
<1>3. receipt # None /\ capture # None => capture.state = "deleted"
  BY <1>1 DEF IInv, Stores, ReceiptTells
<1> QED BY <1>1, <1>2, <1>3 DEF FailuresAreFinal

LEMMA EvidenceAccepted ==
  ASSUME IInv PROVE EvidenceIsAccepted
<1>1. pc # "refused" BY DEF IInv, Control, Recoveries, Places
<1> QED BY <1>1 DEF IInv, EvidenceIsAccepted

\* Every canary, whatever the crashes, the failed operations, the operator and the
\* clock: one request, true receipts, evidence that no later process refuses, and
\* failures that leave no live capture (CanaryIntegrity).
THEOREM CanariesAreSound == CanarySpec => []CanaryIntegrity
<1>1. IInv => CanaryIntegrity
  BY RequestAccounted, ReceiptIsTrue, EvidenceAccepted, FailureIsFinal DEF CanaryIntegrity
<1> QED BY Invariance, <1>1, PTL

\* Only the two steps that append a result change it.
LEMMA ResultKept ==
  ASSUME CanaryNext
  PROVE  \/ UNCHANGED result
         \/ \E t \in Times : Kept(Complete(t)) \/ Kept(Deny(t))
<1> USE DEF Kept, durable, Pure
<1>1. Kept(Live) \/ Kept(Caught) => UNCHANGED result
  BY DEF Live, Admit, Claim, Recheck, Prepare, Send, Seal, Capture, Shred, Project, Caught
<1>2. Kept(Boot) \/ Kept(RecoverLate) \/ Kept(Execute) \/ Kept(Crash) \/ Kept(Fault)
      \/ Kept(PutOff) \/ Kept(OperatorNext) => UNCHANGED result
  BY DEF Boot, RecoverLate, Execute, Crash, Fault, PutOff, OperatorNext, Operate
<1>3. \A p : Kept(CloseFrom(p)) => UNCHANGED result BY DEF CloseFrom
<1>4. \A t : OpenSeaStorage(t) \/ BaseTidy(t) => UNCHANGED result
  BY DEF OpenSeaStorage, BaseTidy, StoragePending, StorageRepair, StorageReconcile,
     TidyPending, TidyDeletion, TidyOrphan, RemoveInterrupted, RepairDeletion, ReconcileOrphan,
     Refuse
<1>5. \A t : Kept(Authorize(t)) \/ Kept(Reserve(t)) \/ Kept(Begin(t)) \/ Kept(Dispatch(t))
             \/ Kept(Consume(t)) \/ Kept(Commit(t)) => UNCHANGED result
  BY DEF Authorize, Reserve, Begin, Dispatch, Consume, Commit
<1>6. \A t, k : Kept(Receive(k, t)) => UNCHANGED result BY DEF Receive
<1>7. Kept(CloseAttempt) \/ Kept(Destroy) \/ Kept(RecordDeletion) \/ Kept(AppendReceipt)
      => UNCHANGED result
  BY DEF CloseAttempt, Destroy, RecordDeletion, AppendReceipt
<1>8. Kept(CloseFailed) \/ Kept(RemovePending) \/ Kept(AppendFailure) \/ Kept(Recover)
      \/ Kept(Resume) => UNCHANGED result
  BY DEF CloseFailed, RemovePending, AppendFailure, Recover, Resume
<1>9. PersistFailure \/ BasePersistFailure \/ ShutAttempt \/ DropPending \/ AppendFailureReceipt
      \/ OpenSeaRecover \/ BaseRecover \/ Refuse => UNCHANGED result
  BY DEF PersistFailure, BasePersistFailure, ShutAttempt, DropPending, AppendFailureReceipt,
     OpenSeaRecover, BaseRecover, Refuse
<1> HIDE DEF Kept, durable, Pure
<1>10. CASE Kept(Next)
  <2>1. \/ Kept(Live) \/ Kept(Caught) \/ Kept(Recover) \/ Kept(Resume)
        \/ Kept(CloseAttempt) \/ Kept(Destroy) \/ Kept(RecordDeletion) \/ Kept(AppendReceipt)
        \/ Kept(CloseFailed) \/ Kept(RemovePending) \/ Kept(AppendFailure)
        \/ Kept(StorageRepair) \/ Kept(StorageReconcile) \/ \E t \in Times : Kept(Timed(t))
        \/ Kept(Boot) \/ Kept(RecoverLate) \/ Kept(Execute) \/ Kept(CloseFrom("spent"))
        \/ Kept(Crash) \/ Kept(Fault) \/ Kept(PutOff) \/ Kept(OperatorNext)
    BY <1>10 DEF Kept, Next, HostNext, Step, Finish, Recovery, Close
  <2>2. CASE Kept(StorageRepair) \/ Kept(StorageReconcile)
    BY <2>2, <1>4 DEF OpenSeaStorage
  <2>3. CASE \E t \in Times : Kept(Timed(t))
    <3>1. PICK t \in Times : Kept(Timed(t)) BY <2>3
    <3> QED BY <3>1, <1>4, <1>5, <1>6 DEF Kept, Timed, OpenSeaStorage
  <2> QED BY <2>1, <2>2, <2>3, <1>1, <1>2, <1>3, <1>7, <1>8
<1>11. CASE OpenSeaNext
  <2>1. CASE OpenSeaLive
    <3>1. Kept(Live) \/ Kept(Caught)
      BY <2>1 DEF OpenSeaLive, OpenSeaAdmit, OpenSeaClaim, OpenSeaRecheck, OpenSeaPrepare,
         OpenSeaSend, OpenSeaSeal, OpenSeaCapture, OpenSeaShred, OpenSeaProject, OpenSeaCaught,
         Kept, Live
    <3> QED BY <3>1, <1>1
  <2>2. CASE OpenSeaFinish
    BY <2>2, <1>4, <1>7, <1>9
    DEF OpenSeaFinish, OpenSeaCloseAttempt, OpenSeaDestroy, OpenSeaRecordDeletion,
        OpenSeaReceipt, BaseTidy
  <2>3. CASE OpenSeaRecover \/ OpenSeaResume BY <2>3, <1>8, <1>9 DEF OpenSeaResume
  <2>4. CASE \E t \in Times : OpenSeaTimed(t) \/ \E k \in Contents : OpenSeaReceive(k, t)
    BY <2>4, <1>4, <1>5, <1>6
    DEF OpenSeaTimed, OpenSeaReceive, OpenSeaAuthorize, OpenSeaReserve, OpenSeaBegin,
        OpenSeaDispatch, OpenSeaCommit, OpenSeaComplete, OpenSeaDeny, BaseTidy
  <2>5. CASE OpenSeaBoot \/ OpenSeaRecoverLate \/ OpenSeaExecute \/ OpenSeaClose \/ OpenSeaPutOff
             \/ Kept(Crash) \/ Kept(Fault) \/ Kept(OperatorNext)
    BY <2>5, <1>2, <1>3 DEF OpenSeaBoot, OpenSeaRecoverLate, OpenSeaExecute, OpenSeaClose, Kept,
       Close, OpenSeaPutOff
  <2> QED BY <1>11, <2>1, <2>2, <2>3, <2>4, <2>5 DEF OpenSeaNext, OpenSeaStep
<1>12. CASE BaseNext
  <2>1. CASE BaseLive
    <3>1. Kept(Live) \/ Kept(Caught)
      BY <2>1 DEF BaseLive, BaseAdmit, BaseClaim, BaseRecheck, BasePrepare, BaseSend, BaseSeal,
         BaseCapture, BaseShred, BaseProject, BaseCaught, OpenSeaAdmit, OpenSeaClaim,
         OpenSeaRecheck, OpenSeaPrepare, OpenSeaSend, OpenSeaSeal, OpenSeaCapture,
         OpenSeaShred, OpenSeaProject, OpenSeaCaught, Kept, Live
    <3> QED BY <3>1, <1>1
  <2>2. CASE BaseFinish
    BY <2>2, <1>4, <1>7, <1>9
    DEF BaseFinish, BaseCloseAttempt, BaseDestroy, BaseRecordDeletion, BaseReceipt,
        OpenSeaCloseAttempt, OpenSeaDestroy, OpenSeaRecordDeletion, OpenSeaReceipt,
        BaseShutAttempt, BaseDropPending, BaseFailureReceipt
  <2>3. CASE BaseRecover \/ BaseResume BY <2>3, <1>8, <1>9 DEF BaseResume, OpenSeaResume
  <2>4. CASE \E t \in Times : BaseTimed(t) \/ \E k \in BaseContents : BaseReceive(k, t)
    BY <2>4, <1>4, <1>5, <1>6
    DEF BaseTimed, BaseReceive, BaseAuthorize, BaseReserve, BaseBegin, BaseDispatch, BaseCommit,
        BaseComplete, BaseDeny, OpenSeaReceive, OpenSeaAuthorize, OpenSeaReserve, OpenSeaBegin,
        OpenSeaDispatch, OpenSeaCommit, OpenSeaComplete, OpenSeaDeny
  <2>5. CASE BaseBoot \/ BaseRecoverLate \/ BaseExecute \/ BaseClose \/ BasePutOff
             \/ Kept(Crash) \/ Kept(Fault) \/ Kept(OperatorNext)
    BY <2>5, <1>2, <1>3 DEF BaseBoot, OpenSeaBoot, BaseRecoverLate, BaseExecute, OpenSeaExecute,
       BaseClose, Kept, Close, BasePutOff, OpenSeaPutOff
  <2> QED BY <1>12, <2>1, <2>2, <2>3, <2>4, <2>5 DEF BaseNext, BaseStep
<1> QED BY <1>10, <1>11, <1>12 DEF CanaryNext

\* A result is appended once, and one that is not a denial under the authorization of
\* the check, still standing: no mode change, STOP or new process since
\* (ResultsUnderAuthority).
THEOREM ResultsStayAuthorized == CanarySpec => ResultsUnderAuthority
<1> DEFINE Authorized ==
      /\ result # None => result' = result
      /\ result = None /\ result' # None /\ ~result'.denied =>
           /\ check.decision = "allowed"
           /\ runtime.mode # "STOPPED"
           /\ runtime.revision = check.revision /\ runtime.process = check.process
<1>1. IInv /\ [CanaryNext]_canaryVars => [Authorized]_vars
  <2> SUFFICES ASSUME IInv, [CanaryNext]_canaryVars PROVE [Authorized]_vars OBVIOUS
  <2>1. CASE UNCHANGED canaryVars BY <2>1 DEF canaryVars, openSeaVars
  <2>2. CASE UNCHANGED result BY <2>2
  <2>3. ASSUME NEW t \in Times, Kept(Deny(t)) PROVE Authorized
    <3>1. Captured BY <2>3 DEF IInv, Control, Ending, Kept, Deny, At
    <3>2. result' = Candidate(TRUE, t) BY <2>3, <3>1, CapturedIs DEF Kept, Deny
    <3>3. result'.denied BY <3>2 DEF Candidate
    <3> QED BY <3>1, <3>3 DEF Captured
  <2>4. ASSUME NEW t \in Times, Kept(Complete(t)) PROVE Authorized
    <3>1. Captured BY <2>4 DEF IInv, Control, Ending, Kept, Complete, At
    <3>2. RuntimeChecked /\ RuntimeEvidence
      BY <3>1 DEF Captured, IInv, Stores, RecordsFollow, CheckBinds
    <3>3. result' # None => Standing
      BY <2>4, <3>1 DEF Kept, Complete, Captured
    <3> QED BY <3>1, <3>2, <3>3 DEF Captured, Standing, RuntimeEvidence
  <2> QED BY <2>1, <2>2, <2>3, <2>4, ResultKept
<1> QED BY Invariance, <1>1, PTL DEF CanarySpec, ResultsUnderAuthority

-----------------------------------------------------------------------------
(* The collectors on their own: what they report. *)

\* What a collector has in hand while it waits, and that one which gave up before
\* the transport answered was aborted or timed out: a late answer reports nothing.
CollectorInv ==
  /\ provider \in {"x", "opensea", "base"}
  /\ phase \in {"idle", "fetching", "reading", "done"}
  /\ chunks \in Nat /\ chunks <= Limit + 1
  /\ timer = "armed" <=> phase \in {"fetching", "reading"}
  /\ phase # "done" => reported = None /\ copy = "none"
  /\ phase = "idle" => transport = "none"
  /\ phase = "fetching" => transport = "pending" /\ dispatch \in {"committed", "failed"} /\ ~signal
  /\ transport \in {"none", "pending"} => body = "none" /\ answer = None /\ chunks = 0
  /\ phase = "reading" =>
       /\ transport = "answered" /\ dispatch \in {"committed", "failed"} /\ ~signal
       /\ body = "open" /\ chunks <= Limit
       /\ answer.status = "200" /\ ~answer.null
  /\ transport = "pending" /\ phase = "done" => signal \/ timer = "fired"
  /\ reported = "TIMEOUT" => timer = "fired" /\ body # "ended"
  /\ provider # "x" /\ body = "open" => phase = "reading"
  /\ reported = "response" => transport # "pending"
  /\ transport = "rejected" => answer = None

\* With it the report is inductive.
ReportInv == CollectorInv /\ ReportsTheTruth

\* A step of nobody keeps them.
LEMMA ReportsKept ==
  ASSUME ReportInv, UNCHANGED C!collectorVars PROVE ReportInv'
<1> QED BY DEF ReportInv, CollectorInv, ReportsTheTruth, C!ReportsTheTruth, C!NothingLeftOpen,
        C!collectorVars

\* A request is launched, or refused before it is.
LEMMA CollectHolds ==
  ASSUME ReportInv, C!Collect PROVE ReportInv'
<1> QED
  BY LimitAssumption, NoReportAssumption DEF C!Collect, ReportInv, CollectorInv,
        ReportsTheTruth, C!ReportsTheTruth, C!NothingLeftOpen

\* The caller aborts: a body that is being read is cancelled first.
LEMMA AbortHolds ==
  ASSUME ReportInv, C!Abort PROVE ReportInv'
<1> QED
  BY LimitAssumption, NoReportAssumption DEF C!Abort, C!Waiting, C!Settle, ReportInv,
        CollectorInv, ReportsTheTruth, C!ReportsTheTruth, C!NothingLeftOpen

\* The timer fires while the request waits.
LEMMA TimeoutHolds ==
  ASSUME ReportInv, C!Timeout PROVE ReportInv'
<1> QED
  BY LimitAssumption, NoReportAssumption DEF C!Timeout, ReportInv, CollectorInv,
        ReportsTheTruth, C!ReportsTheTruth, C!NothingLeftOpen

\* The transport fails, in time or late.
LEMMA FailHolds ==
  ASSUME ReportInv, C!Fail PROVE ReportInv'
<1>1. /\ transport = "pending" /\ transport' = "rejected" /\ answer' = None /\ phase # "reading"
      /\ UNCHANGED <<provider, signal, dispatch, answer, body, chunks>>
  BY DEF C!Fail, ReportInv, CollectorInv
<1>2. CASE phase = "fetching"
  <2>1. /\ phase' = "done" /\ timer' # "armed" /\ copy' = copy
        /\ reported' \in {"RUNTIME_AUTHORIZATION_FAILED", "TRANSPORT_FAILURE"}
    BY <1>2 DEF C!Fail, C!Settle
  <2>2. CollectorInv' BY <1>1, <1>2, <2>1 DEF ReportInv, CollectorInv
  <2>3. ReportsTheTruth'
    BY <1>1, <1>2, <2>1 DEF ReportInv, CollectorInv, ReportsTheTruth, C!ReportsTheTruth,
            C!NothingLeftOpen
  <2> QED BY <2>2, <2>3 DEF ReportInv
<1>3. CASE phase # "fetching"
  <2>1. UNCHANGED <<phase, timer, reported, copy>> BY <1>3 DEF C!Fail
  <2>2. CollectorInv' BY <1>1, <1>3, <2>1 DEF ReportInv, CollectorInv
  <2>3. ReportsTheTruth'
    BY <1>1, <1>3, <2>1 DEF ReportInv, CollectorInv, ReportsTheTruth, C!ReportsTheTruth,
            C!NothingLeftOpen
  <2> QED BY <2>2, <2>3 DEF ReportInv
<1> QED BY <1>2, <1>3

\* The stream breaks off.
LEMMA BreakHolds ==
  ASSUME ReportInv, C!Break PROVE ReportInv'
<1> QED
  BY LimitAssumption, NoReportAssumption DEF C!Break, C!Settle, ReportInv, CollectorInv,
        ReportsTheTruth, C!ReportsTheTruth, C!NothingLeftOpen

\* The next chunk: at most one goes past the limit, and ends the request.
LEMMA ChunkHolds ==
  ASSUME ReportInv, C!Chunk PROVE ReportInv'
<1> QED
  BY LimitAssumption, NoReportAssumption DEF C!Chunk, C!Settle, ReportInv, CollectorInv,
        ReportsTheTruth, C!ReportsTheTruth, C!NothingLeftOpen

\* What a verdict never is, and what it says of the status.
Judged(v, r) == v \notin {"response", "TIMEOUT", "ABORTED"} /\ (v = "read" => r.status = "200")

\* What the headers come to.
LEMMA HeadersAre ==
  ASSUME NEW r
  PROVE C!Headers(r) \in {"UNSUPPORTED_CONTENT_ENCODING", "UNSUPPORTED_CONTENT_TYPE",
                          "RESPONSE_TOO_LARGE", "read"}
<1> QED BY DEF C!Headers

\* The X collector reads only an OK.
LEMMA XVerdictIs == ASSUME NEW r PROVE Judged(C!XVerdict(r), r)
<1> QED BY HeadersAre DEF C!XVerdict, Judged

\* The OpenSea collector tells a demand for payment from everything else.
LEMMA OpenSeaVerdictIs ==
  ASSUME NEW r
  PROVE /\ Judged(C!OpenSeaVerdict(r), r)
        /\ (C!OpenSeaVerdict(r) = "PAYMENT_REQUIRED") <=> (r.status = "402")
<1> QED BY HeadersAre DEF C!OpenSeaVerdict, Judged

\* So does the Base RPC collector.
LEMMA BaseVerdictIs ==
  ASSUME NEW r
  PROVE /\ Judged(C!BaseVerdict(r), r)
        /\ (C!BaseVerdict(r) = "PAYMENT_REQUIRED") <=> (r.status = "402")
<1> QED BY HeadersAre DEF C!BaseVerdict, Judged

\* Whatever collector it is, its verdict on the headers is no response, time-out or abort.
LEMMA VerdictIs ==
  ASSUME NEW r, provider \in {"x", "opensea", "base"}
  PROVE /\ Judged(C!Verdict(r), r)
        /\ provider # "x" => ((C!Verdict(r) = "PAYMENT_REQUIRED") <=> (r.status = "402"))
<1> QED BY XVerdictIs, OpenSeaVerdictIs, BaseVerdictIs DEF C!Verdict, Judged

\* What has been read whole is a response only if it has the declared length.
LEMMA ContentIs ==
  ASSUME NEW r, NEW n
  PROVE /\ C!Content(r, n) \notin {"TIMEOUT", "ABORTED", "PAYMENT_REQUIRED"}
        /\ C!Content(r, n) = "response" => r.declared \in {None, n}
<1> QED BY DEF C!Content

\* The stream ends.
LEMMA EndHolds ==
  ASSUME ReportInv, C!End PROVE ReportInv'
<1> QED
  BY LimitAssumption, NoReportAssumption, ContentIs DEF C!End, C!Settle, ReportInv,
        CollectorInv, ReportsTheTruth, C!ReportsTheTruth, C!NothingLeftOpen

\* A late answer changes no report, and is cancelled where the collector does so.
LEMMA LateAnswerHolds ==
  ASSUME ReportInv, NEW r, C!Answer(r), phase # "fetching" PROVE ReportInv'
<1> QED
  BY LimitAssumption, NoReportAssumption DEF C!Answer, C!Rejected, ReportInv, CollectorInv,
        ReportsTheTruth, C!ReportsTheTruth, C!NothingLeftOpen

\* An answer in time whose status or headers are refused.
LEMMA RefusedAnswerHolds ==
  ASSUME ReportInv, NEW r, C!Answer(r), phase = "fetching", C!Verdict(r) # "read" PROVE ReportInv'
<1> QED
  BY LimitAssumption, NoReportAssumption, VerdictIs DEF Judged, C!Answer, C!Rejected, C!Settle,
        ReportInv, CollectorInv, ReportsTheTruth, C!ReportsTheTruth, C!NothingLeftOpen

\* One without a body, judged at once.
LEMMA EmptyAnswerHolds ==
  ASSUME ReportInv, NEW r, C!Answer(r), phase = "fetching", C!Verdict(r) = "read", r.null
  PROVE ReportInv'
<1> QED
  BY LimitAssumption, NoReportAssumption, VerdictIs, ContentIs DEF Judged, C!Answer, C!Settle,
        ReportInv, CollectorInv, ReportsTheTruth, C!ReportsTheTruth, C!NothingLeftOpen

\* One whose body is then read.
LEMMA OpenAnswerHolds ==
  ASSUME ReportInv, NEW r, C!Answer(r), phase = "fetching", C!Verdict(r) = "read", ~r.null
  PROVE ReportInv'
<1> QED
  BY LimitAssumption, NoReportAssumption, VerdictIs, ContentIs DEF Judged, C!Answer, ReportInv,
        CollectorInv, ReportsTheTruth, C!ReportsTheTruth, C!NothingLeftOpen

\* What a collector reports is so, whatever the limit, the answer, its flaws and the
\* order of abort, timer and network; the later two leave no response open
\* (ReportsTheTruth).
THEOREM ReportsStayTrue == C!CollectorSpec => []ReportsTheTruth
<1>1. C!Init => ReportInv
  BY LimitAssumption, NoReportAssumption DEF C!Init, ReportInv, CollectorInv, ReportsTheTruth,
          C!ReportsTheTruth, C!NothingLeftOpen
<1>2. ReportInv /\ [C!Next]_(C!collectorVars) => ReportInv'
  <2> SUFFICES ASSUME ReportInv, [C!Next]_(C!collectorVars) PROVE ReportInv' OBVIOUS
  <2>1. CASE C!Launch
    BY <2>1, CollectHolds DEF C!Launch, C!XCollect, C!OpenSeaCollect, C!BaseCollect
  <2>2. CASE \E r \in C!Answers : C!Answer(r)
    BY <2>2, LateAnswerHolds, RefusedAnswerHolds, EmptyAnswerHolds, OpenAnswerHolds
  <2>3. CASE C!Chunk BY <2>3, ChunkHolds
  <2>4. CASE C!End BY <2>4, EndHolds
  <2>5. CASE C!Fail BY <2>5, FailHolds
  <2>6. CASE C!Break BY <2>6, BreakHolds
  <2>7. CASE C!Abort BY <2>7, AbortHolds
  <2>8. CASE C!Timeout BY <2>8, TimeoutHolds
  <2>9. CASE UNCHANGED C!collectorVars BY <2>9, ReportsKept
  <2> QED BY <2>1, <2>2, <2>3, <2>4, <2>5, <2>6, <2>7, <2>8, <2>9 DEF C!Next, C!Network
<1>3. ReportInv => ReportsTheTruth BY DEF ReportInv
<1> QED BY <1>1, <1>2, <1>3, PTL DEF C!CollectorSpec

=============================================================================
