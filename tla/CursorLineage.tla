---------------------------- MODULE CursorLineage ----------------------------
(***************************************************************************)
(* The cursor of one source and lane, in the same SQLite file as the       *)
(* attempts of AttemptLedger.  A successful attempt may stage one advance  *)
(* of the cursor.  The advance collects receipts (the persisted event, the *)
(* checkpoint that covers it, the published anchor, its independent        *)
(* verification) and only then replaces the head, if the head is still     *)
(* the one it was staged from.                                             *)
(*                                                                         *)
(* Committing and aborting also destroy encrypted cursors: the transaction *)
(* records that an erasure is pending, and the file is then hardened       *)
(* (truncating checkpoint, VACUUM, truncating checkpoint) before the call  *)
(* returns.  A crash or a failed step leaves the pending bit set, and the  *)
(* next transaction, or the next reopening, hardens the file first.        *)
(*                                                                         *)
(* One store object is open at a time (production takes the writer lock of *)
(* the profile).  Staging, every receipt and the end of an advance are one *)
(* transaction each; their timestamps and receipts come from the caller.   *)
(***************************************************************************)
EXTENDS AttemptLedger, Sequences

CONSTANTS
  Advances,
  EventSequences,  \* sequence numbers of persisted events
  Checkpoints,     \* [through, head] receipts of the checkpoint journal
  Anchors          \* [id, head] receipts of the external anchor

ASSUME EventAssumption == EventSequences \subseteq Nat
ASSUME CheckpointAssumption == \A c \in Checkpoints : c.through \in Nat

Live == {"staged", "validated", "event_persisted", "checkpointed",
         "anchor_published", "externally_verified"}

\* The states of an advance that ends well, in order.
StateOrder == <<"staged", "validated", "event_persisted", "checkpointed",
                "anchor_published", "externally_verified", "committed">>

HeadRow == [revision : Nat, value : Advances \cup {None}, updatedAt : Nat]
AdvanceRow == [attempt : Attempts, base : Nat, state : Live \cup {"committed", "aborted"},
               stagedAt : Nat, event : EventSequences \cup {None},
               checkpoint : Checkpoints \cup {None}, anchor : Anchors \cup {None}]

ASSUME NoRowAssumption ==
  /\ None \notin Advances /\ None \notin HeadRow /\ None \notin AdvanceRow
  /\ None \notin Checkpoints /\ None \notin Anchors

VARIABLES
  head,      \* the row of the cursor, or None
  advances,  \* the row of each advance, or None
  audit,     \* the audit events of each advance
  pending,   \* the metadata bit: an erasure was started and not finished
  residue,   \* encrypted cursors that were destroyed and are still in the file
  serving,   \* a store object is open
  step,      \* how far its hardening is: "none", "started" or "hardened"
  call,      \* the advance whose commit or abort has not returned yet, or None
  returned   \* history: the advances whose commit or abort has returned

cursorVars == <<head, advances, audit, pending, residue, serving, step, call, returned>>
vars == <<attemptVars, cursorVars>>

Candidate(x) == <<"candidate", x>>
HeadOf(r) == <<"head", r>>

Exists(x) == advances[x] # None
In(x, state) == Exists(x) /\ advances[x].state = state
IsLive(x) == Exists(x) /\ advances[x].state \in Live
CommittedAdvances == {x \in Advances : In(x, "committed")}

Event(type, t, receipt) == [type |-> type, at |-> t, receipt |-> receipt]
LastAt(x) == audit[x][Len(audit[x])].at
Audited(x, type) == {i \in DOMAIN audit[x] : audit[x][i].type = type}

\* transaction() hardens the file first, so an operation runs when nothing is pending.
Idle == serving /\ call = None /\ ~pending

-----------------------------------------------------------------------------
(* The lineage and its advances. *)

InitializeLineage(t) ==
  /\ Idle /\ head = None
  /\ head' = [revision |-> 0, value |-> None, updatedAt |-> t]
  /\ UNCHANGED <<attemptVars, advances, audit, pending, residue, serving, step, call, returned>>

\* Mutant: an attempt that was answered with an error may move the cursor too.
Stageable_AnyOutcome(a, t) ==
  /\ \A y \in Advances : Exists(y) => advances[y].attempt # a
  /\ attempts[a] # None /\ attempts[a].state = "closed"
  /\ t >= head.updatedAt /\ t >= attempts[a].closedAt

Stageable(a, t) ==
  /\ \A y \in Advances : Exists(y) => advances[y].attempt # a
  /\ attempts[a] # None /\ attempts[a].state = "closed" /\ Succeeded(a)
  /\ t >= head.updatedAt /\ t >= attempts[a].closedAt

\* The caller names the revision it expects; only the current one is accepted.
Stage(x, a, t) ==
  /\ Idle /\ head # None /\ ~Exists(x)
  /\ Stageable(a, t)
  /\ advances' = [advances EXCEPT ![x] =
       [attempt |-> a, base |-> head.revision, state |-> "staged", stagedAt |-> t,
        event |-> None, checkpoint |-> None, anchor |-> None]]
  /\ audit' = [audit EXCEPT ![x] = <<Event("staged", t, None)>>]
  /\ UNCHANGED <<attemptVars, head, pending, residue, serving, step, call, returned>>

NotRegressed(x, t) == t >= advances[x].stagedAt /\ t >= LastAt(x)

\* transitionAdvance: from one state to the next, with the receipt in the audit.
Transition(x, from, row, t, receipt) ==
  /\ Idle /\ In(x, from)
  /\ NotRegressed(x, t)
  /\ advances' = [advances EXCEPT ![x] = row]
  /\ audit' = [audit EXCEPT ![x] = Append(@, Event(row.state, t, receipt))]
  /\ UNCHANGED <<attemptVars, head, pending, residue, serving, step, call, returned>>

MarkValidated(x, t) ==
  Transition(x, "staged", [advances[x] EXCEPT !.state = "validated"], t, None)

MarkEventPersisted(x, sequence, t) ==
  Transition(x, "validated",
    [advances[x] EXCEPT !.state = "event_persisted", !.event = sequence], t, sequence)

\* Mutant: any checkpoint will do.
Covers_Any(x, checkpoint) == checkpoint.through >= 0

Covers(x, checkpoint) == checkpoint.through >= advances[x].event

MarkCheckpointed(x, checkpoint, t) ==
  /\ In(x, "event_persisted") /\ Covers(x, checkpoint)
  /\ Transition(x, "event_persisted",
       [advances[x] EXCEPT !.state = "checkpointed", !.checkpoint = checkpoint], t, checkpoint)

MarkAnchorPublished(x, anchor, t) ==
  /\ In(x, "checkpointed") /\ advances[x].checkpoint.head = anchor.head
  /\ Transition(x, "checkpointed",
       [advances[x] EXCEPT !.state = "anchor_published", !.anchor = anchor], t, anchor)

MarkExternallyVerified(x, anchor, t) ==
  /\ In(x, "anchor_published") /\ advances[x].anchor = anchor
  /\ Transition(x, "anchor_published",
       [advances[x] EXCEPT !.state = "externally_verified"], t, anchor)

\* Mutant: the head may have moved since the advance was staged.
HeadUnchanged_Ignored(x) == head # None

HeadUnchanged(x) == head # None /\ head.revision = advances[x].base

Committable(x, t) ==
  /\ In(x, "externally_verified") /\ Succeeded(advances[x].attempt)
  /\ NotRegressed(x, t)
  /\ HeadUnchanged(x)
  /\ t >= head.updatedAt

CommitCursor(x, t) ==
  /\ Idle /\ Committable(x, t)
  /\ head' = [revision |-> advances[x].base + 1, value |-> x, updatedAt |-> t]
  /\ advances' = [advances EXCEPT ![x].state = "committed"]
  /\ audit' = [audit EXCEPT ![x] = Append(@, Event("committed", t, None))]
  /\ pending' = TRUE
  /\ residue' = residue \cup {Candidate(x)}
                \cup (IF head.value = None THEN {} ELSE {HeadOf(head.revision)})
  /\ call' = x
  /\ UNCHANGED <<attemptVars, serving, step, returned>>

AbortCursorAdvance(x, t) ==
  /\ Idle /\ IsLive(x)
  /\ NotRegressed(x, t)
  /\ advances' = [advances EXCEPT ![x].state = "aborted"]
  /\ audit' = [audit EXCEPT ![x] = Append(@, Event("aborted", t, None))]
  /\ pending' = TRUE
  /\ residue' = residue \cup {Candidate(x)}
  /\ call' = x
  /\ UNCHANGED <<attemptVars, head, serving, step, returned>>

\* A repeated call must agree with the audit of the first one, its date included.
SameAudit(x, type, t) == \E i \in Audited(x, type) : audit[x][i].at = t

\* The same call again, with the timestamp the audit has: it reports the end
\* that the advance already came to, after whatever hardening was left.
RepeatEnd(x, t) ==
  /\ Idle /\ Exists(x) /\ ~IsLive(x)
  /\ SameAudit(x, advances[x].state, t)
  /\ returned' = returned \cup {x}
  /\ UNCHANGED <<attemptVars, head, advances, audit, pending, residue, serving, step, call>>

-----------------------------------------------------------------------------
(* Hardening, failures and reopening. *)

\* completePendingCursorErasure, run by the call that made the bit pending, at
\* the start of a later transaction, or while the store is being opened.
StartHardening ==
  /\ pending /\ step = "none"
  /\ step' = "started"
  /\ UNCHANGED <<attemptVars, head, advances, audit, pending, residue, serving, call, returned>>

Harden ==
  /\ step = "started"
  /\ residue' = {}
  /\ step' = "hardened"
  /\ UNCHANGED <<attemptVars, head, advances, audit, pending, serving, call, returned>>

ReadyToClear == step = "hardened"

\* A checkpoint follows; if it fails, the call throws although the bit is cleared.
ClearPending ==
  /\ ReadyToClear
  /\ pending' = FALSE
  /\ step' = "none"
  /\ call' = None
  /\ returned' \in {returned, IF call = None THEN returned ELSE returned \cup {call}}
  /\ UNCHANGED <<attemptVars, head, advances, audit, residue, serving>>

\* A checkpoint was busy or a statement failed: the call throws, the bit stays.
HardeningFails ==
  /\ step # "none"
  /\ step' = "none" /\ call' = None
  /\ UNCHANGED <<attemptVars, head, advances, audit, pending, residue, serving, returned>>

Crash ==
  /\ serving \/ step # "none"
  /\ serving' = FALSE
  /\ step' = "none" /\ call' = None
  /\ UNCHANGED <<attemptVars, head, advances, audit, pending, residue, returned>>

ReadyToServe == ~pending /\ step = "none"

Reopen ==
  /\ ~serving /\ ReadyToServe
  /\ serving' = TRUE
  /\ UNCHANGED <<attemptVars, head, advances, audit, pending, residue, step, call, returned>>

-----------------------------------------------------------------------------
(* What the store checks of the cursor before each transaction and when it   *)
(* is opened.  A candidate binding authenticates the advance a value is from. *)

HeadRowSound(row) == (row.revision = 0) <=> (row.value = None)

Reached(row, state) ==
  \E i, j \in DOMAIN StateOrder : StateOrder[i] = state /\ StateOrder[j] = row.state /\ i <= j

AdvanceRowSound(row) ==
  /\ row.state # "aborted" =>
       /\ Reached(row, "event_persisted") <=> (row.event # None)
       /\ Reached(row, "checkpointed") <=> (row.checkpoint # None)
       /\ Reached(row, "anchor_published") <=> (row.anchor # None)
  /\ row.checkpoint # None /\ row.event # None => row.checkpoint.through >= row.event
  /\ row.anchor # None /\ row.checkpoint # None => row.anchor.head = row.checkpoint.head

AdvanceFits(x) ==
  LET attempt == attempts[advances[x].attempt] IN
  /\ head # None /\ attempt # None
  /\ attempt.state = "closed" /\ attempt.outcome = "succeeded"
  /\ advances[x].stagedAt >= attempt.closedAt
  /\ advances[x].base <= head.revision
  /\ In(x, "committed") => Cardinality(Audited(x, "committed")) = 1

CommitTime(x) == audit[x][CHOOSE i \in Audited(x, "committed") : TRUE].at

HeadFits ==
  /\ {advances[x].base : x \in CommittedAdvances} = 0..(head.revision - 1)
  /\ Cardinality(CommittedAdvances) = head.revision
  /\ \A x, y \in CommittedAdvances :
       advances[x].base < advances[y].base => CommitTime(x) <= CommitTime(y)
  /\ head.revision > 0 =>
       /\ head.value \in CommittedAdvances
       /\ advances[head.value].base = head.revision - 1
       /\ CommitTime(head.value) = head.updatedAt

\* First every row, then what the rows say of each other.
VerifyIntegrity ==
  /\ \A b \in Budgets : budgets[b] # None => BudgetRowSound(budgets[b]) /\ BudgetHolds(b)
  /\ \A a \in Attempts : attempts[a] # None => AttemptRowSound(attempts[a]) /\ AttemptFitsBudget(a)
  /\ \A x \in Advances : Exists(x) => AdvanceRowSound(advances[x]) /\ AdvanceFits(x)
  /\ head # None => HeadRowSound(head) /\ HeadFits

-----------------------------------------------------------------------------
CursorInit ==
  /\ head = None
  /\ advances = [x \in Advances |-> None]
  /\ audit = [x \in Advances |-> <<>>]
  /\ pending = FALSE /\ residue = {}
  /\ serving = TRUE /\ step = "none"
  /\ call = None /\ returned = {}

Init == AttemptInit /\ CursorInit

AdvanceNext(x, t) ==
  \/ \E a \in Attempts : Stage(x, a, t)
  \/ MarkValidated(x, t)
  \/ \E n \in EventSequences : MarkEventPersisted(x, n, t)
  \/ \E c \in Checkpoints : MarkCheckpointed(x, c, t)
  \/ \E k \in Anchors : MarkAnchorPublished(x, k, t) \/ MarkExternallyVerified(x, k, t)
  \/ CommitCursor(x, t)
  \/ AbortCursorAdvance(x, t)
  \/ RepeatEnd(x, t)

Next ==
  \/ Idle /\ AttemptNext /\ UNCHANGED cursorVars
  \/ \E t \in Times : InitializeLineage(t)
  \/ \E x \in Advances, t \in Times : AdvanceNext(x, t)
  \/ StartHardening \/ Harden \/ ClearPending \/ HardeningFails
  \/ Crash \/ Reopen

Spec == Init /\ [][Next]_vars

-----------------------------------------------------------------------------
(* Properties. *)

\* The rows of the cursor, its audit and the progress of an erasure.
CursorTypeOK ==
  /\ head \in HeadRow \cup {None}
  /\ advances \in [Advances -> AdvanceRow \cup {None}]
  /\ pending \in BOOLEAN /\ serving \in BOOLEAN
  /\ step \in {"none", "started", "hardened"}
  /\ call \in Advances \cup {None} /\ returned \subseteq Advances
  /\ residue \subseteq ({"candidate"} \X Advances) \cup ({"head"} \X Nat)
  /\ \A x \in Advances : Exists(x) <=> (audit[x] # <<>>)

\* What the operations accept is what verifyIntegrity accepts: receipts that fit the
\* state of their advance, every revision committed once, from the revision before it,
\* at a time no earlier than its predecessor, and the head the last of them.  A row that
\* fails the check shuts the store, which makes it before each transaction.
CursorIntegrity == CursorTypeOK /\ VerifyIntegrity

\* A cursor moves only on a complete chain of evidence, in order: the event,
\* a checkpoint that reaches it, an anchor of that checkpoint, a verification of
\* that anchor (markCursor* and commitCursor against the audit).
CommitsHaveEvidence ==
  \A x \in CommittedAdvances :
    /\ Len(audit[x]) = 7
    /\ \A i \in 1..7 : audit[x][i].type = StateOrder[i]
    /\ audit[x][4].receipt.through >= audit[x][3].receipt
    /\ audit[x][5].receipt.head = audit[x][4].receipt.head
    /\ audit[x][6].receipt = audit[x][5].receipt
    /\ \A i \in 1..6 : audit[x][i].at <= audit[x][i + 1].at

\* When a commit or an abort has returned, the cursors it destroyed are gone
\* from the file; until then the pending bit says that they may not be.
EnvelopesAreErased ==
  /\ residue # {} => pending
  /\ \A x \in returned : Candidate(x) \notin residue

\* What both halves of the store promise their callers: no budget is overdrawn, the file
\* opens again, and nothing destroyed is left where a caller was told that it is gone.
LedgerStaysSound == CursorIntegrity /\ EnvelopesAreErased

Register == INSTANCE CursorRegister WITH
  Proposals <- Advances,
  revision <- IF head = None THEN None ELSE head.revision,
  value <- IF head = None THEN None ELSE head.value,
  base <- [x \in Advances |-> IF IsLive(x) THEN advances[x].base ELSE None],
  verified <- {x \in Advances : In(x, "externally_verified")}

\* The lineage implements a compare-and-swap register that takes only verified
\* proposals.
ImplementsRegister == Register!Spec
=============================================================================
