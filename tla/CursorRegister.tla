--------------------------- MODULE CursorRegister ---------------------------
(***************************************************************************)
(* What a cursor lineage promises: a register whose value is replaced by   *)
(* compare-and-swap.  A proposal names the revision it was made from, and  *)
(* is installed only while that is still the revision of the register and  *)
(* only after somebody else has verified it.                               *)
(***************************************************************************)
EXTENDS Naturals

CONSTANTS Proposals, None

VARIABLES
  revision,  \* the revision of the register, or None before it exists
  value,     \* the proposal that was installed last, or None
  base,      \* the revision each live proposal was made from, or None
  verified   \* the live proposals that have been verified

regVars == <<revision, value, base, verified>>

Init == /\ revision = None /\ value = None
        /\ base = [p \in Proposals |-> None]
        /\ verified = {}

Create == /\ revision = None
          /\ revision' = 0
          /\ UNCHANGED <<value, base, verified>>

Propose(p) == /\ revision # None /\ base[p] = None
              /\ base' = [base EXCEPT ![p] = revision]
              /\ UNCHANGED <<revision, value, verified>>

Verify(p) == /\ base[p] # None
             /\ verified' = verified \cup {p}
             /\ UNCHANGED <<revision, value, base>>

Install(p) == /\ p \in verified
              /\ base[p] # None /\ base[p] = revision
              /\ revision' = revision + 1 /\ value' = p
              /\ base' = [base EXCEPT ![p] = None]
              /\ verified' = verified \ {p}

Withdraw(p) == /\ base[p] # None
               /\ base' = [base EXCEPT ![p] = None]
               /\ verified' = verified \ {p}
               /\ UNCHANGED <<revision, value>>

Next == Create \/ \E p \in Proposals : Propose(p) \/ Verify(p) \/ Install(p) \/ Withdraw(p)

Spec == Init /\ [][Next]_regVars
=============================================================================
