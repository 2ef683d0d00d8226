------------------------------ MODULE Keychain ------------------------------
(***************************************************************************)
(* What the canary hosts ask of the macOS Keychain: whether the provider's *)
(* four items are there, their contents for the time of one call, and the  *)
(* one-shot marker that is made at most once for all processes.  Every     *)
(* question is a command of its own that may be refused, time out or       *)
(* answer nonsense, and the owner of the Keychain changes items between    *)
(* two of them.  Which provider the items belong to makes no difference.   *)
(***************************************************************************)
EXTENDS Naturals, Sequences, FiniteSets

CONSTANTS
  Uses,           \* calls of status, withSecrets and withStorageSecrets
  Claimants,      \* claim hosts, one per process
  None,
  MaxUpsets       \* bound: failing commands and changes made by the owner

VARIABLES
  item,           \* name |-> "absent", "sound" or "malformed"
  use,            \* call |-> [kind, phase, next, outcome]
  key,            \* call |-> name |-> None, "whole" or "wiped": the key buffers it made
  marker,         \* the one-shot item is there
  claim,          \* claimant |-> [used, phase, outcome, seen]
  claimed,        \* claims that succeeded so far
  upsets

useVars == <<item, use, key>>
claimVars == <<marker, claim, claimed>>
keychainVars == <<useVars, claimVars, upsets>>

\* The order in which the items are read; the first is a string, the others keys.
Names == <<"bearerToken", "operationsStateKey", "captureRegistryKey", "vaultWrappingKey">>
Keys == {Names[i] : i \in 2..Len(Names)}

KeychainInit ==
  /\ item \in [{Names[i] : i \in DOMAIN Names} -> {"sound"}]
  /\ use = [u \in Uses |-> [kind |-> None, phase |-> "new", next |-> 0, outcome |-> None]]
  /\ key = [u \in Uses |-> [n \in Keys |-> None]]
  /\ marker = FALSE /\ claimed = 0 /\ upsets = 0
  /\ claim = [h \in Claimants |-> [used |-> FALSE, phase |-> "idle", outcome |-> None, seen |-> None]]

Upset == upsets < MaxUpsets /\ upsets' = upsets + 1
Quiet == UNCHANGED upsets

-----------------------------------------------------------------------------
(* Reading the items. *)

StartUse(u, kind) ==
  /\ use[u].phase = "new"
  /\ use' = [use EXCEPT ![u] = [kind |-> kind, phase |-> "reading",
                                next |-> IF kind = "storage" THEN 2 ELSE 1, outcome |-> None]]
  /\ UNCHANGED <<item, key, claimVars, upsets>>

Name(u) == Names[use[u].next]
Reading(u) == use[u].phase = "reading"

\* normalizeCommandResult and the exit codes: what a command says of an item.
\* A reading also decodes what it is given.
Replies(u) ==
  CASE item[Name(u)] = "absent" -> {"missing"}
    [] item[Name(u)] = "malformed" /\ use[u].kind # "status" -> {"invalid"}
    [] OTHER -> {"found"}

\* The finally of #withStorageSecretValues: whatever happened, every key that was read.
Wiped(u) == [n \in Keys |-> IF key[u][n] = None THEN None ELSE "wiped"]

EndsUse(u, outcome) ==
  /\ use' = [use EXCEPT ![u].phase = "done", ![u].outcome = outcome]
  /\ key' = [key EXCEPT ![u] = Wiped(u)]

\* status: the first item that is not simply there decides.
StatusStep(u, reply) ==
  /\ Reading(u) /\ use[u].kind = "status"
  /\ CASE reply = "missing" -> EndsUse(u, "missing")
       [] reply = "failed" -> EndsUse(u, "unavailable")
       [] reply = "found" /\ use[u].next = Len(Names) -> EndsUse(u, "configured")
       [] OTHER -> use' = [use EXCEPT ![u].next = @ + 1] /\ UNCHANGED key

\* #readBearerToken and #readStorageKey.
ReadStep(u, reply) ==
  /\ Reading(u) /\ use[u].kind # "status"
  /\ IF reply # "found" THEN EndsUse(u, IF reply = "failed" THEN "unavailable" ELSE reply)
     ELSE /\ key' = [key EXCEPT ![u] = [n \in Keys |-> IF n = Name(u) THEN "whole" ELSE @[n]]]
          /\ use' = IF use[u].next = Len(Names) THEN [use EXCEPT ![u].phase = "consuming"]
                    ELSE [use EXCEPT ![u].next = @ + 1]

\* One command: the Keychain's answer, or none that can be used.
ReadItem(u) ==
  /\ Reading(u)
  /\ \/ \E reply \in Replies(u) : (StatusStep(u, reply) \/ ReadStep(u, reply)) /\ Quiet
     \/ (StatusStep(u, "failed") \/ ReadStep(u, "failed")) /\ Upset
  /\ UNCHANGED <<item, claimVars>>

\* The consumer's promise settles, either way.
ConsumerEnds(u) ==
  /\ use[u].phase = "consuming"
  /\ \/ EndsUse(u, "used") /\ Quiet
     \/ EndsUse(u, "error") /\ Upset
  /\ UNCHANGED <<item, claimVars>>

OwnerChanges(n) ==
  /\ Upset /\ \E state \in {"absent", "sound", "malformed"} \ {item[n]} : item' = [item EXCEPT ![n] = state]
  /\ UNCHANGED <<use, key, claimVars>>

-----------------------------------------------------------------------------
(* The one-shot marker. *)

Claiming(h, phase) == claim[h].phase = phase

\* add-generic-password without -U.
Added == IF marker THEN {"duplicate"} ELSE {"added"}

\* claim: a host object asks at most once.
StartClaim(h) ==
  /\ Claiming(h, "idle")
  /\ claim' = [claim EXCEPT ![h] = IF @.used THEN [@ EXCEPT !.outcome = "already"]
                                   ELSE [@ EXCEPT !.used = TRUE, !.phase = "claiming", !.outcome = None]]
  /\ UNCHANGED <<useVars, marker, claimed, upsets>>

\* The command ran, in time or not: when it was late, nobody knows that it ran.
ClaimRuns(h) ==
  /\ Claiming(h, "claiming")
  /\ \E result \in Added :
       /\ marker' = TRUE
       /\ \/ /\ Quiet /\ claimed' = claimed + (IF result = "added" THEN 1 ELSE 0)
             /\ claim' = [claim EXCEPT ![h].phase = "idle",
                            ![h].outcome = IF result = "added" THEN "claimed" ELSE "already"]
          \/ /\ Upset /\ UNCHANGED claimed
             /\ claim' = [claim EXCEPT ![h].phase = "idle", ![h].outcome = "unavailable"]
  /\ UNCHANGED useVars

ClaimFails(h) ==
  /\ Claiming(h, "claiming") /\ Upset
  /\ claim' = [claim EXCEPT ![h].phase = "idle", ![h].outcome = "unavailable"]
  /\ UNCHANGED <<useVars, marker, claimed>>

\* status of the marker; a host may ask it while a claim is under way.
ClaimStatus(h) ==
  /\ \/ claim' = [claim EXCEPT ![h].seen = IF marker THEN "present" ELSE "missing"] /\ Quiet
     \/ claim' = [claim EXCEPT ![h].seen = "unknown"] /\ Upset
  /\ UNCHANGED <<useVars, marker, claimed>>

\* Another process starts with a host object of its own; a command of the old one
\* that had not run yet runs or does not.
Restart(h) ==
  /\ Upset
  /\ \/ UNCHANGED marker
     \/ Claiming(h, "claiming") /\ marker' = TRUE
  /\ claim' = [claim EXCEPT ![h] = [used |-> FALSE, phase |-> "idle", outcome |-> None, seen |-> None]]
  /\ UNCHANGED <<useVars, claimed>>

-----------------------------------------------------------------------------
KeychainNext ==
  \/ \E u \in Uses : ReadItem(u) \/ ConsumerEnds(u)
  \/ \E u \in Uses, kind \in {"status", "secrets", "storage"} : StartUse(u, kind)
  \/ \E n \in DOMAIN item : OwnerChanges(n)
  \/ \E h \in Claimants : StartClaim(h) \/ ClaimRuns(h) \/ ClaimFails(h) \/ ClaimStatus(h) \/ Restart(h)

KeychainSpec == KeychainInit /\ [][KeychainNext]_keychainVars

-----------------------------------------------------------------------------
(* Properties. *)

\* A key is in memory only while the call that read it runs, whichever of its
\* readings failed and whatever the consumer did; the consumer has all its keys,
\* none of them wiped; and over all processes and restarts at most one claim
\* succeeded, under the marker.
KeychainIsKept ==
  /\ \A u \in Uses, n \in Keys : key[u][n] = "whole" => use[u].phase \in {"reading", "consuming"}
  /\ \A u \in Uses : use[u].phase = "consuming" => \A n \in Keys : key[u][n] = "whole"
  /\ claimed =< 1 /\ (claimed = 1 => marker)

=============================================================================
