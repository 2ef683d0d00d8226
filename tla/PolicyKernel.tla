---------------------------- MODULE PolicyKernel ----------------------------
(***************************************************************************)
(* The policy kernel: what it finds against an intent, given what it has   *)
(* approved so far, and what it remembers of an approval.  A policy is its *)
(* own hash.  The allowlists of chain, target, collection, payment asset   *)
(* and recipient are one set of surfaces; amounts are in one asset.        *)
(***************************************************************************)
EXTENDS Integers, Sequences, FiniteSets, SequencesExt

CONSTANTS DayLength, None

Day(t) == t \div DayLength

NothingApproved == [intents |-> {}, nonces |-> {}, spend |-> {}]

\* What was approved on a day; spend holds one entry a day.
SpentOn(state, day) ==
  LET entries == {s \in state.spend : s.day = day}
  IN  IF entries = {} THEN 0 ELSE (CHOOSE s \in entries : TRUE).amount

If(condition, reason) == IF condition THEN {reason} ELSE {}

IntentReasons(policy, state, i, now) ==
     If(i.policy # policy, "POLICY_HASH_MISMATCH")
\cup If(i.id \in state.intents, "DUPLICATE_INTENT")
\cup If(i.nonce \in state.nonces, "DUPLICATE_NONCE")
\cup If(i.createdAt >= i.expiresAt, "INTENT_TIME_INVALID")
\cup If(i.expiresAt <= now, "INTENT_EXPIRED")
\cup If(i.createdAt > now + policy.skew, "INTENT_FROM_FUTURE")
\cup If(i.surface \notin policy.surfaces, "SURFACE_NOT_ALLOWED")
\cup If(i.amount > policy.perTransaction, "SPEND_LIMIT_EXCEEDED")
\cup If(SpentOn(state, Day(now)) + i.amount > policy.daily, "DAILY_SPEND_LIMIT_EXCEEDED")

TimeInvalid(policy, o, now) ==
  \/ o.acquired > now + policy.skew \/ o.observed > now + policy.skew
  \/ o.observed > o.acquired + policy.skew
  \/ o.until <= o.acquired \/ o.until <= o.observed

Stale(policy, o, now) ==
  now - o.acquired > policy.maxAge \/ now - o.observed > policy.maxAge \/ o.until <= now

\* An OpenSea listing of the very order and token.
IsCanonicalListing(o, i) ==
  o.kind = "opensea" /\ o.order = i.order /\ o.claim = "listing" /\ o.asset = i.asset

\* evidence and observations are sequences; a reference may be doubled or dangling.
EvidenceReasons(policy, i, observations, now) ==
  LET ids == {observations[n].id : n \in DOMAIN observations}
      referenced == {o \in ToSet(observations) : o.id \in ToSet(i.evidence)} IN
     If(~IsInjective(i.evidence) \/ Cardinality(ids) # Len(observations), "DUPLICATE_EVIDENCE")
\cup If(~(ToSet(i.evidence) \subseteq ids), "MISSING_EVIDENCE")
\cup If(\E o \in referenced : TimeInvalid(policy, o, now), "EVIDENCE_TIME_INVALID")
\cup If(\E o \in referenced : Stale(policy, o, now), "STALE_EVIDENCE")
\cup If(\E o \in referenced : o.flagged, "EVIDENCE_INTEGRITY_FLAG")
\cup If(\E o \in referenced : o.asset # i.asset, "EVIDENCE_ASSET_MISMATCH")
\cup If(Cardinality({o.cluster : o \in referenced}) < policy.minClusters, "INSUFFICIENT_INDEPENDENT_EVIDENCE")
\cup If(policy.canonical /\ ~\E o \in referenced : IsCanonicalListing(o, i), "CANONICAL_EVIDENCE_MISSING")

Reasons(policy, state, i, observations, now) ==
  IntentReasons(policy, state, i, now) \cup EvidenceReasons(policy, i, observations, now)

Decision(policy, state, i, observations, now) ==
  LET reasons == Reasons(policy, state, i, observations, now)
  IN  [approved |-> reasons = {}, at |-> now, policy |-> policy, reasons |-> reasons,
       intent |-> IF reasons = {} THEN i ELSE None]

\* Mutant: what is approved is not added to what was spent that day.
Remember_NotTheSpend(state, i, now) ==
  [state EXCEPT !.intents = @ \cup {i.id}, !.nonces = @ \cup {i.nonce}]

Remember(state, i, now) ==
  [intents |-> state.intents \cup {i.id}, nonces |-> state.nonces \cup {i.nonce},
   spend |-> {s \in state.spend : s.day # Day(now)}
             \cup {[day |-> Day(now), amount |-> SpentOn(state, Day(now)) + i.amount]}]

=============================================================================
