--------------------------- MODULE ImprovementLoop ---------------------------
(***************************************************************************)
(* The improvement loop: strategies are proposed over the champion, attacked,*)
(* tried on a small live allocation, evaluated and promoted.  Candidates   *)
(* go through this side by side, and the champion may change under them.   *)
(* A candidate is known by what it is: proposed again over the same        *)
(* champion it is the same candidate, and starts over.                     *)
(***************************************************************************)
EXTENDS Integers, Sequences, FiniteSets, SequencesExt, TLC

CONSTANTS
  FirstChampion,
  Versions, Weights, Evidence,
  MaxAllocation, MaxDrawdown, MinSample,
  Amounts,        \* bound: allocations, drawdowns and sample sizes tried
  MaxCandidates,  \* bound
  MaxChampions    \* bound

ASSUME AmountsAssumption ==
  Amounts \subseteq Int /\ {MaxAllocation, MaxDrawdown, MinSample} \subseteq Int

VARIABLES
  candidates,     \* candidate |-> where it stands; the candidate is its own identifier
  champions,      \* the champions so far, the last being the present one
  passed,         \* candidate |-> the results since it was last proposed
  promotions      \* those of the promoted

loopVars == <<candidates, champions, passed, promotions>>

Champion == champions[Len(champions)]

LoopInit == /\ candidates = <<>> /\ passed = <<>>
            /\ champions = <<FirstChampion>> /\ promotions = <<>>

Merged(strategy, version, patch) == [version |-> version, weights |-> patch @@ strategy.weights]

Set(map, id, value) == [x \in DOMAIN map \cup {id} |-> IF x = id THEN value ELSE map[x]]

Propose(version, patch, evidence) ==
  LET next == Merged(Champion, version, patch)
      id == [base |-> Champion.version, evidence |-> evidence, strategy |-> next]
  IN
  /\ version # Champion.version
  /\ id \in DOMAIN candidates \/ Cardinality(DOMAIN candidates) < MaxCandidates
  /\ candidates' = Set(candidates, id, "proposed")
  /\ passed' = Set(passed, id, <<>>)
  /\ UNCHANGED <<champions, promotions>>

\* Mutant: a step of a candidate that is not there yet is taken.
RequireStage_AnyOf(id, stage) ==
  candidates[id] \in IF stage = "canary_complete" THEN {stage, "canary_active"} ELSE {stage}

RequireStage(id, stage) == candidates[id] = stage

Advance(id, stage, result) == /\ candidates' = [candidates EXCEPT ![id] = stage]
                              /\ passed' = [passed EXCEPT ![id] = Append(@, result)]
                              /\ UNCHANGED <<champions, promotions>>
Reject(id) == candidates' = [candidates EXCEPT ![id] = "rejected"] /\ UNCHANGED <<champions, passed, promotions>>

RecordAttackResult(id, ok, escapes) ==
  /\ RequireStage(id, "proposed")
  /\ IF ~ok \/ escapes # 0 THEN Reject(id) ELSE Advance(id, "attack_passed", <<"attack", escapes>>)

StartLiveCanary(id, allocation) ==
  /\ RequireStage(id, "attack_passed") /\ allocation > 0 /\ allocation <= MaxAllocation
  /\ Advance(id, "canary_active", <<"allocated", allocation>>)

RecordCanaryResult(id, escapes, drawdown) ==
  /\ RequireStage(id, "canary_active")
  /\ IF escapes # 0 \/ drawdown > MaxDrawdown THEN Reject(id)
     ELSE Advance(id, "canary_complete", <<"drawdown", drawdown>>)

\* Too small a sample is an error and may be followed by a larger.
RecordEvaluation(id, sample, recommend) ==
  /\ RequireStage(id, "canary_complete") /\ sample >= MinSample
  /\ Advance(id, "evaluated", <<IF recommend THEN "recommended" ELSE "against", sample>>)

Recommended(id) == passed[id][Len(passed[id])][1] = "recommended"

Promote(id) ==
  /\ RequireStage(id, "evaluated")
  /\ IF ~Recommended(id) \/ id.base # Champion.version THEN Reject(id)
     ELSE /\ Len(champions) < MaxChampions
          /\ candidates' = [candidates EXCEPT ![id] = "promoted"]
          /\ champions' = Append(champions, id.strategy)
          /\ promotions' = Append(promotions, [of |-> id, passed |-> passed[id]])
          /\ UNCHANGED passed

LoopNext ==
  \/ \E version \in Versions, patch \in Weights, evidence \in Evidence : Propose(version, patch, evidence)
  \/ \E id \in DOMAIN candidates :
       \/ \E ok \in BOOLEAN, escapes \in 0..1 : RecordAttackResult(id, ok, escapes)
       \/ \E allocation \in Amounts : StartLiveCanary(id, allocation)
       \/ \E escapes \in 0..1, drawdown \in Amounts : RecordCanaryResult(id, escapes, drawdown)
       \/ \E size \in Amounts, recommend \in BOOLEAN : RecordEvaluation(id, size, recommend)
       \/ Promote(id)

LoopSpec == LoopInit /\ [][LoopNext]_loopVars

-----------------------------------------------------------------------------
(* Property. *)

Cleared(results) ==
  /\ Len(results) = 4 /\ results[1] = <<"attack", 0>>
  /\ results[2][1] = "allocated" /\ results[2][2] \in 1..MaxAllocation
  /\ results[3][1] = "drawdown" /\ results[3][2] <= MaxDrawdown
  /\ results[4][1] = "recommended" /\ results[4][2] >= MinSample

\* Each champion but the first came over a champion of the version it was proposed over,
\* once it had passed, since it was last proposed, everything a candidate has to pass; and
\* while versions are not used again, of candidates over one champion one is promoted.
PromotionsAreEarned ==
  /\ Len(champions) = Len(promotions) + 1
  /\ \A n \in DOMAIN promotions :
       /\ promotions[n].of.base = champions[n].version /\ promotions[n].of.strategy = champions[n + 1]
       /\ Cleared(promotions[n].passed)
  /\ \A j, k \in DOMAIN promotions :
       j # k /\ promotions[j].of.base = promotions[k].of.base
         => \E l \in DOMAIN promotions : promotions[l].of.strategy.version = promotions[k].of.base

=============================================================================
