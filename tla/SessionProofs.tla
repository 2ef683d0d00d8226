---------------------------- MODULE SessionProofs ----------------------------
(* The records of the session lifecycle and their audit stay sound, a restart  *)
(* leaves no session eligible for egress, and the lifecycle implements the     *)
(* gate.  The invariant is SessionInv: every record has the fields of its      *)
(* state, and its last audit entry is the record as it stands.  The last part  *)
(* is about the closure: what it records is still so when it is recorded.      *)
EXTENDS MCSessionLifecycle, FiniteSetTheorems, TLAPS

USE LifecycleAssumption, NoneAssumption
USE DEF Times

-----------------------------------------------------------------------------
(* Records. *)

\* The rank of each state.
LEMMA Ranks ==
  /\ Rank("planned") = 0 /\ Rank("preflighted") = 1 /\ Rank("running") = 2
  /\ Rank("stopping") = 3 /\ Rank("locally_verified") = 4 /\ Rank("externally_verified") = 5
  /\ Rank("cost_pending") = 6 /\ Rank("accepted") = 7
<1>1. ASSUME NEW k \in 1..7 PROVE Rank(Ranked[k]) = k
  <2>1. k = 1 \/ k = 2 \/ k = 3 \/ k = 4 \/ k = 5 \/ k = 6 \/ k = 7
    OBVIOUS
  <2>2. \A i \in 1..7 : Ranked[i] = Ranked[k] => i = k
    <3>1. SUFFICES ASSUME NEW i \in 1..7, Ranked[i] = Ranked[k] PROVE i = k
      OBVIOUS
    <3>2. i = 1 \/ i = 2 \/ i = 3 \/ i = 4 \/ i = 5 \/ i = 6 \/ i = 7
      OBVIOUS
    <3>3. QED
      BY <2>1, <3>1, <3>2 DEF Ranked
  <2>3. (CHOOSE i \in 1..7 : Ranked[i] = Ranked[k]) = k
    BY <2>2
  <2>4. Ranked[k] # "planned"
    BY <2>1 DEF Ranked
  <2>5. QED
    BY <2>3, <2>4 DEF Rank
<1>2. Rank("planned") = 0
  BY DEF Rank
<1>3. /\ Ranked[1] = "preflighted" /\ Ranked[2] = "running" /\ Ranked[3] = "stopping"
      /\ Ranked[4] = "locally_verified" /\ Ranked[5] = "externally_verified"
      /\ Ranked[6] = "cost_pending" /\ Ranked[7] = "accepted"
  BY DEF Ranked
<1>4. Rank(Ranked[1]) = 1 /\ Rank(Ranked[2]) = 2 /\ Rank(Ranked[3]) = 3 /\ Rank(Ranked[4]) = 4
      /\ Rank(Ranked[5]) = 5 /\ Rank(Ranked[6]) = 6 /\ Rank(Ranked[7]) = 7
  BY <1>1
<1>5. QED
  BY <1>2, <1>3, <1>4

\* What a live record of rank k knows.
KnowsUpTo(r, k) ==
  /\ Known(r.preflightedAt) <=> k >= 1
  /\ Known(r.startedAt) <=> k >= 2
  /\ Known(r.stoppedAt) <=> k >= 3
  /\ Known(r.locallyVerifiedAt) <=> k >= 4
  /\ Known(r.externallyVerifiedAt) <=> k >= 5
  /\ Known(r.costReconciledAt) <=> k >= 6
  /\ Known(r.acceptedAt) <=> k >= 7

\* The progress of a record, fact by fact.
LEMMA ProgressIs ==
  ASSUME NEW r, NEW k \in 0..7
  PROVE  (\A i \in 1..7 : Known(Progress(r)[i]) <=> k >= i) <=> KnowsUpTo(r, k)
<1>1. /\ Progress(r)[1] = r.preflightedAt /\ Progress(r)[2] = r.startedAt /\ Progress(r)[3] = r.stoppedAt
      /\ Progress(r)[4] = r.locallyVerifiedAt /\ Progress(r)[5] = r.externallyVerifiedAt
      /\ Progress(r)[6] = r.costReconciledAt /\ Progress(r)[7] = r.acceptedAt
  BY DEF Progress
<1>2. ASSUME KnowsUpTo(r, k), NEW i \in 1..7 PROVE Known(Progress(r)[i]) <=> k >= i
  <2>1. i = 1 \/ i = 2 \/ i = 3 \/ i = 4 \/ i = 5 \/ i = 6 \/ i = 7
    OBVIOUS
  <2>2. QED
    BY <1>1, <1>2, <2>1 DEF KnowsUpTo
<1>3. ASSUME \A i \in 1..7 : Known(Progress(r)[i]) <=> k >= i PROVE KnowsUpTo(r, k)
  BY <1>1, <1>3 DEF KnowsUpTo
<1>4. QED
  BY <1>2, <1>3

\* The moments of a record, one by one.
LEMMA MomentsAre ==
  ASSUME NEW r
  PROVE  /\ Moments(r)[1] = r.plannedAt /\ Moments(r)[2] = r.observedAt
         /\ Moments(r)[3] = r.preflightedAt /\ Moments(r)[4] = r.startedAt
         /\ Moments(r)[5] = r.minute45 /\ Moments(r)[6] = r.minute90
         /\ Moments(r)[7] = r.stoppedAt /\ Moments(r)[8] = r.locallyVerifiedAt
         /\ Moments(r)[9] = r.externallyVerifiedAt /\ Moments(r)[10] = r.costReconciledAt
         /\ Moments(r)[11] = r.acceptedAt
  BY DEF Moments

\* They are moments.
LEMMA MomentsTyped ==
  ASSUME NEW r \in SessionRecord, NEW i \in 1..11
  PROVE  Moments(r)[i] \in At
<1>1. i = 1 \/ i = 2 \/ i = 3 \/ i = 4 \/ i = 5 \/ i = 6 \/ i = 7 \/ i = 8 \/ i = 9 \/ i = 10 \/ i = 11
  OBVIOUS
<1>2. QED
  BY <1>1, MomentsAre DEF SessionRecord, At

\* No known moment of moments is later than t.
Within(moments, t) == \A i \in 1..11 : Known(moments[i]) => moments[i] <= t

\* N is M with a moment t that comes after all others.
Adds(M, N, m, t, u) ==
  /\ m \in 1..11 /\ t \in Nat /\ u \in Nat /\ u <= t
  /\ \A i \in 1..11 : M[i] \in At
  /\ Chronological(M) /\ Within(M, u)
  /\ \A i \in 1..11 : i # m => N[i] = M[i]
  /\ N[m] = t
  /\ \A i \in (m + 1)..11 : ~Known(M[i])

\* It keeps the order.
LEMMA MomentAdded ==
  ASSUME NEW M, NEW N, NEW m, NEW t, NEW u, Adds(M, N, m, t, u)
  PROVE  Chronological(N) /\ Within(N, t)
<1> USE DEF Adds
<1>1. \A i \in 1..11 : Known(M[i]) => M[i] \in Nat /\ M[i] <= t
  BY DEF Within, Known, At
<1>2. Within(N, t)
  BY <1>1 DEF Within
<1>3. ASSUME NEW i \in 1..11, Known(N[i]), NEW j \in 1..i, Known(N[j]) PROVE N[j] <= N[i]
  <2>1. CASE i = m
    BY <1>1, <1>3, <2>1
  <2>2. CASE i # m
    <3>1. Known(M[i]) /\ N[i] = M[i]
      BY <1>3, <2>2
    <3>2. i < m
      BY <2>2, <3>1
    <3>3. j # m /\ j \in 1..11
      BY <3>2
    <3>4. N[j] = M[j]
      BY <3>3
    <3>5. QED
      BY <1>3, <3>1, <3>4 DEF Chronological
  <2>3. QED
    BY <2>1, <2>2
<1>5. QED
  BY <1>2, <1>3 DEF Chronological

\* What holds of the moments and the facts of every record that is written, ended or not.
Shaped(r) ==
  /\ r.plannedAt <= r.supervisedUntil
  /\ r.date = DateAt(r.plannedAt)
  /\ Known(r.preflightedAt) <=> Known(r.preflight)
  /\ Known(r.locallyVerifiedAt) <=> Known(r.local)
  /\ Known(r.externallyVerifiedAt) <=> Known(r.external)
  /\ Known(r.costReconciledAt) <=> Known(r.cost)
  /\ Known(r.minute90) => Known(r.minute45)
  /\ Chronological(Moments(r))

\* A record is well formed when it is shaped and its end and its egress agree with it.
LEMMA WellFormedIs ==
  ASSUME NEW r
  PROVE  WellFormed(r) <=> /\ Shaped(r)
                           /\ r.eligible <=> r.state = "running"
                           /\ Known(r.invalidatedAt) <=> Known(r.reason)
  BY DEF WellFormed, Shaped

\* What the record of a live session has besides what the store verifies.
LiveInv(r) ==
  /\ Within(Moments(r), r.updatedAt)
  /\ Known(r.observedAt) <=> Known(r.preflightedAt)
  /\ r.state \in {"planned", "preflighted"} => ~Known(r.minute45)

RecordInv(r) == r \in SessionRecord /\ Semantics(r) /\ (r.state # "invalid" => LiveInv(r))

\* A field takes what its type allows.
LEMMA FieldsTyped ==
  ASSUME NEW r \in SessionRecord
  PROVE  /\ \A v \in States : [r EXCEPT !.state = v] \in SessionRecord
         /\ \A v \in BOOLEAN : [r EXCEPT !.eligible = v] \in SessionRecord
         /\ \A v \in Nat : [r EXCEPT !.updatedAt = v] \in SessionRecord
         /\ \A v \in At : /\ [r EXCEPT !.observedAt = v] \in SessionRecord
                          /\ [r EXCEPT !.preflightedAt = v] \in SessionRecord
                          /\ [r EXCEPT !.startedAt = v] \in SessionRecord
                          /\ [r EXCEPT !.minute45 = v] \in SessionRecord
                          /\ [r EXCEPT !.minute90 = v] \in SessionRecord
                          /\ [r EXCEPT !.stoppedAt = v] \in SessionRecord
         /\ \A v \in At : /\ [r EXCEPT !.locallyVerifiedAt = v] \in SessionRecord
                          /\ [r EXCEPT !.externallyVerifiedAt = v] \in SessionRecord
                          /\ [r EXCEPT !.costReconciledAt = v] \in SessionRecord
                          /\ [r EXCEPT !.acceptedAt = v] \in SessionRecord
                          /\ [r EXCEPT !.invalidatedAt = v] \in SessionRecord
         /\ \A v \in PreflightEvidence : [r EXCEPT !.preflight = v] \in SessionRecord
         /\ \A v \in LocalEvidence : [r EXCEPT !.local = v] \in SessionRecord
         /\ \A v \in ExternalEvidence : [r EXCEPT !.external = v] \in SessionRecord
         /\ \A v \in CostEvidence : [r EXCEPT !.cost = v] \in SessionRecord
         /\ \A v \in Reasons : [r EXCEPT !.reason = v] \in SessionRecord
  BY DEF SessionRecord

\* What an ended record is.
Ends(r, t, why, q) ==
  /\ q.state = "invalid" /\ q.eligible = FALSE /\ q.acceptedAt = None
  /\ q.invalidatedAt = t /\ q.reason = why /\ q.updatedAt = t
  /\ q.date = r.date /\ q.plannedAt = r.plannedAt
  /\ q.supervisedUntil = r.supervisedUntil /\ q.observedAt = r.observedAt
  /\ q.preflightedAt = r.preflightedAt /\ q.preflight = r.preflight
  /\ q.startedAt = r.startedAt /\ q.minute45 = r.minute45 /\ q.minute90 = r.minute90
  /\ q.stoppedAt = r.stoppedAt /\ q.locallyVerifiedAt = r.locallyVerifiedAt
  /\ q.local = r.local /\ q.externallyVerifiedAt = r.externallyVerifiedAt
  /\ q.external = r.external /\ q.costReconciledAt = r.costReconciledAt /\ q.cost = r.cost

\* Which fields an end of a record writes, and which it leaves.
LEMMA EndedFields ==
  ASSUME NEW r \in SessionRecord, NEW t \in Nat, NEW why \in Reasons
  PROVE  Ends(r, t, why, InvalidRecord(r, t, why))
  BY DEF InvalidRecord, SessionRecord, Ends

\* A record that is ended is a record.
LEMMA EndedTyped ==
  ASSUME NEW r \in SessionRecord, NEW t \in Nat, NEW why \in Reasons
  PROVE  InvalidRecord(r, t, why) \in SessionRecord
<1> DEFINE r1 == [r EXCEPT !.state = "invalid"]
           r2 == [r1 EXCEPT !.eligible = FALSE]
           r3 == [r2 EXCEPT !.acceptedAt = None]
           r4 == [r3 EXCEPT !.invalidatedAt = t]
           r5 == [r4 EXCEPT !.reason = why]
           r6 == [r5 EXCEPT !.updatedAt = t]
<1>0. "invalid" \in States /\ None \in At /\ t \in At
  BY DEF States, At
<1>1. InvalidRecord(r, t, why) = r6
  BY DEF InvalidRecord
<1> HIDE DEF r6
<1>7. r1 \in SessionRecord
  BY <1>0, FieldsTyped
<1> HIDE DEF r1
<1>2. r2 \in SessionRecord
  BY <1>7, FieldsTyped
<1> HIDE DEF r2
<1>3. r3 \in SessionRecord
  BY <1>0, <1>2, FieldsTyped
<1> HIDE DEF r3
<1>4. r4 \in SessionRecord
  BY <1>0, <1>3, FieldsTyped
<1> HIDE DEF r4
<1>5. r5 \in SessionRecord
  BY <1>4, FieldsTyped
<1> HIDE DEF r5
<1>6. r6 \in SessionRecord
  BY <1>5, FieldsTyped DEF r6
<1> QED
  BY <1>1, <1>6

\* A well-shaped record that is ended is one the store takes.
LEMMA EndedIsSound ==
  ASSUME NEW r \in SessionRecord, Shaped(r), NEW t \in Nat, NEW why \in Reasons
  PROVE  RecordInv(InvalidRecord(r, t, why))
<1>1. PICK q : q = InvalidRecord(r, t, why)
  OBVIOUS
<1>2. q \in SessionRecord
  BY <1>1, EndedTyped
<1>3. Ends(r, t, why, q)
  BY <1>1, EndedFields
<1>4. \A i \in 1..10 : Moments(q)[i] = Moments(r)[i]
  BY <1>3 DEF Moments, Ends
<1>5. ~Known(Moments(q)[11])
  BY <1>3 DEF Moments, Known, Ends
<1>6. Chronological(Moments(q))
  <2>1. ASSUME NEW i \in 1..11, Known(Moments(q)[i]), NEW j \in 1..i, Known(Moments(q)[j])
        PROVE  Moments(q)[j] <= Moments(q)[i]
    <3>1. i \in 1..10 /\ j \in 1..10
      BY <1>5, <2>1
    <3>2. Moments(q)[i] = Moments(r)[i] /\ Moments(q)[j] = Moments(r)[j]
      BY <1>4, <3>1
    <3>3. QED
      BY <2>1, <3>2 DEF Shaped, Chronological
  <2>2. QED
    BY <2>1 DEF Chronological
<1>7. Shaped(q)
  BY <1>3, <1>6 DEF Shaped, Ends
<1>8. Known(q.invalidatedAt) /\ Known(q.reason) /\ ~Known(q.acceptedAt)
  BY <1>3 DEF Known, Ends
<1>9. Semantics(q)
  BY <1>3, <1>7, <1>8, WellFormedIs DEF Semantics, Ends
<1>10. QED
  BY <1>1, <1>2, <1>3, <1>9 DEF RecordInv, Ends

-----------------------------------------------------------------------------
(* What each action makes of a record. *)

\* The states of a session that runs or did.
Ran(r) == r.state \in {"running", "stopping", "locally_verified", "externally_verified",
                       "cost_pending", "accepted"}

\* The most audit entries that the rest of a session can take.
Left(r) ==
  CASE r.state = "planned" -> 9
    [] r.state = "preflighted" -> 8
    [] r.state = "running" -> IF Known(r.minute90) THEN 5 ELSE IF Known(r.minute45) THEN 6 ELSE 7
    [] r.state = "stopping" -> 4
    [] r.state = "locally_verified" -> 3
    [] r.state = "externally_verified" -> 2
    [] r.state = "cost_pending" -> 1
    [] OTHER -> 0

\* What an action may make of a record.
Written(action, r, t, q) ==
  /\ RecordInv(q) /\ q.updatedAt = t /\ q.date = r.date /\ q.state \in Target(action)
  /\ Left(q) < Left(r)
  /\ Known(q.minute45) => action = "ack-minute-45" \/ Known(r.minute45)
  /\ Known(q.minute90) => action = "ack-minute-90" \/ Known(r.minute90)
  /\ Ran(q) => Ran(r) \/ (action = "start" /\ q.state = "running")

\* What is written before it is decided whether it ends the session.
Candidate(action, r, c) ==
  /\ c \in SessionRecord /\ Shaped(c) /\ c.date = r.date
  /\ Known(c.minute45) => action = "ack-minute-45" \/ Known(r.minute45)
  /\ Known(c.minute90) => action = "ack-minute-90" \/ Known(r.minute90)

\* A session that is not over has entries left.
LEMMA LeftIs ==
  ASSUME NEW r, r.state \in States \ Terminal
  PROVE  Left(r) \in 1..9
  BY DEF Left, States, Terminal

\* Ending what an action would write is something the action may write.
LEMMA EndWrites ==
  ASSUME NEW r, RecordInv(r), r.state \notin Terminal, NEW action \in Actions \ {"plan"},
         NEW c, Candidate(action, r, c), NEW t \in Nat, NEW why \in Reasons
  PROVE  Written(action, r, t, InvalidRecord(c, t, why))
<1>1. PICK q : q = InvalidRecord(c, t, why)
  OBVIOUS
<1>2. c \in SessionRecord /\ Shaped(c)
  BY DEF Candidate
<1>3. Ends(c, t, why, q)
  BY <1>1, <1>2, EndedFields
<1>4. RecordInv(q)
  BY <1>1, <1>2, EndedIsSound
<1>5. "invalid" \in Target(action)
  BY DEF Target, Actions
<1>6. q.state = "invalid" /\ q.updatedAt = t /\ q.date = c.date /\ q.minute45 = c.minute45
      /\ q.minute90 = c.minute90
  BY <1>3 DEF Ends
<1>7. Left(q) = 0 /\ ~Ran(q)
  BY <1>6 DEF Left, Ran
<1>8. r.state \in States \ Terminal
  BY DEF RecordInv, SessionRecord
<1>9. Left(q) < Left(r)
  BY <1>7, <1>8, LeftIs
<1>10. Written(action, r, t, q)
  BY <1>4, <1>5, <1>6, <1>7, <1>9 DEF Written, Candidate
<1>11. QED
  BY <1>1, <1>10

\* What a live record of rank k is, apart from its state.
Live(r, k) ==
  /\ ~Known(r.invalidatedAt)
  /\ \A time \in {r.startedAt, r.minute45, r.minute90, r.stoppedAt} :
       Known(time) => time <= r.supervisedUntil
  /\ Known(r.stoppedAt) => r.stoppedAt - r.startedAt <= MaxSupervised
  /\ Known(r.startedAt) => /\ DateAt(r.startedAt) = r.date
                           /\ InWindow(r, r.minute45, Minute45)
                           /\ InWindow(r, r.minute90, Minute90)
  /\ KnowsUpTo(r, k)
  /\ k >= 3 => Known(r.minute45) /\ Known(r.minute90)
  /\ k >= 1 => r.preflight = "pass"
  /\ k >= 4 => r.local = "pass"
  /\ k >= 5 => r.external = "pass"
  /\ k >= 6 => r.cost = "pass"
  /\ Latest(Moments(r), r.updatedAt)

\* The semantics of a record that is not invalid, by the rank of its state.
LEMMA LiveIs ==
  ASSUME NEW r, NEW k \in 0..7, Rank(r.state) = k
  PROVE  LiveRecord(r) <=> Live(r, k) /\ (r.state = "accepted" => AcceptanceEvidence(r))
<1>1. (\A time \in {r.startedAt, r.minute45, r.minute90, r.stoppedAt} \ {None} :
         time <= r.supervisedUntil)
      <=> \A time \in {r.startedAt, r.minute45, r.minute90, r.stoppedAt} :
            Known(time) => time <= r.supervisedUntil
  BY DEF Known
<1>2. QED
  BY <1>1, ProgressIs DEF LiveRecord, Live

\* What a session in a live state is.
LEMMA LiveState ==
  ASSUME NEW r, RecordInv(r), NEW k \in 0..7, Rank(r.state) = k, r.state # "invalid"
  PROVE  /\ r \in SessionRecord /\ Shaped(r) /\ Live(r, k) /\ LiveInv(r)
         /\ r.eligible <=> r.state = "running"
         /\ ~Known(r.reason)
<1>1. r \in SessionRecord /\ WellFormed(r) /\ LiveRecord(r) /\ LiveInv(r)
  BY DEF RecordInv, Semantics
<1>2. Live(r, k)
  BY <1>1, LiveIs
<1>3. Shaped(r) /\ (r.eligible <=> r.state = "running") /\ (Known(r.invalidatedAt) <=> Known(r.reason))
  BY <1>1, WellFormedIs
<1>4. ~Known(r.invalidatedAt)
  BY <1>2 DEF Live
<1>5. QED
  BY <1>1, <1>2, <1>3, <1>4

\* Apart from its state and its eligibility, q is c.
Alike(c, q) ==
  /\ q.date = c.date /\ q.plannedAt = c.plannedAt
  /\ q.supervisedUntil = c.supervisedUntil /\ q.updatedAt = c.updatedAt
  /\ q.observedAt = c.observedAt
  /\ q.preflightedAt = c.preflightedAt /\ q.preflight = c.preflight
  /\ q.startedAt = c.startedAt /\ q.minute45 = c.minute45 /\ q.minute90 = c.minute90
  /\ q.stoppedAt = c.stoppedAt /\ q.locallyVerifiedAt = c.locallyVerifiedAt
  /\ q.local = c.local /\ q.externallyVerifiedAt = c.externallyVerifiedAt
  /\ q.external = c.external /\ q.costReconciledAt = c.costReconciledAt /\ q.cost = c.cost
  /\ q.acceptedAt = c.acceptedAt /\ q.invalidatedAt = c.invalidatedAt /\ q.reason = c.reason

\* A change of the state leaves the evidence and the eligibility.
LEMMA StateChanges ==
  ASSUME NEW c \in SessionRecord, NEW v \in States
  PROVE  /\ Alike(c, [c EXCEPT !.state = v])
         /\ [c EXCEPT !.state = v].eligible = c.eligible
         /\ [c EXCEPT !.state = v].state = v
         /\ [c EXCEPT !.state = v] \in SessionRecord
<1>1. Alike(c, [c EXCEPT !.state = v])
  BY DEF SessionRecord, Alike
<1>2. [c EXCEPT !.state = v].eligible = c.eligible /\ [c EXCEPT !.state = v].state = v
  BY DEF SessionRecord
<1>3. QED
  BY <1>1, <1>2, FieldsTyped

\* Of the candidate c of an action, q is the live record of state v and rank k.
Goes(action, r, c, t, v, k, q) ==
  /\ Candidate(action, r, c)
  /\ v \in States \ {"planned", "invalid"} /\ v \in Target(action)
  /\ k \in 0..7 /\ Rank(v) = k /\ Live(c, k)
  /\ c.eligible <=> v = "running"
  /\ ~Known(c.reason)
  /\ c.updatedAt = t /\ Within(Moments(c), t) /\ Known(c.observedAt)
  /\ v = "preflighted" => ~Known(c.minute45)
  /\ v = "accepted" => AcceptanceEvidence(c)
  /\ v = "preflighted" \/ Ran(r) \/ (action = "start" /\ v = "running")
  /\ q \in SessionRecord /\ q.state = v /\ q.eligible = c.eligible /\ Alike(c, q)
  /\ Left(q) < Left(r)

\* A candidate that nothing ends is written with its new state.
LEMMA LiveWrites ==
  ASSUME NEW r, NEW action, NEW c, NEW t, NEW v, NEW k, NEW q, Goes(action, r, c, t, v, k, q)
  PROVE  Written(action, r, t, q)
<1> USE DEF Goes
<1>1. Moments(q) = Moments(c)
  BY DEF Moments, Alike
<1>2. Shaped(q)
  BY <1>1 DEF Candidate, Shaped, Alike
<1>3. ~Known(q.invalidatedAt) /\ ~Known(q.reason)
  BY DEF Live, Alike
<1>4. WellFormed(q)
  BY <1>2, <1>3, WellFormedIs
<1>5. Live(q, k)
  <2>1. KnowsUpTo(q, k)
    BY DEF KnowsUpTo, Live, Alike
  <2>2. /\ InWindow(q, q.minute45, Minute45) <=> InWindow(c, c.minute45, Minute45)
        /\ InWindow(q, q.minute90, Minute90) <=> InWindow(c, c.minute90, Minute90)
    BY DEF InWindow, Alike
  <2>3. QED
    BY <1>1, <1>3, <2>1, <2>2 DEF Live, Alike
<1>6. v = "accepted" => AcceptanceEvidence(q)
  BY DEF AcceptanceEvidence, Alike
<1>7. LiveRecord(q)
  BY <1>5, <1>6, LiveIs
<1>8. LiveInv(q)
  <2>1. Known(q.preflightedAt)
    <3>1. v # "planned" /\ k >= 1
      BY Ranks DEF States
    <3>2. QED
      BY <1>5, <3>1 DEF Live, KnowsUpTo
  <2>2. QED
    BY <1>1, <2>1 DEF LiveInv, Alike
<1>9. RecordInv(q)
  BY <1>4, <1>7, <1>8 DEF RecordInv, Semantics
<1>10. Ran(q) => Ran(r) \/ (action = "start" /\ q.state = "running")
  BY DEF Ran
<1>11. QED
  BY <1>9, <1>10 DEF Written, Candidate, Alike

\* A preflight.
LEMMA PreflightWrites ==
  ASSUME NEW r, RecordInv(r), r.state = "planned", NEW t \in Nat, NEW observed \in Nat,
         t >= r.updatedAt, r.plannedAt <= observed, observed <= t,
         NEW evidence \in PreflightEvidence,
         NEW c, c = [r EXCEPT !.preflight = evidence, !.observedAt = observed,
                              !.preflightedAt = t, !.updatedAt = t]
  PROVE  /\ Candidate("preflight", r, c)
         /\ evidence = "pass" => Written("preflight", r, t, [c EXCEPT !.state = "preflighted"])
<1>1. /\ r \in SessionRecord /\ Shaped(r) /\ Live(r, 0) /\ LiveInv(r)
      /\ r.eligible = FALSE /\ ~Known(r.reason)
  BY LiveState, Ranks DEF SessionRecord
<1>2. KnowsUpTo(r, 0) /\ ~Known(r.observedAt) /\ ~Known(r.minute45) /\ ~Known(r.minute90)
  BY <1>1 DEF Live, KnowsUpTo, LiveInv, Shaped
<1>3. c \in SessionRecord
  BY <1>1, FieldsTyped DEF At
<1>4. /\ c.state = r.state /\ c.eligible = r.eligible /\ c.date = r.date
      /\ c.plannedAt = r.plannedAt /\ c.supervisedUntil = r.supervisedUntil
      /\ c.updatedAt = t /\ c.observedAt = observed /\ c.preflightedAt = t
      /\ c.preflight = evidence /\ c.startedAt = r.startedAt
      /\ c.minute45 = r.minute45 /\ c.minute90 = r.minute90 /\ c.stoppedAt = r.stoppedAt
      /\ c.locallyVerifiedAt = r.locallyVerifiedAt /\ c.local = r.local
      /\ c.externallyVerifiedAt = r.externallyVerifiedAt /\ c.external = r.external
      /\ c.costReconciledAt = r.costReconciledAt /\ c.cost = r.cost
      /\ c.acceptedAt = r.acceptedAt /\ c.invalidatedAt = r.invalidatedAt /\ c.reason = r.reason
  BY <1>1 DEF SessionRecord
<1>5. Known(t) /\ Known(observed) /\ Known(evidence)
  BY DEF Known
<1>6. KnowsUpTo(c, 1)
  BY <1>2, <1>4, <1>5 DEF KnowsUpTo
<1>7. /\ Chronological(Moments(c)) /\ Within(Moments(c), t)
      /\ Moments(c)[3] = t /\ \A i \in 4..11 : ~Known(Moments(c)[i])
  <2>1. \A i \in 2..11 : ~Known(Moments(r)[i])
    <3>1. SUFFICES ASSUME NEW i \in 2..11 PROVE ~Known(Moments(r)[i])
      OBVIOUS
    <3>2. i = 2 \/ i = 3 \/ i = 4 \/ i = 5 \/ i = 6 \/ i = 7 \/ i = 8 \/ i = 9 \/ i = 10 \/ i = 11
      OBVIOUS
    <3>3. QED
      BY <1>2, <3>2, MomentsAre DEF KnowsUpTo
  <2>2. /\ Moments(c)[1] = r.plannedAt /\ Moments(c)[2] = observed /\ Moments(c)[3] = t
        /\ \A i \in 4..11 : Moments(c)[i] = Moments(r)[i]
    BY <1>4 DEF Moments
  <2>3. Moments(r)[1] = r.plannedAt /\ r.plannedAt \in Nat
    BY <1>1, MomentsAre DEF SessionRecord
  <2>4. \A i \in 4..11 : ~Known(Moments(c)[i])
    BY <2>1, <2>2
  <2>5. ASSUME NEW i \in 1..11, Known(Moments(c)[i]) PROVE i = 1 \/ i = 2 \/ i = 3
    BY <2>4, <2>5
  <2>6. QED
    BY <2>2, <2>3, <2>4, <2>5 DEF Chronological, Within
<1>8. Shaped(c)
  BY <1>1, <1>4, <1>5, <1>7 DEF Shaped
<1>9. Candidate("preflight", r, c)
  BY <1>2, <1>3, <1>4, <1>8 DEF Candidate
<1>10. ASSUME evidence = "pass" PROVE Written("preflight", r, t, [c EXCEPT !.state = "preflighted"])
  <2>1. PICK q : q = [c EXCEPT !.state = "preflighted"]
    OBVIOUS
  <2>2. q \in SessionRecord /\ q.state = "preflighted" /\ q.eligible = c.eligible /\ Alike(c, q)
    BY <1>3, <2>1, StateChanges DEF States
  <2>3. "preflighted" \in Target("preflight") /\ "preflighted" \in States \ {"planned", "invalid"}
    BY DEF Target, States
  <2>4. Latest(Moments(c), t)
    BY <1>7 DEF Latest
  <2>5. Live(c, 1)
    BY <1>1, <1>2, <1>4, <1>6, <1>10, <2>4 DEF Live, KnowsUpTo
  <2>6. Left(q) < Left(r)
    BY <2>2 DEF Left
  <2>7. Rank("preflighted") = 1 /\ Known(c.observedAt) /\ ~Known(c.minute45)
        /\ (c.eligible <=> "preflighted" = "running") /\ ~Known(c.reason)
    BY <1>1, <1>2, <1>4, <1>5, Ranks
  <2>9. Goes("preflight", r, c, t, "preflighted", 1, q)
    BY <1>4, <1>7, <1>9, <2>2, <2>3, <2>5, <2>6, <2>7 DEF Goes
  <2>8. QED
    BY <2>1, <2>9, LiveWrites
<1>11. QED
  BY <1>9, <1>10

\* What is added last is the latest.
LEMMA AddedLast ==
  ASSUME NEW r \in SessionRecord, Chronological(Moments(r)), LiveInv(r),
         NEW t \in Nat, t >= r.updatedAt, NEW c, NEW m \in 3..11,
         \A i \in 1..11 : i # m => Moments(c)[i] = Moments(r)[i], Moments(c)[m] = t,
         \A i \in (m + 1)..11 : ~Known(Moments(r)[i])
  PROVE  Chronological(Moments(c)) /\ Within(Moments(c), t) /\ Latest(Moments(c), t)
<1>1. r.updatedAt \in Nat /\ r.updatedAt <= t /\ \A i \in 1..11 : Moments(r)[i] \in At
  BY MomentsTyped DEF SessionRecord
<1>2. Adds(Moments(r), Moments(c), m, t, r.updatedAt)
  BY <1>1 DEF Adds, LiveInv
<1>3. Latest(Moments(c), t)
  BY DEF Latest
<1>4. QED
  BY <1>2, <1>3, MomentAdded

\* A record as it stands is a candidate to be ended.
LEMMA AsItStands ==
  ASSUME NEW r, RecordInv(r), NEW action
  PROVE  Candidate(action, r, r)
<1>1. r \in SessionRecord /\ WellFormed(r)
  BY DEF RecordInv, Semantics
<1>2. QED
  BY <1>1, WellFormedIs DEF Candidate

\* A start.
LEMMA StartWrites ==
  ASSUME NEW r, RecordInv(r), r.state = "preflighted", NEW t \in Nat, t >= r.updatedAt,
         NEW c, c = [r EXCEPT !.eligible = TRUE, !.startedAt = t, !.updatedAt = t]
  PROVE  /\ Candidate("start", r, c)
         /\ StartFault(r, t) = None =>
              Written("start", r, t, [c EXCEPT !.state = "running"])
<1>1. /\ r \in SessionRecord /\ Shaped(r) /\ Live(r, 1) /\ LiveInv(r)
      /\ r.eligible = FALSE /\ ~Known(r.reason)
  BY LiveState, Ranks DEF SessionRecord
<1>2. KnowsUpTo(r, 1) /\ Known(r.observedAt)
  BY <1>1 DEF Live, KnowsUpTo, LiveInv
<1>3. c \in SessionRecord
  BY <1>1, FieldsTyped DEF At
<1>4. /\ c.state = r.state /\ c.eligible = TRUE /\ c.date = r.date
      /\ c.plannedAt = r.plannedAt /\ c.supervisedUntil = r.supervisedUntil
      /\ c.updatedAt = t /\ c.observedAt = r.observedAt
      /\ c.preflightedAt = r.preflightedAt /\ c.preflight = r.preflight /\ c.startedAt = t
      /\ c.minute45 = r.minute45 /\ c.minute90 = r.minute90 /\ c.stoppedAt = r.stoppedAt
      /\ c.locallyVerifiedAt = r.locallyVerifiedAt /\ c.local = r.local
      /\ c.externallyVerifiedAt = r.externallyVerifiedAt /\ c.external = r.external
      /\ c.costReconciledAt = r.costReconciledAt /\ c.cost = r.cost
      /\ c.acceptedAt = r.acceptedAt /\ c.invalidatedAt = r.invalidatedAt
      /\ c.reason = r.reason
  BY <1>1 DEF SessionRecord
<1>5. Known(t)
  BY DEF Known
<1>6. ~Known(r.minute45) /\ ~Known(r.minute90) /\ KnowsUpTo(c, 2)
  BY <1>1, <1>2, <1>4, <1>5 DEF KnowsUpTo, Shaped, LiveInv, Live
<1>7. Chronological(Moments(c)) /\ Within(Moments(c), t) /\ Latest(Moments(c), t)
  <2>1. ASSUME NEW i \in 1..11, i # 4 PROVE Moments(c)[i] = Moments(r)[i]
    BY <1>4, <2>1 DEF Moments
  <2>2. Moments(c)[4] = t
    BY <1>4 DEF Moments
  <2>3. ASSUME NEW i \in 5..11 PROVE ~Known(Moments(r)[i])
    <3>1. i = 5 \/ i = 6 \/ i = 7 \/ i = 8 \/ i = 9 \/ i = 10 \/ i = 11
      OBVIOUS
    <3>2. QED
      BY <1>2, <1>6, <1>4, <3>1, MomentsAre DEF KnowsUpTo
  <2>4. QED
    BY <1>1, <2>1, <2>2, <2>3, AddedLast DEF Shaped
<1>8. Shaped(c)
  BY <1>1, <1>4, <1>5, <1>6, <1>7 DEF Shaped, KnowsUpTo
<1>9. Candidate("start", r, c)
  BY <1>3, <1>4, <1>8 DEF Candidate
<1>10. ASSUME StartFault(r, t) = None
       PROVE  Written("start", r, t, [c EXCEPT !.state = "running"])
  <2>1. PICK q : q = [c EXCEPT !.state = "running"]
    OBVIOUS
  <2>2. q \in SessionRecord /\ q.state = "running" /\ q.eligible = c.eligible /\ Alike(c, q)
    BY <1>3, <1>4, <2>1, StateChanges DEF States
  <2>3. "running" \in Target("start") /\ "running" \in States \ {"planned", "invalid"}
    BY DEF Target, States
  <2>4. Live(c, 2)
    <3>1. /\ InWindow(c, c.minute45, Minute45) /\ InWindow(c, c.minute90, Minute90)
      BY <1>4, <1>6 DEF InWindow
    <3>2. DateAt(t) = r.date /\ t <= r.supervisedUntil
      BY <1>1, <1>10 DEF StartFault, Reasons, SessionRecord
    <3>3. QED
      BY <1>1, <1>2, <1>4, <1>6, <1>7, <3>1, <3>2 DEF Live, KnowsUpTo
  <2>5. Left(q) < Left(r)
    BY <1>2, <1>4, <1>5, <1>6, <2>2 DEF Left, Alike
  <2>6. Rank("running") = 2 /\ Known(c.observedAt) /\ ~Known(c.reason)
        /\ (c.eligible <=> "running" = "running")
    BY <1>1, <1>2, <1>4, Ranks
  <2>7. Goes("start", r, c, t, "running", 2, q)
    BY <1>4, <1>7, <1>9, <1>10, <2>2, <2>3, <2>4, <2>5, <2>6 DEF Goes, Ran
  <2>8. QED
    BY <2>1, <2>7, LiveWrites
<1>11. QED
  BY <1>9, <1>10

\* The first acknowledgement.
LEMMA Minute45Writes ==
  ASSUME NEW r, RecordInv(r), r.state = "running", NEW t \in Nat, t >= r.updatedAt,
         t >= r.startedAt + Minute45, r.minute45 = None,
         NEW c, c = [r EXCEPT !.minute45 = t, !.updatedAt = t]
  PROVE  /\ Candidate("ack-minute-45", r, c)
         /\ ~AcknowledgementLate(r, t, Minute45) =>
              Written("ack-minute-45", r, t, c)
<1>1. /\ r \in SessionRecord /\ Shaped(r) /\ Live(r, 2) /\ LiveInv(r)
      /\ r.eligible = TRUE /\ ~Known(r.reason)
  BY LiveState, Ranks DEF SessionRecord
<1>2. KnowsUpTo(r, 2) /\ Known(r.observedAt)
  BY <1>1 DEF Live, KnowsUpTo, LiveInv
<1>3. c \in SessionRecord
  BY <1>1, FieldsTyped DEF At
<1>4. /\ c.state = r.state /\ c.eligible = r.eligible /\ c.date = r.date
      /\ c.plannedAt = r.plannedAt /\ c.supervisedUntil = r.supervisedUntil
      /\ c.updatedAt = t /\ c.observedAt = r.observedAt
      /\ c.preflightedAt = r.preflightedAt /\ c.preflight = r.preflight
      /\ c.startedAt = r.startedAt /\ c.minute45 = t /\ c.minute90 = r.minute90
      /\ c.stoppedAt = r.stoppedAt /\ c.locallyVerifiedAt = r.locallyVerifiedAt
      /\ c.local = r.local /\ c.externallyVerifiedAt = r.externallyVerifiedAt
      /\ c.external = r.external /\ c.costReconciledAt = r.costReconciledAt
      /\ c.cost = r.cost /\ c.acceptedAt = r.acceptedAt
      /\ c.invalidatedAt = r.invalidatedAt /\ c.reason = r.reason
  BY <1>1 DEF SessionRecord
<1>5. Known(t) /\ ~Known(r.minute45)
  BY DEF Known
<1>6. ~Known(r.minute45) /\ ~Known(r.minute90) /\ KnowsUpTo(c, 2)
  BY <1>1, <1>2, <1>4, <1>5 DEF KnowsUpTo, Shaped, LiveInv, Live
<1>7. Chronological(Moments(c)) /\ Within(Moments(c), t) /\ Latest(Moments(c), t)
  <2>1. ASSUME NEW i \in 1..11, i # 5 PROVE Moments(c)[i] = Moments(r)[i]
    BY <1>4, <2>1 DEF Moments
  <2>2. Moments(c)[5] = t
    BY <1>4 DEF Moments
  <2>3. ASSUME NEW i \in 6..11 PROVE ~Known(Moments(r)[i])
    <3>1. i = 6 \/ i = 7 \/ i = 8 \/ i = 9 \/ i = 10 \/ i = 11
      OBVIOUS
    <3>2. QED
      BY <1>2, <1>6, <1>4, <3>1, MomentsAre DEF KnowsUpTo
  <2>4. QED
    BY <1>1, <2>1, <2>2, <2>3, AddedLast DEF Shaped
<1>8. Shaped(c)
  BY <1>1, <1>4, <1>5, <1>6, <1>7 DEF Shaped, KnowsUpTo
<1>9. Candidate("ack-minute-45", r, c)
  BY <1>3, <1>4, <1>8 DEF Candidate
<1>10. ASSUME ~AcknowledgementLate(r, t, Minute45)
       PROVE  Written("ack-minute-45", r, t, c)
  <2>1. PICK q : q = c
    OBVIOUS
  <2>2. q \in SessionRecord /\ q.state = "running" /\ q.eligible = c.eligible /\ Alike(c, q)
    BY <1>3, <1>4, <2>1 DEF Alike
  <2>3. "running" \in Target("ack-minute-45") /\ "running" \in States \ {"planned", "invalid"}
    BY DEF Target, States
  <2>4. Live(c, 2)
    <3>1. r.startedAt \in Nat
      BY <1>1, <1>2 DEF KnowsUpTo, Known, SessionRecord, At
    <3>2. /\ InWindow(c, c.minute45, Minute45) /\ InWindow(c, c.minute90, Minute90)
          /\ t <= r.supervisedUntil
      BY <1>1, <1>4, <1>6, <1>10, <3>1 DEF InWindow, AcknowledgementLate, SessionRecord
    <3>3. QED
      BY <1>1, <1>2, <1>4, <1>6, <1>7, <3>2 DEF Live, KnowsUpTo
  <2>5. Left(q) < Left(r)
    BY <1>2, <1>4, <1>5, <1>6, <2>2 DEF Left, Alike
  <2>6. Rank("running") = 2 /\ Known(c.observedAt) /\ ~Known(c.reason)
        /\ (c.eligible <=> "running" = "running")
    BY <1>1, <1>2, <1>4, Ranks
  <2>7. Goes("ack-minute-45", r, c, t, "running", 2, q)
    BY <1>4, <1>7, <1>9, <1>10, <2>2, <2>3, <2>4, <2>5, <2>6 DEF Goes, Ran
  <2>8. QED
    BY <2>1, <2>7, LiveWrites
<1>11. QED
  BY <1>9, <1>10

\* The second acknowledgement.
LEMMA Minute90Writes ==
  ASSUME NEW r, RecordInv(r), r.state = "running", NEW t \in Nat, t >= r.updatedAt,
         t >= r.startedAt + Minute90, r.minute45 # None, r.minute90 = None,
         NEW c, c = [r EXCEPT !.minute90 = t, !.updatedAt = t]
  PROVE  /\ Candidate("ack-minute-90", r, c)
         /\ ~AcknowledgementLate(r, t, Minute90) =>
              Written("ack-minute-90", r, t, c)
<1>1. /\ r \in SessionRecord /\ Shaped(r) /\ Live(r, 2) /\ LiveInv(r)
      /\ r.eligible = TRUE /\ ~Known(r.reason)
  BY LiveState, Ranks DEF SessionRecord
<1>2. KnowsUpTo(r, 2) /\ Known(r.observedAt)
  BY <1>1 DEF Live, KnowsUpTo, LiveInv
<1>3. c \in SessionRecord
  BY <1>1, FieldsTyped DEF At
<1>4. /\ c.state = r.state /\ c.eligible = r.eligible /\ c.date = r.date
      /\ c.plannedAt = r.plannedAt /\ c.supervisedUntil = r.supervisedUntil
      /\ c.updatedAt = t /\ c.observedAt = r.observedAt
      /\ c.preflightedAt = r.preflightedAt /\ c.preflight = r.preflight
      /\ c.startedAt = r.startedAt /\ c.minute45 = r.minute45 /\ c.minute90 = t
      /\ c.stoppedAt = r.stoppedAt /\ c.locallyVerifiedAt = r.locallyVerifiedAt
      /\ c.local = r.local /\ c.externallyVerifiedAt = r.externallyVerifiedAt
      /\ c.external = r.external /\ c.costReconciledAt = r.costReconciledAt
      /\ c.cost = r.cost /\ c.acceptedAt = r.acceptedAt
      /\ c.invalidatedAt = r.invalidatedAt /\ c.reason = r.reason
  BY <1>1 DEF SessionRecord
<1>5. Known(t) /\ Known(r.minute45) /\ ~Known(r.minute90)
  BY DEF Known
<1>6. Known(r.minute45) /\ ~Known(r.minute90) /\ KnowsUpTo(c, 2)
  BY <1>1, <1>2, <1>4, <1>5 DEF KnowsUpTo, Shaped, LiveInv, Live
<1>7. Chronological(Moments(c)) /\ Within(Moments(c), t) /\ Latest(Moments(c), t)
  <2>1. ASSUME NEW i \in 1..11, i # 6 PROVE Moments(c)[i] = Moments(r)[i]
    BY <1>4, <2>1 DEF Moments
  <2>2. Moments(c)[6] = t
    BY <1>4 DEF Moments
  <2>3. ASSUME NEW i \in 7..11 PROVE ~Known(Moments(r)[i])
    <3>1. i = 7 \/ i = 8 \/ i = 9 \/ i = 10 \/ i = 11
      OBVIOUS
    <3>2. QED
      BY <1>2, <1>6, <1>4, <3>1, MomentsAre DEF KnowsUpTo
  <2>4. QED
    BY <1>1, <2>1, <2>2, <2>3, AddedLast DEF Shaped
<1>8. Shaped(c)
  BY <1>1, <1>4, <1>5, <1>6, <1>7 DEF Shaped, KnowsUpTo
<1>9. Candidate("ack-minute-90", r, c)
  BY <1>3, <1>4, <1>8 DEF Candidate
<1>10. ASSUME ~AcknowledgementLate(r, t, Minute90)
       PROVE  Written("ack-minute-90", r, t, c)
  <2>1. PICK q : q = c
    OBVIOUS
  <2>2. q \in SessionRecord /\ q.state = "running" /\ q.eligible = c.eligible /\ Alike(c, q)
    BY <1>3, <1>4, <2>1 DEF Alike
  <2>3. "running" \in Target("ack-minute-90") /\ "running" \in States \ {"planned", "invalid"}
    BY DEF Target, States
  <2>4. Live(c, 2)
    <3>1. r.startedAt \in Nat
      BY <1>1, <1>2 DEF KnowsUpTo, Known, SessionRecord, At
    <3>2. InWindow(c, c.minute45, Minute45)
      BY <1>1, <1>2, <1>4 DEF Live, InWindow, KnowsUpTo
    <3>3. InWindow(c, c.minute90, Minute90) /\ t <= r.supervisedUntil
      BY <1>1, <1>4, <1>6, <1>10, <3>1 DEF InWindow, AcknowledgementLate, SessionRecord
    <3>4. QED
      BY <1>1, <1>2, <1>4, <1>6, <1>7, <3>2, <3>3 DEF Live, KnowsUpTo
  <2>5. Left(q) < Left(r)
    BY <1>2, <1>4, <1>5, <1>6, <2>2 DEF Left, Alike
  <2>6. Rank("running") = 2 /\ Known(c.observedAt) /\ ~Known(c.reason)
        /\ (c.eligible <=> "running" = "running")
    BY <1>1, <1>2, <1>4, Ranks
  <2>7. Goes("ack-minute-90", r, c, t, "running", 2, q)
    BY <1>4, <1>7, <1>9, <1>10, <2>2, <2>3, <2>4, <2>5, <2>6 DEF Goes, Ran
  <2>8. QED
    BY <2>1, <2>7, LiveWrites
<1>11. QED
  BY <1>9, <1>10

\* A stop.
LEMMA StopWrites ==
  ASSUME NEW r, RecordInv(r), r.state = "running", NEW t \in Nat, t >= r.updatedAt,
         NEW c, c = [r EXCEPT !.eligible = FALSE, !.stoppedAt = t, !.updatedAt = t]
  PROVE  /\ Candidate("stop", r, c)
         /\ StopFault(r, t) = None =>
              Written("stop", r, t, [c EXCEPT !.state = "stopping"])
<1>1. /\ r \in SessionRecord /\ Shaped(r) /\ Live(r, 2) /\ LiveInv(r)
      /\ r.eligible = TRUE /\ ~Known(r.reason)
  BY LiveState, Ranks DEF SessionRecord
<1>2. KnowsUpTo(r, 2) /\ Known(r.observedAt)
  BY <1>1 DEF Live, KnowsUpTo, LiveInv
<1>3. c \in SessionRecord
  BY <1>1, FieldsTyped DEF At
<1>4. /\ c.state = r.state /\ c.eligible = FALSE /\ c.date = r.date
      /\ c.plannedAt = r.plannedAt /\ c.supervisedUntil = r.supervisedUntil
      /\ c.updatedAt = t /\ c.observedAt = r.observedAt
      /\ c.preflightedAt = r.preflightedAt /\ c.preflight = r.preflight
      /\ c.startedAt = r.startedAt /\ c.minute45 = r.minute45 /\ c.minute90 = r.minute90
      /\ c.stoppedAt = t /\ c.locallyVerifiedAt = r.locallyVerifiedAt /\ c.local = r.local
      /\ c.externallyVerifiedAt = r.externallyVerifiedAt /\ c.external = r.external
      /\ c.costReconciledAt = r.costReconciledAt /\ c.cost = r.cost
      /\ c.acceptedAt = r.acceptedAt /\ c.invalidatedAt = r.invalidatedAt
      /\ c.reason = r.reason
  BY <1>1 DEF SessionRecord
<1>5. Known(t)
  BY DEF Known
<1>6. KnowsUpTo(c, 3)
  BY <1>1, <1>2, <1>4, <1>5 DEF KnowsUpTo
<1>7. Chronological(Moments(c)) /\ Within(Moments(c), t) /\ Latest(Moments(c), t)
  <2>1. ASSUME NEW i \in 1..11, i # 7 PROVE Moments(c)[i] = Moments(r)[i]
    BY <1>4, <2>1 DEF Moments
  <2>2. Moments(c)[7] = t
    BY <1>4 DEF Moments
  <2>3. ASSUME NEW i \in 8..11 PROVE ~Known(Moments(r)[i])
    <3>1. i = 8 \/ i = 9 \/ i = 10 \/ i = 11
      OBVIOUS
    <3>2. QED
      BY <1>2, <1>6, <1>4, <3>1, MomentsAre DEF KnowsUpTo
  <2>4. QED
    BY <1>1, <2>1, <2>2, <2>3, AddedLast DEF Shaped
<1>8. Shaped(c)
  BY <1>1, <1>4, <1>5, <1>6, <1>7 DEF Shaped, KnowsUpTo
<1>9. Candidate("stop", r, c)
  BY <1>3, <1>4, <1>8 DEF Candidate
<1>10. ASSUME StopFault(r, t) = None
       PROVE  Written("stop", r, t, [c EXCEPT !.state = "stopping"])
  <2>1. PICK q : q = [c EXCEPT !.state = "stopping"]
    OBVIOUS
  <2>2. q \in SessionRecord /\ q.state = "stopping" /\ q.eligible = c.eligible /\ Alike(c, q)
    BY <1>3, <1>4, <2>1, StateChanges DEF States
  <2>3. "stopping" \in Target("stop") /\ "stopping" \in States \ {"planned", "invalid"}
    BY DEF Target, States
  <2>4. Live(c, 3)
    <3>1. /\ InWindow(c, c.minute45, Minute45) /\ InWindow(c, c.minute90, Minute90)
      BY <1>1, <1>2, <1>4 DEF Live, InWindow, KnowsUpTo
    <3>2. r.startedAt \in Nat
      BY <1>1, <1>2 DEF KnowsUpTo, Known, SessionRecord, At
    <3>3. /\ t <= r.supervisedUntil /\ t - r.startedAt <= MaxSupervised
          /\ Known(r.minute45) /\ Known(r.minute90)
      BY <1>1, <1>10, <3>2 DEF StopFault, Known, Reasons, SessionRecord
    <3>4. QED
      BY <1>1, <1>2, <1>4, <1>6, <1>7, <3>1, <3>3 DEF Live, KnowsUpTo
  <2>5. Left(q) < Left(r)
    BY <1>2, <1>4, <1>5, <1>6, <2>2 DEF Left, Alike
  <2>6. Rank("stopping") = 3 /\ Known(c.observedAt) /\ ~Known(c.reason)
        /\ (c.eligible <=> "stopping" = "running")
    BY <1>1, <1>2, <1>4, Ranks
  <2>7. Goes("stop", r, c, t, "stopping", 3, q)
    BY <1>4, <1>7, <1>9, <1>10, <2>2, <2>3, <2>4, <2>5, <2>6 DEF Goes, Ran
  <2>8. QED
    BY <2>1, <2>7, LiveWrites
<1>11. QED
  BY <1>9, <1>10

\* A local verification.
LEMMA LocalWrites ==
  ASSUME NEW r, RecordInv(r), r.state = "stopping", NEW t \in Nat, t >= r.updatedAt,
         NEW evidence \in LocalEvidence,
         NEW c, c = [r EXCEPT !.local = evidence, !.locallyVerifiedAt = t, !.updatedAt = t]
  PROVE  /\ Candidate("local-verification", r, c)
         /\ evidence = "pass" =>
              Written("local-verification", r, t, [c EXCEPT !.state = "locally_verified"])
<1>1. /\ r \in SessionRecord /\ Shaped(r) /\ Live(r, 3) /\ LiveInv(r)
      /\ r.eligible = FALSE /\ ~Known(r.reason)
  BY LiveState, Ranks DEF SessionRecord
<1>2. KnowsUpTo(r, 3) /\ Known(r.observedAt)
  BY <1>1 DEF Live, KnowsUpTo, LiveInv
<1>3. c \in SessionRecord
  BY <1>1, FieldsTyped DEF At
<1>4. /\ c.state = r.state /\ c.eligible = r.eligible /\ c.date = r.date
      /\ c.plannedAt = r.plannedAt /\ c.supervisedUntil = r.supervisedUntil
      /\ c.updatedAt = t /\ c.observedAt = r.observedAt
      /\ c.preflightedAt = r.preflightedAt /\ c.preflight = r.preflight
      /\ c.startedAt = r.startedAt /\ c.minute45 = r.minute45 /\ c.minute90 = r.minute90
      /\ c.stoppedAt = r.stoppedAt /\ c.locallyVerifiedAt = t /\ c.local = evidence
      /\ c.externallyVerifiedAt = r.externallyVerifiedAt /\ c.external = r.external
      /\ c.costReconciledAt = r.costReconciledAt /\ c.cost = r.cost
      /\ c.acceptedAt = r.acceptedAt /\ c.invalidatedAt = r.invalidatedAt
      /\ c.reason = r.reason
  BY <1>1 DEF SessionRecord
<1>5. Known(t) /\ Known(evidence)
  BY DEF Known
<1>6. KnowsUpTo(c, 4)
  BY <1>1, <1>2, <1>4, <1>5 DEF KnowsUpTo
<1>7. Chronological(Moments(c)) /\ Within(Moments(c), t) /\ Latest(Moments(c), t)
  <2>1. ASSUME NEW i \in 1..11, i # 8 PROVE Moments(c)[i] = Moments(r)[i]
    BY <1>4, <2>1 DEF Moments
  <2>2. Moments(c)[8] = t
    BY <1>4 DEF Moments
  <2>3. ASSUME NEW i \in 9..11 PROVE ~Known(Moments(r)[i])
    <3>1. i = 9 \/ i = 10 \/ i = 11
      OBVIOUS
    <3>2. QED
      BY <1>2, <1>6, <1>4, <3>1, MomentsAre DEF KnowsUpTo
  <2>4. QED
    BY <1>1, <2>1, <2>2, <2>3, AddedLast DEF Shaped
<1>8. Shaped(c)
  BY <1>1, <1>4, <1>5, <1>6, <1>7 DEF Shaped, KnowsUpTo
<1>9. Candidate("local-verification", r, c)
  BY <1>3, <1>4, <1>8 DEF Candidate
<1>10. ASSUME evidence = "pass"
       PROVE  Written("local-verification", r, t, [c EXCEPT !.state = "locally_verified"])
  <2>1. PICK q : q = [c EXCEPT !.state = "locally_verified"]
    OBVIOUS
  <2>2. q \in SessionRecord /\ q.state = "locally_verified" /\ q.eligible = c.eligible /\ Alike(c, q)
    BY <1>3, <1>4, <2>1, StateChanges DEF States
  <2>3. "locally_verified" \in Target("local-verification") /\ "locally_verified" \in States \ {"planned", "invalid"}
    BY DEF Target, States
  <2>4. Live(c, 4)
    <3>1. /\ InWindow(c, c.minute45, Minute45) /\ InWindow(c, c.minute90, Minute90)
      BY <1>1, <1>2, <1>4 DEF Live, InWindow, KnowsUpTo
    <3>2. QED
      BY <1>1, <1>2, <1>4, <1>6, <1>7, <1>10, <3>1 DEF Live, KnowsUpTo
  <2>5. Left(q) < Left(r)
    BY <1>2, <1>4, <1>5, <1>6, <2>2 DEF Left, Alike
  <2>6. Rank("locally_verified") = 4 /\ Known(c.observedAt) /\ ~Known(c.reason)
        /\ (c.eligible <=> "locally_verified" = "running")
    BY <1>1, <1>2, <1>4, Ranks
  <2>7. Goes("local-verification", r, c, t, "locally_verified", 4, q)
    BY <1>4, <1>7, <1>9, <1>10, <2>2, <2>3, <2>4, <2>5, <2>6 DEF Goes, Ran
  <2>8. QED
    BY <2>1, <2>7, LiveWrites
<1>11. QED
  BY <1>9, <1>10

\* An external verification.
LEMMA ExternalWrites ==
  ASSUME NEW r, RecordInv(r), r.state = "locally_verified", NEW t \in Nat, t >= r.updatedAt,
         NEW evidence \in ExternalEvidence,
         NEW c, c = [r EXCEPT !.external = evidence, !.externallyVerifiedAt = t, !.updatedAt = t]
  PROVE  /\ Candidate("external-verification", r, c)
         /\ evidence = "pass" =>
              Written("external-verification", r, t, [c EXCEPT !.state = "externally_verified"])
<1>1. /\ r \in SessionRecord /\ Shaped(r) /\ Live(r, 4) /\ LiveInv(r)
      /\ r.eligible = FALSE /\ ~Known(r.reason)
  BY LiveState, Ranks DEF SessionRecord
<1>2. KnowsUpTo(r, 4) /\ Known(r.observedAt)
  BY <1>1 DEF Live, KnowsUpTo, LiveInv
<1>3. c \in SessionRecord
  BY <1>1, FieldsTyped DEF At
<1>4. /\ c.state = r.state /\ c.eligible = r.eligible /\ c.date = r.date
      /\ c.plannedAt = r.plannedAt /\ c.supervisedUntil = r.supervisedUntil
      /\ c.updatedAt = t /\ c.observedAt = r.observedAt
      /\ c.preflightedAt = r.preflightedAt /\ c.preflight = r.preflight
      /\ c.startedAt = r.startedAt /\ c.minute45 = r.minute45 /\ c.minute90 = r.minute90
      /\ c.stoppedAt = r.stoppedAt /\ c.locallyVerifiedAt = r.locallyVerifiedAt
      /\ c.local = r.local /\ c.externallyVerifiedAt = t /\ c.external = evidence
      /\ c.costReconciledAt = r.costReconciledAt /\ c.cost = r.cost
      /\ c.acceptedAt = r.acceptedAt /\ c.invalidatedAt = r.invalidatedAt
      /\ c.reason = r.reason
  BY <1>1 DEF SessionRecord
<1>5. Known(t) /\ Known(evidence)
  BY DEF Known
<1>6. KnowsUpTo(c, 5)
  BY <1>1, <1>2, <1>4, <1>5 DEF KnowsUpTo
<1>7. Chronological(Moments(c)) /\ Within(Moments(c), t) /\ Latest(Moments(c), t)
  <2>1. ASSUME NEW i \in 1..11, i # 9 PROVE Moments(c)[i] = Moments(r)[i]
    BY <1>4, <2>1 DEF Moments
  <2>2. Moments(c)[9] = t
    BY <1>4 DEF Moments
  <2>3. ASSUME NEW i \in 10..11 PROVE ~Known(Moments(r)[i])
    <3>1. i = 10 \/ i = 11
      OBVIOUS
    <3>2. QED
      BY <1>2, <1>6, <1>4, <3>1, MomentsAre DEF KnowsUpTo
  <2>4. QED
    BY <1>1, <2>1, <2>2, <2>3, AddedLast DEF Shaped
<1>8. Shaped(c)
  BY <1>1, <1>4, <1>5, <1>6, <1>7 DEF Shaped, KnowsUpTo
<1>9. Candidate("external-verification", r, c)
  BY <1>3, <1>4, <1>8 DEF Candidate
<1>10. ASSUME evidence = "pass"
       PROVE  Written("external-verification", r, t, [c EXCEPT !.state = "externally_verified"])
  <2>1. PICK q : q = [c EXCEPT !.state = "externally_verified"]
    OBVIOUS
  <2>2. q \in SessionRecord /\ q.state = "externally_verified" /\ q.eligible = c.eligible /\ Alike(c, q)
    BY <1>3, <1>4, <2>1, StateChanges DEF States
  <2>3. "externally_verified" \in Target("external-verification") /\ "externally_verified" \in States \ {"planned", "invalid"}
    BY DEF Target, States
  <2>4. Live(c, 5)
    <3>1. /\ InWindow(c, c.minute45, Minute45) /\ InWindow(c, c.minute90, Minute90)
      BY <1>1, <1>2, <1>4 DEF Live, InWindow, KnowsUpTo
    <3>2. QED
      BY <1>1, <1>2, <1>4, <1>6, <1>7, <1>10, <3>1 DEF Live, KnowsUpTo
  <2>5. Left(q) < Left(r)
    BY <1>2, <1>4, <1>5, <1>6, <2>2 DEF Left, Alike
  <2>6. Rank("externally_verified") = 5 /\ Known(c.observedAt) /\ ~Known(c.reason)
        /\ (c.eligible <=> "externally_verified" = "running")
    BY <1>1, <1>2, <1>4, Ranks
  <2>7. Goes("external-verification", r, c, t, "externally_verified", 5, q)
    BY <1>4, <1>7, <1>9, <1>10, <2>2, <2>3, <2>4, <2>5, <2>6 DEF Goes, Ran
  <2>8. QED
    BY <2>1, <2>7, LiveWrites
<1>11. QED
  BY <1>9, <1>10

\* A reconciliation of the costs.
LEMMA CostWrites ==
  ASSUME NEW r, RecordInv(r), r.state = "externally_verified", NEW t \in Nat, t >= r.updatedAt,
         NEW evidence \in CostEvidence,
         NEW c, c = [r EXCEPT !.cost = evidence, !.costReconciledAt = t, !.updatedAt = t]
  PROVE  /\ Candidate("cost-reconciliation", r, c)
         /\ CostFault(r, t, evidence) = None =>
              Written("cost-reconciliation", r, t, [c EXCEPT !.state = "cost_pending"])
<1>1. /\ r \in SessionRecord /\ Shaped(r) /\ Live(r, 5) /\ LiveInv(r)
      /\ r.eligible = FALSE /\ ~Known(r.reason)
  BY LiveState, Ranks DEF SessionRecord
<1>2. KnowsUpTo(r, 5) /\ Known(r.observedAt)
  BY <1>1 DEF Live, KnowsUpTo, LiveInv
<1>3. c \in SessionRecord
  BY <1>1, FieldsTyped DEF At
<1>4. /\ c.state = r.state /\ c.eligible = r.eligible /\ c.date = r.date
      /\ c.plannedAt = r.plannedAt /\ c.supervisedUntil = r.supervisedUntil
      /\ c.updatedAt = t /\ c.observedAt = r.observedAt
      /\ c.preflightedAt = r.preflightedAt /\ c.preflight = r.preflight
      /\ c.startedAt = r.startedAt /\ c.minute45 = r.minute45 /\ c.minute90 = r.minute90
      /\ c.stoppedAt = r.stoppedAt /\ c.locallyVerifiedAt = r.locallyVerifiedAt
      /\ c.local = r.local /\ c.externallyVerifiedAt = r.externallyVerifiedAt
      /\ c.external = r.external /\ c.costReconciledAt = t /\ c.cost = evidence
      /\ c.acceptedAt = r.acceptedAt /\ c.invalidatedAt = r.invalidatedAt
      /\ c.reason = r.reason
  BY <1>1 DEF SessionRecord
<1>5. Known(t) /\ Known(evidence)
  BY DEF Known
<1>6. KnowsUpTo(c, 6)
  BY <1>1, <1>2, <1>4, <1>5 DEF KnowsUpTo
<1>7. Chronological(Moments(c)) /\ Within(Moments(c), t) /\ Latest(Moments(c), t)
  <2>1. ASSUME NEW i \in 1..11, i # 10 PROVE Moments(c)[i] = Moments(r)[i]
    BY <1>4, <2>1 DEF Moments
  <2>2. Moments(c)[10] = t
    BY <1>4 DEF Moments
  <2>3. ASSUME NEW i \in 11..11 PROVE ~Known(Moments(r)[i])
    <3>1. i = 11
      OBVIOUS
    <3>2. QED
      BY <1>2, <1>6, <1>4, <3>1, MomentsAre DEF KnowsUpTo
  <2>4. QED
    BY <1>1, <2>1, <2>2, <2>3, AddedLast DEF Shaped
<1>8. Shaped(c)
  BY <1>1, <1>4, <1>5, <1>6, <1>7 DEF Shaped, KnowsUpTo
<1>9. Candidate("cost-reconciliation", r, c)
  BY <1>3, <1>4, <1>8 DEF Candidate
<1>10. ASSUME CostFault(r, t, evidence) = None
       PROVE  Written("cost-reconciliation", r, t, [c EXCEPT !.state = "cost_pending"])
  <2>1. PICK q : q = [c EXCEPT !.state = "cost_pending"]
    OBVIOUS
  <2>2. q \in SessionRecord /\ q.state = "cost_pending" /\ q.eligible = c.eligible /\ Alike(c, q)
    BY <1>3, <1>4, <2>1, StateChanges DEF States
  <2>3. "cost_pending" \in Target("cost-reconciliation") /\ "cost_pending" \in States \ {"planned", "invalid"}
    BY DEF Target, States
  <2>4. Live(c, 6)
    <3>1. /\ InWindow(c, c.minute45, Minute45) /\ InWindow(c, c.minute90, Minute90)
      BY <1>1, <1>2, <1>4 DEF Live, InWindow, KnowsUpTo
    <3>2. evidence = "pass"
      BY <1>10 DEF CostFault, CostEvidence, Reasons
    <3>3. QED
      BY <1>1, <1>2, <1>4, <1>6, <1>7, <3>1, <3>2 DEF Live, KnowsUpTo
  <2>5. Left(q) < Left(r)
    BY <1>2, <1>4, <1>5, <1>6, <2>2 DEF Left, Alike
  <2>6. Rank("cost_pending") = 6 /\ Known(c.observedAt) /\ ~Known(c.reason)
        /\ (c.eligible <=> "cost_pending" = "running")
    BY <1>1, <1>2, <1>4, Ranks
  <2>7. Goes("cost-reconciliation", r, c, t, "cost_pending", 6, q)
    BY <1>4, <1>7, <1>9, <1>10, <2>2, <2>3, <2>4, <2>5, <2>6 DEF Goes, Ran
  <2>8. QED
    BY <2>1, <2>7, LiveWrites
<1>11. QED
  BY <1>9, <1>10

\* An acceptance.
LEMMA AcceptWrites ==
  ASSUME NEW r, RecordInv(r), r.state = "cost_pending", NEW t \in Nat, t >= r.updatedAt,
         AcceptanceEvidence(r),
         NEW c, c = [r EXCEPT !.eligible = FALSE, !.acceptedAt = t, !.updatedAt = t]
  PROVE  /\ Candidate("accept", r, c)
         /\ TRUE =>
              Written("accept", r, t, [c EXCEPT !.state = "accepted"])
<1>1. /\ r \in SessionRecord /\ Shaped(r) /\ Live(r, 6) /\ LiveInv(r)
      /\ r.eligible = FALSE /\ ~Known(r.reason)
  BY LiveState, Ranks DEF SessionRecord
<1>2. KnowsUpTo(r, 6) /\ Known(r.observedAt)
  BY <1>1 DEF Live, KnowsUpTo, LiveInv
<1>3. c \in SessionRecord
  BY <1>1, FieldsTyped DEF At
<1>4. /\ c.state = r.state /\ c.eligible = FALSE /\ c.date = r.date
      /\ c.plannedAt = r.plannedAt /\ c.supervisedUntil = r.supervisedUntil
      /\ c.updatedAt = t /\ c.observedAt = r.observedAt
      /\ c.preflightedAt = r.preflightedAt /\ c.preflight = r.preflight
      /\ c.startedAt = r.startedAt /\ c.minute45 = r.minute45 /\ c.minute90 = r.minute90
      /\ c.stoppedAt = r.stoppedAt /\ c.locallyVerifiedAt = r.locallyVerifiedAt
      /\ c.local = r.local /\ c.externallyVerifiedAt = r.externallyVerifiedAt
      /\ c.external = r.external /\ c.costReconciledAt = r.costReconciledAt
      /\ c.cost = r.cost /\ c.acceptedAt = t /\ c.invalidatedAt = r.invalidatedAt
      /\ c.reason = r.reason
  BY <1>1 DEF SessionRecord
<1>5. Known(t)
  BY DEF Known
<1>6. KnowsUpTo(c, 7)
  BY <1>1, <1>2, <1>4, <1>5 DEF KnowsUpTo
<1>7. Chronological(Moments(c)) /\ Within(Moments(c), t) /\ Latest(Moments(c), t)
  <2>1. ASSUME NEW i \in 1..11, i # 11 PROVE Moments(c)[i] = Moments(r)[i]
    BY <1>4, <2>1 DEF Moments
  <2>2. Moments(c)[11] = t
    BY <1>4 DEF Moments
  <2>3. QED
    BY <1>1, <2>1, <2>2, AddedLast DEF Shaped
<1>8. Shaped(c)
  BY <1>1, <1>4, <1>5, <1>6, <1>7 DEF Shaped, KnowsUpTo
<1>9. Candidate("accept", r, c)
  BY <1>3, <1>4, <1>8 DEF Candidate
<1>10. ASSUME TRUE
       PROVE  Written("accept", r, t, [c EXCEPT !.state = "accepted"])
  <2>1. PICK q : q = [c EXCEPT !.state = "accepted"]
    OBVIOUS
  <2>2. q \in SessionRecord /\ q.state = "accepted" /\ q.eligible = c.eligible /\ Alike(c, q)
    BY <1>3, <1>4, <2>1, StateChanges DEF States
  <2>3. "accepted" \in Target("accept") /\ "accepted" \in States \ {"planned", "invalid"}
    BY DEF Target, States
  <2>4. Live(c, 7)
    <3>1. /\ InWindow(c, c.minute45, Minute45) /\ InWindow(c, c.minute90, Minute90)
      BY <1>1, <1>2, <1>4 DEF Live, InWindow, KnowsUpTo
    <3>2. QED
      BY <1>1, <1>2, <1>4, <1>6, <1>7, <3>1 DEF Live, KnowsUpTo
  <2>5. Left(q) < Left(r)
    BY <1>2, <1>4, <1>5, <1>6, <2>2 DEF Left, Alike
  <2>6. Rank("accepted") = 7 /\ Known(c.observedAt) /\ ~Known(c.reason)
        /\ (c.eligible <=> "accepted" = "running")
    BY <1>1, <1>2, <1>4, Ranks
  <2>7. Goes("accept", r, c, t, "accepted", 7, q)
    BY <1>4, <1>7, <1>9, <1>10, <2>2, <2>3, <2>4, <2>5, <2>6 DEF Goes, Ran, AcceptanceEvidence
  <2>8. QED
    BY <2>1, <2>7, LiveWrites
<1>11. QED
  BY <1>9, <1>10

-----------------------------------------------------------------------------
(* Records and audit together. *)

PlannedIn(S) == {s \in Sessions : S[s] # None}
ActiveIn(S) == {s \in PlannedIn(S) : S[s].state \notin Terminal}

\* Records are sound one by one and together.
RecordsInv(S) ==
  /\ S \in [Sessions -> SessionRecord \cup {None}]
  /\ \A s \in PlannedIn(S) : RecordInv(S[s])
  /\ IsFiniteSet(PlannedIn(S)) /\ Cardinality(PlannedIn(S)) <= MaxSessions
  /\ \A s, u \in ActiveIn(S) : s = u
  /\ \A s, u \in PlannedIn(S) :
       s # u /\ S[s].state = "accepted" /\ S[u].state = "accepted" => S[s].date # S[u].date

\* Entry k is the last one of s among the first n, or there is none and k is 0.
LastIs(A, s, n, k) ==
  /\ k \in 0..n
  /\ k # 0 => A[k].session = s
  /\ \A j \in (k + 1)..n : A[j].session # s

Has(A, s, action) == \E i \in 1..Len(A) : A[i].session = s /\ A[i].action = action

\* An entry follows from those before it.
EntryInv(A, i) ==
  /\ \E k \in 0..(i - 1) : /\ LastIs(A, A[i].session, i - 1, k)
                           /\ A[i].from = (IF k = 0 THEN None ELSE A[k].to)
  /\ A[i].from \in Origin(A[i].action) /\ A[i].to \in Target(A[i].action)
  /\ A[i].to = A[i].record.state /\ A[i].at = A[i].record.updatedAt /\ A[i].inputAt = A[i].at
  /\ i > 1 => A[i].at >= A[i - 1].at
  /\ Semantics(A[i].record)
  /\ \A j \in 1..(i - 1) : ~(A[j].session = A[i].session /\ A[j].action = A[i].action)

\* The last entry of each session has its record, and an end is the last entry.
Stored(S, A) ==
  /\ \A s \in Sessions : \E k \in 0..Len(A) :
       LastIs(A, s, Len(A), k) /\ S[s] = (IF k = 0 THEN None ELSE A[k].record)
  /\ \A i \in 1..Len(A) : A[i].to \in Terminal => S[A[i].session] = A[i].record

\* What a record says of its past is in the audit.
Logged(S, A) ==
  \A s \in PlannedIn(S) :
    /\ Known(S[s].minute45) => Has(A, s, "ack-minute-45")
    /\ Known(S[s].minute90) => Has(A, s, "ack-minute-90")
    /\ Ran(S[s]) => \E i \in 1..Len(A) :
                      A[i].session = s /\ A[i].action = "start" /\ A[i].to = "running"

\* No session takes more than ten entries.
Counted(S, A) ==
  /\ Len(A) <= 10 * Cardinality(PlannedIn(S))
  /\ \A s \in ActiveIn(S) : Len(A) + Left(S[s]) <= 10 * Cardinality(PlannedIn(S))

Sound(S, A) ==
  /\ RecordsInv(S)
  /\ A \in Seq(AuditRow) /\ \A i \in 1..Len(A) : EntryInv(A, i)
  /\ Stored(S, A) /\ Logged(S, A) /\ Counted(S, A)

\* Later entries change nothing about the earlier ones.
LEMMA LastStays ==
  ASSUME NEW A \in Seq(AuditRow), NEW e, NEW s, NEW n \in 0..Len(A), NEW k
  PROVE  LastIs(Append(A, e), s, n, k) <=> LastIs(A, s, n, k)
<1>1. \A i \in 1..Len(A) : Append(A, e)[i] = A[i]
  OBVIOUS
<1>2. n <= Len(A) /\ n \in Nat
  OBVIOUS
<1>3. QED
  BY <1>1, <1>2 DEF LastIs

\* What is true of an entry stays so when one is appended.
LEMMA EntriesStay ==
  ASSUME NEW A \in Seq(AuditRow), NEW e, NEW i \in 1..Len(A), EntryInv(A, i)
  PROVE  EntryInv(Append(A, e), i)
<1>1. \A j \in 1..Len(A) : Append(A, e)[j] = A[j]
  OBVIOUS
<1>2. PICK k \in 0..(i - 1) : /\ LastIs(A, A[i].session, i - 1, k)
                              /\ A[i].from = (IF k = 0 THEN None ELSE A[k].to)
  BY DEF EntryInv
<1>3. LastIs(Append(A, e), A[i].session, i - 1, k)
  BY <1>2, LastStays
<1>4. i - 1 \in 0..Len(A) /\ \A j \in 1..(i - 1) : j \in 1..Len(A)
  OBVIOUS
<1>5. k # 0 => k \in 1..Len(A)
  BY <1>2, <1>4
<1>6. QED
  BY <1>1, <1>2, <1>3, <1>4, <1>5 DEF EntryInv

\* A move of session s by an action at t, that makes q of its record.
Puts(S, A, s, action, from, t, q, T, B) ==
  /\ Sound(S, A)
  /\ s \in Sessions /\ action \in Actions /\ ~Has(A, s, action)
  /\ from \in Origin(action) /\ from = (IF S[s] = None THEN None ELSE S[s].state)
  /\ t \in Nat /\ (A # <<>> => t >= A[Len(A)].at)
  /\ RecordInv(q) /\ q.updatedAt = t /\ q.state \in Target(action)
  /\ T = [S EXCEPT ![s] = q]
  /\ B = Append(A, AuditEntry(s, action, from, t, q))

\* What putting a record and its entry leaves of the store and of the audit.
LEMMA PutsTyped ==
  ASSUME NEW S, NEW A, NEW s, NEW action, NEW from, NEW t, NEW q, NEW T, NEW B,
         Puts(S, A, s, action, from, t, q, T, B)
  PROVE  /\ q \in SessionRecord /\ q # None
         /\ T \in [Sessions -> SessionRecord \cup {None}] /\ T[s] = q
         /\ \A u \in Sessions \ {s} : T[u] = S[u]
         /\ A \in Seq(AuditRow) /\ B \in Seq(AuditRow) /\ Len(B) = Len(A) + 1 /\ Len(A) \in Nat
         /\ \A i \in 1..Len(A) : B[i] = A[i]
         /\ B[Len(B)] = AuditEntry(s, action, from, t, q)
<1>1. q \in SessionRecord /\ q # None
  BY DEF Puts, RecordInv
<1>2. /\ T \in [Sessions -> SessionRecord \cup {None}] /\ T[s] = q
      /\ \A u \in Sessions \ {s} : T[u] = S[u]
  BY <1>1 DEF Puts, Sound, RecordsInv
<1>3. from \in States \cup {None}
  BY DEF Puts, Sound, RecordsInv, SessionRecord
<1>4. AuditEntry(s, action, from, t, q) \in AuditRow
  BY <1>1, <1>3 DEF AuditEntry, AuditRow, Puts, SessionRecord
<1>5. A \in Seq(AuditRow)
  BY DEF Puts, Sound
<1>6. PICK e : e = AuditEntry(s, action, from, t, q)
  OBVIOUS
<1>7. B = Append(A, e) /\ e \in AuditRow
  BY <1>4, <1>6 DEF Puts
<1>8. /\ B \in Seq(AuditRow) /\ Len(B) = Len(A) + 1 /\ Len(A) \in Nat
      /\ \A i \in 1..Len(A) : B[i] = A[i]
      /\ B[Len(A) + 1] = e
  BY <1>5, <1>7
<1>9. QED
  BY <1>1, <1>2, <1>5, <1>6, <1>8

\* The new entry follows from the old ones.
LEMMA PutsEntries ==
  ASSUME NEW S, NEW A, NEW s, NEW action, NEW from, NEW t, NEW q, NEW T, NEW B,
         Puts(S, A, s, action, from, t, q, T, B)
  PROVE  /\ B \in Seq(AuditRow) /\ \A i \in 1..Len(B) : EntryInv(B, i)
<1>1. PICK n : n = Len(B)
  OBVIOUS
<1>2. /\ B \in Seq(AuditRow) /\ n = Len(A) + 1 /\ Len(A) \in Nat /\ A \in Seq(AuditRow)
      /\ \A i \in 1..Len(A) : B[i] = A[i]
  BY <1>1, PutsTyped
<1>3. /\ B[n].session = s /\ B[n].action = action /\ B[n].from = from /\ B[n].to = q.state
      /\ B[n].at = t /\ B[n].inputAt = t /\ B[n].record = q
  BY <1>1, PutsTyped DEF AuditEntry, Puts
<1>4. PICK k \in 0..Len(A) : LastIs(A, s, Len(A), k) /\ S[s] = (IF k = 0 THEN None ELSE A[k].record)
  BY DEF Puts, Sound, Stored
<1>5. k # 0 => A[k].record \in SessionRecord /\ A[k].to = A[k].record.state
  <2>1. k # 0 => A[k] \in AuditRow /\ EntryInv(A, k)
    BY <1>2 DEF Puts, Sound
  <2>2. QED
    BY <2>1 DEF AuditRow, EntryInv
<1>6. from = (IF k = 0 THEN None ELSE A[k].to)
  BY <1>4, <1>5 DEF Puts
<1>7. LastIs(B, s, n - 1, k)
  BY <1>2, <1>4, LastStays DEF Puts
<1>8. EntryInv(B, n)
  <2>1. n > 1 => B[n].at >= B[n - 1].at
    BY <1>2, <1>3 DEF Puts
  <2>2. \A j \in 1..(n - 1) : ~(B[j].session = s /\ B[j].action = action)
    BY <1>2 DEF Puts, Has
  <2>3. Semantics(q)
    BY DEF Puts, RecordInv
  <2>4. k \in 0..(n - 1) /\ B[n].from = (IF k = 0 THEN None ELSE B[k].to)
    BY <1>2, <1>3, <1>6
  <2>5. QED
    BY <1>3, <1>7, <2>1, <2>2, <2>3, <2>4 DEF EntryInv, Puts
<1>9. ASSUME NEW i \in 1..Len(A) PROVE EntryInv(B, i)
  <2>1. EntryInv(A, i)
    BY DEF Puts, Sound
  <2>2. QED
    BY <1>2, <2>1, EntriesStay DEF Puts
<1>10. QED
  BY <1>1, <1>2, <1>8, <1>9

\* What an action moves is not over.
LEMMA OriginIs ==
  ASSUME NEW action \in Actions, NEW from \in Origin(action)
  PROVE  /\ from = None \/ from \in States \ Terminal
         /\ action # "plan" => from # None
         /\ action = "plan" => from = None
  BY DEF Origin, Actions, States, Terminal

\* At most nine entries follow the plan of a session.
LEMMA LeftRange == ASSUME NEW r PROVE Left(r) \in 0..9
  BY DEF Left

\* No session that an action moves has an end in the audit.
LEMMA PutsNoEnd ==
  ASSUME NEW S, NEW A, NEW s, NEW action, NEW from, NEW t, NEW q, NEW T, NEW B,
         Puts(S, A, s, action, from, t, q, T, B), NEW i \in 1..Len(A), A[i].to \in Terminal
  PROVE  A[i].session # s
<1>1. S[A[i].session] = A[i].record
  BY DEF Puts, Sound, Stored
<1>2. A[i] \in AuditRow /\ EntryInv(A, i)
  BY DEF Puts, Sound
<1>3. A[i].record # None /\ A[i].record.state \in Terminal
  BY <1>2 DEF AuditRow, EntryInv
<1>4. from = None \/ from \in States \ Terminal
  BY OriginIs DEF Puts
<1>5. SUFFICES ASSUME A[i].session = s PROVE FALSE
  OBVIOUS
<1>6. S[s] # None /\ S[s].state \in Terminal
  BY <1>1, <1>3, <1>5
<1>7. from = S[s].state
  BY <1>6 DEF Puts
<1>8. None \notin Terminal
  BY DEF Terminal, States
<1>9. QED
  BY <1>4, <1>6, <1>7, <1>8

\* A session that was put has its record in its last entry, and the others keep theirs.
LEMMA PutsStored ==
  ASSUME NEW S, NEW A, NEW s, NEW action, NEW from, NEW t, NEW q, NEW T, NEW B,
         Puts(S, A, s, action, from, t, q, T, B)
  PROVE  Stored(T, B)
<1>1. PICK n : n = Len(B)
  OBVIOUS
<1>2. /\ n = Len(A) + 1 /\ Len(A) \in Nat /\ A \in Seq(AuditRow)
      /\ \A i \in 1..Len(A) : B[i] = A[i]
      /\ T[s] = q /\ \A u \in Sessions \ {s} : T[u] = S[u]
  BY <1>1, PutsTyped
<1>3. B[n].session = s /\ B[n].to = q.state /\ B[n].record = q
  <2>1. B[Len(B)] = AuditEntry(s, action, from, t, q)
    BY PutsTyped
  <2>2. QED
    BY <1>1, <2>1 DEF AuditEntry
<1>4. ASSUME NEW u \in Sessions
      PROVE  \E k \in 0..n : LastIs(B, u, n, k) /\ T[u] = (IF k = 0 THEN None ELSE B[k].record)
  <2>1. CASE u = s
    <3>1. LastIs(B, u, n, n)
      BY <1>2, <1>3, <2>1 DEF LastIs
    <3>2. n # 0 /\ n \in 0..n
      BY <1>2
    <3>3. QED
      BY <1>2, <1>3, <2>1, <3>1, <3>2
  <2>2. CASE u # s
    <3>1. PICK k \in 0..Len(A) : LastIs(A, u, Len(A), k) /\ S[u] = (IF k = 0 THEN None ELSE A[k].record)
      BY DEF Puts, Sound, Stored
    <3>2. k \in 0..n /\ (k # 0 => k \in 1..Len(A))
      BY <1>2, <3>1
    <3>3. LastIs(B, u, n, k)
      BY <1>2, <1>3, <2>2, <3>1, <3>2 DEF LastIs
    <3>4. QED
      BY <1>2, <2>2, <3>1, <3>2, <3>3
  <2>3. QED
    BY <2>1, <2>2
<1>5. ASSUME NEW i \in 1..n, B[i].to \in Terminal PROVE T[B[i].session] = B[i].record
  <2>1. CASE i = n
    BY <1>2, <1>3, <2>1
  <2>2. CASE i # n
    <3>1. i \in 1..Len(A) /\ B[i] = A[i]
      BY <1>2, <2>2
    <3>2. A[i].session # s /\ A[i].session \in Sessions
      <4>1. A[i] \in AuditRow
        BY <1>2, <3>1
      <4>2. A[i].session # s
        BY <1>5, <3>1, PutsNoEnd
      <4>3. QED
        BY <4>1, <4>2 DEF AuditRow
    <3>3. S[A[i].session] = A[i].record
      BY <1>5, <3>1 DEF Puts, Sound, Stored
    <3>4. QED
      BY <1>2, <3>1, <3>2, <3>3
  <2>3. QED
    BY <2>1, <2>2
<1>6. QED
  BY <1>1, <1>4, <1>5 DEF Stored

\* What the record newly says of its past is what the entry says.
Remembers(S, s, action, q) ==
  /\ Known(q.minute45) => action = "ack-minute-45" \/ (S[s] # None /\ Known(S[s].minute45))
  /\ Known(q.minute90) => action = "ack-minute-90" \/ (S[s] # None /\ Known(S[s].minute90))
  /\ Ran(q) => (S[s] # None /\ Ran(S[s])) \/ (action = "start" /\ q.state = "running")

\* What a record remembers of its past stays in the audit.
LEMMA PutsLogged ==
  ASSUME NEW S, NEW A, NEW s, NEW action, NEW from, NEW t, NEW q, NEW T, NEW B,
         Puts(S, A, s, action, from, t, q, T, B), Remembers(S, s, action, q)
  PROVE  Logged(T, B)
<1>1. PICK n : n = Len(B)
  OBVIOUS
<1>2. /\ n = Len(A) + 1 /\ Len(A) \in Nat /\ A \in Seq(AuditRow)
      /\ \A i \in 1..Len(A) : B[i] = A[i]
      /\ T[s] = q /\ \A u \in Sessions \ {s} : T[u] = S[u]
  BY <1>1, PutsTyped
<1>3. B[n].session = s /\ B[n].action = action /\ B[n].to = q.state
  <2>1. B[Len(B)] = AuditEntry(s, action, from, t, q)
    BY PutsTyped
  <2>2. QED
    BY <1>1, <2>1 DEF AuditEntry
<1>4. ASSUME NEW u, NEW a, Has(A, u, a) PROVE Has(B, u, a)
  <2>1. PICK i \in 1..Len(A) : A[i].session = u /\ A[i].action = a
    BY <1>4 DEF Has
  <2>2. i \in 1..n /\ B[i] = A[i]
    BY <1>2
  <2>3. QED
    BY <1>1, <2>1, <2>2 DEF Has
<1>5. Has(B, s, action)
  <2>1. n \in 1..n
    BY <1>2
  <2>2. QED
    BY <1>1, <1>3, <2>1 DEF Has
<1>6. ASSUME NEW u, \E i \in 1..Len(A) : A[i].session = u /\ A[i].action = "start" /\ A[i].to = "running"
      PROVE  \E i \in 1..n : B[i].session = u /\ B[i].action = "start" /\ B[i].to = "running"
  <2>1. PICK i \in 1..Len(A) : A[i].session = u /\ A[i].action = "start" /\ A[i].to = "running"
    BY <1>6
  <2>2. i \in 1..n /\ B[i] = A[i]
    BY <1>2
  <2>3. QED
    BY <2>1, <2>2
<1>7. ASSUME NEW u \in PlannedIn(S)
      PROVE  /\ Known(S[u].minute45) => Has(B, u, "ack-minute-45")
             /\ Known(S[u].minute90) => Has(B, u, "ack-minute-90")
             /\ Ran(S[u]) => \E i \in 1..n :
                               B[i].session = u /\ B[i].action = "start" /\ B[i].to = "running"
  <2>1. Logged(S, A)
    BY DEF Puts, Sound
  <2>2. QED
    BY <1>4, <1>6, <2>1 DEF Logged
<1>8. ASSUME NEW u \in PlannedIn(T)
      PROVE  /\ Known(T[u].minute45) => Has(B, u, "ack-minute-45")
             /\ Known(T[u].minute90) => Has(B, u, "ack-minute-90")
             /\ Ran(T[u]) => \E i \in 1..n :
                               B[i].session = u /\ B[i].action = "start" /\ B[i].to = "running"
  <2>1. CASE u # s
    <3>1. u \in PlannedIn(S) /\ T[u] = S[u]
      BY <1>2, <2>1 DEF PlannedIn
    <3>2. QED
      BY <1>7, <3>1
  <2>2. CASE u = s
    <3>1. S[s] # None => s \in PlannedIn(S)
      BY <2>2 DEF PlannedIn
    <3>2. n \in 1..n
      BY <1>2
    <3>3. Known(T[u].minute45) => Has(B, u, "ack-minute-45")
      BY <1>2, <1>5, <1>7, <2>2, <3>1 DEF Remembers
    <3>4. Known(T[u].minute90) => Has(B, u, "ack-minute-90")
      BY <1>2, <1>5, <1>7, <2>2, <3>1 DEF Remembers
    <3>5. Ran(T[u]) => \E i \in 1..n :
                         B[i].session = u /\ B[i].action = "start" /\ B[i].to = "running"
      BY <1>2, <1>3, <1>7, <2>2, <3>1, <3>2 DEF Remembers
    <3>6. QED
      BY <3>3, <3>4, <3>5
  <2>3. QED
    BY <2>1, <2>2
<1>9. QED
  BY <1>1, <1>8 DEF Logged

\* An action on a session that is not over keeps the records and the audit sound.
LEMMA MoveKeeps ==
  ASSUME NEW S, NEW A, NEW s, NEW action, NEW from, NEW t, NEW q, NEW T, NEW B,
         Puts(S, A, s, action, from, t, q, T, B), S[s] # None,
         Written(action, S[s], t, q),
         q.state = "accepted" =>
           \A u \in PlannedIn(S) \ {s} : ~(S[u].state = "accepted" /\ S[u].date = S[s].date)
  PROVE  Sound(T, B)
<1>1. /\ q \in SessionRecord /\ q # None
      /\ T \in [Sessions -> SessionRecord \cup {None}] /\ T[s] = q
      /\ \A u \in Sessions \ {s} : T[u] = S[u]
      /\ Len(B) = Len(A) + 1 /\ Len(A) \in Nat
  BY PutsTyped
<1>2. RecordsInv(S) /\ Counted(S, A) /\ s \in Sessions
  BY DEF Puts, Sound
<1>3. PlannedIn(T) = PlannedIn(S) /\ s \in PlannedIn(S)
  BY <1>1, <1>2 DEF PlannedIn
<1>4. s \in ActiveIn(S)
  <2>1. from = S[s].state /\ (from = None \/ from \in States \ Terminal)
    BY OriginIs DEF Puts
  <2>2. S[s].state \in States
    BY <1>2, <1>3 DEF RecordsInv, RecordInv, SessionRecord
  <2>3. QED
    BY <1>3, <2>1, <2>2 DEF ActiveIn
<1>5. ActiveIn(T) \subseteq ActiveIn(S)
  BY <1>1, <1>3, <1>4 DEF ActiveIn, PlannedIn
<1>6. RecordsInv(T)
  <2>1. \A u \in PlannedIn(T) : RecordInv(T[u])
    BY <1>1, <1>2, <1>3 DEF RecordsInv, Puts, PlannedIn
  <2>2. \A u, w \in ActiveIn(T) : u = w
    BY <1>2, <1>5 DEF RecordsInv
  <2>3. ASSUME NEW u \in PlannedIn(T), NEW w \in PlannedIn(T), u # w,
               T[u].state = "accepted", T[w].state = "accepted"
        PROVE  T[u].date # T[w].date
    <3>1. q.date = S[s].date
      BY DEF Written
    <3>2. CASE u = s
      <4>1. T[w] = S[w] /\ w \in PlannedIn(S) \ {s}
        BY <1>1, <1>3, <2>3, <3>2 DEF PlannedIn
      <4>2. QED
        BY <1>1, <2>3, <3>1, <3>2, <4>1
    <3>3. CASE w = s
      <4>1. T[u] = S[u] /\ u \in PlannedIn(S) \ {s}
        BY <1>1, <1>3, <2>3, <3>3 DEF PlannedIn
      <4>2. QED
        BY <1>1, <2>3, <3>1, <3>3, <4>1
    <3>4. CASE u # s /\ w # s
      <4>1. T[u] = S[u] /\ T[w] = S[w] /\ u \in PlannedIn(S) /\ w \in PlannedIn(S)
        BY <1>1, <1>3, <2>3, <3>4 DEF PlannedIn
      <4>2. QED
        BY <1>2, <2>3, <4>1 DEF RecordsInv
    <3>5. QED
      BY <3>2, <3>3, <3>4
  <2>4. QED
    BY <1>1, <1>2, <1>3, <2>1, <2>2, <2>3 DEF RecordsInv
<1>7. Counted(T, B)
  <2>1. PICK c : c = Cardinality(PlannedIn(S))
    OBVIOUS
  <2>2. c \in Nat
    BY <1>2, <2>1, FS_CardinalityType DEF RecordsInv
  <2>3. Len(A) + Left(S[s]) <= 10 * c
    BY <1>2, <1>4, <2>1 DEF Counted
  <2>4. Left(q) < Left(S[s])
    BY DEF Written
  <2>8. Left(q) \in 0..9
    BY LeftRange
  <2>9. Left(S[s]) \in 0..9
    BY LeftRange
  <2>5. Len(B) <= 10 * c /\ Len(B) + Left(q) <= 10 * c
    <3>1. PICK i : i = Left(q)
      OBVIOUS
    <3>2. PICK j : j = Left(S[s])
      OBVIOUS
    <3>3. PICK k : k = Len(A)
      OBVIOUS
    <3>4. i \in 0..9 /\ j \in 0..9 /\ i < j /\ k \in Nat /\ k + j <= 10 * c
      BY <1>1, <2>3, <2>4, <2>8, <2>9, <3>1, <3>2, <3>3
    <3>5. k + 1 <= 10 * c /\ k + 1 + i <= 10 * c
      BY <2>2, <3>4
    <3>6. QED
      BY <1>1, <3>1, <3>3, <3>5
  <2>6. \A u \in ActiveIn(T) : T[u] = q
    BY <1>1, <1>2, <1>4, <1>5 DEF RecordsInv
  <2>7. QED
    BY <1>3, <2>1, <2>5, <2>6 DEF Counted
<1>8. Remembers(S, s, action, q)
  BY DEF Remembers, Written
<1>9. QED
  BY <1>6, <1>7, <1>8, PutsEntries, PutsStored, PutsLogged DEF Sound

\* So does the plan of a session when none is open.
LEMMA PlanKeeps ==
  ASSUME NEW S, NEW A, NEW s, NEW t, NEW q, NEW T, NEW B,
         Puts(S, A, s, "plan", None, t, q, T, B), S[s] = None, ActiveIn(S) = {},
         Cardinality(PlannedIn(S)) < MaxSessions, q.state = "planned", ~Known(q.minute45),
         ~Known(q.minute90)
  PROVE  Sound(T, B)
<1>1. /\ q \in SessionRecord /\ q # None
      /\ T \in [Sessions -> SessionRecord \cup {None}] /\ T[s] = q
      /\ \A u \in Sessions \ {s} : T[u] = S[u]
      /\ Len(B) = Len(A) + 1 /\ Len(A) \in Nat
  BY PutsTyped
<1>2. RecordsInv(S) /\ Counted(S, A) /\ s \in Sessions
  BY DEF Puts, Sound
<1>3. PlannedIn(T) = PlannedIn(S) \cup {s} /\ s \notin PlannedIn(S)
  BY <1>1, <1>2 DEF PlannedIn
<1>4. PICK c : c = Cardinality(PlannedIn(S))
  OBVIOUS
<1>5. c \in Nat /\ IsFiniteSet(PlannedIn(T)) /\ Cardinality(PlannedIn(T)) = c + 1
  BY <1>2, <1>3, <1>4, FS_CardinalityType, FS_AddElement DEF RecordsInv
<1>6. \A u \in PlannedIn(S) : T[u] = S[u] /\ S[u].state \in Terminal
  BY <1>1, <1>3 DEF PlannedIn, ActiveIn
<1>7. ActiveIn(T) = {s}
  <2>1. q.state \notin Terminal
    BY DEF Terminal
  <2>2. QED
    BY <1>1, <1>3, <1>6, <2>1 DEF ActiveIn
<1>8. RecordsInv(T)
  <2>1. \A u \in PlannedIn(T) : RecordInv(T[u])
    BY <1>1, <1>2, <1>3, <1>6 DEF RecordsInv, Puts
  <2>2. \A u, w \in ActiveIn(T) : u = w
    BY <1>7
  <2>3. \A u, w \in PlannedIn(T) :
          u # w /\ T[u].state = "accepted" /\ T[w].state = "accepted" => T[u].date # T[w].date
    BY <1>1, <1>2, <1>3, <1>6 DEF RecordsInv
  <2>4. Cardinality(PlannedIn(T)) <= MaxSessions
    BY <1>4, <1>5
  <2>5. QED
    BY <1>1, <1>5, <2>1, <2>2, <2>3, <2>4 DEF RecordsInv
<1>9. Counted(T, B)
  <2>1. Len(A) <= 10 * c
    BY <1>2, <1>4 DEF Counted
  <2>2. Left(q) = 9
    BY DEF Left
  <2>3. Len(B) <= 10 * (c + 1) /\ Len(B) + Left(q) <= 10 * (c + 1)
    BY <1>1, <1>5, <2>1, <2>2
  <2>4. QED
    BY <1>1, <1>5, <1>7, <2>3 DEF Counted
<1>10. Remembers(S, s, "plan", q)
  BY DEF Remembers, Ran
<1>11. QED
  BY <1>8, <1>9, <1>10, PutsEntries, PutsStored, PutsLogged DEF Sound

-----------------------------------------------------------------------------
(* What each operation does. *)

\* Session s, which is not over, is moved by an action at t to the record q.
Moved(s, action, t, q) ==
  /\ s \in PlannedIn(sessions) /\ action \in Actions \ {"plan"} /\ t \in Nat
  /\ sessions[s].state \in Origin(action) /\ ~Has(audit, s, action)
  /\ NotBackward(t)
  /\ Written(action, sessions[s], t, q)
  /\ q.state = "accepted" =>
       \A u \in PlannedIn(sessions) \ {s} :
         ~(sessions[u].state = "accepted" /\ sessions[u].date = sessions[s].date)
  /\ sessions' = [sessions EXCEPT ![s] = q]
  /\ audit' = Append(audit, AuditEntry(s, action, sessions[s].state, t, q))

\* The transaction that all operations but the plan and the acceptance share.
LEMMA MutateMoves ==
  ASSUME NEW s, NEW action \in Actions \ {"plan", "accept"}, NEW t \in Nat, NEW expected, NEW q,
         Mutate(s, action, t, expected, q), expected \subseteq Origin(action),
         Written(action, sessions[s], t, q)
  PROVE  Moved(s, action, t, q)
<1>1. s \in PlannedIn(sessions)
  BY DEF Mutate, Planned, PlannedIn
<1>2. ~Has(audit, s, action)
  BY DEF Mutate, Fresh, Has
<1>3. q.state # "accepted"
  BY DEF Written, Target, Actions
<1>4. QED
  BY <1>1, <1>2, <1>3 DEF Mutate, Moved

\* The record of a session that the invariant knows.
LEMMA RecordOf ==
  ASSUME Sound(sessions, audit), NEW s \in Planned
  PROVE  RecordInv(sessions[s]) /\ sessions[s] \in SessionRecord
  BY DEF Sound, RecordsInv, RecordInv, Planned, PlannedIn

\* An acknowledgement that is not in the audit is not in the record.
LEMMA NotYet ==
  ASSUME Sound(sessions, audit), NEW s \in Planned
  PROVE  /\ Fresh(s, "ack-minute-45") => ~Known(sessions[s].minute45)
         /\ Fresh(s, "ack-minute-90") => ~Known(sessions[s].minute90)
<1>1. Logged(sessions, audit) /\ s \in PlannedIn(sessions)
  BY DEF Sound, Planned, PlannedIn
<1>2. QED
  BY <1>1 DEF Logged, Fresh, Has

\* recordPreflight moves its session, to preflighted or to invalid.
LEMMA PreflightMoves ==
  ASSUME Sound(sessions, audit), NEW s, NEW t \in Times, NEW observed \in Times,
         NEW evidence \in PreflightEvidence, RecordPreflight(s, t, observed, evidence)
  PROVE  \E q : Moved(s, "preflight", t, q)
<1>1. PICK r : r = sessions[s]
  OBVIOUS
<1>2. PICK c : c = [r EXCEPT !.preflight = evidence, !.observedAt = observed,
                              !.preflightedAt = t, !.updatedAt = t]
  OBVIOUS
<1>3. PICK q : q = IF t > r.supervisedUntil THEN InvalidRecord(c, t, "supervision-expired")
                   ELSE IF evidence = "fail" THEN InvalidRecord(c, t, "preflight-failed")
                   ELSE [c EXCEPT !.state = "preflighted"]
  OBVIOUS
<1>4. Mutate(s, "preflight", t, {"planned"}, q)
  BY <1>1, <1>2, <1>3 DEF RecordPreflight
<1>5. /\ s \in Planned /\ RecordInv(r) /\ r.state = "planned" /\ t >= r.updatedAt
      /\ r.plannedAt <= observed /\ observed <= t /\ t \in Nat /\ observed \in Nat
  BY <1>1, RecordOf DEF RecordPreflight, Mutate, RecordInv, SessionRecord
<1>6. /\ Candidate("preflight", r, c)
      /\ evidence = "pass" => Written("preflight", r, t, [c EXCEPT !.state = "preflighted"])
  BY <1>2, <1>5, PreflightWrites
<1>7. \A why \in Reasons : Written("preflight", r, t, InvalidRecord(c, t, why))
  BY <1>5, <1>6, EndWrites DEF Terminal, Actions
<1>8. Written("preflight", r, t, q)
  BY <1>3, <1>6, <1>7 DEF PreflightEvidence, Reasons
<1>9. {"planned"} \subseteq Origin("preflight") /\ "preflight" \in Actions \ {"plan", "accept"}
  BY DEF Origin, Actions
<1>10. QED
  BY <1>1, <1>4, <1>5, <1>8, <1>9, MutateMoves

\* startSession.
LEMMA StartMoves ==
  ASSUME Sound(sessions, audit), NEW s, NEW t \in Times, StartSession(s, t)
  PROVE  \E q : Moved(s, "start", t, q)
<1>1. PICK r : r = sessions[s]
  OBVIOUS
<1>2. PICK c : c = [r EXCEPT !.eligible = TRUE, !.startedAt = t, !.updatedAt = t]
  OBVIOUS
<1>3. PICK q : q = IF StartFault(r, t) # None THEN InvalidRecord(c, t, StartFault(r, t))
                   ELSE [c EXCEPT !.state = "running"]
  OBVIOUS
<1>4. Mutate(s, "start", t, {"preflighted"}, q)
  BY <1>1, <1>2, <1>3 DEF StartSession
<1>5. s \in Planned /\ RecordInv(r) /\ r.state = "preflighted" /\ t >= r.updatedAt /\ t \in Nat
  BY <1>1, RecordOf DEF StartSession, Mutate, RecordInv, SessionRecord
<1>6. /\ Candidate("start", r, c)
      /\ StartFault(r, t) = None => Written("start", r, t, [c EXCEPT !.state = "running"])
  BY <1>2, <1>5, StartWrites
<1>7. \A why \in Reasons : Written("start", r, t, InvalidRecord(c, t, why))
  BY <1>5, <1>6, EndWrites DEF Terminal, Actions
<1>8. Written("start", r, t, q)
  <2>1. StartFault(r, t) # None => StartFault(r, t) \in Reasons
    BY DEF StartFault, Reasons
  <2>2. QED
    BY <1>3, <1>6, <1>7, <2>1
<1>9. {"preflighted"} \subseteq Origin("start") /\ "start" \in Actions \ {"plan", "accept"}
  BY DEF Origin, Actions
<1>10. QED
  BY <1>1, <1>4, <1>5, <1>8, <1>9, MutateMoves

\* recordMinute45.
LEMMA Minute45Moves ==
  ASSUME Sound(sessions, audit), NEW s, NEW t \in Times, RecordMinute45(s, t)
  PROVE  \E q : Moved(s, "ack-minute-45", t, q)
<1>1. PICK r : r = sessions[s]
  OBVIOUS
<1>2. PICK c : c = [r EXCEPT !.minute45 = t, !.updatedAt = t]
  OBVIOUS
<1>3. PICK q : q = IF AcknowledgementLate(r, t, Minute45)
                   THEN InvalidRecord(c, t, "missed-supervision-acknowledgement") ELSE c
  OBVIOUS
<1>4. Mutate(s, "ack-minute-45", t, {"running"}, q)
  BY <1>1, <1>2, <1>3 DEF RecordMinute45
<1>5. /\ s \in Planned /\ RecordInv(r) /\ r.state = "running" /\ t >= r.updatedAt /\ t \in Nat
      /\ t >= r.startedAt + Minute45
  BY <1>1, RecordOf DEF RecordMinute45, Mutate, RecordInv, SessionRecord
<1>6. r.minute45 = None
  BY <1>1, <1>4, <1>5, NotYet DEF Mutate, Known
<1>7. /\ Candidate("ack-minute-45", r, c)
      /\ ~AcknowledgementLate(r, t, Minute45) => Written("ack-minute-45", r, t, c)
  BY <1>2, <1>5, <1>6, Minute45Writes
<1>8. \A why \in Reasons : Written("ack-minute-45", r, t, InvalidRecord(c, t, why))
  BY <1>5, <1>7, EndWrites DEF Terminal, Actions
<1>9. Written("ack-minute-45", r, t, q)
  BY <1>3, <1>7, <1>8 DEF Reasons
<1>10. {"running"} \subseteq Origin("ack-minute-45") /\ "ack-minute-45" \in Actions \ {"plan", "accept"}
  BY DEF Origin, Actions
<1>11. QED
  BY <1>1, <1>4, <1>5, <1>9, <1>10, MutateMoves

\* recordMinute90.
LEMMA Minute90Moves ==
  ASSUME Sound(sessions, audit), NEW s, NEW t \in Times, RecordMinute90(s, t)
  PROVE  \E q : Moved(s, "ack-minute-90", t, q)
<1>1. PICK r : r = sessions[s]
  OBVIOUS
<1>2. PICK c : c = [r EXCEPT !.minute90 = t, !.updatedAt = t]
  OBVIOUS
<1>3. PICK q : q = IF AcknowledgementLate(r, t, Minute90)
                   THEN InvalidRecord(c, t, "missed-supervision-acknowledgement") ELSE c
  OBVIOUS
<1>4. Mutate(s, "ack-minute-90", t, {"running"}, q)
  BY <1>1, <1>2, <1>3 DEF RecordMinute90
<1>5. /\ s \in Planned /\ RecordInv(r) /\ r.state = "running" /\ t >= r.updatedAt /\ t \in Nat
      /\ t >= r.startedAt + Minute90 /\ r.minute45 # None
  BY <1>1, RecordOf DEF RecordMinute90, Mutate, RecordInv, SessionRecord
<1>6. r.minute90 = None
  BY <1>1, <1>4, <1>5, NotYet DEF Mutate, Known
<1>7. /\ Candidate("ack-minute-90", r, c)
      /\ ~AcknowledgementLate(r, t, Minute90) => Written("ack-minute-90", r, t, c)
  BY <1>2, <1>5, <1>6, Minute90Writes
<1>8. \A why \in Reasons : Written("ack-minute-90", r, t, InvalidRecord(c, t, why))
  BY <1>5, <1>7, EndWrites DEF Terminal, Actions
<1>9. Written("ack-minute-90", r, t, q)
  BY <1>3, <1>7, <1>8 DEF Reasons
<1>10. {"running"} \subseteq Origin("ack-minute-90") /\ "ack-minute-90" \in Actions \ {"plan", "accept"}
  BY DEF Origin, Actions
<1>11. QED
  BY <1>1, <1>4, <1>5, <1>9, <1>10, MutateMoves

\* stopSession.
LEMMA StopMoves ==
  ASSUME Sound(sessions, audit), NEW s, NEW t \in Times, StopSession(s, t)
  PROVE  \E q : Moved(s, "stop", t, q)
<1>1. PICK r : r = sessions[s]
  OBVIOUS
<1>2. PICK c : c = [r EXCEPT !.eligible = FALSE, !.stoppedAt = t, !.updatedAt = t]
  OBVIOUS
<1>3. PICK q : q = IF StopFault(r, t) # None THEN InvalidRecord(c, t, StopFault(r, t))
                   ELSE [c EXCEPT !.state = "stopping"]
  OBVIOUS
<1>4. Mutate(s, "stop", t, {"running"}, q)
  BY <1>1, <1>2, <1>3 DEF StopSession
<1>5. s \in Planned /\ RecordInv(r) /\ r.state = "running" /\ t >= r.updatedAt /\ t \in Nat
  BY <1>1, RecordOf DEF StopSession, Mutate, RecordInv, SessionRecord
<1>6. /\ Candidate("stop", r, c)
      /\ StopFault(r, t) = None => Written("stop", r, t, [c EXCEPT !.state = "stopping"])
  BY <1>2, <1>5, StopWrites
<1>7. \A why \in Reasons : Written("stop", r, t, InvalidRecord(c, t, why))
  BY <1>5, <1>6, EndWrites DEF Terminal, Actions
<1>8. Written("stop", r, t, q)
  <2>1. StopFault(r, t) # None => StopFault(r, t) \in Reasons
    BY DEF StopFault, Reasons
  <2>2. QED
    BY <1>3, <1>6, <1>7, <2>1
<1>9. {"running"} \subseteq Origin("stop") /\ "stop" \in Actions \ {"plan", "accept"}
  BY DEF Origin, Actions
<1>10. QED
  BY <1>1, <1>4, <1>5, <1>8, <1>9, MutateMoves

\* recordLocalVerification.
LEMMA LocalMoves ==
  ASSUME Sound(sessions, audit), NEW s, NEW t \in Times, NEW evidence \in LocalEvidence,
         RecordLocalVerification(s, t, evidence)
  PROVE  \E q : Moved(s, "local-verification", t, q)
<1>1. PICK r : r = sessions[s]
  OBVIOUS
<1>2. PICK c : c = [r EXCEPT !.local = evidence, !.locallyVerifiedAt = t, !.updatedAt = t]
  OBVIOUS
<1>3. PICK q : q = IF evidence # "pass" THEN InvalidRecord(c, t, evidence)
                   ELSE [c EXCEPT !.state = "locally_verified"]
  OBVIOUS
<1>4. Mutate(s, "local-verification", t, {"stopping"}, q)
  BY <1>1, <1>2, <1>3 DEF RecordLocalVerification
<1>5. s \in Planned /\ RecordInv(r) /\ r.state = "stopping" /\ t >= r.updatedAt /\ t \in Nat
  BY <1>1, RecordOf DEF RecordLocalVerification, Mutate, RecordInv, SessionRecord
<1>6. /\ Candidate("local-verification", r, c)
      /\ evidence = "pass" =>
           Written("local-verification", r, t, [c EXCEPT !.state = "locally_verified"])
  BY <1>2, <1>5, LocalWrites
<1>7. \A why \in Reasons : Written("local-verification", r, t, InvalidRecord(c, t, why))
  BY <1>5, <1>6, EndWrites DEF Terminal, Actions
<1>8. Written("local-verification", r, t, q)
  <2>1. evidence # "pass" => evidence \in Reasons
    BY DEF LocalEvidence, Reasons
  <2>2. QED
    BY <1>3, <1>6, <1>7, <2>1
<1>9. /\ {"stopping"} \subseteq Origin("local-verification")
      /\ "local-verification" \in Actions \ {"plan", "accept"}
  BY DEF Origin, Actions
<1>10. QED
  BY <1>1, <1>4, <1>5, <1>8, <1>9, MutateMoves

\* recordExternalVerification.
LEMMA ExternalMoves ==
  ASSUME Sound(sessions, audit), NEW s, NEW t \in Times, NEW evidence \in ExternalEvidence,
         RecordExternalVerification(s, t, evidence)
  PROVE  \E q : Moved(s, "external-verification", t, q)
<1>1. PICK r : r = sessions[s]
  OBVIOUS
<1>2. PICK c : c = [r EXCEPT !.external = evidence, !.externallyVerifiedAt = t, !.updatedAt = t]
  OBVIOUS
<1>3. PICK q : q = IF evidence # "pass" THEN InvalidRecord(c, t, "external-verification-failed")
                   ELSE [c EXCEPT !.state = "externally_verified"]
  OBVIOUS
<1>4. Mutate(s, "external-verification", t, {"locally_verified"}, q)
  BY <1>1, <1>2, <1>3 DEF RecordExternalVerification
<1>5. s \in Planned /\ RecordInv(r) /\ r.state = "locally_verified" /\ t >= r.updatedAt /\ t \in Nat
  BY <1>1, RecordOf DEF RecordExternalVerification, Mutate, RecordInv, SessionRecord
<1>6. /\ Candidate("external-verification", r, c)
      /\ evidence = "pass" =>
           Written("external-verification", r, t, [c EXCEPT !.state = "externally_verified"])
  BY <1>2, <1>5, ExternalWrites
<1>7. \A why \in Reasons : Written("external-verification", r, t, InvalidRecord(c, t, why))
  BY <1>5, <1>6, EndWrites DEF Terminal, Actions
<1>8. Written("external-verification", r, t, q)
  BY <1>3, <1>6, <1>7 DEF Reasons
<1>9. /\ {"locally_verified"} \subseteq Origin("external-verification")
      /\ "external-verification" \in Actions \ {"plan", "accept"}
  BY DEF Origin, Actions
<1>10. QED
  BY <1>1, <1>4, <1>5, <1>8, <1>9, MutateMoves

\* recordCostReconciliation.
LEMMA CostMoves ==
  ASSUME Sound(sessions, audit), NEW s, NEW t \in Times, NEW evidence \in CostEvidence,
         RecordCostReconciliation(s, t, evidence)
  PROVE  \E q : Moved(s, "cost-reconciliation", t, q)
<1>1. PICK r : r = sessions[s]
  OBVIOUS
<1>2. PICK c : c = [r EXCEPT !.cost = evidence, !.costReconciledAt = t, !.updatedAt = t]
  OBVIOUS
<1>3. PICK q : q = IF CostFault(r, t, evidence) # None
                   THEN InvalidRecord(c, t, CostFault(r, t, evidence))
                   ELSE [c EXCEPT !.state = "cost_pending"]
  OBVIOUS
<1>4. Mutate(s, "cost-reconciliation", t, {"externally_verified"}, q)
  BY <1>1, <1>2, <1>3 DEF RecordCostReconciliation
<1>5. s \in Planned /\ RecordInv(r) /\ r.state = "externally_verified" /\ t >= r.updatedAt /\ t \in Nat
  BY <1>1, RecordOf DEF RecordCostReconciliation, Mutate, RecordInv, SessionRecord
<1>6. /\ Candidate("cost-reconciliation", r, c)
      /\ CostFault(r, t, evidence) = None =>
           Written("cost-reconciliation", r, t, [c EXCEPT !.state = "cost_pending"])
  BY <1>2, <1>5, CostWrites
<1>7. \A why \in Reasons : Written("cost-reconciliation", r, t, InvalidRecord(c, t, why))
  BY <1>5, <1>6, EndWrites DEF Terminal, Actions
<1>8. Written("cost-reconciliation", r, t, q)
  <2>1. CostFault(r, t, evidence) # None => CostFault(r, t, evidence) \in Reasons
    BY DEF CostFault, Reasons
  <2>2. QED
    BY <1>3, <1>6, <1>7, <2>1
<1>9. /\ {"externally_verified"} \subseteq Origin("cost-reconciliation")
      /\ "cost-reconciliation" \in Actions \ {"plan", "accept"}
  BY DEF Origin, Actions
<1>10. QED
  BY <1>1, <1>4, <1>5, <1>8, <1>9, MutateMoves

\* acceptSession, which also looks for another acceptance of the date.
LEMMA AcceptMoves ==
  ASSUME Sound(sessions, audit), NEW s, NEW t \in Times, AcceptSession(s, t)
  PROVE  \E q : Moved(s, "accept", t, q)
<1>1. PICK r : r = sessions[s]
  OBVIOUS
<1>2. PICK c : c = [r EXCEPT !.eligible = FALSE, !.acceptedAt = t, !.updatedAt = t]
  OBVIOUS
<1>3. PICK q : q = IF DateTaken(s) THEN InvalidRecord(r, t, "qualification-date-conflict")
                   ELSE [r EXCEPT !.state = "accepted", !.eligible = FALSE, !.acceptedAt = t,
                                  !.updatedAt = t]
  OBVIOUS
<1>4. Mutate(s, "accept", t, {"cost_pending"}, q)
  BY <1>1, <1>3 DEF AcceptSession
<1>5. /\ s \in Planned /\ RecordInv(r) /\ r \in SessionRecord /\ r.state = "cost_pending"
      /\ t >= r.updatedAt /\ t \in Nat
      /\ DateTaken(s) \/ AcceptanceEvidence(r)
  BY <1>1, RecordOf DEF AcceptSession, Mutate
<1>6. AcceptanceEvidence(r) => Written("accept", r, t, [c EXCEPT !.state = "accepted"])
  BY <1>2, <1>5, AcceptWrites
<1>7. [c EXCEPT !.state = "accepted"]
        = [r EXCEPT !.state = "accepted", !.eligible = FALSE, !.acceptedAt = t, !.updatedAt = t]
  BY <1>2, <1>5 DEF SessionRecord
<1>8. Written("accept", r, t, InvalidRecord(r, t, "qualification-date-conflict"))
  <2>1. Candidate("accept", r, r)
    BY <1>5, AsItStands
  <2>2. QED
    BY <1>5, <2>1, EndWrites DEF Terminal, Actions, Reasons
<1>9. Written("accept", r, t, q)
  BY <1>3, <1>5, <1>6, <1>7, <1>8
<1>10. /\ s \in PlannedIn(sessions) /\ "cost_pending" \in Origin("accept")
       /\ "accept" \in Actions \ {"plan"} /\ ~Has(audit, s, "accept")
  BY <1>4 DEF Origin, Actions, Mutate, Fresh, Has, Planned, PlannedIn
<1>11. ASSUME q.state = "accepted", NEW u \in PlannedIn(sessions) \ {s}
       PROVE  ~(sessions[u].state = "accepted" /\ sessions[u].date = sessions[s].date)
  <2>1. CASE DateTaken(s)
    <3>1. Ends(r, t, "qualification-date-conflict", q)
      BY <1>3, <1>5, <2>1, EndedFields DEF Reasons
    <3>2. QED
      BY <1>11, <3>1 DEF Ends
  <2>2. CASE ~DateTaken(s)
    BY <2>2 DEF DateTaken, Planned, PlannedIn
  <2>3. QED
    BY <2>1, <2>2
<1>12. Moved(s, "accept", t, q)
  BY <1>1, <1>4, <1>5, <1>9, <1>10, <1>11 DEF Moved, Mutate
<1>13. QED
  BY <1>12

\* invalidateSession.
LEMMA InvalidateMoves ==
  ASSUME Sound(sessions, audit), NEW s, NEW t \in Times, InvalidateSession(s, t)
  PROVE  \E q : Moved(s, "invalidate", t, q)
<1>1. PICK r : r = sessions[s]
  OBVIOUS
<1>2. PICK q : q = InvalidRecord(r, t, "operator-abort")
  OBVIOUS
<1>3. Mutate(s, "invalidate", t, States \ Terminal, q)
  BY <1>1, <1>2 DEF InvalidateSession
<1>4. s \in Planned /\ RecordInv(r) /\ r.state \notin Terminal /\ t \in Nat
  BY <1>1, <1>3, RecordOf DEF Mutate
<1>5. Written("invalidate", r, t, q)
  <2>1. Candidate("invalidate", r, r)
    BY <1>4, AsItStands
  <2>2. QED
    BY <1>2, <1>4, <2>1, EndWrites DEF Actions, Reasons
<1>6. /\ States \ Terminal \subseteq Origin("invalidate")
      /\ "invalidate" \in Actions \ {"plan", "accept"}
  BY DEF Origin, Actions
<1>7. QED
  BY <1>1, <1>3, <1>4, <1>5, <1>6, MutateMoves

\* Every operation on a session moves it, unless it plans it.
LEMMA StepMoves ==
  ASSUME Sound(sessions, audit), NEW s \in Sessions, NEW t \in Times, SessionStep(s, t)
  PROVE  /\ open /\ UNCHANGED <<open, pin, copy>>
         /\ \/ \E until \in Times : PlanSession(s, t, until)
            \/ \E action, q : Moved(s, action, t, q)
<1>1. open /\ UNCHANGED <<open, pin, copy>>
  BY DEF SessionStep, PlanSession, RecordPreflight, StartSession, RecordMinute45, RecordMinute90,
    StopSession, RecordLocalVerification, RecordExternalVerification, RecordCostReconciliation,
    AcceptSession, InvalidateSession, Mutate
<1>2. (\E until \in Times : PlanSession(s, t, until)) \/ \E action, q : Moved(s, action, t, q)
  BY PreflightMoves, StartMoves, Minute45Moves, Minute90Moves, StopMoves, LocalMoves,
    ExternalMoves, CostMoves, AcceptMoves, InvalidateMoves DEF SessionStep
<1>3. QED
  BY <1>1, <1>2

\* An open ends the session that was left, if any.
LEMMA OpenMoves ==
  ASSUME Sound(sessions, audit), NEW t \in Times, Open(t)
  PROVE  \/ Active = {} /\ UNCHANGED <<sessions, audit>>
         \/ \E s \in Active : \E q : Moved(s, "crash-recovery", t, q) /\ q.state = "invalid"
<1>1. Active = ActiveIn(sessions) /\ RecordsInv(sessions) /\ audit \in Seq(AuditRow)
  BY DEF Active, Planned, ActiveIn, PlannedIn, Sound
<1>2. PICK order : order = SetToSeq(Active)
  OBVIOUS
<1>3. /\ NotBackward(t)
      /\ sessions' = [u \in Sessions |->
           IF u \in Active THEN InvalidRecord(sessions[u], t, "crash-recovery") ELSE sessions[u]]
      /\ audit' = audit \o [i \in 1..Len(order) |->
           AuditEntry(order[i], "crash-recovery", sessions[order[i]].state, t,
                      InvalidRecord(sessions[order[i]], t, "crash-recovery"))]
  BY <1>2 DEF Open, RecoverNonterminalSessions, Abandoned
<1>4. ASSUME NEW s \in Active PROVE \E q : Moved(s, "crash-recovery", t, q) /\ q.state = "invalid"
  <2>1. Active = {s}
    BY <1>1, <1>4 DEF RecordsInv
  <2>2. order = <<s>>
    <3>1. Cardinality(Active) = 1
      BY <2>1, FS_Singleton
    <3>2. order = CHOOSE f \in [1..1 -> {s}] : IsInjective(f)
      BY <1>2, <2>1, <3>1 DEF SetToSeq
    <3>3. <<s>> \in [1..1 -> {s}] /\ IsInjective(<<s>>)
      BY DEF IsInjective
    <3>4. order \in [1..1 -> {s}]
      BY <3>2, <3>3
    <3>5. QED
      BY <3>4
  <2>3. PICK r : r = sessions[s]
    OBVIOUS
  <2>4. PICK q : q = InvalidRecord(r, t, "crash-recovery")
    OBVIOUS
  <2>5. sessions' = [sessions EXCEPT ![s] = q]
    BY <1>1, <1>3, <2>1, <2>3, <2>4 DEF RecordsInv
  <2>6. audit' = Append(audit, AuditEntry(s, "crash-recovery", r.state, t, q))
    <3>1. PICK e : e = AuditEntry(s, "crash-recovery", r.state, t, q)
      OBVIOUS
    <3>2. Len(order) = 1 /\ order[1] = s
      BY <2>2
    <3>3. audit' = audit \o [i \in 1..1 |-> e]
      BY <1>3, <2>3, <2>4, <3>1, <3>2
    <3>4. QED
      BY <1>1, <3>1, <3>3
  <2>7. s \in Planned /\ RecordInv(r) /\ r.state \in States \ Terminal
    BY <2>3, RecordOf DEF Active, SessionRecord
  <2>8. Written("crash-recovery", r, t, q)
    <3>1. Candidate("crash-recovery", r, r)
      BY <2>7, AsItStands
    <3>2. QED
      BY <2>4, <2>7, <3>1, EndWrites DEF Actions, Reasons
  <2>9. q.state = "invalid"
    <3>1. Ends(r, t, "crash-recovery", q)
      BY <2>4, <2>7, EndedFields DEF Reasons, RecordInv
    <3>2. QED
      BY <3>1 DEF Ends
  <2>10. ~Has(audit, s, "crash-recovery")
    <3>1. SUFFICES ASSUME NEW i \in 1..Len(audit), audit[i].session = s,
                          audit[i].action = "crash-recovery"
                   PROVE  FALSE
      BY DEF Has
    <3>2. audit[i].to = "invalid" /\ audit[i].to = audit[i].record.state
      BY <3>1 DEF Sound, EntryInv, Target
    <3>3. sessions[s] = audit[i].record
      BY <3>1, <3>2 DEF Sound, Stored, Terminal
    <3>4. QED
      BY <2>3, <2>7, <3>2, <3>3 DEF Terminal
  <2>11. /\ s \in PlannedIn(sessions) /\ r.state \in Origin("crash-recovery")
         /\ "crash-recovery" \in Actions \ {"plan"}
    BY <2>7 DEF Planned, PlannedIn, Origin, Actions
  <2>12. Moved(s, "crash-recovery", t, q)
    <3>1. t \in Nat /\ q.state # "accepted"
      BY <2>9
    <3>2. Written("crash-recovery", sessions[s], t, q) /\ sessions[s].state \in Origin("crash-recovery")
      BY <2>3, <2>8, <2>11
    <3>3. audit' = Append(audit, AuditEntry(s, "crash-recovery", sessions[s].state, t, q))
      BY <2>3, <2>6
    <3>4. QED
      BY <1>3, <2>5, <2>10, <2>11, <3>1, <3>2, <3>3 DEF Moved
  <2>13. QED
    BY <2>9, <2>12
<1>5. CASE Active = {}
  <2>1. Len(order) = 0
    <3>1. Cardinality(Active) = 0
      BY <1>5, FS_EmptySet
    <3>2. order = CHOOSE f \in [1..0 -> {}] : IsInjective(f)
      BY <1>2, <1>5, <3>1 DEF SetToSeq
    <3>3. << >> \in [1..0 -> {}] /\ IsInjective(<< >>)
      BY DEF IsInjective
    <3>4. order \in [1..0 -> {}]
      BY <3>2, <3>3
    <3>5. QED
      BY <3>4
  <2>2. audit' = audit
    BY <1>1, <1>3, <2>1
  <2>3. sessions' = sessions
    BY <1>1, <1>3, <1>5 DEF RecordsInv
  <2>4. QED
    BY <1>5, <2>2, <2>3
<1>6. QED
  BY <1>4, <1>5

\* A new record is one the store takes.
LEMMA NewIsSound ==
  ASSUME NEW t \in Nat, NEW until \in Nat, until >= t
  PROVE  RecordInv(NewRecord(t, until))
<1>1. PICK r : r = NewRecord(t, until)
  OBVIOUS
<1>2. /\ r.state = "planned" /\ r.eligible = FALSE /\ r.date = DateAt(t) /\ r.plannedAt = t
      /\ r.supervisedUntil = until /\ r.updatedAt = t /\ r.observedAt = None
      /\ r.preflightedAt = None /\ r.preflight = None /\ r.startedAt = None
      /\ r.minute45 = None /\ r.minute90 = None /\ r.stoppedAt = None
      /\ r.locallyVerifiedAt = None /\ r.local = None
      /\ r.externallyVerifiedAt = None /\ r.external = None
      /\ r.costReconciledAt = None /\ r.cost = None
      /\ r.acceptedAt = None /\ r.invalidatedAt = None /\ r.reason = None
  BY <1>1 DEF NewRecord
<1>3. r \in SessionRecord
  <2>1. DateAt(t) \in Nat
    BY DEF DateAt
  <2>2. QED
    BY <1>1, <2>1 DEF NewRecord, SessionRecord, States, At
<1>4. /\ Moments(r)[1] = t
      /\ \A i \in 2..11 : ~Known(Moments(r)[i])
  <2>1. SUFFICES ASSUME NEW i \in 2..11 PROVE ~Known(Moments(r)[i])
    BY <1>2, MomentsAre
  <2>2. i = 2 \/ i = 3 \/ i = 4 \/ i = 5 \/ i = 6 \/ i = 7 \/ i = 8 \/ i = 9 \/ i = 10 \/ i = 11
    OBVIOUS
  <2>3. QED
    BY <1>2, <2>2, MomentsAre DEF Known
<1>5. ASSUME NEW i \in 1..11, Known(Moments(r)[i]) PROVE i = 1
  BY <1>4, <1>5
<1>6. Chronological(Moments(r)) /\ Within(Moments(r), t) /\ Latest(Moments(r), t)
  BY <1>4, <1>5 DEF Chronological, Within, Latest
<1>7. Shaped(r)
  BY <1>2, <1>6 DEF Shaped, Known
<1>8. KnowsUpTo(r, 0)
  BY <1>2 DEF KnowsUpTo, Known
<1>9. Live(r, 0)
  BY <1>2, <1>6, <1>8 DEF Live, Known
<1>10. LiveRecord(r)
  BY <1>2, <1>9, Ranks, LiveIs
<1>11. WellFormed(r)
  BY <1>2, <1>7, WellFormedIs DEF Known
<1>12. LiveInv(r)
  BY <1>2, <1>6 DEF LiveInv, Known
<1>13. QED
  BY <1>1, <1>2, <1>3, <1>10, <1>11, <1>12 DEF RecordInv, Semantics

\* A plan keeps the records and the audit sound.
LEMMA PlanIsSound ==
  ASSUME Sound(sessions, audit), NEW s \in Sessions, NEW t \in Times, NEW until \in Times,
         PlanSession(s, t, until)
  PROVE  Sound(sessions', audit')
<1>1. PICK q : q = NewRecord(t, until)
  OBVIOUS
<1>2. /\ t \in Nat /\ until \in Nat /\ until >= t
      /\ Fresh(s, "plan") /\ NotBackward(t) /\ sessions[s] = None /\ Active = {}
      /\ Cardinality(Planned) < MaxSessions
      /\ sessions' = [sessions EXCEPT ![s] = q]
      /\ audit' = Append(audit, AuditEntry(s, "plan", None, t, q))
  BY <1>1 DEF PlanSession, OneAtATime
<1>3. RecordInv(q)
  BY <1>1, <1>2, NewIsSound
<1>4. q.state = "planned" /\ q.updatedAt = t /\ q.minute45 = None /\ q.minute90 = None
  BY <1>1 DEF NewRecord
<1>5. "plan" \in Actions /\ None \in Origin("plan") /\ "planned" \in Target("plan")
  BY DEF Actions, Origin, Target
<1>6. ~Has(audit, s, "plan")
  BY <1>2 DEF Fresh, Has
<1>7. Puts(sessions, audit, s, "plan", None, t, q, sessions', audit')
  BY <1>2, <1>3, <1>4, <1>5, <1>6 DEF Puts, NotBackward
<1>8. PlannedIn(sessions) = Planned /\ ActiveIn(sessions) = {}
  BY <1>2 DEF Planned, PlannedIn, Active, ActiveIn
<1>9. ~Known(q.minute45) /\ ~Known(q.minute90)
  BY <1>4 DEF Known
<1>10. QED
  BY <1>2, <1>4, <1>7, <1>8, <1>9, PlanKeeps

\* A move puts one record and one entry.
LEMMA MovePuts ==
  ASSUME Sound(sessions, audit), NEW s, NEW action, NEW t, NEW q, Moved(s, action, t, q)
  PROVE  /\ Puts(sessions, audit, s, action, sessions[s].state, t, q, sessions', audit')
         /\ sessions[s] # None /\ s \in Sessions
<1>1. sessions[s] # None /\ s \in Sessions
  BY DEF Moved, PlannedIn
<1>2. QED
  BY <1>1 DEF Moved, Puts, NotBackward, Written

\* A move keeps the store and the audit sound.
LEMMA MoveIsSound ==
  ASSUME Sound(sessions, audit), NEW s, NEW action, NEW t, NEW q, Moved(s, action, t, q)
  PROVE  Sound(sessions', audit')
<1>1. /\ Puts(sessions, audit, s, action, sessions[s].state, t, q, sessions', audit')
      /\ sessions[s] # None
  BY MovePuts
<1>2. /\ Written(action, sessions[s], t, q)
      /\ q.state = "accepted" =>
           \A u \in PlannedIn(sessions) \ {s} :
             ~(sessions[u].state = "accepted" /\ sessions[u].date = sessions[s].date)
  BY DEF Moved
<1>3. QED
  BY <1>1, <1>2, MoveKeeps

-----------------------------------------------------------------------------
(* The invariant. *)

\* Records and audit are sound, in the file and in the copy of it, and while a coordinator
\* serves, the audit begins with what the caller retains.
SessionInv ==
  /\ Sound(sessions, audit)
  /\ open \in BOOLEAN
  /\ pin \in Seq(AuditRow) \cup {None}
  /\ copy # None => Sound(copy[1], copy[2])
  /\ open /\ pin # None => IsPrefix(pin, audit)

\* The new database is sound.
LEMMA EmptyIsSound == Init => SessionInv
<1> SUFFICES ASSUME Init PROVE SessionInv
  OBVIOUS
<1>1. PlannedIn(sessions) = {} /\ ActiveIn(sessions) = {} /\ audit = << >> /\ Len(audit) = 0
  BY DEF Init, PlannedIn, ActiveIn
<1>2. IsFiniteSet(PlannedIn(sessions)) /\ Cardinality(PlannedIn(sessions)) = 0
  BY <1>1, FS_EmptySet
<1>3. RecordsInv(sessions)
  BY <1>1, <1>2 DEF RecordsInv, Init
<1>4. Stored(sessions, audit)
  BY <1>1 DEF Stored, LastIs, Init
<1>5. Sound(sessions, audit)
  BY <1>1, <1>2, <1>3, <1>4 DEF Sound, Logged, Counted
<1>6. QED
  BY <1>5 DEF SessionInv, Init

\* An append leaves a prefix a prefix.
LEMMA PrefixGrows ==
  ASSUME NEW p \in Seq(AuditRow), NEW A \in Seq(AuditRow), NEW e \in AuditRow, IsPrefix(p, A)
  PROVE  IsPrefix(p, Append(A, e))
  BY DEF IsPrefix

\* A retained head stays a prefix of the audit.
LEMMA Grows ==
  ASSUME SessionInv, NEW s, NEW action, NEW from, NEW t, NEW q,
         Puts(sessions, audit, s, action, from, t, q, sessions', audit'),
         pin # None, IsPrefix(pin, audit)
  PROVE  IsPrefix(pin, audit')
<1>1. PICK e : e = AuditEntry(s, action, from, t, q)
  OBVIOUS
<1>2. audit \in Seq(AuditRow) /\ audit' \in Seq(AuditRow) /\ Len(audit') = Len(audit) + 1
      /\ Len(audit) \in Nat /\ audit'[Len(audit')] = e
  BY <1>1, PutsTyped
<1>3. audit' = Append(audit, e) /\ e \in AuditRow
  BY <1>1, <1>2 DEF Puts
<1>4. pin \in Seq(AuditRow)
  BY DEF SessionInv
<1>5. QED
  BY <1>2, <1>3, <1>4, PrefixGrows

\* Every step of the lifecycle, the restored copy included, keeps the invariant.
LEMMA SessionInvStep ==
  ASSUME SessionInv, [Next]_vars
  PROVE  SessionInv'
<1>1. Sound(sessions, audit)
  BY DEF SessionInv
<1>2. ASSUME NEW s \in Sessions, NEW t \in Times, SessionStep(s, t) PROVE SessionInv'
  <2>1. open /\ UNCHANGED <<open, pin, copy>>
    BY <1>1, <1>2, StepMoves
  <2>2. CASE \E until \in Times : PlanSession(s, t, until)
    <3>1. PICK until \in Times : PlanSession(s, t, until)
      BY <2>2
    <3>2. Sound(sessions', audit')
      BY <1>1, <3>1, PlanIsSound
    <3>3. /\ audit' = Append(audit, AuditEntry(s, "plan", None, t, NewRecord(t, until)))
          /\ audit' \in Seq(AuditRow) /\ audit \in Seq(AuditRow)
      BY <1>1, <3>1, <3>2 DEF PlanSession, Sound
    <3>4. pin # None => IsPrefix(pin, audit')
      <4>1. SUFFICES ASSUME pin # None PROVE IsPrefix(pin, audit')
        OBVIOUS
      <4>2. pin \in Seq(AuditRow) /\ IsPrefix(pin, audit)
        BY <2>1, <4>1 DEF SessionInv
      <4>3. PICK e : e = AuditEntry(s, "plan", None, t, NewRecord(t, until))
        OBVIOUS
      <4>4. audit' = Append(audit, e)
        BY <3>3, <4>3
      <4>5. audit'[Len(audit) + 1] = e /\ Len(audit') = Len(audit) + 1
        BY <3>3, <4>4
      <4>6. e \in AuditRow
        BY <3>3, <4>5
      <4>7. QED
        BY <3>3, <4>2, <4>4, <4>6, PrefixGrows
    <3>5. QED
      BY <2>1, <3>2, <3>4 DEF SessionInv
  <2>3. CASE \E action, q : Moved(s, action, t, q)
    <3>1. PICK action, q : Moved(s, action, t, q)
      BY <2>3
    <3>2. Sound(sessions', audit')
      BY <1>1, <3>1, MoveIsSound
    <3>3. pin # None => IsPrefix(pin, audit')
      BY <1>1, <2>1, <3>1, MovePuts, Grows DEF SessionInv
    <3>4. QED
      BY <2>1, <3>2, <3>3 DEF SessionInv
  <2>4. QED
    BY <1>1, <1>2, <2>2, <2>3, StepMoves
<1>3. ASSUME NEW t \in Times, Open(t) PROVE SessionInv'
  <2>1. UNCHANGED <<pin, copy>> /\ open' = TRUE /\ pin # None /\ IsPrefix(pin, audit)
    BY <1>3 DEF Open, Openable
  <2>2. CASE Active = {} /\ UNCHANGED <<sessions, audit>>
    BY <2>1, <2>2 DEF SessionInv
  <2>3. CASE \E s \in Active : \E q : Moved(s, "crash-recovery", t, q) /\ q.state = "invalid"
    <3>1. PICK s, q : s \in Active /\ Moved(s, "crash-recovery", t, q)
      BY <2>3
    <3>2. Sound(sessions', audit')
      BY <1>1, <3>1, MoveIsSound
    <3>3. IsPrefix(pin, audit')
      BY <1>1, <2>1, <3>1, MovePuts, Grows
    <3>4. QED
      BY <2>1, <3>2, <3>3 DEF SessionInv
  <2>4. QED
    BY <1>1, <1>3, <2>2, <2>3, OpenMoves
<1>4. ASSUME Close PROVE SessionInv'
  BY <1>4 DEF Close, SessionInv
<1>5. ASSUME GetTrustedHead PROVE SessionInv'
  <2>1. audit \in Seq(AuditRow)
    BY <1>1 DEF Sound
  <2>2. IsPrefix(audit, audit)
    BY <2>1 DEF IsPrefix
  <2>3. QED
    BY <1>5, <2>1, <2>2 DEF GetTrustedHead, SessionInv
<1>6. ASSUME SaveCopy PROVE SessionInv'
  <2>1. copy' = <<sessions, audit>> /\ UNCHANGED <<sessions, audit, open, pin>>
    BY <1>6 DEF SaveCopy
  <2>2. Sound(copy'[1], copy'[2])
    BY <1>1, <2>1
  <2>3. QED
    BY <2>1, <2>2 DEF SessionInv
<1>7. ASSUME RestoreCopy PROVE SessionInv'
  <2>1. sessions' = copy[1] /\ audit' = copy[2] /\ ~open /\ copy # None /\ UNCHANGED <<open, pin, copy>>
    BY <1>7 DEF RestoreCopy
  <2>2. Sound(sessions', audit')
    BY <2>1 DEF SessionInv
  <2>3. QED
    BY <2>1, <2>2 DEF SessionInv
<1>8. ASSUME UNCHANGED vars PROVE SessionInv'
  BY <1>8 DEF vars, SessionInv
<1>9. QED
  BY <1>2, <1>3, <1>4, <1>5, <1>6, <1>7, <1>8 DEF Next

-----------------------------------------------------------------------------
(* What the store verifies follows from the invariant. *)

\* The last entry that the model chooses is the one of these proofs.
LEMMA LastEntryIs ==
  ASSUME NEW s, NEW n \in Nat, NEW k, LastIs(audit, s, n, k)
  PROVE  LastEntry(s, n) = k
<1>1. PICK before : before = {i \in 1..n : audit[i].session = s}
  OBVIOUS
<1>2. CASE k = 0
  <2>1. before = {}
    BY <1>1, <1>2 DEF LastIs
  <2>2. QED
    BY <1>1, <1>2, <2>1 DEF LastEntry
<1>3. CASE k # 0
  <2>1. k \in before /\ \A j \in before : j <= k
    BY <1>1, <1>3 DEF LastIs
  <2>2. \A i \in before : (\A j \in before : j <= i) => i = k
    BY <1>1, <2>1
  <2>3. (CHOOSE i \in before : \A j \in before : j <= i) = k
    BY <2>1, <2>2
  <2>4. before # {}
    BY <2>1
  <2>5. QED
    BY <1>1, <2>3, <2>4 DEF LastEntry
<1>4. QED
  BY <1>2, <1>3

\* The audit replays to the records (verifyIntegrityInternal).
LEMMA AuditOfSound == ASSUME Sound(sessions, audit) PROVE AuditReplays
<1>1. Len(audit) <= MaxAudit
  <2>1. PICK c : c = Cardinality(Planned)
    OBVIOUS
  <2>2. Planned = PlannedIn(sessions)
    BY DEF Planned, PlannedIn
  <2>3. c \in Nat /\ c <= MaxSessions /\ Len(audit) <= 10 * c
    BY <2>1, <2>2, FS_CardinalityType DEF Sound, RecordsInv, Counted
  <2>4. audit \in Seq(AuditRow) /\ MaxSessions \in Nat
    BY DEF Sound
  <2>5. QED
    BY <2>3, <2>4 DEF MaxAudit
<1>2. ASSUME NEW i \in 1..Len(audit)
      PROVE  audit[i].from = (IF LastEntry(audit[i].session, i - 1) = 0 THEN None
                              ELSE audit[LastEntry(audit[i].session, i - 1)].to)
  <2>1. EntryInv(audit, i)
    BY DEF Sound
  <2>2. PICK k \in 0..(i - 1) : /\ LastIs(audit, audit[i].session, i - 1, k)
                                /\ audit[i].from = (IF k = 0 THEN None ELSE audit[k].to)
    BY <2>1 DEF EntryInv
  <2>3. i - 1 \in Nat
    OBVIOUS
  <2>4. LastEntry(audit[i].session, i - 1) = k
    BY <2>2, <2>3, LastEntryIs
  <2>5. QED
    BY <2>2, <2>4
<1>3. ASSUME NEW s \in Sessions
      PROVE  IF sessions[s] = None THEN LastEntry(s, Len(audit)) = 0
             ELSE /\ LastEntry(s, Len(audit)) # 0
                  /\ audit[LastEntry(s, Len(audit))].record = sessions[s]
  <2>1. PICK k \in 0..Len(audit) :
          /\ LastIs(audit, s, Len(audit), k)
          /\ sessions[s] = (IF k = 0 THEN None ELSE audit[k].record)
    BY DEF Sound, Stored
  <2>2. audit \in Seq(AuditRow) /\ Len(audit) \in Nat
    BY DEF Sound
  <2>3. LastEntry(s, Len(audit)) = k
    BY <2>1, <2>2, LastEntryIs
  <2>4. k # 0 => audit[k].record # None
    <3>1. k # 0 => audit[k] \in AuditRow
      BY <2>2
    <3>2. QED
      BY <3>1 DEF AuditRow
  <2>5. QED
    BY <2>1, <2>3, <2>4
<1>4. ASSUME NEW i \in 1..Len(audit) PROVE EntryInv(audit, i)
  BY DEF Sound
<1>5. QED
  BY <1>1, <1>2, <1>3, <1>4 DEF AuditReplays, EntryInv, AuditInputReads

\* The records can be read one by one and together (assertRecordSemantics).
LEMMA RecordsOfSound == ASSUME Sound(sessions, audit) PROVE RecordsRead
<1>1. Planned = PlannedIn(sessions) /\ Active = ActiveIn(sessions) /\ RecordsInv(sessions)
  BY DEF Planned, PlannedIn, Active, ActiveIn, Sound
<1>2. Cardinality(Active) <= 1
  <2>1. CASE Active = {}
    BY <2>1, FS_EmptySet
  <2>2. CASE Active # {}
    <3>1. PICK s : s \in Active
      BY <2>2
    <3>2. Active = {s}
      BY <1>1, <3>1 DEF RecordsInv
    <3>3. Cardinality(Active) = 1
      BY <3>2, FS_Singleton
    <3>4. QED
      BY <3>3
  <2>3. QED
    BY <2>1, <2>2
<1>3. QED
  BY <1>1, <1>2 DEF RecordsRead, RecordsInv, RecordInv

\* An active session finds an entry left to end with (MAX_AUDIT_RECORDS).
LEMMA RoomOfSound == ASSUME Sound(sessions, audit) PROVE RoomToEnd
<1>1. SUFFICES ASSUME NEW s \in Active PROVE Len(audit) + 1 <= MaxAudit
  BY DEF RoomToEnd, Room
<1>2. PICK c : c = Cardinality(PlannedIn(sessions))
  OBVIOUS
<1>3. s \in ActiveIn(sessions) /\ s \in Planned /\ sessions[s].state \notin Terminal
  BY DEF Planned, PlannedIn, Active, ActiveIn
<1>4. c \in Nat /\ c <= MaxSessions /\ Len(audit) + Left(sessions[s]) <= 10 * c
  BY <1>2, <1>3, FS_CardinalityType DEF Sound, RecordsInv, Counted
<1>5. sessions[s].state \in States \ Terminal
  BY <1>3, RecordOf DEF SessionRecord
<1>6. Left(sessions[s]) \in 1..9
  BY <1>5, LeftIs
<1>7. PICK j : j = Left(sessions[s])
  OBVIOUS
<1>8. PICK k : k = Len(audit)
  OBVIOUS
<1>9. k \in Nat /\ j \in 1..9 /\ k + j <= 10 * c /\ MaxSessions \in Nat
  BY <1>4, <1>6, <1>7, <1>8 DEF Sound
<1>10. k + 1 <= 10 * MaxSessions
  BY ONLY <1>4, <1>9
<1>11. QED
  BY <1>8, <1>10 DEF MaxAudit

\* An acceptance that the retained head covers is in the records that are served.
LEMMA PinOfSound == ASSUME SessionInv PROVE PinnedAcceptancesStay
<1>1. SUFFICES ASSUME open, pin # None, NEW i \in 1..Len(pin), pin[i].to = "accepted"
               PROVE  /\ sessions[pin[i].session] # None
                      /\ sessions[pin[i].session].state = "accepted"
  BY DEF PinnedAcceptancesStay
<1>2. pin \in Seq(AuditRow) /\ audit \in Seq(AuditRow) /\ IsPrefix(pin, audit) /\ Sound(sessions, audit)
  BY <1>1 DEF SessionInv, Sound
<1>3. i \in 1..Len(audit) /\ audit[i] = pin[i]
  <2>1. SubSeq(pin, 1, Len(pin)) = SubSeq(audit, 1, Len(pin)) /\ Len(pin) <= Len(audit)
    BY <1>2 DEF IsPrefix
  <2>2. SubSeq(pin, 1, Len(pin))[i] = pin[i] /\ SubSeq(audit, 1, Len(pin))[i] = audit[i]
    BY <1>2, <2>1
  <2>3. QED
    BY <1>2, <2>1, <2>2
<1>4. sessions[audit[i].session] = audit[i].record /\ audit[i].record.state = "accepted"
  BY <1>1, <1>2, <1>3 DEF Sound, Stored, EntryInv, Terminal
<1>5. audit[i].record # None
  <2>1. audit[i] \in AuditRow
    BY <1>2, <1>3
  <2>2. QED
    BY <2>1 DEF AuditRow
<1>6. QED
  BY <1>3, <1>4, <1>5

\* The verified properties follow from the invariant.
LEMMA SoundIsSound == ASSUME SessionInv PROVE SessionsStaySound
<1>1. Sound(sessions, audit)
  BY DEF SessionInv
<1>2. TypeOK
  BY DEF TypeOK, SessionInv, Sound, RecordsInv
<1>3. QED
  BY <1>1, <1>2, AuditOfSound, RecordsOfSound, RoomOfSound, PinOfSound
  DEF SessionsStaySound, LifecycleIntegrity

\* The invariant holds of every number of sessions and whatever the windows are.
THEOREM SessionInvariant == Spec => []SessionInv
<1>1. Init => SessionInv
  BY EmptyIsSound
<1>2. SessionInv /\ [Next]_vars => SessionInv'
  BY SessionInvStep
<1>3. QED
  BY <1>1, <1>2, PTL DEF Spec

\* Whatever the callers report and whenever they crash, the records and their audit pass
\* the verification around every transaction, a session can be ended, and no restored
\* file takes back an acceptance that its caller retains (verifyIntegrityInternal).
THEOREM SessionsAreSound == Spec => []SessionsStaySound
<1>1. SessionInv => SessionsStaySound
  BY SoundIsSound
<1>2. QED
  BY <1>1, SessionInvariant, PTL

\* After an open no record is eligible for egress.
LEMMA OpenBlocks ==
  ASSUME SessionInv, [Next]_vars
  PROVE  ~open /\ open' => \A s \in Sessions : sessions'[s] # None => ~sessions'[s].eligible
<1>1. SUFFICES ASSUME ~open, open', NEW s \in Sessions, sessions'[s] # None
               PROVE  ~sessions'[s].eligible
  OBVIOUS
<1>2. Sound(sessions, audit)
  BY DEF SessionInv
<1>3. PICK t \in Times : Open(t)
  <2>1. ASSUME NEW u \in Sessions, NEW t \in Times, SessionStep(u, t) PROVE FALSE
    BY <1>1, <1>2, <2>1, StepMoves
  <2>2. QED
    BY <1>1, <2>1 DEF Next, Close, GetTrustedHead, SaveCopy, RestoreCopy, vars
<1>4. Sound(sessions', audit') /\ \A u \in PlannedIn(sessions') : sessions'[u].state \in Terminal
  <2>1. CASE Active = {} /\ UNCHANGED <<sessions, audit>>
    BY <1>2, <2>1 DEF Active, Planned, PlannedIn
  <2>2. CASE \E u \in Active : \E q : Moved(u, "crash-recovery", t, q) /\ q.state = "invalid"
    <3>1. PICK u, q : u \in Active /\ Moved(u, "crash-recovery", t, q) /\ q.state = "invalid"
      BY <2>2
    <3>2. Sound(sessions', audit')
      BY <1>2, <3>1, MoveIsSound
    <3>3. /\ sessions'[u] = q /\ q # None
          /\ \A w \in Sessions \ {u} : sessions'[w] = sessions[w]
      BY <1>2, <3>1, MovePuts, PutsTyped
    <3>4. \A w \in Active : w = u
      BY <1>2, <3>1 DEF Sound, RecordsInv, Active, ActiveIn, Planned, PlannedIn
    <3>5. \A w \in PlannedIn(sessions') : sessions'[w].state \in Terminal
      <4>1. SUFFICES ASSUME NEW w \in PlannedIn(sessions') PROVE sessions'[w].state \in Terminal
        OBVIOUS
      <4>2. CASE w = u
        BY <3>1, <3>3, <4>2 DEF Terminal
      <4>3. CASE w # u
        BY <3>3, <3>4, <4>3 DEF PlannedIn, Active, Planned
      <4>4. QED
        BY <4>2, <4>3
    <3>6. QED
      BY <3>2, <3>5
  <2>3. QED
    BY <1>2, <1>3, <2>1, <2>2, OpenMoves
<1>5. s \in PlannedIn(sessions')
  BY <1>1 DEF PlannedIn
<1>6. RecordInv(sessions'[s]) /\ sessions'[s].state \in Terminal
  BY <1>4, <1>5 DEF Sound, RecordsInv
<1>7. WellFormed(sessions'[s]) /\ sessions'[s] \in SessionRecord
  BY <1>6 DEF RecordInv, Semantics
<1>8. QED
  BY <1>6, <1>7, WellFormedIs DEF Terminal, SessionRecord

\* A coordinator that opens the store finds no session eligible for egress: those of an
\* earlier process are ended first (recoverNonterminalSessions).
THEOREM NoEgressAfterRestart == Spec => RestartsBlockEgress
<1>1. SessionInv /\ [Next]_vars =>
        (~open /\ open' => \A s \in Sessions : sessions'[s] # None => ~sessions'[s].eligible)
  BY OpenBlocks
<1>2. QED
  BY <1>1, SessionInvariant, PTL DEF Spec, RestartsBlockEgress

-----------------------------------------------------------------------------
(* The lifecycle implements the gate. *)

HolderOf(S) == IF ActiveIn(S) = {} THEN None ELSE CHOOSE s \in ActiveIn(S) : TRUE
DayOf(S) == IF ActiveIn(S) = {} THEN None ELSE S[HolderOf(S)].date
RunningOf(S) == \E s \in ActiveIn(S) : S[s].eligible
RanOf(A) == {s \in Sessions : \E i \in 1..Len(A) :
               A[i].session = s /\ A[i].action = "start" /\ A[i].to = "running"}
AcceptedOf(S) == {<<s, S[s].date>> : s \in {u \in PlannedIn(S) : S[u].state = "accepted"}}

\* The gate is held by the one session that is not over.
LEMMA HeldBy ==
  ASSUME NEW S, RecordsInv(S)
  PROVE  /\ ActiveIn(S) = {} => HolderOf(S) = None /\ DayOf(S) = None /\ RunningOf(S) = FALSE
         /\ \A s \in ActiveIn(S) : /\ ActiveIn(S) = {s}
                                   /\ HolderOf(S) = s /\ DayOf(S) = S[s].date
                                   /\ RunningOf(S) = (S[s].state = "running")
                                   /\ s \in Sessions /\ s # None
<1>1. ActiveIn(S) = {} => HolderOf(S) = None /\ DayOf(S) = None /\ RunningOf(S) = FALSE
  BY DEF HolderOf, DayOf, RunningOf
<1>2. ASSUME NEW s \in ActiveIn(S)
      PROVE  /\ ActiveIn(S) = {s}
             /\ HolderOf(S) = s /\ DayOf(S) = S[s].date
             /\ RunningOf(S) = (S[s].state = "running")
             /\ s \in Sessions /\ s # None
  <2>1. ActiveIn(S) = {s}
    BY <1>2 DEF RecordsInv
  <2>2. HolderOf(S) = s
    BY <2>1 DEF HolderOf
  <2>3. DayOf(S) = S[s].date
    BY <2>1, <2>2 DEF DayOf
  <2>4. s \in PlannedIn(S) /\ s \in Sessions /\ S[s].state \notin Terminal
    BY DEF ActiveIn, PlannedIn
  <2>5. S[s].eligible <=> S[s].state = "running"
    <3>1. RecordInv(S[s])
      BY <2>4 DEF RecordsInv
    <3>2. QED
      BY <3>1, WellFormedIs DEF RecordInv, Semantics
  <2>6. RunningOf(S) = S[s].eligible
    <3>1. S[s].eligible \in BOOLEAN
      BY <2>4 DEF RecordsInv, RecordInv, SessionRecord
    <3>2. RunningOf(S) <=> S[s].eligible
      BY <2>1 DEF RunningOf
    <3>3. RunningOf(S) \in BOOLEAN
      BY DEF RunningOf
    <3>4. QED
      BY <3>1, <3>2, <3>3
  <2>7. S[s].eligible = (S[s].state = "running")
    <3>1. S[s].eligible \in BOOLEAN
      BY <2>4 DEF RecordsInv, RecordInv, SessionRecord
    <3>2. QED
      BY <2>5, <3>1
  <2>8. QED
    BY <2>1, <2>2, <2>3, <2>4, <2>6, <2>7
<1>3. QED
  BY <1>1, <1>2

\* An entry that says that s runs adds s to those that ran, any other leaves them.
LEMMA RanGrows ==
  ASSUME NEW A \in Seq(AuditRow), NEW e \in AuditRow
  PROVE  RanOf(Append(A, e)) = IF e.action = "start" /\ e.to = "running"
                               THEN RanOf(A) \cup {e.session} ELSE RanOf(A)
<1>1. PICK B : B = Append(A, e)
  OBVIOUS
<1>2. /\ Len(B) = Len(A) + 1 /\ Len(A) \in Nat /\ B[Len(A) + 1] = e
      /\ \A i \in 1..Len(A) : B[i] = A[i]
  BY <1>1
<1>3. e.session \in Sessions
  BY DEF AuditRow
<1>4. ASSUME NEW s \in RanOf(A) PROVE s \in RanOf(B)
  <2>1. PICK i \in 1..Len(A) : A[i].session = s /\ A[i].action = "start" /\ A[i].to = "running"
    BY DEF RanOf
  <2>2. i \in 1..Len(B) /\ B[i] = A[i]
    BY <1>2
  <2>3. QED
    BY <2>1, <2>2 DEF RanOf
<1>5. ASSUME NEW s \in RanOf(B), s \notin RanOf(A)
      PROVE  s = e.session /\ e.action = "start" /\ e.to = "running"
  <2>1. PICK i \in 1..Len(B) : B[i].session = s /\ B[i].action = "start" /\ B[i].to = "running"
    BY DEF RanOf
  <2>2. s \in Sessions
    BY DEF RanOf
  <2>3. i \notin 1..Len(A)
    BY <1>2, <1>5, <2>1, <2>2 DEF RanOf
  <2>4. i = Len(A) + 1
    BY <1>2, <2>3
  <2>5. QED
    BY <1>2, <2>1, <2>4
<1>6. e.action = "start" /\ e.to = "running" => e.session \in RanOf(B)
  <2>1. Len(A) + 1 \in 1..Len(B)
    BY <1>2
  <2>2. QED
    BY <1>2, <1>3, <2>1 DEF RanOf
<1>7. QED
  BY <1>1, <1>4, <1>5, <1>6

\* The day of a time is a time.
LEMMA DaysAreTimes == ASSUME NEW t \in Times PROVE DateAt(t) \in Times
<1>1. t \in Nat /\ DayLength \in Nat \ {0} /\ t <= MaxTime /\ MaxTime \in Nat
  OBVIOUS
<1>2. PICK d : d = t \div DayLength
  OBVIOUS
<1>3. d \in Nat /\ d <= t
  BY <1>1, <1>2
<1>4. QED
  BY <1>1, <1>2, <1>3 DEF DateAt

\* The acceptances, when session s gets the record q.
LEMMA AcceptedAfter ==
  ASSUME NEW S, NEW s \in Sessions, NEW q, q # None, NEW T,
         T[s] = q, \A u \in Sessions \ {s} : T[u] = S[u],
         S[s] = None \/ S[s].state # "accepted"
  PROVE  AcceptedOf(T) = IF q.state = "accepted" THEN AcceptedOf(S) \cup {<<s, q.date>>}
                         ELSE AcceptedOf(S)
<1>1. ASSUME NEW u \in Sessions \ {s}
      PROVE  u \in PlannedIn(T) /\ T[u].state = "accepted" <=> u \in PlannedIn(S) /\ S[u].state = "accepted"
  BY DEF PlannedIn
<1>2. s \in PlannedIn(T) /\ ~(s \in PlannedIn(S) /\ S[s].state = "accepted")
  BY DEF PlannedIn
<1>3. PICK F : F = {u \in PlannedIn(S) : S[u].state = "accepted"}
  OBVIOUS
<1>4. PICK G : G = {u \in PlannedIn(T) : T[u].state = "accepted"}
  OBVIOUS
<1>5. F \subseteq Sessions \ {s} /\ G \subseteq Sessions
  BY <1>2, <1>3, <1>4 DEF PlannedIn
<1>6. G = IF q.state = "accepted" THEN F \cup {s} ELSE F
  BY <1>1, <1>2, <1>3, <1>4, <1>5
<1>7. AcceptedOf(S) = {<<u, S[u].date>> : u \in F} /\ AcceptedOf(T) = {<<u, T[u].date>> : u \in G}
  BY <1>3, <1>4 DEF AcceptedOf
<1>8. \A u \in F : S[u].date = T[u].date
  BY <1>5
<1>9. QED
  BY <1>6, <1>7, <1>8

\* What the gate of the module is, in these terms.
LEMMA GateIs ==
  /\ (IF Active = {} THEN None ELSE Current) = HolderOf(sessions)
  /\ (IF Active = {} THEN None ELSE sessions[Current].date) = DayOf(sessions)
  /\ (\E s \in Active : sessions[s].eligible) = RunningOf(sessions)
  /\ {s \in Sessions : \E i \in 1..Len(audit) :
        audit[i].session = s /\ audit[i].action = "start" /\ audit[i].to = "running"} = RanOf(audit)
  /\ {<<s, sessions[s].date>> : s \in {u \in Planned : sessions[u].state = "accepted"}}
       = AcceptedOf(sessions)
<1>1. Planned = PlannedIn(sessions) /\ Active = ActiveIn(sessions)
  BY DEF Planned, PlannedIn, Active, ActiveIn
<1>2. Current = CHOOSE s \in ActiveIn(sessions) : TRUE
  BY <1>1 DEF Current
<1>3. (IF Active = {} THEN None ELSE Current) = HolderOf(sessions)
  BY <1>1, <1>2 DEF HolderOf
<1>4. (IF Active = {} THEN None ELSE sessions[Current].date) = DayOf(sessions)
  BY <1>1, <1>2 DEF HolderOf, DayOf
<1>5. (\E s \in Active : sessions[s].eligible) = RunningOf(sessions)
  BY <1>1 DEF RunningOf
<1>6. QED
  BY <1>1, <1>3, <1>4, <1>5 DEF RanOf, AcceptedOf

\* A plan begins.
LEMMA PlanBegins ==
  ASSUME Sound(sessions, audit), NEW s \in Sessions, NEW t \in Times, NEW until \in Times,
         PlanSession(s, t, until)
  PROVE  /\ HolderOf(sessions) = None /\ s \notin RanOf(audit)
         /\ HolderOf(sessions') = s /\ DayOf(sessions') \in Times
         /\ RunningOf(sessions') = RunningOf(sessions)
         /\ RanOf(audit') = RanOf(audit) /\ AcceptedOf(sessions') = AcceptedOf(sessions)
<1>1. PICK q : q = NewRecord(t, until)
  OBVIOUS
<1>2. /\ sessions[s] = None /\ ActiveIn(sessions) = {}
      /\ sessions' = [sessions EXCEPT ![s] = q]
      /\ audit' = Append(audit, AuditEntry(s, "plan", None, t, q))
  BY <1>1 DEF PlanSession, OneAtATime, Active, ActiveIn, Planned, PlannedIn
<1>3. q.state = "planned" /\ q.date = DateAt(t)
  BY <1>1 DEF NewRecord
<1>4. Sound(sessions', audit')
  BY PlanIsSound
<1>5. RecordsInv(sessions) /\ RecordsInv(sessions') /\ audit \in Seq(AuditRow) /\ audit' \in Seq(AuditRow)
  BY <1>4 DEF Sound
<1>6. sessions'[s] = q /\ \A u \in Sessions \ {s} : sessions'[u] = sessions[u]
  BY <1>2, <1>5 DEF RecordsInv
<1>7. q # None
  <2>1. q \in SessionRecord
    BY <1>1, NewIsSound DEF RecordInv, PlanSession
  <2>2. QED
    BY <2>1
<1>8. s \in ActiveIn(sessions')
  BY <1>3, <1>6, <1>7 DEF ActiveIn, PlannedIn, Terminal
<1>9. /\ HolderOf(sessions) = None /\ RunningOf(sessions) = FALSE
      /\ HolderOf(sessions') = s /\ DayOf(sessions') = q.date
      /\ RunningOf(sessions') = (q.state = "running")
  <2>1. HolderOf(sessions) = None /\ RunningOf(sessions) = FALSE
    BY <1>2, <1>5, HeldBy
  <2>2. PICK T : T = sessions'
    OBVIOUS
  <2>3. RecordsInv(T) /\ s \in ActiveIn(T) /\ T[s] = q
    BY <1>5, <1>6, <1>8, <2>2
  <2>4. HolderOf(T) = s /\ DayOf(T) = q.date /\ RunningOf(T) = (q.state = "running")
    BY <2>3, HeldBy
  <2>5. QED
    BY <2>1, <2>2, <2>4
<1>10. s \notin RanOf(audit)
  <2>1. PICK k \in 0..Len(audit) :
          /\ LastIs(audit, s, Len(audit), k)
          /\ sessions[s] = (IF k = 0 THEN None ELSE audit[k].record)
    BY DEF Sound, Stored
  <2>2. k # 0 => audit[k].record # None
    <3>1. k # 0 => audit[k] \in AuditRow
      BY <1>5
    <3>2. QED
      BY <3>1 DEF AuditRow
  <2>3. k = 0
    BY <1>2, <2>1, <2>2
  <2>4. QED
    BY <2>1, <2>3 DEF LastIs, RanOf
<1>11. RanOf(audit') = RanOf(audit)
  <2>1. PICK e : e = AuditEntry(s, "plan", None, t, q)
    OBVIOUS
  <2>2. audit' = Append(audit, e) /\ e.action = "plan"
    BY <1>2, <2>1 DEF AuditEntry
  <2>3. audit'[Len(audit) + 1] = e /\ Len(audit') = Len(audit) + 1
    BY <1>5, <2>2
  <2>4. e \in AuditRow
    BY <1>5, <2>3
  <2>5. QED
    BY <1>5, <2>2, <2>4, RanGrows
<1>12. AcceptedOf(sessions') = AcceptedOf(sessions)
  <2>1. PICK T : T = sessions'
    OBVIOUS
  <2>2. /\ q # None /\ T[s] = q /\ \A u \in Sessions \ {s} : T[u] = sessions[u]
        /\ sessions[s] = None \/ sessions[s].state # "accepted"
    BY <1>2, <1>6, <1>7, <2>1
  <2>3. AcceptedOf(T) = IF q.state = "accepted" THEN AcceptedOf(sessions) \cup {<<s, q.date>>}
                        ELSE AcceptedOf(sessions)
    BY <2>2, AcceptedAfter
  <2>4. q.state # "accepted"
    BY <1>3
  <2>5. QED
    BY <2>1, <2>3, <2>4
<1>13. DayOf(sessions') \in Times
  BY <1>3, <1>9, DaysAreTimes
<1>14. QED
  BY <1>3, <1>9, <1>10, <1>11, <1>12, <1>13

\* Any other move is a run, a halt, an acceptance, an abandonment or nothing.
LEMMA MoveGates ==
  ASSUME Sound(sessions, audit), NEW s, NEW action, NEW t, NEW q, Moved(s, action, t, q)
  PROVE  \/ /\ HolderOf(sessions) # None /\ HolderOf(sessions) \notin RanOf(audit)
            /\ RunningOf(sessions') = TRUE
            /\ RanOf(audit') = RanOf(audit) \cup {HolderOf(sessions)}
            /\ HolderOf(sessions') = HolderOf(sessions) /\ DayOf(sessions') = DayOf(sessions)
            /\ AcceptedOf(sessions') = AcceptedOf(sessions)
         \/ /\ RunningOf(sessions) /\ RunningOf(sessions') = FALSE
            /\ HolderOf(sessions') = HolderOf(sessions) /\ DayOf(sessions') = DayOf(sessions)
            /\ RanOf(audit') = RanOf(audit) /\ AcceptedOf(sessions') = AcceptedOf(sessions)
         \/ /\ HolderOf(sessions) \in RanOf(audit) /\ ~RunningOf(sessions)
            /\ \A a \in AcceptedOf(sessions) : a[2] # DayOf(sessions)
            /\ AcceptedOf(sessions') = AcceptedOf(sessions) \cup {<<HolderOf(sessions), DayOf(sessions)>>}
            /\ HolderOf(sessions') = None /\ DayOf(sessions') = None
            /\ RunningOf(sessions') = RunningOf(sessions) /\ RanOf(audit') = RanOf(audit)
         \/ /\ HolderOf(sessions) # None
            /\ HolderOf(sessions') = None /\ DayOf(sessions') = None /\ RunningOf(sessions') = FALSE
            /\ RanOf(audit') = RanOf(audit) /\ AcceptedOf(sessions') = AcceptedOf(sessions)
         \/ /\ HolderOf(sessions') = HolderOf(sessions) /\ DayOf(sessions') = DayOf(sessions)
            /\ RunningOf(sessions') = RunningOf(sessions)
            /\ RanOf(audit') = RanOf(audit) /\ AcceptedOf(sessions') = AcceptedOf(sessions)
<1>1. PICK r : r = sessions[s]
  OBVIOUS
<1>2. Sound(sessions', audit')
  BY MoveIsSound
<1>3. RecordsInv(sessions) /\ RecordsInv(sessions') /\ audit \in Seq(AuditRow) /\ audit' \in Seq(AuditRow)
  BY <1>2 DEF Sound
<1>4. /\ s \in Sessions /\ s \in PlannedIn(sessions) /\ r # None
      /\ action \in Actions \ {"plan"} /\ r.state \in Origin(action)
      /\ Written(action, r, t, q) /\ ~Has(audit, s, action)
  BY <1>1 DEF Moved, PlannedIn
<1>5. r.state \in States \ Terminal
  BY <1>4, OriginIs
<1>6. s \in ActiveIn(sessions)
  BY <1>1, <1>4, <1>5 DEF ActiveIn
<1>7. /\ ActiveIn(sessions) = {s} /\ HolderOf(sessions) = s /\ DayOf(sessions) = r.date
      /\ RunningOf(sessions) = (r.state = "running") /\ s # None
  BY <1>1, <1>3, <1>6, HeldBy
<1>8. /\ sessions'[s] = q /\ q # None /\ q \in SessionRecord
      /\ \A u \in Sessions \ {s} : sessions'[u] = sessions[u]
  BY MovePuts, PutsTyped
<1>9. ActiveIn(sessions') = IF q.state \in Terminal THEN {} ELSE {s}
  BY <1>4, <1>7, <1>8 DEF ActiveIn, PlannedIn
<1>10. /\ q.state \in Terminal => /\ HolderOf(sessions') = None /\ DayOf(sessions') = None
                                  /\ RunningOf(sessions') = FALSE
       /\ q.state \notin Terminal => /\ HolderOf(sessions') = s /\ DayOf(sessions') = q.date
                                     /\ RunningOf(sessions') = (q.state = "running")
  BY <1>3, <1>8, <1>9, HeldBy
<1>11. AcceptedOf(sessions') = IF q.state = "accepted" THEN AcceptedOf(sessions) \cup {<<s, q.date>>}
                               ELSE AcceptedOf(sessions)
  BY <1>1, <1>4, <1>5, <1>8, AcceptedAfter DEF Terminal
<1>12. RanOf(audit') = IF action = "start" /\ q.state = "running" THEN RanOf(audit) \cup {s}
                       ELSE RanOf(audit)
  <2>1. PICK e : e = AuditEntry(s, action, sessions[s].state, t, q)
    OBVIOUS
  <2>2. audit' = Append(audit, e) /\ e.action = action /\ e.to = q.state /\ e.session = s
    BY <2>1 DEF AuditEntry, Moved
  <2>3. audit'[Len(audit) + 1] = e /\ Len(audit') = Len(audit) + 1
    BY <1>3, <2>2
  <2>4. e \in AuditRow
    BY <1>3, <2>3
  <2>5. QED
    BY <1>3, <2>2, <2>4, RanGrows
<1>13. q.date = r.date /\ q.state \in Target(action)
  BY <1>4 DEF Written
<1>14. CASE q.state = "accepted"
  <2>1. action = "accept"
    BY <1>4, <1>13, <1>14 DEF Target, Actions
  <2>2. r.state = "cost_pending"
    BY <1>4, <2>1 DEF Origin
  <2>3. s \in RanOf(audit)
    <3>1. Logged(sessions, audit) /\ Ran(r)
      BY <2>2 DEF Sound, Ran
    <3>2. QED
      BY <1>1, <1>4, <3>1 DEF Logged, RanOf
  <2>4. ASSUME NEW a \in AcceptedOf(sessions) PROVE a[2] # r.date
    <3>1. PICK u \in PlannedIn(sessions) : sessions[u].state = "accepted" /\ a = <<u, sessions[u].date>>
      BY DEF AcceptedOf
    <3>2. u # s
      BY <1>1, <2>2, <3>1
    <3>3. sessions[u].date # r.date
      BY <1>1, <1>14, <3>1, <3>2 DEF Moved
    <3>4. QED
      BY <3>1, <3>3
  <2>5. /\ HolderOf(sessions') = None /\ DayOf(sessions') = None /\ RunningOf(sessions') = FALSE
        /\ AcceptedOf(sessions') = AcceptedOf(sessions) \cup {<<s, r.date>>}
        /\ RanOf(audit') = RanOf(audit) /\ RunningOf(sessions) = FALSE
    BY <1>7, <1>10, <1>11, <1>12, <1>13, <1>14, <2>2 DEF Terminal
  <2>6. QED
    BY <1>7, <2>3, <2>4, <2>5
<1>15. CASE q.state = "invalid"
  <2>1. /\ HolderOf(sessions') = None /\ DayOf(sessions') = None /\ RunningOf(sessions') = FALSE
        /\ AcceptedOf(sessions') = AcceptedOf(sessions) /\ RanOf(audit') = RanOf(audit)
    BY <1>10, <1>11, <1>12, <1>15 DEF Terminal
  <2>2. QED
    BY <1>7, <2>1
<1>16. CASE q.state \notin Terminal
  <2>1. /\ HolderOf(sessions') = s /\ DayOf(sessions') = r.date
        /\ RunningOf(sessions') = (q.state = "running")
        /\ AcceptedOf(sessions') = AcceptedOf(sessions)
    BY <1>10, <1>11, <1>13, <1>16 DEF Terminal
  <2>2. CASE action = "start" /\ q.state = "running"
    <3>1. s \notin RanOf(audit)
      BY <1>4, <2>2 DEF RanOf, Has
    <3>2. RanOf(audit') = RanOf(audit) \cup {s} /\ RunningOf(sessions') = TRUE
      BY <1>12, <2>1, <2>2
    <3>3. QED
      BY <1>7, <2>1, <3>1, <3>2
  <2>3. CASE ~(action = "start" /\ q.state = "running")
    <3>1. RanOf(audit') = RanOf(audit)
      BY <1>12, <2>3
    <3>2. CASE q.state = "running"
      <4>1. action \in {"ack-minute-45", "ack-minute-90"}
        BY <1>4, <1>13, <2>3, <3>2 DEF Target, Actions
      <4>2. r.state = "running"
        BY <1>4, <4>1 DEF Origin
      <4>3. QED
        BY <1>7, <2>1, <3>1, <3>2, <4>2
    <3>3. CASE q.state # "running"
      BY <1>7, <2>1, <3>1, <3>3
    <3>4. QED
      BY <3>2, <3>3
  <2>4. QED
    BY <2>2, <2>3
<1>17. QED
  BY <1>14, <1>15, <1>16 DEF Terminal

\* Every step is a step of the gate, or one that it does not see.
LEMMA GateStep ==
  ASSUME SessionInv, copy = None, CopiesAt = {}, [Next]_vars
  PROVE  [Gate!Next]_(Gate!vars)
<1>1. Sound(sessions, audit)
  BY DEF SessionInv
<1> DEFINE h == IF Active = {} THEN None ELSE Current
           d == IF Active = {} THEN None ELSE sessions[Current].date
           g == \E s \in Active : sessions[s].eligible
           n == {s \in Sessions : \E i \in 1..Len(audit) :
                   audit[i].session = s /\ audit[i].action = "start" /\ audit[i].to = "running"}
           c == {<<s, sessions[s].date>> : s \in {u \in Planned : sessions[u].state = "accepted"}}
<1>2. /\ h = HolderOf(sessions) /\ d = DayOf(sessions) /\ g = RunningOf(sessions)
      /\ n = RanOf(audit) /\ c = AcceptedOf(sessions)
  BY GateIs
<1>3. /\ h' = HolderOf(sessions') /\ d' = DayOf(sessions') /\ g' = RunningOf(sessions')
      /\ n' = RanOf(audit') /\ c' = AcceptedOf(sessions')
  <2>1. Planned' = PlannedIn(sessions') /\ Active' = ActiveIn(sessions')
    BY DEF Planned, PlannedIn, Active, ActiveIn
  <2>2. Current' = CHOOSE s \in ActiveIn(sessions') : TRUE
    BY <2>1 DEF Current
  <2>3. h' = HolderOf(sessions')
    BY <2>1, <2>2 DEF HolderOf
  <2>4. d' = DayOf(sessions')
    BY <2>1, <2>2 DEF HolderOf, DayOf
  <2>5. g' = RunningOf(sessions')
    BY <2>1 DEF RunningOf
  <2>6. QED
    BY <2>1, <2>3, <2>4, <2>5 DEF RanOf, AcceptedOf
<1>4. ASSUME h' = h, d' = d, g' = g, n' = n, c' = c PROVE [Gate!Next]_(Gate!vars)
  BY <1>4 DEF Gate!vars
<1>5. ASSUME NEW s, NEW action, NEW t, NEW q, Moved(s, action, t, q)
      PROVE  [Gate!Next]_(Gate!vars)
  <2>1. \/ /\ h # None /\ h \notin n /\ g' = TRUE /\ n' = n \cup {h}
           /\ h' = h /\ d' = d /\ c' = c
        \/ /\ g /\ g' = FALSE /\ h' = h /\ d' = d /\ n' = n /\ c' = c
        \/ /\ h \in n /\ ~g /\ (\A a \in c : a[2] # d) /\ c' = c \cup {<<h, d>>}
           /\ h' = None /\ d' = None /\ g' = g /\ n' = n
        \/ /\ h # None /\ h' = None /\ d' = None /\ g' = FALSE /\ n' = n /\ c' = c
        \/ /\ h' = h /\ d' = d /\ g' = g /\ n' = n /\ c' = c
    <3> HIDE DEF h, d, g, n, c
    <3> QED
      BY <1>1, <1>2, <1>3, <1>5, MoveGates
  <2>2. QED
    BY <2>1 DEF Gate!vars, Gate!Next, Gate!Run, Gate!Halt, Gate!Accept, Gate!Abandon
<1>6. ASSUME NEW s \in Sessions, NEW t \in Times, SessionStep(s, t) PROVE [Gate!Next]_(Gate!vars)
  <2>1. CASE \E until \in Times : PlanSession(s, t, until)
    <3>1. h = None /\ s \notin n /\ h' = s /\ d' \in Times /\ g' = g /\ n' = n /\ c' = c
      <4> HIDE DEF h, d, g, n, c
      <4> QED
        BY <1>1, <1>2, <1>3, <2>1, PlanBegins
    <3>2. Gate!Begin(s, d')
      BY <3>1 DEF Gate!Begin
    <3>3. QED
      BY <3>1, <3>2 DEF Gate!Next
  <2>2. CASE \E action, q : Moved(s, action, t, q)
    BY <1>5, <2>2
  <2>3. QED
    BY <1>1, <1>6, <2>1, <2>2, StepMoves
<1>7. ASSUME NEW t \in Times, Open(t) PROVE [Gate!Next]_(Gate!vars)
  <2>1. CASE UNCHANGED <<sessions, audit>>
    BY <1>2, <1>3, <1>4, <2>1
  <2>2. CASE \E s \in Active : \E q : Moved(s, "crash-recovery", t, q)
    BY <1>5, <2>2
  <2>3. QED
    BY <1>1, <1>7, <2>1, <2>2, OpenMoves
<1>8. ASSUME UNCHANGED <<sessions, audit>> PROVE [Gate!Next]_(Gate!vars)
  BY <1>2, <1>3, <1>4, <1>8
<1>9. QED
  BY <1>6, <1>7, <1>8 DEF Next, Close, GetTrustedHead, SaveCopy, RestoreCopy, vars

\* No copy of the file was saved.
NoCopy == copy = None

\* While the file is never put back from a copy, the lifecycle implements the gate.
THEOREM GateImplemented == CopiesAt = {} => (Spec => ImplementsGate)
<1> SUFFICES ASSUME CopiesAt = {} PROVE Spec => ImplementsGate
  OBVIOUS
<1>1. Init => Gate!Init
  <2> SUFFICES ASSUME Init PROVE Gate!Init
    OBVIOUS
  <2>1. Planned = {} /\ Active = {} /\ audit = << >>
    BY DEF Init, Planned, Active
  <2>2. QED
    BY <2>1 DEF Gate!Init
<1>2. Init => NoCopy
  BY DEF Init, NoCopy
<1>3. NoCopy /\ [Next]_vars => NoCopy'
  <2> SUFFICES ASSUME NoCopy, [Next]_vars PROVE NoCopy'
    OBVIOUS
  <2>1. ASSUME NEW s \in Sessions, NEW t \in Times, SessionStep(s, t) PROVE NoCopy'
    BY <2>1 DEF SessionStep, PlanSession, RecordPreflight, StartSession, RecordMinute45,
      RecordMinute90, StopSession, RecordLocalVerification, RecordExternalVerification,
      RecordCostReconciliation, AcceptSession, InvalidateSession, Mutate, NoCopy
  <2>2. QED
    BY <2>1 DEF Next, Open, Close, GetTrustedHead, SaveCopy, RestoreCopy, vars, NoCopy
<1>4. SessionInv /\ NoCopy /\ [Next]_vars => [Gate!Next]_(Gate!vars)
  BY GateStep DEF NoCopy
<1>5. QED
  BY <1>1, <1>2, <1>3, <1>4, SessionInvariant, PTL DEF Spec, ImplementsGate, Gate!Spec

-----------------------------------------------------------------------------
(* The closure of a session. *)

LaneAttempt == [lane : Lanes, profile : {Profile, "other"}, outcome : {None, "useful", "failed"}]
Facts == [sources : BOOLEAN, purge : BOOLEAN, events : BOOLEAN, incident : BOOLEAN]
Closing == [at : 1..5, facts : Facts]

ClosureTypeOK ==
  /\ session \in {"running", "stopping", "locally_verified", "invalid"}
  /\ attempts \in Seq(LaneAttempt)
  /\ captures \in [DOMAIN captures -> {"pending", "committed", "removed"}] /\ DOMAIN captures \subseteq DOMAIN attempts
  /\ incidents \subseteq DOMAIN attempts
  /\ verifier \in [Verifiers -> Closing \cup {C!Idle}]

\* Nothing is open, every lane was of use, and no attempt was another profile's.
SourcesClosed ==
  /\ \A n \in DOMAIN attempts : ~C!Open(n) /\ attempts[n].profile = Profile
  /\ \A lane \in Lanes : \E n \in DOMAIN attempts : attempts[n].lane = lane /\ attempts[n].outcome = "useful"

AllRemoved == \A n \in DOMAIN captures : captures[n] = "removed"

\* What a verifier has found so far is still so; of captures and incidents it is so
\* because the attempts were summarised first.
FactsStand(k) ==
  /\ k.at = 1 => ~k.facts.sources /\ ~k.facts.purge /\ k.facts.incident
  /\ k.facts.sources => SourcesClosed
  /\ k.facts.sources /\ k.facts.purge => AllRemoved
  /\ k.facts.sources /\ ~k.facts.incident => incidents = {}

ClosureInv ==
  /\ ClosureTypeOK
  /\ \A v \in Verifiers : verifier[v] # C!Idle => session # "running" /\ FactsStand(verifier[v])
  /\ session = "locally_verified" => SourcesClosed /\ AllRemoved /\ incidents = {}

\* A verifier that closes a session is not idle.
LEMMA NotIdle == ASSUME NEW k \in Closing PROVE k # C!Idle
<1>1. k.at \in 1..5
  BY DEF Closing
<1>2. QED
  BY <1>1 DEF C!Idle

\* The steps of a closure, by their number.
LEMMA Steps ==
  /\ C!Order = <<"attempts", "recover", "captures", "alerts", "record">>
  /\ \A v \in Verifiers : ClosureTypeOK =>
       /\ C!At(v, "attempts") <=> verifier[v].at = 1
       /\ C!At(v, "recover") <=> verifier[v].at = 2
       /\ C!At(v, "captures") <=> verifier[v].at = 3
       /\ C!At(v, "alerts") <=> verifier[v].at = 4
       /\ C!At(v, "record") <=> verifier[v].at = 5
<1>1. ASSUME NEW v \in Verifiers, ClosureTypeOK
      PROVE  /\ C!At(v, "attempts") <=> verifier[v].at = 1
             /\ C!At(v, "recover") <=> verifier[v].at = 2
             /\ C!At(v, "captures") <=> verifier[v].at = 3
             /\ C!At(v, "alerts") <=> verifier[v].at = 4
             /\ C!At(v, "record") <=> verifier[v].at = 5
  <2>1. verifier[v].at \in {0, 1, 2, 3, 4, 5}
    BY <1>1 DEF ClosureTypeOK, Closing, C!Idle
  <2>2. QED
    BY <2>1 DEF C!At, C!Order
<1>2. QED
  BY <1>1 DEF C!Order

\* Cardinality is that of FiniteSets, whichever module names it.
LEMMA CountIs == \A S : C!Cardinality(S) = Cardinality(S)
BY DEF C!Cardinality, Cardinality

\* A summary that closes every lane says that nothing is open.
LEMMA SummaryTells ==
  ASSUME ClosureTypeOK, \A lane \in Lanes : C!LaneClosed(C!AttemptSummary, lane)
  PROVE  SourcesClosed
<1>1. /\ attempts \in Seq(LaneAttempt) /\ DOMAIN attempts = 1..Len(attempts) /\ Len(attempts) \in Nat
      /\ IsFiniteSet(DOMAIN attempts)
  <2>1. attempts \in Seq(LaneAttempt) /\ DOMAIN attempts = 1..Len(attempts) /\ Len(attempts) \in Nat
    BY DEF ClosureTypeOK
  <2>2. IsFiniteSet(1..Len(attempts))
    BY ONLY <2>1, FS_Interval
  <2>3. QED
    BY ONLY <2>1, <2>2
<1>2. ASSUME NEW lane \in Lanes
      PROVE  /\ \A n \in DOMAIN attempts : attempts[n].profile = Profile
             /\ \A n \in C!Of(lane) : ~C!Open(n)
             /\ \E n \in C!Of(lane) : attempts[n].outcome = "useful"
  <2> DEFINE closed == {n \in C!Of(lane) : ~C!Open(n)}
             useful == {n \in C!Of(lane) : attempts[n].outcome = "useful"}
  <2>0. C!GroupOf(lane) = [attempts |-> Cardinality(C!Of(lane)), closed |-> Cardinality(closed), useful |-> Cardinality(useful)]
    BY CountIs DEF C!GroupOf
  <2>1. C!AttemptSummary.groups[lane] = C!GroupOf(lane)
    BY <1>2 DEF C!AttemptSummary
  <2>2. closed \subseteq C!Of(lane) /\ useful \subseteq C!Of(lane) /\ C!Of(lane) \subseteq DOMAIN attempts
    BY DEF C!Of
  <2> HIDE DEF closed, useful
  <2>3. C!AttemptSummary.foreign = {} /\ C!SourceGroupClosed(C!AttemptSummary.groups[lane])
    BY <1>2 DEF C!LaneClosed
  <2>4. Cardinality(closed) = Cardinality(C!Of(lane)) /\ Cardinality(useful) > 0
    BY <2>0, <2>1, <2>3 DEF C!SourceGroupClosed
  <2>5. IsFiniteSet(C!Of(lane))
    BY <1>1, <2>2, FS_Subset
  <2>6. closed = C!Of(lane)
    BY <2>2, <2>4, <2>5, FS_Subset
  <2>7. useful # {}
    BY <2>4, FS_EmptySet
  <2>8. \A n \in DOMAIN attempts : attempts[n].profile = Profile
    BY <2>3 DEF C!AttemptSummary
  <2>9. QED
    BY <2>2, <2>6, <2>7, <2>8 DEF closed, useful
<1>3. \A n \in DOMAIN attempts : attempts[n].lane \in Lanes
  <2>1. \A n \in DOMAIN attempts : attempts[n] \in LaneAttempt
    BY <1>1
  <2>2. QED
    BY <2>1 DEF LaneAttempt
<1>4. \A lane \in Lanes : \A n \in C!Of(lane) : attempts[n].lane = lane /\ n \in DOMAIN attempts
  BY DEF C!Of
<1>5. \A n \in DOMAIN attempts : attempts[n].profile = Profile
  BY <1>2, <1>3
<1>6. \A n \in DOMAIN attempts : n \in C!Of(attempts[n].lane)
  BY <1>5 DEF C!Of
<1>7. \A n \in DOMAIN attempts : ~C!Open(n)
  BY <1>2, <1>3, <1>6
<1>8. QED
  BY <1>2, <1>4, <1>5, <1>7 DEF SourcesClosed

\* What a step of one verifier finds.
LEMMA FoundTyped ==
  ASSUME ClosureTypeOK, NEW v \in Verifiers, NEW facts \in Facts, verifier[v].at \in 1..4, C!Found(v, facts)
  PROVE  /\ verifier' \in [Verifiers -> Closing \cup {C!Idle}]
         /\ verifier'[v] = [at |-> verifier[v].at + 1, facts |-> facts]
         /\ \A w \in Verifiers : w # v => verifier'[w] = verifier[w]
<1>1. /\ verifier \in [Verifiers -> Closing \cup {C!Idle}]
      /\ verifier' = [verifier EXCEPT ![v] = [at |-> verifier[v].at + 1, facts |-> facts]]
  BY DEF ClosureTypeOK, C!Found
<1>2. [at |-> verifier[v].at + 1, facts |-> facts] \in Closing
  BY DEF Closing
<1>3. QED
  BY <1>1, <1>2

\* A verifier in a step has its facts.
LEMMA FactsOf ==
  ASSUME ClosureTypeOK, NEW v \in Verifiers, verifier[v].at \in 1..5
  PROVE  verifier[v] \in Closing /\ verifier[v].facts \in Facts /\ verifier[v] # C!Idle
<1>1. verifier[v] \in Closing \cup {C!Idle} /\ verifier[v].at # 0
  BY DEF ClosureTypeOK
<1>2. verifier[v] # C!Idle
  BY <1>1 DEF C!Idle
<1>3. QED
  BY <1>1, <1>2 DEF Closing

\* The state is left alone by a step of the verifiers.
Untouched == UNCHANGED <<session, attempts, incidents, log>>

\* The attempts are summarised.
LEMMA SummaryFinds ==
  ASSUME ClosureTypeOK, NEW v \in Verifiers, C!SummariseAttempts(v)
  PROVE  /\ verifier[v].at = 1 /\ Untouched /\ captures' = captures
         /\ \E facts \in Facts : /\ C!Found(v, facts) /\ (facts.sources => SourcesClosed)
                                /\ facts.purge = verifier[v].facts.purge /\ facts.incident = verifier[v].facts.incident
<1>1. verifier[v].at = 1 /\ Untouched /\ captures' = captures
  BY Steps DEF C!SummariseAttempts, Untouched
<1>2. verifier[v].facts \in Facts
  BY <1>1, FactsOf
<1>3. PICK readable \in BOOLEAN :
        C!Found(v, [verifier[v].facts EXCEPT !.sources = readable /\ \A lane \in Lanes : C!LaneClosed(C!AttemptSummary, lane)])
  BY DEF C!SummariseAttempts
<1> DEFINE closed == readable /\ \A lane \in Lanes : C!LaneClosed(C!AttemptSummary, lane)
           facts == [verifier[v].facts EXCEPT !.sources = closed]
<1>4. closed \in BOOLEAN /\ (closed => SourcesClosed)
  BY SummaryTells
<1>5. C!Found(v, facts)
  BY <1>3
<1> HIDE DEF closed
<1>6. /\ facts \in Facts /\ facts.sources = closed
      /\ facts.purge = verifier[v].facts.purge /\ facts.incident = verifier[v].facts.incident
  BY <1>2, <1>4 DEF Facts
<1>7. QED
  BY <1>1, <1>4, <1>5, <1>6

\* The captures are read.
LEMMA CapturesFind ==
  ASSUME ClosureTypeOK, NEW v \in Verifiers, C!ReadCaptures(v)
  PROVE  /\ verifier[v].at = 3 /\ Untouched /\ captures' = captures
         /\ \E facts \in Facts : /\ C!Found(v, facts) /\ (facts.purge => AllRemoved)
                                /\ facts.sources = verifier[v].facts.sources /\ facts.incident = verifier[v].facts.incident
<1>1. verifier[v].at = 3 /\ Untouched /\ captures' = captures
  BY Steps DEF C!ReadCaptures, Untouched
<1>2. verifier[v].facts \in Facts
  BY <1>1, FactsOf
<1>3. PICK readable \in BOOLEAN : C!Found(v, [verifier[v].facts EXCEPT !.purge = readable /\ C!Settled(captures)])
  BY DEF C!ReadCaptures
<1> DEFINE settled == readable /\ C!Settled(captures)
           facts == [verifier[v].facts EXCEPT !.purge = settled]
<1>4. settled \in BOOLEAN /\ (settled => AllRemoved)
  BY DEF C!Settled, AllRemoved
<1>5. C!Found(v, facts)
  BY <1>3
<1> HIDE DEF settled
<1>6. /\ facts \in Facts /\ facts.purge = settled
      /\ facts.sources = verifier[v].facts.sources /\ facts.incident = verifier[v].facts.incident
  BY <1>2, <1>4 DEF Facts
<1>7. QED
  BY <1>1, <1>4, <1>5, <1>6

\* The log and the alerts are read.
LEMMA AlertsFind ==
  ASSUME ClosureTypeOK, NEW v \in Verifiers, C!ReadEventsAndAlerts(v)
  PROVE  /\ verifier[v].at = 4 /\ Untouched /\ captures' = captures
         /\ \E facts \in Facts : /\ C!Found(v, facts) /\ (~facts.incident => incidents = {})
                                /\ facts.sources = verifier[v].facts.sources /\ facts.purge = verifier[v].facts.purge
<1>1. verifier[v].at = 4 /\ Untouched /\ captures' = captures
  BY Steps DEF C!ReadEventsAndAlerts, Untouched
<1>2. verifier[v].facts \in Facts
  BY <1>1, FactsOf
<1>3. PICK readable \in BOOLEAN :
        C!Found(v, [verifier[v].facts EXCEPT !.events = readable /\ log.anchored = log.events,
                                            !.incident = readable => incidents # {}])
  BY DEF C!ReadEventsAndAlerts
<1> DEFINE covered == readable /\ log.anchored = log.events
           seen == readable => incidents # {}
           facts == [[verifier[v].facts EXCEPT !.events = covered] EXCEPT !.incident = seen]
<1>4. covered \in BOOLEAN /\ seen \in BOOLEAN /\ (~seen => incidents = {})
  OBVIOUS
<1>5. C!Found(v, facts)
  BY <1>3
<1> HIDE DEF covered, seen
<1>6. /\ facts \in Facts /\ facts.incident = seen
      /\ facts.sources = verifier[v].facts.sources /\ facts.purge = verifier[v].facts.purge
  BY <1>2, <1>4 DEF Facts
<1>7. QED
  BY <1>1, <1>4, <1>5, <1>6

\* What the actions do to the rest of the state, in one place.
StopOrLog == C!StopSession \/ C!LogEvent \/ C!Anchor
AttemptStep(n) ==
  C!Capture(n) \/ C!RemoveCapture(n) \/ C!Raise(n) \/ \E outcome \in {"useful", "failed"} : C!CloseAttempt(n, outcome)

LEMMA ClosureSteps ==
  ASSUME C!ClosureNext
  PROVE  \/ StopOrLog
         \/ \E lane \in Lanes, profile \in {Profile, "other"} : C!Reserve(lane, profile)
         \/ \E n \in DOMAIN attempts : AttemptStep(n)
         \/ \E v \in Verifiers : \/ \E r \in C!Verified(Reports) : C!BeginClosure(v, r)
                                \/ C!SummariseAttempts(v) \/ C!Recover(v) \/ C!ReadCaptures(v)
                                \/ C!ReadEventsAndAlerts(v) \/ C!RecordClosure(v)
BY DEF C!ClosureNext, StopOrLog, AttemptStep

\* An attempt reserved or closed, a capture and an incident keep the types.
LEMMA AttemptsTyped ==
  ASSUME ClosureTypeOK,
         \/ \E lane \in Lanes, profile \in {Profile, "other"} : C!Reserve(lane, profile)
         \/ \E n \in DOMAIN attempts : AttemptStep(n)
  PROVE  ClosureTypeOK' /\ verifier' = verifier /\ session' = session
<1>1. /\ attempts \in Seq(LaneAttempt) /\ DOMAIN attempts = 1..Len(attempts) /\ Len(attempts) \in Nat
      /\ captures \in [DOMAIN captures -> {"pending", "committed", "removed"}] /\ DOMAIN captures \subseteq DOMAIN attempts
      /\ incidents \subseteq DOMAIN attempts
  BY DEF ClosureTypeOK
<1>2. ASSUME NEW lane \in Lanes, NEW profile \in {Profile, "other"}, C!Reserve(lane, profile)
      PROVE  ClosureTypeOK' /\ verifier' = verifier /\ session' = session
  <2> DEFINE r == [lane |-> lane, profile |-> profile, outcome |-> None]
  <2>1. r \in LaneAttempt
    BY <1>2 DEF LaneAttempt
  <2>2. attempts' = Append(attempts, r) /\ UNCHANGED <<session, captures, incidents, log, verifier>>
    BY <1>2 DEF C!Reserve
  <2> HIDE DEF r
  <2>3. attempts' \in Seq(LaneAttempt) /\ DOMAIN attempts' = 1..(Len(attempts) + 1)
    BY <1>1, <2>1, <2>2
  <2>4. QED
    BY <1>1, <2>2, <2>3 DEF ClosureTypeOK
<1>3. ASSUME NEW n \in DOMAIN attempts, C!Capture(n)
      PROVE  ClosureTypeOK' /\ verifier' = verifier /\ session' = session
  <2>1. UNCHANGED <<session, attempts, incidents, log, verifier>>
    BY <1>3 DEF C!Capture
  <2>2. /\ captures' \in [DOMAIN captures' -> {"pending", "committed", "removed"}]
        /\ DOMAIN captures' \subseteq DOMAIN attempts
    <3>1. CASE captures' = [m \in DOMAIN captures \cup {n} |-> IF m = n THEN "pending" ELSE captures[m]]
      BY <1>1, <3>1
    <3>2. CASE n \in DOMAIN captures /\ captures' = [captures EXCEPT ![n] = "committed"]
      BY <1>1, <3>2
    <3>3. QED
      BY <1>3, <3>1, <3>2 DEF C!Capture
  <2>3. QED
    BY <2>1, <2>2 DEF ClosureTypeOK
<1>4. ASSUME NEW n \in DOMAIN attempts, C!RemoveCapture(n)
      PROVE  ClosureTypeOK' /\ verifier' = verifier /\ session' = session
  <2>1. UNCHANGED <<session, attempts, incidents, log, verifier>> /\ n \in DOMAIN captures
        /\ captures' = [captures EXCEPT ![n] = "removed"]
    BY <1>4 DEF C!RemoveCapture
  <2>2. QED
    BY <1>1, <2>1 DEF ClosureTypeOK
<1>5. ASSUME NEW n \in DOMAIN attempts, C!Raise(n)
      PROVE  ClosureTypeOK' /\ verifier' = verifier /\ session' = session
  BY <1>5 DEF C!Raise, ClosureTypeOK
<1>6. ASSUME NEW n \in DOMAIN attempts, NEW outcome \in {"useful", "failed"}, C!CloseAttempt(n, outcome)
      PROVE  ClosureTypeOK' /\ verifier' = verifier /\ session' = session
  <2>1. UNCHANGED <<session, captures, incidents, log, verifier>>
        /\ attempts' = [attempts EXCEPT ![n] = [attempts[n] EXCEPT !.outcome = outcome]]
    BY <1>6 DEF C!CloseAttempt
  <2>2. attempts[n] \in LaneAttempt
    BY <1>1, <1>6
  <2>3. [attempts[n] EXCEPT !.outcome = outcome] \in LaneAttempt
    BY <1>6, <2>2 DEF LaneAttempt
  <2>4. attempts' \in Seq(LaneAttempt) /\ DOMAIN attempts' = DOMAIN attempts
    BY <1>1, <2>1, <2>3
  <2>5. QED
    BY <2>1, <2>4 DEF ClosureTypeOK
<1>7. QED
  BY <1>2, <1>3, <1>4, <1>5, <1>6 DEF AttemptStep

\* So do the steps of the verifiers.
LEMMA ClosureTyped == ClosureTypeOK /\ [C!ClosureNext]_C!closureVars => ClosureTypeOK'
<1> SUFFICES ASSUME ClosureTypeOK, [C!ClosureNext]_C!closureVars PROVE ClosureTypeOK'
  OBVIOUS
<1>1. CASE StopOrLog
  BY <1>1 DEF ClosureTypeOK, StopOrLog, C!StopSession, C!LogEvent, C!Anchor
<1>2. ASSUME NEW v \in Verifiers, NEW facts \in Facts, verifier[v].at \in 1..4, C!Found(v, facts), Untouched, captures' = captures
      PROVE  ClosureTypeOK'
  BY <1>2, FoundTyped DEF ClosureTypeOK, Untouched
<1>3. ASSUME NEW v \in Verifiers, NEW r \in C!Verified(Reports), C!BeginClosure(v, r)
      PROVE  ClosureTypeOK'
  <2>1. [at |-> 1, facts |-> C!NoFacts] \in Closing
    BY DEF Closing, Facts, C!NoFacts
  <2>2. QED
    BY <1>3, <2>1 DEF ClosureTypeOK, C!BeginClosure
<1>4. ASSUME NEW v \in Verifiers, C!Recover(v) PROVE ClosureTypeOK'
  <2>1. verifier[v].at = 2 /\ Untouched /\ C!Found(v, verifier[v].facts)
        /\ captures' = [n \in DOMAIN captures |-> C!Recovered(captures[n])]
    BY <1>4, Steps DEF C!Recover, Untouched
  <2>2. \A n \in DOMAIN captures : C!Recovered(captures[n]) \in {"pending", "committed", "removed"}
    BY DEF C!Recovered, ClosureTypeOK
  <2>3. verifier' \in [Verifiers -> Closing \cup {C!Idle}]
    <3>1. verifier[v].at \in 1..4 /\ verifier[v].at \in 1..5
      BY <2>1
    <3>2. verifier[v].facts \in Facts
      BY <1>4, <3>1, FactsOf
    <3>3. QED
      BY <1>4, <2>1, <3>1, <3>2, FoundTyped
  <2>4. QED
    BY <2>1, <2>2, <2>3 DEF ClosureTypeOK, Untouched
<1>5. ASSUME NEW v \in Verifiers, C!RecordClosure(v) PROVE ClosureTypeOK'
  BY <1>5 DEF ClosureTypeOK, C!RecordClosure
<1>6. CASE UNCHANGED C!closureVars
  BY <1>6 DEF ClosureTypeOK, C!closureVars
<1>7. QED
  BY <1>1, <1>2, <1>3, <1>4, <1>5, <1>6, AttemptsTyped, ClosureSteps, SummaryFinds, CapturesFind, AlertsFind

\* Once nothing is open, and the session runs no more, nothing comes later.
LEMMA ClosedStays ==
  ASSUME ClosureTypeOK, session # "running", C!ClosureNext
  PROVE  /\ session' # "running"
         /\ SourcesClosed => /\ SourcesClosed'
                             /\ AllRemoved => AllRemoved'
                             /\ incidents = {} => incidents' = {}
<1>1. CASE StopOrLog
  BY <1>1 DEF StopOrLog, C!StopSession, C!LogEvent, C!Anchor, SourcesClosed, AllRemoved, C!Open
<1>2. ASSUME NEW lane \in Lanes, NEW profile \in {Profile, "other"}, C!Reserve(lane, profile) PROVE FALSE
  BY <1>2 DEF C!Reserve
<1>3. ASSUME NEW n \in DOMAIN attempts, AttemptStep(n)
      PROVE  /\ session' = session
             /\ SourcesClosed => C!RemoveCapture(n)
  <2>1. session' = session
    BY <1>3, AttemptsTyped
  <2>2. QED
    BY <1>3, <2>1 DEF AttemptStep, SourcesClosed, C!Capture, C!Raise, C!CloseAttempt
<1>4. ASSUME NEW n \in DOMAIN attempts, C!RemoveCapture(n)
      PROVE  UNCHANGED <<attempts, incidents>> /\ (AllRemoved => AllRemoved')
  BY <1>4 DEF C!RemoveCapture, AllRemoved, ClosureTypeOK
<1>5. ASSUME UNCHANGED <<attempts, incidents>>, AllRemoved => AllRemoved', session' # "running"
      PROVE  /\ session' # "running"
             /\ SourcesClosed => /\ SourcesClosed'
                                 /\ AllRemoved => AllRemoved'
                                 /\ incidents = {} => incidents' = {}
  BY <1>5 DEF SourcesClosed, C!Open
<1>6. ASSUME NEW v \in Verifiers,
             \/ \E r \in C!Verified(Reports) : C!BeginClosure(v, r)
             \/ C!SummariseAttempts(v) \/ C!ReadCaptures(v) \/ C!ReadEventsAndAlerts(v) \/ C!RecordClosure(v)
      PROVE  UNCHANGED <<attempts, captures, incidents>> /\ session' # "running"
  BY <1>6 DEF C!BeginClosure, C!SummariseAttempts, C!ReadCaptures, C!ReadEventsAndAlerts, C!RecordClosure
<1>7. ASSUME NEW v \in Verifiers, C!Recover(v)
      PROVE  UNCHANGED <<session, attempts, incidents>> /\ (AllRemoved => AllRemoved')
  BY <1>7 DEF C!Recover, C!Recovered, AllRemoved, ClosureTypeOK
<1>8. QED
  BY <1>1, <1>2, <1>3, <1>4, <1>5, <1>6, <1>7, ClosureSteps DEF AllRemoved

\* A verdict, once recorded, goes on being so.
Verdict == session = "locally_verified" => SourcesClosed /\ AllRemoved /\ incidents = {}

LEMMA VerdictStays ==
  ASSUME ClosureTypeOK, Verdict, C!ClosureNext, session' = session PROVE Verdict'
BY ClosedStays DEF Verdict

\* While a verifier rests, what it has found goes on standing.
LEMMA FactsGoOn ==
  ASSUME ClosureTypeOK, session # "running", C!ClosureNext, NEW v \in Verifiers, FactsStand(verifier[v]), verifier'[v] = verifier[v]
  PROVE  FactsStand(verifier[v])'
BY ClosedStays DEF FactsStand

\* What a verifier adds to its facts stands too.
LEMMA FactsAreAdded ==
  ASSUME ClosureInv, NEW v \in Verifiers, NEW facts \in Facts, C!Found(v, facts),
         verifier[v].at \in 1..4, C!ClosureNext, session' = session,
         facts.sources => SourcesClosed,
         facts.sources /\ facts.purge => AllRemoved,
         facts.sources /\ ~facts.incident => incidents = {}
  PROVE  ClosureInv'
<1>1. ClosureTypeOK /\ ClosureTypeOK' /\ session # "running" /\ session' # "running"
  BY ClosureTyped, FactsOf DEF ClosureInv
<1>2. /\ verifier'[v] = [at |-> verifier[v].at + 1, facts |-> facts]
      /\ \A w \in Verifiers : w # v => verifier'[w] = verifier[w]
  BY <1>1, FoundTyped
<1>3. FactsStand(verifier[v])'
  <2>1. verifier'[v].at # 1 /\ verifier'[v].facts = facts
    BY <1>2
  <2>2. QED
    BY <1>1, <2>1, ClosedStays DEF FactsStand
<1>4. ASSUME NEW w \in Verifiers, w # v, verifier'[w] # C!Idle
      PROVE  FactsStand(verifier[w])'
  BY <1>1, <1>2, <1>4, FactsGoOn DEF ClosureInv
<1>5. Verdict'
  BY <1>1, VerdictStays DEF ClosureInv, Verdict
<1>6. QED
  BY <1>1, <1>3, <1>4, <1>5 DEF ClosureInv, Verdict, C!Idle

\* A verdict is recorded on facts that stand.
LEMMA RecordKeeps ==
  ASSUME ClosureInv, NEW v \in Verifiers, C!ClosureNext, C!RecordClosure(v) PROVE ClosureInv'
<1>1. ClosureTypeOK /\ ClosureTypeOK' /\ verifier[v].at = 5 /\ verifier[v] # C!Idle
  BY ClosureTyped, Steps, FactsOf DEF ClosureInv, C!RecordClosure
<1>2. session # "running" /\ session' # "running" /\ FactsStand(verifier[v])
  BY <1>1, ClosedStays DEF ClosureInv
<1>3. /\ verifier' = [verifier EXCEPT ![v] = C!Idle] /\ UNCHANGED <<attempts, captures, incidents, log>>
      /\ session' = IF session # "stopping" THEN session
                    ELSE IF C!LocalFailureReason(verifier[v].facts) = None THEN "locally_verified" ELSE "invalid"
  BY DEF C!RecordClosure
<1>4. Verdict'
  <2>1. CASE session' = session
    BY <1>1, <2>1, VerdictStays DEF ClosureInv, Verdict
  <2>2. CASE session' = "locally_verified" /\ session' # session
    <3>1. C!LocalFailureReason(verifier[v].facts) = None
      BY <1>3, <2>2
    <3>2. verifier[v].facts.sources /\ verifier[v].facts.purge /\ ~verifier[v].facts.incident
      BY <3>1, OutcomeAssumption DEF C!LocalFailureReason
    <3>3. SourcesClosed /\ AllRemoved /\ incidents = {}
      BY <1>2, <3>2 DEF FactsStand
    <3>4. QED
      BY <1>3, <3>3 DEF Verdict, SourcesClosed, AllRemoved, C!Open
  <2>3. CASE session' = "invalid"
    BY <2>3 DEF Verdict
  <2>4. QED
    BY <1>3, <2>1, <2>2, <2>3
<1>5. ASSUME NEW w \in Verifiers, verifier'[w] # C!Idle
      PROVE  FactsStand(verifier[w])'
  <2>1. verifier'[w] = verifier[w]
    BY <1>1, <1>3, <1>5 DEF ClosureTypeOK
  <2>2. QED
    BY <1>1, <1>2, <1>5, <2>1, FactsGoOn DEF ClosureInv
<1>6. QED
  BY <1>1, <1>2, <1>4, <1>5 DEF ClosureInv, Verdict

\* Every step keeps it.
LEMMA ClosureStays == ClosureInv /\ [C!ClosureNext]_C!closureVars => ClosureInv'
<1> SUFFICES ASSUME ClosureInv, [C!ClosureNext]_C!closureVars PROVE ClosureInv'
  OBVIOUS
<1>1. ClosureTypeOK /\ ClosureTypeOK' /\ Verdict
  BY ClosureTyped DEF ClosureInv, Verdict
<1>2. ASSUME C!ClosureNext, verifier' = verifier, session' = session PROVE ClosureInv'
  <2>1. Verdict'
    BY <1>1, <1>2, VerdictStays
  <2>2. ASSUME NEW w \in Verifiers, verifier'[w] # C!Idle
        PROVE  session' # "running" /\ FactsStand(verifier[w])'
    BY <1>1, <1>2, <2>2, FactsGoOn DEF ClosureInv
  <2>3. QED
    BY <1>1, <2>1, <2>2 DEF ClosureInv, Verdict
<1>3. ASSUME C!ClosureNext, StopOrLog PROVE ClosureInv'
  <2>1. CASE C!StopSession
    <3>1. /\ session = "running" /\ session' = "stopping" /\ verifier' = verifier
      BY <2>1 DEF C!StopSession
    <3>2. QED
      BY <1>1, <3>1 DEF ClosureInv
  <2>2. CASE C!LogEvent \/ C!Anchor
    BY <1>2, <1>3, <2>2 DEF C!LogEvent, C!Anchor
  <2>3. QED
    BY <1>3, <2>1, <2>2 DEF StopOrLog
<1>4. ASSUME C!ClosureNext, NEW v \in Verifiers, NEW r \in C!Verified(Reports), C!BeginClosure(v, r) PROVE ClosureInv'
  <2>1. /\ session = "stopping" /\ UNCHANGED <<session, attempts, captures, incidents, log>>
        /\ verifier' = [verifier EXCEPT ![v] = [at |-> 1, facts |-> C!NoFacts]]
    BY <1>4 DEF C!BeginClosure
  <2>2. FactsStand(verifier[v])' /\ session' # "running"
    BY <1>1, <2>1 DEF FactsStand, C!NoFacts, ClosureTypeOK
  <2>3. ASSUME NEW w \in Verifiers, w # v, verifier'[w] # C!Idle
        PROVE  FactsStand(verifier[w])'
    BY <1>1, <1>4, <2>1, <2>3, FactsGoOn DEF ClosureInv, ClosureTypeOK
  <2>4. Verdict'
    BY <2>1 DEF Verdict
  <2>5. QED
    BY <1>1, <2>2, <2>3, <2>4 DEF ClosureInv, Verdict
<1>5. ASSUME C!ClosureNext, NEW v \in Verifiers, C!SummariseAttempts(v) PROVE ClosureInv'
  <2>1. verifier[v].at = 1 /\ session' = session
    BY <1>1, <1>5, SummaryFinds DEF Untouched
  <2>2. ~verifier[v].facts.purge /\ verifier[v].facts.incident
    BY <1>1, <2>1, FactsOf DEF ClosureInv, FactsStand
  <2>3. PICK facts \in Facts : /\ C!Found(v, facts) /\ (facts.sources => SourcesClosed)
                              /\ facts.purge = verifier[v].facts.purge /\ facts.incident = verifier[v].facts.incident
    BY <1>1, <1>5, SummaryFinds
  <2>4. ~facts.purge /\ facts.incident /\ verifier[v].at \in 1..4
    BY <2>1, <2>2, <2>3
  <2>5. QED
    BY <1>5, <2>1, <2>3, <2>4, FactsAreAdded
<1>6. ASSUME C!ClosureNext, NEW v \in Verifiers, C!ReadCaptures(v) PROVE ClosureInv'
  <2>1. verifier[v].at = 3 /\ session' = session
    BY <1>1, <1>6, CapturesFind DEF Untouched
  <2>2. FactsStand(verifier[v])
    BY <1>1, <2>1, FactsOf DEF ClosureInv
  <2>3. PICK facts \in Facts : /\ C!Found(v, facts) /\ (facts.purge => AllRemoved)
                              /\ facts.sources = verifier[v].facts.sources /\ facts.incident = verifier[v].facts.incident
    BY <1>1, <1>6, CapturesFind
  <2>4. QED
    BY <1>6, <2>1, <2>2, <2>3, FactsAreAdded DEF FactsStand
<1>7. ASSUME C!ClosureNext, NEW v \in Verifiers, C!ReadEventsAndAlerts(v) PROVE ClosureInv'
  <2>1. verifier[v].at = 4 /\ session' = session
    BY <1>1, <1>7, AlertsFind DEF Untouched
  <2>2. FactsStand(verifier[v])
    BY <1>1, <2>1, FactsOf DEF ClosureInv
  <2>3. PICK facts \in Facts : /\ C!Found(v, facts) /\ (~facts.incident => incidents = {})
                              /\ facts.sources = verifier[v].facts.sources /\ facts.purge = verifier[v].facts.purge
    BY <1>1, <1>7, AlertsFind
  <2>4. QED
    BY <1>7, <2>1, <2>2, <2>3, FactsAreAdded DEF FactsStand
<1>8. ASSUME C!ClosureNext, NEW v \in Verifiers, C!Recover(v) PROVE ClosureInv'
  <2>1. verifier[v].at = 2 /\ session' = session /\ C!Found(v, verifier[v].facts)
    BY <1>1, <1>8, Steps DEF C!Recover
  <2>2. FactsStand(verifier[v]) /\ verifier[v].facts \in Facts
    BY <1>1, <2>1, FactsOf DEF ClosureInv
  <2>3. QED
    BY <1>8, <2>1, <2>2, FactsAreAdded DEF FactsStand
<1>9. CASE UNCHANGED C!closureVars
  BY <1>1, <1>9 DEF ClosureInv, C!closureVars, FactsStand, SourcesClosed, AllRemoved, C!Open
<1>10. ASSUME C!ClosureNext,
              \/ \E lane \in Lanes, profile \in {Profile, "other"} : C!Reserve(lane, profile)
              \/ \E n \in DOMAIN attempts : AttemptStep(n)
       PROVE  ClosureInv'
  BY <1>1, <1>2, <1>10, AttemptsTyped
<1>11. QED
  BY <1>3, <1>4, <1>5, <1>6, <1>7, <1>8, <1>9, <1>10, RecordKeeps, ClosureSteps

\* A session that is recorded as locally verified has nothing left, for any lanes, any
\* number of verifiers and attempts, and whatever the reports: verifyAndRecordLocalClosure.
THEOREM ClosureLeavesNothing == C!ClosureSpec => []ClosedMeansNothingLeft
<1>1. C!ClosureInit => ClosureInv
  <2> SUFFICES ASSUME C!ClosureInit PROVE ClosureInv
    OBVIOUS
  <2>1. /\ session = "running" /\ attempts = <<>> /\ captures = <<>> /\ incidents = {}
        /\ verifier = [v \in Verifiers |-> C!Idle]
    BY DEF C!ClosureInit
  <2>2. attempts \in Seq(LaneAttempt) /\ DOMAIN captures = {} /\ DOMAIN attempts = {}
    BY <2>1
  <2>3. QED
    BY <2>1, <2>2 DEF ClosureInv, ClosureTypeOK
<1>2. ClosureInv => ClosedMeansNothingLeft
  BY DEF ClosureInv, SourcesClosed, AllRemoved, ClosedMeansNothingLeft, C!ClosedMeansNothingLeft
<1>3. QED
  BY <1>1, <1>2, ClosureStays, PTL DEF C!ClosureSpec

=============================================================================
