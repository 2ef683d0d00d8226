---------------------------- MODULE OperationsProofs ----------------------------
(***************************************************************************)
(* Theorems about AttemptLedger, CursorLineage and AlertOutbox, for every  *)
(* set of budgets, attempts, authorizations, advances, receipts and        *)
(* deliveries and every bound: attempts stay readable and are sent at most *)
(* once, no budget is overdrawn, the lineage implements a compare-and-swap *)
(* register, a cursor moves only on a complete chain of evidence, what the *)
(* store verifies before each transaction holds after each, a destroyed    *)
(* cursor is gone when the call that destroyed it returns; and the alert   *)
(* outbox passes its own verification and sends again only what failed.    *)
(***************************************************************************)
EXTENDS MCOperations, SequenceTheorems, FiniteSetTheorems, WellFoundedInduction, TLAPS

USE BoundsAssumption, AmountsAssumption, LimitsAssumption, NoneAssumption, NoRowAssumption
USE DEF Times

-----------------------------------------------------------------------------
(* Attempts.  The authorizations in memory are part of the invariant: an    *)
(* attempt is dated when it is dispatched by what its authorization says.   *)

AuthsAgree ==
  \A u \in Auths : auths[u] # None =>
    LET a == auths[u].attempt IN
    /\ attempts[a] # None
    /\ auths[u].issuedAt >= attempts[a].createdAt
    /\ auths[u].issuedAt < attempts[a].expiresAt

SendsAgree ==
  \A a \in Attempts :
    /\ sends[a] \in {0, 1}
    /\ (sends[a] = 1) <=> (attempts[a] # None /\ attempts[a].dispatchedAt # None)

AttemptInv == AttemptTypeOK /\ DatesAgree /\ AuthsAgree /\ SendsAgree

\* An empty ledger satisfies the invariant.
LEMMA AttemptInitially == AttemptInit => AttemptInv
  BY DEF AttemptInit, AttemptInv, AttemptTypeOK, BudgetRowSound, AttemptRowSound, DatesAgree, AttemptFitsBudget, AuthsAgree, SendsAgree

\* A new budget disturbs no row: no attempt names it yet.
LEMMA CreateBudgetKeeps ==
  ASSUME AttemptInv, NEW b \in Budgets, NEW limit \in Limits,
         NEW starts \in Times, NEW ends \in Times, NEW t \in Times,
         CreateBudget(b, limit, starts, ends, t)
  PROVE  AttemptInv'
<1> DEFINE row == [startsAt |-> starts, endsAt |-> ends, createdAt |-> t,
                   maxAtomic |-> limit.maxAtomic, maxAttempts |-> limit.maxAttempts]
<1>1. row \in BudgetRow
  BY DEF BudgetRow
<1>2. AttemptTypeOK'
  BY <1>1 DEF AttemptInv, AttemptTypeOK, BudgetRowSound, AttemptRowSound, CreateBudget
<1>3. DatesAgree'
  BY DEF AttemptInv, DatesAgree, AttemptFitsBudget, AttemptTypeOK, BudgetRowSound, AttemptRowSound, AttemptRow, CreateBudget
<1>4. (AuthsAgree /\ SendsAgree)'
  BY DEF AttemptInv, AuthsAgree, SendsAgree, CreateBudget
<1>5. QED
  BY <1>2, <1>3, <1>4 DEF AttemptInv

\* A reservation lies in the window of its budget, and no authorization is for it yet.
LEMMA ReserveKeeps ==
  ASSUME AttemptInv, NEW a \in Attempts, NEW b \in Budgets, NEW amount \in Amounts,
         NEW created \in Times, NEW expires \in Times,
         ReserveAttempt(a, b, amount, created, expires)
  PROVE  AttemptInv'
<1> DEFINE row == [budget |-> b, amount |-> amount, createdAt |-> created,
                   expiresAt |-> expires, state |-> "reserved",
                   dispatchedAt |-> None, closedAt |-> None, outcome |-> None]
<1>1. row \in AttemptRow /\ row # None
  BY DEF AttemptRow
<1>2. attempts' = [attempts EXCEPT ![a] = row] /\ attempts[a] = None
  BY DEF ReserveAttempt
<1>3. AttemptTypeOK'
  BY <1>1, <1>2 DEF AttemptInv, AttemptTypeOK, BudgetRowSound, AttemptRowSound, ReserveAttempt
<1>4. DatesAgree'
  BY <1>1, <1>2 DEF AttemptInv, DatesAgree, AttemptFitsBudget, AttemptTypeOK, BudgetRowSound, AttemptRowSound, ReserveAttempt, InWindow,
                    BudgetRow
<1>5. AuthsAgree'
  BY <1>2 DEF AttemptInv, AttemptTypeOK, BudgetRowSound, AttemptRowSound, AuthsAgree, ReserveAttempt, Authorization
<1>6. SendsAgree'
  BY <1>1, <1>2 DEF AttemptInv, AttemptTypeOK, BudgetRowSound, AttemptRowSound, SendsAgree, ReserveAttempt
<1>7. QED
  BY <1>3, <1>4, <1>5, <1>6 DEF AttemptInv

\* An authorization is issued within the life of the reservation it is for.
LEMMA AuthorizeKeeps ==
  ASSUME AttemptInv, NEW u \in Auths, NEW a \in Attempts, NEW wall \in Times,
         CreateAuthorization(u, a, wall)
  PROVE  AttemptInv'
<1> DEFINE auth == [attempt |-> a, issuedAt |-> wall, issuedElapsed |-> elapsed,
                    expiresElapsed |-> elapsed + (attempts[a].expiresAt - wall)]
<1>1. attempts[a] \in AttemptRow
  BY DEF AttemptInv, AttemptTypeOK, BudgetRowSound, AttemptRowSound, CreateAuthorization, Reserved
<1>2. auth \in Authorization
  BY <1>1 DEF Authorization, AttemptRow, AttemptInv, AttemptTypeOK, BudgetRowSound, AttemptRowSound, CreateAuthorization
<1>3. auths' = [auths EXCEPT ![u] = auth]
  BY DEF CreateAuthorization
<1>4. AttemptTypeOK'
  BY <1>2, <1>3 DEF AttemptInv, AttemptTypeOK, BudgetRowSound, AttemptRowSound, CreateAuthorization
<1>5. (DatesAgree /\ SendsAgree)'
  BY DEF AttemptInv, DatesAgree, AttemptFitsBudget, SendsAgree, CreateAuthorization
<1>6. AuthsAgree'
  BY <1>3 DEF AttemptInv, AttemptTypeOK, BudgetRowSound, AttemptRowSound, AuthsAgree, CreateAuthorization, Reserved
<1>7. QED
  BY <1>4, <1>5, <1>6 DEF AttemptInv

\* A dispatch is dated no earlier than its authorization and before it expires,
\* wherever the wall clock stands.
LEMMA ConsumeKeeps ==
  ASSUME AttemptInv, NEW u \in Auths, NEW wall \in Times, Consume(u, wall)
  PROVE  AttemptInv'
<1> DEFINE a == auths[u].attempt
           at == DispatchTime(u, wall)
           row == [attempts[a] EXCEPT !.state = "dispatched", !.dispatchedAt = at]
<1>1. auths[u] \in Authorization /\ a \in Attempts /\ auths[u].issuedAt \in Nat
  BY DEF AttemptInv, AttemptTypeOK, BudgetRowSound, AttemptRowSound, Consume, Authorization
<1>2. attempts[a] \in AttemptRow /\ attempts[a] # None /\ attempts[a].state = "reserved"
      /\ wall < attempts[a].expiresAt
  BY <1>1 DEF AttemptInv, AttemptTypeOK, BudgetRowSound, AttemptRowSound, Consume, Consumable, Reserved
<1>3. attempts[a].dispatchedAt = None /\ attempts[a].closedAt = None
  BY <1>1, <1>2 DEF AttemptInv, AttemptTypeOK, BudgetRowSound, AttemptRowSound
<1>4. at \in Nat /\ at >= attempts[a].createdAt /\ at < attempts[a].expiresAt
  BY <1>1, <1>2 DEF AttemptInv, AuthsAgree, Consume, DispatchTime, AttemptRow
<1>5. attempts' = [attempts EXCEPT ![a] = row] /\ sends' = [sends EXCEPT ![a] = @ + 1]
      /\ auths' = [auths EXCEPT ![u] = None] /\ UNCHANGED <<budgets, elapsed>>
  BY <1>1, <1>2 DEF Consume, AttemptInv, AttemptTypeOK, BudgetRowSound, AttemptRowSound
<1>6. row \in AttemptRow /\ row # None /\ at # None
  BY <1>2, <1>4 DEF AttemptRow
<1>7. /\ row.budget = attempts[a].budget /\ row.createdAt = attempts[a].createdAt
      /\ row.expiresAt = attempts[a].expiresAt /\ row.closedAt = attempts[a].closedAt
      /\ row.outcome = attempts[a].outcome /\ row.state = "dispatched"
      /\ row.dispatchedAt = at
  BY <1>2 DEF AttemptRow
<1> HIDE DEF row, at
<1>8. AttemptTypeOK'
  BY <1>1, <1>2, <1>3, <1>5, <1>6, <1>7 DEF AttemptInv, AttemptTypeOK, BudgetRowSound, AttemptRowSound
<1>9. DatesAgree'
  <2> SUFFICES ASSUME NEW c \in Attempts, attempts'[c] # None
               PROVE  DatesAgree!(c)'
    BY DEF DatesAgree, AttemptFitsBudget
  <2> QED
    BY <1>1, <1>2, <1>3, <1>4, <1>5, <1>6, <1>7
    DEF AttemptInv, DatesAgree, AttemptFitsBudget, AttemptTypeOK, BudgetRowSound, AttemptRowSound, AttemptRow, BudgetRow
<1>10. AuthsAgree'
  BY <1>1, <1>2, <1>5, <1>6, <1>7 DEF AttemptInv, AuthsAgree, AttemptTypeOK, BudgetRowSound, AttemptRowSound, Authorization
<1>11. SendsAgree'
  BY <1>1, <1>2, <1>3, <1>5, <1>6, <1>7 DEF AttemptInv, SendsAgree, AttemptTypeOK, BudgetRowSound, AttemptRowSound
<1>12. QED
  BY <1>8, <1>9, <1>10, <1>11 DEF AttemptInv

\* A refused authorization is gone; nothing else changes.
LEMMA RefuseKeeps ==
  ASSUME AttemptInv, NEW u \in Auths, NEW wall \in Times, RefuseConsumption(u, wall)
  PROVE  AttemptInv'
  BY DEF AttemptInv, AttemptTypeOK, BudgetRowSound, AttemptRowSound, DatesAgree, AttemptFitsBudget, AuthsAgree, SendsAgree, RefuseConsumption

\* What closing an attempt does to its row.
LEMMA ClosedRow ==
  ASSUME AttemptInv, NEW a \in Attempts, Open(a), NEW t \in Nat, NEW outcome \in Outcomes
  PROVE  /\ Closed(a, t, outcome) \in AttemptRow
         /\ Closed(a, t, outcome).state = "closed"
         /\ Closed(a, t, outcome).closedAt = t
         /\ Closed(a, t, outcome).outcome = outcome
         /\ \A f \in {"budget", "amount", "createdAt", "expiresAt", "dispatchedAt"} :
              Closed(a, t, outcome)[f] = attempts[a][f]
<1>1. attempts[a] \in AttemptRow
  BY DEF AttemptInv, AttemptTypeOK, BudgetRowSound, AttemptRowSound, Open
<1>2. QED
  BY <1>1 DEF AttemptRow, Closed

\* A close is dated no earlier than what it closes.
LEMMA CloseKeeps ==
  ASSUME AttemptInv, NEW a \in Attempts, NEW t \in Times, NEW outcome \in Outcomes,
         CloseAttempt(a, t, outcome)
  PROVE  AttemptInv'
<1> DEFINE row == Closed(a, t, outcome)
<1>1. Open(a) /\ attempts[a] # None /\ attempts[a] \in AttemptRow
  BY DEF CloseAttempt, Closable, Open, AttemptInv, AttemptTypeOK, BudgetRowSound, AttemptRowSound
<1>2. /\ row \in AttemptRow /\ row # None /\ row.state = "closed"
      /\ row.closedAt = t /\ row.outcome = outcome /\ t # None /\ outcome # None
      /\ row.budget = attempts[a].budget /\ row.createdAt = attempts[a].createdAt
      /\ row.expiresAt = attempts[a].expiresAt
      /\ row.dispatchedAt = attempts[a].dispatchedAt
  BY <1>1, ClosedRow
<1>3. attempts' = [attempts EXCEPT ![a] = row] /\ UNCHANGED <<budgets, auths, elapsed, sends>>
  BY DEF CloseAttempt
<1>4. t >= IF attempts[a].dispatchedAt # None THEN attempts[a].dispatchedAt
                                            ELSE attempts[a].createdAt
  BY DEF CloseAttempt, Closable
<1> HIDE DEF row
<1>5. AttemptTypeOK'
  BY <1>1, <1>2, <1>3 DEF AttemptInv, AttemptTypeOK, BudgetRowSound, AttemptRowSound
<1>6. DatesAgree'
  <2> SUFFICES ASSUME NEW c \in Attempts, attempts'[c] # None
               PROVE  DatesAgree!(c)'
    BY DEF DatesAgree, AttemptFitsBudget
  <2> QED
    BY <1>1, <1>2, <1>3, <1>4
    DEF AttemptInv, DatesAgree, AttemptFitsBudget, AttemptTypeOK, BudgetRowSound, AttemptRowSound, AttemptRow, BudgetRow
<1>7. (AuthsAgree /\ SendsAgree)'
  BY <1>1, <1>2, <1>3 DEF AttemptInv, AuthsAgree, SendsAgree, AttemptTypeOK, BudgetRowSound, AttemptRowSound, Authorization
<1>8. QED
  BY <1>5, <1>6, <1>7 DEF AttemptInv

\* Recovery closes what expired, which is after it was dispatched.
LEMMA RecoverKeeps ==
  ASSUME AttemptInv, NEW t \in Times, RecoverExpiredAttempts(t)
  PROVE  AttemptInv'
<1> DEFINE Expired(c) == Open(c) /\ attempts[c].expiresAt <= t
<1>1. UNCHANGED <<budgets, auths, elapsed, sends>>
  BY DEF RecoverExpiredAttempts
<1>2. attempts' = [c \in Attempts |-> IF Expired(c) THEN Closed(c, t, "aborted") ELSE attempts[c]]
  BY DEF RecoverExpiredAttempts
<1>3. ASSUME NEW c \in Attempts, Expired(c)
      PROVE  /\ attempts'[c] \in AttemptRow /\ attempts'[c] # None
             /\ attempts[c] # None /\ attempts[c] \in AttemptRow
             /\ attempts'[c].state = "closed" /\ attempts'[c].closedAt = t
             /\ attempts'[c].outcome = "aborted" /\ t # None /\ "aborted" # None
             /\ attempts'[c].budget = attempts[c].budget
             /\ attempts'[c].createdAt = attempts[c].createdAt
             /\ attempts'[c].expiresAt = attempts[c].expiresAt
             /\ attempts'[c].dispatchedAt = attempts[c].dispatchedAt
  <2>1. attempts'[c] = Closed(c, t, "aborted") /\ attempts[c] # None /\ attempts[c] \in AttemptRow
    BY <1>2, <1>3 DEF Open, AttemptInv, AttemptTypeOK, BudgetRowSound, AttemptRowSound
  <2>2. QED
    BY <2>1, <1>3, ClosedRow DEF Outcomes
<1>4. ASSUME NEW c \in Attempts, ~Expired(c)
      PROVE  attempts'[c] = attempts[c]
  BY <1>2, <1>4
<1>5. attempts' \in [Attempts -> AttemptRow \cup {None}]
  <2>1. ASSUME NEW c \in Attempts PROVE attempts'[c] \in AttemptRow \cup {None}
    BY <1>3, <1>4 DEF AttemptInv, AttemptTypeOK, BudgetRowSound, AttemptRowSound
  <2>2. QED
    BY <2>1, <1>2
<1> HIDE DEF Expired
<1>6. AttemptTypeOK'
  BY <1>1, <1>3, <1>4, <1>5 DEF AttemptInv, AttemptTypeOK, BudgetRowSound, AttemptRowSound
<1>7. DatesAgree'
  <2> SUFFICES ASSUME NEW c \in Attempts, attempts'[c] # None
               PROVE  DatesAgree!(c)'
    BY DEF DatesAgree, AttemptFitsBudget
  <2>1. CASE ~Expired(c)
    BY <1>1, <1>4, <2>1 DEF AttemptInv, DatesAgree, AttemptFitsBudget
  <2>2. CASE Expired(c)
    BY <1>1, <1>3, <2>2
    DEF AttemptInv, DatesAgree, AttemptFitsBudget, AttemptTypeOK, BudgetRowSound, AttemptRowSound, AttemptRow, BudgetRow, Expired
  <2>3. QED
    BY <2>1, <2>2
<1>8. (AuthsAgree /\ SendsAgree)'
  BY <1>1, <1>3, <1>4 DEF AttemptInv, AuthsAgree, SendsAgree, AttemptTypeOK, BudgetRowSound, AttemptRowSound, Authorization
<1>9. QED
  BY <1>6, <1>7, <1>8 DEF AttemptInv

\* Every step of the ledger keeps the invariant.
LEMMA AttemptStepKeeps == AttemptInv /\ [AttemptNext]_attemptVars => AttemptInv'
<1> SUFFICES ASSUME AttemptInv, [AttemptNext]_attemptVars PROVE AttemptInv'
  OBVIOUS
<1>1. ASSUME NEW b \in Budgets, NEW limit \in Limits, NEW starts \in Times, NEW ends \in Times,
             NEW t \in Times, CreateBudget(b, limit, starts, ends, t)
      PROVE  AttemptInv'
  BY <1>1, CreateBudgetKeeps
<1>2. ASSUME NEW a \in Attempts, NEW b \in Budgets, NEW amount \in Amounts,
             NEW created \in Times, NEW expires \in Times,
             ReserveAttempt(a, b, amount, created, expires)
      PROVE  AttemptInv'
  BY <1>2, ReserveKeeps
<1>3. ASSUME NEW u \in Auths, NEW a \in Attempts, NEW wall \in Times,
             CreateAuthorization(u, a, wall)
      PROVE  AttemptInv'
  BY <1>3, AuthorizeKeeps
<1>4. ASSUME NEW u \in Auths, NEW wall \in Times, Consume(u, wall)
      PROVE  AttemptInv'
  BY <1>4, ConsumeKeeps
<1>5. ASSUME NEW u \in Auths, NEW wall \in Times, RefuseConsumption(u, wall)
      PROVE  AttemptInv'
  BY <1>5, RefuseKeeps
<1>6. ASSUME NEW a \in Attempts, NEW t \in Times, NEW outcome \in Outcomes,
             CloseAttempt(a, t, outcome)
      PROVE  AttemptInv'
  BY <1>6, CloseKeeps
<1>7. ASSUME NEW t \in Times, RecoverExpiredAttempts(t)
      PROVE  AttemptInv'
  BY <1>7, RecoverKeeps
<1>8. CASE Tick
  BY <1>8 DEF AttemptInv, AttemptTypeOK, BudgetRowSound, AttemptRowSound, DatesAgree, AttemptFitsBudget, AuthsAgree, SendsAgree, Tick
<1>9. CASE UNCHANGED attemptVars
  BY <1>9 DEF AttemptInv, AttemptTypeOK, BudgetRowSound, AttemptRowSound, DatesAgree, AttemptFitsBudget, AuthsAgree, SendsAgree, attemptVars
<1>10. QED
  BY <1>1, <1>2, <1>3, <1>4, <1>5, <1>6, <1>7, <1>8, <1>9 DEF AttemptNext

\* The inductive invariant holds throughout.
THEOREM AttemptInvariant == AttemptSpec => []AttemptInv
  BY AttemptInitially, AttemptStepKeeps, PTL DEF AttemptSpec

\* Rows of budgets and attempts always have the shape the store demands of them.
THEOREM AttemptTypeCorrect == AttemptSpec => []AttemptTypeOK
<1>1. AttemptInv => AttemptTypeOK
  BY DEF AttemptInv
<1>2. QED
  BY <1>1, AttemptInvariant, PTL

\* No legal sequence of calls and clock readings leaves a row behind on which
\* verifyRelationalIntegrity would refuse every later transaction.
THEOREM AttemptsStayReadable == AttemptSpec => []AttemptIntegrity
<1>1. AttemptInv => AttemptIntegrity
  BY DEF AttemptInv, AttemptIntegrity
<1>2. QED
  BY <1>1, AttemptInvariant, PTL

\* A reservation is sent at most once, however many authorizations, store objects
\* and retries there are.
THEOREM NoSecondSend == AttemptSpec => []SentOnce
<1>1. AttemptInv => SentOnce
  BY DEF AttemptInv, SendsAgree, SentOnce
<1>2. QED
  BY <1>1, AttemptInvariant, PTL

\* Every operation leaves what a row reserved, when it was sent and how it was
\* closed as they are.
LEMMA StepsAreFinal ==
  ASSUME AttemptInv, [AttemptNext]_attemptVars, NEW a \in Attempts
  PROVE  FinalRow(a)
<1>1. CASE attempts' = attempts
  BY <1>1 DEF FinalRow
<1>2. ASSUME NEW c \in Attempts, NEW b \in Budgets, NEW amount \in Amounts,
             NEW created \in Times, NEW expires \in Times,
             ReserveAttempt(c, b, amount, created, expires)
      PROVE  FinalRow(a)
  BY <1>2 DEF FinalRow, ReserveAttempt, AttemptInv, AttemptTypeOK, BudgetRowSound, AttemptRowSound
<1>3. ASSUME NEW u \in Auths, NEW wall \in Times, Consume(u, wall)
      PROVE  FinalRow(a)
  <2>1. auths[u].attempt \in Attempts
    BY <1>3 DEF Consume, AttemptInv, AttemptTypeOK, BudgetRowSound, AttemptRowSound, Authorization
  <2>2. CASE a # auths[u].attempt
    BY <1>3, <2>1, <2>2 DEF FinalRow, Consume, AttemptInv, AttemptTypeOK, BudgetRowSound, AttemptRowSound
  <2>3. CASE a = auths[u].attempt
    <3>1. attempts[a] \in AttemptRow /\ attempts[a].state = "reserved"
          /\ attempts[a].dispatchedAt = None
      BY <1>3, <2>3 DEF Consume, Consumable, Reserved, AttemptInv, AttemptTypeOK, BudgetRowSound, AttemptRowSound
    <3>2. attempts'[a] = [attempts[a] EXCEPT !.state = "dispatched",
                                             !.dispatchedAt = DispatchTime(u, wall)]
      BY <1>3, <2>3 DEF Consume, AttemptInv, AttemptTypeOK, BudgetRowSound, AttemptRowSound
    <3>3. attempts'[a].state = "dispatched"
      BY <3>1, <3>2 DEF AttemptRow
    <3>4. attempts'[a] # None
      <4>1. AttemptInv'
        BY <1>3, ConsumeKeeps
      <4>2. sends[a] = 0
        BY <3>1 DEF AttemptInv, SendsAgree
      <4>3. sends'[a] = 1
        BY <1>3, <2>3, <4>2 DEF Consume, AttemptInv, AttemptTypeOK, BudgetRowSound, AttemptRowSound
      <4>4. QED
        BY <4>1, <4>3 DEF AttemptInv, SendsAgree
    <3>5. QED
      BY <3>1, <3>2, <3>4 DEF FinalRow, AttemptRow
  <2>4. QED
    BY <2>2, <2>3
<1>4. ASSUME NEW c \in Attempts, NEW t \in Times, NEW outcome \in Outcomes,
             CloseAttempt(c, t, outcome)
      PROVE  FinalRow(a)
  <2>1. Open(c)
    BY <1>4 DEF CloseAttempt, Closable
  <2>2. attempts'[a] = IF a = c THEN Closed(c, t, outcome) ELSE attempts[a]
    BY <1>4 DEF CloseAttempt, AttemptInv, AttemptTypeOK, BudgetRowSound, AttemptRowSound
  <2>3. QED
    BY <2>1, <2>2, ClosedRow DEF FinalRow, Open
<1>5. ASSUME NEW t \in Times, RecoverExpiredAttempts(t)
      PROVE  FinalRow(a)
  <2>1. attempts'[a] = IF Open(a) /\ attempts[a].expiresAt <= t
                       THEN Closed(a, t, "aborted") ELSE attempts[a]
    BY <1>5 DEF RecoverExpiredAttempts
  <2>2. QED
    BY <2>1, ClosedRow DEF FinalRow, Open, Outcomes
<1>6. QED
  BY <1>1, <1>2, <1>3, <1>4, <1>5
  DEF AttemptNext, attemptVars, CreateBudget, CreateAuthorization, RefuseConsumption, Tick

\* Reservations are permanent and outcomes final, for every number of attempts
\* and every interleaving.
THEOREM Finality == AttemptSpec => OutcomesAreFinal
<1>1. AttemptInv /\ [AttemptNext]_attemptVars => [\A a \in Attempts : FinalRow(a)]_attemptVars
  BY StepsAreFinal
<1>2. QED
  BY <1>1, AttemptInvariant, PTL DEF AttemptSpec, OutcomesAreFinal

-----------------------------------------------------------------------------
\* What an authorization holds of its reservation is what was read when it was issued: the
\* monotonic deadline is as far from the issue as the reservation's end was from the wall
\* clock then, and later steps move neither.
AuthsAreDated ==
  \A u \in Auths : auths[u] # None =>
    auths[u].expiresElapsed =
      auths[u].issuedElapsed + (attempts[auths[u].attempt].expiresAt - auths[u].issuedAt)

\* The deadlines of the authorizations in memory stay what they were issued with.
LEMMA AuthsStayDated ==
  ASSUME AttemptInv, AuthsAreDated, [AttemptNext]_attemptVars
  PROVE  AuthsAreDated'
<1> SUFFICES ASSUME NEW u \in Auths, auths'[u] # None
             PROVE  AuthsAreDated!(u)'
  BY DEF AuthsAreDated
<1>1. CASE auths[u] = None
  <2>1. PICK a \in Attempts, wall \in Times : CreateAuthorization(u, a, wall)
    BY <1>1
    DEF AttemptNext, attemptVars, CreateBudget, ReserveAttempt, CreateAuthorization, Consume,
        RefuseConsumption, CloseAttempt, RecoverExpiredAttempts, Tick, AttemptInv, AttemptTypeOK
  <2>2. auths'[u] = [attempt |-> a, issuedAt |-> wall, issuedElapsed |-> elapsed,
                     expiresElapsed |-> elapsed + (attempts[a].expiresAt - wall)]
        /\ attempts' = attempts
    BY <2>1 DEF CreateAuthorization, AttemptInv, AttemptTypeOK
  <2>3. QED
    BY <2>2
<1>2. CASE auths[u] # None
  <2>1. auths'[u] = auths[u]
    BY <1>2
    DEF AttemptNext, attemptVars, CreateBudget, ReserveAttempt, CreateAuthorization, Consume,
        RefuseConsumption, CloseAttempt, RecoverExpiredAttempts, Tick, AttemptInv, AttemptTypeOK
  <2>2. auths[u].attempt \in Attempts /\ attempts[auths[u].attempt] # None
    BY <1>2 DEF AttemptInv, AttemptTypeOK, AuthsAgree, Authorization
  <2>3. attempts'[auths[u].attempt].expiresAt = attempts[auths[u].attempt].expiresAt
    BY <2>2, StepsAreFinal DEF FinalRow
  <2>4. QED
    BY <1>2, <2>1, <2>3 DEF AuthsAreDated
<1>3. QED
  BY <1>1, <1>2

\* Only the consumption of an authorization sends, and it takes the authorization away.
LEMMA SendsConsume ==
  ASSUME AttemptInv, AuthsAreDated, [AttemptNext]_attemptVars,
         NEW a \in Attempts, sends'[a] # sends[a]
  PROVE  \E u \in Auths :
           /\ auths[u] # None /\ auths'[u] = None
           /\ auths[u].attempt = a
           /\ elapsed - auths[u].issuedElapsed < attempts[a].expiresAt - auths[u].issuedAt
<1>1. PICK u \in Auths, wall \in Times : Consume(u, wall)
  BY DEF AttemptNext, attemptVars, CreateBudget, ReserveAttempt, CreateAuthorization,
         RefuseConsumption, CloseAttempt, RecoverExpiredAttempts, Tick
<1>2. auths[u] \in Authorization /\ auths'[u] = None /\ auths[u].attempt = a
  BY <1>1 DEF Consume, AttemptInv, AttemptTypeOK, Authorization
<1>3. attempts[a] \in AttemptRow /\ elapsed \in Nat /\ elapsed < auths[u].expiresElapsed
  BY <1>1, <1>2 DEF Consume, Consumable, Reserved, AttemptInv, AttemptTypeOK
<1>4. auths[u] # None
      /\ auths[u].expiresElapsed = auths[u].issuedElapsed + (attempts[a].expiresAt - auths[u].issuedAt)
  BY <1>1, <1>2 DEF Consume, AuthsAreDated
<1>5. elapsed - auths[u].issuedElapsed < attempts[a].expiresAt - auths[u].issuedAt
  <2>1. /\ attempts[a].expiresAt \in Nat /\ auths[u].issuedAt \in Nat
        /\ auths[u].issuedElapsed \in Nat /\ auths[u].expiresElapsed \in Nat
    BY <1>2, <1>3 DEF AttemptRow, Authorization
  <2>2. QED
    BY <1>3, <1>4, <2>1
<1>6. QED
  BY <1>2, <1>4, <1>5

\* Turning the wall clock back prolongs no authorization, whatever the clocks
\* read: what is sent is sent within the time its authorization had left.
THEOREM LifetimeIsElapsed == AttemptSpec => SentInTime
<1>1. AttemptInit => AuthsAreDated
  BY DEF AttemptInit, AuthsAreDated
<1>2. AttemptInv /\ AuthsAreDated /\ [AttemptNext]_attemptVars => AuthsAreDated'
  BY AuthsStayDated
<1>3. AttemptInv /\ AuthsAreDated /\ [AttemptNext]_attemptVars
      => [\A a \in Attempts : sends'[a] # sends[a] =>
            \E u \in Auths :
              /\ auths[u] # None /\ auths'[u] = None
              /\ auths[u].attempt = a
              /\ elapsed - auths[u].issuedElapsed < attempts[a].expiresAt - auths[u].issuedAt
         ]_attemptVars
  BY SendsConsume
<1>4. QED
  BY <1>1, <1>2, <1>3, AttemptInvariant, PTL DEF AttemptSpec, SentInTime

-----------------------------------------------------------------------------
(* The rows of the lineage. *)

\* What the refinement needs of the rows.
RowsOK ==
  /\ head \in HeadRow \cup {None}
  /\ advances \in [Advances -> AdvanceRow \cup {None}]

\* The steps that leave head and advances alone.
Apart ==
  \/ Idle /\ AttemptNext /\ UNCHANGED cursorVars
  \/ \E x \in Advances, t \in Times : RepeatEnd(x, t)
  \/ StartHardening \/ Harden \/ ClearPending \/ HardeningFails
  \/ Crash \/ Reopen
  \/ UNCHANGED vars

\* Those steps leave rows and audit as they are.
LEMMA ApartKeepsRows == ASSUME Apart PROVE UNCHANGED <<head, advances, audit>>
  BY DEF Apart, RepeatEnd, StartHardening, Harden, ClearPending, HardeningFails, Crash, Reopen,
         vars, cursorVars

-----------------------------------------------------------------------------
(* The steps of an advance, as row updates. *)

\* What the five marking operations write: the base of the advance stays and its
\* state moves on by one.
Marks(x, row) ==
  /\ row \in AdvanceRow /\ row # None
  /\ Exists(x) /\ advances[x].state \in Live \ {"externally_verified"}
  /\ row.state \in Live
  /\ row.base = advances[x].base /\ row.attempt = advances[x].attempt
  /\ advances' = [advances EXCEPT ![x] = row]
  /\ UNCHANGED head

Marking(x, t) ==
  \/ MarkValidated(x, t)
  \/ \E n \in EventSequences : MarkEventPersisted(x, n, t)
  \/ \E c \in Checkpoints : MarkCheckpointed(x, c, t)
  \/ \E k \in Anchors : MarkAnchorPublished(x, k, t) \/ MarkExternallyVerified(x, k, t)

\* Each marking operation is such an update of the row.
LEMMA MarkingMarks ==
  ASSUME RowsOK, NEW x \in Advances, NEW t \in Times, Marking(x, t)
  PROVE  \E row : Marks(x, row)
<1>1. advances[x] \in AdvanceRow
  BY DEF RowsOK, Marking, MarkValidated, MarkEventPersisted, MarkCheckpointed,
         MarkAnchorPublished, MarkExternallyVerified, Transition, In, Exists
<1>2. CASE MarkValidated(x, t)
  <2> DEFINE row == [advances[x] EXCEPT !.state = "validated"]
  <2>1. Marks(x, row)
    BY <1>1, <1>2 DEF Marks, MarkValidated, Transition, In, Exists, AdvanceRow, Live
  <2>2. QED
    BY <2>1
<1>3. ASSUME NEW n \in EventSequences, MarkEventPersisted(x, n, t)
      PROVE  \E row : Marks(x, row)
  <2> DEFINE row == [advances[x] EXCEPT !.state = "event_persisted", !.event = n]
  <2>1. Marks(x, row)
    BY <1>1, <1>3 DEF Marks, MarkEventPersisted, Transition, In, Exists, AdvanceRow, Live
  <2>2. QED
    BY <2>1
<1>4. ASSUME NEW c \in Checkpoints, MarkCheckpointed(x, c, t)
      PROVE  \E row : Marks(x, row)
  <2> DEFINE row == [advances[x] EXCEPT !.state = "checkpointed", !.checkpoint = c]
  <2>1. Marks(x, row)
    BY <1>1, <1>4 DEF Marks, MarkCheckpointed, Transition, In, Exists, AdvanceRow, Live
  <2>2. QED
    BY <2>1
<1>5. ASSUME NEW k \in Anchors, MarkAnchorPublished(x, k, t)
      PROVE  \E row : Marks(x, row)
  <2> DEFINE row == [advances[x] EXCEPT !.state = "anchor_published", !.anchor = k]
  <2>1. Marks(x, row)
    BY <1>1, <1>5 DEF Marks, MarkAnchorPublished, Transition, In, Exists, AdvanceRow, Live
  <2>2. QED
    BY <2>1
<1>6. ASSUME NEW k \in Anchors, MarkExternallyVerified(x, k, t)
      PROVE  \E row : Marks(x, row)
  <2> DEFINE row == [advances[x] EXCEPT !.state = "externally_verified"]
  <2>1. Marks(x, row)
    BY <1>1, <1>6 DEF Marks, MarkExternallyVerified, Transition, In, Exists, AdvanceRow, Live
  <2>2. QED
    BY <2>1
<1>7. QED
  BY <1>2, <1>3, <1>4, <1>5, <1>6 DEF Marking

\* Every step is one of these.
LEMMA Steps ==
  ASSUME [Next]_vars
  PROVE  \/ Apart
         \/ \E t \in Times : InitializeLineage(t)
         \/ \E x \in Advances, a \in Attempts, t \in Times : Stage(x, a, t)
         \/ \E x \in Advances, t \in Times : Marking(x, t)
         \/ \E x \in Advances, t \in Times : CommitCursor(x, t)
         \/ \E x \in Advances, t \in Times : AbortCursorAdvance(x, t)
  BY DEF Next, AdvanceNext, Marking, Apart

-----------------------------------------------------------------------------
(* The register. *)

\* An empty lineage is a register that does not exist yet.
LEMMA RowsInitially == Init => RowsOK /\ Register!Init
  BY DEF Init, CursorInit, RowsOK, Register!Init, IsLive, Exists, In

\* Every step keeps the rows well formed and is a step of the register or none.
LEMMA RowsStep ==
  ASSUME RowsOK, [Next]_vars
  PROVE  RowsOK' /\ [Register!Next]_(Register!regVars)
<1>1. CASE Apart
  BY <1>1, ApartKeepsRows DEF RowsOK, Register!regVars, IsLive, Exists, In
<1>2. ASSUME NEW t \in Times, InitializeLineage(t)
      PROVE  RowsOK' /\ Register!Create
  BY <1>2 DEF RowsOK, InitializeLineage, HeadRow, Register!Create, IsLive, Exists, In
<1>3. ASSUME NEW x \in Advances, NEW a \in Attempts, NEW t \in Times, Stage(x, a, t)
      PROVE  RowsOK' /\ Register!Propose(x)
  <2> DEFINE row == [attempt |-> a, base |-> head.revision, state |-> "staged", stagedAt |-> t,
                     event |-> None, checkpoint |-> None, anchor |-> None]
  <2>1. head \in HeadRow /\ head # None /\ head.revision \in Nat /\ head.revision # None
    BY <1>3 DEF RowsOK, Stage, HeadRow
  <2>2. row \in AdvanceRow /\ row # None /\ row.state = "staged" /\ row.base = head.revision
    BY <2>1 DEF AdvanceRow, Live
  <2>3. advances[x] = None /\ advances' = [advances EXCEPT ![x] = row] /\ head' = head
    BY <1>3 DEF Stage, Exists
  <2> HIDE DEF row
  <2>4. RowsOK'
    BY <2>1, <2>2, <2>3 DEF RowsOK
  <2>5. /\ ~IsLive(x) /\ IsLive(x)'
        /\ \A y \in Advances : y # x => IsLive(y)' = IsLive(y) /\ advances'[y] = advances[y]
        /\ advances'[x].base = head.revision
        /\ \A y \in Advances : In(y, "externally_verified")' = In(y, "externally_verified")
    BY <2>2, <2>3 DEF RowsOK, IsLive, In, Exists, Live
  <2> DEFINE Base == [y \in Advances |-> IF IsLive(y) THEN advances[y].base ELSE None]
  <2>6. Base[x] = None /\ Base' = [Base EXCEPT ![x] = head.revision]
    BY <2>5
  <2>7. {y \in Advances : In(y, "externally_verified")}'
        = {y \in Advances : In(y, "externally_verified")}
    BY <2>5
  <2> HIDE DEF Base
  <2>8. QED
    BY <2>1, <2>3, <2>4, <2>6, <2>7 DEF Register!Propose, Base
<1>4. ASSUME NEW x \in Advances, NEW t \in Times, Marking(x, t)
      PROVE  RowsOK' /\ (Register!Verify(x) \/ UNCHANGED Register!regVars)
  <2>1. PICK row : Marks(x, row)
    BY <1>4, MarkingMarks
  <2>2. RowsOK'
    BY <2>1 DEF Marks, RowsOK
  <2>3. CASE row.state = "externally_verified"
    BY <2>1, <2>3 DEF Marks, RowsOK, Live, AdvanceRow, Register!Verify, IsLive, Exists, In
  <2>4. CASE row.state # "externally_verified"
    BY <2>1, <2>4 DEF Marks, RowsOK, Live, AdvanceRow, Register!regVars, IsLive, Exists, In
  <2>5. QED
    BY <2>2, <2>3, <2>4
<1>5. ASSUME NEW x \in Advances, NEW t \in Times, CommitCursor(x, t)
      PROVE  RowsOK' /\ Register!Install(x)
  <2> DEFINE row == [advances[x] EXCEPT !.state = "committed"]
  <2>1. /\ In(x, "externally_verified") /\ head # None /\ head \in HeadRow
        /\ advances[x] # None /\ advances[x] \in AdvanceRow
        /\ head.revision = advances[x].base /\ head.revision \in Nat
    BY <1>5 DEF RowsOK, CommitCursor, Committable, HeadUnchanged, In, Exists, HeadRow
  <2>2. row \in AdvanceRow /\ row # None /\ row.state = "committed"
    BY <2>1 DEF AdvanceRow
  <2>3. /\ advances' = [advances EXCEPT ![x] = row]
        /\ head' = [revision |-> advances[x].base + 1, value |-> x, updatedAt |-> t]
    BY <1>5 DEF CommitCursor
  <2>4. head' \in HeadRow /\ head' # None /\ head'.revision = head.revision + 1 /\ head'.value = x
    BY <2>1, <2>3 DEF HeadRow
  <2> HIDE DEF row
  <2>5. RowsOK'
    BY <2>1, <2>2, <2>3, <2>4 DEF RowsOK
  <2>6. /\ IsLive(x) /\ ~IsLive(x)' /\ ~In(x, "externally_verified")'
        /\ \A y \in Advances : y # x =>
             /\ IsLive(y)' = IsLive(y) /\ advances'[y] = advances[y]
             /\ In(y, "externally_verified")' = In(y, "externally_verified")
    BY <2>1, <2>2, <2>3 DEF RowsOK, IsLive, In, Exists, Live
  <2>7. QED
    BY <2>1, <2>4, <2>5, <2>6 DEF Register!Install
<1>6. ASSUME NEW x \in Advances, NEW t \in Times, AbortCursorAdvance(x, t)
      PROVE  RowsOK' /\ Register!Withdraw(x)
  BY <1>6 DEF RowsOK, AbortCursorAdvance, AdvanceRow, Live,
              Register!Withdraw, IsLive, Exists, In
<1>7. QED
  BY <1>1, <1>2, <1>3, <1>4, <1>5, <1>6, Steps DEF Register!Next

\* The lineage is a compare-and-swap register: of advances that compete for one
\* revision one is installed, and only after its external verification.
THEOREM LineageIsRegister == Spec => ImplementsRegister
<1>1. RowsOK /\ [Next]_vars => RowsOK' /\ [Register!Next]_(Register!regVars)
  BY RowsStep
<1>2. QED
  BY <1>1, RowsInitially, PTL DEF Spec, ImplementsRegister, Register!Spec

-----------------------------------------------------------------------------
(* The evidence. *)

AuditEvent == [type : Live \cup {"committed", "aborted"}, at : Nat,
               receipt : EventSequences \cup Checkpoints \cup Anchors \cup {None}]

\* The audit of an advance that was not aborted is a prefix of StateOrder that
\* ends in the state of its row, and the row holds the receipts of the audit:
\* the operations compare a new receipt with the row.
InOrder(events, n) ==
  /\ \A i \in 1..n : events[i].type = StateOrder[i]
  /\ \A i, j \in 1..n : j = i + 1 => events[i].at <= events[j].at

HoldsReceipts(row, events, n) ==
  /\ n >= 3 => row.event = events[3].receipt /\ events[3].receipt \in EventSequences
  /\ n >= 4 => /\ row.checkpoint = events[4].receipt
               /\ events[4].receipt.through >= events[3].receipt
  /\ n >= 5 => /\ row.anchor = events[5].receipt
               /\ events[5].receipt.head = events[4].receipt.head
  /\ n >= 6 => events[6].receipt = events[5].receipt

Recorded(row, events, n) ==
  /\ Len(events) = n /\ row.state = StateOrder[n]
  /\ InOrder(events, n) /\ HoldsReceipts(row, events, n)

EvidenceInv ==
  /\ RowsOK
  /\ audit \in [Advances -> Seq(AuditEvent)]
  /\ \A x \in Advances : Exists(x) /\ advances[x].state # "aborted" =>
       \E n \in 1..7 : Recorded(advances[x], audit[x], n)

\* In the prefix of StateOrder the state names the length.
LEMMA StatePosition ==
  ASSUME NEW row, NEW events, NEW n \in 1..7, Recorded(row, events, n)
  PROVE  /\ row.state = "staged" => n = 1
         /\ row.state = "validated" => n = 2
         /\ row.state = "event_persisted" => n = 3
         /\ row.state = "checkpointed" => n = 4
         /\ row.state = "anchor_published" => n = 5
         /\ row.state = "externally_verified" => n = 6
         /\ row.state = "committed" => n = 7
<1>1. row.state = StateOrder[n]
  BY DEF Recorded
<1>2. n = 1 \/ n = 2 \/ n = 3 \/ n = 4 \/ n = 5 \/ n = 6 \/ n = 7
  OBVIOUS
<1>3. QED
  BY <1>1, <1>2 DEF StateOrder

\* The row `next' and the event e follow a row with n events.
Follows(row, next, e, n) ==
  /\ next.state = StateOrder[n + 1] /\ e.type = next.state
  /\ n # 2 => next.event = row.event
  /\ n # 3 => next.checkpoint = row.checkpoint
  /\ n # 4 => next.anchor = row.anchor
  /\ n = 2 => next.event = e.receipt /\ e.receipt \in EventSequences
  /\ n = 3 => next.checkpoint = e.receipt /\ e.receipt.through >= row.event
  /\ n = 4 => next.anchor = e.receipt /\ e.receipt.head = row.checkpoint.head
  /\ n = 5 => e.receipt = row.anchor

\* One more event in order, with the receipt its state asks for.
LEMMA RecordNext ==
  ASSUME NEW row, NEW next, NEW events \in Seq(AuditEvent), NEW n \in 1..6,
         Recorded(row, events, n),
         NEW e \in AuditEvent,
         e.at >= events[n].at, Follows(row, next, e, n)
  PROVE  Recorded(next, Append(events, e), n + 1)
<1> DEFINE more == Append(events, e)
<1>1. Len(events) = n
  BY DEF Recorded
<1>2. Len(more) = n + 1 /\ more[n + 1] = e /\ \A i \in 1..n : more[i] = events[i]
  BY <1>1
<1> HIDE DEF more
<1>3. InOrder(more, n + 1)
  <2>1. \A i \in 1..(n + 1) : more[i].type = StateOrder[i]
    BY <1>2 DEF Recorded, InOrder, Follows
  <2>2. ASSUME NEW i \in 1..(n + 1), NEW j \in 1..(n + 1), j = i + 1
        PROVE  more[i].at <= more[j].at
    <3>1. CASE j = n + 1
      BY <1>2, <2>2, <3>1 DEF AuditEvent
    <3>2. CASE j # n + 1
      BY <1>2, <2>2, <3>2 DEF Recorded, InOrder
    <3>3. QED
      BY <3>1, <3>2
  <2>3. QED
    BY <2>1, <2>2 DEF InOrder
<1>4. HoldsReceipts(next, more, n + 1)
  <2> USE DEF Recorded, HoldsReceipts, Follows
  <2>1. CASE n = 1
    BY <1>2, <2>1
  <2>2. CASE n = 2
    BY <1>2, <2>2
  <2>3. CASE n = 3
    BY <1>2, <2>3
  <2>4. CASE n = 4
    BY <1>2, <2>4
  <2>5. CASE n = 5
    BY <1>2, <2>5
  <2>6. CASE n = 6
    BY <1>2, <2>6
  <2>7. QED
    BY <2>1, <2>2, <2>3, <2>4, <2>5, <2>6
<1>5. QED
  BY <1>2, <1>3, <1>4 DEF Recorded, Follows, more

\* An operation that moves one advance on by one event keeps the invariant.
LEMMA AppendKeeps ==
  ASSUME EvidenceInv, RowsOK',
         NEW x \in Advances, Exists(x), NEW next, NEW e \in AuditEvent, NEW n \in 1..6,
         Recorded(advances[x], audit[x], n),
         e.at >= LastAt(x), Follows(advances[x], next, e, n),
         advances' = [advances EXCEPT ![x] = next],
         audit' = [audit EXCEPT ![x] = Append(audit[x], e)]
  PROVE  EvidenceInv'
<1>1. audit[x] \in Seq(AuditEvent)
  BY DEF EvidenceInv
<1>2. e.at >= audit[x][n].at
  BY DEF LastAt, Recorded
<1>3. Recorded(next, Append(audit[x], e), n + 1)
  BY <1>1, <1>2, RecordNext
<1>4. audit' \in [Advances -> Seq(AuditEvent)]
  BY <1>1 DEF EvidenceInv
<1>5. /\ advances'[x] = next /\ audit'[x] = Append(audit[x], e)
      /\ \A y \in Advances : y # x => advances'[y] = advances[y] /\ audit'[y] = audit[y]
  BY DEF EvidenceInv, RowsOK
<1>6. ASSUME NEW y \in Advances, Exists(y)', advances'[y].state # "aborted"
      PROVE  \E k \in 1..7 : Recorded(advances'[y], audit'[y], k)
  <2>1. CASE y = x
    <3>1. n + 1 \in 1..7
      OBVIOUS
    <3>2. QED
      BY <1>3, <1>5, <2>1, <3>1
  <2>2. CASE y # x
    BY <1>5, <1>6, <2>2 DEF EvidenceInv, Exists
  <2>3. QED
    BY <2>1, <2>2
<1>7. QED
  BY <1>4, <1>6 DEF EvidenceInv

\* A live advance in the n-th state has n events.
LEMMA LiveRecorded ==
  ASSUME EvidenceInv, NEW x \in Advances, NEW from \in Live, In(x, from)
  PROVE  /\ Exists(x) /\ advances[x] \in AdvanceRow
         /\ from = "staged" => Recorded(advances[x], audit[x], 1)
         /\ from = "validated" => Recorded(advances[x], audit[x], 2)
         /\ from = "event_persisted" => Recorded(advances[x], audit[x], 3)
         /\ from = "checkpointed" => Recorded(advances[x], audit[x], 4)
         /\ from = "anchor_published" => Recorded(advances[x], audit[x], 5)
         /\ from = "externally_verified" => Recorded(advances[x], audit[x], 6)
<1>1. Exists(x) /\ advances[x] \in AdvanceRow /\ advances[x].state = from
  BY DEF In, Exists, EvidenceInv, RowsOK
<1>2. from # "aborted"
  BY DEF Live
<1>3. PICK n \in 1..7 : Recorded(advances[x], audit[x], n)
  BY <1>1, <1>2 DEF EvidenceInv
<1> DEFINE row == advances[x]
           events == audit[x]
<1>4. Recorded(row, events, n) /\ row.state = from
  BY <1>1, <1>3
<1> HIDE DEF row, events
<1>5. /\ from = "staged" => n = 1
      /\ from = "validated" => n = 2
      /\ from = "event_persisted" => n = 3
      /\ from = "checkpointed" => n = 4
      /\ from = "anchor_published" => n = 5
      /\ from = "externally_verified" => n = 6
  BY <1>4, StatePosition
<1>6. QED
  BY <1>1, <1>3, <1>5

\* There is nothing to record at first.
LEMMA EvidenceInitially == Init => EvidenceInv
  BY RowsInitially DEF Init, CursorInit, EvidenceInv, Exists

\* A marking operation records the receipt it was given.
LEMMA MarkingKeepsEvidence ==
  ASSUME EvidenceInv, RowsOK', NEW x \in Advances, NEW t \in Times, Marking(x, t)
  PROVE  EvidenceInv'
<1>1. ASSUME MarkValidated(x, t) PROVE EvidenceInv'
  <2> DEFINE row == [advances[x] EXCEPT !.state = "validated"]
             e == Event("validated", t, None)
  <2>1. /\ Exists(x) /\ Recorded(advances[x], audit[x], 1) /\ advances[x] \in AdvanceRow
        /\ t >= LastAt(x)
    BY <1>1, LiveRecorded DEF MarkValidated, Transition, NotRegressed, Live
  <2>2. /\ row.state = "validated"
        /\ row.event = advances[x].event
        /\ row.checkpoint = advances[x].checkpoint
        /\ row.anchor = advances[x].anchor
    BY <2>1 DEF AdvanceRow
  <2>3. e \in AuditEvent /\ e.type = "validated" /\ e.receipt = None /\ e.at >= LastAt(x)
    BY <2>1 DEF AuditEvent, Event, Live
  <2>4. /\ advances' = [advances EXCEPT ![x] = row]
        /\ audit' = [audit EXCEPT ![x] = Append(audit[x], e)]
    BY <1>1, <2>2 DEF MarkValidated, Transition
  <2>5. Follows(advances[x], row, e, 1)
    BY <2>2, <2>3 DEF Follows, StateOrder
  <2> HIDE DEF row, e
  <2>6. 1 \in 1..6
    OBVIOUS
  <2>7. QED
    BY <2>1, <2>3, <2>4, <2>5, <2>6, AppendKeeps, Zenon
<1>2. ASSUME NEW n \in EventSequences, MarkEventPersisted(x, n, t) PROVE EvidenceInv'
  <2> DEFINE row == [advances[x] EXCEPT !.state = "event_persisted", !.event = n]
             e == Event("event_persisted", t, n)
  <2>1. /\ Exists(x) /\ Recorded(advances[x], audit[x], 2) /\ advances[x] \in AdvanceRow
        /\ t >= LastAt(x)
    BY <1>2, LiveRecorded DEF MarkEventPersisted, Transition, NotRegressed, Live
  <2>2. /\ row.state = "event_persisted"
        /\ row.event = n
        /\ row.checkpoint = advances[x].checkpoint
        /\ row.anchor = advances[x].anchor
    BY <2>1 DEF AdvanceRow
  <2>3. e \in AuditEvent /\ e.type = "event_persisted" /\ e.receipt = n /\ e.at >= LastAt(x)
    BY <2>1 DEF AuditEvent, Event, Live
  <2>4. /\ advances' = [advances EXCEPT ![x] = row]
        /\ audit' = [audit EXCEPT ![x] = Append(audit[x], e)]
    BY <1>2, <2>2 DEF MarkEventPersisted, Transition
  <2>5. Follows(advances[x], row, e, 2)
    BY <2>2, <2>3 DEF Follows, StateOrder
  <2> HIDE DEF row, e
  <2>6. 2 \in 1..6
    OBVIOUS
  <2>7. QED
    BY <2>1, <2>3, <2>4, <2>5, <2>6, AppendKeeps, Zenon
<1>3. ASSUME NEW c \in Checkpoints, MarkCheckpointed(x, c, t) PROVE EvidenceInv'
  <2> DEFINE row == [advances[x] EXCEPT !.state = "checkpointed", !.checkpoint = c]
             e == Event("checkpointed", t, c)
  <2>1. /\ Exists(x) /\ Recorded(advances[x], audit[x], 3) /\ advances[x] \in AdvanceRow
        /\ t >= LastAt(x)
    BY <1>3, LiveRecorded DEF MarkCheckpointed, Transition, NotRegressed, Live
  <2>2. /\ row.state = "checkpointed"
        /\ row.checkpoint = c
        /\ row.event = advances[x].event
        /\ row.anchor = advances[x].anchor
    BY <2>1 DEF AdvanceRow
  <2>3. e \in AuditEvent /\ e.type = "checkpointed" /\ e.receipt = c /\ e.at >= LastAt(x)
    BY <2>1 DEF AuditEvent, Event, Live
  <2>4. /\ advances' = [advances EXCEPT ![x] = row]
        /\ audit' = [audit EXCEPT ![x] = Append(audit[x], e)]
    BY <1>3, <2>2 DEF MarkCheckpointed, Transition
  <2>5. c.through >= advances[x].event
    BY <1>3 DEF MarkCheckpointed, Covers
  <2>6. Follows(advances[x], row, e, 3)
    BY <2>2, <2>3, <2>5 DEF Follows, StateOrder
  <2> HIDE DEF row, e
  <2>7. 3 \in 1..6
    OBVIOUS
  <2>8. QED
    BY <2>1, <2>3, <2>4, <2>6, <2>7, AppendKeeps, Zenon
<1>4. ASSUME NEW k \in Anchors, MarkAnchorPublished(x, k, t) PROVE EvidenceInv'
  <2> DEFINE row == [advances[x] EXCEPT !.state = "anchor_published", !.anchor = k]
             e == Event("anchor_published", t, k)
  <2>1. /\ Exists(x) /\ Recorded(advances[x], audit[x], 4) /\ advances[x] \in AdvanceRow
        /\ t >= LastAt(x)
    BY <1>4, LiveRecorded DEF MarkAnchorPublished, Transition, NotRegressed, Live
  <2>2. /\ row.state = "anchor_published"
        /\ row.anchor = k
        /\ row.event = advances[x].event
        /\ row.checkpoint = advances[x].checkpoint
    BY <2>1 DEF AdvanceRow
  <2>3. e \in AuditEvent /\ e.type = "anchor_published" /\ e.receipt = k /\ e.at >= LastAt(x)
    BY <2>1 DEF AuditEvent, Event, Live
  <2>4. /\ advances' = [advances EXCEPT ![x] = row]
        /\ audit' = [audit EXCEPT ![x] = Append(audit[x], e)]
    BY <1>4, <2>2 DEF MarkAnchorPublished, Transition
  <2>5. k.head = advances[x].checkpoint.head
    BY <1>4 DEF MarkAnchorPublished
  <2>6. Follows(advances[x], row, e, 4)
    BY <2>2, <2>3, <2>5 DEF Follows, StateOrder
  <2> HIDE DEF row, e
  <2>7. 4 \in 1..6
    OBVIOUS
  <2>8. QED
    BY <2>1, <2>3, <2>4, <2>6, <2>7, AppendKeeps, Zenon
<1>5. ASSUME NEW k \in Anchors, MarkExternallyVerified(x, k, t) PROVE EvidenceInv'
  <2> DEFINE row == [advances[x] EXCEPT !.state = "externally_verified"]
             e == Event("externally_verified", t, k)
  <2>1. /\ Exists(x) /\ Recorded(advances[x], audit[x], 5) /\ advances[x] \in AdvanceRow
        /\ t >= LastAt(x)
    BY <1>5, LiveRecorded DEF MarkExternallyVerified, Transition, NotRegressed, Live
  <2>2. /\ row.state = "externally_verified"
        /\ row.event = advances[x].event
        /\ row.checkpoint = advances[x].checkpoint
        /\ row.anchor = advances[x].anchor
    BY <2>1 DEF AdvanceRow
  <2>3. e \in AuditEvent /\ e.type = "externally_verified" /\ e.receipt = k /\ e.at >= LastAt(x)
    BY <2>1 DEF AuditEvent, Event, Live
  <2>4. /\ advances' = [advances EXCEPT ![x] = row]
        /\ audit' = [audit EXCEPT ![x] = Append(audit[x], e)]
    BY <1>5, <2>2 DEF MarkExternallyVerified, Transition
  <2>5. k = advances[x].anchor
    BY <1>5 DEF MarkExternallyVerified
  <2>6. Follows(advances[x], row, e, 5)
    BY <2>2, <2>3, <2>5 DEF Follows, StateOrder
  <2> HIDE DEF row, e
  <2>7. 5 \in 1..6
    OBVIOUS
  <2>8. QED
    BY <2>1, <2>3, <2>4, <2>6, <2>7, AppendKeeps, Zenon
<1>6. QED
  BY <1>1, <1>2, <1>3, <1>4, <1>5 DEF Marking

\* A commit is the seventh event.
LEMMA CommitKeepsEvidence ==
  ASSUME EvidenceInv, RowsOK', NEW x \in Advances, NEW t \in Times, CommitCursor(x, t)
  PROVE  EvidenceInv'
<1> DEFINE row == [advances[x] EXCEPT !.state = "committed"]
           e == Event("committed", t, None)
<1>1. /\ Exists(x) /\ Recorded(advances[x], audit[x], 6) /\ advances[x] \in AdvanceRow
      /\ t >= LastAt(x)
  BY LiveRecorded DEF CommitCursor, Committable, NotRegressed, Live
<1>2. /\ row.state = "committed"
      /\ row.event = advances[x].event
      /\ row.checkpoint = advances[x].checkpoint
      /\ row.anchor = advances[x].anchor
  BY <1>1 DEF AdvanceRow
<1>3. e \in AuditEvent /\ e.type = "committed" /\ e.receipt = None /\ e.at >= LastAt(x)
  BY <1>1 DEF AuditEvent, Event, Live
<1>4. /\ advances' = [advances EXCEPT ![x] = row]
      /\ audit' = [audit EXCEPT ![x] = Append(audit[x], e)]
  BY <1>2 DEF CommitCursor, Committable
<1>5. Follows(advances[x], row, e, 6)
  BY <1>2, <1>3 DEF Follows, StateOrder
<1> HIDE DEF row, e
<1>6. 6 \in 1..6
  OBVIOUS
<1>7. QED
  BY <1>1, <1>3, <1>4, <1>5, <1>6, AppendKeeps, Zenon

\* Every step keeps the record of the evidence.
LEMMA EvidenceStep ==
  ASSUME EvidenceInv, [Next]_vars
  PROVE  EvidenceInv'
<1>1. RowsOK'
  BY RowsStep DEF EvidenceInv
<1>2. CASE Apart
  BY <1>1, <1>2, ApartKeepsRows DEF EvidenceInv, Exists
<1>3. ASSUME NEW t \in Times, InitializeLineage(t) PROVE EvidenceInv'
  BY <1>1, <1>3 DEF InitializeLineage, EvidenceInv, Exists
<1>4. ASSUME NEW x \in Advances, NEW a \in Attempts, NEW t \in Times, Stage(x, a, t)
      PROVE  EvidenceInv'
  <2> DEFINE e == Event("staged", t, None)
             row == [attempt |-> a, base |-> head.revision, state |-> "staged", stagedAt |-> t,
                     event |-> None, checkpoint |-> None, anchor |-> None]
  <2>1. e \in AuditEvent /\ e.type = "staged" /\ row.state = "staged"
    BY DEF AuditEvent, Event, Live
  <2>2. advances' = [advances EXCEPT ![x] = row] /\ audit' = [audit EXCEPT ![x] = <<e>>]
    BY <1>4 DEF Stage
  <2> HIDE DEF e, row
  <2>3. Len(<<e>>) = 1 /\ <<e>>[1] = e /\ <<e>> \in Seq(AuditEvent)
    BY <2>1
  <2>4. Recorded(row, <<e>>, 1)
    BY <2>1, <2>3 DEF Recorded, InOrder, HoldsReceipts, StateOrder
  <2>5. audit' \in [Advances -> Seq(AuditEvent)]
    BY <2>2, <2>3 DEF EvidenceInv
  <2>6. /\ advances'[x] = row /\ audit'[x] = <<e>>
        /\ \A y \in Advances : y # x => advances'[y] = advances[y] /\ audit'[y] = audit[y]
    BY <2>2 DEF EvidenceInv, RowsOK
  <2>7. 1 \in 1..7
    OBVIOUS
  <2>8. QED
    BY <1>1, <2>4, <2>5, <2>6, <2>7 DEF EvidenceInv, Exists
<1>5. ASSUME NEW x \in Advances, NEW t \in Times, Marking(x, t) PROVE EvidenceInv'
  BY <1>1, <1>5, MarkingKeepsEvidence
<1>6. ASSUME NEW x \in Advances, NEW t \in Times, CommitCursor(x, t) PROVE EvidenceInv'
  BY <1>1, <1>6, CommitKeepsEvidence
<1>7. ASSUME NEW x \in Advances, NEW t \in Times, AbortCursorAdvance(x, t) PROVE EvidenceInv'
  <2> DEFINE row == [advances[x] EXCEPT !.state = "aborted"]
             e == Event("aborted", t, None)
  <2>1. Exists(x) /\ advances[x] \in AdvanceRow
    BY <1>7 DEF AbortCursorAdvance, IsLive, Exists, EvidenceInv, RowsOK
  <2>2. row.state = "aborted" /\ e \in AuditEvent
    BY <2>1 DEF AdvanceRow, AuditEvent, Event
  <2>3. /\ advances' = [advances EXCEPT ![x] = row]
        /\ audit' = [audit EXCEPT ![x] = Append(audit[x], e)]
    BY <1>7 DEF AbortCursorAdvance
  <2> HIDE DEF row, e
  <2>4. audit' \in [Advances -> Seq(AuditEvent)]
    BY <2>2, <2>3 DEF EvidenceInv
  <2>5. /\ advances'[x] = row
        /\ \A y \in Advances : y # x => advances'[y] = advances[y] /\ audit'[y] = audit[y]
    BY <2>3 DEF EvidenceInv, RowsOK
  <2>6. QED
    BY <1>1, <2>2, <2>4, <2>5 DEF EvidenceInv, Exists
<1>8. QED
  BY <1>2, <1>3, <1>4, <1>5, <1>6, <1>7, Steps

\* No cursor moves without the event, a checkpoint that covers it, an anchor of
\* that checkpoint and the verification of that anchor, in this order.
THEOREM EvidenceIsComplete == Spec => []CommitsHaveEvidence
<1>1. ASSUME EvidenceInv PROVE CommitsHaveEvidence
  <2> SUFFICES ASSUME NEW x \in CommittedAdvances
               PROVE  CommitsHaveEvidence!(x)
    BY DEF CommitsHaveEvidence
  <2>1. x \in Advances /\ Exists(x) /\ advances[x].state = "committed"
    BY DEF CommittedAdvances, In
  <2>2. PICK n \in 1..7 : Recorded(advances[x], audit[x], n)
    BY <1>1, <2>1 DEF EvidenceInv
  <2> DEFINE row == advances[x]
             events == audit[x]
  <2>3. Recorded(row, events, n) /\ row.state = "committed"
    BY <2>1, <2>2
  <2> HIDE DEF row, events
  <2>4. n = 7
    BY <2>3, StatePosition
  <2>5. /\ Len(events) = 7 /\ \A i \in 1..7 : events[i].type = StateOrder[i]
        /\ events[4].receipt.through >= events[3].receipt
        /\ events[5].receipt.head = events[4].receipt.head
        /\ events[6].receipt = events[5].receipt
        /\ \A i \in 1..6 : events[i].at <= events[i + 1].at
    BY <2>3, <2>4 DEF Recorded, InOrder, HoldsReceipts
  <2>6. QED
    BY <2>5 DEF events
<1>2. QED
  BY <1>1, EvidenceInitially, EvidenceStep, PTL DEF Spec

-----------------------------------------------------------------------------
(* Sums over the attempts of a budget, for the definition the community modules give them. *)

\* What the attempts in S of a table r reserved.
Total(r, S) == LET Cost(a) == r[a].amount IN MapThenSumSet(Cost, S)

\* The sum takes one member after the other.
Picked(s) == CHOOSE x \in s : TRUE
Adds(r, S, g) ==
  g = [s \in SUBSET S |-> IF s = {} THEN 0 ELSE r[Picked(s)].amount + g[s \ {Picked(s)}]]

LEMMA TotalIs == ASSUME NEW r, NEW S PROVE Total(r, S) = (CHOOSE g : Adds(r, S, g))[S]
  BY DEF Total, MapThenSumSet, MapThenFoldSet, Adds, Picked

\* Induction over the subsets of a finite set: the property is given as the set of the subsets
\* that have it.
LEMMA SubsetInduction ==
  ASSUME NEW S, IsFiniteSet(S), NEW F,
         ASSUME NEW T \in SUBSET S, \A U \in SUBSET T : U # T => U \in F PROVE T \in F
  PROVE  \A T \in SUBSET S : T \in F
<1> DEFINE R == StrictSubsetOrdering(S)
           Bad == {T \in SUBSET S : T \notin F}
<1> SUFFICES ASSUME Bad # {} PROVE FALSE
  OBVIOUS
<1>1. IsWellFoundedOn(R, FiniteSubsetsOf(S))
  BY FS_StrictSubsetOrderingWellFounded
<1>2. FiniteSubsetsOf(S) = SUBSET S
  BY FS_FiniteSubsetsOfFinite
<1>3. \E T \in Bad : \A U \in Bad : ~(<<U, T>> \in R)
  <2>1. Bad \subseteq FiniteSubsetsOf(S)
    BY <1>2
  <2> HIDE DEF R, Bad
  <2>2. QED
    BY <1>1, <2>1, WFMin
<1>4. PICK T \in Bad : \A U \in Bad : ~(<<U, T>> \in R)
  BY <1>3
<1>5. ASSUME NEW U \in SUBSET T, U # T PROVE U \in F
  <2>1. <<U, T>> \in R
    BY <1>5 DEF StrictSubsetOrdering
  <2>2. QED
    BY <1>4, <2>1
<1>6. QED
  BY <1>4, <1>5

\* What the steps of the sum come to does not depend on the set it was started for, nor on
\* anything but the amounts.
LEMMA AddsAgree ==
  ASSUME NEW r, NEW q, NEW S, NEW U, NEW g, NEW h, Adds(r, S, g), Adds(q, U, h),
         NEW T, IsFiniteSet(T), T \subseteq S, T \subseteq U, \A a \in T : r[a].amount = q[a].amount
  PROVE  g[T] = h[T]
<1> DEFINE F == {V \in SUBSET T : g[V] = h[V]}
<1>1. ASSUME NEW V \in SUBSET T, \A W \in SUBSET V : W # V => W \in F PROVE V \in F
  <2>1. V \in SUBSET S /\ V \in SUBSET U
    OBVIOUS
  <2>2. /\ g[V] = IF V = {} THEN 0 ELSE r[Picked(V)].amount + g[V \ {Picked(V)}]
        /\ h[V] = IF V = {} THEN 0 ELSE q[Picked(V)].amount + h[V \ {Picked(V)}]
    BY <2>1 DEF Adds
  <2>3. CASE V = {}
    BY <2>2, <2>3
  <2>4. CASE V # {}
    <3>1. Picked(V) \in V
      BY <2>4 DEF Picked
    <3>2. V \ {Picked(V)} \in F
      BY <1>1, <3>1
    <3>3. QED
      BY <2>2, <2>4, <3>1, <3>2
  <2>5. QED
    BY <2>3, <2>4
<1>2. \A V \in SUBSET T : V \in F
  <2> HIDE DEF F
  <2>1. QED
    BY <1>1, SubsetInduction
<1>3. QED
  BY <1>2

\* The sum is defined.
LEMMA AddsExists ==
  ASSUME NEW r, NEW S, IsFiniteSet(S)
  PROVE  \E g : Adds(r, S, g)
<1> DEFINE F == {T \in SUBSET S : \E g : Adds(r, T, g)}
<1>1. ASSUME NEW T \in SUBSET S, \A U \in SUBSET T : U # T => U \in F PROVE T \in F
  <2> DEFINE total(s) == (CHOOSE g : Adds(r, s, g))[s]
             g == [s \in SUBSET T |-> IF s = {} THEN 0
                                      ELSE r[Picked(s)].amount + total(s \ {Picked(s)})]
  <2>1. ASSUME NEW s \in SUBSET T, s # T PROVE Adds(r, s, CHOOSE f : Adds(r, s, f))
    BY <1>1, <2>1
  <2>2. ASSUME NEW s \in SUBSET T, s # T PROVE total(s) = g[s]
    <3>1. total(s) = IF s = {} THEN 0
                     ELSE r[Picked(s)].amount + (CHOOSE f : Adds(r, s, f))[s \ {Picked(s)}]
      <4>1. PICK f : f = CHOOSE h : Adds(r, s, h)
        OBVIOUS
      <4>2. Adds(r, s, f)
        BY <2>1, <2>2, <4>1
      <4>3. s \in SUBSET s
        OBVIOUS
      <4>4. f[s] = IF s = {} THEN 0 ELSE r[Picked(s)].amount + f[s \ {Picked(s)}]
        BY <4>2, <4>3 DEF Adds
      <4>5. QED
        BY <4>1, <4>4
    <3>2. CASE s = {}
      BY <3>1, <3>2
    <3>3. CASE s # {}
      <4> DEFINE u == s \ {Picked(s)}
      <4>1. Picked(s) \in s
        BY <3>3 DEF Picked
      <4>2. u \in SUBSET T /\ u # T /\ u \subseteq s /\ IsFiniteSet(u)
        <5>1. u \in SUBSET S
          OBVIOUS
        <5>2. QED
          BY <4>1, <5>1, FS_Subset
      <4>3. Adds(r, u, CHOOSE f : Adds(r, u, f)) /\ Adds(r, s, CHOOSE f : Adds(r, s, f))
        BY <2>1, <2>2, <4>2
      <4>4. (CHOOSE f : Adds(r, s, f))[u] = total(u)
        <5> HIDE DEF u
        <5>1. QED
          BY <4>2, <4>3, AddsAgree
      <4>5. QED
        BY <3>1, <3>3, <4>4
    <3>4. QED
      BY <3>2, <3>3
  <2>3. Adds(r, T, g)
    <3> SUFFICES \A s \in SUBSET T :
          g[s] = IF s = {} THEN 0 ELSE r[Picked(s)].amount + g[s \ {Picked(s)}]
      <4>1. DOMAIN g = SUBSET T
        OBVIOUS
      <4>2. g = [s \in SUBSET T |-> g[s]]
        OBVIOUS
      <4> HIDE DEF g, total
      <4>3. QED
        BY <4>2 DEF Adds
    <3> TAKE s \in SUBSET T
    <3>1. CASE s = {}
      BY <3>1
    <3>2. CASE s # {}
      <4>1. Picked(s) \in s
        BY <3>2 DEF Picked
      <4>2. s \ {Picked(s)} \in SUBSET T /\ s \ {Picked(s)} # T
        BY <4>1
      <4>3. total(s \ {Picked(s)}) = g[s \ {Picked(s)}]
        BY <2>2, <4>2
      <4>4. g[s] = r[Picked(s)].amount + total(s \ {Picked(s)})
        BY <3>2
      <4>5. QED
        BY <3>2, <4>3, <4>4
    <3>3. QED
      BY <3>1, <3>2
  <2>4. QED
    BY <2>3
<1>2. \A T \in SUBSET S : T \in F
  <2> HIDE DEF F
  <2>1. QED
    BY <1>1, SubsetInduction
<1>3. QED
  BY <1>2

\* A total is a step of the sum.
LEMMA TotalStep ==
  ASSUME NEW r, NEW S, IsFiniteSet(S)
  PROVE  Total(r, S) = IF S = {} THEN 0
                       ELSE r[Picked(S)].amount + Total(r, S \ {Picked(S)})
<1> DEFINE U == S \ {Picked(S)}
<1>1. PICK f : f = CHOOSE g : Adds(r, S, g)
  OBVIOUS
<1>2. Adds(r, S, f)
  BY <1>1, AddsExists
<1>3. PICK h : h = CHOOSE g : Adds(r, U, g)
  OBVIOUS
<1>4. IsFiniteSet(U) /\ U \subseteq S /\ U \subseteq U
  BY FS_Subset
<1>5. Adds(r, U, h)
  <2> HIDE DEF U
  <2>1. QED
    BY <1>3, <1>4, AddsExists
<1>6. f[U] = h[U]
  <2> HIDE DEF U
  <2>1. QED
    BY <1>2, <1>4, <1>5, AddsAgree
<1>7. f[S] = IF S = {} THEN 0 ELSE r[Picked(S)].amount + f[U]
  <2>1. S \in SUBSET S
    OBVIOUS
  <2>2. QED
    BY <1>2, <2>1 DEF Adds
<1>8. Total(r, S) = f[S] /\ Total(r, U) = h[U]
  BY <1>1, <1>3, TotalIs
<1>9. QED
  BY <1>6, <1>7, <1>8

\* A total depends on the amounts alone.
LEMMA TotalAgree ==
  ASSUME NEW r, NEW q, NEW S, IsFiniteSet(S), \A a \in S : r[a].amount = q[a].amount
  PROVE  Total(r, S) = Total(q, S)
<1>1. PICK f : f = CHOOSE g : Adds(r, S, g)
  OBVIOUS
<1>2. PICK h : h = CHOOSE g : Adds(q, S, g)
  OBVIOUS
<1>3. Adds(r, S, f) /\ Adds(q, S, h)
  BY <1>1, <1>2, AddsExists
<1>4. f[S] = h[S]
  BY <1>3, AddsAgree
<1>5. QED
  BY <1>1, <1>2, <1>4, TotalIs

\* A total of natural numbers is one.
LEMMA TotalNat ==
  ASSUME NEW r, NEW S, IsFiniteSet(S), \A a \in S : r[a].amount \in Nat
  PROVE  Total(r, S) \in Nat
<1> DEFINE F == {T \in SUBSET S : Total(r, T) \in Nat}
<1>1. ASSUME NEW T \in SUBSET S, \A U \in SUBSET T : U # T => U \in F PROVE T \in F
  <2>1. IsFiniteSet(T)
    BY FS_Subset
  <2>2. CASE T = {}
    <3>1. Total(r, T) = 0
      BY <2>1, <2>2, TotalStep
    <3>2. QED
      BY <3>1
  <2>3. CASE T # {}
    <3>1. Picked(T) \in T
      BY <2>3 DEF Picked
    <3>2. T \ {Picked(T)} \in F
      BY <1>1, <3>1
    <3>3. QED
      BY <2>1, <2>3, <3>1, <3>2, TotalStep
  <2>4. QED
    BY <2>2, <2>3
<1>2. \A T \in SUBSET S : T \in F
  <2> HIDE DEF F
  <2>1. QED
    BY <1>1, SubsetInduction
<1>3. QED
  BY <1>2

\* The order of the terms does not matter: any one of them may be added last.
LEMMA TotalTake ==
  ASSUME NEW r, NEW S, IsFiniteSet(S), \A a \in S : r[a].amount \in Nat
  PROVE  \A a \in S : Total(r, S) = r[a].amount + Total(r, S \ {a})
<1> DEFINE F == {T \in SUBSET S : \A a \in T : Total(r, T) = r[a].amount + Total(r, T \ {a})}
<1>1. ASSUME NEW T \in SUBSET S, \A U \in SUBSET T : U # T => U \in F PROVE T \in F
  <2> SUFFICES ASSUME NEW a \in T PROVE Total(r, T) = r[a].amount + Total(r, T \ {a})
    OBVIOUS
  <2>1. IsFiniteSet(T) /\ Picked(T) \in T
    BY FS_Subset DEF Picked
  <2>2. PICK p : p = Picked(T)
    OBVIOUS
  <2>3. Total(r, T) = r[p].amount + Total(r, T \ {p}) /\ p \in T
    BY <2>1, <2>2, TotalStep
  <2>4. CASE a = p
    BY <2>3, <2>4
  <2>5. CASE a # p
    <3>1. T \ {p} \in F /\ T \ {a} \in F
      BY <1>1, <2>3
    <3>2. Total(r, T \ {p}) = r[a].amount + Total(r, (T \ {p}) \ {a})
      BY <2>5, <3>1
    <3>3. Total(r, T \ {a}) = r[p].amount + Total(r, (T \ {a}) \ {p})
      BY <2>3, <2>5, <3>1
    <3>4. (T \ {p}) \ {a} = (T \ {a}) \ {p}
      OBVIOUS
    <3>5. Total(r, (T \ {p}) \ {a}) \in Nat /\ r[a].amount \in Nat /\ r[p].amount \in Nat
      <4>1. IsFiniteSet((T \ {p}) \ {a})
        BY <2>1, FS_Subset
      <4>2. \A b \in (T \ {p}) \ {a} : r[b].amount \in Nat
        OBVIOUS
      <4>3. Total(r, (T \ {p}) \ {a}) \in Nat
        BY <4>1, <4>2, TotalNat
      <4>4. QED
        BY <2>3, <4>3
    <3>6. PICK n \in Nat : n = Total(r, (T \ {p}) \ {a})
      BY <3>5
    <3>7. Total(r, T \ {p}) = r[a].amount + n /\ Total(r, T \ {a}) = r[p].amount + n
      BY <3>2, <3>3, <3>4, <3>6
    <3>8. Total(r, T) = r[p].amount + (r[a].amount + n)
      BY <2>3, <3>7
    <3>9. r[p].amount + (r[a].amount + n) = r[a].amount + (r[p].amount + n)
      BY <3>5
    <3>10. QED
      BY <3>7, <3>8, <3>9
  <2>6. QED
    BY <2>4, <2>5
<1>2. \A T \in SUBSET S : T \in F
  <2> HIDE DEF F
  <2>1. QED
    BY <1>1, SubsetInduction
<1>3. QED
  BY <1>2

\* What a new member adds to a total.
LEMMA TotalAdd ==
  ASSUME NEW r, NEW S, IsFiniteSet(S), NEW a, a \notin S,
         \A b \in S \cup {a} : r[b].amount \in Nat
  PROVE  Total(r, S \cup {a}) = r[a].amount + Total(r, S)
<1>1. IsFiniteSet(S \cup {a}) /\ (S \cup {a}) \ {a} = S /\ a \in S \cup {a}
  BY FS_AddElement
<1>2. QED
  BY <1>1, TotalTake

-----------------------------------------------------------------------------
(* Budgets. *)

\* Finitely many attempts were made under each budget, and they keep within it.
BudgetsInv ==
  /\ \A b \in Budgets : IsFiniteSet(Of(b))
  /\ \A b \in Budgets : budgets[b] # None => BudgetHolds(b)

\* What is spent is the total of the attempts.
LEMMA SpentIs == ASSUME NEW b \in Budgets PROVE Spent(b) = Total(attempts, Of(b)) /\ Spent(b)' = Total(attempts', Of(b)')
<1>1. Spent(b) = Total(attempts, Of(b))
  BY DEF Spent, Total, MapThenSumSet, MapThenFoldSet
<1>2. Spent(b)' = Total(attempts', Of(b)')
  BY DEF Spent, Total, MapThenSumSet, MapThenFoldSet
<1>3. QED
  BY <1>1, <1>2

\* The steps that reserve nothing: they neither make an attempt nor change what one cost.
LEMMA CostsStay ==
  ASSUME AttemptInv, BudgetsInv, AttemptInv',
         \A a \in Attempts : /\ attempts'[a] # None <=> attempts[a] # None
                             /\ attempts[a] # None => /\ attempts'[a].budget = attempts[a].budget
                                                      /\ attempts'[a].amount = attempts[a].amount,
         NEW b \in Budgets
  PROVE  Of(b)' = Of(b) /\ Spent(b)' = Spent(b)
<1>1. Of(b)' = Of(b)
  BY DEF Of
<1>2. \A a \in Of(b) : attempts[a].amount = attempts'[a].amount
  BY DEF Of
<1>3. Total(attempts, Of(b)) = Total(attempts', Of(b))
  BY <1>2, TotalAgree DEF BudgetsInv
<1>4. QED
  BY <1>1, <1>3, SpentIs

\* A reservation is counted once, with its amount.
LEMMA ReservationCounts ==
  ASSUME AttemptInv, BudgetsInv, NEW a \in Attempts, NEW b \in Budgets, NEW amount \in Amounts,
         NEW created \in Times, NEW expires \in Times,
         ReserveAttempt(a, b, amount, created, expires)
  PROVE  BudgetsInv'
<1> DEFINE row == [budget |-> b, amount |-> amount, createdAt |-> created,
                   expiresAt |-> expires, state |-> "reserved",
                   dispatchedAt |-> None, closedAt |-> None, outcome |-> None]
<1>1. row \in AttemptRow /\ row # None
  BY DEF AttemptRow
<1>2. /\ attempts' = [attempts EXCEPT ![a] = row] /\ attempts[a] = None
      /\ budgets' = budgets /\ Affordable(b, amount) /\ budgets[b] # None
      /\ attempts \in [Attempts -> AttemptRow \cup {None}] /\ budgets \in [Budgets -> BudgetRow \cup {None}]
  BY DEF ReserveAttempt, AttemptInv, AttemptTypeOK
<1>3. row.budget = b /\ row.amount = amount
  OBVIOUS
<1> HIDE DEF row
<1>4. \A c \in Attempts : attempts'[c] = IF c = a THEN row ELSE attempts[c]
  BY <1>2
<1>5. a \notin Of(b) /\ Of(b)' = Of(b) \cup {a}
  BY <1>1, <1>2, <1>3, <1>4 DEF Of
<1>6. \A c \in Budgets : c # b => Of(c)' = Of(c)
  BY <1>1, <1>2, <1>3, <1>4 DEF Of
<1>7. ASSUME NEW c \in Budgets PROVE IsFiniteSet(Of(c)') /\ IsFiniteSet(Of(c))
  BY <1>5, <1>6, FS_AddElement DEF BudgetsInv
<1>8. ASSUME NEW c \in Budgets, c # b, budgets[c] # None PROVE BudgetHolds(c)'
  <2>1. \A d \in Of(c) : attempts[d].amount = attempts'[d].amount
    BY <1>2, <1>4 DEF Of
  <2>2. Total(attempts, Of(c)) = Total(attempts', Of(c))
    BY <1>7, <2>1, TotalAgree
  <2>3. Spent(c)' = Spent(c) /\ Cardinality(Of(c)') = Cardinality(Of(c))
    BY <1>6, <1>8, <2>2, SpentIs
  <2>4. QED
    BY <1>2, <1>8, <2>3 DEF BudgetHolds, BudgetsInv
<1>9. BudgetHolds(b)'
  <2>1. Cardinality(Of(b)') = Cardinality(Of(b)) + 1 /\ Cardinality(Of(b)) \in Nat
    BY <1>5, <1>7, FS_AddElement, FS_CardinalityType
  <2>2. \A d \in Of(b) : attempts'[d].amount \in Nat /\ attempts[d].amount = attempts'[d].amount
    BY <1>2, <1>4 DEF Of, AttemptRow
  <2>3. attempts'[a].amount = amount /\ amount \in Nat
    BY <1>3, <1>4
  <2>4. \A d \in Of(b) \cup {a} : attempts'[d].amount \in Nat
    BY <2>2, <2>3
  <2>5. Total(attempts', Of(b) \cup {a}) = amount + Total(attempts', Of(b))
    BY <1>5, <1>7, <2>3, <2>4, TotalAdd
  <2>6. Total(attempts', Of(b)) = Total(attempts, Of(b))
    BY <1>7, <2>2, TotalAgree
  <2>7. Total(attempts, Of(b)) \in Nat
    BY <1>7, <2>2, TotalNat
  <2>8. Spent(b)' = amount + Spent(b) /\ Spent(b) \in Nat
    BY <1>5, <2>5, <2>6, <2>7, SpentIs
  <2>9. budgets[b].maxAttempts \in Nat /\ budgets[b].maxAtomic \in Nat
    BY <1>2 DEF BudgetRow
  <2>10. Cardinality(Of(b)') <= budgets'[b].maxAttempts
    BY <1>2, <2>1, <2>9 DEF Affordable
  <2>11. Spent(b)' <= budgets'[b].maxAtomic
    BY <1>2, <2>3, <2>8, <2>9 DEF Affordable
  <2>12. QED
    BY <2>10, <2>11 DEF BudgetHolds
<1>10. QED
  BY <1>2, <1>7, <1>8, <1>9 DEF BudgetsInv

\* A new budget has no attempts.
LEMMA NewBudgetHolds ==
  ASSUME AttemptInv, BudgetsInv, NEW b \in Budgets, NEW limit \in Limits,
         NEW starts \in Times, NEW ends \in Times, NEW t \in Times,
         CreateBudget(b, limit, starts, ends, t)
  PROVE  BudgetsInv'
<1> DEFINE row == [startsAt |-> starts, endsAt |-> ends, createdAt |-> t,
                   maxAtomic |-> limit.maxAtomic, maxAttempts |-> limit.maxAttempts]
<1>1. budgets' = [budgets EXCEPT ![b] = row] /\ attempts' = attempts /\ budgets[b] = None
      /\ budgets \in [Budgets -> BudgetRow \cup {None}]
  BY DEF CreateBudget, AttemptInv, AttemptTypeOK
<1>2. \A c \in Budgets : Of(c)' = Of(c) /\ Spent(c)' = Spent(c)
  BY <1>1, SpentIs DEF Of
<1>3. Of(b) = {}
  BY <1>1 DEF Of, AttemptInv, DatesAgree, AttemptFitsBudget
<1>4. Spent(b) = 0 /\ Cardinality(Of(b)) = 0
  BY <1>3, SpentIs, TotalStep, FS_EmptySet
<1>5. row.maxAtomic \in Nat /\ row.maxAttempts \in Nat
  OBVIOUS
<1> HIDE DEF row
<1>6. ASSUME NEW c \in Budgets, budgets'[c] # None PROVE BudgetHolds(c)'
  <2>1. CASE c = b
    BY <1>1, <1>2, <1>4, <1>5, <2>1 DEF BudgetHolds
  <2>2. CASE c # b
    BY <1>1, <1>2, <1>6, <2>2 DEF BudgetHolds, BudgetsInv
  <2>3. QED
    BY <2>1, <2>2
<1>7. QED
  BY <1>2, <1>6 DEF BudgetsInv

\* The remaining steps make no attempt and leave the budgets as they are.
LEMMA OthersSpendNothing ==
  ASSUME AttemptInv, AttemptInv', BudgetsInv, [AttemptNext]_attemptVars, budgets' = budgets,
         \A a \in Attempts : attempts'[a] # None => attempts[a] # None
  PROVE  BudgetsInv'
<1>1. \A a \in Attempts : /\ attempts'[a] # None <=> attempts[a] # None
                          /\ attempts[a] # None => /\ attempts'[a].budget = attempts[a].budget
                                                   /\ attempts'[a].amount = attempts[a].amount
  BY StepsAreFinal DEF FinalRow
<1>2. \A b \in Budgets : Of(b)' = Of(b) /\ Spent(b)' = Spent(b)
  BY <1>1, CostsStay
<1>3. QED
  BY <1>2 DEF BudgetsInv, BudgetHolds

\* Every step of the ledger keeps the budgets.
LEMMA BudgetsStep ==
  ASSUME AttemptInv, BudgetsInv, [AttemptNext]_attemptVars
  PROVE  BudgetsInv'
<1>1. AttemptInv'
  BY AttemptStepKeeps
<1>2. ASSUME NEW b \in Budgets, NEW limit \in Limits, NEW starts \in Times, NEW ends \in Times,
             NEW t \in Times, CreateBudget(b, limit, starts, ends, t)
      PROVE  BudgetsInv'
  BY <1>2, NewBudgetHolds
<1>3. ASSUME NEW a \in Attempts, NEW b \in Budgets, NEW amount \in Amounts,
             NEW created \in Times, NEW expires \in Times,
             ReserveAttempt(a, b, amount, created, expires)
      PROVE  BudgetsInv'
  BY <1>3, ReservationCounts
<1>4. ASSUME NEW u \in Auths, NEW wall \in Times, Consume(u, wall)
      PROVE  BudgetsInv'
  <2>1. auths[u].attempt \in Attempts /\ attempts[auths[u].attempt] # None
    BY <1>4 DEF Consume, Consumable, Reserved, AttemptInv, AttemptTypeOK, Authorization
  <2>2. budgets' = budgets /\ \A a \in Attempts : attempts'[a] # None => attempts[a] # None
    BY <1>4, <2>1 DEF Consume, AttemptInv, AttemptTypeOK
  <2>3. QED
    BY <1>1, <2>2, OthersSpendNothing
<1>5. ASSUME NEW a \in Attempts, NEW t \in Times, NEW outcome \in Outcomes,
             CloseAttempt(a, t, outcome)
      PROVE  BudgetsInv'
  <2>1. budgets' = budgets /\ \A c \in Attempts : attempts'[c] # None => attempts[c] # None
    BY <1>5 DEF CloseAttempt, Closable, Open, AttemptInv, AttemptTypeOK
  <2>2. QED
    BY <1>1, <2>1, OthersSpendNothing
<1>6. ASSUME NEW t \in Times, RecoverExpiredAttempts(t)
      PROVE  BudgetsInv'
  <2>1. budgets' = budgets /\ \A c \in Attempts : attempts'[c] # None => attempts[c] # None
    BY <1>6 DEF RecoverExpiredAttempts, Open, AttemptInv, AttemptTypeOK
  <2>2. QED
    BY <1>1, <2>1, OthersSpendNothing
<1>7. ASSUME attempts' = attempts, budgets' = budgets PROVE BudgetsInv'
  BY <1>1, <1>7, OthersSpendNothing
<1>8. QED
  BY <1>2, <1>3, <1>4, <1>5, <1>6, <1>7
  DEF AttemptNext, attemptVars, CreateAuthorization, RefuseConsumption, Tick

\* No attempt, no cost.
LEMMA BudgetsInitially == AttemptInit => BudgetsInv
<1> SUFFICES ASSUME AttemptInit PROVE BudgetsInv
  OBVIOUS
<1>1. \A b \in Budgets : Of(b) = {} /\ budgets[b] = None
  BY DEF AttemptInit, Of
<1>2. QED
  BY <1>1, FS_EmptySet DEF BudgetsInv

-----------------------------------------------------------------------------
(* What the store verifies of the lineage. *)

\* A commit is the seventh event of its advance.
CommittedAt(x) == audit[x][7].at

HeadInv ==
  /\ HeadRowSound(head)
  /\ IsFiniteSet(CommittedAdvances) /\ Cardinality(CommittedAdvances) = head.revision
  /\ {advances[x].base : x \in CommittedAdvances} = 0..(head.revision - 1)
  /\ \A x, y \in CommittedAdvances :
       advances[x].base < advances[y].base => CommittedAt(x) <= CommittedAt(y)
  /\ \A x \in CommittedAdvances : CommittedAt(x) <= head.updatedAt
  /\ head.revision > 0 => /\ head.value \in CommittedAdvances
                          /\ advances[head.value].base = head.revision - 1
                          /\ CommittedAt(head.value) = head.updatedAt

\* The advance that a row describes was staged from a success and from a revision that existed.
WellStaged(row) ==
  /\ row.attempt \in Attempts
  /\ head # None /\ attempts[row.attempt] # None
  /\ attempts[row.attempt].state = "closed" /\ attempts[row.attempt].outcome = "succeeded"
  /\ row.stagedAt >= attempts[row.attempt].closedAt
  /\ row.base <= head.revision

LineageInv ==
  /\ \A x \in Advances : Exists(x) <=> (audit[x] # <<>>)
  /\ \A x \in Advances : Exists(x) => AdvanceRowSound(advances[x]) /\ WellStaged(advances[x])
  /\ head # None => HeadInv

\* How far each state is.
LEMMA ReachedIs ==
  ASSUME NEW row, NEW n \in 1..7, row.state = StateOrder[n]
  PROVE  /\ Reached(row, "event_persisted") <=> n >= 3
         /\ Reached(row, "checkpointed") <=> n >= 4
         /\ Reached(row, "anchor_published") <=> n >= 5
<1>1. DOMAIN StateOrder = 1..7
  BY DEF StateOrder
<1>2. ASSUME NEW i \in 1..7, NEW j \in 1..7, StateOrder[i] = StateOrder[j] PROVE i = j
  <2>1. j = 1 \/ j = 2 \/ j = 3 \/ j = 4 \/ j = 5 \/ j = 6 \/ j = 7
    OBVIOUS
  <2>2. i = 1 \/ i = 2 \/ i = 3 \/ i = 4 \/ i = 5 \/ i = 6 \/ i = 7
    OBVIOUS
  <2>3. QED
    BY <1>2, <2>1, <2>2 DEF StateOrder
<1>3. StateOrder[3] = "event_persisted" /\ StateOrder[4] = "checkpointed" /\ StateOrder[5] = "anchor_published"
  BY DEF StateOrder
<1>4. ASSUME NEW k \in 1..7 PROVE Reached(row, StateOrder[k]) <=> n >= k
  <2>1. Reached(row, StateOrder[k]) => n >= k
    BY <1>1, <1>2, <1>4 DEF Reached
  <2>2. n >= k => Reached(row, StateOrder[k])
    BY <1>1, <1>4 DEF Reached
  <2>3. QED
    BY <2>1, <2>2
<1>5. QED
  BY <1>3, <1>4

\* A row in the n-th state is sound when it has the receipts of that state and they fit.
LEMMA SoundInOrder ==
  ASSUME NEW row, NEW n \in 1..7, row.state = StateOrder[n]
  PROVE  AdvanceRowSound(row) <=>
           /\ n >= 3 <=> row.event # None
           /\ n >= 4 <=> row.checkpoint # None
           /\ n >= 5 <=> row.anchor # None
           /\ row.checkpoint # None /\ row.event # None => row.checkpoint.through >= row.event
           /\ row.anchor # None /\ row.checkpoint # None => row.anchor.head = row.checkpoint.head
<1>1. row.state # "aborted"
  <2>1. n = 1 \/ n = 2 \/ n = 3 \/ n = 4 \/ n = 5 \/ n = 6 \/ n = 7
    OBVIOUS
  <2>2. QED
    BY <2>1 DEF StateOrder
<1>2. QED
  BY <1>1, ReachedIs DEF AdvanceRowSound

\* A marking operation writes a sound row for the same attempt and revision.
LEMMA MarkingKeepsRow ==
  ASSUME EvidenceInv, NEW x \in Advances, NEW t \in Times, Marking(x, t),
         AdvanceRowSound(advances[x])
  PROVE  /\ Exists(x) /\ advances[x].state \in Live /\ advances'[x].state \in Live
         /\ advances'[x] # None /\ AdvanceRowSound(advances'[x])
         /\ \A f \in {"attempt", "base", "stagedAt"} : advances'[x][f] = advances[x][f]
         /\ audit'[x] # <<>>
         /\ \A y \in Advances : y # x => advances'[y] = advances[y] /\ audit'[y] = audit[y]
         /\ head' = head /\ attempts' = attempts /\ budgets' = budgets
<1>0. /\ advances \in [Advances -> AdvanceRow \cup {None}] /\ audit \in [Advances -> Seq(AuditEvent)]
  BY DEF EvidenceInv, RowsOK
<1> DEFINE Sound(row) ==
             /\ advances[x] \in AdvanceRow /\ advances[x] # None
             /\ advances[x].state \in Live /\ row.state \in Live
             /\ row # None /\ AdvanceRowSound(row)
             /\ \A f \in {"attempt", "base", "stagedAt"} : row[f] = advances[x][f]
             /\ advances' = [advances EXCEPT ![x] = row]
             /\ \E e : audit' = [audit EXCEPT ![x] = Append(audit[x], e)]
             /\ head' = head /\ attempts' = attempts /\ budgets' = budgets
<1>1. ASSUME MarkValidated(x, t) PROVE \E row : Sound(row)
  <2> DEFINE row == [advances[x] EXCEPT !.state = "validated"]
  <2>1. /\ advances[x] \in AdvanceRow /\ advances[x] # None /\ advances[x].state = StateOrder[1]
    BY <1>0, <1>1 DEF MarkValidated, Transition, In, Exists, StateOrder
  <2>2. /\ row.event = advances[x].event /\ row.checkpoint = advances[x].checkpoint
        /\ row.anchor = advances[x].anchor /\ row \in AdvanceRow
        /\ row.state = StateOrder[2] /\ row.state \in Live /\ advances[x].state \in Live
        /\ \A f \in {"attempt", "base", "stagedAt"} : row[f] = advances[x][f]
    BY <2>1 DEF AdvanceRow, StateOrder, Live
  <2>3. /\ advances' = [advances EXCEPT ![x] = row]
        /\ \E e : audit' = [audit EXCEPT ![x] = Append(audit[x], e)]
        /\ head' = head /\ attempts' = attempts /\ budgets' = budgets
    BY <1>1 DEF MarkValidated, Transition, attemptVars
  <2> HIDE DEF row
  <2>4. AdvanceRowSound(row)
    BY <2>1, <2>2, SoundInOrder
  <2>5. QED
    BY <2>1, <2>2, <2>3, <2>4
<1>2. ASSUME NEW n \in EventSequences, MarkEventPersisted(x, n, t) PROVE \E row : Sound(row)
  <2> DEFINE row == [advances[x] EXCEPT !.state = "event_persisted", !.event = n]
  <2>1. /\ advances[x] \in AdvanceRow /\ advances[x] # None /\ advances[x].state = StateOrder[2]
    BY <1>0, <1>2 DEF MarkEventPersisted, Transition, In, Exists, StateOrder
  <2>2. /\ row.event = n /\ row.checkpoint = advances[x].checkpoint
        /\ row.anchor = advances[x].anchor /\ row \in AdvanceRow
        /\ row.state = StateOrder[3] /\ row.state \in Live /\ advances[x].state \in Live
        /\ \A f \in {"attempt", "base", "stagedAt"} : row[f] = advances[x][f]
    BY <2>1 DEF AdvanceRow, StateOrder, Live
  <2>3. /\ advances' = [advances EXCEPT ![x] = row]
        /\ \E e : audit' = [audit EXCEPT ![x] = Append(audit[x], e)]
        /\ head' = head /\ attempts' = attempts /\ budgets' = budgets
    BY <1>2 DEF MarkEventPersisted, Transition, attemptVars
  <2> HIDE DEF row
  <2>4. n # None
    BY EventAssumption
  <2>5. AdvanceRowSound(row)
    BY <2>1, <2>2, <2>4, SoundInOrder
  <2>6. QED
    BY <2>1, <2>2, <2>3, <2>5
<1>3. ASSUME NEW c \in Checkpoints, MarkCheckpointed(x, c, t) PROVE \E row : Sound(row)
  <2> DEFINE row == [advances[x] EXCEPT !.state = "checkpointed", !.checkpoint = c]
  <2>1. /\ advances[x] \in AdvanceRow /\ advances[x] # None /\ advances[x].state = StateOrder[3]
        /\ c.through >= advances[x].event
    BY <1>0, <1>3 DEF MarkCheckpointed, Transition, In, Exists, StateOrder, Covers
  <2>2. /\ row.event = advances[x].event /\ row.checkpoint = c
        /\ row.anchor = advances[x].anchor /\ row \in AdvanceRow
        /\ row.state = StateOrder[4] /\ row.state \in Live /\ advances[x].state \in Live
        /\ \A f \in {"attempt", "base", "stagedAt"} : row[f] = advances[x][f]
    BY <2>1 DEF AdvanceRow, StateOrder, Live
  <2>3. /\ advances' = [advances EXCEPT ![x] = row]
        /\ \E e : audit' = [audit EXCEPT ![x] = Append(audit[x], e)]
        /\ head' = head /\ attempts' = attempts /\ budgets' = budgets
    BY <1>3 DEF MarkCheckpointed, Transition, attemptVars
  <2> HIDE DEF row
  <2>4. c # None
    OBVIOUS
  <2>5. AdvanceRowSound(row)
    BY <2>1, <2>2, <2>4, SoundInOrder
  <2>6. QED
    BY <2>1, <2>2, <2>3, <2>5
<1>4. ASSUME NEW k \in Anchors, MarkAnchorPublished(x, k, t) PROVE \E row : Sound(row)
  <2> DEFINE row == [advances[x] EXCEPT !.state = "anchor_published", !.anchor = k]
  <2>1. /\ advances[x] \in AdvanceRow /\ advances[x] # None /\ advances[x].state = StateOrder[4]
        /\ advances[x].checkpoint.head = k.head
    BY <1>0, <1>4 DEF MarkAnchorPublished, Transition, In, Exists, StateOrder
  <2>2. /\ row.event = advances[x].event /\ row.checkpoint = advances[x].checkpoint
        /\ row.anchor = k /\ row \in AdvanceRow
        /\ row.state = StateOrder[5] /\ row.state \in Live /\ advances[x].state \in Live
        /\ \A f \in {"attempt", "base", "stagedAt"} : row[f] = advances[x][f]
    BY <2>1 DEF AdvanceRow, StateOrder, Live
  <2>3. /\ advances' = [advances EXCEPT ![x] = row]
        /\ \E e : audit' = [audit EXCEPT ![x] = Append(audit[x], e)]
        /\ head' = head /\ attempts' = attempts /\ budgets' = budgets
    BY <1>4 DEF MarkAnchorPublished, Transition, attemptVars
  <2> HIDE DEF row
  <2>4. k # None
    OBVIOUS
  <2>5. AdvanceRowSound(row)
    BY <2>1, <2>2, <2>4, SoundInOrder
  <2>6. QED
    BY <2>1, <2>2, <2>3, <2>5
<1>5. ASSUME NEW k \in Anchors, MarkExternallyVerified(x, k, t) PROVE \E row : Sound(row)
  <2> DEFINE row == [advances[x] EXCEPT !.state = "externally_verified"]
  <2>1. /\ advances[x] \in AdvanceRow /\ advances[x] # None /\ advances[x].state = StateOrder[5]
    BY <1>0, <1>5 DEF MarkExternallyVerified, Transition, In, Exists, StateOrder
  <2>2. /\ row.event = advances[x].event /\ row.checkpoint = advances[x].checkpoint
        /\ row.anchor = advances[x].anchor /\ row \in AdvanceRow
        /\ row.state = StateOrder[6] /\ row.state \in Live /\ advances[x].state \in Live
        /\ \A f \in {"attempt", "base", "stagedAt"} : row[f] = advances[x][f]
    BY <2>1 DEF AdvanceRow, StateOrder, Live
  <2>3. /\ advances' = [advances EXCEPT ![x] = row]
        /\ \E e : audit' = [audit EXCEPT ![x] = Append(audit[x], e)]
        /\ head' = head /\ attempts' = attempts /\ budgets' = budgets
    BY <1>5 DEF MarkExternallyVerified, Transition, attemptVars
  <2> HIDE DEF row
  <2>4. AdvanceRowSound(row)
    BY <2>1, <2>2, SoundInOrder
  <2>5. QED
    BY <2>1, <2>2, <2>3, <2>4
<1>6. PICK row : Sound(row)
  BY <1>1, <1>2, <1>3, <1>4, <1>5 DEF Marking
<1>7. PICK e : audit' = [audit EXCEPT ![x] = Append(audit[x], e)]
  BY <1>6
<1>8. audit'[x] # <<>>
  BY <1>0, <1>7
<1>9. QED
  BY <1>0, <1>6, <1>7, <1>8 DEF Exists

\* An advance that is neither committed nor becomes it leaves what the head says true.
LEMMA HeadKept ==
  ASSUME HeadInv, NEW x \in Advances, head' = head,
         ~In(x, "committed"), ~In(x, "committed")',
         \A y \in Advances : y # x => advances'[y] = advances[y] /\ audit'[y] = audit[y]
  PROVE  HeadInv'
<1>1. /\ CommittedAdvances' = CommittedAdvances /\ x \notin CommittedAdvances
      /\ CommittedAdvances \subseteq Advances
  BY DEF CommittedAdvances, In, Exists
<1>2. \A y \in CommittedAdvances : /\ advances'[y] = advances[y]
                                   /\ CommittedAt(y)' = CommittedAt(y)
  BY <1>1 DEF CommittedAt
<1>3. {advances[y].base : y \in CommittedAdvances}' = {advances[y].base : y \in CommittedAdvances}
  BY <1>1, <1>2
<1>4. QED
  BY <1>1, <1>2, <1>3 DEF HeadInv

\* The rest of the lineage, when one advance gets a new row.
LEMMA OneRowChanges ==
  ASSUME LineageInv, NEW x \in Advances,
         attempts' = attempts, head # None, head' = head,
         ~In(x, "committed"), ~In(x, "committed")',
         \A y \in Advances : y # x => advances'[y] = advances[y] /\ audit'[y] = audit[y],
         advances'[x] # None, audit'[x] # <<>>,
         AdvanceRowSound(advances'[x]), WellStaged(advances'[x])
  PROVE  LineageInv'
<1>1. HeadInv'
  BY HeadKept DEF LineageInv
<1>2. \A y \in Advances : Exists(y)' <=> (audit'[y] # <<>>)
  BY DEF LineageInv, Exists
<1>3. ASSUME NEW y \in Advances, Exists(y)'
      PROVE  AdvanceRowSound(advances[y])' /\ WellStaged(advances[y])'
  <2>1. CASE y = x
    BY <2>1 DEF AdvanceRowSound, WellStaged
  <2>2. CASE y # x
    <3>1. Exists(y) /\ advances'[y] = advances[y]
      BY <1>3, <2>2 DEF Exists
    <3>2. AdvanceRowSound(advances[y]) /\ WellStaged(advances[y])
      BY <3>1 DEF LineageInv
    <3>3. QED
      BY <3>1, <3>2 DEF AdvanceRowSound, WellStaged
  <2>3. QED
    BY <2>1, <2>2
<1>4. QED
  BY <1>1, <1>2, <1>3 DEF LineageInv

\* An advance is staged from the head of the moment and from a success.
LEMMA StagingKeepsLineage ==
  ASSUME AttemptInv, EvidenceInv, LineageInv,
         NEW x \in Advances, NEW a \in Attempts, NEW t \in Times, Stage(x, a, t)
  PROVE  LineageInv'
<1> DEFINE row == [attempt |-> a, base |-> head.revision, state |-> "staged", stagedAt |-> t,
                   event |-> None, checkpoint |-> None, anchor |-> None]
           e == Event("staged", t, None)
<1>1. /\ head \in HeadRow /\ head # None /\ head' = head /\ attempts' = attempts
      /\ advances[x] = None /\ Stageable(a, t)
      /\ advances' = [advances EXCEPT ![x] = row] /\ audit' = [audit EXCEPT ![x] = <<e>>]
  BY DEF Stage, Exists, EvidenceInv, RowsOK, attemptVars
<1>2. row.state = StateOrder[1] /\ row.state = "staged" /\ row \in AdvanceRow /\ row # None
  BY <1>1 DEF StateOrder, AdvanceRow, Live, HeadRow
<1>3. AdvanceRowSound(row)
  BY <1>2, SoundInOrder
<1>4. WellStaged(row)
  <2>1. row.attempt = a /\ row.base = head.revision /\ row.stagedAt = t /\ head.revision \in Nat
    BY <1>1 DEF HeadRow
  <2>2. /\ attempts[a] # None /\ attempts[a].state = "closed" /\ attempts[a].outcome = "succeeded"
        /\ t >= attempts[a].closedAt
    BY <1>1 DEF Stageable, Succeeded
  <2>3. QED
    BY <1>1, <2>1, <2>2 DEF WellStaged
<1> HIDE DEF row, e
<1>5. /\ advances'[x] = row /\ audit'[x] = <<e>> /\ <<e>> # <<>>
      /\ \A y \in Advances : y # x => advances'[y] = advances[y] /\ audit'[y] = audit[y]
  BY <1>1 DEF EvidenceInv, RowsOK
<1>6. ~In(x, "committed") /\ ~In(x, "committed")'
  BY <1>1, <1>2, <1>5 DEF In, Exists
<1>7. QED
  BY <1>1, <1>2, <1>3, <1>4, <1>5, <1>6, OneRowChanges

\* A receipt moves one advance on.
LEMMA MarkingKeepsLineage ==
  ASSUME EvidenceInv, LineageInv, NEW x \in Advances, NEW t \in Times, Marking(x, t)
  PROVE  LineageInv'
<1>1. Exists(x)
  BY DEF Marking, MarkValidated, MarkEventPersisted, MarkCheckpointed, MarkAnchorPublished,
         MarkExternallyVerified, Transition, In
<1>2. AdvanceRowSound(advances[x]) /\ WellStaged(advances[x])
  BY <1>1 DEF LineageInv
<1>3. /\ advances[x].state \in Live /\ advances'[x].state \in Live
      /\ advances'[x] # None /\ AdvanceRowSound(advances'[x])
      /\ \A f \in {"attempt", "base", "stagedAt"} : advances'[x][f] = advances[x][f]
      /\ audit'[x] # <<>>
      /\ \A y \in Advances : y # x => advances'[y] = advances[y] /\ audit'[y] = audit[y]
      /\ head' = head /\ attempts' = attempts
  BY <1>2, MarkingKeepsRow
<1>4. ~In(x, "committed") /\ ~In(x, "committed")'
  BY <1>3 DEF In, Live
<1>5. WellStaged(advances'[x]) /\ head # None
  BY <1>2, <1>3 DEF WellStaged
<1>6. QED
  BY <1>3, <1>4, <1>5, OneRowChanges

\* An aborted advance keeps its receipts, and they still fit.
LEMMA AbortKeepsLineage ==
  ASSUME EvidenceInv, LineageInv, NEW x \in Advances, NEW t \in Times, AbortCursorAdvance(x, t)
  PROVE  LineageInv'
<1> DEFINE row == [advances[x] EXCEPT !.state = "aborted"]
           e == Event("aborted", t, None)
<1>1. /\ advances[x] \in AdvanceRow /\ Exists(x) /\ advances[x].state \in Live
      /\ advances' = [advances EXCEPT ![x] = row]
      /\ audit' = [audit EXCEPT ![x] = Append(audit[x], e)]
      /\ head' = head /\ attempts' = attempts
  BY DEF AbortCursorAdvance, IsLive, Exists, EvidenceInv, RowsOK, attemptVars
<1>2. AdvanceRowSound(advances[x]) /\ WellStaged(advances[x])
  BY <1>1 DEF LineageInv
<1>3. /\ row.state = "aborted" /\ row \in AdvanceRow /\ row # None
      /\ row.event = advances[x].event /\ row.checkpoint = advances[x].checkpoint
      /\ row.anchor = advances[x].anchor
      /\ \A f \in {"attempt", "base", "stagedAt"} : row[f] = advances[x][f]
  BY <1>1 DEF AdvanceRow
<1>4. e \in AuditEvent
  BY DEF AuditEvent, Event
<1>5. audit[x] \in Seq(AuditEvent) /\ audit \in [Advances -> Seq(AuditEvent)]
  BY DEF EvidenceInv
<1> HIDE DEF row, e
<1>6. AdvanceRowSound(row) /\ WellStaged(row) /\ head # None
  BY <1>2, <1>3 DEF AdvanceRowSound, WellStaged
<1>7. Append(audit[x], e) # <<>>
  BY <1>4, <1>5
<1>8. /\ advances'[x] = row /\ audit'[x] = Append(audit[x], e) /\ Append(audit[x], e) # <<>>
      /\ \A y \in Advances : y # x => advances'[y] = advances[y] /\ audit'[y] = audit[y]
  BY <1>1, <1>5, <1>7 DEF EvidenceInv, RowsOK
<1>9. ~In(x, "committed") /\ ~In(x, "committed")'
  BY <1>1, <1>3, <1>8 DEF In, Exists, Live
<1>10. QED
  BY <1>1, <1>3, <1>6, <1>8, <1>9, OneRowChanges

\* The new head: its advance is the one more that is committed, from the last revision and
\* at a time no earlier than any other.
LEMMA CommitMovesHead ==
  ASSUME EvidenceInv, HeadInv, head \in HeadRow, NEW x \in Advances, ~In(x, "committed"),
         NEW t \in Nat, t >= head.updatedAt,
         head' = [revision |-> head.revision + 1, value |-> x, updatedAt |-> t],
         advances'[x] # None, advances'[x].state = "committed", advances'[x].base = head.revision,
         audit'[x][7].at = t,
         \A y \in Advances : y # x => advances'[y] = advances[y] /\ audit'[y] = audit[y]
  PROVE  HeadInv'
<1>1. /\ CommittedAdvances' = CommittedAdvances \cup {x} /\ x \notin CommittedAdvances
      /\ CommittedAdvances \subseteq Advances
  BY DEF CommittedAdvances, In, Exists
<1>2. \A y \in CommittedAdvances :
        /\ advances'[y] = advances[y] /\ CommittedAt(y)' = CommittedAt(y)
  BY <1>1 DEF CommittedAt
<1>3. PICK r \in Nat : r = head.revision
  BY DEF HeadRow
<1>4. head'.revision = r + 1 /\ head'.value = x /\ head'.updatedAt = t /\ CommittedAt(x)' = t
  BY <1>3 DEF CommittedAt
<1>5. HeadRowSound(head)'
  BY <1>3, <1>4 DEF HeadRowSound
<1>6. IsFiniteSet(CommittedAdvances)' /\ Cardinality(CommittedAdvances)' = head'.revision
  BY <1>1, <1>3, <1>4, FS_AddElement DEF HeadInv
<1>7. {advances[y].base : y \in CommittedAdvances}' = 0..(head'.revision - 1)
  <2>1. {advances[y].base : y \in CommittedAdvances}'
        = {advances[y].base : y \in CommittedAdvances} \cup {r}
    BY <1>1, <1>2, <1>3
  <2>2. {advances[y].base : y \in CommittedAdvances} = 0..(r - 1)
    BY <1>3 DEF HeadInv
  <2>3. (0..(r - 1)) \cup {r} = 0..((r + 1) - 1)
    OBVIOUS
  <2>4. QED
    BY <1>4, <2>1, <2>2, <2>3
<1>8. \A y \in CommittedAdvances : advances[y].base \in 0..(r - 1)
  BY <1>3 DEF HeadInv
<1>9. ASSUME NEW y \in CommittedAdvances' PROVE CommittedAt(y)' <= head'.updatedAt
  <2>1. CASE y = x
    BY <1>4, <2>1
  <2>2. CASE y # x
    <3>1. CommittedAt(y) <= head.updatedAt /\ CommittedAt(y)' = CommittedAt(y)
      BY <1>1, <1>2, <1>9, <2>2 DEF HeadInv
    <3>2. head.updatedAt \in Nat /\ CommittedAt(y) \in Nat
      <4>1. y \in Advances /\ Exists(y) /\ advances[y].state = "committed"
        BY <1>1, <1>9, <2>2 DEF CommittedAdvances, In
      <4>2. PICK n \in 1..7 : Recorded(advances[y], audit[y], n)
        BY <4>1 DEF EvidenceInv
      <4>3. Recorded(advances[y], audit[y], 7)
        <5>1. PICK row : row = advances[y]
          OBVIOUS
        <5>2. PICK events : events = audit[y]
          OBVIOUS
        <5>3. Recorded(row, events, n) /\ row.state = "committed"
          BY <4>1, <4>2, <5>1, <5>2
        <5>4. n = 7
          BY <5>3, StatePosition
        <5>5. QED
          BY <4>2, <5>4
      <4>4. audit[y] \in Seq(AuditEvent) /\ Len(audit[y]) = 7
        BY <4>1, <4>3 DEF EvidenceInv, Recorded
      <4>5. audit[y][7] \in AuditEvent
        BY <4>4
      <4>6. QED
        BY <4>5 DEF CommittedAt, AuditEvent, HeadRow
    <3>3. QED
      BY <1>4, <3>1, <3>2
  <2>3. QED
    BY <2>1, <2>2
<1>10. ASSUME NEW y \in CommittedAdvances', NEW z \in CommittedAdvances',
              advances'[y].base < advances'[z].base
       PROVE  CommittedAt(y)' <= CommittedAt(z)'
  <2>1. CASE z = x
    BY <1>4, <1>9, <2>1
  <2>2. CASE z # x /\ y = x
    BY <1>1, <1>2, <1>3, <1>8, <1>10, <2>2
  <2>3. CASE z # x /\ y # x
    BY <1>1, <1>2, <1>10, <2>3 DEF HeadInv
  <2>4. QED
    BY <2>1, <2>2, <2>3
<1>11. /\ head'.value \in CommittedAdvances' /\ advances'[head'.value].base = head'.revision - 1
       /\ audit'[head'.value][7].at = head'.updatedAt
  <2>1. advances'[x].base = (r + 1) - 1
    BY <1>3
  <2>2. QED
    BY <1>1, <1>4, <2>1 DEF CommittedAt
<1>12. QED
  BY <1>5, <1>6, <1>7, <1>9, <1>10, <1>11 DEF HeadInv, CommittedAt

\* A commit moves the head to the advance that is committed.
LEMMA CommitKeepsLineage ==
  ASSUME EvidenceInv, LineageInv, NEW x \in Advances, NEW t \in Times, CommitCursor(x, t)
  PROVE  LineageInv'
<1> DEFINE row == [advances[x] EXCEPT !.state = "committed"]
           e == Event("committed", t, None)
<1>1. /\ advances[x] \in AdvanceRow /\ Exists(x) /\ advances[x].state = StateOrder[6]
      /\ advances' = [advances EXCEPT ![x] = row]
      /\ audit' = [audit EXCEPT ![x] = Append(audit[x], e)]
      /\ head # None /\ head \in HeadRow /\ head.revision = advances[x].base
      /\ head' = [revision |-> head.revision + 1, value |-> x, updatedAt |-> t]
      /\ attempts' = attempts /\ t >= head.updatedAt
      /\ In(x, "externally_verified") /\ "externally_verified" \in Live
  BY DEF CommitCursor, Committable, HeadUnchanged, In, Exists, EvidenceInv, RowsOK, attemptVars,
         StateOrder, Live
<1>2. AdvanceRowSound(advances[x]) /\ WellStaged(advances[x]) /\ HeadInv
  BY <1>1 DEF LineageInv
<1>3. /\ row.state = "committed" /\ row.state = StateOrder[7] /\ row \in AdvanceRow /\ row # None
      /\ row.event = advances[x].event /\ row.checkpoint = advances[x].checkpoint
      /\ row.anchor = advances[x].anchor
      /\ \A f \in {"attempt", "base", "stagedAt"} : row[f] = advances[x][f]
  BY <1>1 DEF AdvanceRow, StateOrder
<1>4. e \in AuditEvent /\ e.at = t
  BY DEF AuditEvent, Event
<1>5. audit[x] \in Seq(AuditEvent) /\ audit \in [Advances -> Seq(AuditEvent)]
  BY DEF EvidenceInv
<1> HIDE DEF row, e
<1>6. AdvanceRowSound(row)
  BY <1>1, <1>2, <1>3, SoundInOrder
<1>7. Recorded(advances[x], audit[x], 6)
  BY <1>1, LiveRecorded
<1>8. Len(audit[x]) = 6
  BY <1>7 DEF Recorded
<1>9. Append(audit[x], e) # <<>> /\ Append(audit[x], e)[7] = e
  <2>1. Append(audit[x], e) # <<>>
    BY <1>4, <1>5
  <2>2. Append(audit[x], e)[Len(audit[x]) + 1] = e
    BY <1>4, <1>5
  <2>3. Len(audit[x]) + 1 = 7
    BY <1>8
  <2>4. QED
    BY <2>1, <2>2, <2>3, Zenon
<1>10. /\ advances'[x] = row /\ audit'[x] = Append(audit[x], e) /\ Append(audit[x], e) # <<>>
      /\ \A y \in Advances : y # x => advances'[y] = advances[y] /\ audit'[y] = audit[y]
  BY <1>1, <1>5, <1>9 DEF EvidenceInv, RowsOK
<1>11. audit'[x][7].at = t
  BY <1>4, <1>9, <1>10
<1>12. ~In(x, "committed")
  BY <1>1 DEF In
<1>13. HeadInv'
  <2>1. advances'[x] # None /\ advances'[x].state = "committed" /\ advances'[x].base = head.revision
    BY <1>1, <1>3, <1>10
  <2>2. t \in Nat
    OBVIOUS
  <2>3. QED
    BY <1>1, <1>2, <1>10, <1>11, <1>12, <2>1, <2>2, CommitMovesHead
<1>14. head' # None /\ head.revision \in Nat /\ head'.revision = head.revision + 1
  BY <1>1 DEF HeadRow
<1>15. ASSUME NEW y \in Advances, Exists(y)'
       PROVE AdvanceRowSound(advances[y])' /\ WellStaged(advances[y])'
  <2>1. CASE y = x
    <3>1. row.base <= head'.revision
      BY <1>1, <1>3, <1>14
    <3>2. QED
      BY <1>1, <1>2, <1>3, <1>6, <1>10, <1>14, <2>1, <3>1 DEF AdvanceRowSound, WellStaged
  <2>2. CASE y # x
    <3>1. Exists(y) /\ advances'[y] = advances[y] /\ advances[y] \in AdvanceRow
      BY <1>10, <1>15, <2>2 DEF Exists, EvidenceInv, RowsOK
    <3>2. AdvanceRowSound(advances[y]) /\ WellStaged(advances[y])
      BY <3>1 DEF LineageInv
    <3>3. advances[y].base <= head'.revision
      BY <1>14, <3>1, <3>2 DEF WellStaged, AdvanceRow
    <3>4. QED
      BY <1>1, <1>14, <3>1, <3>2, <3>3 DEF AdvanceRowSound, WellStaged
  <2>3. QED
    BY <2>1, <2>2
<1>16. \A y \in Advances : Exists(y)' <=> (audit'[y] # <<>>)
  BY <1>3, <1>10 DEF LineageInv, Exists
<1>17. QED
  BY <1>13, <1>15, <1>16 DEF LineageInv

\* The first head: nothing is committed.
LEMMA InitializeKeepsLineage ==
  ASSUME EvidenceInv, LineageInv, NEW t \in Times, InitializeLineage(t)
  PROVE  LineageInv'
<1>1. /\ head = None /\ advances' = advances /\ audit' = audit
      /\ head' = [revision |-> 0, value |-> None, updatedAt |-> t]
  BY DEF InitializeLineage
<1>2. \A x \in Advances : ~Exists(x) /\ ~Exists(x)' /\ audit[x] = <<>>
  BY <1>1 DEF LineageInv, WellStaged, Exists
<1>3. CommittedAdvances' = {}
  BY <1>2 DEF CommittedAdvances, In
<1>4. IsFiniteSet(CommittedAdvances)' /\ Cardinality(CommittedAdvances)' = 0
  BY <1>3, FS_EmptySet
<1>5. {advances[x].base : x \in CommittedAdvances}' = {}
  BY <1>3
<1>6. head'.revision = 0 /\ head'.value = None /\ 0..(0 - 1) = {}
  BY <1>1
<1>7. HeadInv'
  BY <1>3, <1>4, <1>5, <1>6 DEF HeadInv, HeadRowSound
<1>8. QED
  BY <1>1, <1>2, <1>7 DEF LineageInv

\* The rest of the store changes no attempt that an advance was staged from.
LEMMA ApartKeepsLineage ==
  ASSUME AttemptInv, EvidenceInv, LineageInv, Apart
  PROVE  LineageInv'
<1>1. head' = head /\ advances' = advances /\ audit' = audit
  BY ApartKeepsRows
<1>2. [AttemptNext]_attemptVars
  BY DEF Apart, RepeatEnd, StartHardening, Harden, ClearPending, HardeningFails, Crash, Reopen, vars
<1>3. \A a \in Attempts : attempts[a] # None /\ attempts[a].state = "closed" => attempts'[a] = attempts[a]
  BY <1>2, StepsAreFinal DEF FinalRow
<1>4. CommittedAdvances' = CommittedAdvances
  BY <1>1 DEF CommittedAdvances, In, Exists
<1>5. ASSUME HeadInv PROVE HeadInv'
  BY <1>1, <1>4, <1>5 DEF HeadInv, HeadRowSound, CommittedAt
<1>6. ASSUME NEW x \in Advances, Exists(x)
      PROVE  AdvanceRowSound(advances[x])' /\ WellStaged(advances[x])'
  <2>1. AdvanceRowSound(advances[x]) /\ WellStaged(advances[x])
    BY <1>6 DEF LineageInv
  <2>2. attempts'[advances[x].attempt] = attempts[advances[x].attempt]
    BY <1>3, <2>1 DEF WellStaged
  <2>3. QED
    BY <1>1, <2>1, <2>2 DEF AdvanceRowSound, WellStaged
<1>7. QED
  BY <1>1, <1>5, <1>6 DEF LineageInv, Exists

\* Every step keeps the lineage.
LEMMA LineageStep ==
  ASSUME AttemptInv, EvidenceInv, LineageInv, [Next]_vars
  PROVE  LineageInv'
  BY Steps, ApartKeepsLineage, InitializeKeepsLineage, StagingKeepsLineage, MarkingKeepsLineage,
     CommitKeepsLineage, AbortKeepsLineage

-----------------------------------------------------------------------------
(* The erasure of destroyed cursors. *)

Ended(x) == Exists(x) /\ ~IsLive(x)

\* Only what has ended is destroyed, only an end is waited for or was reported, and the
\* hardening runs under the pending bit until nothing is left.
ErasureInv ==
  /\ pending \in BOOLEAN /\ serving \in BOOLEAN
  /\ step \in {"none", "started", "hardened"}
  /\ call \in Advances \cup {None} /\ returned \subseteq Advances
  /\ residue \subseteq ({"candidate"} \X Advances) \cup ({"head"} \X Nat)
  /\ \A x \in Advances : Candidate(x) \in residue \/ x \in returned \/ x = call => Ended(x)
  /\ residue # {} => pending
  /\ step # "none" => pending
  /\ step = "hardened" => residue = {}
  /\ \A x \in returned : Candidate(x) \notin residue

\* Nothing was destroyed in an empty lineage.
LEMMA ErasureInitially == Init => ErasureInv
  BY DEF Init, CursorInit, ErasureInv

\* What has ended stays so.
LEMMA EndsStay ==
  ASSUME EvidenceInv, [Next]_vars, NEW x \in Advances, Ended(x)
  PROVE  Ended(x)'
<1>1. CASE Apart
  BY <1>1, ApartKeepsRows DEF Ended, Exists, IsLive
<1>2. ASSUME NEW t \in Times, InitializeLineage(t) PROVE Ended(x)'
  BY <1>2 DEF InitializeLineage, Ended, Exists, IsLive
<1>3. ASSUME NEW y \in Advances, y # x, \E row : advances' = [advances EXCEPT ![y] = row]
      PROVE  Ended(x)'
  BY <1>3 DEF Ended, Exists, IsLive, EvidenceInv, RowsOK
<1>4. ASSUME NEW y \in Advances, NEW a \in Attempts, NEW t \in Times, Stage(y, a, t)
      PROVE  Ended(x)'
  <2>1. y # x
    BY <1>4 DEF Stage, Ended, Exists
  <2>2. QED
    BY <1>3, <1>4, <2>1 DEF Stage
<1>5. ASSUME NEW y \in Advances, NEW t \in Times, Marking(y, t) PROVE Ended(x)'
  <2>1. PICK row : Marks(y, row)
    BY <1>5, MarkingMarks DEF EvidenceInv
  <2>2. y # x
    BY <2>1 DEF Marks, Ended, IsLive
  <2>3. QED
    BY <1>3, <2>1, <2>2 DEF Marks
<1>6. ASSUME NEW y \in Advances, NEW t \in Times, CommitCursor(y, t) PROVE Ended(x)'
  <2>1. y # x
    BY <1>6 DEF CommitCursor, Committable, In, Ended, IsLive, Live
  <2>2. QED
    BY <1>3, <1>6, <2>1 DEF CommitCursor
<1>7. ASSUME NEW y \in Advances, NEW t \in Times, AbortCursorAdvance(y, t) PROVE Ended(x)'
  <2>1. y # x
    BY <1>7 DEF AbortCursorAdvance, Ended
  <2>2. QED
    BY <1>3, <1>7, <2>1 DEF AbortCursorAdvance
<1>8. QED
  BY <1>1, <1>2, <1>4, <1>5, <1>6, <1>7, Steps

\* A commit or an abort destroys under the pending bit, and only then is it waited for.
LEMMA EndKeepsErasure ==
  ASSUME ErasureInv, NEW x \in Advances, ~Ended(x), Ended(x)', NEW more, more \subseteq {"head"} \X Nat,
         Idle, \A y \in Advances : Ended(y) => Ended(y)',
         residue' = residue \cup {Candidate(x)} \cup more,
         pending' = TRUE, call' = x, UNCHANGED <<serving, step, returned>>
  PROVE  ErasureInv'
<1>1. residue = {} /\ step = "none" /\ x \notin returned
  BY DEF ErasureInv, Idle
<1>2. \A y \in Advances : Candidate(y) \in residue' => y = x
  BY <1>1 DEF Candidate
<1>3. Candidate(x) \in ({"candidate"} \X Advances)
  BY DEF Candidate
<1>4. QED
  BY <1>1, <1>2, <1>3 DEF ErasureInv

\* Every step keeps the erasure.
LEMMA ErasureStep ==
  ASSUME EvidenceInv, ErasureInv, [Next]_vars
  PROVE  ErasureInv'
<1>1. \A y \in Advances : Ended(y) => Ended(y)'
  BY EndsStay
<1>2. ASSUME UNCHANGED <<pending, residue, serving, step, call, returned>> PROVE ErasureInv'
  BY <1>1, <1>2 DEF ErasureInv
<1>3. ASSUME NEW x \in Advances, NEW t \in Times, CommitCursor(x, t) PROVE ErasureInv'
  <2> DEFINE more == IF head.value = None THEN {} ELSE {HeadOf(head.revision)}
  <2>1. ~Ended(x) /\ Idle /\ head \in HeadRow /\ advances[x] \in AdvanceRow
    BY <1>3 DEF CommitCursor, Committable, HeadUnchanged, In, Exists, Ended, IsLive, Live, EvidenceInv, RowsOK
  <2>2. more \subseteq {"head"} \X Nat
    BY <2>1 DEF HeadOf, HeadRow
  <2>3. Ended(x)'
    <3>1. advances'[x] = [advances[x] EXCEPT !.state = "committed"]
      BY <1>3 DEF CommitCursor, EvidenceInv, RowsOK
    <3>2. advances'[x] \in AdvanceRow /\ advances'[x].state = "committed"
      BY <2>1, <3>1 DEF AdvanceRow
    <3>3. QED
      BY <3>2 DEF Ended, Exists, IsLive, Live
  <2>4. /\ residue' = residue \cup {Candidate(x)} \cup more
        /\ pending' = TRUE /\ call' = x /\ UNCHANGED <<serving, step, returned>>
    BY <1>3 DEF CommitCursor
  <2> HIDE DEF more
  <2>5. QED
    BY <1>1, <2>1, <2>2, <2>3, <2>4, EndKeepsErasure
<1>4. ASSUME NEW x \in Advances, NEW t \in Times, AbortCursorAdvance(x, t) PROVE ErasureInv'
  <2>1. ~Ended(x) /\ Idle /\ advances[x] \in AdvanceRow
    BY <1>4 DEF AbortCursorAdvance, IsLive, Exists, Ended, EvidenceInv, RowsOK
  <2>2. Ended(x)'
    <3>1. advances'[x] = [advances[x] EXCEPT !.state = "aborted"]
      BY <1>4 DEF AbortCursorAdvance, EvidenceInv, RowsOK
    <3>2. advances'[x] \in AdvanceRow /\ advances'[x].state = "aborted"
      BY <2>1, <3>1 DEF AdvanceRow
    <3>3. QED
      BY <3>2 DEF Ended, Exists, IsLive, Live
  <2>3. PICK more : more = {}
    OBVIOUS
  <2>4. /\ residue' = residue \cup {Candidate(x)} \cup more /\ more \subseteq {"head"} \X Nat
        /\ pending' = TRUE /\ call' = x /\ UNCHANGED <<serving, step, returned>>
    BY <1>4, <2>3 DEF AbortCursorAdvance
  <2>5. QED
    BY <1>1, <2>1, <2>2, <2>3, <2>4, EndKeepsErasure
<1>5. ASSUME NEW x \in Advances, NEW t \in Times, RepeatEnd(x, t) PROVE ErasureInv'
  <2>1. Ended(x) /\ residue = {} /\ residue' = {} /\ returned' = returned \cup {x}
        /\ UNCHANGED <<pending, serving, step, call>>
    BY <1>5 DEF RepeatEnd, Idle, Ended, ErasureInv
  <2>2. QED
    BY <1>1, <2>1 DEF ErasureInv
<1>6. CASE ClearPending
  <2>1. /\ residue = {} /\ residue' = {} /\ step' = "none" /\ call' = None /\ pending' = FALSE
        /\ returned' \subseteq returned \cup ({call} \ {None}) /\ serving' = serving
    BY <1>6 DEF ClearPending, ReadyToClear, ErasureInv
  <2>2. QED
    BY <1>1, <2>1 DEF ErasureInv
<1>7. CASE StartHardening \/ Harden \/ HardeningFails \/ Crash \/ Reopen
  BY <1>1, <1>7 DEF StartHardening, Harden, HardeningFails, Crash, Reopen, ReadyToServe, ErasureInv
<1>8. CASE Apart
  BY <1>2, <1>5, <1>6, <1>7, <1>8 DEF Apart, vars, cursorVars
<1>9. ASSUME NEW x \in Advances, NEW t \in Times, Marking(x, t) PROVE ErasureInv'
  BY <1>2, <1>9 DEF Marking, MarkValidated, MarkEventPersisted, MarkCheckpointed,
                    MarkAnchorPublished, MarkExternallyVerified, Transition
<1>10. QED
  BY <1>2, <1>3, <1>4, <1>8, <1>9, Steps DEF InitializeLineage, Stage

-----------------------------------------------------------------------------
(* The store. *)

StoreInv == AttemptInv /\ BudgetsInv /\ EvidenceInv /\ LineageInv /\ ErasureInv

\* An empty store satisfies the invariant.
LEMMA StoreInitially == Init => StoreInv
<1> SUFFICES ASSUME Init PROVE StoreInv
  OBVIOUS
<1>1. AttemptInv /\ BudgetsInv /\ EvidenceInv /\ ErasureInv
  BY AttemptInitially, BudgetsInitially, EvidenceInitially, ErasureInitially DEF Init
<1>2. LineageInv
  BY DEF Init, CursorInit, LineageInv, Exists
<1>3. QED
  BY <1>1, <1>2 DEF StoreInv

\* Every step of the store keeps it.
LEMMA StoreStep == StoreInv /\ [Next]_vars => StoreInv'
<1> SUFFICES ASSUME StoreInv, [Next]_vars PROVE StoreInv'
  OBVIOUS
<1>1. [AttemptNext]_attemptVars
  <2>1. Apart => [AttemptNext]_attemptVars
    BY DEF Apart, RepeatEnd, StartHardening, Harden, ClearPending, HardeningFails, Crash, Reopen, vars
  <2>2. \A x \in Advances, t \in Times : Marking(x, t) => UNCHANGED attemptVars
    BY DEF Marking, MarkValidated, MarkEventPersisted, MarkCheckpointed, MarkAnchorPublished,
           MarkExternallyVerified, Transition
  <2>3. QED
    BY <2>1, <2>2, Steps DEF InitializeLineage, Stage, CommitCursor, AbortCursorAdvance
<1>2. AttemptInv' /\ BudgetsInv'
  BY <1>1, AttemptStepKeeps, BudgetsStep DEF StoreInv
<1>3. EvidenceInv' /\ LineageInv' /\ ErasureInv'
  BY EvidenceStep, LineageStep, ErasureStep DEF StoreInv
<1>4. QED
  BY <1>2, <1>3 DEF StoreInv

\* What the store verifies is what the invariant says, and its audit dates a commit once.
LEMMA StoreIsVerified == StoreInv => LedgerStaysSound
<1> SUFFICES ASSUME StoreInv PROVE LedgerStaysSound
  OBVIOUS
<1>1. CursorTypeOK
  BY DEF StoreInv, CursorTypeOK, ErasureInv, EvidenceInv, RowsOK, LineageInv
<1>2. \A b \in Budgets : budgets[b] # None => BudgetRowSound(budgets[b]) /\ BudgetHolds(b)
  BY DEF StoreInv, AttemptInv, AttemptTypeOK, BudgetsInv
<1>3. \A a \in Attempts : attempts[a] # None => AttemptRowSound(attempts[a]) /\ AttemptFitsBudget(a)
  BY DEF StoreInv, AttemptInv, AttemptTypeOK, DatesAgree
<1>4. ASSUME NEW x \in Advances, In(x, "committed")
      PROVE  Audited(x, "committed") = {7} /\ CommitTime(x) = CommittedAt(x)
  <2>1. PICK row : row = advances[x]
    OBVIOUS
  <2>2. PICK events : events = audit[x]
    OBVIOUS
  <2>3. PICK n \in 1..7 : Recorded(row, events, n)
    BY <1>4, <2>1, <2>2 DEF StoreInv, EvidenceInv, In
  <2>4. n = 7
    BY <1>4, <2>1, <2>3, StatePosition DEF In
  <2>5. Len(events) = 7 /\ \A i \in 1..7 : events[i].type = StateOrder[i]
    BY <2>3, <2>4 DEF Recorded, InOrder
  <2>6. DOMAIN events = 1..7
    BY <2>2, <2>5 DEF StoreInv, EvidenceInv
  <2>7. \A i \in 1..7 : StateOrder[i] = "committed" <=> i = 7
    <3>1. SUFFICES ASSUME NEW i \in 1..7 PROVE StateOrder[i] = "committed" <=> i = 7
      OBVIOUS
    <3>2. i = 1 \/ i = 2 \/ i = 3 \/ i = 4 \/ i = 5 \/ i = 6 \/ i = 7
      OBVIOUS
    <3>3. QED
      BY <3>2 DEF StateOrder
  <2>8. Audited(x, "committed") = {7}
    BY <2>2, <2>5, <2>6, <2>7 DEF Audited
  <2>9. (CHOOSE i \in Audited(x, "committed") : TRUE) = 7
    BY <2>8
  <2>10. QED
    BY <2>8, <2>9 DEF CommitTime, CommittedAt
<1>5. ASSUME NEW x \in Advances, Exists(x)
      PROVE  AdvanceRowSound(advances[x]) /\ AdvanceFits(x)
  <2>1. AdvanceRowSound(advances[x]) /\ WellStaged(advances[x])
    BY <1>5 DEF StoreInv, LineageInv
  <2>2. In(x, "committed") => Cardinality(Audited(x, "committed")) = 1
    BY <1>4, FS_Singleton
  <2>3. QED
    BY <2>1, <2>2 DEF AdvanceFits, WellStaged
<1>6. ASSUME head # None PROVE HeadRowSound(head) /\ HeadFits
  <2>1. HeadInv
    BY <1>6 DEF StoreInv, LineageInv
  <2>2. \A x \in CommittedAdvances : CommitTime(x) = CommittedAt(x)
    BY <1>4 DEF CommittedAdvances
  <2>3. head.revision \in Nat
    BY <1>6 DEF StoreInv, EvidenceInv, RowsOK, HeadRow
  <2>4. QED
    BY <2>1, <2>2, <2>3 DEF HeadInv, HeadFits
<1>7. VerifyIntegrity
  BY <1>2, <1>3, <1>5, <1>6 DEF VerifyIntegrity
<1>8. EnvelopesAreErased
  BY DEF StoreInv, ErasureInv, EnvelopesAreErased
<1>9. QED
  BY <1>1, <1>7, <1>8 DEF LedgerStaysSound, CursorIntegrity

\* No sequence of calls, failed steps, crashes and reopenings overdraws a budget, leaves a
\* row on which verifyIntegrity would refuse every later transaction, or reports a
\* destroyed cursor as gone while it is in the file.
THEOREM StoreIsSound == Spec => []LedgerStaysSound
  BY StoreInitially, StoreStep, StoreIsVerified, PTL DEF Spec

-----------------------------------------------------------------------------
(* The alert outbox.  FileSound says of a file, the open one or a copy,      *)
(* what its verification demands and how its retries began.                  *)

FileShape(rs, ats, log) ==
  /\ rs \in [Deliveries -> O!DeliveryRow \cup {None}]
  /\ ats \in [Deliveries -> Seq(O!AttemptRow)]
  /\ log \in Seq(O!AuditRow)

RetriedAfterFailure(tries) ==
  Len(tries) = 2 =>
    /\ tries[1].state \in {"failed", "crashed"} /\ tries[1].retryable = 1
    /\ tries[2].startedAt >= tries[1].finishedAt

RowSound(d, r, tries) ==
  IF r = None THEN tries = <<>> ELSE O!DeliveryReads(d, r, tries) /\ RetriedAfterFailure(tries)

Called(d, r, tries) == IF r = None THEN {} ELSE O!Expected(d, r, tries)

LogSound(rs, ats, log) ==
  /\ \A i \in 1..Len(log) : /\ O!AuditReads(rs, log, i)
                            /\ log[i] \in Called(log[i].delivery, rs[log[i].delivery], ats[log[i].delivery])
  /\ \A d \in Deliveries : \A e \in Called(d, rs[d], ats[d]) : \E i \in 1..Len(log) : log[i] = e
  /\ \A i, j \in 1..Len(log) : log[i] = log[j] => i = j

FileSound(rs, ats, log) ==
  /\ FileShape(rs, ats, log)
  /\ \A d \in Deliveries : RowSound(d, rs[d], ats[d])
  /\ LogSound(rs, ats, log)

OutboxInv ==
  /\ FileSound(rows, deliveries, outboxLog)
  /\ copy # None => FileSound(copy[1], copy[2], copy[3])
  /\ open \in BOOLEAN
  /\ pin \in Seq(O!AuditRow) \cup {None}
  /\ open /\ pin # None => O!IsPrefix(pin, outboxLog)

\* What an event of a delivery is, by the delivery it names.
LEMMA CalledEvents ==
  ASSUME NEW d \in Deliveries, NEW r \in O!DeliveryRow, NEW tries \in Seq(O!AttemptRow),
         NEW e \in O!Expected(d, r, tries)
  PROVE  e.delivery = d
<1>1. CASE e = O!Event("queued", d, None, "pending", None, r.queuedAt)
  BY <1>1 DEF O!Event
<1>2. CASE \E n \in 1..Len(tries) : e = O!Event("claimed", d, n, "in_flight", None, tries[n].startedAt)
  BY <1>2 DEF O!Event
<1>3. CASE \E n \in 1..Len(tries) :
             e = O!Event(O!TerminalType(tries[n]), d, n, tries[n].result, tries[n].retryable, tries[n].finishedAt)
  BY <1>3 DEF O!Event
<1>4. QED
  BY <1>1, <1>2, <1>3 DEF O!Expected

\* How the rows of one delivery change with one event.
RowChanges(d, r, tries, s, new, e) ==
  /\ s \in O!DeliveryRow /\ new \in Seq(O!AttemptRow) /\ RowSound(d, s, new)
  /\ r # None => s.queuedAt = r.queuedAt
  /\ e \in O!AuditRow /\ e.delivery = d /\ e.at >= s.queuedAt
  /\ e.type = "queued" => e.at = s.queuedAt
  /\ e \notin Called(d, r, tries) /\ O!Expected(d, s, new) = Called(d, r, tries) \cup {e}

\* A sound file passes the verification.
LEMMA SoundVerifies ==
  ASSUME NEW rs, NEW ats, NEW log, FileSound(rs, ats, log)
  PROVE  O!Verifies(rs, ats, log)
<1> USE DEF FileSound, FileShape, LogSound
<1>1. \A i \in 1..Len(log) : O!AuditReads(rs, log, i)
  OBVIOUS
<1>2. ASSUME NEW d \in Deliveries, rs[d] # None
      PROVE  {log[i] : i \in O!EventsOf(d, log)} = O!Expected(d, rs[d], ats[d])
  <2>1. rs[d] \in O!DeliveryRow /\ ats[d] \in Seq(O!AttemptRow)
    BY <1>2
  <2>2. ASSUME NEW i \in O!EventsOf(d, log)
        PROVE  log[i] \in O!Expected(d, rs[d], ats[d])
    BY <1>2 DEF O!EventsOf, Called
  <2>3. ASSUME NEW e \in O!Expected(d, rs[d], ats[d])
        PROVE  \E i \in O!EventsOf(d, log) : log[i] = e
    <3>1. e \in Called(d, rs[d], ats[d])
      BY <1>2 DEF Called
    <3>2. PICK i \in 1..Len(log) : log[i] = e
      BY <3>1
    <3>3. e.delivery = d
      BY <2>1, CalledEvents
    <3>4. QED
      BY <3>2, <3>3 DEF O!EventsOf
  <2>4. QED
    BY <2>2, <2>3
<1>3. ASSUME NEW d \in Deliveries, rs[d] # None
      PROVE  \A i, j \in O!EventsOf(d, log) : log[i] = log[j] => i = j
  BY DEF O!EventsOf
<1>4. ASSUME NEW d \in Deliveries
      PROVE  IF rs[d] = None THEN ats[d] = <<>> ELSE O!DeliveryReads(d, rs[d], ats[d])
  BY DEF RowSound
<1>5. QED
  BY <1>1, <1>2, <1>3, <1>4 DEF O!Verifies

\* The log is extended by what the new rows call for beyond the old ones.
LogExtended(rs, ats, log, rs2, ats2, more) ==
  /\ \A d \in Deliveries : rs[d] # None => rs2[d] # None /\ rs2[d].queuedAt = rs[d].queuedAt
  /\ \A j \in 1..Len(more) :
       LET d == more[j].delivery IN
       /\ rs2[d] # None /\ more[j].at >= rs2[d].queuedAt
       /\ more[j].type = "queued" => more[j].at = rs2[d].queuedAt
       /\ more[j] \notin Called(d, rs[d], ats[d])
       /\ log # <<>> => more[j].at >= log[Len(log)].at
  /\ \A i, j \in 1..Len(more) : more[i].at = more[j].at /\ (more[i] = more[j] => i = j)
  /\ \A d \in Deliveries :
       Called(d, rs2[d], ats2[d])
         = Called(d, rs[d], ats[d]) \cup {e \in O!AuditRow : e.delivery = d /\ \E j \in 1..Len(more) : more[j] = e}

\* A sound log that is so extended is sound.
LEMMA LogExtends ==
  ASSUME NEW rs, NEW ats, NEW log \in Seq(O!AuditRow), LogSound(rs, ats, log),
         NEW rs2, NEW ats2, NEW more \in Seq(O!AuditRow), LogExtended(rs, ats, log, rs2, ats2, more)
  PROVE  LogSound(rs2, ats2, log \o more)
<1> DEFINE all == log \o more
           L == Len(log)
<1> USE DEF LogExtended
<1>1. /\ L \in Nat /\ Len(more) \in Nat /\ Len(all) = L + Len(more)
      /\ \A i \in 1..L : all[i] = log[i] /\ log[i] \in O!AuditRow
      /\ \A i \in 1..Len(all) : i > L => i - L \in 1..Len(more) /\ all[i] = more[i - L] /\ more[i - L] \in O!AuditRow
  OBVIOUS
<1>2. \A e \in O!AuditRow : e.delivery \in Deliveries /\ e.at \in Nat
  BY DEF O!AuditRow
<1>3. ASSUME NEW i \in 1..Len(all)
      PROVE  /\ O!AuditReads(rs2, all, i)
             /\ all[i] \in Called(all[i].delivery, rs2[all[i].delivery], ats2[all[i].delivery])
  <2>1. CASE i \in 1..L
    <3>1. O!AuditReads(rs, log, i) /\ log[i] \in Called(log[i].delivery, rs[log[i].delivery], ats[log[i].delivery])
      BY <2>1 DEF LogSound
    <3>2. all[i] = log[i] /\ log[i].delivery \in Deliveries /\ (i > 1 => all[i - 1] = log[i - 1])
      BY <1>1, <1>2, <2>1
    <3>3. QED
      BY <3>1, <3>2 DEF O!AuditReads
  <2>2. CASE i > L
    <3>1. i - L \in 1..Len(more) /\ all[i] = more[i - L] /\ more[i - L] \in O!AuditRow /\ more[i - L].delivery \in Deliveries
      BY <1>1, <1>2, <2>2
    <3>2. all[i] \in Called(all[i].delivery, rs2[all[i].delivery], ats2[all[i].delivery])
      BY <3>1
    <3>3. i > 1 => all[i].at >= all[i - 1].at
      <4>1. CASE i = L + 1
        <5>1. i > 1 => log # <<>> /\ all[i - 1] = log[L]
          BY <1>1, <4>1
        <5>2. QED
          BY <3>1, <5>1
      <4>2. CASE i > L + 1
        <5>1. i - 1 \in 1..Len(all) /\ i - 1 > L
          BY <1>1, <4>2
        <5>2. all[i - 1] = more[i - 1 - L] /\ i - 1 - L \in 1..Len(more) /\ more[i - L].at \in Nat
          BY <1>1, <1>2, <5>1, <3>1
        <5>3. more[i - L].at = more[i - 1 - L].at
          BY <3>1, <5>2
        <5>4. QED
          BY <3>1, <5>2, <5>3
      <4>3. QED
        BY <1>1, <2>2, <4>1, <4>2
    <3>4. QED
      BY <3>1, <3>2, <3>3 DEF O!AuditReads
  <2>3. QED
    BY <1>1, <2>1, <2>2
<1>4. ASSUME NEW d \in Deliveries, NEW e \in Called(d, rs2[d], ats2[d])
      PROVE  \E i \in 1..Len(all) : all[i] = e
  <2>1. CASE e \in Called(d, rs[d], ats[d])
    <3>1. PICK i \in 1..L : log[i] = e
      BY <2>1 DEF LogSound
    <3>2. i \in 1..Len(all) /\ all[i] = e
      BY <1>1, <3>1
    <3>3. QED
      BY <3>2
  <2>2. CASE \E j \in 1..Len(more) : more[j] = e
    <3>1. PICK j \in 1..Len(more) : more[j] = e
      BY <2>2
    <3>2. j + L \in 1..Len(all) /\ j + L > L /\ j + L - L = j
      BY <1>1, <3>1
    <3>3. QED
      BY <1>1, <3>1, <3>2
  <2>3. e \in Called(d, rs[d], ats[d]) \/ e \in {x \in O!AuditRow : x.delivery = d /\ \E j \in 1..Len(more) : more[j] = x}
    BY <1>4
  <2>4. QED
    BY <2>1, <2>2, <2>3
<1>5. ASSUME NEW i \in 1..Len(all), NEW j \in 1..Len(all), all[i] = all[j], i < j
      PROVE  FALSE
  <2>1. CASE j \in 1..L
    <3>1. i \in 1..L /\ log[i] = log[j]
      BY <1>1, <1>5, <2>1
    <3>2. QED
      BY <1>1, <1>5, <2>1, <3>1 DEF LogSound
  <2>2. CASE i > L
    <3>1. j > L /\ i - L \in 1..Len(more) /\ j - L \in 1..Len(more) /\ more[i - L] = more[j - L]
      BY <1>1, <1>5, <2>2
    <3>2. i - L = j - L
      BY <3>1
    <3>3. QED
      BY <1>1, <1>5, <3>2
  <2>3. CASE i \in 1..L /\ j > L
    <3>1. log[i] = more[j - L] /\ j - L \in 1..Len(more)
      BY <1>1, <1>5, <2>3
    <3>2. log[i] \in Called(log[i].delivery, rs[log[i].delivery], ats[log[i].delivery])
      BY <2>3 DEF LogSound
    <3>3. QED
      BY <3>1, <3>2
  <2>4. QED
    BY <1>1, <1>5, <2>1, <2>2, <2>3
<1>6. \A i, j \in 1..Len(all) : all[i] = all[j] => i = j
  <2>1. SUFFICES ASSUME NEW i \in 1..Len(all), NEW j \in 1..Len(all), all[i] = all[j], i # j
                 PROVE  FALSE
    OBVIOUS
  <2>2. i \in Nat /\ j \in Nat
    BY <1>1
  <2>3. i < j \/ j < i
    BY <2>1, <2>2
  <2>4. QED
    BY <1>5, <2>1, <2>3
<1>7. QED
  BY <1>3, <1>4, <1>6 DEF LogSound

\* What stands for nothing is no date, no result and no row.
LEMMA NoneIsNothing ==
  /\ None \notin Nat /\ None # "pending" /\ None # "delivered" /\ None # "exhausted"
  /\ \A r \in O!DeliveryRow : r # None
  /\ \A d \in Deliveries : d \in Nat /\ OccurredAt[d] \in Nat
BY OutboxAssumption

\* The fields of rows.
LEMMA RowFields ==
  /\ \A r \in O!DeliveryRow :
       /\ r.state \in {"pending", "in_flight", "delivered", "exhausted"}
       /\ r.count \in {0, 1, 2} /\ r.queuedAt \in Nat /\ r.updatedAt \in Nat
  /\ \A a \in O!AttemptRow :
       /\ a.state \in {"in_flight", "delivered", "failed", "crashed"} /\ a.startedAt \in Nat
       /\ a.finishedAt \in Nat \cup {None} /\ a.retryable \in {0, 1, None}
       /\ a.result \in {"pending", "delivered", "exhausted", None} /\ a.message \in MessageIds \cup {None}
  /\ \A e \in O!AuditRow : e.delivery \in Deliveries /\ e.at \in Nat
<1>1. \A r \in O!DeliveryRow :
       /\ r.state \in {"pending", "in_flight", "delivered", "exhausted"}
       /\ r.count \in {0, 1, 2} /\ r.queuedAt \in Nat /\ r.updatedAt \in Nat
  BY DEF O!DeliveryRow, O!MaxAttempts
<1>2. \A a \in O!AttemptRow :
       /\ a.state \in {"in_flight", "delivered", "failed", "crashed"} /\ a.startedAt \in Nat
       /\ a.finishedAt \in Nat \cup {None} /\ a.retryable \in {0, 1, None}
       /\ a.result \in {"pending", "delivered", "exhausted", None} /\ a.message \in MessageIds \cup {None}
  BY DEF O!AttemptRow
<1>3. \A e \in O!AuditRow : e.delivery \in Deliveries /\ e.at \in Nat
  BY DEF O!AuditRow
<1>4. QED
  BY <1>1, <1>2, <1>3

\* A row that reads: its attempts are as many as it counts, and the last one is as its state says.
LEMMA RowReads ==
  ASSUME NEW d \in Deliveries, NEW r \in O!DeliveryRow, NEW tries \in Seq(O!AttemptRow), RowSound(d, r, tries)
  PROVE  /\ r # None /\ O!DeliveryReads(d, r, tries) /\ RetriedAfterFailure(tries)
         /\ Len(tries) = r.count /\ r.count \in {0, 1, 2} /\ r.updatedAt >= r.queuedAt
         /\ r.queuedAt >= OccurredAt[d]
         /\ \A i \in 1..Len(tries) : tries[i] \in O!AttemptRow /\ O!AttemptReads(tries[i], i)
         /\ (r.state = "pending" /\ tries # <<>>) => tries[Len(tries)].result = "pending"
         /\ r.state = "in_flight" => /\ Len(tries) \in {1, 2} /\ r.active = Len(tries)
                                     /\ tries[Len(tries)].state = "in_flight"
         /\ tries # <<>> => r.updatedAt = (IF tries[Len(tries)].finishedAt = None THEN tries[Len(tries)].startedAt
                                        ELSE tries[Len(tries)].finishedAt)
<1>1. r # None /\ r.count \in {0, 1, 2}
  BY NoneIsNothing, RowFields
<1>2. O!DeliveryReads(d, r, tries) /\ RetriedAfterFailure(tries)
  BY <1>1 DEF RowSound
<1>3. /\ Len(tries) = r.count /\ r.updatedAt >= r.queuedAt /\ r.queuedAt >= OccurredAt[d]
      /\ r.active = (IF r.state = "in_flight" THEN r.count ELSE None)
      /\ \A i \in 1..Len(tries) : O!AttemptReads(tries[i], i)
      /\ O!LastMatches(r, tries)
      /\ tries # <<>> => r.updatedAt = (IF tries[Len(tries)].finishedAt = None THEN tries[Len(tries)].startedAt
                                     ELSE tries[Len(tries)].finishedAt)
  BY <1>2 DEF O!DeliveryReads
<1>4. \A i \in 1..Len(tries) : tries[i] \in O!AttemptRow
  OBVIOUS
<1>5. (r.state = "pending" /\ tries # <<>>) => tries[Len(tries)].result = "pending"
  BY <1>3 DEF O!LastMatches
<1>6. r.state = "in_flight" => tries # <<>> /\ tries[Len(tries)].state = "in_flight"
  BY <1>3 DEF O!LastMatches
<1>7. tries # <<>> => Len(tries) # 0
  OBVIOUS
<1>8. r.state = "in_flight" => Len(tries) \in {1, 2} /\ r.active = Len(tries)
  BY <1>1, <1>3, <1>6, <1>7
<1>9. QED
  BY <1>1, <1>2, <1>3, <1>4, <1>5, <1>6, <1>8

\* A delivery that is queued has no attempt and one event.
LEMMA QueuedRow ==
  ASSUME NEW d \in Deliveries, NEW t \in Nat, t >= OccurredAt[d], NEW tries
  PROVE  RowChanges(d, None, tries,
           [state |-> "pending", count |-> 0, active |-> None, queuedAt |-> t, updatedAt |-> t],
           <<>>, O!Event("queued", d, None, "pending", None, t))
<1> DEFINE r == [state |-> "pending", count |-> 0, active |-> None, queuedAt |-> t, updatedAt |-> t]
           e == O!Event("queued", d, None, "pending", None, t)
<1>1. r \in O!DeliveryRow
  BY DEF O!DeliveryRow, O!MaxAttempts
<1>11. r # None /\ r.queuedAt = t
  BY <1>1, NoneIsNothing
<1>2. Len(<<>>) = 0 /\ OccurredAt[d] \in Nat
  BY NoneIsNothing
<1>3. RowSound(d, r, <<>>)
  BY <1>11, <1>2 DEF RowSound, O!DeliveryReads, O!StartsInOrder, O!LastMatches, RetriedAfterFailure
<1>4. e \in O!AuditRow /\ e.at = t /\ e.delivery = d
  BY DEF O!Event, O!AuditRow, O!MaxAttempts
<1>5. O!Expected(d, r, <<>>) = {e}
  BY <1>2 DEF O!Expected
<1>6. Called(d, None, tries) = {}
  BY DEF Called
<1>7. <<>> \in Seq(O!AttemptRow)
  OBVIOUS
<1> HIDE DEF r, e
<1>8. RowChanges(d, None, tries, r, <<>>, e)
  BY <1>1, <1>11, <1>3, <1>4, <1>5, <1>6, <1>7 DEF RowChanges
<1>9. QED
  BY <1>8 DEF r, e

\* A pending delivery is claimed: one attempt more, in flight, and one event.
LEMMA ClaimedRow ==
  ASSUME NEW d \in Deliveries, NEW r \in O!DeliveryRow, NEW tries \in Seq(O!AttemptRow),
         RowSound(d, r, tries), r.state = "pending", NEW t \in Nat, t >= r.updatedAt,
         NEW n, n = r.count + 1, n <= 2
  PROVE  RowChanges(d, r, tries, O!Claimed(r, n, t), Append(tries, O!Started(t)),
                    O!Event("claimed", d, n, "in_flight", None, t))
<1> DEFINE s == O!Claimed(r, n, t)
           a == O!Started(t)
           e == O!Event("claimed", d, n, "in_flight", None, t)
           more == Append(tries, a)
<1>1. /\ n \in {1, 2} /\ Len(tries) = n - 1 /\ r.queuedAt \in Nat /\ r.updatedAt \in Nat
      /\ r.updatedAt >= r.queuedAt /\ OccurredAt[d] \in Nat /\ r.queuedAt >= OccurredAt[d]
      /\ t >= r.queuedAt
  <2>1. r.queuedAt \in Nat /\ r.updatedAt \in Nat /\ r.count \in {0, 1, 2} /\ OccurredAt[d] \in Nat
    BY RowFields, NoneIsNothing
  <2>2. Len(tries) = r.count /\ r.updatedAt >= r.queuedAt /\ r.queuedAt >= OccurredAt[d]
    BY RowReads
  <2>3. QED
    BY <2>1, <2>2
<1>2. /\ s = [state |-> "in_flight", count |-> n, active |-> n, queuedAt |-> r.queuedAt, updatedAt |-> t]
      /\ s \in O!DeliveryRow
  <2>2. s = [state |-> "in_flight", count |-> n, active |-> n, queuedAt |-> r.queuedAt, updatedAt |-> t]
    BY DEF O!Claimed
  <2> HIDE DEF s
  <2>3. s \in O!DeliveryRow
    BY <1>1, <2>2 DEF O!DeliveryRow, O!MaxAttempts
  <2>4. QED
    BY <2>2, <2>3
<1>3. a \in O!AttemptRow /\ a.startedAt = t /\ a.finishedAt = None /\ a.state = "in_flight" /\ O!AttemptReads(a, n)
  <2>1. a = [state |-> "in_flight", startedAt |-> t, finishedAt |-> None,
             retryable |-> None, result |-> None, message |-> None]
    BY DEF O!Started
  <2> HIDE DEF a
  <2>2. a \in O!AttemptRow
    BY <2>1 DEF O!AttemptRow
  <2>3. /\ a.state = "in_flight" /\ a.startedAt = t /\ a.finishedAt = None
        /\ a.retryable = None /\ a.result = None /\ a.message = None
    BY <2>1
  <2>4. O!AttemptReads(a, n)
    BY ONLY <2>3 DEF O!AttemptReads
  <2>5. QED
    BY <2>2, <2>3, <2>4
<1> HIDE DEF s, a
<1>4. /\ more \in Seq(O!AttemptRow) /\ Len(more) = n /\ more[n] = a /\ more # <<>>
      /\ \A i \in 1..Len(tries) : more[i] = tries[i] /\ tries[i] \in O!AttemptRow
      /\ 1..Len(more) = 1..Len(tries) \cup {n} /\ n \notin 1..Len(tries)
  <2>1. tries \in Seq(O!AttemptRow) /\ a \in O!AttemptRow /\ n \in {1, 2} /\ Len(tries) = n - 1
    BY <1>1, <1>3
  <2>2. /\ more \in Seq(O!AttemptRow) /\ Len(more) = n /\ more[n] = a
        /\ \A i \in 1..Len(tries) : more[i] = tries[i] /\ tries[i] \in O!AttemptRow
    BY ONLY <2>1
  <2>3. more # <<>> /\ 1..Len(more) = 1..Len(tries) \cup {n} /\ n \notin 1..Len(tries)
    BY ONLY <2>1, <2>2
  <2>4. QED
    BY <2>2, <2>3
<1> HIDE DEF more
<1>5. \A i \in 1..Len(more) : O!AttemptReads(more[i], i)
  BY <1>3, <1>4, RowReads
<1>6. n = 2 => /\ 1 \in 1..Len(tries) /\ tries[1].finishedAt = r.updatedAt
               /\ tries[1].state \in {"failed", "crashed"} /\ tries[1].retryable = 1
  <2>1. ASSUME n = 2
        PROVE  /\ Len(tries) = 1 /\ 1 \in 1..Len(tries) /\ tries # <<>> /\ tries[1] \in O!AttemptRow
    BY <1>1, <2>1
  <2>2. ASSUME n = 2
        PROVE  /\ tries[1].result = "pending" /\ O!AttemptReads(tries[1], 1)
               /\ r.updatedAt = (IF tries[1].finishedAt = None THEN tries[1].startedAt ELSE tries[1].finishedAt)
    BY <2>1, <2>2, RowReads
  <2>3. QED
    BY <2>1, <2>2, RowFields, NoneIsNothing DEF O!AttemptReads
<1>7. O!StartsInOrder(s, more)
  <2>1. more[n].startedAt = t /\ s.queuedAt = r.queuedAt
    BY <1>2, <1>3, <1>4
  <2>2. n = 2 => more[1] = tries[1]
    BY <1>4, <1>6
  <2>3. O!StartsInOrder(r, tries)
    BY RowReads DEF O!DeliveryReads
  <2>4. n = 2 => more[1].startedAt >= r.queuedAt
    BY <1>6, <2>2, <2>3 DEF O!StartsInOrder
  <2>5. CASE n = 1
    BY <1>1, <1>4, <2>1, <2>5 DEF O!StartsInOrder
  <2>6. CASE n = 2
    <3>1. \A i \in 1..2 : i = 1 \/ i = 2
      OBVIOUS
    <3>2. more[2].startedAt >= more[1].finishedAt
      BY <1>6, <2>1, <2>2, <2>6
    <3>3. QED
      BY <1>4, <2>1, <2>4, <2>6, <3>1, <3>2 DEF O!StartsInOrder
  <2>7. QED
    BY <1>1, <2>5, <2>6
<1>8. O!LastMatches(s, more)
  BY <1>2, <1>3, <1>4 DEF O!LastMatches
<1>9. RetriedAfterFailure(more)
  BY <1>1, <1>3, <1>4, <1>6 DEF RetriedAfterFailure
<1>10. O!DeliveryReads(d, s, more)
  BY <1>1, <1>2, <1>3, <1>4, <1>5, <1>7, <1>8 DEF O!DeliveryReads
<1>11. e \in O!AuditRow
  BY <1>1 DEF O!Event, O!AuditRow, O!MaxAttempts
<1>12. e \notin O!Expected(d, r, tries)
  <2>1. e # O!Event("queued", d, None, "pending", None, r.queuedAt)
    BY DEF O!Event
  <2>2. \A i \in 1..Len(tries) : e # O!Event("claimed", d, i, "in_flight", None, tries[i].startedAt)
    BY <1>4 DEF O!Event
  <2>3. \A i \in 1..Len(tries) : O!TerminalType(tries[i]) # "claimed"
    BY DEF O!TerminalType
  <2>4. \A i \in 1..Len(tries) :
          e # O!Event(O!TerminalType(tries[i]), d, i, tries[i].result, tries[i].retryable, tries[i].finishedAt)
    BY <2>3 DEF O!Event
  <2>5. QED
    BY <2>1, <2>2, <2>4 DEF O!Expected
<1>13. O!Expected(d, s, more) = O!Expected(d, r, tries) \cup {e}
  <2> HIDE DEF e
  <2>0. s.queuedAt = r.queuedAt /\ e = O!Event("claimed", d, n, "in_flight", None, more[n].startedAt)
    BY <1>2, <1>3, <1>4 DEF e
  <2>1. {O!Event("claimed", d, i, "in_flight", None, more[i].startedAt) : i \in 1..Len(more)}
           = {O!Event("claimed", d, i, "in_flight", None, tries[i].startedAt) : i \in 1..Len(tries)} \cup {e}
    BY <1>4, <2>0
  <2>2. {i \in 1..Len(more) : more[i].finishedAt # None} = {i \in 1..Len(tries) : tries[i].finishedAt # None}
    BY <1>3, <1>4
  <2>3. {O!Event(O!TerminalType(more[i]), d, i, more[i].result, more[i].retryable, more[i].finishedAt) :
                      i \in {k \in 1..Len(more) : more[k].finishedAt # None}}
           = {O!Event(O!TerminalType(tries[i]), d, i, tries[i].result, tries[i].retryable, tries[i].finishedAt) :
                      i \in {k \in 1..Len(tries) : tries[k].finishedAt # None}}
    BY <1>4, <2>2
  <2>4. QED
    BY <2>0, <2>1, <2>3 DEF O!Expected
<1>14. RowSound(d, s, more)
  BY <1>2, <1>9, <1>10, NoneIsNothing DEF RowSound
<1>15. s.queuedAt = r.queuedAt
  BY <1>2
<1>16. e.at = t /\ e.delivery = d /\ e.type = "claimed"
  BY DEF O!Event
<1>17. Called(d, r, tries) = O!Expected(d, r, tries)
  BY NoneIsNothing DEF Called
<1> HIDE DEF e
<1>18. RowChanges(d, r, tries, s, more, e)
  BY <1>1, <1>2, <1>4, <1>11, <1>12, <1>13, <1>14, <1>15, <1>16, <1>17 DEF RowChanges
<1>19. QED
  BY <1>18 DEF s, a, more, e

\* How an attempt ends.
Ending(n, state, retryable, result, message) ==
  \/ /\ state = "delivered" /\ retryable = None /\ result = "delivered"
     /\ message \in MessageIds \cup {None}
  \/ /\ state \in {"failed", "crashed"} /\ retryable \in {0, 1}
     /\ result = O!ResultOf(n, retryable) /\ message = None

EndType(state) ==
  IF state = "delivered" THEN "completed" ELSE IF state = "crashed" THEN "recovered" ELSE "failed"

\* An attempt in flight ends: its row and that of the delivery are settled, and one event is called for.
LEMMA EndedRow ==
  ASSUME NEW d \in Deliveries, NEW r \in O!DeliveryRow, NEW tries \in Seq(O!AttemptRow),
         RowSound(d, r, tries), r.state = "in_flight", NEW n, n = r.active,
         NEW t \in Nat, t >= tries[n].startedAt,
         NEW state, NEW retryable, NEW result, NEW message, Ending(n, state, retryable, result, message)
  PROVE  LET a == O!Finished(tries[n], state, t, retryable, result, message) IN
         /\ n \in 1..Len(tries) /\ O!TerminalType(a) = EndType(state)
         /\ RowChanges(d, r, tries, O!Settled(r, result, t), [tries EXCEPT ![n] = a],
                       O!Event(EndType(state), d, n, result, retryable, t))
<1> DEFINE s == O!Settled(r, result, t)
           a == O!Finished(tries[n], state, t, retryable, result, message)
           e == O!Event(EndType(state), d, n, result, retryable, t)
           new == [tries EXCEPT ![n] = a]
<1>1. /\ n \in {1, 2} /\ Len(tries) = n /\ r.count = n
      /\ r.queuedAt \in Nat /\ r.updatedAt \in Nat /\ r.updatedAt >= r.queuedAt
      /\ OccurredAt[d] \in Nat /\ r.queuedAt >= OccurredAt[d] /\ RetriedAfterFailure(tries)
  <2>1. r.queuedAt \in Nat /\ r.updatedAt \in Nat /\ OccurredAt[d] \in Nat
    BY RowFields, NoneIsNothing
  <2>2. /\ Len(tries) = r.count /\ r.updatedAt >= r.queuedAt /\ r.queuedAt >= OccurredAt[d]
        /\ Len(tries) \in {1, 2} /\ n = Len(tries) /\ RetriedAfterFailure(tries)
    BY RowReads
  <2>3. QED
    BY <2>1, <2>2
<1>2. /\ n \in 1..Len(tries) /\ tries # <<>> /\ tries[n] \in O!AttemptRow /\ tries[n].state = "in_flight"
      /\ tries[n].finishedAt = None /\ tries[n].startedAt \in Nat /\ tries[n].startedAt >= r.queuedAt /\ t >= r.queuedAt
  <2>1. n \in 1..Len(tries) /\ tries # <<>>
    BY <1>1
  <2>2. tries[n] \in O!AttemptRow /\ tries[n].state = "in_flight" /\ O!AttemptReads(tries[n], n)
    BY <1>1, <2>1, RowReads
  <2>3. tries[n].finishedAt = None
    BY <2>2 DEF O!AttemptReads
  <2>4. r.updatedAt = tries[n].startedAt
    BY <1>1, <2>1, <2>3, RowReads
  <2>5. QED
    BY <1>1, <2>1, <2>2, <2>3, <2>4
<1>3. /\ result \in {"pending", "delivered", "exhausted"} /\ retryable \in {0, 1, None}
      /\ message \in MessageIds \cup {None} /\ state \in {"delivered", "failed", "crashed"}
  BY DEF Ending, O!ResultOf
<1>4. /\ a = [state |-> state, startedAt |-> tries[n].startedAt, finishedAt |-> t,
              retryable |-> retryable, result |-> result, message |-> message]
      /\ a \in O!AttemptRow /\ a.finishedAt # None
  <2>1. a = [state |-> state, startedAt |-> tries[n].startedAt, finishedAt |-> t,
              retryable |-> retryable, result |-> result, message |-> message]
    BY DEF O!Finished
  <2> HIDE DEF a
  <2>2. a \in O!AttemptRow
    BY <1>2, <1>3, <2>1 DEF O!AttemptRow
  <2>3. QED
    BY <2>1, <2>2, NoneIsNothing
<1>5. /\ s = [state |-> result, count |-> n, active |-> None, queuedAt |-> r.queuedAt, updatedAt |-> t]
      /\ s \in O!DeliveryRow
  <2>1. s = [state |-> result, count |-> n, active |-> None, queuedAt |-> r.queuedAt, updatedAt |-> t]
    BY <1>1 DEF O!Settled
  <2> HIDE DEF s
  <2>2. s \in O!DeliveryRow
    BY <1>1, <1>3, <2>1 DEF O!DeliveryRow, O!MaxAttempts
  <2>3. QED
    BY <2>1, <2>2
<1> HIDE DEF s, a
<1>6. /\ new \in Seq(O!AttemptRow) /\ Len(new) = n /\ new[n] = a /\ new # <<>>
      /\ \A i \in 1..n : i # n => new[i] = tries[i]
      /\ 1..Len(new) = 1..n /\ 1..Len(tries) = 1..n /\ n \in 1..n
  BY <1>1, <1>2, <1>4
<1> HIDE DEF new
<1>7. O!AttemptReads(a, n)
  BY <1>1, <1>2, <1>4, NoneIsNothing DEF O!AttemptReads, Ending, O!ResultOf, O!MaxAttempts
<1>8. \A i \in 1..Len(new) : O!AttemptReads(new[i], i)
  BY <1>1, <1>6, <1>7, RowReads
<1>9. O!StartsInOrder(s, new)
  <2>1. new[n].startedAt = tries[n].startedAt /\ s.queuedAt = r.queuedAt
    BY <1>4, <1>5, <1>6
  <2>2. \A i \in 1..n : i > 1 => i - 1 \in 1..n /\ i - 1 # n
    BY <1>1
  <2>3. O!StartsInOrder(r, tries)
    BY RowReads DEF O!DeliveryReads
  <2>4. \A i \in 1..n : i # 1 => i > 1
    BY <1>1
  <2>5. \A i \in 1..n : new[i].startedAt = tries[i].startedAt
    BY <1>6, <2>1
  <2>6. \A i \in 1..n : i # 1 => new[i - 1] = tries[i - 1]
    BY <1>6, <2>2, <2>4
  <2>7. QED
    BY <1>6, <2>1, <2>3, <2>5, <2>6 DEF O!StartsInOrder
<1>10. O!LastMatches(s, new)
  BY <1>4, <1>5, <1>6 DEF O!LastMatches, Ending, O!ResultOf
<1>11. RetriedAfterFailure(new)
  BY <1>1, <1>4, <1>6 DEF RetriedAfterFailure
<1>12. O!DeliveryReads(d, s, new)
  <2>1. s.updatedAt = new[Len(new)].finishedAt /\ new[Len(new)].finishedAt # None
    BY <1>4, <1>5, <1>6
  <2>2. s.queuedAt >= OccurredAt[d] /\ s.updatedAt >= s.queuedAt
    BY <1>1, <1>2, <1>5
  <2>3. s.state # "in_flight" /\ s.active = None /\ s.count = n
    BY <1>3, <1>5
  <2>4. QED
    BY <1>6, <1>8, <1>9, <1>10, <2>1, <2>2, <2>3 DEF O!DeliveryReads
<1>13. O!TerminalType(a) = EndType(state) /\ EndType(state) \in {"completed", "recovered", "failed"}
  BY <1>4 DEF O!TerminalType, EndType
<1>14. e \in O!AuditRow
  BY <1>1, <1>3, <1>13 DEF O!Event, O!AuditRow, O!MaxAttempts
<1>15. e \notin O!Expected(d, r, tries)
  <2>1. e # O!Event("queued", d, None, "pending", None, r.queuedAt)
    BY <1>13 DEF O!Event
  <2>2. \A i \in 1..Len(tries) : e # O!Event("claimed", d, i, "in_flight", None, tries[i].startedAt)
    BY <1>13 DEF O!Event
  <2>3. \A i \in 1..Len(tries) : tries[i].finishedAt # None =>
          e # O!Event(O!TerminalType(tries[i]), d, i, tries[i].result, tries[i].retryable, tries[i].finishedAt)
    BY <1>2 DEF O!Event
  <2>4. QED
    BY <2>1, <2>2, <2>3 DEF O!Expected
<1>16. O!Expected(d, s, new) = O!Expected(d, r, tries) \cup {e}
  <2>3. e = O!Event(O!TerminalType(new[n]), d, n, new[n].result, new[n].retryable, new[n].finishedAt)
        /\ new[n].finishedAt # None /\ s.queuedAt = r.queuedAt
    BY <1>4, <1>5, <1>6, <1>13
  <2> HIDE DEF e
  <2>1. \A i \in 1..n : new[i].startedAt = tries[i].startedAt
    BY <1>1, <1>4, <1>6
  <2>2. {O!Event("claimed", d, i, "in_flight", None, new[i].startedAt) : i \in 1..Len(new)}
           = {O!Event("claimed", d, i, "in_flight", None, tries[i].startedAt) : i \in 1..Len(tries)}
    BY <1>6, <2>1
  <2>4. {i \in 1..Len(new) : new[i].finishedAt # None} = {i \in 1..Len(tries) : tries[i].finishedAt # None} \cup {n}
    BY <1>6, <2>3
  <2>6. \A i \in 1..Len(tries) : tries[i].finishedAt # None => new[i] = tries[i]
    BY <1>2, <1>6
  <2>5. {O!Event(O!TerminalType(new[i]), d, i, new[i].result, new[i].retryable, new[i].finishedAt) :
                      i \in {k \in 1..Len(new) : new[k].finishedAt # None}}
           = {O!Event(O!TerminalType(tries[i]), d, i, tries[i].result, tries[i].retryable, tries[i].finishedAt) :
                      i \in {k \in 1..Len(tries) : tries[k].finishedAt # None}} \cup {e}
    BY <2>3, <2>4, <2>6
  <2>7. QED
    BY <2>2, <2>3, <2>5 DEF O!Expected
<1>17. RowSound(d, s, new)
  BY <1>5, <1>11, <1>12, NoneIsNothing DEF RowSound
<1>18. s.queuedAt = r.queuedAt
  BY <1>5
<1>19. e.at = t /\ e.delivery = d /\ e.type # "queued"
  BY <1>13 DEF O!Event
<1>20. Called(d, r, tries) = O!Expected(d, r, tries)
  BY NoneIsNothing DEF Called
<1> HIDE DEF e
<1>21. RowChanges(d, r, tries, s, new, e)
  BY <1>2, <1>5, <1>6, <1>14, <1>15, <1>16, <1>17, <1>18, <1>19, <1>20 DEF RowChanges
<1>22. QED
  BY <1>2, <1>13, <1>21 DEF s, a, new, e

\* The row and the attempts of one delivery change, with one event.
LEMMA OneChanges ==
  ASSUME NEW rs, NEW ats, NEW log, FileSound(rs, ats, log),
         NEW d \in Deliveries, NEW s, NEW new, NEW e, RowChanges(d, rs[d], ats[d], s, new, e),
         log # <<>> => e.at >= log[Len(log)].at
  PROVE  FileSound([rs EXCEPT ![d] = s], [ats EXCEPT ![d] = new], Append(log, e))
<1> DEFINE rs2 == [rs EXCEPT ![d] = s]
           ats2 == [ats EXCEPT ![d] = new]
           more == <<e>>
<1>1. /\ rs \in [Deliveries -> O!DeliveryRow \cup {None}] /\ ats \in [Deliveries -> Seq(O!AttemptRow)]
      /\ log \in Seq(O!AuditRow) /\ s # None /\ LogSound(rs, ats, log)
      /\ \A x \in Deliveries : RowSound(x, rs[x], ats[x])
      /\ s \in O!DeliveryRow /\ new \in Seq(O!AttemptRow) /\ e \in O!AuditRow
  BY NoneIsNothing DEF FileSound, FileShape, RowChanges
<1>0. /\ RowSound(d, s, new) /\ e.delivery = d /\ e.at >= s.queuedAt
      /\ rs[d] # None => s.queuedAt = rs[d].queuedAt
      /\ e.type = "queued" => e.at = s.queuedAt
      /\ e \notin Called(d, rs[d], ats[d]) /\ O!Expected(d, s, new) = Called(d, rs[d], ats[d]) \cup {e}
  BY DEF RowChanges
<1>2. /\ rs2 \in [Deliveries -> O!DeliveryRow \cup {None}] /\ ats2 \in [Deliveries -> Seq(O!AttemptRow)]
      /\ rs2[d] = s /\ ats2[d] = new
      /\ \A x \in Deliveries : x # d => rs2[x] = rs[x] /\ ats2[x] = ats[x]
  BY <1>1
<1>3. /\ more \in Seq(O!AuditRow) /\ Len(more) = 1 /\ more[1] = e
      /\ Append(log, e) = log \o more /\ Append(log, e) \in Seq(O!AuditRow)
      /\ \A j \in 1..1 : j = 1
  BY <1>1, AppendIsConcat, AppendProperties
<1> HIDE DEF rs2, ats2, more
<1>4. \A x \in Deliveries : RowSound(x, rs2[x], ats2[x])
  BY <1>0, <1>1, <1>2
<1>5. \A x \in Deliveries : rs[x] # None => rs2[x] # None /\ rs2[x].queuedAt = rs[x].queuedAt
  BY <1>0, <1>1, <1>2
<1>6. \A j \in 1..Len(more) :
        LET y == more[j].delivery IN
        /\ rs2[y] # None /\ more[j].at >= rs2[y].queuedAt
        /\ more[j].type = "queued" => more[j].at = rs2[y].queuedAt
        /\ more[j] \notin Called(y, rs[y], ats[y])
        /\ log # <<>> => more[j].at >= log[Len(log)].at
  BY <1>0, <1>1, <1>2, <1>3
<1>7. \A i, j \in 1..Len(more) : more[i].at = more[j].at /\ (more[i] = more[j] => i = j)
  BY <1>3
<1>8. ASSUME NEW x \in Deliveries
      PROVE  Called(x, rs2[x], ats2[x])
               = Called(x, rs[x], ats[x]) \cup {y \in O!AuditRow : y.delivery = x /\ \E j \in 1..Len(more) : more[j] = y}
  <2>1. CASE x = d
    <3>1. Called(x, rs2[x], ats2[x]) = O!Expected(d, s, new)
      BY <1>1, <1>2, <2>1 DEF Called
    <3>2. {y \in O!AuditRow : y.delivery = x /\ \E j \in 1..Len(more) : more[j] = y} = {e}
      BY <1>0, <1>1, <1>3, <2>1
    <3>3. QED
      BY <1>0, <2>1, <3>1, <3>2
  <2>2. CASE x # d
    <3>1. {y \in O!AuditRow : y.delivery = x /\ \E j \in 1..Len(more) : more[j] = y} = {}
      BY <1>0, <1>3, <2>2
    <3>2. QED
      BY <1>2, <2>2, <3>1
  <2>3. QED
    BY <2>1, <2>2
<1>9. LogExtended(rs, ats, log, rs2, ats2, more)
  BY <1>5, <1>6, <1>7, <1>8 DEF LogExtended
<1>11. LogSound(rs2, ats2, log \o more)
  BY <1>1, <1>3, <1>9, LogExtends
<1>10. QED
  BY <1>2, <1>3, <1>4, <1>11 DEF FileSound, FileShape, rs2, ats2

\* What follows the retained prefix does not change it.
LEMMA PrefixStays ==
  ASSUME NEW p \in Seq(O!AuditRow), NEW log \in Seq(O!AuditRow), NEW more \in Seq(O!AuditRow),
         O!IsPrefix(p, log)
  PROVE  O!IsPrefix(p, log \o more)
<1>1. /\ Len(p) \in Nat /\ Len(log) \in Nat /\ Len(p) <= Len(log) /\ Len(log \o more) >= Len(log)
      /\ SubSeq(p, 1, Len(p)) = SubSeq(log, 1, Len(p))
  BY DEF O!IsPrefix
<1>2. SubSeq(log \o more, 1, Len(p)) = SubSeq(log, 1, Len(p))
  BY <1>1
<1>3. QED
  BY <1>1, <1>2 DEF O!IsPrefix

\* What the retained prefix shows is in the log, at its place.
LEMMA PrefixShows ==
  ASSUME NEW p \in Seq(O!AuditRow), NEW log \in Seq(O!AuditRow), O!IsPrefix(p, log), NEW i \in 1..Len(p)
  PROVE  i \in 1..Len(log) /\ log[i] = p[i]
<1>1. /\ Len(p) \in Nat /\ Len(log) \in Nat /\ Len(p) <= Len(log)
      /\ SubSeq(p, 1, Len(p)) = SubSeq(log, 1, Len(p))
  BY DEF O!IsPrefix
<1>2. SubSeq(p, 1, Len(p))[i] = p[i] /\ SubSeq(log, 1, Len(p))[i] = log[i]
  BY <1>1
<1>3. QED
  BY <1>1, <1>2

\* A log is a prefix of itself.
LEMMA PrefixOfItself ==
  ASSUME NEW log \in Seq(O!AuditRow)
  PROVE  O!IsPrefix(log, log)
BY DEF O!IsPrefix

\* A new outbox is sound.
LEMMA OutboxInitially == O!Init => OutboxInv
<1> SUFFICES ASSUME O!Init
             PROVE  OutboxInv
  OBVIOUS
<1>1. /\ rows = [d \in Deliveries |-> None] /\ deliveries = [d \in Deliveries |-> <<>>]
      /\ outboxLog = <<>> /\ open = TRUE /\ pin = None /\ copy = None
  BY DEF O!Init
<1>2. <<>> \in Seq(O!AuditRow) /\ <<>> \in Seq(O!AttemptRow) /\ Len(<<>>) = 0
  OBVIOUS
<1>3. FileShape(rows, deliveries, outboxLog)
  BY <1>1, <1>2 DEF FileShape
<1>4. \A d \in Deliveries : RowSound(d, rows[d], deliveries[d])
  BY <1>1 DEF RowSound
<1>5. LogSound(rows, deliveries, outboxLog)
  BY <1>1, <1>2 DEF LogSound, Called
<1>6. QED
  BY <1>1, <1>3, <1>4, <1>5 DEF OutboxInv, FileSound

\* A transaction that appends to the log of a sound file and leaves a sound one keeps the invariant.
LEMMA AppendsKeep ==
  ASSUME OutboxInv, NEW more \in Seq(O!AuditRow), outboxLog' = outboxLog \o more,
         FileSound(rows', deliveries', outboxLog'), UNCHANGED <<open, pin, copy>>
  PROVE  OutboxInv'
<1>1. outboxLog \in Seq(O!AuditRow)
  BY DEF OutboxInv, FileSound, FileShape
<1>2. open' /\ pin' # None => O!IsPrefix(pin', outboxLog')
  BY <1>1, PrefixStays DEF OutboxInv
<1>3. QED
  BY <1>2 DEF OutboxInv

\* An incident is queued once.
LEMMA EnqueueKeepsOutbox ==
  ASSUME OutboxInv, NEW d \in Deliveries, NEW t \in Nat, O!Enqueue(d, t)
  PROVE  OutboxInv'
<1> DEFINE r == [state |-> "pending", count |-> 0, active |-> None, queuedAt |-> t, updatedAt |-> t]
           e == O!Event("queued", d, None, "pending", None, t)
<1>1. /\ t >= OccurredAt[d] /\ rows[d] = None /\ O!NotBackward(t)
      /\ rows' = [rows EXCEPT ![d] = r] /\ outboxLog' = Append(outboxLog, e)
      /\ UNCHANGED deliveries /\ UNCHANGED <<open, pin, copy>>
  BY DEF O!Enqueue
<1>2. /\ FileSound(rows, deliveries, outboxLog) /\ outboxLog \in Seq(O!AuditRow)
      /\ deliveries \in [Deliveries -> Seq(O!AttemptRow)] /\ deliveries[d] = <<>>
  BY <1>1 DEF OutboxInv, FileSound, FileShape, RowSound
<1>3. RowChanges(d, rows[d], deliveries[d], r, <<>>, e)
  BY <1>1, QueuedRow
<1>4. e.at = t
  BY DEF O!Event
<1> HIDE DEF r, e
<1>5. outboxLog # <<>> => e.at >= outboxLog[Len(outboxLog)].at
  BY <1>1, <1>4 DEF O!NotBackward
<1>6. deliveries' = [deliveries EXCEPT ![d] = <<>>]
  BY <1>1, <1>2
<1>7. FileSound([rows EXCEPT ![d] = r], [deliveries EXCEPT ![d] = <<>>], Append(outboxLog, e))
  BY <1>2, <1>3, <1>5, OneChanges
<1>8. FileSound(rows', deliveries', outboxLog')
  BY <1>1, <1>6, <1>7
<1>9. e \in O!AuditRow
  BY <1>3 DEF RowChanges
<1>10. <<e>> \in Seq(O!AuditRow) /\ outboxLog' = outboxLog \o <<e>>
  BY <1>1, <1>2, <1>9, AppendIsConcat
<1>11. QED
  BY <1>1, <1>8, <1>10, AppendsKeep

\* The oldest pending delivery is claimed.
LEMMA ClaimKeepsOutbox ==
  ASSUME OutboxInv, NEW p \in Planes, NEW t \in Nat, O!Claim(p, t)
  PROVE  OutboxInv'
<1>1. PICK d \in Deliveries :
        /\ O!Oldest(p, d) /\ t >= rows[d].updatedAt /\ rows[d].count + 1 <= 2
        /\ rows' = [rows EXCEPT ![d] = O!Claimed(rows[d], rows[d].count + 1, t)]
        /\ deliveries' = [deliveries EXCEPT ![d] = Append(deliveries[d], O!Started(t))]
        /\ outboxLog' = Append(outboxLog, O!Event("claimed", d, rows[d].count + 1, "in_flight", None, t))
  BY DEF O!Claim, O!MaxAttempts, OutboxInv, FileSound, FileShape
<1>2. O!NotBackward(t) /\ UNCHANGED <<open, pin, copy>>
  BY DEF O!Claim
<1> DEFINE n == rows[d].count + 1
           s == O!Claimed(rows[d], n, t)
           new == Append(deliveries[d], O!Started(t))
           e == O!Event("claimed", d, n, "in_flight", None, t)
<1>3. rows[d] # None /\ rows[d].state = "pending"
  BY <1>1 DEF O!Oldest, O!In
<1>4. /\ FileSound(rows, deliveries, outboxLog) /\ outboxLog \in Seq(O!AuditRow)
      /\ rows[d] \in O!DeliveryRow /\ deliveries[d] \in Seq(O!AttemptRow)
      /\ RowSound(d, rows[d], deliveries[d])
  BY <1>3 DEF OutboxInv, FileSound, FileShape
<1>5. RowChanges(d, rows[d], deliveries[d], s, new, e)
  BY <1>1, <1>3, <1>4, ClaimedRow
<1>6. e.at = t
  BY DEF O!Event
<1> HIDE DEF s, new, e
<1>7. outboxLog # <<>> => e.at >= outboxLog[Len(outboxLog)].at
  BY <1>2, <1>6 DEF O!NotBackward
<1>8. FileSound([rows EXCEPT ![d] = s], [deliveries EXCEPT ![d] = new], Append(outboxLog, e))
  BY <1>4, <1>5, <1>7, OneChanges
<1>9. FileSound(rows', deliveries', outboxLog')
  BY <1>1, <1>8 DEF s, new, e
<1>10. e \in O!AuditRow
  BY <1>5 DEF RowChanges
<1>11. <<e>> \in Seq(O!AuditRow) /\ outboxLog' = outboxLog \o <<e>>
  <2>1. outboxLog' = Append(outboxLog, e)
    BY <1>1 DEF e
  <2>2. QED
    BY <1>4, <1>10, <2>1, AppendIsConcat
<1>12. QED
  BY <1>2, <1>9, <1>11, AppendsKeep

\* An attempt that is answered or fails ends.
LEMMA EndKeepsOutbox ==
  ASSUME OutboxInv, NEW d \in Deliveries, NEW n \in 1..2, NEW t \in Nat,
         NEW type, NEW state, NEW retryable, NEW result, NEW message,
         Ending(n, state, retryable, result, message),
         type = EndType(state),
         O!End(d, n, type, state, t, retryable, result, message)
  PROVE  OutboxInv'
<1> DEFINE s == O!Settled(rows[d], result, t)
           a == O!Finished(deliveries[d][n], state, t, retryable, result, message)
           new == [deliveries[d] EXCEPT ![n] = a]
           e == O!Event(type, d, n, result, retryable, t)
<1>1. /\ O!ActiveAttempt(d, n) /\ t >= deliveries[d][n].startedAt /\ O!NotBackward(t)
      /\ UNCHANGED <<open, pin, copy>>
  BY DEF O!End
<1>2. rows[d] # None /\ rows[d].state = "in_flight" /\ n = rows[d].active
  BY <1>1 DEF O!ActiveAttempt, O!In
<1>3. /\ FileSound(rows, deliveries, outboxLog) /\ outboxLog \in Seq(O!AuditRow)
      /\ rows \in [Deliveries -> O!DeliveryRow \cup {None}]
      /\ deliveries \in [Deliveries -> Seq(O!AttemptRow)]
      /\ rows[d] \in O!DeliveryRow /\ deliveries[d] \in Seq(O!AttemptRow)
      /\ RowSound(d, rows[d], deliveries[d])
  BY <1>2 DEF OutboxInv, FileSound, FileShape
<1>4. RowChanges(d, rows[d], deliveries[d], s, new, e)
  BY <1>1, <1>2, <1>3, EndedRow
<1>6. e.at = t
  BY DEF O!Event
<1>7. /\ rows' = [rows EXCEPT ![d] = s]
      /\ deliveries' = [deliveries EXCEPT ![d] = new]
      /\ outboxLog' = Append(outboxLog, e)
  <2> HIDE DEF a, s, e
  <2>1. /\ rows' = [rows EXCEPT ![d] = s]
        /\ deliveries' = [deliveries EXCEPT ![d][n] = a]
    BY <1>3 DEF O!End, a, s
  <2>2. deliveries' = [deliveries EXCEPT ![d] = new]
    BY <1>3, <2>1
  <2>3. outboxLog' = Append(outboxLog, e)
    BY DEF O!End, e
  <2>4. QED
    BY <2>1, <2>2, <2>3
<1> HIDE DEF s, a, new, e
<1>8. outboxLog # <<>> => e.at >= outboxLog[Len(outboxLog)].at
  BY <1>1, <1>6 DEF O!NotBackward
<1>9. FileSound([rows EXCEPT ![d] = s], [deliveries EXCEPT ![d] = new], Append(outboxLog, e))
  BY <1>3, <1>4, <1>8, OneChanges
<1>10. FileSound(rows', deliveries', outboxLog')
  BY <1>7, <1>9
<1>11. e \in O!AuditRow
  BY <1>4 DEF RowChanges
<1>12. <<e>> \in Seq(O!AuditRow) /\ outboxLog' = outboxLog \o <<e>>
  BY <1>3, <1>7, <1>11, AppendIsConcat
<1>13. QED
  BY <1>1, <1>10, <1>12, AppendsKeep

\* A recovery ends every attempt in flight.
LEMMA RecoverKeepsOutbox ==
  ASSUME OutboxInv, NEW t \in Nat, O!Recover(t)
  PROVE  OutboxInv'
<1> DEFINE retry(d) == IF rows[d].active < 2 THEN 1 ELSE 0
           result(d) == IF rows[d].active < 2 THEN "pending" ELSE "exhausted"
           s(d) == O!Settled(rows[d], result(d), t)
           a(d) == O!Finished(deliveries[d][rows[d].active], "crashed", t, retry(d), result(d), None)
           new(d) == [deliveries[d] EXCEPT ![rows[d].active] = a(d)]
           e(d) == O!Event("recovered", d, rows[d].active, result(d), retry(d), t)
           F == O!InFlight
<1>1. /\ \A d \in F : t >= rows[d].updatedAt
      /\ O!NotBackward(t) /\ UNCHANGED <<open, pin, copy>>
      /\ deliveries' = [d \in Deliveries |-> IF d \in F THEN new(d) ELSE deliveries[d]]
      /\ rows' = [d \in Deliveries |-> IF d \in F THEN s(d) ELSE rows[d]]
  BY DEF O!Recover, O!MaxAttempts
<1>2. \E n \in Nat : \E order \in [1..n -> F] :
        /\ \A d \in F : \E i \in 1..n : order[i] = d
        /\ \A i, j \in 1..n : i < j => order[i] # order[j]
        /\ outboxLog' = outboxLog \o [i \in 1..n |-> e(order[i])]
  <2>1. \E n \in 1..O!Cardinality(F) : \E order \in [1..n -> F] :
          /\ \A d \in F : \E i \in 1..n : order[i] = d
          /\ \A i, j \in 1..n : i < j =>
               \/ rows[order[i]].updatedAt < rows[order[j]].updatedAt
               \/ rows[order[i]].updatedAt = rows[order[j]].updatedAt /\ order[i] < order[j]
          /\ outboxLog' = outboxLog \o [i \in 1..n |-> e(order[i])]
    BY DEF O!Recover, O!MaxAttempts
  <2>7. PICK n \in 1..O!Cardinality(F) : \E order \in [1..n -> F] :
          /\ \A d \in F : \E i \in 1..n : order[i] = d
          /\ \A i, j \in 1..n : i < j =>
               \/ rows[order[i]].updatedAt < rows[order[j]].updatedAt
               \/ rows[order[i]].updatedAt = rows[order[j]].updatedAt /\ order[i] < order[j]
          /\ outboxLog' = outboxLog \o [i \in 1..n |-> e(order[i])]
    BY <2>1
  <2>2. PICK order \in [1..n -> F] :
          /\ \A d \in F : \E i \in 1..n : order[i] = d
          /\ \A i, j \in 1..n : i < j =>
               \/ rows[order[i]].updatedAt < rows[order[j]].updatedAt
               \/ rows[order[i]].updatedAt = rows[order[j]].updatedAt /\ order[i] < order[j]
          /\ outboxLog' = outboxLog \o [i \in 1..n |-> e(order[i])]
    BY <2>7
  <2>3. n \in Nat
    OBVIOUS
  <2>4. \A d \in F : rows[d].updatedAt \in Nat /\ d \in Nat
    BY RowFields, NoneIsNothing DEF OutboxInv, FileSound, FileShape, O!InFlight, O!In
  <2>5. ASSUME NEW i \in 1..n, NEW j \in 1..n, i < j
        PROVE  order[i] # order[j]
    <3>1. order[i] \in F /\ order[j] \in F
      OBVIOUS
    <3>2. \/ rows[order[i]].updatedAt < rows[order[j]].updatedAt
          \/ rows[order[i]].updatedAt = rows[order[j]].updatedAt /\ order[i] < order[j]
      BY <2>2, <2>5
    <3>3. QED
      BY <2>4, <3>1, <3>2
  <2>6. QED
    BY <2>2, <2>3, <2>5
<1>18. PICK n \in Nat : \E order \in [1..n -> F] :
        /\ \A d \in F : \E i \in 1..n : order[i] = d
        /\ \A i, j \in 1..n : i < j => order[i] # order[j]
        /\ outboxLog' = outboxLog \o [i \in 1..n |-> e(order[i])]
  BY <1>2
<1>3. PICK order \in [1..n -> F] :
        /\ \A d \in F : \E i \in 1..n : order[i] = d
        /\ \A i, j \in 1..n : i < j => order[i] # order[j]
        /\ outboxLog' = outboxLog \o [i \in 1..n |-> e(order[i])]
  BY <1>18
<1>4. /\ rows \in [Deliveries -> O!DeliveryRow \cup {None}] /\ deliveries \in [Deliveries -> Seq(O!AttemptRow)]
      /\ outboxLog \in Seq(O!AuditRow) /\ LogSound(rows, deliveries, outboxLog)
      /\ \A d \in Deliveries : RowSound(d, rows[d], deliveries[d])
  BY DEF OutboxInv, FileSound, FileShape
<1>5. \A d \in F : d \in Deliveries /\ rows[d] # None /\ rows[d] \in O!DeliveryRow /\ rows[d].state = "in_flight"
  BY <1>4 DEF O!InFlight, O!In
<1>6. ASSUME NEW d \in F
      PROVE  RowChanges(d, rows[d], deliveries[d], s(d), new(d), e(d))
  <2>1. rows[d] \in O!DeliveryRow /\ deliveries[d] \in Seq(O!AttemptRow) /\ RowSound(d, rows[d], deliveries[d])
        /\ d \in Deliveries /\ rows[d].state = "in_flight"
    BY <1>4, <1>5
  <2>2. /\ Len(deliveries[d]) \in {1, 2} /\ rows[d].active = Len(deliveries[d]) /\ deliveries[d] # <<>>
        /\ deliveries[d][rows[d].active].state = "in_flight"
        /\ O!AttemptReads(deliveries[d][rows[d].active], rows[d].active)
        /\ rows[d].updatedAt = (IF deliveries[d][rows[d].active].finishedAt = None
                                THEN deliveries[d][rows[d].active].startedAt
                                ELSE deliveries[d][rows[d].active].finishedAt)
    <3>1. Len(deliveries[d]) \in {1, 2} /\ rows[d].active = Len(deliveries[d])
      BY <2>1, RowReads
    <3>2. deliveries[d] # <<>> /\ rows[d].active \in 1..Len(deliveries[d])
      BY <3>1
    <3>3. QED
      BY <2>1, <3>1, <3>2, RowReads
  <2>3. deliveries[d][rows[d].active].finishedAt = None
    BY <2>2 DEF O!AttemptReads
  <2>4. t >= deliveries[d][rows[d].active].startedAt
    BY <1>1, <2>2, <2>3
  <2>5. Ending(rows[d].active, "crashed", retry(d), result(d), None)
    BY <2>2 DEF Ending, O!ResultOf, O!MaxAttempts
  <2>6. EndType("crashed") = "recovered"
    BY DEF EndType
  <2> HIDE DEF retry, result
  <2>7. PICK k : k = rows[d].active
    OBVIOUS
  <2>8. RowChanges(d, rows[d], deliveries[d], O!Settled(rows[d], result(d), t),
          [deliveries[d] EXCEPT ![k] = O!Finished(deliveries[d][k], "crashed", t, retry(d), result(d), None)],
          O!Event(EndType("crashed"), d, k, result(d), retry(d), t))
    <3>1. k = rows[d].active /\ t >= deliveries[d][k].startedAt /\ Ending(k, "crashed", retry(d), result(d), None)
      BY <2>4, <2>5, <2>7
    <3>2. QED
      BY <2>1, <3>1, EndedRow
  <2>9. QED
    BY <2>6, <2>7, <2>8
<1>7. \A d : e(d).at = t /\ e(d).delivery = d
  BY DEF O!Event
<1> HIDE DEF retry, result, s, a, new, e, F
<1> DEFINE more == [i \in 1..n |-> e(order[i])]
<1>8. /\ \A i \in 1..n : order[i] \in F /\ e(order[i]) \in O!AuditRow
      /\ more \in Seq(O!AuditRow) /\ Len(more) = n /\ \A i \in 1..n : more[i] = e(order[i])
  <2>1. \A i \in 1..n : order[i] \in F /\ e(order[i]) \in O!AuditRow
    BY <1>6 DEF RowChanges
  <2>2. QED
    BY <2>1
<1> HIDE DEF more
<1>9. \A d \in Deliveries : /\ d \in F => rows'[d] = s(d) /\ deliveries'[d] = new(d)
                            /\ d \notin F => rows'[d] = rows[d] /\ deliveries'[d] = deliveries[d]
  BY <1>1
<1>10. \A d \in F : /\ s(d) \in O!DeliveryRow /\ s(d) # None /\ new(d) \in Seq(O!AttemptRow) /\ RowSound(d, s(d), new(d))
                    /\ s(d).queuedAt = rows[d].queuedAt
                    /\ e(d).at >= s(d).queuedAt /\ (e(d).type = "queued" => e(d).at = s(d).queuedAt)
                    /\ e(d) \notin Called(d, rows[d], deliveries[d])
                    /\ Called(d, s(d), new(d)) = Called(d, rows[d], deliveries[d]) \cup {e(d)}
  <2>1. ASSUME NEW d \in F
        PROVE  /\ s(d) \in O!DeliveryRow /\ new(d) \in Seq(O!AttemptRow) /\ RowSound(d, s(d), new(d))
               /\ s(d).queuedAt = rows[d].queuedAt
               /\ e(d).at >= s(d).queuedAt /\ (e(d).type = "queued" => e(d).at = s(d).queuedAt)
               /\ e(d) \notin Called(d, rows[d], deliveries[d])
               /\ O!Expected(d, s(d), new(d)) = Called(d, rows[d], deliveries[d]) \cup {e(d)}
    BY <1>5, <1>6 DEF RowChanges
  <2>2. ASSUME NEW d \in F
        PROVE  s(d) # None /\ Called(d, s(d), new(d)) = O!Expected(d, s(d), new(d))
    BY <2>1, NoneIsNothing DEF Called
  <2>3. QED
    BY <2>1, <2>2
<1>11. FileShape(rows', deliveries', outboxLog')
  <2>1. rows' \in [Deliveries -> O!DeliveryRow \cup {None}] /\ deliveries' \in [Deliveries -> Seq(O!AttemptRow)]
    BY <1>1, <1>4, <1>10
  <2>2. outboxLog' = outboxLog \o more
    BY <1>3 DEF more
  <2>3. outboxLog' \in Seq(O!AuditRow)
    BY <1>4, <1>8, <2>2
  <2>4. QED
    BY <2>1, <2>3 DEF FileShape
<1>12. \A d \in Deliveries : RowSound(d, rows'[d], deliveries'[d])
  BY <1>4, <1>9, <1>10
<1>13. LogExtended(rows, deliveries, outboxLog, rows', deliveries', more)
  <2>1. \A d \in Deliveries : rows[d] # None => rows'[d] # None /\ rows'[d].queuedAt = rows[d].queuedAt
    BY <1>9, <1>10
  <2>2. ASSUME NEW j \in 1..Len(more)
        PROVE  LET d == more[j].delivery IN
               /\ rows'[d] # None /\ more[j].at >= rows'[d].queuedAt
               /\ more[j].type = "queued" => more[j].at = rows'[d].queuedAt
               /\ more[j] \notin Called(d, rows[d], deliveries[d])
               /\ outboxLog # <<>> => more[j].at >= outboxLog[Len(outboxLog)].at
    <3>1. PICK d \in F : more[j] = e(d)
      BY <1>8
    <3>2. more[j].delivery = d /\ more[j].at = t /\ d \in Deliveries
      BY <1>5, <1>7, <3>1
    <3>3. outboxLog # <<>> => t >= outboxLog[Len(outboxLog)].at
      BY <1>1 DEF O!NotBackward
    <3>4. QED
      BY <1>9, <1>10, <3>1, <3>2, <3>3
  <2>3. ASSUME NEW i \in 1..Len(more), NEW j \in 1..Len(more)
        PROVE  more[i].at = more[j].at /\ (more[i] = more[j] => i = j)
    <3>1. i \in 1..n /\ j \in 1..n /\ more[i] = e(order[i]) /\ more[j] = e(order[j])
      BY <1>8
    <3>2. more[i].at = t /\ more[j].at = t /\ more[i].delivery = order[i] /\ more[j].delivery = order[j]
      BY <1>7, <3>1
    <3>3. i # j => i < j \/ j < i
      BY <3>1
    <3>4. QED
      BY <1>3, <3>1, <3>2, <3>3
  <2>4. ASSUME NEW d \in Deliveries
        PROVE  Called(d, rows'[d], deliveries'[d])
                 = Called(d, rows[d], deliveries[d])
                     \cup {y \in O!AuditRow : y.delivery = d /\ \E j \in 1..Len(more) : more[j] = y}
    <3>1. CASE d \in F
      <4>1. PICK i \in 1..n : order[i] = d
        BY <1>3, <3>1
      <4>2. e(d) \in O!AuditRow /\ i \in 1..Len(more) /\ more[i] = e(d)
        BY <1>8, <4>1
      <4>3. \A j \in 1..Len(more) : more[j].delivery = d => more[j] = e(d)
        BY <1>7, <1>8
      <4>4. {y \in O!AuditRow : y.delivery = d /\ \E j \in 1..Len(more) : more[j] = y} = {e(d)}
        BY <1>7, <4>2, <4>3
      <4>5. QED
        BY <1>9, <1>10, <3>1, <4>4
    <3>2. CASE d \notin F
      <4>1. \A j \in 1..Len(more) : more[j].delivery # d
        BY <1>7, <1>8, <3>2
      <4>2. {y \in O!AuditRow : y.delivery = d /\ \E j \in 1..Len(more) : more[j] = y} = {}
        BY <4>1
      <4>3. QED
        BY <1>9, <3>2, <4>2
    <3>3. QED
      BY <3>1, <3>2
  <2>5. QED
    BY <2>1, <2>2, <2>3, <2>4 DEF LogExtended
<1>14. LogSound(rows', deliveries', outboxLog')
  <2>1. outboxLog' = outboxLog \o more
    BY <1>3 DEF more
  <2>2. LogSound(rows', deliveries', outboxLog \o more)
    BY <1>4, <1>8, <1>13, LogExtends
  <2>3. QED
    BY <2>1, <2>2
<1>15. FileSound(rows', deliveries', outboxLog')
  BY <1>11, <1>12, <1>14 DEF FileSound
<1>16. outboxLog' = outboxLog \o more
  BY <1>3 DEF more
<1>17. QED
  BY <1>1, <1>8, <1>15, <1>16, AppendsKeep

\* Steps that do not write rows: opening, closing, retaining a head, copies.
LEMMA FilesKeepOutbox ==
  ASSUME OutboxInv,
         O!Open \/ O!Close \/ O!GetTrustedHead \/ O!SaveCopy \/ O!RestoreCopy \/ UNCHANGED O!vars
  PROVE  OutboxInv'
<1>1. CASE O!Open
  BY <1>1 DEF O!Open, O!Openable, OutboxInv
<1>2. CASE O!Close
  BY <1>2 DEF O!Close, OutboxInv
<1>3. CASE O!GetTrustedHead
  <2>1. pin' = outboxLog /\ outboxLog \in Seq(O!AuditRow) /\ UNCHANGED <<rows, deliveries, outboxLog, open, copy>>
    BY <1>3 DEF O!GetTrustedHead, OutboxInv, FileSound, FileShape
  <2>2. O!IsPrefix(pin', outboxLog')
    BY <2>1, PrefixOfItself
  <2>3. QED
    BY <2>1, <2>2 DEF OutboxInv
<1>4. CASE O!SaveCopy
  <2>1. copy' = <<rows, deliveries, outboxLog>> /\ UNCHANGED <<rows, deliveries, outboxLog, open, pin>>
    BY <1>4 DEF O!SaveCopy, O!file
  <2>2. copy'[1] = rows /\ copy'[2] = deliveries /\ copy'[3] = outboxLog
    BY <2>1
  <2>3. QED
    BY <2>1, <2>2 DEF OutboxInv
<1>5. CASE O!RestoreCopy
  BY <1>5 DEF O!RestoreCopy, OutboxInv
<1>6. CASE UNCHANGED O!vars
  BY <1>6 DEF O!vars, OutboxInv
<1>7. QED
  BY <1>1, <1>2, <1>3, <1>4, <1>5, <1>6

\* How complete and fail end an attempt.
LEMMA AnswersEnd ==
  /\ \A n, message : message \in MessageIds \cup {None} => Ending(n, "delivered", None, "delivered", message)
  /\ \A n, retryable : retryable \in {0, 1} => Ending(n, "failed", retryable, O!ResultOf(n, retryable), None)
  /\ EndType("delivered") = "completed" /\ EndType("failed") = "failed"
BY DEF Ending, EndType

\* Every step keeps the invariant.
LEMMA OutboxStep ==
  ASSUME OutboxInv, [O!Next]_(O!vars)
  PROVE  OutboxInv'
<1>0. \A t \in O!Times : t \in Nat
  BY DEF O!Times
<1>1. ASSUME NEW t \in O!Times, NEW d \in Deliveries, O!Enqueue(d, t)
      PROVE  OutboxInv'
  BY <1>0, <1>1, EnqueueKeepsOutbox
<1>2. ASSUME NEW t \in O!Times, NEW d \in Deliveries, NEW n \in 1..2, NEW m \in MessageIds \cup {None},
             O!Complete(d, n, t, m)
      PROVE  OutboxInv'
  <2>1. Ending(n, "delivered", None, "delivered", m) /\ "completed" = EndType("delivered")
    BY AnswersEnd
  <2>2. O!End(d, n, "completed", "delivered", t, None, "delivered", m)
    BY <1>2 DEF O!Complete
  <2>3. QED
    BY <1>0, <2>1, <2>2, EndKeepsOutbox
<1>3. ASSUME NEW t \in O!Times, NEW d \in Deliveries, NEW n \in 1..2, NEW retryable \in {0, 1},
             O!Fail(d, n, t, retryable)
      PROVE  OutboxInv'
  <2>1. Ending(n, "failed", retryable, O!ResultOf(n, retryable), None) /\ "failed" = EndType("failed")
    BY AnswersEnd
  <2>2. O!End(d, n, "failed", "failed", t, retryable, O!ResultOf(n, retryable), None)
    BY <1>3 DEF O!Fail
  <2>3. QED
    BY <1>0, <2>1, <2>2, EndKeepsOutbox
<1>4. ASSUME NEW t \in O!Times, NEW p \in Planes, O!Claim(p, t)
      PROVE  OutboxInv'
  BY <1>0, <1>4, ClaimKeepsOutbox
<1>5. ASSUME NEW t \in O!Times, O!Recover(t)
      PROVE  OutboxInv'
  BY <1>0, <1>5, RecoverKeepsOutbox
<1>6. QED
  BY <1>1, <1>2, <1>3, <1>4, <1>5, FilesKeepOutbox DEF O!Next, O!MaxAttempts

\* What a sound log calls completed is delivered: its attempt was the last one, and the row agrees.
LEMMA CompletedIsDelivered ==
  ASSUME NEW rs, NEW ats, NEW log, FileSound(rs, ats, log),
         NEW i \in 1..Len(log), log[i].type = "completed"
  PROVE  LET d == log[i].delivery IN d \in Deliveries /\ rs[d] # None /\ rs[d].state = "delivered"
<1> DEFINE d == log[i].delivery
           e == log[i]
           r == rs[d]
           tries == ats[d]
<1>1. log[i] \in O!AuditRow /\ d \in Deliveries /\ log[i] \in Called(d, r, tries)
  <2>1. log \in Seq(O!AuditRow)
    BY DEF FileSound, FileShape
  <2>2. QED
    BY <2>1, RowFields DEF FileSound, LogSound
<1>2. r # None /\ log[i] \in O!Expected(d, r, tries)
  BY <1>1 DEF Called
<1>3. r \in O!DeliveryRow /\ tries \in Seq(O!AttemptRow) /\ RowSound(d, r, tries)
  BY <1>1, <1>2 DEF FileSound, FileShape
<1> HIDE DEF r, tries, d
<1>4. PICK n \in 1..Len(tries) :
        /\ tries[n].finishedAt # None
        /\ log[i] = O!Event(O!TerminalType(tries[n]), d, n, tries[n].result, tries[n].retryable, tries[n].finishedAt)
  <2>1. log[i] # O!Event("queued", d, None, "pending", None, r.queuedAt)
    BY DEF O!Event
  <2>2. \A k \in 1..Len(tries) : log[i] # O!Event("claimed", d, k, "in_flight", None, tries[k].startedAt)
    BY DEF O!Event
  <2>3. QED
    BY <1>2, <2>1, <2>2 DEF O!Expected
<1>5. tries[n].state = "delivered"
  <2>1. O!TerminalType(tries[n]) = "completed"
    BY <1>4 DEF O!Event
  <2>2. QED
    BY <2>1 DEF O!TerminalType
<1>6. /\ Len(tries) \in {0, 1, 2} /\ O!AttemptReads(tries[n], n) /\ RetriedAfterFailure(tries)
      /\ O!DeliveryReads(d, r, tries)
  BY <1>1, <1>3, RowReads DEF d
<1>7. n = Len(tries)
  <2>1. CASE Len(tries) = 2
    <3>1. n # 1
      BY <1>5, <1>6, <2>1 DEF RetriedAfterFailure
    <3>2. QED
      BY <2>1, <3>1
  <2>2. Len(tries) \in {0, 1, 2}
    BY <1>6
  <2>3. CASE Len(tries) = 0
    BY <2>3
  <2>4. CASE Len(tries) = 1
    BY <2>4
  <2>5. QED
    BY <2>1, <2>2, <2>3, <2>4
<1>8. tries[n].result = "delivered"
  BY <1>5, <1>6 DEF O!AttemptReads
<1>9. r.state = "delivered"
  <2>1. r.state \in {"pending", "in_flight", "delivered", "exhausted"}
    BY <1>3, RowFields
  <2>2. tries # <<>>
    BY <1>7
  <2>3. O!LastMatches(r, tries)
    BY <1>6 DEF O!DeliveryReads
  <2>4. QED
    BY <1>5, <1>7, <1>8, <2>1, <2>2, <2>3 DEF O!LastMatches
<1>10. QED
  BY <1>1, <1>2, <1>9 DEF r, d

\* The invariant says what the outbox promises.
LEMMA OutboxInvSuffices == OutboxInv => O!OutboxStaysSound
<1> SUFFICES ASSUME OutboxInv
             PROVE  O!OutboxStaysSound
  OBVIOUS
<1>1. FileSound(rows, deliveries, outboxLog) /\ FileShape(rows, deliveries, outboxLog)
  BY DEF OutboxInv, FileSound
<1>2. O!OutboxIntegrity
  <2>1. O!TypeOK
    BY <1>1 DEF OutboxInv, FileShape, O!TypeOK
  <2>2. O!Verifies(rows, deliveries, outboxLog)
    BY <1>1, SoundVerifies
  <2>3. QED
    BY <2>1, <2>2 DEF O!OutboxIntegrity, O!VerifyIntegrity
<1>3. O!RetriesFollowFailures
  <2>1. ASSUME NEW d \in Deliveries, Len(deliveries[d]) = 2
        PROVE  RetriedAfterFailure(deliveries[d])
    <3>1. RowSound(d, rows[d], deliveries[d])
      BY <1>1 DEF FileSound
    <3>2. deliveries[d] # <<>>
      BY <2>1
    <3>3. QED
      BY <3>1, <3>2 DEF RowSound
  <2>2. QED
    BY <2>1 DEF RetriedAfterFailure, O!RetriesFollowFailures
<1>4. O!PinnedDeliveriesStay
  <2>1. ASSUME open, pin # None, NEW i \in 1..Len(pin), pin[i].type = "completed"
        PROVE  O!In(pin[i].delivery, "delivered")
    <3>1. pin \in Seq(O!AuditRow) /\ outboxLog \in Seq(O!AuditRow) /\ O!IsPrefix(pin, outboxLog)
      BY <1>1, <2>1 DEF OutboxInv, FileShape
    <3>2. i \in 1..Len(outboxLog) /\ outboxLog[i] = pin[i]
      BY <3>1, PrefixShows
    <3>3. QED
      BY <1>1, <2>1, <3>2, CompletedIsDelivered DEF O!In
  <2>2. QED
    BY <2>1 DEF O!PinnedDeliveriesStay
<1>5. QED
  BY <1>2, <1>3, <1>4 DEF O!OutboxStaysSound

\* Whatever the callers do and however their clocks jump, the outbox passes its verification, sends
\* again only what failed, and an opened file has forgotten nothing that the caller retains.
THEOREM AlertsStaySound == O!Spec => []OutboxStaysSound
<1>1. O!Init => OutboxInv
  BY OutboxInitially
<1>2. OutboxInv /\ [O!Next]_(O!vars) => OutboxInv'
  BY OutboxStep
<1>3. OutboxInv => OutboxStaysSound
  BY OutboxInvSuffices DEF OutboxStaysSound
<1>4. QED
  BY <1>1, <1>2, <1>3, PTL DEF O!Spec

\* An attempt that ended keeps its row in every step of an open outbox.
LEMMA EndedAttemptsStay ==
  ASSUME OutboxInv, [O!Next]_(O!vars), open, NEW d \in Deliveries, NEW n \in 1..Len(deliveries[d]),
         deliveries[d][n].finishedAt # None
  PROVE  deliveries'[d][n] = deliveries[d][n]
<1>1. /\ deliveries \in [Deliveries -> Seq(O!AttemptRow)] /\ rows \in [Deliveries -> O!DeliveryRow \cup {None}]
      /\ \A x \in Deliveries : RowSound(x, rows[x], deliveries[x])
  BY DEF OutboxInv, FileSound, FileShape
<1>2. ASSUME NEW t, NEW p, O!Claim(p, t)
      PROVE  deliveries'[d][n] = deliveries[d][n]
  <2>1. PICK x \in Deliveries : deliveries' = [deliveries EXCEPT ![x] = Append(deliveries[x], O!Started(t))]
    BY <1>1, <1>2 DEF O!Claim
  <2>2. n \in 1..Len(deliveries[d]) /\ deliveries[d] \in Seq(O!AttemptRow)
    BY <1>1
  <2>3. Append(deliveries[d], O!Started(t))[n] = deliveries[d][n]
    BY <2>2
  <2>4. deliveries'[d] = (IF x = d THEN Append(deliveries[d], O!Started(t)) ELSE deliveries[d])
    BY <1>1, <2>1
  <2>5. QED
    BY <2>3, <2>4
<1>3. ASSUME NEW x \in Deliveries, NEW k, NEW type, NEW state, NEW t, NEW retryable, NEW result, NEW message,
             O!End(x, k, type, state, t, retryable, result, message)
      PROVE  deliveries'[d][n] = deliveries[d][n]
  <2>1. /\ deliveries' = [deliveries EXCEPT ![x][k] = O!Finished(@, state, t, retryable, result, message)]
        /\ k \in 1..Len(deliveries[x]) /\ deliveries[x][k].state = "in_flight" /\ rows[x] # None
    BY <1>3 DEF O!End, O!ActiveAttempt, O!In
  <2>2. deliveries[x][k].finishedAt = None
    <3>1. rows[x] \in O!DeliveryRow /\ deliveries[x] \in Seq(O!AttemptRow) /\ RowSound(x, rows[x], deliveries[x])
      BY <1>1, <2>1
    <3>2. O!AttemptReads(deliveries[x][k], k)
      BY <2>1, <3>1, RowReads
    <3>3. QED
      BY <2>1, <3>2 DEF O!AttemptReads
  <2>3. x # d \/ k # n
    BY <2>2
  <2>4. QED
    BY <1>1, <2>1, <2>3
<1>4. ASSUME NEW t, O!Recover(t)
      PROVE  deliveries'[d][n] = deliveries[d][n]
  <2>1. CASE d \notin O!InFlight
    BY <1>4, <2>1 DEF O!Recover
  <2>2. CASE d \in O!InFlight
    <3>1. rows[d] # None /\ rows[d].state = "in_flight" /\ rows[d] \in O!DeliveryRow
          /\ deliveries[d] \in Seq(O!AttemptRow) /\ RowSound(d, rows[d], deliveries[d])
      BY <1>1, <2>2 DEF O!InFlight, O!In
    <3>2. Len(deliveries[d]) \in {1, 2} /\ rows[d].active = Len(deliveries[d])
          /\ deliveries[d][Len(deliveries[d])].state = "in_flight"
      BY <3>1, RowReads
    <3>3. rows[d].active \in 1..Len(deliveries[d])
      BY <3>2
    <3>4. O!AttemptReads(deliveries[d][rows[d].active], rows[d].active)
      BY <3>1, <3>3, RowReads
    <3>5. deliveries[d][rows[d].active].finishedAt = None
      BY <3>2, <3>4 DEF O!AttemptReads
    <3>6. n # rows[d].active
      BY <3>5
    <3>7. \E new : deliveries'[d] = [deliveries[d] EXCEPT ![rows[d].active] = new]
      BY <1>4, <2>2 DEF O!Recover
    <3>8. PICK new : deliveries'[d] = [deliveries[d] EXCEPT ![rows[d].active] = new]
      BY <3>7
    <3>9. n \in 1..Len(deliveries[d])
      OBVIOUS
    <3>10. QED
      BY <3>1, <3>6, <3>8, <3>9
  <2>3. QED
    BY <2>1, <2>2
<1>5. CASE UNCHANGED deliveries
  BY <1>5
<1>6. ASSUME NEW t, NEW x, O!Enqueue(x, t)
      PROVE  UNCHANGED deliveries
  BY <1>6 DEF O!Enqueue
<1>7. ~O!RestoreCopy
  BY DEF O!RestoreCopy
<1>8. O!Open \/ O!Close \/ O!GetTrustedHead \/ O!SaveCopy \/ UNCHANGED O!vars => UNCHANGED deliveries
  BY DEF O!Open, O!Close, O!GetTrustedHead, O!SaveCopy, O!vars
<1>9. ASSUME NEW x \in Deliveries, NEW k, NEW t, NEW m, O!Complete(x, k, t, m)
      PROVE  deliveries'[d][n] = deliveries[d][n]
  BY <1>3, <1>9 DEF O!Complete
<1>10. ASSUME NEW x \in Deliveries, NEW k, NEW t, NEW retryable, O!Fail(x, k, t, retryable)
       PROVE  deliveries'[d][n] = deliveries[d][n]
  BY <1>3, <1>10 DEF O!Fail
<1>11. QED
  BY <1>2, <1>4, <1>5, <1>6, <1>7, <1>8, <1>9, <1>10 DEF O!Next

\* A repeated complete or fail is answered as the first one was.
THEOREM ReceiptsStay == O!Spec => ReceiptsAreStable
<1> DEFINE Stable ==
      \A d \in Deliveries : \A n \in 1..Len(deliveries[d]) :
        open /\ deliveries[d][n].finishedAt # None =>
          deliveries'[d][n].finishedAt # None /\ O!Receipt(d, n)' = O!Receipt(d, n)
<1>1. O!Init => OutboxInv
  BY OutboxInitially
<1>2. OutboxInv /\ [O!Next]_(O!vars) => OutboxInv'
  BY OutboxStep
<1>3. OutboxInv /\ [O!Next]_(O!vars) => Stable
  <2>1. SUFFICES ASSUME OutboxInv, [O!Next]_(O!vars), NEW d \in Deliveries, NEW n \in 1..Len(deliveries[d]),
                        open, deliveries[d][n].finishedAt # None
                 PROVE  deliveries'[d][n].finishedAt # None /\ O!Receipt(d, n)' = O!Receipt(d, n)
    OBVIOUS
  <2>2. deliveries'[d][n] = deliveries[d][n]
    BY <2>1, EndedAttemptsStay
  <2>3. QED
    BY <2>1, <2>2 DEF O!Receipt
<1>4. O!Spec => [][Stable]_(O!vars)
  BY <1>1, <1>2, <1>3, PTL DEF O!Spec
<1>5. QED
  BY <1>4 DEF ReceiptsAreStable, O!ReceiptsAreStable
=============================================================================
