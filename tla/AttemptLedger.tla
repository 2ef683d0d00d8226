---------------------------- MODULE AttemptLedger ----------------------------
(***************************************************************************)
(* Budgets and network attempts of packages/operations: a paid call is     *)
(* reserved against a budget before it may be sent, the reservation is     *)
(* turned into an authorization that lives in memory, the authorization is *)
(* consumed immediately before the send, and the attempt is closed with    *)
(* its outcome.                                                            *)
(*                                                                         *)
(* Every operation is one BEGIN IMMEDIATE transaction of SQLite, so one    *)
(* action, and any number of store objects on the same file interleave as  *)
(* actions do.  A crash loses the authorizations of a process, which is    *)
(* the same as never consuming them.  The timestamps of createBudget,      *)
(* reserveAttempt, closeAttempt and recoverExpiredAttempts are given by    *)
(* callers, and the wall clock that issuing and consuming read may jump:   *)
(* both are arbitrary.  elapsed is the monotonic clock.                    *)
(*                                                                         *)
(* An attempt stands for its id, its idempotency key and its permit: a     *)
(* call in which they disagree is refused, and so is one that repeats an   *)
(* id with other content.  A call that repeats an earlier one exactly      *)
(* returns the record it finds and changes nothing.                        *)
(***************************************************************************)
EXTENDS Naturals, FiniteSets, FiniteSetsExt

CONSTANTS
  Budgets, Attempts,
  Auths,       \* bound: authorizations in memory at the same time
  Amounts,     \* atomic amounts a reservation may ask for
  Limits,      \* [maxAtomic, maxAttempts] of a budget
  Window,      \* the longest time an attempt may stay authorized
  MaxTime,     \* bound: wall clock readings and caller timestamps
  MaxElapsed,  \* bound: the monotonic clock
  None

ASSUME BoundsAssumption == MaxTime \in Nat /\ MaxElapsed \in Nat /\ Window \in Nat
ASSUME AmountsAssumption == Amounts \subseteq Nat \ {0}
ASSUME LimitsAssumption == Limits \subseteq [maxAtomic : Nat \ {0}, maxAttempts : Nat \ {0}]

Times == 0..MaxTime
Outcomes == {"succeeded", "failed", "empty", "aborted"}

BudgetRow == [startsAt : Nat, endsAt : Nat, createdAt : Nat,
              maxAtomic : Nat \ {0}, maxAttempts : Nat \ {0}]
AttemptRow == [budget : Budgets, amount : Nat \ {0}, createdAt : Nat, expiresAt : Nat,
               state : {"reserved", "dispatched", "closed"},
               dispatchedAt : Nat \cup {None}, closedAt : Nat \cup {None},
               outcome : Outcomes \cup {None}]
Authorization == [attempt : Attempts, issuedAt : Nat, issuedElapsed : Nat, expiresElapsed : Nat]

ASSUME NoneAssumption ==
  /\ None \notin Nat /\ None \notin Outcomes
  /\ None \notin BudgetRow /\ None \notin AttemptRow /\ None \notin Authorization

VARIABLES
  budgets,   \* the row of each budget, or None
  attempts,  \* the row of each attempt, or None
  auths,     \* in memory: the authorizations not consumed yet
  elapsed,   \* the monotonic clock
  sends      \* history: how often each attempt was allowed to send

ledger == <<budgets, attempts>>
attemptVars == <<budgets, attempts, auths, elapsed, sends>>

Reserved(a) == attempts[a] # None /\ attempts[a].state = "reserved"
Open(a) == attempts[a] # None /\ attempts[a].state # "closed"
Succeeded(a) == attempts[a] # None /\ attempts[a].outcome = "succeeded"
Of(b) == {a \in Attempts : attempts[a] # None /\ attempts[a].budget = b}
Spent(b) == LET Cost(a) == attempts[a].amount IN MapThenSumSet(Cost, Of(b))

-----------------------------------------------------------------------------
(* Budgets and reservations. *)

CreateBudget(b, limit, starts, ends, t) ==
  /\ budgets[b] = None
  /\ starts < ends /\ t <= ends
  /\ budgets' = [budgets EXCEPT ![b] =
       [startsAt |-> starts, endsAt |-> ends, createdAt |-> t,
        maxAtomic |-> limit.maxAtomic, maxAttempts |-> limit.maxAttempts]]
  /\ UNCHANGED <<attempts, auths, elapsed, sends>>

InWindow(b, created, expires) ==
  /\ created >= budgets[b].startsAt
  /\ created >= budgets[b].createdAt
  /\ created <= budgets[b].endsAt
  /\ expires <= budgets[b].endsAt

Affordable(b, amount) ==
  /\ Cardinality(Of(b)) < budgets[b].maxAttempts
  /\ Spent(b) + amount <= budgets[b].maxAtomic

ReserveAttempt(a, b, amount, created, expires) ==
  /\ budgets[b] # None
  /\ created <= expires /\ expires - created <= Window
  /\ InWindow(b, created, expires)
  /\ attempts[a] = None
  /\ Affordable(b, amount)
  /\ attempts' = [attempts EXCEPT ![a] =
       [budget |-> b, amount |-> amount, createdAt |-> created, expiresAt |-> expires,
        state |-> "reserved", dispatchedAt |-> None, closedAt |-> None, outcome |-> None]]
  /\ UNCHANGED <<budgets, auths, elapsed, sends>>

-----------------------------------------------------------------------------
(* Authorizations. *)

\* The clocks are read under the write lock, when the authorization is issued
\* and again when it is consumed.
CreateAuthorization(u, a, wall) ==
  /\ auths[u] = None
  /\ Reserved(a)
  /\ wall >= attempts[a].createdAt
  /\ wall < attempts[a].expiresAt
  /\ wall < budgets[attempts[a].budget].endsAt
  /\ auths' = [auths EXCEPT ![u] =
       [attempt |-> a, issuedAt |-> wall, issuedElapsed |-> elapsed,
        expiresElapsed |-> elapsed + (attempts[a].expiresAt - wall)]]
  /\ UNCHANGED <<budgets, attempts, elapsed, sends>>

\* Mutant: the reservation is not looked up again.
Consumable_Unchecked(u, wall) ==
  LET a == auths[u].attempt IN
  /\ wall < attempts[a].expiresAt
  /\ elapsed >= auths[u].issuedElapsed
  /\ elapsed < auths[u].expiresElapsed

\* Mutant: the lifetime is measured by the wall clock.
Consumable_WallOnly(u, wall) ==
  Reserved(auths[u].attempt) /\ wall < attempts[auths[u].attempt].expiresAt

Consumable(u, wall) ==
  LET a == auths[u].attempt IN
  /\ Reserved(a)
  /\ wall < attempts[a].expiresAt
  /\ elapsed >= auths[u].issuedElapsed
  /\ elapsed < auths[u].expiresElapsed

\* Mutant: a clock that went back dates the dispatch before its reservation.
DispatchTime_Raw(u, wall) == wall

DispatchTime(u, wall) == IF wall < auths[u].issuedAt THEN auths[u].issuedAt ELSE wall

\* consume() is terminal for the authorization whether or not it is accepted.
Consume(u, wall) ==
  /\ auths[u] # None
  /\ Consumable(u, wall)
  /\ LET a == auths[u].attempt IN
     /\ attempts' = [attempts EXCEPT ![a].state = "dispatched",
                                     ![a].dispatchedAt = DispatchTime(u, wall)]
     /\ sends' = [sends EXCEPT ![a] = @ + 1]
  /\ auths' = [auths EXCEPT ![u] = None]
  /\ UNCHANGED <<budgets, elapsed>>

RefuseConsumption(u, wall) ==
  /\ auths[u] # None
  /\ ~Consumable(u, wall)
  /\ auths' = [auths EXCEPT ![u] = None]
  /\ UNCHANGED <<budgets, attempts, elapsed, sends>>

-----------------------------------------------------------------------------
(* Closing. *)

Closed(a, t, outcome) ==
  [attempts[a] EXCEPT !.state = "closed", !.closedAt = t, !.outcome = outcome]

\* Mutant: an outcome may be corrected after the fact.
Closable_Again(a, t, outcome) ==
  /\ attempts[a] # None
  /\ attempts[a].dispatchedAt = None => outcome = "aborted"
  /\ t >= IF attempts[a].dispatchedAt # None THEN attempts[a].dispatchedAt
                                             ELSE attempts[a].createdAt

Closable(a, t, outcome) ==
  /\ Open(a)
  /\ Reserved(a) => outcome = "aborted"
  /\ t >= IF attempts[a].dispatchedAt # None THEN attempts[a].dispatchedAt
                                             ELSE attempts[a].createdAt

CloseAttempt(a, t, outcome) ==
  /\ Closable(a, t, outcome)
  /\ attempts' = [attempts EXCEPT ![a] = Closed(a, t, outcome)]
  /\ UNCHANGED <<budgets, auths, elapsed, sends>>

\* Every open attempt that has expired is closed, also one that was dispatched
\* and whose answer may still come.
RecoverExpiredAttempts(t) ==
  /\ \E a \in Attempts : Open(a) /\ attempts[a].expiresAt <= t
  /\ attempts' = [a \in Attempts |->
       IF Open(a) /\ attempts[a].expiresAt <= t THEN Closed(a, t, "aborted") ELSE attempts[a]]
  /\ UNCHANGED <<budgets, auths, elapsed, sends>>

Tick ==
  /\ elapsed < MaxElapsed
  /\ elapsed' = elapsed + 1
  /\ UNCHANGED <<budgets, attempts, auths, sends>>

-----------------------------------------------------------------------------
(* What the store checks of every row before each transaction and when it is *)
(* opened.  Row MACs and the formats of fields always hold here.              *)

BudgetRowSound(row) == row.startsAt < row.endsAt

AttemptRowSound(row) ==
  /\ row.state = "reserved" => row.dispatchedAt = None
  /\ row.state = "dispatched" => row.dispatchedAt # None
  /\ (row.state = "closed") <=> (row.closedAt # None)
  /\ (row.state = "closed") <=> (row.outcome # None)

\* Neither the attempts made under a budget nor the sum of what they reserved, whatever
\* became of them, exceeds what it allows.
BudgetHolds(b) ==
  /\ Cardinality(Of(b)) <= budgets[b].maxAttempts
  /\ Spent(b) <= budgets[b].maxAtomic

AttemptFitsBudget(a) ==
  LET row == attempts[a]
      budget == budgets[row.budget] IN
  /\ budget # None
  /\ row.createdAt >= budget.startsAt
  /\ row.createdAt >= budget.createdAt
  /\ row.createdAt <= budget.endsAt
  /\ row.expiresAt >= row.createdAt
  /\ row.expiresAt - row.createdAt <= Window
  /\ row.expiresAt <= budget.endsAt
  /\ row.dispatchedAt # None =>
       /\ row.dispatchedAt >= row.createdAt
       /\ row.dispatchedAt < row.expiresAt
       /\ row.dispatchedAt <= budget.endsAt
  /\ row.closedAt # None =>
       row.closedAt >= IF row.dispatchedAt # None THEN row.dispatchedAt ELSE row.createdAt

-----------------------------------------------------------------------------
AttemptInit ==
  /\ budgets = [b \in Budgets |-> None]
  /\ attempts = [a \in Attempts |-> None]
  /\ auths = [u \in Auths |-> None]
  /\ elapsed = 0
  /\ sends = [a \in Attempts |-> 0]

AttemptNext ==
  \/ \E b \in Budgets, limit \in Limits, starts, ends, t \in Times :
       CreateBudget(b, limit, starts, ends, t)
  \/ \E a \in Attempts, b \in Budgets, amount \in Amounts, created, expires \in Times :
       ReserveAttempt(a, b, amount, created, expires)
  \/ \E u \in Auths, a \in Attempts, wall \in Times : CreateAuthorization(u, a, wall)
  \/ \E u \in Auths, wall \in Times : Consume(u, wall) \/ RefuseConsumption(u, wall)
  \/ \E a \in Attempts, t \in Times, outcome \in Outcomes : CloseAttempt(a, t, outcome)
  \/ \E t \in Times : RecoverExpiredAttempts(t)
  \/ Tick

AttemptSpec == AttemptInit /\ [][AttemptNext]_attemptVars

-----------------------------------------------------------------------------
(* Properties. *)

\* Every row has the shape assertBudgetRow and assertAttemptRow demand.
AttemptTypeOK ==
  /\ budgets \in [Budgets -> BudgetRow \cup {None}]
  /\ attempts \in [Attempts -> AttemptRow \cup {None}]
  /\ auths \in [Auths -> Authorization \cup {None}]
  /\ elapsed \in Nat
  /\ sends \in [Attempts -> Nat]
  /\ \A b \in Budgets : budgets[b] # None => BudgetRowSound(budgets[b])
  /\ \A a \in Attempts : attempts[a] # None => AttemptRowSound(attempts[a])

\* The dates of a row and of its budget, as verifyRelationalIntegrity compares
\* them.
DatesAgree == \A a \in Attempts : attempts[a] # None => AttemptFitsBudget(a)

\* What the operations accept is what verifyRelationalIntegrity accepts.  Every
\* transaction starts with that check, so a row that fails it would shut the
\* store for good.
AttemptIntegrity == AttemptTypeOK /\ DatesAgree

\* A reservation is sent at most once, however many authorizations were issued
\* for it, and never when its row says that it was not dispatched.
SentOnce ==
  \A a \in Attempts :
    /\ sends[a] <= 1
    /\ sends[a] = 1 => attempts[a] # None /\ attempts[a].dispatchedAt # None

\* Turning the wall clock back does not prolong an authorization: whatever is
\* sent is sent before the time that its authorization had left has elapsed.
SentInTime ==
  [][\A a \in Attempts : sends'[a] # sends[a] =>
       \E u \in Auths :
         /\ auths[u] # None /\ auths'[u] = None
         /\ auths[u].attempt = a
         /\ elapsed - auths[u].issuedElapsed < attempts[a].expiresAt - auths[u].issuedAt
    ]_attemptVars

FinalRow(a) ==
  attempts[a] # None =>
    /\ attempts'[a] # None
    /\ attempts'[a].budget = attempts[a].budget
    /\ attempts'[a].amount = attempts[a].amount
    /\ attempts'[a].createdAt = attempts[a].createdAt
    /\ attempts'[a].expiresAt = attempts[a].expiresAt
    /\ attempts[a].state = "closed" => attempts'[a] = attempts[a]
    /\ attempts[a].dispatchedAt # None => attempts'[a].dispatchedAt = attempts[a].dispatchedAt

\* A reservation is permanent and an outcome is final: no retry, late answer or
\* recovery changes what an attempt reserved or what it was closed with.
OutcomesAreFinal == [][\A a \in Attempts : FinalRow(a)]_attemptVars
=============================================================================
