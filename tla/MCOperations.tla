---------------------------- MODULE MCOperations ----------------------------
(* Three scopes.  Budgets: two attempts compete for a budget that can pay for  *)
(* either but not for two large ones, and a third runs into the attempt limit. *)
(* Cursors: two attempts, so two advances, for one revision or in a row; the   *)
(* second checkpoint reaches both events, the first only one.  Alerts: two     *)
(* incidents on one plane, so that a retry and a fresh delivery compete.       *)
EXTENDS CursorLineage, TLC

CONSTANTS
  Deliveries, Planes, PlaneOf, OccurredAt, MessageIds, LatestTime, HeadsAt, CopiesAt   \* of AlertOutbox

VARIABLES
  scope,
  rows, deliveries, outboxLog, open, pin, copy   \* of AlertOutbox

AmpleLimits == {[maxAtomic |-> 3, maxAttempts |-> 2]}
SmallCheckpoints == {[through |-> 1, head |-> "h1"], [through |-> 2, head |-> "h2"]}
SmallAnchors == {[id |-> "k1", head |-> "h1"], [id |-> "k2", head |-> "h2"]}
Symmetry == Permutations(Advances) \cup Permutations(Attempts) \cup Permutations(Auths)

OnePlane == [d \in Deliveries |-> "resend"]
OneAfterAnother == [d \in Deliveries |-> d - 1]

O == INSTANCE AlertOutbox WITH MaxTime <- LatestTime, attempts <- deliveries, audit <- outboxLog

\* Deliveries are ordered by their ids; what stands for "no row", "no date" and "no result" is neither.
ASSUME OutboxAssumption ==
  /\ Deliveries \subseteq Nat /\ OccurredAt \in [Deliveries -> Nat]
  /\ None \notin O!DeliveryRow \cup Nat \cup {"pending", "delivered", "exhausted"}

outbox == <<rows, deliveries, outboxLog, open, pin, copy>>

\* Cursors move with small amounts, at two times, before the monotonic clock does.
Early(times) == \A t \in times : t # None => t <= 1
SmallAttempt(row) == row.amount = 1 /\ Early({row.createdAt, row.expiresAt, row.dispatchedAt, row.closedAt})
Small ==
  /\ elapsed = 0
  /\ \A b \in Budgets : budgets[b] # None => Early({budgets[b].startsAt, budgets[b].endsAt, budgets[b].createdAt})
  /\ Cardinality({a \in Attempts : attempts[a] # None}) <= 2
  /\ \A a \in Attempts : attempts[a] # None => SmallAttempt(attempts[a])
  /\ Cardinality({u \in Auths : auths[u] # None}) <= 1
  /\ head # None => Early({head.updatedAt})
  /\ \A x \in Advances : Exists(x) => Early({advances[x].stagedAt, LastAt(x)})

MCInit == scope \in {"budgets", "cursors", "alerts"} /\ Init /\ O!Init

MCNext ==
  /\ UNCHANGED scope
  /\ \/ scope = "budgets" /\ AttemptNext /\ UNCHANGED <<cursorVars, outbox>>
     \/ scope = "cursors" /\ Next /\ Small' /\ UNCHANGED outbox
     \/ scope = "alerts" /\ O!Next /\ UNCHANGED vars

MCSpec == MCInit /\ [][MCNext]_<<vars, scope, outbox>>

\* The alert outbox in its scope.
OutboxStaysSound == scope = "alerts" => O!OutboxStaysSound
ReceiptsAreStable == O!ReceiptsAreStable
=============================================================================
