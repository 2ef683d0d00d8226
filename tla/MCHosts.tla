------------------------------ MODULE MCHosts ------------------------------
(* Eight instances, one to a behaviour: an operator host with three callers,   *)
(* the lock that keeps it alone, the keys in its Keychain, the marker there,   *)
(* what its server lets out, and the preflight of the machine it runs on.      *)
EXTENDS OperatorHost, TLC

CONSTANTS c1, c2, c3, q1, q2, a, b

VARIABLES
  scope,                                           \* which of the eight
  audit, reader, heap, limits, found,              \* of OperatorResponses
  given, subject, facts, replies, moments, shifts, report   \* of Preflight

MCAsks == (c1 :> {<<"run", q1>>}) @@ (c2 :> {<<"stop", None>>, <<"status", None>>})
          @@ (c3 :> {<<"run", q2>>, <<"research", None>>})

R == INSTANCE OperatorResponses WITH
       Types <- {a, b}, MaxEvents <- 3, MaxLimit <- 2,
       Nodes <- {a, b}, Root <- a, MaxEdges <- 2, Limits <- {<<1, 2>>, <<2, 1>>},
       Codes <- {"RUNTIME_DENIED", "INVALID_RESPONSE_SCHEMA"}

F == INSTANCE Preflight WITH Services <- {a, b}, Aliases <- {a, b}, MaxShifts <- 2

lock == <<artifact, durable, pc, open, uncertain, mishaps>>
uses == <<item, use, key>>
claims == <<onceMarker, claim, claimed>>
keychain == <<uses, claims, upsets>>
pages == <<audit, reader>>
forms == <<heap, limits, found>>
machine == <<given, subject, facts, replies, moments, shifts, report>>
mcVars == <<hostVars, scope, lock, keychain, pages, forms, machine>>

\* The variables of the instance that does not run have one value.
Plain == [form |-> "object", edges |-> <<>>]
MCInit ==
  /\ scope \in {"host", "lock", "keys", "marker", "pages", "projection", "receipts", "preflight"}
  /\ Lock!LockInit /\ Keys!KeychainInit /\ R!PagesInit
  /\ HostInit /\ (scope # "host" => kind = "x" /\ record = NoRecord)
  /\ IF scope = "projection" THEN R!HeapInit ELSE heap = [n \in {a, b} |-> Plain] /\ limits = <<1, 2>>
  /\ IF scope = "receipts" THEN R!ReceiptInit ELSE found = None
  /\ IF scope = "preflight" THEN F!PreflightInit
     ELSE /\ given = None /\ subject = None /\ shifts = 0 /\ report = <<>>
          /\ facts = <<>> /\ replies = <<>> /\ moments = <<>>

MCNext ==
  /\ UNCHANGED <<scope, forms>>
  /\ \/ scope = "host" /\ HostNext /\ UNCHANGED <<lock, keychain, pages, machine>>
     \/ scope = "lock" /\ Lock!LockNext /\ UNCHANGED <<hostVars, keychain, pages, machine>>
     \/ /\ \/ scope = "keys" /\ Keys!KeychainNext /\ UNCHANGED claims
           \/ scope = "marker" /\ Keys!KeychainNext /\ UNCHANGED uses
        /\ UNCHANGED <<hostVars, lock, pages, machine>>
     \/ scope = "pages" /\ R!PagesNext /\ UNCHANGED <<hostVars, lock, keychain, machine>>
     \/ scope = "preflight" /\ F!PreflightNext /\ UNCHANGED <<hostVars, lock, keychain, pages>>

MCSpec == MCInit /\ [][MCNext]_mcVars /\ HostFairness

\* What the operator servers answer is neither less nor more than there is: pages cover
\* the audit, a projection shows every open property within its limits and no other, and
\* every receipt a run can get passes all the checks on its way. A preflight's report is
\* about the machine as its commands saw it (ReportIsEarned and FailuresShow of Preflight).
AnswersAreFaithful ==
  /\ R!PagesCoverHistory
  /\ scope = "projection" => R!ProjectionIsFaithful
  /\ scope = "receipts" => R!ReceiptsArrive
  /\ scope = "preflight" => F!ReportIsEarned /\ F!FailuresShow
=============================================================================
