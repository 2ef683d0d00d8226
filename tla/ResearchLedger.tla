--------------------------- MODULE ResearchLedger ---------------------------
(***************************************************************************)
(* The ledger of research proposals: a proposal not on file consumes a     *)
(* plain authorization in the runtime's log, and is then appended to a     *)
(* store of its own under an idempotency key.  The two are separate        *)
(* commits, so a STOP, a takeover, another writer or a death of the        *)
(* process may come between them.                                          *)
(***************************************************************************)
EXTENDS BoundaryCommands

CONSTANTS Proposals    \* [id, content, createdAt, expiresAt]

VARIABLES
  proposals,      \* the ledger
  given           \* records that callers were given

ledgerVars == <<proposals, given>>

LedgerInit == proposals = <<>> /\ given = {}

\* findById.
Filed(r) == {n \in DOMAIN proposals : proposals[n].proposal.id = r.id}

\* A proposal on file is returned with no authority consumed.
PersistAgain(r) ==
  /\ \E n \in Filed(r) : proposals[n].proposal = r /\ given' = given \cup {proposals[n]}
  /\ UNCHANGED <<commandVars, proposals>>

BeginPersist(p, r, t) ==
  LET q == Grant(p, "proposal_persist", r.id, t) IN
  /\ Granted(p, q) /\ Filed(r) = {}
  /\ Goto(p, Command(q, r, None))
  /\ UNCHANGED <<log, now, ledgerVars>>

\* Mutant: a proposal is filed whenever its authorization allows.
InLifetime_Unchecked(p) == job[p].checkedAt < job[p].q.expiresAt

\* assertAllowedReceipt, and the proposal's declared lifetime.
InLifetime(p) ==
  /\ job[p].q.requestedAt <= job[p].checkedAt /\ job[p].checkedAt < job[p].q.expiresAt
  /\ job[p].about.createdAt <= job[p].checkedAt /\ job[p].checkedAt <= job[p].about.expiresAt

\* append; a concurrent writer's identical proposal is as good.
AppendProposal(p) ==
  LET r == job[p].about
      mine == [proposal |-> r, persistedAt |-> job[p].checkedAt]
  IN
  /\ At(p, "receipted") /\ Goto(p, Idle)
  /\ \/ /\ InLifetime(p) /\ Filed(r) = {}
        /\ proposals' = Append(proposals, mine) /\ given' = given \cup {mine}
     \/ /\ InLifetime(p)
        /\ \E n \in Filed(r) : proposals[n].proposal = r /\ given' = given \cup {proposals[n]}
        /\ UNCHANGED proposals
     \/ /\ ~InLifetime(p) \/ \E n \in Filed(r) : proposals[n].proposal # r
        /\ UNCHANGED ledgerVars
  /\ UNCHANGED <<log, now>>

LedgerStep(p) ==
  \/ \E r \in Proposals : \E t \in Readings : BeginPersist(p, r, t)
  \/ AppendProposal(p)
  \/ /\ (\E t \in Readings : Consume(p, t)) \/ Abandon(p) \/ Supersede(p)
     /\ UNCHANGED ledgerVars

LedgerNext == \/ \E p \in Processes : LedgerStep(p)
              \/ \E r \in Proposals : PersistAgain(r)
              \/ /\ Tick \/ \E m \in {"STOPPED", "RESEARCH", "PROPOSE_ONLY"} : SetMode(m)
                 /\ UNCHANGED ledgerVars

-----------------------------------------------------------------------------
(* Properties. *)

\* Although the append may follow a STOP or a takeover, nothing is on file that was not
\* checked, in PROPOSE_ONLY and in its declared lifetime, for that very proposal; one
\* name is one proposal; and what a caller was given stays on file.
ProposalsWereAllowed ==
  /\ \A n \in DOMAIN proposals :
       LET r == proposals[n] IN
       /\ r.proposal.createdAt <= r.persistedAt /\ r.persistedAt <= r.proposal.expiresAt
       /\ \E k \in DOMAIN log : /\ log[k].type = "boundary" /\ log[k].reason = "ALLOWED"
                                /\ log[k].auth.action = r.proposal.id /\ log[k].at = r.persistedAt
                                /\ R!State(SubSeq(log, 1, k)).mode = "PROPOSE_ONLY"
       /\ Filed(r.proposal) = {n}
  /\ \A r \in given : \E n \in DOMAIN proposals : proposals[n] = r

=============================================================================
