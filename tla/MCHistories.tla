---------------------------- MODULE MCHistories ----------------------------
(* One scope to a store: the three that record under the runtime's log; what  *)
(* the assessments on an attention history say; every small batch of captures *)
(* and what research makes of it; the pipeline over two of those batches, run *)
(* by two processes; and the loop that improves the strategy.                 *)
EXTENDS WatchlistHistory, AttentionHistory, ResearchLedger, ImprovementLoop, SequencesExt, TLC

\* Of FixturePipeline.
CONSTANTS Runs, Requests, Policies, Gathered, Template, IntentLife, FirstTime, LastTime,
          MaxCalls, MaxLosses, DayLength

\* Amounts are numbers.
ASSUME SpendAssumption ==
  (\A r \in Requests : r.amount \in Int) /\ \A p \in DOMAIN Policies : Policies[p].daily \in Int

VARIABLES
  scope,
  facts, recorded, clock,                      \* of AttentionAssessment
  sample,                                      \* of ResearchEvidence
  runEvents, runClock, call, reports, calls, losses    \* of FixturePipeline

Ranked(acquired, rows) == [acquired |-> acquired, rows |-> rows]
Listing(slug, addresses) == [slug |-> slug, addresses |-> addresses]
MCSnapshots == {Ranked(0, <<Listing("s", {"a1"}), Listing("u", {"a2"})>>),
                Ranked(1, <<Listing("s", {"a2"}), Listing("v", {"a1", "a3"})>>)}

MCProposals == {[id |-> "r1", content |-> "c", createdAt |-> 0, expiresAt |-> 1],
                [id |-> "r1", content |-> "d", createdAt |-> 0, expiresAt |-> 3],
                [id |-> "r2", content |-> "c", createdAt |-> 1, expiresAt |-> 2]}

Candidate(rank, slug, contracts) == [rank |-> rank, slug |-> slug, contracts |-> contracts]
Window1 == <<Candidate(1, "s", <<"a1">>), Candidate(4, "u", <<"a2">>)>>
Window2 == <<Candidate(1, "u", <<"a2">>), Candidate(2, "s", <<"a1", "a3">>)>>
Window3 == <<Candidate(2, "s", <<"a2">>), Candidate(3, "s", <<"a1">>), Candidate(5, "w", <<"f">>)>>
Post(id, cluster, addresses, hostile) ==
  [id |-> id, cluster |-> cluster, addresses |-> addresses, hostile |-> hostile, linked |-> FALSE]
Posts1 == <<Post("x", "k1", {"a1"}, FALSE)>>
Posts2 == <<Post("x", "k2", {"a2"}, FALSE), Post("y", "k2", {"a2"}, FALSE)>>
Posts3 == <<Post("x", "k1", {"a1", "a9"}, FALSE), Post("y", "k3", {"a1"}, FALSE), Post("z", "k1", {"a2"}, TRUE)>>
Bundle(m, w, x, ps) ==
  [market |-> [acquired |-> m, candidates |-> w], x |-> IF ps = None THEN None ELSE [acquired |-> x, posts |-> ps]]
MCBundles == {Bundle(0, Window1, 0, Posts1), Bundle(0, Window2, 0, None), Bundle(1, Window1, 1, Posts1),
              Bundle(1, Window2, 1, Posts2), Bundle(1, Window3, 0, Posts3), Bundle(2, Window1, 2, Posts2),
              Bundle(2, Window3, 1, Posts1), Bundle(2, Window2, 2, Posts3), Bundle(2, Window1, 2, Posts1)}

MCRefreshed == {[name |-> "b1", until |-> 1], [name |-> "b2", until |-> 5]}

F == INSTANCE AttentionAssessment WITH
       Bundles <- MCBundles, Foreign <- {"f"}, Zero <- "zero", MarketValidity <- 2, SocialValidity <- 2,
       MaxFacts <- 8, MaxRecords <- 3, MaxTime <- 2

WebPage(page, secure) == [page |-> page, secure |-> secure, deceptive |-> FALSE]
SocialPost(author, created, counts, post, words, addresses, link, observed) ==
  [kind |-> "x", author |-> author, post |-> post, words |-> words, addresses |-> addresses,
   links |-> <<link>>, observed |-> observed, acquired |-> 2, until |-> 5, created |-> created, counts |-> counts,
   asset |-> "seven", claim |-> "social", order |-> None]
Record(kind, claim, asset, order, observed) ==
  [kind |-> kind, author |-> None, post |-> None, words |-> None, addresses |-> {}, links |-> <<>>,
   created |-> None, counts |-> {},
   observed |-> observed, acquired |-> 2, until |-> 5, asset |-> asset, claim |-> claim, order |-> order]

OnePage(page) == <<WebPage(page, TRUE)>>
Fixture1 == SocialPost("ann", -2, {}, "1", "buy", {"c"}, OnePage("p"), 0)
Fixture2 == SocialPost("bob", 0, {}, "2", "hold", {}, OnePage("q"), 1)
Fixture3 == SocialPost("ann", -2, {"low-history"}, "3", "hold", {"c"}, OnePage("r"), 2)
Fixture4 == SocialPost("eve", 3, {"handle-churn"}, "4", "obey", {"c", "d"},
                       <<WebPage("s", TRUE), WebPage("q", FALSE)>>, 2)
Listing1 == Record("opensea", "listing", "seven", "o1", 2)
Listing2 == Record("opensea", "listing", "eight", "o1", 2)
Owner1 == Record("onchain", "ownership", "seven", None, 1)
MCFixtures == {Fixture1, Fixture2, Fixture3, Fixture4, Listing1, Listing2, Owner1}

MCPolicy(limit) == [skew |-> 1, maxAge |-> 2, minClusters |-> 2, canonical |-> TRUE,
                    perTransaction |-> 2, daily |-> limit, surfaces |-> {"sea"}]
MCTemplate == [surface |-> "sea", asset |-> "seven", order |-> "o1"]

Research == INSTANCE ResearchEvidence WITH
       Fixtures <- MCFixtures, Instructions <- {"obey"},
       Address <- [a \in {"seven", "eight"} |-> IF a = "seven" THEN "c" ELSE "d"], Window <- 1, VeryNew <- 1, New <- 2,
       Intents <- {MCTemplate}, Policy <- MCPolicy(3), MaxBatch <- 3, MaxTime <- 5, DayLength <- 3

MCAsked == {[scenario |-> "sound", amount |-> 2], [scenario |-> "sound", amount |-> 1]}
MCPolicies == "p1" :> MCPolicy(3) @@ "p2" :> MCPolicy(4)
MCGathered == "sound" :> Research!Observations(<<Fixture1, Listing1>>)

Q == INSTANCE FixturePipeline WITH MaxTime <- LastTime, events <- runEvents, clock <- runClock

MCFirst == [version |-> "v1", weights |-> [x |-> 1]]
MCWeights == {<<>>, [x |-> 2]}

assessment == <<facts, recorded, clock>>
pipeline == <<runEvents, runClock, call, reports, calls, losses>>
research == <<sample, pipeline, loopVars>>
stores == <<commandVars, watchlistVars, attentionVars, ledgerVars, assessment>>
mcVars == <<stores, scope, research>>

MCInit ==
  /\ scope \in {"watchlist", "attention", "proposals", "facts", "evidence", "pipeline", "loop"}
  /\ CommandInit("p1", IF scope = "proposals" THEN <<"RESEARCH", "PROPOSE_ONLY">> ELSE <<"RESEARCH">>)
  /\ WatchlistInit /\ AttentionInit /\ LedgerInit /\ F!AssessmentInit
  /\ IF scope = "evidence" THEN Research!EvidenceInit ELSE sample = None
  /\ Q!PipelineInit /\ LoopInit

MCNext ==
  /\ UNCHANGED scope
  /\ \/ /\ \/ scope = "watchlist" /\ WatchlistNext /\ UNCHANGED <<attentionVars, ledgerVars, assessment>>
           \/ scope = "attention" /\ AttentionNext /\ UNCHANGED <<watchlistVars, ledgerVars, assessment>>
           \/ scope = "proposals" /\ LedgerNext /\ UNCHANGED <<watchlistVars, attentionVars, assessment>>
           \/ scope = "facts" /\ F!AssessmentNext /\ UNCHANGED <<commandVars, watchlistVars, attentionVars, ledgerVars>>
        /\ UNCHANGED research
     \/ /\ \/ scope = "evidence" /\ Research!EvidenceStep /\ UNCHANGED <<pipeline, loopVars>>
           \/ scope = "pipeline" /\ Q!PipelineNext /\ UNCHANGED <<sample, loopVars>>
           \/ scope = "loop" /\ LoopNext /\ UNCHANGED <<sample, pipeline>>
        /\ UNCHANGED stores

MCSpec == MCInit /\ [][MCNext]_mcVars

\* What is on file in the three stores was confirmed, checked and allowed as itself,
\* whatever STOP or takeover came between; every later process can read it; and what a
\* caller was told or given stays on file.
RecordsWereAllowed == ImportsAreConfirmed /\ HistoryStaysReadable /\ ProposalsWereAllowed

\* No bundle is refused by the schemas of its own assessment, whatever conflicts, copies
\* and late windows came before; and a collection is put up for review on its own
\* content only, that no bundle recorded long before in its time had shown.
AssessmentsAreGrounded == scope = "facts" => F!HistoryCanGoOn /\ F!ReviewsAreGrounded

\* Evidence that the kernel finds nothing against holds two observations that no chain
\* of links joins and a listing of the order; what a replay has against it besides is an
\* account or a date that the kernel does not look at.
EvidenceIsIndependent == scope = "evidence" => Research!EvidenceIsIndependent

\* Whoever runs, restarts and retries what: the approvals on file are of one policy and
\* within its daily limit, no run is decided twice, and a report repeats the log.
RunsAgreeWithinLimits == Q!SpendStaysLimited /\ Q!ReportsAgree
=============================================================================
