-------------------------- MODULE ResearchEvidence --------------------------
(***************************************************************************)
(* From captured fixtures to evidence: what is extracted of a batch, which *)
(* posts are coordinated and so count once, what the batch says about an   *)
(* asset, and what the policy kernel and the recorded replay make of it.   *)
(* These are functions of the batch: a state is one batch, the part of it  *)
(* that an intent cites, and the time at which it is judged.               *)
(*                                                                         *)
(* A text is told apart by its words, with addresses and links taken out,  *)
(* and the addresses it names; a link by the pages it leads through.       *)
(***************************************************************************)
EXTENDS Integers, Sequences, FiniteSets, SequencesExt

CONSTANTS
  Fixtures,       \* [kind, author, post, words, addresses, links, observed, acquired, until, asset, claim,
                  \*  order; created: when the account was; counts: the signs its counts and names give]
  Instructions,   \* words that give orders
  Address,        \* asset |-> its contract
  Window,         \* synchronizationWindowSeconds
  VeryNew, New,   \* ages of an account: 7 and 30 days in the code
  Intents,        \* what is asked of the kernel, but for the evidence
  Policy,
  MaxBatch,       \* bound: fixtures of a batch
  MaxTime,        \* bound: the time of judgement
  DayLength, None

VARIABLE sample

P == INSTANCE PolicyKernel

-----------------------------------------------------------------------------
(* Extraction. *)

\* A capture is its bytes: the same bytes again are the same capture.
Distinct(batch) == FoldLeft(LAMBDA s, f : IF f \in ToSet(s) THEN s ELSE Append(s, f), <<>>, batch)

\* Pages are [page, secure, deceptive].
Final(link) == link[Len(link)].page
LinkFlagged(link) ==
  \/ \E n \in DOMAIN link : link[n].deceptive
  \/ \E n \in 2..Len(link) : link[n - 1].secure /\ ~link[n].secure
  \/ ~IsInjective(link)

IdentityConflict(f) ==
  f.kind = "x" /\ (Cardinality(f.addresses) > 1 \/ \E a \in f.addresses : a # Address[f.asset])
Instructs(f) == f.kind = "x" /\ f.words \in Instructions
LinksFlagged(f) == \E n \in DOMAIN f.links : LinkFlagged(f.links[n])
Flagged(f) == LinksFlagged(f) \/ Instructs(f) \/ IdentityConflict(f)

-----------------------------------------------------------------------------
(* clusterSocialFixtures. *)

Finals(f) == {Final(f.links[n]) : n \in DOMAIN f.links}

Synchronized(f, g) == /\ f.observed - g.observed \in (-Window)..Window
                      /\ Finals(f) \cap Finals(g) # {}

Linked(f, g) == f.author = g.author \/ f.post = g.post \/ f.words = g.words \/ Synchronized(f, g)

Root(parents, n) ==
  LET root[k \in DOMAIN parents] == IF parents[k] = k THEN k ELSE root[parents[k]] IN root[n]

\* Mutant: what is joined is the two posts, not the groups they are in.
Union_Direct(parents, left, right) == [parents EXCEPT ![right] = left]

\* The later of the two roots goes under the earlier.
Union(parents, left, right) ==
  LET roots == {Root(parents, left), Root(parents, right)}
  IN  [parents EXCEPT ![Max(roots)] = Min(roots)]

\* Every pair in turn, the first post of the pair being the outer loop.
Parents(posts) ==
  LET size == Len(posts)
      left(k) == ((k - 1) \div size) + 1
      right(k) == ((k - 1) % size) + 1
  IN  FoldLeft(LAMBDA parents, k :
                 IF left(k) < right(k) /\ Linked(posts[left(k)], posts[right(k)])
                 THEN Union(parents, left(k), right(k)) ELSE parents,
               [n \in 1..size |-> n], [k \in 1..(size * size) |-> k])

Posts(batch) == SelectSeq(Distinct(batch), LAMBDA f : f.kind = "x")

\* A cluster is named by its members.
SocialCluster(batch, f) ==
  LET posts == Posts(batch)
      parents == Parents(posts)
      rootOf(g) == Root(parents, CHOOSE n \in DOMAIN posts : posts[n] = g)
  IN  {g \in ToSet(posts) : rootOf(g) = rootOf(f)}

\* Records of one surface about one asset are one source.
ClusterOf(batch, f) ==
  IF f.kind = "x" THEN SocialCluster(batch, f)
  ELSE {g \in ToSet(batch) : g.kind = f.kind /\ g.asset = f.asset}

Observation(batch, f) ==
  [id |-> f, kind |-> f.kind, asset |-> f.asset, claim |-> f.claim, order |-> f.order,
   observed |-> f.observed, acquired |-> f.acquired, until |-> f.until,
   flagged |-> Flagged(f), cluster |-> ClusterOf(batch, f)]

Observations(batch) ==
  LET distinct == Distinct(batch) IN [n \in DOMAIN distinct |-> Observation(batch, distinct[n])]

\* What the analyses add: signs of the account, by its age at the post, its followers,
\* posts and former names, and its company.
AccountSignals(batch, f) ==
  LET age == f.observed - f.created IN
    IF f.kind # "x" THEN {}
    ELSE f.counts \cup P!If(age < 0, "created-after-post")
                  \cup P!If(age \in 0..(VeryNew - 1), "very-new")
                  \cup P!If(age \in VeryNew..(New - 1), "new")
                  \cup P!If(Cardinality(SocialCluster(batch, f)) > 1, "coordinated-cluster")

-----------------------------------------------------------------------------
(* summarizeCorrelation. *)

IsCanonicalEvidence(o) == o.kind \in {"opensea", "onchain"} /\ o.claim \in {"listing", "ownership"}

FreshAt(o, t) == o.acquired <= t /\ o.observed <= t /\ o.until > t

Summary(observations, asset, t) ==
  LET matching == {o \in observations : o.asset = asset} IN
  [mismatched |-> observations \ matching,
   future |-> {o \in matching : o.acquired > t \/ o.observed > t},
   stale |-> {o \in matching : o.until <= t},
   freshClusters |-> Cardinality({o.cluster : o \in {p \in matching : FreshAt(p, t)}}),
   freshCanonical |-> Cardinality({o \in matching : FreshAt(o, t) /\ IsCanonicalEvidence(o)})]

\* The flags a replay counts: the signs of the account and what flags an observation.
IntegrityFlags(batch, f) == AccountSignals(batch, f) \cup P!If(Flagged(f), "flagged")

\* deriveRecordedReplayDisposition: it always abstains, for the first of these reasons.
Disposition(summary, integrityFlags) ==
  IF summary.mismatched # {} THEN "identity_ambiguity"
  ELSE IF integrityFlags # {} THEN "integrity_risk"
  ELSE IF summary.stale \cup summary.future # {} THEN "stale_evidence"
  ELSE IF summary.freshClusters < 2 \/ summary.freshCanonical < 1 THEN "insufficient_evidence"
  ELSE "market_uncertainty"

-----------------------------------------------------------------------------
Batches == UNION {[1..n -> Fixtures] : n \in 0..MaxBatch}

\* An intent cites some of what was extracted, or a capture that may not be in the batch.
EvidenceInit ==
  \E batch \in Batches : \E cited \in SUBSET ToSet(batch) \cup {{f} : f \in Fixtures} :
    sample \in [batch : {batch}, intent : Intents, at : 0..MaxTime, cited : {cited}]

\* The intent cites some of the observations.
Intent == sample.intent @@ [evidence |-> SetToSeq(sample.cited)]
Extracted == Observations(sample.batch)
Judged == P!EvidenceReasons(Policy, Intent, Extracted, sample.at)
Cited == {o \in ToSet(Extracted) : o.id \in sample.cited}

EvidenceStep == UNCHANGED sample

-----------------------------------------------------------------------------
(* Properties. *)

\* No set of posts that the links leave closed tells two posts of a cluster apart, and
\* posts of two clusters are told apart by one.
ClustersAreComponents ==
  LET posts == ToSet(Posts(sample.batch))
      closed == {S \in SUBSET posts : \A f \in S, g \in posts \ S : ~Linked(f, g)}
  IN  \A f, g \in posts : SocialCluster(sample.batch, f) = SocialCluster(sample.batch, g)
                          <=> \A S \in closed : f \in S <=> g \in S

\* Evidence that the kernel finds nothing against holds two observations that no chain of
\* links joins and a listing of the order, all of its asset.  A replay of what is cited
\* may still speak of a risk or of stale evidence, and only for what the kernel does not
\* look at: a sign of an account, or a date in the future within the skew it allows.
EvidenceIsIndependent ==
  /\ ClustersAreComponents
  /\ Judged = {} =>
       /\ \E o, p \in Cited : o.cluster \cap p.cluster = {}
       /\ \E o \in Cited : o.kind = "opensea" /\ o.order = sample.intent.order
       /\ \A o \in Cited : o.asset = sample.intent.asset
       /\ LET summary == Summary(Cited, sample.intent.asset, sample.at)
              flags == UNION {IntegrityFlags(sample.batch, o.id) : o \in Cited}
          IN  Disposition(summary, flags) =
                IF \E o \in Cited : AccountSignals(sample.batch, o.id) # {} THEN "integrity_risk"
                ELSE IF summary.future # {} THEN "stale_evidence" ELSE "market_uncertainty"

=============================================================================
