------------------------ MODULE AttentionAssessment ------------------------
(***************************************************************************)
(* What an attention record says of its bundle, and the facts it hands to  *)
(* the record after it.  An assessment is a function of the bundle, the    *)
(* time and the facts; the facts accumulate over the recorded history, and *)
(* every assessment and every set of facts must pass its own schema, or    *)
(* the history cannot go on.                                               *)
(*                                                                         *)
(* A bundle arrives sanitized: identifiers are hashed, contracts and posts *)
(* are sorted, and a post's text is told apart by the cluster it belongs   *)
(* to, the addresses it mentions and what its words gave away.  Posts about *)
(* no candidate and the Base block are reported beside the rows; no outcome *)
(* depends on them, and they are left out.                                  *)
(***************************************************************************)
EXTENDS Integers, Sequences, FiniteSets, SequencesExt

CONSTANTS
  Bundles,             \* [market, x]
  Foreign,             \* contracts on other chains
  Zero,                \* the zero address
  MarketValidity,      \* MARKETPLACE_VALIDITY_MS
  SocialValidity,      \* SOCIAL_VALIDITY_MS
  MaxFacts,            \* MAX_RETAINED_ATTENTION_FACTS
  MaxRecords,          \* bound: records
  MaxTime,             \* bound: the clock
  None

VARIABLES
  facts,               \* the facts after the last record
  recorded,            \* the bundles recorded, and when they were evaluated
  clock

assessmentVars == <<facts, recorded, clock>>

NoFacts == [window |-> None, latestX |-> None, known |-> {}, slugs |-> {},
            posts |-> {}, seen |-> {}, conflicting |-> {}]

AssessmentInit == facts = NoFacts /\ recorded = <<>> /\ clock = 0

Expiry(market) == market.acquired + MarketValidity
If(condition, reason) == IF condition THEN {reason} ELSE {}

-----------------------------------------------------------------------------
(* Identity. *)

IdentityDefects(c) ==
     If(\E n \in DOMAIN c.contracts : c.contracts[n] \in Foreign, "UNSUPPORTED_CHAIN")
\cup If(\E n \in DOMAIN c.contracts : c.contracts[n] = Zero, "ZERO_CONTRACT")
\cup If(~IsInjective(c.contracts), "DUPLICATE_CONTRACT")

\* A collection is its contracts; a candidate, its slug as well.
Collection(c) == IF IdentityDefects(c) = {} THEN c.contracts ELSE None
Key(c) == IF Collection(c) # None THEN <<None, c.contracts>> ELSE <<c.slug, c.contracts>>

SharesContract(left, right) == ToSet(left) \cap ToSet(right) # {}

CurrentConflicts(cs, i) ==
  LET others == DOMAIN cs \ {i} IN
     If(\E j \in others : (ToSet(cs[i].contracts) \cap ToSet(cs[j].contracts)) \ Foreign # {},
        "OVERLAPPING_CONTRACT_GROUPS")
\cup If(\E j \in others : cs[j].slug = cs[i].slug /\ Key(cs[j]) # Key(cs[i]), "SLUG_REBOUND")

\* A known collection with some of the same contracts.
ContinuityConflict(f, c) ==
  \E k \in f.known : k.id # Collection(c) /\ SharesContract(k.id, Collection(c))

IdentityHard(f, cs, i) ==
  IdentityDefects(cs[i]) \cup CurrentConflicts(cs, i)
  \cup If(Collection(cs[i]) # None /\ ContinuityConflict(f, cs[i]), "IDENTITY_CONTINUITY_CONFLICT")

IdentityChanged(f, c) ==
  LET associated == {a.id : a \in {a \in f.slugs : a.slug = c.slug}}
  IN  Collection(c) # None /\ associated # {} /\ Collection(c) \notin associated

MarketHard(f, market, t) ==
     If(f.window # None /\ market.acquired <= f.window.acquired, "MARKETPLACE_TIME_INVALID")
\cup If(market.acquired > t, "MARKETPLACE_FUTURE")
\cup If(t >= Expiry(market), "MARKETPLACE_STALE")

-----------------------------------------------------------------------------
(* Posts. *)

HasPosts(b) == b.x # None

Owners(cs, address) == {Collection(cs[n]) : n \in {k \in DOMAIN cs : /\ Collection(cs[k]) # None
                                                                   /\ address \in ToSet(cs[k].contracts)}}
Matched(cs, p) == UNION {Owners(cs, a) : a \in p.addresses}
Unknown(cs, p) == {a \in p.addresses : Owners(cs, a) = {}}
Attributed(cs, p) == Cardinality(Matched(cs, p)) = 1 /\ Unknown(cs, p) = {}

ContentConflict(f, p) == \E k \in f.posts : k.post = p.id /\ k.cluster # p.cluster

Sightings(f) == f.seen \cup {[cluster |-> c.cluster, at |-> c.at] : c \in f.conflicting}

\* Mutant: a post seen again is new again.
FirstSeen_Renewed(f, cluster, acquired) == acquired

FirstSeen(f, cluster, acquired) ==
  IF \E s \in Sightings(f) : s.cluster = cluster
  THEN (CHOOSE s \in Sightings(f) : s.cluster = cluster).at
  ELSE acquired

TimeRegression(f, x) == f.latestX # None /\ x.acquired < f.latestX

Usable(f, x, p, t) == /\ ~ContentConflict(f, p) /\ ~TimeRegression(f, x) /\ x.acquired <= t /\ ~p.hostile
                      /\ FirstSeen(f, p.cluster, x.acquired) + SocialValidity > t

\* Of candidates with one identity, only the last has its posts.
BoundPosts(b, i) ==
  LET cs == b.market.candidates
      id == Collection(cs[i]) IN
  IF HasPosts(b) /\ id # None /\ ~\E j \in DOMAIN cs : j > i /\ Collection(cs[j]) = id
  THEN {p \in ToSet(b.x.posts) : id \in Matched(cs, p)} ELSE {}

FreshClusters(f, b, i, t) ==
  {p.cluster : p \in {p \in BoundPosts(b, i) : /\ Attributed(b.market.candidates, p)
                                             /\ Usable(f, b.x, p, t)}}
ObservedClusters(b, i) == {p.cluster : p \in {p \in BoundPosts(b, i) : Attributed(b.market.candidates, p)}}

SocialHard(f, b, i, t) ==
  LET cs == b.market.candidates
      bound == BoundPosts(b, i) IN
     If(\E p \in bound : ContentConflict(f, p), "POST_CONTENT_CONFLICT")
\cup If(bound # {} /\ TimeRegression(f, b.x), "SOCIAL_TIME_REGRESSION")
\cup If(bound # {} /\ b.x.acquired > t, "SOCIAL_FUTURE")
\cup If(\E p \in bound : Cardinality(Matched(cs, p)) > 1, "AMBIGUOUS_SOCIAL_IDENTITY")
\cup If(\E p \in bound : Cardinality(Matched(cs, p)) = 1 /\ Unknown(cs, p) # {}, "SOCIAL_ADDRESS_CONFLICT")
\cup If(\E p \in bound : p.hostile, "HOSTILE_CONTENT")

SocialWatch(f, b, i, t) ==
     If(~HasPosts(b), "MISSING_X")
\cup If(HasPosts(b) /\ Collection(b.market.candidates[i]) # None /\ BoundPosts(b, i) = {}, "NO_BOUND_X")
\cup If(BoundPosts(b, i) # {} /\ FreshClusters(f, b, i, t) = {} /\ b.x.acquired <= t, "STALE_X")
\cup If(\E p \in BoundPosts(b, i) : p.linked, "LINKS_UNCHECKED")

-----------------------------------------------------------------------------
(* The rows. *)

Comparison(f, b, i) ==
  LET id == Collection(b.market.candidates[i])
      before == IF f.window = None THEN {} ELSE {r \in f.window.rows : r.id = id} IN
  IF \/ id = None \/ before = {}
     \/ b.market.acquired >= Expiry(f.window) \/ b.market.acquired <= f.window.acquired
  THEN None
  ELSE LET previous == (CHOOSE r \in before : TRUE).rank
       IN  [previous |-> previous, delta |-> previous - b.market.candidates[i].rank]

Movement(comparison) ==
  IF comparison = None THEN 0 ELSE Min({10, 2 * Max({0, comparison.delta})})

Score(f, b, i, t) ==
  4 * (11 - b.market.candidates[i].rank) + Movement(Comparison(f, b, i))
  + 5 * Min({2, Cardinality(FreshClusters(f, b, i, t))})

ObservedRow(f, b, i, t) ==
  LET c == b.market.candidates[i]
      identity == IdentityHard(f, b.market.candidates, i)
      hard == identity \cup MarketHard(f, b.market, t) \cup SocialHard(f, b, i, t)
      caution == SocialWatch(f, b, i, t) \cup If(IdentityChanged(f, c), "IDENTITY_CHANGED")
      score == Score(f, b, i, t)
      watch == caution \cup If(hard = {} /\ caution = {} /\ score < 36, "ATTENTION_BELOW_THRESHOLD")
      fresh == FreshClusters(f, b, i, t)
  IN
  [id |-> IF identity # {} THEN <<c.slug, c.contracts>> ELSE Key(c),
   collection |-> Collection(c), rank |-> c.rank, comparison |-> Comparison(f, b, i), score |-> score,
   fresh |-> fresh, observed |-> ObservedClusters(b, i), hard |-> hard, watch |-> watch,
   outcome |-> IF hard # {} THEN "rejected" ELSE IF watch # {} THEN "watch" ELSE "review",
   priority |-> IF hard # {} THEN None ELSE score,
   expires |-> Min({Expiry(b.market)} \cup {FirstSeen(f, k, b.x.acquired) + SocialValidity : k \in fresh})]

DepartureRow(r) ==
  [id |-> <<None, r.id>>, collection |-> r.id, rank |-> None, comparison |-> None, score |-> None,
   fresh |-> {}, observed |-> {}, hard |-> {}, watch |-> {"LEFT_WINDOW"}, outcome |-> "watch",
   priority |-> 0, expires |-> None]

MarketUsable(f, b, t) == MarketHard(f, b.market, t) = {}

Departures(f, b, t) ==
  IF f.window = None \/ ~MarketUsable(f, b, t) THEN {}
  ELSE LET current == {Collection(b.market.candidates[n]) : n \in DOMAIN b.market.candidates}
       IN  {DepartureRow(r) : r \in {r \in f.window.rows : r.id \notin current}}

ObservedRows(f, b, t) == [i \in DOMAIN b.market.candidates |-> ObservedRow(f, b, i, t)]

-----------------------------------------------------------------------------
(* advanceFacts. *)

WithMarket(f, b, t) ==
  LET cs == b.market.candidates
      usable == {n \in DOMAIN cs : Collection(cs[n]) # None /\ IdentityHard(f, cs, n) = {}}
      now == {cs[n].contracts : n \in usable} IN
  IF ~MarketUsable(f, b, t) THEN f
  ELSE [f EXCEPT !.known = {k \in @ : k.id \notin now}
                           \cup {[id |-> cs[n].contracts, slug |-> cs[n].slug] : n \in usable},
                 !.slugs = @ \cup {[slug |-> cs[n].slug, id |-> cs[n].contracts] : n \in usable},
                 !.window = [acquired |-> b.market.acquired,
                             rows |-> {[id |-> cs[n].contracts, rank |-> cs[n].rank] : n \in usable}]]

\* Conflicts are told by the facts before the bundle; what is new, as the posts go by.
Admit(f, x, p, prior) ==
  LET known == \E s \in Sightings(f) : s.cluster = p.cluster
      at == FirstSeen(prior, p.cluster, x.acquired) IN
  IF ContentConflict(prior, p)
  THEN [f EXCEPT !.conflicting = IF known THEN @
                                 ELSE @ \cup {[cluster |-> p.cluster, at |-> at, post |-> p.id]}]
  ELSE [f EXCEPT !.posts = IF \E k \in @ : k.post = p.id THEN @
                           ELSE @ \cup {[post |-> p.id, cluster |-> p.cluster]},
                 !.seen = IF known THEN @ ELSE @ \cup {[cluster |-> p.cluster, at |-> at]}]

Admitted(f, b, t) == HasPosts(b) /\ b.x.acquired <= t /\ ~TimeRegression(f, b.x)

WithPosts(f, b, t, prior) ==
  IF ~Admitted(prior, b, t) THEN f
  ELSE [FoldLeft(LAMBDA g, p : Admit(g, b.x, p, prior), f, b.x.posts) EXCEPT !.latestX = b.x.acquired]

Advance(f, b, t) == WithPosts(WithMarket(f, b, t), b, t, f)

-----------------------------------------------------------------------------
(* What the schemas refuse. *)

RetainedFacts(f) == Cardinality(f.known) + Cardinality(f.slugs) + Cardinality(f.posts)
                    + Cardinality(f.seen) + Cardinality(f.conflicting)

SeenAt(f, cluster) == (CHOOSE s \in Sightings(f) : s.cluster = cluster).at

\* The cluster that the conflicting post was bound to, from cluster to cluster.
Predecessor(f, c) == {k.cluster : k \in {k \in f.posts : \E d \in f.conflicting : d.cluster = c /\ d.post = k.post}}

ChainReachesOrdinary(f, c) ==
  LET clusters == {s.cluster : s \in Sightings(f)}
      reach[n \in 0..Cardinality(clusters)] ==
        IF n = 0 THEN {c} ELSE UNION {Predecessor(f, d) : d \in reach[n - 1]}
      ordinary == {s.cluster : s \in f.seen} IN
  \E n \in 1..Cardinality(clusters) :
    /\ reach[n] \cap ordinary # {}
    /\ \A m \in 1..n : /\ reach[m] # {} /\ reach[m] \subseteq clusters
                       /\ \A d \in reach[m], e \in reach[m - 1] : SeenAt(f, d) <= SeenAt(f, e)
                       /\ m < n => reach[m] \cap ordinary = {}

AcceptableFacts(f) ==
  LET ids == {k.id : k \in f.known}
      clusters == {s.cluster : s \in Sightings(f)} IN
  /\ \A a \in f.slugs : a.id \in ids
  /\ Cardinality(ids) = Cardinality(f.known)
  /\ Cardinality(clusters) = Cardinality(f.seen) + Cardinality(f.conflicting)
  /\ \A j, k \in f.posts : j.post = k.post => j = k
  /\ \A k \in f.posts : k.cluster \in clusters
  /\ \A s \in f.seen : \E k \in f.posts : k.cluster = s.cluster
  /\ \A c \in f.conflicting : ChainReachesOrdinary(f, c.cluster)
  /\ IF f.latestX = None THEN f.posts = {} /\ Sightings(f) = {}
     ELSE \A s \in Sightings(f) : s.at <= f.latestX
  /\ f.window # None => /\ {r.id : r \in f.window.rows} \subseteq ids
                        /\ \A r, s \in f.window.rows : r.id = s.id => r = s

AcceptableRow(r, t) ==
  /\ r.collection = None => r.outcome = "rejected"
  /\ r.outcome = "review" => r.fresh # {} /\ r.priority >= 36
  /\ r.priority # None => r.priority \in 0..60
  /\ Min({2, Cardinality(r.fresh)}) <= Cardinality(r.observed)
  /\ r.rank # None => r.expires > t \/ "MARKETPLACE_STALE" \in r.hard

AcceptableRows(f, b, t) ==
  LET observed == ObservedRows(f, b, t)
      departed == Departures(f, b, t)
      ids == {observed[n].id : n \in DOMAIN observed} \cup {r.id : r \in departed} IN
  /\ \A n \in DOMAIN observed : AcceptableRow(observed[n], t)
  /\ \A r \in departed : AcceptableRow(r, t)
  /\ Cardinality(ids) = Len(observed) + Cardinality(departed)

Accepted(f, b, t) == /\ AcceptableRows(f, b, t) /\ AcceptableFacts(Advance(f, b, t))
                     /\ RetainedFacts(Advance(f, b, t)) <= MaxFacts

-----------------------------------------------------------------------------
RecordBundle(b) ==
  /\ Len(recorded) < MaxRecords /\ \A n \in DOMAIN recorded : recorded[n].bundle # b
  /\ Accepted(facts, b, clock)
  /\ facts' = Advance(facts, b, clock)
  /\ recorded' = Append(recorded, [bundle |-> b, at |-> clock])
  /\ UNCHANGED clock

Wait == clock < MaxTime /\ clock' = clock + 1 /\ UNCHANGED <<facts, recorded>>

AssessmentNext == Wait \/ \E b \in Bundles : RecordBundle(b)

-----------------------------------------------------------------------------
(* Properties. *)

\* No bundle can be refused by the schema of its own assessment or of the facts that
\* would follow, except for the number of facts retained: whatever conflicts, copies
\* and late windows came before, the history can go on.
HistoryCanGoOn ==
  \A b \in Bundles : /\ AcceptableRows(facts, b, clock)
                     /\ AcceptableFacts(Advance(facts, b, clock))

\* When a cluster was shown by recorded bundles whose posts were neither of the future
\* nor older than those of a bundle before: what the others show does not count as seen.
SeenSince(cluster) ==
  {recorded[n].bundle.x.acquired : n \in
     {k \in DOMAIN recorded :
        LET b == recorded[k].bundle IN
        /\ HasPosts(b) /\ b.x.acquired <= recorded[k].at
        /\ \A j \in 1..(k - 1) : (HasPosts(recorded[j].bundle) /\ recorded[j].bundle.x.acquired <= recorded[j].at)
                                 => recorded[j].bundle.x.acquired <= b.x.acquired
        /\ \E p \in ToSet(b.x.posts) : p.cluster = cluster}}

\* What is put up for review is one collection since it was first seen, under no other's
\* contracts, and rests on content of its own that no bundle recorded in its time and in
\* order (SeenSince) showed SocialValidity or longer ago, by a post that always said the
\* same.
ReviewsAreGrounded ==
  /\ \A j, k \in facts.known : j # k => ~SharesContract(j.id, k.id)
  /\ \A b \in Bundles : \A i \in DOMAIN b.market.candidates :
       LET r == ObservedRow(facts, b, i, clock) IN
       r.outcome = "review" =>
         /\ \A k \in facts.known : SharesContract(k.id, r.collection) => k.id = r.collection
         /\ \E p \in ToSet(b.x.posts) :
              /\ p.addresses # {} /\ p.addresses \subseteq ToSet(r.collection) /\ ~p.hostile
              /\ \A since \in SeenSince(p.cluster) : clock < since + SocialValidity
              /\ \A k \in facts.posts : k.post = p.id => k.cluster = p.cluster

=============================================================================
