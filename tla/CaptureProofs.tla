--------------------------- MODULE CaptureProofs ---------------------------
(***************************************************************************)
(* Theorems about CaptureStorage, for any number of attempts, captures,    *)
(* rows and clock readings: vault and registry stay a pair that tells one  *)
(* story, and a recovery that ends has brought them in step.               *)
(*                                                                         *)
(* The invariant says which artifacts a capture can have, which of them    *)
(* the entry of its attempt and the owner in memory make necessary, what   *)
(* receipts they accept, that a running operation still has exactly to do  *)
(* what its artifacts lack, and how far a recovery has put things right.   *)
(***************************************************************************)
EXTENDS CaptureStorage, SequenceTheorems, FiniteSetTheorems, TLAPS

-----------------------------------------------------------------------------
(* The inductive invariant. *)

Shapes ==
  {{}, {"creating"}, {"creating", "body"}, {"creating", "body", "dek"}, {"body", "dek"},
   {"body", "dek", "deleting"}, {"body", "deleting"}, {"body", "deleting", "deleted"},
   {"deleting", "deleted"}, {"deleted"}}

\* A deletion stands behind every receipt of a vault.
GoodReceipts == {r \in Receipts : r.reason # "pending"}

\* The artifacts a vault may hold of one capture, and what they say.
Sound(v) ==
  /\ v \in Contents /\ v.files \in Shapes
  /\ v.intent \in GoodReceipts \cup {None} /\ v.tombstone \in GoodReceipts \cup {None}
  /\ "deleting" \in v.files <=> v.intent # None
  /\ "deleted" \in v.files <=> v.tombstone # None
  /\ v.intent # None /\ v.tombstone # None => v.intent = v.tombstone

\* Completely captured, and read or deleted since; and nothing to recover.
Kept(v) == {"body", "dek"} = v.files \/ v.files \cap {"deleting", "deleted"} # {}
Rests(v) == v.files \in {{}, {"body", "dek"}, {"deleted"}}

\* The entry e, or an owner that is o and may yet commit, accepts the receipt r of a
\* deletion of a capture with metadata m.
Allows(m, e, o, r) ==
  /\ e.state = "committed" => e.committedAt <= r.at
  /\ o = "captured" => m.expiresAt <= r.at

Counts(e, o) == e.state = "committed" \/ o \in {"captured", "uncommitted", "shredding"}

\* A capture with artifacts v and metadata m, of an attempt with entry e whose owner is o.
CaptureSound(v, m, e, o) ==
  /\ e # None /\ o # "collecting"
  /\ e.state \in {"pending", "committed"} =>
       m.expiresAt = e.expiresAt /\ e.begunAt <= m.acquiredAt
  /\ e.state = "committed" => m.acquiredAt <= e.committedAt
  /\ Counts(e, o) => Kept(v)
  /\ ReceiptOf(v) # None => Allows(m, e, o, ReceiptOf(v))

\* An owner works on an attempt only as long as its entry says so.
OwnerSound(e, o) ==
  /\ o \in {"collecting", "capturing", "captured", "uncommitted", "shredding"} =>
       e # None /\ e.state = "pending"
  /\ o \in {"held", "deleting", "deleted"} => e # None /\ e.state = "committed"

Of(c, a) == meta[c] # None /\ meta[c].attempt = a

CapturesInv ==
  /\ \A c \in Captures :
       /\ Sound(vault[c])
       /\ meta[c] = None => vault[c] = Empty
       /\ meta[c] # None =>
            CaptureSound(vault[c], meta[c], registry[meta[c].attempt], owner[meta[c].attempt])
  /\ \A c, d \in Captures : \A a \in Attempts : Of(c, a) /\ Of(d, a) => c = d

AttemptsInv ==
  \A a \in Attempts :
    /\ OwnerSound(registry[a], owner[a])
    /\ State(a) = "committed" => registry[a].capture \in Captures /\ Of(registry[a].capture, a)
    /\ owner[a] \in {"captured", "uncommitted", "shredding"} => \E c \in Captures : Of(c, a)
    /\ owner[a] = "deleted" => "deleted" \in vault[registry[a].capture].files
    /\ State(a) = "removed" /\ registry[a].capture # None =>
         LET v == vault[registry[a].capture]
         IN  "deleted" \in v.files /\ v.tombstone = registry[a].removal

\* Who waits for the vault, and for what.
Waits(j, a, o) ==
  /\ o = "capturing" <=> j.kind \in {"capture", "discard"} /\ j.attempt = a
  /\ o \in {"shredding", "deleting"} <=> j.kind = "delete" /\ j.attempt = a

\* A creation is as far as its artifacts are.
CreatePlan(files) ==
  CASE files = {} -> CapturePlan
    [] files = {"creating"} -> Tail(CapturePlan)
    [] files = {"creating", "body"} -> Tail(Tail(CapturePlan))
    [] files = {"creating", "body", "dek"} -> Tail(Tail(Tail(CapturePlan)))
    [] OTHER -> <<>>

\* What is left to do of an operation of this kind on artifacts v.
Plan(kind, v) ==
  CASE kind = "capture" -> CreatePlan(v.files)
    [] kind = "discard" -> DiscardPlan(v)
    [] kind = "recover" -> RecoverPlan(v)
    [] OTHER -> DeletePlan(v)

Erases(kind) == kind \in {"delete", "sweep", "reconcile"}

JobSound(j) ==
  /\ j.kind = "none" => j = NoJob
  /\ j.kind \in {"capture", "discard", "delete"} <=> j.attempt # None
  /\ j.attempt # None => j.attempt \in Attempts /\ j.capture \in Captures /\ Of(j.capture, j.attempt)
  /\ j.attempt # None \/ j.todo # <<>> =>
       /\ j.capture \in Captures /\ meta[j.capture] # None
       /\ j.todo = Plan(j.kind, vault[j.capture])
       /\ j.kind = "capture" =>
            /\ vault[j.capture].files \in Shapes
            /\ ~\E k \in {"deleting", "deleted"} : k \in vault[j.capture].files
       /\ Erases(j.kind) =>
            /\ Kept(vault[j.capture])
            /\ LET m == meta[j.capture] IN Allows(m, registry[m.attempt], owner[m.attempt], j.receipt)
  /\ j.todo # <<>> => j.capture \notin j.left
  /\ Erases(j.kind) => j.receipt \in GoodReceipts
  /\ j.kind = "reconcile" =>
       /\ \A c \in j.left : Readable(vault[c])
       /\ CommittedCaptures \cap j.left = {}
       /\ j.todo # <<>> => j.capture \notin CommittedCaptures

PhaseInv ==
  /\ \A a \in Attempts : Waits(job, a, owner[a])
  /\ phase # "ready" => \A a \in Attempts : owner[a] \in {"idle", "over"}
  /\ job.kind = "recover" <=> phase = "vault"
  /\ job.kind = "reconcile" => phase = "reconcile"
  /\ job.kind \in {"capture", "discard", "delete", "sweep"} => phase = "ready"
  /\ phase = "vault" =>
       \A c \in Captures \ job.left : Rests(vault[c]) \/ (c = job.capture /\ job.todo # <<>>)
  /\ phase \in {"pending", "repair", "reconcile"} =>
       \A c \in Captures : /\ vault[c].temporaries = {}
                           /\ Rests(vault[c]) \/ (c = job.capture /\ job.todo # <<>>)
  /\ phase \in {"repair", "reconcile"} => \A a \in Attempts : State(a) # "pending"
  /\ phase = "reconcile" => \A c \in CommittedCaptures : Readable(vault[c])

\* The numbers of a row are numbers.
Timed(e) ==
  /\ e.sequence \in Nat
  /\ e.state \in {"pending", "committed"} => e.begunAt \in Nat /\ e.expiresAt \in Nat
  /\ e.state = "committed" => e.committedAt \in Nat

RegistryInv ==
  /\ VerifyIntegrity /\ (\A a \in Rows : Timed(registry[a]))
  /\ IsFiniteSet(Rows) /\ nextSequence >= 1

IInv ==
  /\ TypeOK /\ phase # "corrupt" /\ RegistryInv
  /\ CapturesInv /\ AttemptsInv /\ JobSound(job) /\ PhaseInv

-----------------------------------------------------------------------------
(* Plans. *)

Steps == {"publish", "remove"} \X Artifacts

\* A plan begins with its first step.
LEMMA ConsProperties ==
  ASSUME NEW S, NEW s \in Seq(S), NEW x \in S
  PROVE  /\ <<x>> \o s \in Seq(S) /\ <<x>> \o s # <<>>
         /\ Head(<<x>> \o s) = x /\ Tail(<<x>> \o s) = s
<1> DEFINE t == <<x>> \o s
<1>1. <<x>> \in Seq(S) /\ Len(<<x>>) = 1 /\ <<x>>[1] = x
  OBVIOUS
<1>2. t \in Seq(S) /\ Len(t) = 1 + Len(s) /\ t[1] = x /\ \A i \in 1..Len(s) : t[i + 1] = s[i]
  BY <1>1
<1> HIDE DEF t
<1>3. /\ Head(t) = x /\ t # <<>> /\ Tail(t) \in Seq(S) /\ Len(Tail(t)) = Len(s)
      /\ \A i \in 1..Len(s) : Tail(t)[i] = s[i]
  BY <1>2
<1>4. Tail(t) = s
  BY <1>3, SeqEqual
<1>5. QED
  BY <1>2, <1>3, <1>4 DEF t

\* A removal comes first where there is something to remove, and else not at all.
LEMMA RemoveThenProperties ==
  ASSUME NEW v, NEW k \in Artifacts, NEW rest \in Seq(Steps)
  PROVE  /\ RemoveThen(v, k, rest) \in Seq(Steps)
         /\ k \in v.files => /\ RemoveThen(v, k, rest) # <<>>
                             /\ Head(RemoveThen(v, k, rest)) = Remove(k)
                             /\ Tail(RemoveThen(v, k, rest)) = rest
         /\ k \notin v.files => RemoveThen(v, k, rest) = rest
<1>1. Remove(k) \in Steps
  BY DEF Remove, Steps
<1>2. QED
  BY <1>1, ConsProperties DEF RemoveThen

\* The end of every deletion.
Ending(v) == RemoveThen(v, "body", RemoveThen(v, "deleting", <<>>))

\* A plan says what there is to do from the artifacts there are.
LEMMA PlanProperties ==
  ASSUME NEW v \in Contents
  PROVE  /\ Ending(v) \in Seq(Steps) /\ CleanupPlan(v) = RemoveThen(v, "dek", Ending(v))
         /\ CompletionPlan(v) = RemoveThen(v, "dek", <<Publish("deleted")>> \o Ending(v))
         /\ <<Publish("deleted")>> \o Ending(v) \in Seq(Steps)
         /\ <<Publish("deleted")>> \o Ending(v) # <<>>
         /\ Head(<<Publish("deleted")>> \o Ending(v)) = Publish("deleted")
         /\ Tail(<<Publish("deleted")>> \o Ending(v)) = Ending(v)
         /\ CleanupPlan(v) \in Seq(Steps) /\ CompletionPlan(v) \in Seq(Steps)
         /\ DiscardPlan(v) \in Seq(Steps) /\ DeletePlan(v) \in Seq(Steps)
         /\ v.files # {"body"} => RecoverPlan(v) \in Seq(Steps)
<1>1. /\ <<>> \in Seq(Steps) /\ Publish("deleted") \in Steps /\ Publish("deleting") \in Steps
      /\ Remove("creating") \in Steps
  BY DEF Steps, Publish, Remove, Artifacts
<1>2. RemoveThen(v, "deleting", <<>>) \in Seq(Steps)
  BY <1>1, RemoveThenProperties DEF Artifacts
<1>3. Ending(v) \in Seq(Steps)
  BY <1>2, RemoveThenProperties DEF Ending, Artifacts
<1>4. /\ CleanupPlan(v) = RemoveThen(v, "dek", Ending(v))
      /\ CompletionPlan(v) = RemoveThen(v, "dek", <<Publish("deleted")>> \o Ending(v))
  BY DEF CleanupPlan, CompletionPlan, Ending
<1>5. /\ <<Publish("deleted")>> \o Ending(v) \in Seq(Steps)
      /\ <<Publish("deleted")>> \o Ending(v) # <<>>
      /\ Head(<<Publish("deleted")>> \o Ending(v)) = Publish("deleted")
      /\ Tail(<<Publish("deleted")>> \o Ending(v)) = Ending(v)
  BY <1>1, <1>3, ConsProperties
<1>6. CleanupPlan(v) \in Seq(Steps)
  BY <1>3, <1>4, RemoveThenProperties DEF Artifacts
<1>7. CompletionPlan(v) \in Seq(Steps)
  <2>1. "dek" \in Artifacts
    BY DEF Artifacts
  <2>2. RemoveThen(v, "dek", <<Publish("deleted")>> \o Ending(v)) \in Seq(Steps)
    BY <1>5, <2>1, RemoveThenProperties
  <2>3. QED
    BY <1>4, <2>2
<1>8. DiscardPlan(v) \in Seq(Steps)
  <2>1. <<Remove("creating")>> \in Seq(Steps)
    BY <1>1
  <2>2. RemoveThen(v, "body", <<Remove("creating")>>) \in Seq(Steps)
    BY <2>1, RemoveThenProperties DEF Artifacts
  <2>3. RemoveThen(v, "dek", RemoveThen(v, "body", <<Remove("creating")>>)) \in Seq(Steps)
    BY <2>2, RemoveThenProperties DEF Artifacts
  <2>4. QED
    BY <1>1, <2>3 DEF DiscardPlan
<1>9. CompletionPlan([v EXCEPT !.files = @ \cup {"deleting"}]) \in Seq(Steps)
  <2> DEFINE w == [v EXCEPT !.files = @ \cup {"deleting"}]
  <2>1. RemoveThen(w, "deleting", <<>>) \in Seq(Steps)
    BY <1>1, RemoveThenProperties DEF Artifacts
  <2>2. RemoveThen(w, "body", RemoveThen(w, "deleting", <<>>)) \in Seq(Steps)
    BY <2>1, RemoveThenProperties DEF Artifacts
  <2>3. <<Publish("deleted")>> \o RemoveThen(w, "body", RemoveThen(w, "deleting", <<>>)) \in Seq(Steps)
    BY <1>1, <2>2, ConsProperties
  <2>4. QED
    BY <2>3, RemoveThenProperties DEF Artifacts, CompletionPlan
<1>10. DeletePlan(v) \in Seq(Steps)
  BY <1>1, <1>6, <1>7, <1>9, ConsProperties DEF DeletePlan
<1>11. v.files # {"body"} => RecoverPlan(v) \in Seq(Steps)
  BY <1>1, <1>6, <1>7, <1>8 DEF RecoverPlan
<1>12. QED
  BY <1>3, <1>4, <1>5, <1>6, <1>7, <1>8, <1>10, <1>11

\* Of the artifacts it is only which exist that a plan depends on.
LEMMA PlansFollowFiles ==
  ASSUME NEW v \in Contents, NEW w \in Contents, v.files = w.files
  PROVE  /\ CompletionPlan(v) = CompletionPlan(w) /\ CleanupPlan(v) = CleanupPlan(w)
         /\ DeletePlan(v) = DeletePlan(w) /\ DiscardPlan(v) = DiscardPlan(w)
         /\ RecoverPlan(v) = RecoverPlan(w) /\ Ending(v) = Ending(w)
<1>1. [v EXCEPT !.files = @ \cup {"deleting"}].files = [w EXCEPT !.files = @ \cup {"deleting"}].files
  BY DEF Contents
<1>2. \A x, y, k, rest : x.files = y.files => RemoveThen(x, k, rest) = RemoveThen(y, k, rest)
  BY DEF RemoveThen
<1>3. \A x, y : x.files = y.files =>
        /\ CompletionPlan(x) = CompletionPlan(y) /\ CleanupPlan(x) = CleanupPlan(y)
        /\ Ending(x) = Ending(y)
  BY <1>2 DEF CompletionPlan, CleanupPlan, Ending
<1>4. DiscardPlan(v) = DiscardPlan(w)
  BY <1>2 DEF DiscardPlan
<1>5. DeletePlan(v) = DeletePlan(w)
  <2>1. CompletionPlan([v EXCEPT !.files = @ \cup {"deleting"}])
          = CompletionPlan([w EXCEPT !.files = @ \cup {"deleting"}])
    BY <1>1, <1>3
  <2>2. CompletionPlan(v) = CompletionPlan(w) /\ CleanupPlan(v) = CleanupPlan(w)
    BY <1>3
  <2>3. QED
    BY <2>1, <2>2 DEF DeletePlan
<1>6. RecoverPlan(v) = RecoverPlan(w)
  BY <1>3, <1>4 DEF RecoverPlan
<1>7. QED
  BY <1>3, <1>4, <1>5, <1>6

\* What a step does to the artifacts.
LEMMA AfterPublish ==
  ASSUME NEW v \in Contents, NEW k \in Artifacts, NEW r \in Receipts \cup {None}
  PROVE  LET w == After(v, Publish(k), r)
         IN  /\ w \in Contents /\ w.files = v.files \cup {k} /\ w.temporaries = v.temporaries
             /\ k = "deleting" => w.intent = r /\ w.tombstone = v.tombstone
             /\ k = "deleted" => w.intent = v.intent /\ w.tombstone = v.intent
             /\ k \notin {"deleting", "deleted"} => w.intent = v.intent /\ w.tombstone = v.tombstone
<1>1. /\ Publish(k)[1] = "publish" /\ Publish(k)[2] = k
      /\ Publish(k) = Publish("deleting") <=> k = "deleting"
      /\ Publish(k) = Publish("deleted") <=> k = "deleted"
      /\ Publish(k) # Remove("deleting")
  BY DEF Publish, Remove
<1>2. QED
  BY <1>1 DEF After, Contents

\* Artifacts after a removal.
LEMMA AfterRemove ==
  ASSUME NEW v \in Contents, NEW k \in Artifacts, NEW r
  PROVE  LET w == After(v, Remove(k), r)
         IN  /\ w \in Contents /\ w.files = v.files \ {k} /\ w.temporaries = v.temporaries
             /\ k = "deleting" => w.intent = None
             /\ k # "deleting" => w.intent = v.intent
             /\ w.tombstone = v.tombstone
<1>1. /\ Remove(k)[1] = "remove" /\ Remove(k)[2] = k
      /\ Remove(k) = Remove("deleting") <=> k = "deleting"
      /\ Remove(k) # Publish("deleting") /\ Remove(k) # Publish("deleted")
  BY DEF Publish, Remove
<1>2. QED
  BY <1>1 DEF After, Contents

-----------------------------------------------------------------------------
(* A step of an operation. *)

\* The same artifacts; and artifacts w that may follow v.
Same(v, w) == v.files = w.files /\ v.intent = w.intent /\ v.tombstone = w.tombstone
Keeps(v, w) ==
  /\ ReceiptOf(v) # None => ReceiptOf(w) = ReceiptOf(v) /\ (Active(w) => Active(v))
  /\ "deleted" \in v.files => "deleted" \in w.files /\ w.tombstone = v.tombstone
  /\ Kept(v) => Kept(w)

\* Artifacts w, come of v by a step of an operation, with the receipt r if it erases.
Advances(v, w, kind, r) ==
  /\ Sound(w) /\ Keeps(v, w)
  /\ ReceiptOf(w) = ReceiptOf(v) \/ (Erases(kind) /\ ReceiptOf(w) = r)

\* Sound artifacts of a capture that has been complete.
LEMMA KeptShapes ==
  ASSUME NEW v, Sound(v), Kept(v)
  PROVE  v.files \in {{"body", "dek"}, {"body", "dek", "deleting"}, {"body", "deleting"},
                      {"body", "deleting", "deleted"}, {"deleting", "deleted"}, {"deleted"}}
BY DEF Sound, Kept, Shapes

\* The plans of a deletion, by what there is.
LEMMA DeletionPlans ==
  ASSUME NEW v \in Contents
  PROVE  /\ "dek" \notin v.files => /\ CompletionPlan(v) = <<Publish("deleted")>> \o Ending(v)
                                   /\ CleanupPlan(v) = Ending(v)
         /\ "dek" \in v.files => /\ CompletionPlan(v) # <<>> /\ Head(CompletionPlan(v)) = Remove("dek")
                                /\ Tail(CompletionPlan(v)) = <<Publish("deleted")>> \o Ending(v)
         /\ "body" \in v.files => /\ Ending(v) # <<>> /\ Head(Ending(v)) = Remove("body")
                                 /\ Tail(Ending(v)) = RemoveThen(v, "deleting", <<>>)
         /\ "body" \notin v.files => Ending(v) = RemoveThen(v, "deleting", <<>>)
         /\ "deleting" \in v.files => /\ RemoveThen(v, "deleting", <<>>) # <<>>
                                     /\ Head(RemoveThen(v, "deleting", <<>>)) = Remove("deleting")
                                     /\ Tail(RemoveThen(v, "deleting", <<>>)) = <<>>
         /\ "deleting" \notin v.files => RemoveThen(v, "deleting", <<>>) = <<>>
         /\ \A w \in Contents : \A k, s :
              (k \in v.files <=> k \in w.files) => RemoveThen(v, k, s) = RemoveThen(w, k, s)
<1>1. <<>> \in Seq(Steps) /\ {"dek", "body", "deleting"} \subseteq Artifacts
  BY EmptySeq DEF Artifacts
<1>2. RemoveThen(v, "deleting", <<>>) \in Seq(Steps)
  BY <1>1, RemoveThenProperties
<1>3. /\ Ending(v) \in Seq(Steps) /\ CleanupPlan(v) = RemoveThen(v, "dek", Ending(v))
      /\ CompletionPlan(v) = RemoveThen(v, "dek", <<Publish("deleted")>> \o Ending(v))
      /\ <<Publish("deleted")>> \o Ending(v) \in Seq(Steps)
  BY PlanProperties
<1>4. "dek" \notin v.files => /\ CompletionPlan(v) = <<Publish("deleted")>> \o Ending(v)
                             /\ CleanupPlan(v) = Ending(v)
  BY <1>3 DEF RemoveThen
<1>5. "dek" \in v.files => /\ CompletionPlan(v) # <<>> /\ Head(CompletionPlan(v)) = Remove("dek")
                          /\ Tail(CompletionPlan(v)) = <<Publish("deleted")>> \o Ending(v)
  <2> DEFINE s == <<Publish("deleted")>> \o Ending(v)
  <2>1. s \in Seq(Steps) /\ CompletionPlan(v) = RemoveThen(v, "dek", s) /\ "dek" \in Artifacts
    BY <1>1, <1>3
  <2> HIDE DEF s
  <2>2. "dek" \in v.files => /\ RemoveThen(v, "dek", s) # <<>>
                             /\ Head(RemoveThen(v, "dek", s)) = Remove("dek")
                            /\ Tail(RemoveThen(v, "dek", s)) = s
    BY <2>1, RemoveThenProperties
  <2>3. QED
    BY <2>1, <2>2 DEF s
<1>6. /\ "body" \in v.files => /\ Ending(v) # <<>> /\ Head(Ending(v)) = Remove("body")
                               /\ Tail(Ending(v)) = RemoveThen(v, "deleting", <<>>)
      /\ "body" \notin v.files => Ending(v) = RemoveThen(v, "deleting", <<>>)
  <2>1. Ending(v) = RemoveThen(v, "body", RemoveThen(v, "deleting", <<>>))
    BY DEF Ending
  <2>2. QED
    BY <1>1, <1>2, <2>1, RemoveThenProperties
<1>7. /\ "deleting" \in v.files => /\ RemoveThen(v, "deleting", <<>>) # <<>>
                                   /\ Head(RemoveThen(v, "deleting", <<>>)) = Remove("deleting")
                                   /\ Tail(RemoveThen(v, "deleting", <<>>)) = <<>>
      /\ "deleting" \notin v.files => RemoveThen(v, "deleting", <<>>) = <<>>
  BY <1>1, RemoveThenProperties
<1>8. \A w \in Contents : \A k, s :
        (k \in v.files <=> k \in w.files) => RemoveThen(v, k, s) = RemoveThen(w, k, s)
  BY DEF RemoveThen
<1>9. QED
  BY <1>4, <1>5, <1>6, <1>7, <1>8

\* One step of a deletion: what it leaves is sound, keeps the receipt there was, and
\* has the rest of the plan before it.
LEMMA ErasingStep ==
  ASSUME NEW v, Sound(v), Kept(v), NEW r \in GoodReceipts, DeletePlan(v) # <<>>,
         NEW kind, Erases(kind)
  PROVE  /\ Advances(v, After(v, Head(DeletePlan(v)), r), kind, r)
         /\ DeletePlan(After(v, Head(DeletePlan(v)), r)) = Tail(DeletePlan(v))
<1> DEFINE w == After(v, Head(DeletePlan(v)), r)
<1>1. v \in Contents /\ r \in Receipts /\ r # None
  BY NoRecordAssumption DEF Sound, GoodReceipts
<1>2. /\ v.intent \in GoodReceipts \cup {None} /\ v.tombstone \in GoodReceipts \cup {None}
      /\ "deleting" \in v.files <=> v.intent # None
      /\ "deleted" \in v.files <=> v.tombstone # None
      /\ v.intent # None /\ v.tombstone # None => v.intent = v.tombstone
  BY DEF Sound
<1> SUFFICES Advances(v, w, kind, r) /\ DeletePlan(w) = Tail(DeletePlan(v))
  OBVIOUS
<1>3. CASE v.files = {"body", "dek"}
  <2> DEFINE u == [v EXCEPT !.files = @ \cup {"deleting"}]
  <2>1. u \in Contents /\ u.files = {"body", "dek", "deleting"}
    BY <1>1, <1>3 DEF Contents, Artifacts
  <2>2. DeletePlan(v) = <<Publish("deleting")>> \o CompletionPlan(u)
    BY <1>3 DEF DeletePlan
  <2>3. Head(DeletePlan(v)) = Publish("deleting") /\ Tail(DeletePlan(v)) = CompletionPlan(u)
    <3>1. Publish("deleting") \in Steps /\ CompletionPlan(u) \in Seq(Steps)
      BY <2>1, PlanProperties DEF Steps, Publish, Artifacts
    <3>2. QED
      BY <2>2, <3>1, ConsProperties
  <2>4. /\ w \in Contents /\ w.files = {"body", "dek", "deleting"} /\ w.intent = r
        /\ w.tombstone = v.tombstone
    <3>1. "deleting" \in Artifacts /\ r \in Receipts \cup {None} /\ w = After(v, Publish("deleting"), r)
      BY <1>1, <2>3 DEF Artifacts
    <3> HIDE DEF w
    <3>2. /\ w \in Contents /\ w.files = v.files \cup {"deleting"}
          /\ w.intent = r /\ w.tombstone = v.tombstone
      BY <1>1, <3>1, AfterPublish
    <3>3. QED
      BY <1>3, <3>2
  <2>5. DeletePlan(w) = CompletionPlan(u)
    BY <2>1, <2>4, PlansFollowFiles DEF DeletePlan
  <2>6. Advances(v, w, kind, r)
    BY <1>1, <1>2, <1>3, <2>4 DEF Advances, Sound, Shapes, Keeps, Kept, ReceiptOf, Active
  <2>7. QED
    BY <2>3, <2>5, <2>6
<1>4. CASE v.files = {"body", "dek", "deleting"}
  <2>1. DeletePlan(v) = RemoveThen(v, "dek", <<Publish("deleted")>> \o Ending(v))
    BY <1>1, <1>4, PlanProperties DEF DeletePlan
  <2>2. Head(DeletePlan(v)) = Remove("dek") /\ Tail(DeletePlan(v)) = <<Publish("deleted")>> \o Ending(v)
    <3>1. DeletePlan(v) = CompletionPlan(v) /\ "dek" \in v.files
      BY <1>4 DEF DeletePlan
    <3>2. QED
      BY <1>1, <3>1, DeletionPlans
  <2>3. /\ w \in Contents /\ w.files = {"body", "deleting"} /\ w.intent = v.intent
        /\ w.tombstone = v.tombstone
    BY <1>1, <1>4, <2>2, AfterRemove DEF Artifacts
  <2>4. DeletePlan(w) = <<Publish("deleted")>> \o Ending(w)
    BY <1>1, <2>3, DeletionPlans DEF DeletePlan
  <2>5. Ending(w) = Ending(v)
    <3>1. /\ RemoveThen(w, "deleting", <<>>) = RemoveThen(v, "deleting", <<>>)
          /\ \A s : RemoveThen(w, "body", s) = RemoveThen(v, "body", s)
      BY <1>4, <2>3 DEF RemoveThen
    <3>2. QED
      BY <3>1 DEF Ending
  <2>6. Advances(v, w, kind, r)
    BY <1>1, <1>2, <1>4, <2>3 DEF Advances, Sound, Shapes, Keeps, Kept, ReceiptOf, Active
  <2>7. QED
    BY <2>2, <2>4, <2>5, <2>6
<1>5. CASE v.files = {"body", "deleting"}
  <2>1. DeletePlan(v) = <<Publish("deleted")>> \o Ending(v)
    BY <1>1, <1>5, DeletionPlans DEF DeletePlan
  <2>2. Head(DeletePlan(v)) = Publish("deleted") /\ Tail(DeletePlan(v)) = Ending(v)
    BY <1>1, <2>1, PlanProperties
  <2>3. /\ w \in Contents /\ w.files = {"body", "deleting", "deleted"} /\ w.intent = v.intent
        /\ w.tombstone = v.intent
    <3>1. "deleted" \in Artifacts /\ r \in Receipts \cup {None} /\ w = After(v, Publish("deleted"), r)
      BY <1>1, <2>2 DEF Artifacts
    <3> HIDE DEF w
    <3>2. /\ w \in Contents /\ w.files = v.files \cup {"deleted"}
          /\ w.intent = v.intent /\ w.tombstone = v.intent
      BY <1>1, <3>1, AfterPublish
    <3>3. QED
      BY <1>5, <3>2
  <2>4. DeletePlan(w) = Ending(w)
    BY <1>1, <2>3, DeletionPlans DEF DeletePlan
  <2>5. Ending(w) = Ending(v)
    <3>1. /\ RemoveThen(w, "deleting", <<>>) = RemoveThen(v, "deleting", <<>>)
          /\ \A s : RemoveThen(w, "body", s) = RemoveThen(v, "body", s)
      BY <1>5, <2>3 DEF RemoveThen
    <3>2. QED
      BY <3>1 DEF Ending
  <2>6. Advances(v, w, kind, r)
    BY <1>1, <1>2, <1>5, <2>3 DEF Advances, Sound, Shapes, Keeps, Kept, ReceiptOf, Active
  <2>7. QED
    BY <2>2, <2>4, <2>5, <2>6
<1>6. CASE v.files = {"body", "deleting", "deleted"}
  <2>1. DeletePlan(v) = Ending(v)
    BY <1>1, <1>6, DeletionPlans DEF DeletePlan
  <2>3. Head(DeletePlan(v)) = Remove("body") /\ Tail(DeletePlan(v)) = RemoveThen(v, "deleting", <<>>)
    BY <1>1, <1>6, <2>1, DeletionPlans
  <2>4. /\ w \in Contents /\ w.files = {"deleting", "deleted"} /\ w.intent = v.intent
        /\ w.tombstone = v.tombstone
    BY <1>1, <1>6, <2>3, AfterRemove DEF Artifacts
  <2>5. DeletePlan(w) = Ending(w)
    BY <1>1, <2>4, DeletionPlans DEF DeletePlan
  <2>6. Ending(w) = RemoveThen(v, "deleting", <<>>)
    BY <1>6, <2>4 DEF Ending, RemoveThen
  <2>7. Advances(v, w, kind, r)
    BY <1>1, <1>2, <1>6, <2>4 DEF Advances, Sound, Shapes, Keeps, Kept, ReceiptOf, Active
  <2>8. QED
    BY <2>3, <2>5, <2>6, <2>7
<1>7. CASE v.files = {"deleting", "deleted"}
  <2>1. DeletePlan(v) = Ending(v)
    BY <1>1, <1>7, DeletionPlans DEF DeletePlan
  <2>2. Ending(v) = RemoveThen(v, "deleting", <<>>)
    BY <1>7 DEF Ending, RemoveThen
  <2>3. Head(DeletePlan(v)) = Remove("deleting") /\ Tail(DeletePlan(v)) = <<>>
    BY <1>1, <1>7, <2>1, <2>2, DeletionPlans
  <2>4. /\ w \in Contents /\ w.files = {"deleted"} /\ w.intent = None
        /\ w.tombstone = v.tombstone
    BY <1>1, <1>7, <2>3, AfterRemove DEF Artifacts
  <2>5. DeletePlan(w) = Ending(w)
    BY <1>1, <2>4, DeletionPlans DEF DeletePlan
  <2>6. Ending(w) = <<>>
    BY <2>4 DEF Ending, RemoveThen
  <2>7. Advances(v, w, kind, r)
    BY <1>1, <1>2, <1>7, <2>4 DEF Advances, Sound, Shapes, Keeps, Kept, ReceiptOf, Active
  <2>8. QED
    BY <2>3, <2>5, <2>6, <2>7
<1>8. CASE v.files = {"deleted"}
  <2>1. DeletePlan(v) = Ending(v)
    BY <1>1, <1>8, DeletionPlans DEF DeletePlan
  <2>2. QED
    BY <1>8, <2>1 DEF Ending, RemoveThen
<1>9. QED
  BY <1>3, <1>4, <1>5, <1>6, <1>7, <1>8, KeptShapes

\* A deletion that has begun goes on in the same way whoever takes it up.
LEMMA BegunDeletion ==
  ASSUME NEW v, Sound(v), v.files \cap {"deleting", "deleted"} # {}, DeletePlan(v) # <<>>, NEW r, NEW q
  PROVE  /\ After(v, Head(DeletePlan(v)), r) = After(v, Head(DeletePlan(v)), q)
         /\ RecoverPlan(v) = DeletePlan(v) /\ ReceiptOf(v) \in GoodReceipts /\ Kept(v)
<1>1. Kept(v) /\ v \in Contents /\ ReceiptOf(v) \in GoodReceipts
  BY DEF Kept, Sound, ReceiptOf
<1>2. "creating" \notin v.files /\ ("deleted" \in v.files => "dek" \notin v.files)
  BY <1>1, KeptShapes
<1>3. RecoverPlan(v) = DeletePlan(v)
  BY <1>2 DEF RecoverPlan, DeletePlan
<1>4. Head(DeletePlan(v)) # Publish("deleting")
  <2>1. /\ Publish("deleted") # Publish("deleting")
        /\ \A k : Remove(k) # Publish("deleting")
    BY DEF Publish, Remove
  <2>2. CASE "deleted" \in v.files
    <3>1. DeletePlan(v) = Ending(v)
      BY <1>1, <1>2, <2>2, DeletionPlans DEF DeletePlan
    <3>2. CASE "body" \in v.files
      BY <1>1, <2>1, <3>1, <3>2, DeletionPlans
    <3>3. CASE "body" \notin v.files /\ "deleting" \in v.files
      BY <1>1, <2>1, <3>1, <3>3, DeletionPlans
    <3>4. CASE "body" \notin v.files /\ "deleting" \notin v.files
      BY <1>1, <3>1, <3>4, DeletionPlans
    <3>5. QED
      BY <3>2, <3>3, <3>4
  <2>3. CASE "deleted" \notin v.files
    <3>1. DeletePlan(v) = CompletionPlan(v)
      BY <2>3 DEF DeletePlan
    <3>2. CASE "dek" \in v.files
      BY <1>1, <2>1, <3>1, <3>2, DeletionPlans
    <3>3. CASE "dek" \notin v.files
      <4>1. DeletePlan(v) = <<Publish("deleted")>> \o Ending(v)
        BY <1>1, <3>1, <3>3, DeletionPlans
      <4>2. QED
        BY <1>1, <2>1, <4>1, PlanProperties
    <3>4. QED
      BY <3>2, <3>3
  <2>4. QED
    BY <2>2, <2>3
<1>5. QED
  BY <1>1, <1>3, <1>4 DEF After

\* One step of the discard of a creation.
LEMMA DiscardingStep ==
  ASSUME NEW v, Sound(v), DiscardPlan(v) # <<>>, NEW r, NEW kind
  PROVE  /\ Advances(v, After(v, Head(DiscardPlan(v)), r), kind, r)
         /\ DiscardPlan(After(v, Head(DiscardPlan(v)), r)) = Tail(DiscardPlan(v))
         /\ After(v, Head(DiscardPlan(v)), r).files \in {{}, {"creating"}, {"creating", "body"}}
         /\ "creating" \in v.files
<1> DEFINE w == After(v, Head(DiscardPlan(v)), r)
<1> SUFFICES /\ Advances(v, w, kind, r) /\ DiscardPlan(w) = Tail(DiscardPlan(v))
             /\ w.files \in {{}, {"creating"}, {"creating", "body"}} /\ "creating" \in v.files
  OBVIOUS
<1>1. "creating" \in v.files
  BY DEF DiscardPlan
<1>2. /\ v \in Contents /\ v.intent = None /\ v.tombstone = None
      /\ v.files \in {{"creating"}, {"creating", "body"}, {"creating", "body", "dek"}}
  BY <1>1 DEF Sound, Shapes
<1>3. {"creating", "body", "dek"} \subseteq Artifacts
  BY DEF Artifacts
<1> DEFINE last == <<Remove("creating")>>
<1>4. last \in Seq(Steps) /\ last # <<>> /\ Head(last) = Remove("creating") /\ Tail(last) = <<>>
  BY DEF Steps, Remove, Artifacts
<1> DEFINE half == RemoveThen(v, "body", last)
<1>5. DiscardPlan(v) = RemoveThen(v, "dek", half)
  BY <1>1 DEF DiscardPlan
<1> HIDE DEF last
<1>6. /\ half \in Seq(Steps) /\ ("body" \notin v.files => half = last)
      /\ "body" \in v.files => half # <<>> /\ Head(half) = Remove("body") /\ Tail(half) = last
  BY <1>3, <1>4, RemoveThenProperties DEF half
<1> HIDE DEF half
<1>7. /\ "dek" \in v.files => Head(DiscardPlan(v)) = Remove("dek") /\ Tail(DiscardPlan(v)) = half
      /\ "dek" \notin v.files => DiscardPlan(v) = half
  <2>1. "dek" \in Artifacts /\ half \in Seq(Steps)
    BY <1>3, <1>6
  <2>2. /\ "dek" \in v.files => /\ Head(RemoveThen(v, "dek", half)) = Remove("dek")
                               /\ Tail(RemoveThen(v, "dek", half)) = half
        /\ "dek" \notin v.files => RemoveThen(v, "dek", half) = half
    BY <2>1, RemoveThenProperties
  <2>3. QED
    BY <1>5, <2>2
<1>8. \A u : "creating" \in u.files /\ "dek" \notin u.files =>
        /\ ("body" \in u.files <=> "body" \in v.files) => DiscardPlan(u) = half
        /\ "body" \notin u.files => DiscardPlan(u) = last
  BY DEF DiscardPlan, RemoveThen, half, last
<1>9. CASE v.files = {"creating", "body", "dek"}
  <2>1. w = After(v, Remove("dek"), r) /\ Tail(DiscardPlan(v)) = half
    BY <1>7, <1>9
  <2> HIDE DEF w
  <2>2. /\ w \in Contents /\ w.files = v.files \ {"dek"} /\ w.intent = None /\ w.tombstone = None
    BY <1>2, <1>3, <2>1, AfterRemove
  <2>3. w.files = {"creating", "body"}
    BY <1>9, <2>2
  <2>4. DiscardPlan(w) = half
    BY <1>8, <1>9, <2>3
  <2>5. QED
    BY <1>1, <1>2, <1>9, <2>1, <2>2, <2>3, <2>4
       DEF Advances, Sound, Shapes, Keeps, Kept, ReceiptOf, Active
<1>10. CASE v.files = {"creating", "body"}
  <2>1. w = After(v, Remove("body"), r) /\ Tail(DiscardPlan(v)) = last
    BY <1>6, <1>7, <1>10
  <2> HIDE DEF w
  <2>2. /\ w \in Contents /\ w.files = v.files \ {"body"} /\ w.intent = None /\ w.tombstone = None
    BY <1>2, <1>3, <2>1, AfterRemove
  <2>3. w.files = {"creating"}
    BY <1>10, <2>2
  <2>4. DiscardPlan(w) = last
    BY <1>8, <1>10, <2>3
  <2>5. QED
    BY <1>1, <1>2, <1>10, <2>1, <2>2, <2>3, <2>4
       DEF Advances, Sound, Shapes, Keeps, Kept, ReceiptOf, Active
<1>11. CASE v.files = {"creating"}
  <2>1. w = After(v, Remove("creating"), r) /\ Tail(DiscardPlan(v)) = <<>>
    BY <1>4, <1>6, <1>7, <1>11
  <2> HIDE DEF w
  <2>2. /\ w \in Contents /\ w.files = v.files \ {"creating"} /\ w.intent = None /\ w.tombstone = None
    BY <1>2, <1>3, <2>1, AfterRemove
  <2>3. w.files = {}
    BY <1>11, <2>2
  <2>4. DiscardPlan(w) = <<>>
    BY <2>3 DEF DiscardPlan
  <2>5. QED
    BY <1>1, <1>2, <1>11, <2>1, <2>2, <2>3, <2>4
       DEF Advances, Sound, Shapes, Keeps, Kept, ReceiptOf, Active
<1>12. QED
  BY <1>2, <1>9, <1>10, <1>11

\* One step of the vault's recovery.
LEMMA RecoveringStep ==
  ASSUME NEW v, Sound(v), RecoverPlan(v) # <<>>, NEW r, NEW kind
  PROVE  /\ Advances(v, After(v, Head(RecoverPlan(v)), r), kind, r)
         /\ ReceiptOf(After(v, Head(RecoverPlan(v)), r)) = ReceiptOf(v)
         /\ RecoverPlan(After(v, Head(RecoverPlan(v)), r)) = Tail(RecoverPlan(v))
<1> DEFINE w == After(v, Head(RecoverPlan(v)), r)
<1> SUFFICES /\ Advances(v, w, kind, r) /\ ReceiptOf(w) = ReceiptOf(v)
             /\ RecoverPlan(w) = Tail(RecoverPlan(v))
  OBVIOUS
<1>1. CASE "creating" \in v.files
  <2>1. RecoverPlan(v) = DiscardPlan(v)
    BY <1>1 DEF RecoverPlan
  <2>2. /\ Advances(v, w, "recover", r) /\ DiscardPlan(w) = Tail(DiscardPlan(v))
        /\ w.files \in {{}, {"creating"}, {"creating", "body"}}
    BY <2>1, DiscardingStep
  <2> HIDE DEF w
  <2>3. RecoverPlan(w) = DiscardPlan(w)
    BY <2>2 DEF RecoverPlan, DiscardPlan
  <2>4. QED
    BY <2>1, <2>2, <2>3 DEF Advances, Erases
<1>2. CASE "creating" \notin v.files
  <2>1. v.files \cap {"deleting", "deleted"} # {}
    BY <1>2 DEF RecoverPlan, Sound, Shapes
  <2> DEFINE q == ReceiptOf(v)
  <2>2. DeletePlan(v) = RecoverPlan(v)
    BY <1>2 DEF RecoverPlan, DeletePlan, Sound, Shapes
  <2>3. w = After(v, Head(DeletePlan(v)), q) /\ q \in GoodReceipts /\ Kept(v)
    BY <2>1, <2>2, BegunDeletion
  <2>4. Advances(v, w, "delete", q) /\ DeletePlan(w) = Tail(DeletePlan(v))
    BY <2>2, <2>3, ErasingStep DEF Erases
  <2> HIDE DEF w
  <2>5. Sound(w) /\ Keeps(v, w) /\ ReceiptOf(w) = q /\ q # None
    BY <2>3, <2>4, NoRecordAssumption DEF Advances, GoodReceipts
  <2>6. w.files \cap {"deleting", "deleted"} # {}
    BY <2>5 DEF Sound, ReceiptOf
  <2>7. RecoverPlan(w) = DeletePlan(w)
    BY <2>5, <2>6 DEF RecoverPlan, DeletePlan, Sound, Shapes
  <2>8. QED
    BY <2>2, <2>4, <2>5, <2>7 DEF Advances
<1>3. QED
  BY <1>1, <1>2

\* The four steps of a creation.
LEMMA CapturePlanProperties ==
  /\ CapturePlan \in Seq(Steps) /\ CapturePlan # <<>> /\ Head(CapturePlan) = Publish("creating")
  /\ Tail(CapturePlan) # <<>> /\ Head(Tail(CapturePlan)) = Publish("body")
  /\ Tail(Tail(CapturePlan)) # <<>> /\ Head(Tail(Tail(CapturePlan))) = Publish("dek")
  /\ Tail(Tail(Tail(CapturePlan))) # <<>>
  /\ Head(Tail(Tail(Tail(CapturePlan)))) = Remove("creating")
  /\ Tail(Tail(Tail(Tail(CapturePlan)))) = <<>>
  /\ Tail(CapturePlan) \in Seq(Steps) /\ Tail(Tail(CapturePlan)) \in Seq(Steps)
  /\ Tail(Tail(Tail(CapturePlan))) \in Seq(Steps)
<1>1. /\ Publish("creating") \in Steps /\ Publish("body") \in Steps /\ Publish("dek") \in Steps
      /\ Remove("creating") \in Steps
  BY DEF Steps, Publish, Remove, Artifacts
<1> DEFINE p == CapturePlan
<1>2. /\ p \in Seq(Steps) /\ Len(p) = 4 /\ p[1] = Publish("creating") /\ p[2] = Publish("body")
      /\ p[3] = Publish("dek") /\ p[4] = Remove("creating")
  BY <1>1 DEF CapturePlan
<1> HIDE DEF p
<1> DEFINE p1 == Tail(p)  p2 == Tail(p1)  p3 == Tail(p2)  p4 == Tail(p3)
<1>3. /\ p # <<>> /\ Head(p) = Publish("creating") /\ p1 \in Seq(Steps) /\ Len(p1) = 3
      /\ p1[1] = Publish("body") /\ p1[2] = Publish("dek") /\ p1[3] = Remove("creating")
  BY <1>2
<1> HIDE DEF p1
<1>4. /\ p1 # <<>> /\ Head(p1) = Publish("body") /\ p2 \in Seq(Steps) /\ Len(p2) = 2
      /\ p2[1] = Publish("dek") /\ p2[2] = Remove("creating")
  BY <1>3, HeadTailProperties
<1> HIDE DEF p2
<1>5. /\ p2 # <<>> /\ Head(p2) = Publish("dek") /\ p3 \in Seq(Steps) /\ Len(p3) = 1
      /\ p3[1] = Remove("creating")
  BY <1>4, HeadTailProperties
<1> HIDE DEF p3
<1>6. p3 # <<>> /\ Head(p3) = Remove("creating") /\ p4 \in Seq(Steps) /\ Len(p4) = 0
  BY <1>5, HeadTailProperties
<1> HIDE DEF p4
<1>7. QED
  BY <1>2, <1>3, <1>4, <1>5, <1>6, EmptySeq DEF p, p1, p2, p3, p4

\* What is left of a creation, artifact by artifact.
LEMMA CreatePlans ==
  /\ CreatePlan({}) = CapturePlan
  /\ CreatePlan({"creating"}) = Tail(CapturePlan)
  /\ CreatePlan({"creating", "body"}) = Tail(Tail(CapturePlan))
  /\ CreatePlan({"creating", "body", "dek"}) = Tail(Tail(Tail(CapturePlan)))
  /\ CreatePlan({"body", "dek"}) = <<>>
  /\ \A files : CreatePlan(files) # <<>> =>
       files \in {{}, {"creating"}, {"creating", "body"}, {"creating", "body", "dek"}}
<1>1. /\ {"creating"} # {} /\ {"creating", "body"} # {}
      /\ {"creating", "body", "dek"} # {} /\ {"body", "dek"} # {}
  OBVIOUS
<1>2. /\ "body" \notin {"creating"} /\ "dek" \notin {"creating", "body"}
      /\ "creating" \notin {"body", "dek"} /\ "dek" \notin {"creating"}
      /\ "body" \in {"creating", "body"} /\ "dek" \in {"creating", "body", "dek"}
      /\ "creating" \in {"creating"} /\ "creating" \in {"creating", "body"}
      /\ "creating" \in {"creating", "body", "dek"}
  OBVIOUS
<1>3. /\ {"creating"} # {"creating", "body"} /\ {"creating"} # {"creating", "body", "dek"}
      /\ {"creating", "body"} # {"creating", "body", "dek"} /\ {"body", "dek"} # {"creating"}
      /\ {"body", "dek"} # {"creating", "body"} /\ {"body", "dek"} # {"creating", "body", "dek"}
  BY <1>2
<1>4. QED
  BY <1>1, <1>3 DEF CreatePlan

\* One step of a creation.
LEMMA CreatingStep ==
  ASSUME NEW v, Sound(v), CreatePlan(v.files) # <<>>, NEW r \in Receipts \cup {None}, NEW kind
  PROVE  /\ Advances(v, After(v, Head(CreatePlan(v.files)), r), kind, r)
         /\ CreatePlan(After(v, Head(CreatePlan(v.files)), r).files) = Tail(CreatePlan(v.files))
         /\ ReceiptOf(After(v, Head(CreatePlan(v.files)), r)) = None
<1> DEFINE w == After(v, Head(CreatePlan(v.files)), r)
<1> SUFFICES /\ Advances(v, w, kind, r) /\ CreatePlan(w.files) = Tail(CreatePlan(v.files))
             /\ ReceiptOf(w) = None
  OBVIOUS
<1>1. v.files \in {{}, {"creating"}, {"creating", "body"}, {"creating", "body", "dek"}}
  BY CreatePlans
<1>2. v \in Contents /\ v.intent = None /\ v.tombstone = None
  BY <1>1 DEF Sound
<1>3. {"creating", "body", "dek"} \subseteq Artifacts
  BY DEF Artifacts
<1>4. CASE v.files = {}
  <2>1. w = After(v, Publish("creating"), r)
    BY <1>4, CreatePlans, CapturePlanProperties
  <2> HIDE DEF w
  <2>2. w \in Contents /\ w.files = v.files \cup {"creating"} /\ w.intent = None /\ w.tombstone = None
    BY <1>2, <1>3, <2>1, AfterPublish
  <2>3. w.files = {"creating"}
    BY <1>4, <2>2
  <2>4. CreatePlan(w.files) = Tail(CreatePlan(v.files))
    BY <1>4, <2>3, CreatePlans
  <2>5. QED
    BY <1>2, <1>4, <2>2, <2>3, <2>4 DEF Advances, Sound, Shapes, Keeps, Kept, ReceiptOf, Active
<1>5. CASE v.files = {"creating"}
  <2>1. w = After(v, Publish("body"), r)
    BY <1>5, CreatePlans, CapturePlanProperties
  <2> HIDE DEF w
  <2>2. w \in Contents /\ w.files = v.files \cup {"body"} /\ w.intent = None /\ w.tombstone = None
    BY <1>2, <1>3, <2>1, AfterPublish
  <2>3. w.files = {"creating", "body"}
    BY <1>5, <2>2
  <2>4. CreatePlan(w.files) = Tail(CreatePlan(v.files))
    BY <1>5, <2>3, CreatePlans
  <2>5. QED
    BY <1>2, <1>5, <2>2, <2>3, <2>4 DEF Advances, Sound, Shapes, Keeps, Kept, ReceiptOf, Active
<1>6. CASE v.files = {"creating", "body"}
  <2>1. w = After(v, Publish("dek"), r)
    BY <1>6, CreatePlans, CapturePlanProperties
  <2> HIDE DEF w
  <2>2. w \in Contents /\ w.files = v.files \cup {"dek"} /\ w.intent = None /\ w.tombstone = None
    BY <1>2, <1>3, <2>1, AfterPublish
  <2>3. w.files = {"creating", "body", "dek"}
    BY <1>6, <2>2
  <2>4. CreatePlan(w.files) = Tail(CreatePlan(v.files))
    BY <1>6, <2>3, CreatePlans
  <2>5. QED
    BY <1>2, <1>6, <2>2, <2>3, <2>4 DEF Advances, Sound, Shapes, Keeps, Kept, ReceiptOf, Active
<1>7. CASE v.files = {"creating", "body", "dek"}
  <2>1. w = After(v, Remove("creating"), r)
    BY <1>7, CreatePlans, CapturePlanProperties
  <2> HIDE DEF w
  <2>2. w \in Contents /\ w.files = v.files \ {"creating"} /\ w.intent = None /\ w.tombstone = None
    BY <1>2, <1>3, <2>1, AfterRemove
  <2>3. w.files = {"body", "dek"}
    BY <1>7, <2>2
  <2>4. CreatePlan(w.files) = Tail(CreatePlan(v.files))
    BY <1>7, <2>3, CreatePlans, CapturePlanProperties
  <2>5. QED
    BY <1>2, <1>7, <2>2, <2>3, <2>4 DEF Advances, Sound, Shapes, Keeps, Kept, ReceiptOf, Active
<1>8. QED
  BY <1>1, <1>4, <1>5, <1>6, <1>7

Kinds == {"capture", "discard", "delete", "recover", "sweep", "reconcile"}

\* One step of any operation: a plan leads on to the rest of itself.
LEMMA PlannedStep ==
  ASSUME NEW kind \in Kinds, NEW v, Sound(v), Plan(kind, v) # <<>>, NEW r \in Receipts \cup {None},
         Erases(kind) => Kept(v) /\ r \in GoodReceipts
  PROVE  /\ Advances(v, After(v, Head(Plan(kind, v)), r), kind, r)
         /\ Plan(kind, After(v, Head(Plan(kind, v)), r)) = Tail(Plan(kind, v))
         /\ kind = "capture" => ReceiptOf(After(v, Head(Plan(kind, v)), r)) = None
<1>1. CASE kind = "capture"
  BY <1>1, CreatingStep DEF Plan
<1>2. CASE kind = "discard"
  BY <1>2, DiscardingStep DEF Plan
<1>3. CASE kind = "recover"
  BY <1>3, RecoveringStep DEF Plan
<1>4. CASE Erases(kind)
  <2>1. \A u : Plan(kind, u) = DeletePlan(u)
    BY <1>4 DEF Plan, Erases
  <2>2. Plan(kind, v) = DeletePlan(v) /\ kind # "capture"
    BY <1>4, <2>1 DEF Erases
  <2>3. /\ Advances(v, After(v, Head(DeletePlan(v)), r), kind, r)
        /\ DeletePlan(After(v, Head(DeletePlan(v)), r)) = Tail(DeletePlan(v))
    BY <1>4, <2>2, ErasingStep
  <2>4. QED
    BY <2>1, <2>2, <2>3
<1>5. QED
  BY <1>1, <1>2, <1>3, <1>4 DEF Kinds, Erases

\* What is left of an operation is a sequence of steps.
LEMMA PlanIsSeq ==
  ASSUME NEW kind, NEW v, Sound(v)
  PROVE  Plan(kind, v) \in Seq(Steps)
<1>1. v \in Contents /\ v.files # {"body"}
  BY DEF Sound, Shapes
<1>2. /\ DiscardPlan(v) \in Seq(Steps) /\ RecoverPlan(v) \in Seq(Steps) /\ DeletePlan(v) \in Seq(Steps)
  BY <1>1, PlanProperties
<1>3. CreatePlan(v.files) \in Seq(Steps)
  BY CapturePlanProperties, EmptySeq DEF CreatePlan
<1>4. QED
  BY <1>2, <1>3 DEF Plan

\* Wherever an operation is cut short, it leaves the artifacts before or after a step.
LEMMA CutIsBeforeOrAfter ==
  ASSUME NEW v \in Contents, NEW step \in Steps, NEW r \in Receipts \cup {None},
         NEW w \in Cut(v, step, r)
  PROVE  w \in Contents /\ (Same(v, w) \/ Same(After(v, step, r), w))
<1>1. PICK k \in Artifacts : step = Publish(k) \/ step = Remove(k)
  BY DEF Steps, Publish, Remove
<1>2. After(v, step, r) \in Contents
  BY <1>1, AfterPublish, AfterRemove
<1>3. step[2] \in Artifacts
  BY <1>1 DEF Publish, Remove
<1> DEFINE u == After(v, step, r)
<1> HIDE DEF u
<1>4. \/ w = v \/ w = u
      \/ w = [v EXCEPT !.temporaries = {"loose"}] \/ w = [u EXCEPT !.temporaries = {step[2]}]
  BY DEF Cut, u
<1>5. QED
  BY <1>2, <1>3, <1>4 DEF Same, Contents, u

\* A temporary more or less makes no difference to what the artifacts say.
LEMMA SameIsAsGood ==
  ASSUME NEW u, NEW v, NEW w \in Contents, Same(v, w)
  PROVE  /\ Sound(v) => Sound(w)
         /\ \A kind, r : Advances(u, v, kind, r) => Advances(u, w, kind, r)
         /\ ReceiptOf(w) = ReceiptOf(v) /\ (Kept(w) <=> Kept(v))
<1>1. ReceiptOf(w) = ReceiptOf(v) /\ (Active(w) <=> Active(v)) /\ (Kept(w) <=> Kept(v))
  BY DEF Same, ReceiptOf, Active, Kept
<1>2. Sound(v) => Sound(w)
  BY DEF Same, Sound
<1>3. Keeps(u, v) => Keeps(u, w)
  BY <1>1 DEF Keeps, Same
<1>4. QED
  BY <1>1, <1>2, <1>3 DEF Advances

\* An operation that is cut short has done nothing it would not have done.
LEMMA CutAdvances ==
  ASSUME NEW kind \in Kinds, NEW v, Sound(v), Plan(kind, v) # <<>>, NEW r \in Receipts \cup {None},
         Erases(kind) => Kept(v) /\ r \in GoodReceipts,
         NEW w \in Cut(v, Head(Plan(kind, v)), r)
  PROVE  Advances(v, w, kind, r)
<1>1. v \in Contents /\ Plan(kind, v) \in Seq(Steps) /\ Head(Plan(kind, v)) \in Steps
  BY PlanIsSeq DEF Sound
<1>2. w \in Contents /\ (Same(v, w) \/ Same(After(v, Head(Plan(kind, v)), r), w))
  BY <1>1, CutIsBeforeOrAfter
<1>3. Advances(v, After(v, Head(Plan(kind, v)), r), kind, r)
  BY PlannedStep
<1>4. Advances(v, v, kind, r)
  BY DEF Advances, Keeps
<1>5. QED
  BY <1>2, <1>3, <1>4, SameIsAsGood

-----------------------------------------------------------------------------
(* What a step that leaves the registry and the metadata alone preserves. *)

\* Artifacts w may take the place of those of capture c.
Moves(c, w) ==
  /\ meta[c] # None /\ Sound(w) /\ Keeps(vault[c], w)
  /\ \/ ReceiptOf(w) = ReceiptOf(vault[c])
     \/ Allows(meta[c], registry[meta[c].attempt], owner[meta[c].attempt], ReceiptOf(w))

\* Owners give up at most.
OwnersLetGo == \A a \in Attempts : owner'[a] = owner[a] \/ owner'[a] \in {"idle", "over"}

\* A capture stays sound when its artifacts move on and its owner gives up at most.
LEMMA CaptureMoves ==
  ASSUME NEW v, NEW w, NEW m, NEW e, NEW o, NEW p, CaptureSound(v, m, e, o),
         w = v \/ (Keeps(v, w) /\ (ReceiptOf(w) = ReceiptOf(v) \/ Allows(m, e, o, ReceiptOf(w)))),
         p = o \/ p \in {"idle", "over"}
  PROVE  CaptureSound(w, m, e, p)
<1>1. p # "collecting" /\ (Counts(e, p) => Counts(e, o)) /\ (p = "captured" => o = "captured")
  BY DEF CaptureSound, Counts
<1>2. Kept(v) => Kept(w)
  BY DEF Keeps
<1>3. ReceiptOf(w) # None => Allows(m, e, o, ReceiptOf(w))
  BY DEF CaptureSound
<1>4. ReceiptOf(w) # None => Allows(m, e, p, ReceiptOf(w))
  BY <1>1, <1>3 DEF Allows
<1>5. QED
  BY <1>1, <1>2, <1>4 DEF CaptureSound

\* So do all of them, and what is said of the attempts.
LEMMA CapturesStay ==
  ASSUME IInv, UNCHANGED <<meta, registry>>, OwnersLetGo,
         \A c \in Captures : vault'[c] = vault[c] \/ Moves(c, vault'[c])
  PROVE  CapturesInv' /\ AttemptsInv'
<1>1. \A c \in Captures : meta[c] # None => meta[c].attempt \in Attempts
  BY DEF IInv, TypeOK, Metadata
<1>2. ASSUME NEW c \in Captures
      PROVE  /\ Sound(vault'[c]) /\ (meta[c] = None => vault'[c] = Empty)
             /\ "deleted" \in vault[c].files =>
                  "deleted" \in vault'[c].files /\ vault'[c].tombstone = vault[c].tombstone
             /\ meta[c] # None => CaptureSound(vault'[c], meta[c], registry[meta[c].attempt],
                                               owner'[meta[c].attempt])
  <2>1. CASE vault'[c] = vault[c]
    <3>1. meta[c] # None => CaptureSound(vault[c], meta[c], registry[meta[c].attempt],
                                         owner'[meta[c].attempt])
      BY <1>1, CaptureMoves DEF IInv, CapturesInv, OwnersLetGo
    <3>2. QED
      BY <2>1, <3>1 DEF IInv, CapturesInv
  <2>2. CASE Moves(c, vault'[c])
    <3>1. CaptureSound(vault'[c], meta[c], registry[meta[c].attempt], owner'[meta[c].attempt])
      <4>1. /\ meta[c] # None /\ meta[c].attempt \in Attempts
            /\ CaptureSound(vault[c], meta[c], registry[meta[c].attempt], owner[meta[c].attempt])
        BY <1>1, <2>2 DEF IInv, CapturesInv, Moves
      <4>2. /\ owner'[meta[c].attempt] = owner[meta[c].attempt]
               \/ owner'[meta[c].attempt] \in {"idle", "over"}
        BY <4>1 DEF OwnersLetGo
      <4>3. QED
        BY <2>2, <4>1, <4>2, CaptureMoves DEF Moves
    <3>2. QED
      BY <2>2, <3>1 DEF Moves, Keeps
  <2>3. QED
    BY <2>1, <2>2
<1>3. CapturesInv'
  <2>1. \A c, d \in Captures : \A a \in Attempts : Of(c, a)' /\ Of(d, a)' => c = d
    BY DEF IInv, CapturesInv, Of
  <2>2. QED
    BY <1>2, <2>1 DEF CapturesInv
<1>4. AttemptsInv'
  <2> SUFFICES ASSUME NEW a \in Attempts
               PROVE  /\ OwnerSound(registry[a], owner'[a])
                      /\ State(a) = "committed" =>
                           registry[a].capture \in Captures /\ Of(registry[a].capture, a)
                      /\ owner'[a] \in {"captured", "uncommitted", "shredding"} =>
                           \E c \in Captures : Of(c, a)
                      /\ owner'[a] = "deleted" => "deleted" \in vault'[registry[a].capture].files
                      /\ State(a) = "removed" /\ registry[a].capture # None =>
                           LET v == vault'[registry[a].capture]
                           IN  "deleted" \in v.files /\ v.tombstone = registry[a].removal
    BY DEF AttemptsInv, State, Of
  <2>1. owner'[a] = owner[a] \/ owner'[a] \in {"idle", "over"}
    BY DEF OwnersLetGo
  <2>2. OwnerSound(registry[a], owner'[a])
    BY <2>1 DEF IInv, AttemptsInv, OwnerSound
  <2>3. owner'[a] = "deleted" =>
          registry[a].capture \in Captures /\ "deleted" \in vault[registry[a].capture].files
    BY <2>1 DEF IInv, AttemptsInv, OwnerSound, State
  <2>4. State(a) = "removed" /\ registry[a].capture # None => registry[a].capture \in Captures
    BY DEF IInv, TypeOK, State, Entry
  <2>5. State(a) = "removed" /\ registry[a].capture # None =>
          LET v == vault'[registry[a].capture]
          IN  "deleted" \in v.files /\ v.tombstone = registry[a].removal
    BY <1>2, <2>4 DEF IInv, AttemptsInv
  <2>6. QED
    BY <1>2, <2>1, <2>2, <2>3, <2>5 DEF IInv, AttemptsInv
<1>5. QED
  BY <1>3, <1>4

\* The registry's own checks ask nothing of the vault.
LEMMA RegistryStays ==
  ASSUME IInv, UNCHANGED store
  PROVE  /\ RegistryInv' /\ (\A a \in Attempts : State(a)' = State(a))
         /\ CommittedCaptures' = CommittedCaptures
<1>1. UNCHANGED <<registry, nextSequence>>
  BY DEF store
<1>2. QED
  BY <1>1 DEF IInv, RegistryInv, VerifyIntegrity, Rows, State, Committed, CommittedCaptures

-----------------------------------------------------------------------------
(* The steps of a vault operation. *)

\* A step of an operation that may erase, if it does, moves its capture on.
LEMMA AdvancesMoves ==
  ASSUME NEW c \in Captures, meta[c] # None, NEW w,
         Advances(vault[c], w, job.kind, job.receipt),
         Erases(job.kind) =>
           Allows(meta[c], registry[meta[c].attempt], owner[meta[c].attempt], job.receipt)
  PROVE  Moves(c, w)
BY DEF Advances, Moves

\* The rest of a plan is carried out on artifacts it fits, and moves them on.
LEMMA JobMoves ==
  ASSUME IInv, job.todo # <<>>
  PROVE  LET c == job.capture
             u == After(vault[c], Head(job.todo), job.receipt)
         IN  /\ c \in Captures /\ meta[c] # None /\ c \notin job.left /\ job.kind \in Kinds
             /\ Sound(vault[c]) /\ job.todo = Plan(job.kind, vault[c])
             /\ Moves(c, u) /\ Plan(job.kind, u) = Tail(job.todo)
             /\ u.temporaries = vault[c].temporaries
             /\ job.kind = "capture" => ReceiptOf(u) = None
             /\ \A w \in Cut(vault[c], Head(job.todo), job.receipt) : Moves(c, w)
<1> DEFINE c == job.capture
<1>1. /\ c \in Captures /\ meta[c] # None /\ c \notin job.left
      /\ job.todo = Plan(job.kind, vault[c])
      /\ Erases(job.kind) =>
           /\ Kept(vault[c]) /\ job.receipt \in GoodReceipts
           /\ Allows(meta[c], registry[meta[c].attempt], owner[meta[c].attempt], job.receipt)
  BY DEF IInv, JobSound
<1>2. job.kind \in Kinds /\ job.receipt \in Receipts \cup {None}
  BY DEF IInv, TypeOK, Job, JobSound, NoJob, Kinds
<1>3. Sound(vault[c]) /\ vault[c] \in Contents
  BY <1>1 DEF IInv, CapturesInv, Sound
<1> DEFINE u == After(vault[c], Head(job.todo), job.receipt)
<1>4. /\ Advances(vault[c], u, job.kind, job.receipt) /\ Plan(job.kind, u) = Tail(job.todo)
      /\ job.kind = "capture" => ReceiptOf(u) = None
  <2> DEFINE p == Plan(job.kind, vault[c])
  <2>1. /\ job.kind \in Kinds /\ Sound(vault[c]) /\ p # <<>> /\ job.receipt \in Receipts \cup {None}
        /\ Erases(job.kind) => Kept(vault[c]) /\ job.receipt \in GoodReceipts
    BY <1>1, <1>2, <1>3
  <2>2. /\ Advances(vault[c], After(vault[c], Head(p), job.receipt), job.kind, job.receipt)
        /\ Plan(job.kind, After(vault[c], Head(p), job.receipt)) = Tail(p)
        /\ job.kind = "capture" => ReceiptOf(After(vault[c], Head(p), job.receipt)) = None
    BY <2>1, PlannedStep
  <2>3. QED
    BY <1>1, <2>2
<1>5. ASSUME NEW w \in Cut(vault[c], Head(job.todo), job.receipt)
      PROVE  Advances(vault[c], w, job.kind, job.receipt)
  BY <1>1, <1>2, <1>3, <1>5, CutAdvances
<1>6. u.temporaries = vault[c].temporaries
  BY <1>3 DEF After, Contents
<1>7. Moves(c, u) /\ \A w \in Cut(vault[c], Head(job.todo), job.receipt) : Moves(c, w)
  BY <1>1, <1>4, <1>5, AdvancesMoves
<1>8. QED
  BY <1>1, <1>2, <1>3, <1>4, <1>6, <1>7

\* A plan that is carried out.
LEMMA DonePlans ==
  ASSUME NEW v, Sound(v)
  PROVE  /\ RecoverPlan(v) = <<>> => Rests(v)
         /\ DeletePlan(v) = <<>> /\ Kept(v) => v.files = {"deleted"}
         /\ CreatePlan(v.files) = <<>> /\ v.files \cap {"deleting", "deleted"} = {} =>
              v.files = {"body", "dek"}
<1>1. v \in Contents
  BY DEF Sound
<1>2. DeletePlan(v) = <<>> /\ Kept(v) => v.files = {"deleted"}
  <2> SUFFICES ASSUME DeletePlan(v) = <<>>, Kept(v)
               PROVE  v.files = {"deleted"}
    OBVIOUS
  <2>1. CASE v.files = {"body", "dek"}
    <3> DEFINE u == [v EXCEPT !.files = @ \cup {"deleting"}]
    <3>1. u \in Contents /\ DeletePlan(v) = <<Publish("deleting")>> \o CompletionPlan(u)
      BY <1>1, <2>1 DEF Contents, Artifacts, DeletePlan
    <3>2. Publish("deleting") \in Steps /\ CompletionPlan(u) \in Seq(Steps)
      BY <3>1, PlanProperties DEF Steps, Publish, Artifacts
    <3>3. QED
      BY <3>1, <3>2, ConsProperties
  <2>2. CASE v.files = {"body", "dek", "deleting"}
    BY <1>1, <2>2, DeletionPlans DEF DeletePlan
  <2>3. CASE v.files = {"body", "deleting"}
    <3>1. DeletePlan(v) = <<Publish("deleted")>> \o Ending(v)
      BY <1>1, <2>3, DeletionPlans DEF DeletePlan
    <3>2. QED
      BY <1>1, <3>1, PlanProperties
  <2>4. CASE v.files = {"body", "deleting", "deleted"}
    BY <1>1, <2>4, DeletionPlans DEF DeletePlan
  <2>5. CASE v.files = {"deleting", "deleted"}
    BY <1>1, <2>5, DeletionPlans DEF DeletePlan
  <2>6. QED
    BY <2>1, <2>2, <2>3, <2>4, <2>5, KeptShapes
<1>3. RecoverPlan(v) = <<>> => Rests(v)
  <2> SUFFICES ASSUME RecoverPlan(v) = <<>>
               PROVE  Rests(v)
    OBVIOUS
  <2>1. CASE "creating" \in v.files
    <3> DEFINE last == <<Remove("creating")>>  half == RemoveThen(v, "body", last)
    <3>1. last \in Seq(Steps) /\ last # <<>> /\ "body" \in Artifacts /\ "dek" \in Artifacts
      BY DEF Steps, Remove, Artifacts
    <3> HIDE DEF last
    <3>2. half \in Seq(Steps) /\ half # <<>>
      BY <3>1, RemoveThenProperties
    <3> HIDE DEF half
    <3>3. RemoveThen(v, "dek", half) # <<>>
      BY <3>1, <3>2, RemoveThenProperties
    <3>4. RecoverPlan(v) = RemoveThen(v, "dek", half)
      BY <2>1 DEF RecoverPlan, DiscardPlan, half, last
    <3>5. QED
      BY <3>3, <3>4
  <2>2. CASE v.files \cap {"deleting", "deleted"} # {}
    <3>1. Kept(v)
      BY <2>2 DEF Kept
    <3>2. "creating" \notin v.files
      BY <3>1, KeptShapes
    <3>3. DeletePlan(v) = RecoverPlan(v)
      BY <2>2, <3>2 DEF RecoverPlan, DeletePlan
    <3>4. QED
      BY <1>2, <3>1, <3>3 DEF Rests
  <2>3. CASE "creating" \notin v.files /\ v.files \cap {"deleting", "deleted"} = {}
    BY <2>3 DEF Sound, Shapes, Rests
  <2>4. QED
    BY <2>1, <2>2, <2>3
<1>4. CreatePlan(v.files) = <<>> /\ v.files \cap {"deleting", "deleted"} = {} =>
        v.files = {"body", "dek"}
  BY CreatePlans, CapturePlanProperties DEF Sound, Shapes
<1>5. QED
  BY <1>2, <1>3, <1>4

\* The types, of a state whose artifacts are sound.
LEMMA TypesStay ==
  ASSUME IInv, CapturesInv', vault' \in [Captures -> Contents], job' \in Job, meta' = meta,
         registry' = registry, nextSequence' = nextSequence,
         owner' \in [Attempts -> {"idle", "collecting", "capturing", "captured", "uncommitted",
                                  "shredding", "held", "deleting", "deleted", "over"}],
         phase' \in {"closed", "boot", "vault", "pending", "repair", "reconcile", "ready"},
         recoveredAt' \in Nat
  PROVE  TypeOK' /\ (phase # "corrupt")'
<1>1. \A c \in Captures : /\ "deleting" \in vault'[c].files <=> vault'[c].intent # None
                          /\ "deleted" \in vault'[c].files <=> vault'[c].tombstone # None
  BY DEF CapturesInv, Sound
<1>2. QED
  BY <1>1 DEF IInv, TypeOK

\* An idle queue is a queue.
LEMMA NoJobIsJob == NoJob \in Job
<1>1. <<>> \in Seq({"publish", "remove"} \X Artifacts)
  BY EmptySeq
<1>2. QED
  BY <1>1 DEF NoJob, Job

\* An idle queue owes nothing.
LEMMA NoJobSound ==
  ASSUME TRUE
  PROVE  JobSound(NoJob)
BY DEF JobSound, NoJob, Erases

\* An operation takes one step.
LEMMA JobStepKeeps ==
  ASSUME IInv, JobStep
  PROVE  IInv'
<1> DEFINE c == job.capture
           w == After(vault[c], Head(job.todo), job.receipt)
<1>1. /\ job.todo # <<>> /\ vault' = [vault EXCEPT ![c] = w] /\ job' = [job EXCEPT !.todo = Tail(@)]
      /\ meta' = meta /\ UNCHANGED store /\ registry' = registry /\ nextSequence' = nextSequence
      /\ owner' = owner /\ phase' = phase /\ recoveredAt' = recoveredAt
  BY DEF JobStep, store
<1>2. /\ c \in Captures /\ meta[c] # None /\ c \notin job.left /\ job.kind \in Kinds /\ Sound(vault[c])
      /\ job.todo = Plan(job.kind, vault[c])
      /\ Moves(c, w) /\ Plan(job.kind, w) = Tail(job.todo) /\ w.temporaries = vault[c].temporaries
      /\ job.kind = "capture" => ReceiptOf(w) = None
  BY <1>1, JobMoves
<1> HIDE DEF w
<1>3. Sound(w) /\ Keeps(vault[c], w) /\ w \in Contents
  BY <1>2 DEF Moves, Sound
<1>4. /\ vault' \in [Captures -> Contents] /\ vault'[c] = w
      /\ \A d \in Captures : d # c => vault'[d] = vault[d]
  BY <1>1, <1>2, <1>3 DEF IInv, TypeOK
<1>5. CapturesInv' /\ AttemptsInv'
  <2>1. OwnersLetGo
    BY <1>1 DEF OwnersLetGo
  <2>2. \A d \in Captures : vault'[d] = vault[d] \/ Moves(d, vault'[d])
    BY <1>2, <1>4
  <2>3. QED
    BY <1>1, <2>1, <2>2, CapturesStay
<1>6. /\ RegistryInv' /\ (\A a \in Attempts : State(a)' = State(a))
      /\ CommittedCaptures' = CommittedCaptures
  BY <1>1, RegistryStays
<1>7. /\ job \in Job /\ job' \in Job /\ job'.kind = job.kind /\ job'.attempt = job.attempt
      /\ job'.capture = c /\ job'.left = job.left /\ job'.receipt = job.receipt
      /\ job'.todo = Tail(job.todo)
  <2>1. job \in Job
    BY DEF IInv, TypeOK
  <2>2. Tail(job.todo) \in Seq({"publish", "remove"} \X Artifacts)
    BY <1>1, <2>1, HeadTailProperties DEF Job
  <2>3. QED
    BY <1>1, <2>1, <2>2 DEF Job
<1>8. TypeOK' /\ (phase # "corrupt")'
  BY <1>1, <1>4, <1>5, <1>7, TypesStay DEF IInv, TypeOK
<1>9. JobSound(job)'
  <2>1. job.kind # "none" /\ (Erases(job.kind) => Kept(w))
    BY <1>1, <1>2, <1>3 DEF Kinds, IInv, JobSound, Keeps
  <2>2. Plan(job'.kind, vault'[c]) = job'.todo
    BY <1>2, <1>4, <1>7
  <2>3. job.kind = "capture" =>
          /\ vault'[c].files \in Shapes
          /\ ~\E k \in {"deleting", "deleted"} : k \in vault'[c].files
    BY <1>2, <1>3, <1>4 DEF Sound, ReceiptOf
  <2>4. Erases(job.kind) =>
          Allows(meta[c], registry[meta[c].attempt], owner[meta[c].attempt], job.receipt)
    BY <1>1 DEF IInv, JobSound
  <2>5. job.kind = "reconcile" => \A d \in job.left : Readable(vault'[d])
    BY <1>2, <1>4, <1>7 DEF IInv, JobSound, Job
  <2>6. job.kind = "reconcile" => c \notin CommittedCaptures /\ CommittedCaptures \cap job.left = {}
    BY <1>1 DEF IInv, JobSound
  <2>7. /\ job.kind \in {"capture", "discard", "delete"} <=> job.attempt # None
        /\ job.attempt # None => job.attempt \in Attempts /\ Of(c, job.attempt)
        /\ Erases(job.kind) => job.receipt \in GoodReceipts
    BY DEF IInv, JobSound
  <2>8. \A a : Of(c, a)' <=> Of(c, a)
    BY <1>1, <1>7 DEF Of
  <2>9. QED
    BY <1>1, <1>2, <1>4, <1>6, <1>7, <2>1, <2>2, <2>3, <2>4, <2>5, <2>6, <2>7, <2>8 DEF JobSound
<1>10. PhaseInv'
  <2>1. ASSUME phase \in {"vault", "pending", "repair", "reconcile"}, Tail(job.todo) = <<>>
        PROVE  Rests(w)
    <3>1. job.kind \in {"recover", "reconcile"}
      BY <1>2, <2>1 DEF IInv, PhaseInv, Kinds
    <3>2. CASE job.kind = "recover"
      BY <1>2, <1>3, <2>1, <3>2, DonePlans DEF Plan
    <3>3. CASE job.kind = "reconcile"
      <4>1. Kept(w) /\ DeletePlan(w) = <<>>
        BY <1>1, <1>2, <1>3, <2>1, <3>3 DEF IInv, JobSound, Keeps, Erases, Plan
      <4>2. QED
        BY <1>3, <4>1, DonePlans DEF Rests
    <3>4. QED
      BY <3>1, <3>2, <3>3
  <2>2. phase = "vault" =>
          \A d \in Captures \ job'.left : Rests(vault'[d]) \/ (d = job'.capture /\ job'.todo # <<>>)
    BY <1>2, <1>4, <1>7, <2>1 DEF IInv, PhaseInv
  <2>3. phase \in {"pending", "repair", "reconcile"} =>
          \A d \in Captures : /\ vault'[d].temporaries = {}
                              /\ Rests(vault'[d]) \/ (d = job'.capture /\ job'.todo # <<>>)
    BY <1>2, <1>4, <1>7, <2>1 DEF IInv, PhaseInv
  <2>4. phase = "reconcile" => \A d \in CommittedCaptures : Readable(vault'[d])
    <3> SUFFICES ASSUME phase = "reconcile", NEW d \in CommittedCaptures
                 PROVE  Readable(vault'[d])
      OBVIOUS
    <3>1. job.kind = "reconcile"
      BY <1>2 DEF IInv, PhaseInv, Kinds
    <3>2. d # c /\ Readable(vault[d])
      BY <1>1, <3>1 DEF IInv, JobSound, PhaseInv
    <3>3. d \in Captures
      BY DEF CommittedCaptures, Committed, IInv, AttemptsInv
    <3>4. QED
      BY <1>4, <3>2, <3>3
  <2>5. \A a \in Attempts : Waits(job', a, owner'[a])
    BY <1>1, <1>7 DEF IInv, PhaseInv, Waits
  <2>6. QED
    BY <1>1, <1>6, <1>7, <2>2, <2>3, <2>4, <2>5 DEF IInv, PhaseInv
<1>11. QED
  BY <1>5, <1>6, <1>8, <1>9, <1>10 DEF IInv

\* An operation ends before its time; what it leaves is v.
LEMMA JobAbortsKeeps ==
  ASSUME IInv, job.todo # <<>>, NEW w, Moves(job.capture, w), JobAborts(w)
  PROVE  IInv'
<1> DEFINE c == job.capture
<1>1. /\ vault' = [vault EXCEPT ![c] = w] /\ UNCHANGED store /\ meta' = meta
      /\ registry' = registry /\ nextSequence' = nextSequence /\ recoveredAt' = recoveredAt
  BY DEF JobAborts, store
<1>2. c \in Captures /\ meta[c] # None /\ job.kind \in Kinds /\ job \in Job
  BY JobMoves DEF IInv, TypeOK
<1>3. Sound(w) /\ w \in Contents
  BY DEF Moves, Sound
<1>4. /\ vault' \in [Captures -> Contents] /\ vault'[c] = w
      /\ \A d \in Captures : d # c => vault'[d] = vault[d]
  BY <1>1, <1>2, <1>3 DEF IInv, TypeOK
<1>5. /\ RegistryInv' /\ (\A a \in Attempts : State(a)' = State(a))
      /\ CommittedCaptures' = CommittedCaptures
  BY <1>1, RegistryStays
<1>6. \A d \in Captures : vault'[d] = vault[d] \/ Moves(d, vault'[d])
  BY <1>2, <1>4
<1>7. CASE job.kind = "capture" /\ job.todo # CapturePlan
  <2>1. /\ job' = [job EXCEPT !.kind = "discard", !.todo = DiscardPlan(w)]
        /\ owner' = owner /\ phase' = phase
    BY <1>7 DEF JobAborts
  <2>2. CapturesInv' /\ AttemptsInv'
    BY <1>1, <1>6, <2>1, CapturesStay DEF OwnersLetGo
  <2>3. /\ job' \in Job /\ job'.kind = "discard" /\ job'.attempt = job.attempt /\ job'.capture = c
        /\ job'.left = job.left /\ job'.receipt = job.receipt /\ job'.todo = DiscardPlan(w)
    <3>1. DiscardPlan(w) \in Seq({"publish", "remove"} \X Artifacts)
      BY <1>3, PlanProperties DEF Steps
    <3>2. QED
      BY <1>2, <2>1, <3>1 DEF Job
  <2>4. TypeOK' /\ (phase # "corrupt")'
    BY <1>1, <1>4, <2>1, <2>2, <2>3, TypesStay DEF IInv, TypeOK
  <2>5. JobSound(job)'
    <3>1. /\ job.attempt # None /\ job.attempt \in Attempts /\ Of(c, job.attempt) /\ c \notin job.left
      BY <1>7 DEF IInv, JobSound
    <3>2. Plan(job'.kind, vault'[c]) = job'.todo
      BY <1>4, <2>3 DEF Plan
    <3>3. Of(c, job.attempt)'
      BY <1>1, <2>3, <3>1 DEF Of
    <3>4. ~Erases(job'.kind)
      BY <2>3 DEF Erases
    <3>5. QED
      BY <1>1, <1>2, <2>3, <3>1, <3>2, <3>3, <3>4 DEF JobSound
  <2>6. PhaseInv'
    <3>1. phase = "ready" /\ job.kind = "capture"
      BY <1>7 DEF IInv, PhaseInv
    <3>2. \A a \in Attempts : Waits(job', a, owner'[a])
      BY <1>7, <2>1, <2>3 DEF IInv, PhaseInv, Waits
    <3>3. QED
      BY <2>1, <2>3, <3>1, <3>2 DEF PhaseInv
  <2>7. QED
    BY <1>5, <2>2, <2>4, <2>5, <2>6 DEF IInv
<1>8. CASE ~(job.kind = "capture" /\ job.todo # CapturePlan)
  <2>1. /\ job' = NoJob /\ owner' = [a \in Attempts |-> IF a = job.attempt THEN "over" ELSE owner[a]]
        /\ phase' = IF job.kind \in {"recover", "reconcile"} THEN "boot" ELSE phase
    BY <1>8 DEF JobAborts
  <2>2. CapturesInv' /\ AttemptsInv'
    <3>1. OwnersLetGo
      BY <2>1 DEF OwnersLetGo
    <3>2. QED
      BY <1>1, <1>6, <3>1, CapturesStay
  <2>3. TypeOK' /\ (phase # "corrupt")'
    <3>1. owner' \in [Attempts -> {"idle", "collecting", "capturing", "captured", "uncommitted",
                                   "shredding", "held", "deleting", "deleted", "over"}]
      BY <2>1 DEF IInv, TypeOK
    <3>2. job' \in Job
      BY <2>1, NoJobIsJob
    <3>3. phase' \in {"closed", "boot", "vault", "pending", "repair", "reconcile", "ready"}
      BY <2>1 DEF IInv, TypeOK
    <3>4. QED
      BY <1>1, <1>4, <2>2, <3>1, <3>2, <3>3, TypesStay DEF IInv, TypeOK
  <2>4. JobSound(job)'
    BY <2>1 DEF JobSound, NoJob, Erases
  <2>5. PhaseInv'
    <3>1. job'.kind = "none" /\ job'.attempt = None
      BY <2>1 DEF NoJob
    <3>2. ASSUME NEW a \in Attempts
          PROVE  Waits(job', a, owner'[a])
      BY <2>1, <3>1 DEF IInv, PhaseInv, Waits, JobSound, Kinds
    <3>3. phase' \in {"boot", "ready"}
      BY <1>2, <2>1 DEF IInv, PhaseInv, Kinds
    <3>4. phase' # "ready" => \A a \in Attempts : owner'[a] \in {"idle", "over"}
      <4>1. phase' # "ready" => phase # "ready"
        BY <2>1 DEF IInv, PhaseInv
      <4>2. QED
        BY <2>1, <4>1 DEF IInv, PhaseInv
    <3>5. QED
      BY <3>1, <3>2, <3>3, <3>4 DEF PhaseInv
  <2>6. QED
    BY <1>5, <2>2, <2>3, <2>4, <2>5 DEF IInv
<1>9. QED
  BY <1>7, <1>8

\* An I/O error or a refusal ends an operation.
LEMMA JobFailsKeeps ==
  ASSUME IInv, JobStepFails \/ JobRefused
  PROVE  IInv'
<1>1. CASE JobStepFails
  <2>1. PICK w \in Cut(vault[job.capture], Head(job.todo), job.receipt) : JobAborts(w)
    BY <1>1 DEF JobStepFails
  <2>2. job.todo # <<>> /\ Moves(job.capture, w)
    BY <1>1, <2>1, JobMoves DEF JobStepFails
  <2>3. QED
    BY <2>1, <2>2, JobAbortsKeeps
<1>2. CASE JobRefused
  <2>1. job.todo # <<>> /\ JobAborts(vault[job.capture])
    BY <1>2 DEF JobRefused
  <2>2. Moves(job.capture, vault[job.capture])
    BY <2>1, JobMoves DEF Moves, Keeps
  <2>3. QED
    BY <2>1, <2>2, JobAbortsKeeps
<1>3. QED
  BY <1>1, <1>2

\* The process ends, in the middle of a step or not.
LEMMA CrashKeeps ==
  ASSUME IInv, Crash
  PROVE  IInv'
<1>1. /\ phase' = "closed" /\ job' = NoJob /\ owner' = [a \in Attempts |-> "idle"] /\ recoveredAt' = 0
      /\ UNCHANGED store /\ meta' = meta /\ registry' = registry /\ nextSequence' = nextSequence
  BY DEF Crash, store
<1>2. /\ vault' \in [Captures -> Contents]
      /\ \A d \in Captures : vault'[d] = vault[d] \/ Moves(d, vault'[d])
  <2>1. CASE job.todo = <<>>
    BY <2>1 DEF Crash, IInv, TypeOK
  <2>2. CASE job.todo # <<>>
    <3>1. PICK w \in Cut(vault[job.capture], Head(job.todo), job.receipt) :
            vault' = [vault EXCEPT ![job.capture] = w]
      BY <2>2 DEF Crash
    <3>2. job.capture \in Captures /\ Moves(job.capture, w)
      BY <2>2, JobMoves
    <3>3. w \in Contents
      BY <3>2 DEF Moves, Sound
    <3>4. QED
      BY <3>1, <3>2, <3>3 DEF IInv, TypeOK
  <2>3. QED
    BY <2>1, <2>2
<1>3. /\ RegistryInv' /\ (\A a \in Attempts : State(a)' = State(a))
      /\ CommittedCaptures' = CommittedCaptures
  BY <1>1, RegistryStays
<1>4. CapturesInv' /\ AttemptsInv'
  BY <1>1, <1>2, CapturesStay DEF OwnersLetGo
<1>5. TypeOK' /\ (phase # "corrupt")'
  BY <1>1, <1>2, <1>4, TypesStay, NoJobIsJob
<1>6. JobSound(job)'
  BY <1>1 DEF JobSound, NoJob, Erases
<1>7. PhaseInv'
  BY <1>1, NoneAssumption DEF PhaseInv, NoJob, Waits
<1>8. QED
  BY <1>3, <1>4, <1>5, <1>6, <1>7 DEF IInv

\* What a job is about stays as it is.
LEMMA JobStays ==
  ASSUME IInv, UNCHANGED <<job, meta>>,
         \A c \in Captures : Same(vault[c], vault'[c]) /\ vault'[c] \in Contents,
         \A c \in Captures : \A r \in GoodReceipts :
           meta[c] # None /\ Allows(meta[c], registry[meta[c].attempt], owner[meta[c].attempt], r) =>
             Allows(meta[c], registry'[meta[c].attempt], owner'[meta[c].attempt], r),
         job.kind = "reconcile" => CommittedCaptures' \subseteq CommittedCaptures
  PROVE  JobSound(job)'
<1>1. ASSUME NEW c \in Captures, NEW kind
      PROVE  /\ Plan(kind, vault'[c]) = Plan(kind, vault[c]) /\ vault'[c].files = vault[c].files
             /\ (Kept(vault'[c]) <=> Kept(vault[c])) /\ (Readable(vault'[c]) <=> Readable(vault[c]))
  <2>1. vault[c] \in Contents /\ vault'[c] \in Contents /\ vault'[c].files = vault[c].files
    BY DEF IInv, TypeOK, Same
  <2>2. QED
    BY <2>1, PlansFollowFiles DEF Plan, Kept, Readable
<1>2. job.left \subseteq Captures
  BY DEF IInv, TypeOK, Job
<1>3. \A c, a : Of(c, a)' <=> Of(c, a)
  BY DEF Of
<1>4. job.attempt # None \/ job.todo # <<>> =>
        /\ job.capture \in Captures /\ meta[job.capture] # None
        /\ job.todo = Plan(job.kind, vault'[job.capture])
        /\ job.kind = "capture" =>
             /\ vault'[job.capture].files \in Shapes
             /\ ~\E k \in {"deleting", "deleted"} : k \in vault'[job.capture].files
        /\ Erases(job.kind) =>
             /\ Kept(vault'[job.capture])
             /\ Allows(meta[job.capture], registry'[meta[job.capture].attempt],
                       owner'[meta[job.capture].attempt], job.receipt)
  BY <1>1 DEF IInv, JobSound
<1>5. job.kind = "reconcile" =>
       /\ \A c \in job.left : Readable(vault'[c])
       /\ CommittedCaptures' \cap job.left = {}
       /\ job.todo # <<>> => job.capture \notin CommittedCaptures'
  BY <1>1, <1>2 DEF IInv, JobSound
<1>6. QED
  BY <1>3, <1>4, <1>5 DEF IInv, JobSound

\* The recovery removes a temporary.
LEMMA RemoveTemporaryKeeps ==
  ASSUME IInv, NEW c \in Captures, NEW k, RemoveTemporary(c, k)
  PROVE  IInv'
<1> DEFINE w == [vault[c] EXCEPT !.temporaries = @ \ {k}]
<1>1. /\ job.kind = "recover" /\ job.todo = <<>> /\ k \in vault[c].temporaries
      /\ vault' = [vault EXCEPT ![c] = w] /\ UNCHANGED store /\ meta' = meta /\ registry' = registry
      /\ nextSequence' = nextSequence /\ job' = job /\ owner' = owner /\ phase' = phase
      /\ recoveredAt' = recoveredAt
  BY DEF RemoveTemporary, store
<1>2. vault[c] \in Contents /\ w \in Contents /\ Same(vault[c], w)
  BY DEF IInv, TypeOK, Contents, Same
<1>3. Sound(vault[c]) /\ Sound(w) /\ ReceiptOf(w) = ReceiptOf(vault[c]) /\ Keeps(vault[c], w)
  BY <1>2, SameIsAsGood DEF IInv, CapturesInv, Keeps, Same, Active
<1>4. meta[c] # None
  BY <1>1 DEF IInv, CapturesInv, Empty
<1> HIDE DEF w
<1>5. /\ vault' \in [Captures -> Contents] /\ vault'[c] = w
      /\ \A d \in Captures : d # c => vault'[d] = vault[d]
  BY <1>1, <1>2 DEF IInv, TypeOK
<1>6. CapturesInv' /\ AttemptsInv'
  <2>1. \A d \in Captures : vault'[d] = vault[d] \/ Moves(d, vault'[d])
    BY <1>3, <1>4, <1>5 DEF Moves
  <2>2. QED
    BY <1>1, <2>1, CapturesStay DEF OwnersLetGo
<1>7. /\ RegistryInv' /\ (\A a \in Attempts : State(a)' = State(a))
      /\ CommittedCaptures' = CommittedCaptures
  BY <1>1, RegistryStays
<1>8. TypeOK' /\ (phase # "corrupt")'
  BY <1>1, <1>5, <1>6, TypesStay DEF IInv, TypeOK
<1>9. JobSound(job)'
  <2>1. \A d \in Captures : Same(vault[d], vault'[d]) /\ vault'[d] \in Contents
    BY <1>2, <1>5 DEF Same
  <2>2. QED
    BY <1>1, <1>7, <2>1, JobStays
<1>10. PhaseInv'
  <2>1. phase = "vault"
    BY <1>1 DEF IInv, PhaseInv
  <2>2. \A d \in Captures : Rests(vault'[d]) <=> Rests(vault[d])
    BY <1>2, <1>5 DEF Rests, Same
  <2>3. QED
    BY <1>1, <2>1, <2>2 DEF IInv, PhaseInv
<1>11. QED
  BY <1>6, <1>7, <1>8, <1>9, <1>10 DEF IInv

-----------------------------------------------------------------------------
(* Steps of the owners. *)

OwnerStates == {"idle", "collecting", "capturing", "captured", "uncommitted",
                "shredding", "held", "deleting", "deleted", "over"}

\* One owner goes on to p.
LEMMA OwnerMoves ==
  ASSUME IInv, UNCHANGED <<vault, meta, registry>>, NEW a \in Attempts, NEW p,
         owner' = [owner EXCEPT ![a] = p], OwnerSound(registry[a], p),
         \A c \in Captures : Of(c, a) => CaptureSound(vault[c], meta[c], registry[a], p),
         p \in {"captured", "uncommitted", "shredding"} => \E c \in Captures : Of(c, a),
         p = "deleted" => "deleted" \in vault[registry[a].capture].files
  PROVE  CapturesInv' /\ AttemptsInv'
<1>1. owner'[a] = p /\ \A b \in Attempts : b # a => owner'[b] = owner[b]
  BY DEF IInv, TypeOK
<1>2. \A c, b : Of(c, b)' <=> Of(c, b)
  BY DEF Of
<1>3. CapturesInv'
  <2>1. ASSUME NEW c \in Captures, meta[c] # None
        PROVE  CaptureSound(vault[c], meta[c], registry[meta[c].attempt], owner'[meta[c].attempt])
    <3>1. meta[c].attempt \in Attempts
      BY <2>1 DEF IInv, TypeOK, Metadata
    <3>2. CASE meta[c].attempt = a
      BY <1>1, <2>1, <3>2 DEF Of
    <3>3. CASE meta[c].attempt # a
      BY <1>1, <2>1, <3>1, <3>3 DEF IInv, CapturesInv
    <3>4. QED
      BY <3>2, <3>3
  <2>2. QED
    BY <1>2, <2>1 DEF IInv, CapturesInv
<1>4. AttemptsInv'
  <2>1. ASSUME NEW b \in Attempts
        PROVE  /\ OwnerSound(registry[b], owner'[b])
               /\ owner'[b] \in {"captured", "uncommitted", "shredding"} => \E c \in Captures : Of(c, b)
               /\ owner'[b] = "deleted" => "deleted" \in vault[registry[b].capture].files
    BY <1>1 DEF IInv, AttemptsInv
  <2>2. QED
    BY <1>2, <2>1 DEF IInv, AttemptsInv, State
<1>5. QED
  BY <1>3, <1>4

\* A host that is ready.
LEMMA ReadyPhase ==
  ASSUME phase' = "ready", job'.kind \in {"none", "capture", "discard", "delete", "sweep"},
         \A a \in Attempts : Waits(job', a, owner'[a])
  PROVE  PhaseInv'
BY DEF PhaseInv

\* Attempts are worked on only in a host that is ready.
LEMMA WorkingMeansReady ==
  ASSUME IInv
  PROVE  /\ (\E a \in Attempts : owner[a] \notin {"idle", "over"}) => phase = "ready"
         /\ phase = "ready" => job.kind \in {"none", "capture", "discard", "delete", "sweep"}
BY DEF IInv, PhaseInv, TypeOK, Job

\* A step of owners that use nothing of the vault.
LEMMA OwnersKeep ==
  ASSUME IInv, UNCHANGED <<durable, job, phase, recoveredAt>>, phase = "ready",
         owner' \in [Attempts -> OwnerStates], CapturesInv', AttemptsInv',
         \A a \in Attempts : Waits(job, a, owner'[a]),
         \A c \in Captures : \A r :
           meta[c] # None /\ Allows(meta[c], registry[meta[c].attempt], owner[meta[c].attempt], r) =>
             Allows(meta[c], registry[meta[c].attempt], owner'[meta[c].attempt], r)
  PROVE  IInv'
<1>1. /\ vault' = vault /\ meta' = meta /\ UNCHANGED store /\ registry' = registry
      /\ nextSequence' = nextSequence /\ job' = job /\ phase' = phase /\ recoveredAt' = recoveredAt
  BY DEF durable, store
<1>2. RegistryInv' /\ CommittedCaptures' = CommittedCaptures
  BY <1>1, RegistryStays
<1>3. TypeOK' /\ (phase # "corrupt")'
  BY <1>1, TypesStay DEF IInv, TypeOK, OwnerStates
<1>4. JobSound(job)'
  <2>1. \A c \in Captures : Same(vault[c], vault'[c]) /\ vault'[c] \in Contents
    BY <1>1 DEF Same, IInv, TypeOK
  <2>2. QED
    BY <1>1, <1>2, <2>1, JobStays
<1>5. PhaseInv'
  BY <1>1, ReadyPhase, WorkingMeansReady
<1>6. QED
  BY <1>2, <1>3, <1>4, <1>5 DEF IInv

\* A collection fails.
LEMMA CollectionFailsKeeps ==
  ASSUME IInv, NEW a \in Attempts, CollectionFails(a)
  PROVE  IInv'
<1>1. /\ owner[a] = "collecting" /\ owner' = [owner EXCEPT ![a] = "over"]
      /\ UNCHANGED <<durable, job, phase, recoveredAt>>
  BY DEF CollectionFails
<1>2. UNCHANGED <<vault, meta, registry>> /\ phase = "ready" /\ owner \in [Attempts -> OwnerStates]
  BY <1>1, WorkingMeansReady DEF durable, store, IInv, TypeOK, OwnerStates
<1>3. CapturesInv' /\ AttemptsInv'
  <2>1. OwnersLetGo
    BY <1>1, <1>2 DEF OwnersLetGo
  <2>2. QED
    BY <1>2, <2>1, CapturesStay
<1>4. \A b \in Attempts : Waits(job, b, owner'[b])
  BY <1>1, <1>2 DEF IInv, PhaseInv, Waits
<1>5. \A c \in Captures : \A r :
        meta[c] # None /\ Allows(meta[c], registry[meta[c].attempt], owner[meta[c].attempt], r) =>
          Allows(meta[c], registry[meta[c].attempt], owner'[meta[c].attempt], r)
  BY <1>1, <1>2 DEF Allows, IInv, TypeOK, Metadata
<1>6. owner' \in [Attempts -> OwnerStates]
  BY <1>1, <1>2 DEF OwnerStates
<1>7. QED
  BY <1>1, <1>2, <1>3, <1>4, <1>5, <1>6, OwnersKeep

\* An owner returns to its committed capture.
LEMMA ResumeKeeps ==
  ASSUME IInv, NEW a \in Attempts, Resume(a)
  PROVE  IInv'
<1>1. /\ owner[a] \in {"idle", "over"} /\ owner' = [owner EXCEPT ![a] = "held"] /\ phase = "ready"
      /\ State(a) = "committed" /\ UNCHANGED <<durable, job, phase, recoveredAt>>
  BY DEF Resume, Ready
<1>2. UNCHANGED <<vault, meta, registry>> /\ owner \in [Attempts -> OwnerStates]
  BY <1>1 DEF durable, store, IInv, TypeOK, OwnerStates
<1>3. CapturesInv' /\ AttemptsInv'
  <2>1. OwnerSound(registry[a], "held")
    BY <1>1 DEF OwnerSound, State
  <2>2. \A c \in Captures : Of(c, a) => CaptureSound(vault[c], meta[c], registry[a], "held")
    BY <1>1 DEF IInv, CapturesInv, Of, CaptureSound, Counts, Allows, State
  <2>3. QED
    BY <1>1, <1>2, <2>1, <2>2, OwnerMoves
<1>4. \A b \in Attempts : Waits(job, b, owner'[b])
  BY <1>1, <1>2 DEF IInv, PhaseInv, Waits
<1>5. \A c \in Captures : \A r :
        meta[c] # None /\ Allows(meta[c], registry[meta[c].attempt], owner[meta[c].attempt], r) =>
          Allows(meta[c], registry[meta[c].attempt], owner'[meta[c].attempt], r)
  BY <1>1, <1>2 DEF Allows, IInv, TypeOK, Metadata
<1>6. owner' \in [Attempts -> OwnerStates]
  BY <1>1, <1>2 DEF OwnerStates
<1>7. QED
  BY <1>1, <1>2, <1>3, <1>4, <1>5, <1>6, OwnersKeep

\* A finished operation.
LEMMA JobDoneKeeps ==
  ASSUME IInv, NEW a \in Attempts, JobDone(a)
  PROVE  IInv'
<1> DEFINE p == IF job.kind = "capture" THEN "captured"
                ELSE IF job.kind = "discard" \/ owner[a] = "shredding" THEN "over"
                ELSE "deleted"
           c == job.capture
<1>1. /\ job.attempt = a /\ job.todo = <<>> /\ job' = NoJob /\ owner' = [owner EXCEPT ![a] = p]
      /\ UNCHANGED <<durable, phase, recoveredAt>>
  BY DEF JobDone
<1>2. /\ vault' = vault /\ meta' = meta /\ registry' = registry /\ UNCHANGED store
      /\ nextSequence' = nextSequence /\ phase' = phase /\ recoveredAt' = recoveredAt
  BY <1>1 DEF durable, store
<1>3. /\ a # None /\ job.kind \in {"capture", "discard", "delete"} /\ c \in Captures /\ Of(c, a)
      /\ Plan(job.kind, vault[c]) = <<>> /\ Sound(vault[c])
      /\ job.kind = "capture" => vault[c].files \cap {"deleting", "deleted"} = {}
      /\ job.kind = "delete" => Kept(vault[c])
  BY <1>1, NoneAssumption DEF IInv, JobSound, CapturesInv, Erases
<1>4. phase = "ready"
  BY <1>3 DEF IInv, PhaseInv
<1>5. \A d \in Captures : Of(d, a) => d = c
  BY <1>3 DEF IInv, CapturesInv
<1>6. p \in OwnerStates /\ p \notin {"capturing", "shredding", "deleting", "collecting"}
  BY DEF OwnerStates
<1>7. CapturesInv' /\ AttemptsInv'
  <2>1. CASE job.kind = "capture"
    <3>1. p = "captured" /\ owner[a] = "capturing"
      BY <1>1, <2>1 DEF IInv, PhaseInv, Waits
    <3>2. vault[c].files = {"body", "dek"} /\ ReceiptOf(vault[c]) = None /\ Kept(vault[c])
      BY <1>3, <2>1, DonePlans DEF Plan, Sound, ReceiptOf, Kept
    <3>3. OwnerSound(registry[a], "captured")
      BY <3>1 DEF IInv, AttemptsInv, OwnerSound
    <3>4. \A d \in Captures : Of(d, a) => CaptureSound(vault[d], meta[d], registry[a], "captured")
      <4>1. CaptureSound(vault[c], meta[c], registry[a], "captured")
        BY <1>3, <3>2 DEF IInv, CapturesInv, Of, CaptureSound
      <4>2. QED
        BY <1>5, <4>1
    <3>5. QED
      BY <1>1, <1>2, <1>3, <3>1, <3>3, <3>4, OwnerMoves
  <2>2. CASE job.kind = "discard" \/ (job.kind = "delete" /\ owner[a] = "shredding")
    <3>1. p = "over"
      BY <2>2
    <3>2. OwnersLetGo
      BY <1>1, <3>1 DEF OwnersLetGo, IInv, TypeOK
    <3>3. QED
      BY <1>2, <3>2, CapturesStay
  <2>3. CASE job.kind = "delete" /\ owner[a] # "shredding"
    <3>1. p = "deleted" /\ owner[a] = "deleting"
      BY <1>1, <2>3 DEF IInv, PhaseInv, Waits
    <3>2. vault[c].files = {"deleted"}
      BY <1>3, <2>3, DonePlans DEF Plan
    <3>3. OwnerSound(registry[a], "deleted") /\ registry[a].capture = c
      <4>1. State(a) = "committed" /\ OwnerSound(registry[a], "deleted")
        BY <3>1 DEF IInv, AttemptsInv, OwnerSound, State
      <4>2. QED
        BY <1>5, <4>1 DEF IInv, AttemptsInv
    <3>4. \A d \in Captures : Of(d, a) => CaptureSound(vault[d], meta[d], registry[a], "deleted")
      <4>1. CaptureSound(vault[c], meta[c], registry[a], "deleted")
        BY <1>3, <3>1 DEF IInv, CapturesInv, Of, CaptureSound, Counts, Allows
      <4>2. QED
        BY <1>5, <4>1
    <3>5. QED
      BY <1>1, <1>2, <3>1, <3>2, <3>3, <3>4, OwnerMoves
  <2>4. QED
    BY <1>3, <2>1, <2>2, <2>3
<1>8. RegistryInv'
  BY <1>2, RegistryStays
<1>9. owner' \in [Attempts -> OwnerStates]
  BY <1>1, <1>6 DEF IInv, TypeOK, OwnerStates
<1>10. TypeOK' /\ (phase # "corrupt")'
  BY <1>1, <1>2, <1>4, <1>7, <1>9, TypesStay, NoJobIsJob DEF IInv, TypeOK, OwnerStates
<1>11. JobSound(job)'
  BY <1>1 DEF JobSound, NoJob, Erases
<1>12. PhaseInv'
  <2>1. ASSUME NEW b \in Attempts
        PROVE  Waits(job', b, owner'[b])
    <3>1. job'.kind = "none" /\ job'.attempt = None
      BY <1>1 DEF NoJob
    <3>2. CASE b = a
      <4>1. owner'[b] = p
        BY <1>1, <3>2 DEF IInv, TypeOK
      <4>2. QED
        BY <1>6, <3>1, <4>1 DEF Waits
    <3>3. CASE b # a
      <4>1. owner'[b] = owner[b]
        BY <1>1, <3>3 DEF IInv, TypeOK
      <4>2. QED
        BY <1>1, <3>1, <3>3, <4>1 DEF IInv, PhaseInv, Waits
    <3>4. QED
      BY <3>2, <3>3
  <2>2. job'.kind = "none" /\ phase' = "ready"
    BY <1>1, <1>2, <1>4 DEF NoJob
  <2>3. QED
    BY <2>1, <2>2, ReadyPhase
<1>13. QED
  BY <1>7, <1>8, <1>10, <1>11, <1>12 DEF IInv

\* The creation of a capture starts: its metadata are those of its pending entry.
LEMMA StartCaptureKeeps ==
  ASSUME IInv, NEW a \in Attempts, NEW c \in Captures, NEW t \in Times, StartCapture(a, c, t)
  PROVE  IInv'
<1> DEFINE m == [attempt |-> a, acquiredAt |-> t, expiresAt |-> registry[a].expiresAt]
<1>1. /\ owner[a] = "collecting" /\ job = NoJob /\ meta[c] = None
      /\ registry[a].begunAt <= t /\ meta' = [meta EXCEPT ![c] = m]
      /\ job' = JobOn("capture", a, c, CapturePlan, None) /\ owner' = [owner EXCEPT ![a] = "capturing"]
      /\ vault' = vault /\ UNCHANGED store /\ registry' = registry /\ nextSequence' = nextSequence
      /\ phase' = phase /\ recoveredAt' = recoveredAt
  BY DEF StartCapture, VaultFree, store
<1>2. phase = "ready"
  BY <1>1, WorkingMeansReady
<1>3. registry[a] # None /\ registry[a].state = "pending"
  BY <1>1 DEF IInv, AttemptsInv, OwnerSound
<1>4. /\ m \in Metadata /\ m # None /\ m.attempt = a /\ m.acquiredAt = t
      /\ m.expiresAt = registry[a].expiresAt
  <2>1. t \in Nat
    BY TimeAssumption DEF Times
  <2>2. registry[a].expiresAt \in Nat
    <3>1. registry[a] \in Entry /\ a \in Rows
      BY <1>3 DEF IInv, TypeOK, Rows, State
    <3>2. QED
      BY <1>3, <3>1 DEF IInv, RegistryInv, Timed
  <2>3. QED
    BY <2>1, <2>2, NoRecordAssumption DEF Metadata
<1> HIDE DEF m
<1>5. /\ meta' \in [Captures -> Metadata \cup {None}] /\ meta'[c] = m
      /\ \A d \in Captures : d # c => meta'[d] = meta[d]
      /\ owner' \in [Attempts -> OwnerStates] /\ owner'[a] = "capturing"
      /\ \A b \in Attempts : b # a => owner'[b] = owner[b]
  BY <1>1, <1>4 DEF IInv, TypeOK, OwnerStates
<1>6. \A d \in Captures : meta[d] # None => meta[d].attempt \in Attempts \ {a}
  BY <1>1 DEF IInv, CapturesInv, CaptureSound, TypeOK, Metadata
<1>7. /\ \A b \in Attempts : Of(c, b)' <=> b = a
      /\ \A d \in Captures : \A b \in Attempts : d # c => (Of(d, b)' <=> Of(d, b))
      /\ \A d \in Captures : ~Of(d, a)
  BY <1>4, <1>5, <1>6 DEF Of
<1>8. CapturesInv'
  <2>1. ASSUME NEW d \in Captures
        PROVE  /\ Sound(vault[d]) /\ (meta'[d] = None => vault[d] = Empty)
               /\ meta'[d] # None =>
                    CaptureSound(vault[d], meta'[d], registry[meta'[d].attempt],
                                 owner'[meta'[d].attempt])
    <3>1. CASE d = c
      <4>1. vault[c] = Empty /\ ReceiptOf(vault[c]) = None
        <5>1. vault[c] = Empty
          BY <1>1 DEF IInv, CapturesInv
        <5>2. ReceiptOf(Empty) = None
          BY DEF Empty, ReceiptOf
        <5>3. QED
          BY <5>1, <5>2
      <4>2. CaptureSound(vault[c], m, registry[a], "capturing")
        BY <1>1, <1>3, <1>4, <4>1 DEF CaptureSound, Counts
      <4>3. Sound(vault[c]) /\ meta'[c] = m /\ owner'[a] = "capturing" /\ m # None /\ m.attempt = a
        BY <1>4, <1>5 DEF IInv, CapturesInv
      <4>4. QED
        BY <3>1, <4>1, <4>2, <4>3
    <3>2. CASE d # c
      BY <1>5, <1>6, <3>2 DEF IInv, CapturesInv
    <3>3. QED
      BY <3>1, <3>2
  <2>2. \A d, e \in Captures : \A b \in Attempts : Of(d, b)' /\ Of(e, b)' => d = e
    BY <1>7 DEF IInv, CapturesInv
  <2>3. QED
    BY <1>1, <2>1, <2>2 DEF CapturesInv
<1>9. AttemptsInv'
  <2>1. ASSUME NEW b \in Attempts
        PROVE  /\ OwnerSound(registry[b], owner'[b])
               /\ State(b) = "committed" =>
                    /\ registry[b].capture \in Captures
                    /\ \E d \in Captures : d = registry[b].capture /\ Of(d, b)'
               /\ owner'[b] \in {"captured", "uncommitted", "shredding"} =>
                    \E d \in Captures : Of(d, b)'
               /\ owner'[b] = "deleted" => "deleted" \in vault[registry[b].capture].files
    <3>1. OwnerSound(registry[b], owner'[b])
      BY <1>3, <1>5 DEF IInv, AttemptsInv, OwnerSound
    <3>2. \A d \in Captures : Of(d, b) => Of(d, b)'
      <4>1. ASSUME NEW d \in Captures, Of(d, b)
            PROVE  d # c
        BY <1>1, <4>1 DEF Of
      <4>2. QED
        BY <1>7, <4>1
    <3>3. State(b) = "committed" =>
            /\ registry[b].capture \in Captures
            /\ \E d \in Captures : d = registry[b].capture /\ Of(d, b)'
      BY <3>2 DEF IInv, AttemptsInv
    <3>4. owner'[b] \in {"captured", "uncommitted", "shredding"} => \E d \in Captures : Of(d, b)'
      <4>1. owner'[b] \in {"captured", "uncommitted", "shredding"} => owner[b] = owner'[b]
        BY <1>5
      <4>2. QED
        BY <3>2, <4>1 DEF IInv, AttemptsInv
    <3>5. owner'[b] = "deleted" => "deleted" \in vault[registry[b].capture].files
      BY <1>5 DEF IInv, AttemptsInv
    <3>6. QED
      BY <3>1, <3>3, <3>4, <3>5
  <2>2. ASSUME NEW b \in Attempts, State(b) = "removed", registry[b].capture # None
        PROVE  LET v == vault[registry[b].capture]
               IN  "deleted" \in v.files /\ v.tombstone = registry[b].removal
    BY <2>2 DEF IInv, AttemptsInv
  <2>3. \A b \in Attempts : State(b) = "committed" => Of(registry[b].capture, b)'
    BY <1>1, <2>1
  <2>4. QED
    BY <1>1, <2>1, <2>2, <2>3 DEF AttemptsInv, State
<1>10. RegistryInv' /\ CommittedCaptures' = CommittedCaptures
  BY <1>1, RegistryStays
<1>11. /\ job' \in Job /\ job'.kind = "capture" /\ job'.attempt = a /\ job'.capture = c
       /\ job'.todo = CapturePlan /\ job'.left = {}
  <2>1. CapturePlan \in Seq({"publish", "remove"} \X Artifacts)
    BY CapturePlanProperties DEF Steps
  <2>2. QED
    BY <1>1, <2>1 DEF JobOn, Job
<1>12. TypeOK' /\ (phase # "corrupt")'
  BY <1>1, <1>2, <1>5, <1>11 DEF IInv, TypeOK, OwnerStates
<1>13. JobSound(job)'
  <2>1. Plan("capture", vault[c]) = CapturePlan /\ vault[c].files = {}
    <3>1. vault[c].files = {}
      BY <1>1 DEF IInv, CapturesInv, Empty
    <3>2. QED
      BY <3>1, CreatePlans DEF Plan
  <2>2. {} \in Shapes /\ a # None
    BY NoneAssumption DEF Shapes
  <2>3. ~Erases("capture")
    BY DEF Erases
  <2>4. Of(c, a)' /\ meta'[c] # None
    BY <1>4, <1>5, <1>7
  <2>5. QED
    BY <1>1, <1>11, <2>1, <2>2, <2>3, <2>4 DEF JobSound
<1>14. PhaseInv'
  <2>1. ASSUME NEW b \in Attempts
        PROVE  Waits(job', b, owner'[b])
    <3>1. job.kind = "none"
      BY <1>1 DEF NoJob
    <3>2. CASE b = a
      BY <1>5, <1>11, <3>2 DEF Waits
    <3>3. CASE b # a
      <4>1. owner[b] \notin {"capturing", "shredding", "deleting"}
        BY <3>1 DEF IInv, PhaseInv, Waits
      <4>2. QED
        BY <1>5, <1>11, <3>3, <4>1 DEF Waits
    <3>4. QED
      BY <3>2, <3>3
  <2>2. QED
    BY <1>1, <1>2, <1>11, <2>1, ReadyPhase
<1>15. QED
  BY <1>8, <1>9, <1>10, <1>12, <1>13, <1>14 DEF IInv

\* An owner has its capture deleted.
LEMMA DeletionStarts ==
  ASSUME IInv, NEW a \in Attempts, NEW c \in Captures, NEW p \in {"shredding", "deleting"},
         NEW r \in GoodReceipts, VaultFree, owner[a] \notin {"idle", "over"}, Of(c, a),
         job' = JobOn("delete", a, c, DeletePlan(vault[c]), r), owner' = [owner EXCEPT ![a] = p],
         UNCHANGED <<durable, phase, recoveredAt>>,
         OwnerSound(registry[a], p), Kept(vault[c]), CaptureSound(vault[c], meta[c], registry[a], p),
         Allows(meta[c], registry[a], p, r)
  PROVE  IInv'
<1>1. /\ vault' = vault /\ meta' = meta /\ UNCHANGED store /\ registry' = registry
      /\ nextSequence' = nextSequence /\ phase' = phase /\ recoveredAt' = recoveredAt /\ job = NoJob
  BY DEF durable, store, VaultFree
<1>2. phase = "ready"
  BY WorkingMeansReady
<1>3. \A d \in Captures : Of(d, a) => d = c
  BY DEF IInv, CapturesInv
<1>4. CapturesInv' /\ AttemptsInv'
  <2>1. \A d \in Captures : Of(d, a) => CaptureSound(vault[d], meta[d], registry[a], p)
    BY <1>3
  <2>2. QED
    BY <1>1, <2>1, OwnerMoves
<1>5. RegistryInv' /\ CommittedCaptures' = CommittedCaptures
  BY <1>1, RegistryStays
<1>6. Sound(vault[c]) /\ vault[c] \in Contents
  BY DEF IInv, CapturesInv, Sound
<1>7. /\ job' \in Job /\ job'.kind = "delete" /\ job'.attempt = a /\ job'.capture = c
      /\ job'.todo = DeletePlan(vault[c]) /\ job'.left = {} /\ job'.receipt = r
  <2>1. DeletePlan(vault[c]) \in Seq({"publish", "remove"} \X Artifacts)
    BY <1>6, PlanProperties DEF Steps
  <2>2. QED
    BY <2>1 DEF JobOn, Job, GoodReceipts
<1>8. /\ owner' \in [Attempts -> OwnerStates] /\ owner'[a] = p
      /\ \A b \in Attempts : b # a => owner'[b] = owner[b]
  BY DEF IInv, TypeOK, OwnerStates
<1>9. TypeOK' /\ (phase # "corrupt")'
  BY <1>1, <1>2, <1>4, <1>7, <1>8, TypesStay DEF IInv, TypeOK, OwnerStates
<1>10. JobSound(job)'
  <2>1. Plan("delete", vault[c]) = DeletePlan(vault[c]) /\ Erases("delete") /\ a # None
    BY NoneAssumption DEF Plan, Erases
  <2>2. Of(c, a)' /\ meta'[c] # None /\ meta'[c].attempt = a
    BY <1>1 DEF Of
  <2>3. QED
    BY <1>1, <1>7, <1>8, <2>1, <2>2 DEF JobSound
<1>11. PhaseInv'
  <2>1. ASSUME NEW b \in Attempts
        PROVE  Waits(job', b, owner'[b])
    <3>1. job.kind = "none"
      BY <1>1 DEF NoJob
    <3>2. CASE b = a
      BY <1>7, <1>8, <3>2 DEF Waits
    <3>3. CASE b # a
      <4>1. owner[b] \notin {"capturing", "shredding", "deleting"}
        BY <3>1 DEF IInv, PhaseInv, Waits
      <4>2. QED
        BY <1>7, <1>8, <3>3, <4>1 DEF Waits
    <3>4. QED
      BY <3>2, <3>3
  <2>2. QED
    BY <1>1, <1>2, <1>7, <2>1, ReadyPhase
<1>12. QED
  BY <1>4, <1>5, <1>9, <1>10, <1>11 DEF IInv

\* The capture of an attempt that has one.
LEMMA CaptureOfAttempt ==
  ASSUME IInv, NEW a \in Attempts, NEW c \in Captures, Of(c, a)
  PROVE  CaptureOf(a) = c
BY DEF IInv, CapturesInv, Of, CaptureOf

\* An uncommitted capture is deleted.
LEMMA ShredKeeps ==
  ASSUME IInv, NEW a \in Attempts, Shred(a)
  PROVE  IInv'
<1>1. owner[a] = "uncommitted"
  BY DEF Shred
<1>2. PICK c \in Captures : Of(c, a)
  BY <1>1 DEF IInv, AttemptsInv
<1>3. CaptureOf(a) = c
  BY <1>2, CaptureOfAttempt
<1> DEFINE r == Receipt(meta[c].acquiredAt, "explicit")
<1>4. /\ VaultFree /\ job' = JobOn("delete", a, c, DeletePlan(vault[c]), r)
      /\ owner' = [owner EXCEPT ![a] = "shredding"] /\ UNCHANGED <<durable, phase, recoveredAt>>
  BY <1>3 DEF Shred
<1>5. r \in GoodReceipts
  BY <1>2 DEF GoodReceipts, Receipts, Receipt, IInv, TypeOK, Metadata, Of
<1>6. CaptureSound(vault[c], meta[c], registry[a], "uncommitted")
  BY <1>1, <1>2 DEF IInv, CapturesInv, Of
<1>7. OwnerSound(registry[a], "shredding") /\ registry[a].state = "pending"
  BY <1>1 DEF IInv, AttemptsInv, OwnerSound
<1>8. /\ Kept(vault[c]) /\ CaptureSound(vault[c], meta[c], registry[a], "shredding")
      /\ Allows(meta[c], registry[a], "shredding", r)
  BY <1>6, <1>7 DEF CaptureSound, Counts, Allows
<1> HIDE DEF r
<1>9. QED
  BY <1>1, <1>2, <1>4, <1>5, <1>7, <1>8, DeletionStarts

\* A committed capture is deleted, not before its commit.
LEMMA StartDeleteKeeps ==
  ASSUME IInv, NEW a \in Attempts, NEW t \in Times, StartDelete(a, t)
  PROVE  IInv'
<1> DEFINE c == registry[a].capture
           r == Receipt(DeletionTime(a, t), "explicit")
<1>1. /\ owner[a] = "held" /\ VaultFree /\ job' = JobOn("delete", a, c, DeletePlan(vault[c]), r)
      /\ owner' = [owner EXCEPT ![a] = "deleting"] /\ UNCHANGED <<durable, phase, recoveredAt>>
  BY DEF StartDelete
<1>2. registry[a] # None /\ registry[a].state = "committed"
  BY <1>1 DEF IInv, AttemptsInv, OwnerSound
<1>3. c \in Captures /\ Of(c, a)
  BY <1>2 DEF IInv, AttemptsInv, State
<1>4. registry[a].committedAt \in Nat
  <2>1. registry[a] \in Entry /\ a \in Rows
    BY <1>2 DEF IInv, TypeOK, Rows, State
  <2>2. QED
    BY <1>2, <2>1 DEF IInv, RegistryInv, Timed
<1>5. r \in GoodReceipts /\ registry[a].committedAt <= r.at
  BY <1>4, TimeAssumption DEF GoodReceipts, Receipts, Receipt, DeletionTime, Times
<1>6. CaptureSound(vault[c], meta[c], registry[a], "held")
  BY <1>1, <1>3 DEF IInv, CapturesInv, Of
<1>7. OwnerSound(registry[a], "deleting")
  BY <1>2 DEF OwnerSound
<1>8. /\ Kept(vault[c]) /\ CaptureSound(vault[c], meta[c], registry[a], "deleting")
      /\ Allows(meta[c], registry[a], "deleting", r)
  BY <1>2, <1>5, <1>6 DEF CaptureSound, Counts, Allows
<1> HIDE DEF r
<1>9. QED
  BY <1>1, <1>3, <1>5, <1>7, <1>8, DeletionStarts

-----------------------------------------------------------------------------
(* Steps that only move the vault's queue and the recovery on. *)

\* Nothing durable changes, and no owner.
LEMMA QuietKeeps ==
  ASSUME IInv, UNCHANGED <<durable, owner>>, job' \in Job, recoveredAt' \in Nat,
         phase' \in {"closed", "boot", "vault", "pending", "repair", "reconcile", "ready"},
         JobSound(job)', PhaseInv'
  PROVE  IInv'
<1>1. /\ vault' = vault /\ meta' = meta /\ UNCHANGED store /\ registry' = registry
      /\ nextSequence' = nextSequence /\ owner' = owner
  BY DEF durable, store
<1>2. CapturesInv' /\ AttemptsInv'
  BY <1>1, CapturesStay DEF OwnersLetGo
<1>3. RegistryInv'
  BY <1>1, RegistryStays
<1>4. TypeOK' /\ (phase # "corrupt")'
  BY <1>1, <1>2, TypesStay DEF IInv, TypeOK
<1>5. QED
  BY <1>2, <1>3, <1>4 DEF IInv

\* The state a quiet step leaves as it is, spelled out.
LEMMA Quiet ==
  ASSUME IInv, UNCHANGED <<durable, owner>>
  PROVE  /\ vault' = vault /\ meta' = meta /\ registry' = registry /\ owner' = owner
         /\ CommittedCaptures' = CommittedCaptures /\ \A a \in Attempts : State(a)' = State(a)
BY RegistryStays DEF durable, store

\* The storage is opened; a sound registry passes its check.
LEMMA OpenKeeps ==
  ASSUME IInv, Open
  PROVE  IInv'
<1>1. /\ phase = "closed" /\ phase' = "boot" /\ UNCHANGED <<durable, owner>> /\ job' = job
      /\ recoveredAt' = recoveredAt
  BY DEF Open, IInv, RegistryInv
<1>2. /\ vault' = vault /\ meta' = meta /\ registry' = registry /\ owner' = owner
      /\ CommittedCaptures' = CommittedCaptures
  BY <1>1, Quiet
<1>3. JobSound(job)'
  <2>1. \A c \in Captures : Same(vault[c], vault'[c]) /\ vault'[c] \in Contents
    BY <1>2 DEF Same, IInv, TypeOK
  <2>2. QED
    BY <1>1, <1>2, <2>1, JobStays
<1>4. PhaseInv'
  BY <1>1, <1>2 DEF IInv, PhaseInv
<1>5. QED
  BY <1>1, <1>3, <1>4, QuietKeeps DEF IInv, TypeOK

\* The vault's queue is empty again, or was.
LEMMA QueueEmptied ==
  ASSUME IInv, UNCHANGED <<durable, owner>>, job' = NoJob, recoveredAt' \in Nat, PhaseInv',
         phase' \in {"closed", "boot", "vault", "pending", "repair", "reconcile", "ready"}
  PROVE  IInv'
<1>1. JobSound(job)'
  BY DEF JobSound, NoJob, Erases
<1>2. QED
  BY <1>1, NoJobIsJob, QuietKeeps

\* Nobody waits for a vault whose operation has no owner.
LEMMA NobodyWaits ==
  ASSUME IInv, job.kind \notin {"capture", "discard", "delete"},
         job'.kind \notin {"capture", "discard", "delete"}, owner' = owner
  PROVE  \A a \in Attempts : Waits(job', a, owner'[a])
BY DEF IInv, PhaseInv, Waits

\* A batch has nothing to do until it reaches its first capture.
LEMMA BatchProperties ==
  ASSUME NEW kind \in Kinds, NEW S \in SUBSET Captures, NEW r \in Receipts \cup {None}
  PROVE  LET j == Batch(kind, S, r)
         IN  /\ j \in Job /\ j.kind = kind /\ j.attempt = None /\ j.todo = <<>>
             /\ j.left = S /\ j.receipt = r
<1>1. NoJob \in Job
  BY NoJobIsJob
<1>2. QED
  BY <1>1 DEF Batch, NoJob, Job, Kinds

\* A batch begins.
LEMMA BatchStarts ==
  ASSUME IInv, UNCHANGED <<durable, owner>>, recoveredAt' \in Nat, PhaseInv',
         phase' \in {"closed", "boot", "vault", "pending", "repair", "reconcile", "ready"},
         NEW kind \in {"recover", "sweep", "reconcile"}, NEW S \in SUBSET Captures,
         NEW r \in Receipts \cup {None}, job' = Batch(kind, S, r),
         Erases(kind) => r \in GoodReceipts,
         kind = "reconcile" => (\A c \in S : Readable(vault[c])) /\ CommittedCaptures \cap S = {}
  PROVE  IInv'
<1>1. /\ job' \in Job /\ job'.kind = kind /\ job'.attempt = None /\ job'.todo = <<>>
      /\ job'.left = S /\ job'.receipt = r
  BY BatchProperties DEF Kinds
<1>2. vault' = vault /\ CommittedCaptures' = CommittedCaptures
  BY Quiet
<1>3. JobSound(job)'
  BY <1>1, <1>2 DEF JobSound
<1>4. QED
  BY <1>1, <1>3, QuietKeeps

\* A sweep starts.
LEMMA StartSweepKeeps ==
  ASSUME IInv, NEW t \in Times, StartSweep(t)
  PROVE  IInv'
<1> DEFINE S == {c \in Captures : Active(vault[c])}
           r == Receipt(t, "expired")
<1>1. /\ phase = "ready" /\ phase' = phase /\ job = NoJob /\ job' = Batch("sweep", S, r)
      /\ UNCHANGED <<durable, owner>> /\ recoveredAt' = recoveredAt /\ owner' = owner
  BY DEF StartSweep, Ready, VaultFree
<1>2. r \in GoodReceipts /\ r \in Receipts
  BY TimeAssumption DEF GoodReceipts, Receipts, Receipt, Times
<1> HIDE DEF r, S
<1>3. S \in SUBSET Captures
  BY DEF S
<1>4. job'.kind = "sweep"
  BY <1>1, <1>2, <1>3, BatchProperties DEF Kinds
<1>5. PhaseInv'
  <2>1. job.kind = "none"
    BY <1>1 DEF NoJob
  <2>2. \A a \in Attempts : Waits(job', a, owner'[a])
    BY <1>1, <1>4, <2>1, NobodyWaits
  <2>3. QED
    BY <1>1, <1>4, <2>2, ReadyPhase
<1>6. recoveredAt' \in Nat /\ Erases("sweep")
  BY <1>1 DEF IInv, TypeOK, Erases
<1>7. QED
  BY <1>1, <1>2, <1>3, <1>5, <1>6, BatchStarts

\* The sweep reaches a capture, and deletes it if it has expired: no entry and no owner
\* can still object.
LEMMA SweepNextKeeps ==
  ASSUME IInv, NEW c \in Captures, SweepNext(c)
  PROVE  IInv'
<1>1. /\ job.kind = "sweep" /\ job.todo = <<>> /\ c \in job.left /\ UNCHANGED <<durable, owner>>
      /\ phase' = phase /\ recoveredAt' = recoveredAt
  BY DEF SweepNext
<1>2. /\ vault' = vault /\ meta' = meta /\ registry' = registry /\ owner' = owner
      /\ CommittedCaptures' = CommittedCaptures
  BY <1>1, Quiet
<1>3. phase = "ready" /\ recoveredAt' \in Nat
  BY <1>1 DEF IInv, PhaseInv, TypeOK
<1>4. job'.kind \in {"none", "sweep"} => PhaseInv'
  <2>1. job'.kind \in {"none", "sweep"} => \A a \in Attempts : Waits(job', a, owner'[a])
    BY <1>1, <1>2, NobodyWaits
  <2>2. QED
    BY <1>1, <1>3, <2>1, ReadyPhase
<1>5. CASE ~Readable(vault[c])
  <2>1. job' = NoJob /\ job'.kind = "none"
    BY <1>5 DEF SweepNext, NoJob
  <2>2. QED
    BY <1>1, <1>3, <1>4, <2>1, QueueEmptied
<1>6. CASE Readable(vault[c])
  <2> DEFINE todo == IF meta[c].expiresAt <= job.receipt.at THEN DeletePlan(vault[c]) ELSE <<>>
  <2>1. job' = [job EXCEPT !.capture = c, !.left = @ \ {c}, !.todo = todo]
    BY <1>6 DEF SweepNext
  <2>2. vault[c] \in Contents /\ Sound(vault[c]) /\ Kept(vault[c]) /\ meta[c] # None
    <3>1. vault[c] \in Contents /\ Sound(vault[c])
      BY DEF IInv, CapturesInv, Sound
    <3>2. Kept(vault[c])
      BY <1>6 DEF Kept, Readable
    <3>3. vault[c] # Empty
      BY <1>6 DEF Readable, Empty
    <3>4. QED
      BY <3>1, <3>2, <3>3 DEF IInv, CapturesInv
  <2>3. todo \in Seq({"publish", "remove"} \X Artifacts)
    BY <2>2, PlanProperties, EmptySeq DEF Steps
  <2>4. /\ job' \in Job /\ job'.kind = "sweep" /\ job'.attempt = job.attempt /\ job'.capture = c
        /\ job'.left = job.left \ {c} /\ job'.todo = todo /\ job'.receipt = job.receipt
    BY <1>1, <2>1, <2>3 DEF IInv, TypeOK, Job
  <2>5. JobSound(job)'
    <3>1. job.attempt = None /\ job.receipt \in GoodReceipts
      BY <1>1 DEF IInv, JobSound, Erases
    <3>2. todo # <<>> =>
            /\ todo = Plan("sweep", vault[c])
            /\ Allows(meta[c], registry[meta[c].attempt], owner[meta[c].attempt], job.receipt)
      <4>1. Plan("sweep", vault[c]) = DeletePlan(vault[c])
        BY DEF Plan
      <4>2. todo # <<>> => meta[c].expiresAt <= job.receipt.at
        OBVIOUS
      <4>3. meta[c].expiresAt <= job.receipt.at =>
              Allows(meta[c], registry[meta[c].attempt], owner[meta[c].attempt], job.receipt)
        <5> DEFINE e == registry[meta[c].attempt]
        <5>1. meta[c] \in Metadata /\ meta[c].attempt \in Attempts /\ meta[c].expiresAt \in Nat
          BY <2>2 DEF IInv, TypeOK, Metadata
        <5>2. CaptureSound(vault[c], meta[c], e, owner[meta[c].attempt])
          BY <2>2 DEF IInv, CapturesInv
        <5>3. e.state = "committed" =>
                e.committedAt <= meta[c].expiresAt /\ e.committedAt \in Nat
          <6>1. e # None /\ (e.state = "committed" => meta[c].expiresAt = e.expiresAt)
            BY <5>2 DEF CaptureSound
          <6>2. e.state = "committed" => meta[c].attempt \in Rows
            BY <5>1, <6>1 DEF Rows, State
          <6>3. e.state = "committed" => Timed(e) /\ RecordSound(e)
            BY <6>2 DEF IInv, RegistryInv, VerifyIntegrity, RowSound, SensitiveRowSound
          <6>4. QED
            BY <6>1, <6>3 DEF Timed, RecordSound
        <5>4. job.receipt.at \in Nat
          BY <3>1 DEF GoodReceipts, Receipts
        <5>5. QED
          BY <5>1, <5>3, <5>4 DEF Allows
      <4>4. QED
        BY <4>1, <4>2, <4>3
    <3> HIDE DEF todo
    <3>3. QED
      BY <1>2, <2>2, <2>4, <3>1, <3>2 DEF JobSound, Erases
  <2>6. QED
    BY <1>1, <1>3, <1>4, <2>4, <2>5, QuietKeeps
<1>7. QED
  BY <1>5, <1>6

\* A sweep ends.
LEMMA SweepDoneKeeps ==
  ASSUME IInv, SweepDone
  PROVE  IInv'
<1>1. /\ job.kind = "sweep" /\ job' = NoJob /\ UNCHANGED <<durable, owner>> /\ owner' = owner
      /\ phase' = phase /\ recoveredAt' = recoveredAt
  BY DEF SweepDone
<1>2. phase = "ready" /\ recoveredAt' \in Nat /\ job'.kind = "none"
  BY <1>1 DEF IInv, PhaseInv, TypeOK, NoJob
<1>3. PhaseInv'
  <2>1. \A a \in Attempts : Waits(job', a, owner'[a])
    BY <1>1, <1>2, NobodyWaits
  <2>2. QED
    BY <1>1, <1>2, <2>1, ReadyPhase
<1>4. QED
  BY <1>1, <1>2, <1>3, QueueEmptied

-----------------------------------------------------------------------------
(* Steps of the recovery that leave everything durable alone. *)

\* A recovery finds no damage.
LEMMA SoundIsNotDamaged ==
  ASSUME NEW v, Sound(v)
  PROVE  ~Damaged(v)
<1>1. {"deleting", "deleted"} \subseteq v.files => v.intent = v.tombstone
  BY DEF Sound
<1>2. QED
  BY <1>1 DEF Damaged, Sound, Shapes

\* Phases between the host's start and its being ready, when the vault has nothing to do.
LEMMA QueueByPhase ==
  ASSUME IInv
  PROVE  /\ phase \in {"boot", "closed", "pending", "repair"} => job = NoJob
         /\ phase = "vault" => job.kind = "recover"
         /\ phase = "reconcile" => job.kind \in {"none", "reconcile"}
BY DEF IInv, PhaseInv, TypeOK, Job, JobSound

\* A recovery starts.
LEMMA StartRecoveryKeeps ==
  ASSUME IInv, NEW t \in Times, StartRecovery(t)
  PROVE  IInv'
<1> DEFINE S == {c \in Captures : vault[c].files # {}}
<1>1. /\ job = NoJob /\ phase' = "vault" /\ recoveredAt' = t /\ job' = Batch("recover", S, None)
      /\ UNCHANGED <<durable, owner>> /\ owner' = owner
  BY DEF StartRecovery, VaultFree
<1>2. \A a \in Attempts : owner[a] \in {"idle", "over"}
  BY DEF StartRecovery, IInv, PhaseInv
<1> HIDE DEF S
<1>3. S \in SUBSET Captures /\ t \in Nat /\ \A c \in Captures \ S : vault[c].files = {}
  BY TimeAssumption DEF S, Times
<1>4. job'.kind = "recover" /\ job'.left = S
  BY <1>1, <1>3, BatchProperties DEF Kinds
<1>5. vault' = vault
  BY <1>1, Quiet
<1>6. PhaseInv'
  <2>1. job.kind = "none"
    BY <1>1 DEF NoJob
  <2>2. \A a \in Attempts : Waits(job', a, owner'[a])
    BY <1>1, <1>4, <2>1, NobodyWaits
  <2>3. \A c \in Captures \ job'.left : Rests(vault'[c])
    BY <1>3, <1>4, <1>5 DEF Rests
  <2>4. QED
    BY <1>1, <1>2, <1>4, <2>2, <2>3 DEF PhaseInv
<1>7. ~Erases("recover")
  BY DEF Erases
<1>8. QED
  BY <1>1, <1>3, <1>6, <1>7, BatchStarts

\* A temporary that cannot be removed ends a recovery.
LEMMA TemporaryStaysKeeps ==
  ASSUME IInv, NEW c \in Captures, TemporaryStays(c)
  PROVE  IInv'
<1>1. /\ job.kind = "recover" /\ job' = NoJob /\ phase' = "boot" /\ UNCHANGED <<durable, owner>>
      /\ owner' = owner /\ recoveredAt' = recoveredAt /\ job'.kind = "none"
  BY DEF TemporaryStays, NoJob
<1>2. PhaseInv'
  <2>1. \A a \in Attempts : Waits(job', a, owner'[a])
    BY <1>1, NobodyWaits
  <2>2. QED
    BY <1>1, <2>1 DEF IInv, PhaseInv
<1>3. recoveredAt' \in Nat
  BY <1>1 DEF IInv, TypeOK
<1>4. QED
  BY <1>1, <1>2, <1>3, QueueEmptied

\* The recovery reaches a capture.
LEMMA RecoverNextKeeps ==
  ASSUME IInv, NEW c \in Captures, RecoverNext(c)
  PROVE  IInv'
<1>1. /\ job.kind = "recover" /\ job.todo = <<>> /\ c \in job.left /\ UNCHANGED <<durable, owner>>
      /\ owner' = owner /\ recoveredAt' = recoveredAt /\ phase = "vault"
  BY DEF RecoverNext, IInv, PhaseInv
<1>2. Sound(vault[c]) /\ ~Damaged(vault[c])
  BY SoundIsNotDamaged DEF IInv, CapturesInv
<1>3. /\ job' = [job EXCEPT !.capture = c, !.left = @ \ {c}, !.todo = RecoverPlan(vault[c])]
      /\ phase' = phase
  BY <1>2 DEF RecoverNext
<1>4. vault' = vault /\ meta' = meta /\ registry' = registry /\ CommittedCaptures' = CommittedCaptures
  BY <1>1, Quiet
<1>5. Plan("recover", vault[c]) = RecoverPlan(vault[c])
  BY DEF Plan
<1>6. /\ job' \in Job /\ job'.kind = "recover" /\ job'.attempt = job.attempt /\ job'.capture = c
      /\ job'.left = job.left \ {c} /\ job'.todo = RecoverPlan(vault[c]) /\ job'.receipt = job.receipt
  <2>1. RecoverPlan(vault[c]) \in Seq({"publish", "remove"} \X Artifacts)
    BY <1>2, <1>5, PlanIsSeq DEF Steps
  <2>2. QED
    BY <1>1, <1>3, <2>1 DEF IInv, TypeOK, Job
<1>7. JobSound(job)'
  <2>1. job.attempt = None
    BY <1>1 DEF IInv, JobSound
  <2>2. RecoverPlan(vault[c]) # <<>> => meta[c] # None
    <3>1. RecoverPlan(Empty) = <<>>
      BY DEF RecoverPlan, Empty
    <3>2. QED
      BY <3>1 DEF IInv, CapturesInv
  <2>3. QED
    BY <1>4, <1>5, <1>6, <2>1, <2>2 DEF JobSound, Erases
<1>8. PhaseInv'
  <2>1. \A a \in Attempts : Waits(job', a, owner'[a])
    BY <1>1, <1>6, NobodyWaits
  <2>2. \A d \in Captures \ job'.left : Rests(vault'[d]) \/ (d = job'.capture /\ job'.todo # <<>>)
    <3>1. RecoverPlan(vault[c]) = <<>> => Rests(vault[c])
      BY <1>2, DonePlans
    <3>2. QED
      BY <1>1, <1>4, <1>6, <3>1 DEF IInv, PhaseInv
  <2>3. QED
    BY <1>1, <1>3, <1>6, <2>1, <2>2 DEF IInv, PhaseInv
<1>9. QED
  BY <1>1, <1>3, <1>6, <1>7, <1>8, QuietKeeps DEF IInv, TypeOK

\* The recovery of the vault ends with nothing half done.
LEMMA RecoverDoneKeeps ==
  ASSUME IInv, RecoverDone
  PROVE  IInv'
<1>1. /\ job.kind = "recover" /\ job.todo = <<>> /\ job.left = {} /\ phase = "vault"
      /\ \A d \in Captures : vault[d].temporaries = {}
      /\ job' = NoJob /\ phase' = "pending" /\ UNCHANGED <<durable, owner>>
      /\ owner' = owner /\ recoveredAt' = recoveredAt /\ job'.kind = "none"
  BY DEF RecoverDone, NoJob, IInv, PhaseInv
<1>2. vault' = vault
  BY <1>1, Quiet
<1>3. PhaseInv'
  <2>1. \A a \in Attempts : Waits(job', a, owner'[a])
    BY <1>1, NobodyWaits
  <2>2. \A d \in Captures : Rests(vault[d])
    BY <1>1 DEF IInv, PhaseInv
  <2>3. QED
    BY <1>1, <1>2, <2>1, <2>2 DEF IInv, PhaseInv
<1>4. recoveredAt' \in Nat
  BY <1>1 DEF IInv, TypeOK
<1>5. QED
  BY <1>1, <1>3, <1>4, QueueEmptied

\* What a committed entry says of its capture agrees with the capture's metadata.
LEMMA MetadataAlwaysAgrees ==
  ASSUME IInv, NEW a \in Committed
  PROVE  MetadataAgrees(a)
<1>1. a \in Attempts /\ State(a) = "committed"
  BY DEF Committed
<1>2. registry[a].capture \in Captures /\ Of(registry[a].capture, a)
  BY <1>1 DEF IInv, AttemptsInv
<1>3. CaptureSound(vault[registry[a].capture], meta[registry[a].capture], registry[a], owner[a])
  BY <1>2 DEF IInv, CapturesInv, Of
<1>4. registry[a].state = "committed"
  BY <1>1 DEF State
<1>5. QED
  BY <1>3, <1>4 DEF MetadataAgrees, CaptureSound

\* The committed entries agree with the metadata of their captures.
LEMMA VerifyCommittedKeeps ==
  ASSUME IInv, VerifyCommitted
  PROVE  IInv'
<1>1. /\ phase = "repair" /\ (\A a \in Committed : Readable(vault[registry[a].capture]))
      /\ phase' = "reconcile" /\ UNCHANGED <<durable, owner>>
      /\ job' = job /\ owner' = owner /\ recoveredAt' = recoveredAt
  BY MetadataAlwaysAgrees DEF VerifyCommitted
<1>2. job = NoJob /\ job'.kind = "none"
  BY <1>1, QueueByPhase DEF NoJob
<1>3. /\ vault' = vault /\ CommittedCaptures' = CommittedCaptures
      /\ \A a \in Attempts : State(a)' = State(a)
  BY <1>1, Quiet
<1>4. PhaseInv'
  <2>1. \A c \in CommittedCaptures : Readable(vault[c])
    BY <1>1 DEF CommittedCaptures
  <2>2. QED
    BY <1>1, <1>2, <1>3, <2>1 DEF IInv, PhaseInv
<1>5. recoveredAt' \in Nat
  BY <1>1 DEF IInv, TypeOK
<1>6. QED
  BY <1>1, <1>2, <1>4, <1>5, QueueEmptied

\* A capture that no committed entry names is not a committed attempt's.
LEMMA OrphanOwner ==
  ASSUME IInv, NEW c \in Captures, meta[c] # None, c \notin CommittedCaptures
  PROVE  meta[c].attempt \in Attempts /\ registry[meta[c].attempt].state # "committed"
<1>1. meta[c].attempt \in Attempts
  BY DEF IInv, TypeOK, Metadata
<1> DEFINE a == meta[c].attempt
<1>2. registry[a] # None
  BY DEF IInv, CapturesInv, CaptureSound
<1>3. ASSUME registry[a].state = "committed"
      PROVE  FALSE
  <2>1. State(a) = "committed"
    BY <1>2, <1>3 DEF State
  <2>2. registry[a].capture \in Captures /\ Of(registry[a].capture, a) /\ Of(c, a)
    BY <1>1, <2>1 DEF IInv, AttemptsInv, Of
  <2>3. registry[a].capture = c
    BY <1>1, <2>2 DEF IInv, CapturesInv
  <2>4. QED
    BY <1>1, <2>1, <2>3 DEF CommittedCaptures, Committed
<1>4. QED
  BY <1>1, <1>3

\* The reconciliation finds no committed capture missing.
LEMMA ReconcileKeeps ==
  ASSUME IInv, Reconcile
  PROVE  IInv'
<1>1. /\ phase = "reconcile" /\ job = NoJob /\ UNCHANGED <<durable, owner>> /\ owner' = owner
      /\ recoveredAt' = IF phase' = "reconcile" THEN recoveredAt ELSE 0
  BY DEF Reconcile, VaultFree
<1>2. /\ vault' = vault /\ CommittedCaptures' = CommittedCaptures
      /\ \A a \in Attempts : State(a)' = State(a)
  BY <1>1, Quiet
<1>3. recoveredAt' \in Nat
  BY <1>1 DEF IInv, TypeOK
<1>4. \A c \in CommittedCaptures : Readable(vault[c])
  BY <1>1 DEF IInv, PhaseInv
<1>5. job.kind = "none"
  BY <1>1 DEF NoJob
<1>6. CASE phase' \in {"boot", "ready"} /\ job' = job
  <2>1. job' = NoJob /\ job'.kind = "none"
    BY <1>1, <1>6 DEF NoJob
  <2>2. \A a \in Attempts : Waits(job', a, owner'[a])
    BY <1>1, <1>5, <2>1, NobodyWaits
  <2>3. PhaseInv'
    BY <1>1, <1>6, <2>1, <2>2 DEF IInv, PhaseInv
  <2>4. QED
    BY <1>1, <1>3, <1>6, <2>1, <2>3, QueueEmptied
<1>7. CASE ~(phase' \in {"boot", "ready"} /\ job' = job)
  <2>1. /\ \A c \in Orphans : Readable(vault[c])
        /\ \E S \in SUBSET Orphans \ {{}} :
             job' = Batch("reconcile", S, Receipt(recoveredAt, "explicit"))
        /\ phase' = phase
    BY <1>4, <1>7 DEF Reconcile
  <2>2. PICK S \in SUBSET Orphans : job' = Batch("reconcile", S, Receipt(recoveredAt, "explicit"))
    BY <2>1
  <2> DEFINE r == Receipt(recoveredAt, "explicit")
  <2>3. r \in GoodReceipts /\ r \in Receipts
    BY DEF IInv, TypeOK, GoodReceipts, Receipts, Receipt
  <2>4. /\ S \in SUBSET Captures /\ CommittedCaptures \cap S = {}
        /\ \A c \in S : Readable(vault[c])
    BY <2>1 DEF Orphans
  <2> HIDE DEF r
  <2>5. job' = Batch("reconcile", S, r)
    BY <2>2 DEF r
  <2>6. job'.kind = "reconcile" /\ job'.todo = <<>>
    BY <2>3, <2>4, <2>5, BatchProperties DEF Kinds
  <2>7. PhaseInv'
    <3>1. \A a \in Attempts : Waits(job', a, owner'[a])
      BY <1>1, <1>5, <2>6, NobodyWaits
    <3>2. \A c \in Captures : vault[c].temporaries = {} /\ Rests(vault[c])
      BY <1>1 DEF IInv, PhaseInv, NoJob
    <3>3. QED
      BY <1>1, <1>2, <1>4, <2>1, <2>6, <3>1, <3>2 DEF IInv, PhaseInv
  <2>8. QED
    BY <1>1, <1>3, <2>1, <2>3, <2>4, <2>5, <2>7, BatchStarts
<1>8. QED
  BY <1>6, <1>7

\* The reconciliation reaches an orphan.
LEMMA ReconcileNextKeeps ==
  ASSUME IInv, NEW c \in Captures, ReconcileNext(c)
  PROVE  IInv'
<1>1. /\ job.kind = "reconcile" /\ job.todo = <<>> /\ c \in job.left /\ UNCHANGED <<durable, owner>>
      /\ owner' = owner /\ phase' = phase /\ recoveredAt' = recoveredAt /\ phase = "reconcile"
      /\ job' = [job EXCEPT !.capture = c, !.left = @ \ {c}, !.todo = DeletePlan(vault[c])]
  BY DEF ReconcileNext, IInv, PhaseInv
<1>2. /\ vault' = vault /\ meta' = meta /\ registry' = registry
      /\ CommittedCaptures' = CommittedCaptures
      /\ \A a \in Attempts : State(a)' = State(a)
  BY <1>1, Quiet
<1>3. /\ Readable(vault[c]) /\ Kept(vault[c]) /\ c \notin CommittedCaptures /\ job.attempt = None
      /\ job.receipt \in GoodReceipts
  BY <1>1 DEF IInv, JobSound, Kept, Readable, Erases
<1>4. Sound(vault[c]) /\ vault[c] \in Contents
  BY DEF IInv, CapturesInv, Sound
<1>5. meta[c] # None
  <2>1. vault[c] # Empty
    BY <1>3 DEF Readable, Empty
  <2>2. QED
    BY <2>1 DEF IInv, CapturesInv
<1>6. Allows(meta[c], registry[meta[c].attempt], owner[meta[c].attempt], job.receipt)
  <2>1. meta[c].attempt \in Attempts /\ registry[meta[c].attempt].state # "committed"
    BY <1>3, <1>5, OrphanOwner
  <2>2. owner[meta[c].attempt] # "captured"
    BY <1>1, <2>1 DEF IInv, PhaseInv
  <2>3. QED
    BY <2>1, <2>2 DEF Allows
<1>7. /\ job' \in Job /\ job'.kind = "reconcile" /\ job'.attempt = None /\ job'.capture = c
      /\ job'.left = job.left \ {c} /\ job'.todo = DeletePlan(vault[c]) /\ job'.receipt = job.receipt
  <2>1. DeletePlan(vault[c]) \in Seq({"publish", "remove"} \X Artifacts)
    BY <1>4, PlanProperties DEF Steps
  <2>2. QED
    BY <1>1, <1>3, <2>1 DEF IInv, TypeOK, Job
<1>8. JobSound(job)'
  <2>1. Plan("reconcile", vault[c]) = DeletePlan(vault[c])
    BY DEF Plan
  <2>2. (\A d \in job.left : Readable(vault[d])) /\ CommittedCaptures \cap job.left = {}
    BY <1>1 DEF IInv, JobSound
  <2>3. QED
    BY <1>1, <1>2, <1>3, <1>5, <1>6, <1>7, <2>1, <2>2 DEF JobSound
<1>9. PhaseInv'
  <2>1. \A a \in Attempts : Waits(job', a, owner'[a])
    BY <1>1, <1>7, NobodyWaits
  <2>2. \A d \in Captures : vault[d].temporaries = {} /\ Rests(vault[d])
    BY <1>1 DEF IInv, PhaseInv
  <2>3. QED
    BY <1>1, <1>2, <1>7, <2>1, <2>2 DEF IInv, PhaseInv
<1>10. QED
  BY <1>1, <1>7, <1>8, <1>9, QuietKeeps DEF IInv, TypeOK

\* A batch of orphans is deleted.
LEMMA ReconcileDoneKeeps ==
  ASSUME IInv, ReconcileDone
  PROVE  IInv'
<1>1. /\ job.kind = "reconcile" /\ job.todo = <<>> /\ job' = NoJob /\ UNCHANGED <<durable, owner>>
      /\ owner' = owner /\ phase' = phase /\ recoveredAt' = recoveredAt /\ phase = "reconcile"
      /\ job'.kind = "none"
  BY DEF ReconcileDone, IInv, PhaseInv, NoJob
<1>2. /\ vault' = vault /\ CommittedCaptures' = CommittedCaptures
      /\ \A a \in Attempts : State(a)' = State(a)
  BY <1>1, Quiet
<1>3. PhaseInv'
  <2>1. \A a \in Attempts : Waits(job', a, owner'[a])
    BY <1>1, NobodyWaits
  <2>2. \A d \in Captures : vault[d].temporaries = {} /\ Rests(vault[d])
    BY <1>1 DEF IInv, PhaseInv
  <2>3. QED
    BY <1>1, <1>2, <2>1, <2>2 DEF IInv, PhaseInv
<1>4. recoveredAt' \in Nat
  BY <1>1 DEF IInv, TypeOK
<1>5. QED
  BY <1>1, <1>3, <1>4, QueueEmptied

-----------------------------------------------------------------------------
(* Steps of the registry, which leave the vault alone. *)

\* Entry e may take the place of the entry of attempt a, whose owner goes on to p.
Accepts(a, e, p) ==
  /\ e \in Entry /\ p \in OwnerStates /\ OwnerSound(e, p)
  /\ \A c \in Captures : Of(c, a) =>
       /\ CaptureSound(vault[c], meta[c], e, p)
       /\ \A r \in GoodReceipts :
            Allows(meta[c], registry[a], owner[a], r) => Allows(meta[c], e, p, r)
  /\ e.state = "committed" => e.capture \in Captures /\ Of(e.capture, a)
  /\ p \in {"captured", "uncommitted", "shredding"} => \E c \in Captures : Of(c, a)
  /\ p = "deleted" => "deleted" \in vault[e.capture].files
  /\ e.state = "removed" /\ e.capture # None =>
       "deleted" \in vault[e.capture].files /\ vault[e.capture].tombstone = e.removal

\* Some entries and their owners move on, the others stay.
EntriesMove ==
  \A a \in Attempts :
    (registry'[a] = registry[a] /\ owner'[a] = owner[a]) \/ Accepts(a, registry'[a], owner'[a])

\* Then captures and attempts stay sound.
LEMMA EntriesStaySound ==
  ASSUME IInv, UNCHANGED <<vault, meta>>, EntriesMove
  PROVE  CapturesInv' /\ AttemptsInv'
<1>1. \A c, b : Of(c, b)' <=> Of(c, b)
  BY DEF Of
<1>2. CapturesInv'
  <2>1. ASSUME NEW c \in Captures, meta[c] # None
        PROVE  CaptureSound(vault[c], meta[c], registry'[meta[c].attempt], owner'[meta[c].attempt])
    <3>1. meta[c].attempt \in Attempts
      BY <2>1 DEF IInv, TypeOK, Metadata
    <3> DEFINE a == meta[c].attempt
    <3>2. CASE registry'[a] = registry[a] /\ owner'[a] = owner[a]
      BY <2>1, <3>1, <3>2 DEF IInv, CapturesInv
    <3>3. CASE Accepts(a, registry'[a], owner'[a])
      BY <2>1, <3>3 DEF Accepts, Of
    <3>4. QED
      BY <3>1, <3>2, <3>3 DEF EntriesMove
  <2>2. QED
    BY <1>1, <2>1 DEF IInv, CapturesInv
<1>3. AttemptsInv'
  <2> DEFINE Fine(a, e, p) ==
        /\ OwnerSound(e, p)
        /\ (IF e = None THEN "absent" ELSE e.state) = "committed" =>
             e.capture \in Captures /\ Of(e.capture, a)
        /\ p \in {"captured", "uncommitted", "shredding"} => \E c \in Captures : Of(c, a)
        /\ p = "deleted" => "deleted" \in vault[e.capture].files
        /\ (IF e = None THEN "absent" ELSE e.state) = "removed" /\ e.capture # None =>
             LET v == vault[e.capture] IN "deleted" \in v.files /\ v.tombstone = e.removal
  <2>1. ASSUME NEW a \in Attempts
        PROVE  Fine(a, registry'[a], owner'[a])
    <3>1. CASE registry'[a] = registry[a] /\ owner'[a] = owner[a]
      BY <3>1 DEF IInv, AttemptsInv, State
    <3>2. CASE Accepts(a, registry'[a], owner'[a])
      BY <3>2 DEF Accepts
    <3>3. QED
      BY <3>1, <3>2 DEF EntriesMove
  <2>2. QED
    BY <1>1, <2>1 DEF AttemptsInv, State
<1>4. QED
  BY <1>2, <1>3

\* And the invariant is kept, if the registry's own checks and the phase are.
LEMMA EntriesKeep ==
  ASSUME IInv, UNCHANGED <<vault, meta, job, recoveredAt>>, EntriesMove,
         job.kind = "reconcile" => CommittedCaptures' \subseteq CommittedCaptures,
         phase' \in {"closed", "boot", "vault", "pending", "repair", "reconcile", "ready"},
         registry' \in [Attempts -> Entry \cup {None}], nextSequence' \in Nat,
         owner' \in [Attempts -> OwnerStates], RegistryInv', PhaseInv'
  PROVE  IInv'
<1>1. CapturesInv' /\ AttemptsInv'
  BY EntriesStaySound
<1>3. \A c \in Captures : Same(vault[c], vault'[c]) /\ vault'[c] \in Contents
  BY DEF Same, IInv, TypeOK
<1>4. ASSUME NEW c \in Captures, NEW r \in GoodReceipts, meta[c] # None,
             Allows(meta[c], registry[meta[c].attempt], owner[meta[c].attempt], r)
      PROVE  Allows(meta[c], registry'[meta[c].attempt], owner'[meta[c].attempt], r)
  <2> DEFINE a == meta[c].attempt
  <2>1. a \in Attempts /\ Of(c, a)
    BY <1>4 DEF IInv, TypeOK, Metadata, Of
  <2>2. CASE registry'[a] = registry[a] /\ owner'[a] = owner[a]
    BY <1>4, <2>2
  <2>3. CASE Accepts(a, registry'[a], owner'[a])
    BY <1>4, <2>1, <2>3 DEF Accepts
  <2>4. QED
    BY <2>1, <2>2, <2>3 DEF EntriesMove
<1>5. JobSound(job)'
  BY <1>3, <1>4, JobStays
<1>6. TypeOK' /\ (phase # "corrupt")'
  BY DEF IInv, TypeOK, OwnerStates
<1>7. QED
  BY <1>1, <1>5, <1>6 DEF IInv

\* Only a recovery reconciles.
LEMMA NotReconciling ==
  ASSUME IInv, phase \in {"ready", "pending", "repair"}
  PROVE  job.kind # "reconcile"
BY DEF IInv, PhaseInv

\* Rows are changed in place or purged.
LEMMA RowsStaySound ==
  ASSUME IInv, nextSequence' = nextSequence,
         \A a \in Attempts :
           \/ registry'[a] = registry[a]
           \/ registry'[a] = PurgedEntry
           \/ /\ a \in Rows /\ registry'[a].sequence = registry[a].sequence
              /\ RowSound(registry'[a]) /\ Timed(registry'[a])
  PROVE  RegistryInv'
<1>1. Rows' \subseteq Rows
  <2>1. PurgedEntry.state = "purged" /\ PurgedEntry # None
    <3>1. PurgedEntry \in Entry
      BY DEF PurgedEntry, Entry
    <3>2. QED
      BY <3>1, NoRecordAssumption DEF PurgedEntry
  <2>2. QED
    BY <2>1 DEF Rows, State
<1>2. IsFiniteSet(Rows') /\ Cardinality(Rows') <= MaxRecords
  <2>1. IsFiniteSet(Rows) /\ Cardinality(Rows) <= MaxRecords
    BY DEF IInv, RegistryInv, VerifyIntegrity
  <2>2. IsFiniteSet(Rows') /\ Cardinality(Rows') <= Cardinality(Rows)
    BY <1>1, <2>1, FS_Subset
  <2>3. Cardinality(Rows') \in Nat /\ Cardinality(Rows) \in Nat
    BY <2>1, <2>2, FS_CardinalityType
  <2>4. QED
    BY <2>1, <2>2, <2>3, RecordsAssumption
<1>3. ASSUME NEW a \in Rows'
      PROVE  /\ a \in Rows /\ registry'[a].sequence = registry[a].sequence
             /\ RowSound(registry'[a]) /\ Timed(registry'[a])
  <2>1. a \in Rows /\ a \in Attempts /\ registry'[a] # PurgedEntry
    <3>1. PurgedEntry.state = "purged"
      BY DEF PurgedEntry
    <3>2. QED
      BY <1>1, <1>3, <3>1 DEF Rows, State
  <2>2. RowSound(registry[a]) /\ Timed(registry[a])
    BY <2>1 DEF IInv, RegistryInv, VerifyIntegrity
  <2>3. QED
    BY <2>1, <2>2
<1>4. \A a \in Rows : /\ registry[a].sequence < nextSequence
                      /\ \A b \in Rows \ {a} : registry[b].sequence # registry[a].sequence
  BY DEF IInv, RegistryInv, VerifyIntegrity
<1>5. VerifyIntegrity'
  BY <1>2, <1>3, <1>4 DEF VerifyIntegrity, RowSound, TombstoneSound, SensitiveRowSound, RecordSound
<1>6. QED
  BY <1>2, <1>3, <1>5 DEF IInv, RegistryInv, Timed

\* A removed entry.
LEMMA RemovedProperties ==
  ASSUME IInv, NEW a \in Rows, NEW r \in Receipts,
         r.reason = "pending" <=> registry[a].capture = None
  PROVE  LET e == RemovedEntry(a, r)
         IN  /\ e \in Entry /\ e # None /\ e.state = "removed" /\ e.removal = r
             /\ e.capture = registry[a].capture /\ e.sequence = registry[a].sequence
             /\ RowSound(e) /\ Timed(e)
<1> DEFINE e == RemovedEntry(a, r)
<1>1. /\ a \in Attempts /\ registry[a] \in Entry /\ RowSound(registry[a]) /\ Timed(registry[a])
  BY DEF Rows, State, IInv, TypeOK, RegistryInv, VerifyIntegrity
<1>2. e \in Entry /\ e.state = "removed" /\ e.removal = r /\ r # None
      /\ e.capture = registry[a].capture /\ e.sequence = registry[a].sequence
      /\ {e.begunAt, e.expiresAt, e.committedAt} = {None}
  BY <1>1, NoRecordAssumption DEF RemovedEntry, Entry
<1>3. e # None
  BY <1>2, NoRecordAssumption
<1>4. Timed(e)
  BY <1>1, <1>2 DEF Timed
<1>5. RowSound(e)
  BY <1>1, <1>2 DEF RowSound, TombstoneSound
<1>6. QED
  BY <1>2, <1>3, <1>4, <1>5

\* A new row.
LEMMA BeginKeeps ==
  ASSUME IInv, NEW a \in Attempts, NEW t \in Times, NEW e \in Times, Begin(a, t, e)
  PROVE  IInv'
<1> DEFINE new == PendingEntry(t, e)
<1>1. /\ phase = "ready" /\ phase' = phase /\ State(a) = "absent" /\ owner[a] = "idle" /\ t < e
      /\ Cardinality(Rows) < MaxRecords /\ nextSequence' = nextSequence + 1
      /\ registry' = [registry EXCEPT ![a] = new] /\ owner' = [owner EXCEPT ![a] = "collecting"]
      /\ UNCHANGED <<vault, meta, job, recoveredAt>>
  BY DEF Begin, Ready
<1>2. /\ new \in Entry /\ new.state = "pending" /\ new.capture = None /\ new.sequence = nextSequence
      /\ new.begunAt = t /\ new.expiresAt = e /\ t \in Nat /\ e \in Nat /\ nextSequence \in Nat
  BY TimeAssumption DEF PendingEntry, Entry, Times, IInv, TypeOK
<1>3. new # None /\ registry[a] = None
  <2>1. registry[a] # None => registry[a] \in Entry
    BY DEF IInv, TypeOK
  <2>2. registry[a] = None
    BY <1>1, <2>1 DEF State, Entry
  <2>3. QED
    BY <1>2, <2>2, NoRecordAssumption
<1> HIDE DEF new
<1>4. /\ registry'[a] = new /\ owner'[a] = "collecting"
      /\ \A b \in Attempts \ {a} : registry'[b] = registry[b] /\ owner'[b] = owner[b]
      /\ registry' \in [Attempts -> Entry \cup {None}] /\ owner' \in [Attempts -> OwnerStates]
  BY <1>1, <1>2 DEF IInv, TypeOK, OwnerStates
<1>5. EntriesMove
  <2>1. \A c \in Captures : ~Of(c, a)
    BY <1>3 DEF IInv, CapturesInv, CaptureSound, Of
  <2>2. OwnerSound(new, "collecting")
    BY <1>2, <1>3 DEF OwnerSound
  <2>3. Accepts(a, new, "collecting")
    BY <1>2, <2>1, <2>2 DEF Accepts, OwnerStates
  <2>4. QED
    BY <1>4, <2>3 DEF EntriesMove
<1>6. RegistryInv'
  <2>1. Rows' = Rows \cup {a} /\ a \notin Rows
    BY <1>1, <1>2, <1>3, <1>4 DEF Rows, State
  <2>2. IsFiniteSet(Rows) /\ nextSequence >= 1
    BY DEF IInv, RegistryInv
  <2>3. IsFiniteSet(Rows') /\ Cardinality(Rows') = Cardinality(Rows) + 1
    BY <2>1, <2>2, FS_AddElement
  <2>4. Cardinality(Rows) \in Nat
    BY <2>2, FS_CardinalityType
  <2>5. Cardinality(Rows') <= MaxRecords
    BY <1>1, <2>3, <2>4, RecordsAssumption
  <2>6. RowSound(new) /\ Timed(new)
    BY <1>1, <1>2, <2>2 DEF RowSound, SensitiveRowSound, RecordSound, Timed
  <2>7. ASSUME NEW b \in Rows
        PROVE  /\ b # a /\ registry'[b] = registry[b] /\ RowSound(registry[b]) /\ Timed(registry[b])
               /\ registry[b].sequence < nextSequence /\ registry[b].sequence \in Nat
               /\ \A d \in Rows \ {b} : registry[d].sequence # registry[b].sequence
    BY <1>4, <2>1 DEF IInv, RegistryInv, VerifyIntegrity, Timed, Rows
  <2>8. \A b \in Rows' : /\ RowSound(registry'[b]) /\ Timed(registry'[b])
                         /\ registry'[b].sequence < nextSequence'
                         /\ \A d \in Rows' \ {b} : registry'[d].sequence # registry'[b].sequence
    BY <1>1, <1>2, <1>4, <2>1, <2>6, <2>7
  <2>9. VerifyIntegrity'
    BY <2>5, <2>8 DEF VerifyIntegrity, RowSound, TombstoneSound, SensitiveRowSound, RecordSound
  <2>10. QED
    BY <1>1, <1>2, <2>2, <2>3, <2>8, <2>9 DEF RegistryInv, Timed
<1>7. PhaseInv'
  <2>1. \A b \in Attempts : Waits(job', b, owner'[b])
    BY <1>1, <1>4 DEF IInv, PhaseInv, Waits
  <2>2. QED
    BY <1>1, <2>1, ReadyPhase, WorkingMeansReady
<1>8. QED
  BY <1>1, <1>2, <1>4, <1>5, <1>6, <1>7, NotReconciling, EntriesKeep

\* A commit, done or not, known or not: its time is in the window of the attempt, so no
\* receipt for a capture that had expired is older.
LEMMA CommitKeeps ==
  ASSUME IInv, NEW a \in Attempts, NEW t \in Times, Commit(a, t)
  PROVE  IInv'
<1> DEFINE new == CommittedEntry(a, CaptureOf(a), t)
           p == owner'[a]
<1>1. /\ owner[a] = "captured" /\ UNCHANGED <<vault, meta, nextSequence, job, phase, recoveredAt>>
      /\ \/ registry' = registry
         \/ InWindow(a, t) /\ registry' = [registry EXCEPT ![a] = new]
      /\ \/ owner' = [owner EXCEPT ![a] = "held"] /\ registry' = [registry EXCEPT ![a] = new]
         \/ owner' = [owner EXCEPT ![a] = "uncommitted"] /\ registry' = registry
         \/ owner' = [owner EXCEPT ![a] = "over"]
  BY DEF Commit
<1>2. phase = "ready" /\ registry[a] # None /\ State(a) = "pending" /\ registry[a] \in Entry
  BY <1>1, WorkingMeansReady DEF IInv, AttemptsInv, OwnerSound, State, TypeOK
<1>3. PICK c \in Captures : Of(c, a)
  BY <1>1 DEF IInv, AttemptsInv
<1>4. CaptureOf(a) = c /\ \A d \in Captures : Of(d, a) => d = c
  BY <1>3, CaptureOfAttempt
<1>5. /\ meta[c] \in Metadata /\ CaptureSound(vault[c], meta[c], registry[a], "captured")
      /\ t \in Nat
  BY <1>1, <1>3, TimeAssumption DEF Of, IInv, CapturesInv, TypeOK, Times
<1>6. a \in Rows /\ RowSound(registry[a]) /\ Timed(registry[a])
  BY <1>2 DEF Rows, IInv, RegistryInv, VerifyIntegrity
<1>7. /\ new \in Entry /\ new # None /\ new.state = "committed" /\ new.capture = c
      /\ new.committedAt = t /\ new.begunAt = registry[a].begunAt
      /\ new.expiresAt = registry[a].expiresAt /\ new.sequence = registry[a].sequence
  <2>1. /\ new \in Entry /\ new.state = "committed" /\ new.capture = c
        /\ new.committedAt = t /\ new.begunAt = registry[a].begunAt
        /\ new.expiresAt = registry[a].expiresAt /\ new.sequence = registry[a].sequence
    BY <1>2, <1>4, <1>5 DEF CommittedEntry, Entry
  <2>2. QED
    BY <2>1, NoRecordAssumption
<1> HIDE DEF new
<1>8. /\ \A b \in Attempts \ {a} : registry'[b] = registry[b] /\ owner'[b] = owner[b]
      /\ registry' \in [Attempts -> Entry \cup {None}] /\ owner' \in [Attempts -> OwnerStates]
      /\ \/ registry'[a] = registry[a] /\ p \in {"uncommitted", "over"}
         \/ registry'[a] = new /\ InWindow(a, t) /\ p \in {"held", "over"}
  <2>1. registry \in [Attempts -> Entry \cup {None}] /\ owner \in [Attempts -> OwnerStates]
    BY DEF IInv, TypeOK, OwnerStates
  <2>2. InWindow(a, t) \/ registry' # [registry EXCEPT ![a] = new] \/ registry' = registry
    BY <1>1
  <2>3. registry # [registry EXCEPT ![a] = new]
    <3>1. registry[a].state # "committed"
      BY <1>2 DEF State
    <3>2. QED
      BY <1>7, <2>1, <3>1
  <2>4. QED
    BY <1>1, <1>7, <2>1, <2>2, <2>3 DEF OwnerStates
<1>9. EntriesMove
  <2>1. CASE registry'[a] = registry[a] /\ p \in {"uncommitted", "over"}
    <3>1. OwnerSound(registry[a], p)
      BY <1>2, <2>1 DEF OwnerSound, State
    <3>2. CaptureSound(vault[c], meta[c], registry[a], p)
      BY <1>5, <2>1 DEF CaptureSound, Counts, Allows
    <3>3. \A r : Allows(meta[c], registry[a], owner[a], r) => Allows(meta[c], registry[a], p, r)
      BY <2>1 DEF Allows
    <3>4. registry[a].state = "pending"
      BY <1>2 DEF State
    <3>5. Accepts(a, registry[a], p)
      BY <1>2, <1>3, <1>4, <2>1, <3>1, <3>2, <3>3, <3>4 DEF Accepts, OwnerStates
    <3>6. QED
      BY <1>8, <2>1, <3>5 DEF EntriesMove
  <2>2. CASE registry'[a] = new /\ InWindow(a, t) /\ p \in {"held", "over"}
    <3>1. meta[c].acquiredAt <= t /\ t <= registry[a].expiresAt
      BY <1>4, <2>2 DEF InWindow
    <3>2. registry[a].state = "pending" /\ registry[a].expiresAt \in Nat
      BY <1>2, <1>6 DEF State, Timed
    <3>3. meta[c].expiresAt = registry[a].expiresAt /\ registry[a].begunAt <= meta[c].acquiredAt
          /\ Kept(vault[c])
      BY <1>5, <3>2 DEF CaptureSound, Counts
    <3>4. \A r : r.at \in Nat /\ Allows(meta[c], registry[a], "captured", r) =>
                  Allows(meta[c], new, p, r)
      BY <1>5, <1>7, <2>2, <3>1, <3>2, <3>3 DEF Allows
    <3>5. ReceiptOf(vault[c]) # None => ReceiptOf(vault[c]).at \in Nat
      BY DEF IInv, TypeOK, Contents, Receipts, ReceiptOf
    <3>6. CaptureSound(vault[c], meta[c], new, p)
      <4>1. ReceiptOf(vault[c]) # None => Allows(meta[c], registry[a], "captured", ReceiptOf(vault[c]))
        BY <1>5 DEF CaptureSound
      <4>2. ReceiptOf(vault[c]) # None => Allows(meta[c], new, p, ReceiptOf(vault[c]))
        BY <3>4, <3>5, <4>1
      <4>3. QED
        BY <1>7, <2>2, <3>1, <3>3, <4>2 DEF CaptureSound
    <3>7. OwnerSound(new, p)
      BY <1>7, <2>2 DEF OwnerSound
    <3>8. \A r \in GoodReceipts :
            Allows(meta[c], registry[a], owner[a], r) => Allows(meta[c], new, p, r)
      BY <1>1, <3>4 DEF GoodReceipts, Receipts
    <3>9. Accepts(a, new, p)
      BY <1>3, <1>4, <1>7, <2>2, <3>6, <3>7, <3>8 DEF Accepts, OwnerStates
    <3>10. QED
      BY <1>8, <2>2, <3>9 DEF EntriesMove
  <2>3. QED
    BY <1>8, <2>1, <2>2
<1>10. RegistryInv'
  <2>1. CASE registry'[a] = registry[a]
    BY <1>1, <1>8, <2>1, RowsStaySound
  <2>2. CASE registry'[a] = new /\ InWindow(a, t)
    <3>1. meta[c].acquiredAt <= t /\ t <= registry[a].expiresAt
      BY <1>4, <2>2 DEF InWindow
    <3>2. registry[a].state = "pending"
      BY <1>2 DEF State
    <3>3. registry[a].begunAt <= t /\ registry[a].begunAt < registry[a].expiresAt
          /\ registry[a].sequence >= 1
      BY <1>5, <1>6, <3>1, <3>2
         DEF CaptureSound, RowSound, SensitiveRowSound, RecordSound, Timed, Metadata
    <3>4. c # None
      BY NoneAssumption
    <3>5. RowSound(new) /\ Timed(new)
      BY <1>5, <1>6, <1>7, <3>1, <3>2, <3>3, <3>4 DEF RowSound, SensitiveRowSound, RecordSound, Timed
    <3>6. QED
      BY <1>1, <1>6, <1>7, <1>8, <2>2, <3>5, RowsStaySound
  <2>3. QED
    BY <1>8, <2>1, <2>2
<1>11. PhaseInv'
  <2>1. \A b \in Attempts : Waits(job', b, owner'[b])
    BY <1>1, <1>8 DEF IInv, PhaseInv, Waits
  <2>2. QED
    BY <1>1, <1>2, <2>1, ReadyPhase, WorkingMeansReady
<1>12. nextSequence' \in Nat
  BY <1>1 DEF IInv, TypeOK
<1>13. QED
  BY <1>1, <1>2, <1>8, <1>9, <1>10, <1>11, <1>12, NotReconciling, EntriesKeep

\* An entry may be removed when its owner is done with it: a pending one at any time, a
\* committed one with the tombstone of its capture.
LEMMA RemovalAccepted ==
  ASSUME IInv, NEW a \in Rows, NEW r \in Receipts, NEW p \in {"idle", "over"},
         r.reason = "pending" <=> registry[a].capture = None,
         registry[a].capture # None =>
           "deleted" \in vault[registry[a].capture].files /\ vault[registry[a].capture].tombstone = r
  PROVE  Accepts(a, RemovedEntry(a, r), p)
<1> DEFINE e == RemovedEntry(a, r)
<1>1. /\ e \in Entry /\ e # None /\ e.state = "removed" /\ e.removal = r
      /\ e.capture = registry[a].capture
  BY RemovedProperties
<1> HIDE DEF e
<1>2. OwnerSound(e, p) /\ \A v, m : CaptureSound(v, m, e, p)
  BY <1>1 DEF OwnerSound, CaptureSound, Counts, Allows
<1>3. \A m, q : Allows(m, e, p, q)
  BY <1>1 DEF Allows
<1>4. Accepts(a, e, p)
  BY <1>1, <1>2, <1>3 DEF Accepts, OwnerStates
<1>5. QED
  BY <1>4 DEF e

\* The rows of pending and of committed attempts, and who still works on them.
LEMMA RowProperties ==
  ASSUME IInv, NEW a \in Attempts
  PROVE  /\ State(a) = "pending" => a \in Rows /\ registry[a].capture = None
         /\ State(a) = "committed" =>
              a \in Rows /\ registry[a].capture \in Captures /\ registry[a].capture # None
         /\ State(a) = "removed" => owner[a] \in {"idle", "over"}
<1>1. State(a) \in {"pending", "committed"} => a \in Rows /\ registry[a].state = State(a)
  BY DEF Rows, State
<1>2. State(a) = "pending" => registry[a].capture = None
  BY <1>1 DEF IInv, RegistryInv, VerifyIntegrity, RowSound, SensitiveRowSound
<1>3. State(a) = "committed" => registry[a].capture \in Captures /\ registry[a].capture # None
  BY NoneAssumption DEF IInv, AttemptsInv
<1>4. State(a) = "removed" => owner[a] \in {"idle", "over"}
  BY DEF IInv, AttemptsInv, OwnerSound, State, TypeOK
<1>5. QED
  BY <1>1, <1>2, <1>3, <1>4

\* The owner records a deletion.
LEMMA RecordDeletionKeeps ==
  ASSUME IInv, NEW a \in Attempts, RecordDeletion(a)
  PROVE  IInv'
<1> DEFINE c == registry[a].capture
           r == vault[c].tombstone
           new == RemovedEntry(a, r)
<1>1. /\ owner[a] = "deleted" /\ UNCHANGED <<vault, meta, nextSequence, job, phase, recoveredAt>>
      /\ owner' = [owner EXCEPT ![a] = "over"]
      /\ registry' = registry \/ registry' = [registry EXCEPT ![a] = new]
  BY DEF RecordDeletion
<1>2. phase = "ready" /\ State(a) = "committed" /\ registry[a] # None /\ registry[a] \in Entry
  BY <1>1, WorkingMeansReady DEF IInv, AttemptsInv, OwnerSound, State, TypeOK
<1>3. a \in Rows /\ c \in Captures /\ c # None
  BY <1>2, RowProperties
<1>4. "deleted" \in vault[c].files
  BY <1>1 DEF IInv, AttemptsInv
<1>5. r \in Receipts /\ r.reason # "pending"
  BY <1>3, <1>4 DEF IInv, CapturesInv, Sound, GoodReceipts
<1>6. Accepts(a, new, "over")
  BY <1>3, <1>4, <1>5, RemovalAccepted
<1>7. new \in Entry /\ new.sequence = registry[a].sequence /\ RowSound(new) /\ Timed(new)
  BY <1>3, <1>5, RemovedProperties
<1> HIDE DEF new
<1>8. /\ registry'[a] \in {registry[a], new} /\ owner'[a] = "over"
      /\ \A b \in Attempts \ {a} : registry'[b] = registry[b] /\ owner'[b] = owner[b]
      /\ registry' \in [Attempts -> Entry \cup {None}] /\ owner' \in [Attempts -> OwnerStates]
  BY <1>1, <1>7 DEF IInv, TypeOK, OwnerStates
<1>9. Accepts(a, registry[a], "over")
  <2>1. registry[a].state = "committed" /\ Of(c, a)
    BY <1>2 DEF State, IInv, AttemptsInv
  <2>2. \A d \in Captures : Of(d, a) => CaptureSound(vault[d], meta[d], registry[a], "over")
    BY <1>1, <2>1 DEF IInv, CapturesInv, Of, CaptureSound, Counts, Allows
  <2>3. \A m, q : Allows(m, registry[a], "deleted", q) => Allows(m, registry[a], "over", q)
    BY DEF Allows
  <2>4. OwnerSound(registry[a], "over")
    BY DEF OwnerSound
  <2>5. QED
    BY <1>1, <1>2, <1>3, <2>1, <2>2, <2>3, <2>4 DEF Accepts, OwnerStates
<1>10. EntriesMove
  BY <1>6, <1>8, <1>9 DEF EntriesMove
<1>11. RegistryInv'
  BY <1>1, <1>3, <1>7, <1>8, RowsStaySound
<1>12. PhaseInv'
  <2>1. \A b \in Attempts : Waits(job', b, owner'[b])
    BY <1>1, <1>8 DEF IInv, PhaseInv, Waits
  <2>2. QED
    BY <1>1, <1>2, <2>1, ReadyPhase, WorkingMeansReady
<1>13. nextSequence' \in Nat
  BY <1>1 DEF IInv, TypeOK
<1>14. QED
  BY <1>1, <1>2, <1>8, <1>10, <1>11, <1>12, <1>13, NotReconciling, EntriesKeep

\* An owner that has given up removes its pending entry, whatever the host is doing.
LEMMA RemovePendingKeeps ==
  ASSUME IInv, NEW a \in Attempts, NEW t \in Times, RemovePending(a, t)
  PROVE  IInv'
<1> DEFINE r == Receipt(t, "pending")
           new == RemovedEntry(a, r)
<1>1. /\ owner[a] = "over" /\ State(a) = "pending"
      /\ registry' = [registry EXCEPT ![a] = new]
      /\ UNCHANGED <<vault, meta, nextSequence, job, owner, phase, recoveredAt>>
  BY DEF RemovePending
<1>2. a \in Rows /\ registry[a].capture = None
  BY <1>1, RowProperties
<1>3. r \in Receipts /\ r.reason = "pending"
  BY TimeAssumption DEF Receipt, Receipts, Times
<1>4. /\ Accepts(a, new, "over")
      /\ new \in Entry /\ new.sequence = registry[a].sequence /\ RowSound(new) /\ Timed(new)
  BY <1>2, <1>3, RemovalAccepted, RemovedProperties
<1> HIDE DEF new
<1>5. /\ registry'[a] = new /\ \A b \in Attempts \ {a} : registry'[b] = registry[b]
      /\ registry' \in [Attempts -> Entry \cup {None}]
  BY <1>1, <1>4 DEF IInv, TypeOK
<1>6. new.state = "removed"
  BY DEF new, RemovedEntry
<1>7. RegistryInv'
  BY <1>1, <1>2, <1>4, <1>5, RowsStaySound
<1>8. EntriesMove
  BY <1>1, <1>4, <1>5 DEF EntriesMove
<1>9. /\ CommittedCaptures' = CommittedCaptures
      /\ \A b \in Attempts : State(b)' = "pending" => State(b) = "pending"
  <2>1. \A b \in Attempts : b # a => State(b)' = State(b) /\ registry'[b] = registry[b]
    BY <1>5 DEF State
  <2>2. State(a)' # "committed" /\ State(a)' # "pending"
    BY <1>5, <1>6 DEF State
  <2>3. Committed' = Committed
    BY <1>1, <2>1, <2>2 DEF Committed
  <2>4. \A b \in Committed : registry'[b].capture = registry[b].capture
    BY <1>1, <2>1 DEF Committed
  <2>5. QED
    BY <2>1, <2>2, <2>3, <2>4 DEF CommittedCaptures
<1>10. PhaseInv'
  BY <1>1, <1>9 DEF IInv, PhaseInv
<1>11. /\ phase' \in {"closed", "boot", "vault", "pending", "repair", "reconcile", "ready"}
       /\ nextSequence' \in Nat /\ owner' \in [Attempts -> OwnerStates]
  BY <1>1 DEF IInv, TypeOK, OwnerStates
<1>12. QED
  BY <1>1, <1>5, <1>7, <1>8, <1>9, <1>10, <1>11, EntriesKeep

\* Old removed rows are purged.
LEMMA PurgeRemovedKeeps ==
  ASSUME IInv, NEW t \in Times, PurgeRemoved(t)
  PROVE  IInv'
<1>1. PICK S \in SUBSET {a \in Attempts : State(a) = "removed"} :
        registry' = [a \in Attempts |-> IF a \in S THEN PurgedEntry ELSE registry[a]]
  BY DEF PurgeRemoved
<1>2. phase = "ready" /\ UNCHANGED <<vault, meta, nextSequence, job, owner, phase, recoveredAt>>
  BY DEF PurgeRemoved, Ready
<1>3. PurgedEntry \in Entry /\ PurgedEntry # None /\ PurgedEntry.state = "purged"
  <2>1. PurgedEntry \in Entry /\ PurgedEntry.state = "purged"
    BY DEF PurgedEntry, Entry
  <2>2. QED
    BY <2>1, NoRecordAssumption
<1>4. \A m, p, q : p \in {"idle", "over"} => Allows(m, PurgedEntry, p, q)
  BY <1>3 DEF Allows
<1>5. ASSUME NEW a \in S
      PROVE  Accepts(a, PurgedEntry, owner[a])
  <2>1. a \in Attempts /\ owner[a] \in {"idle", "over"}
    BY RowProperties
  <2>2. OwnerSound(PurgedEntry, owner[a]) /\ \A v, m : CaptureSound(v, m, PurgedEntry, owner[a])
    BY <1>3, <1>4, <2>1 DEF OwnerSound, CaptureSound, Counts
  <2>3. QED
    BY <1>3, <1>4, <2>1, <2>2 DEF Accepts, OwnerStates
<1>6. EntriesMove
  BY <1>1, <1>2, <1>5 DEF EntriesMove
<1>7. RegistryInv'
  BY <1>1, <1>2, RowsStaySound
<1>8. registry' \in [Attempts -> Entry \cup {None}]
  BY <1>1, <1>3 DEF IInv, TypeOK
<1>9. PhaseInv'
  <2>1. \A b \in Attempts : Waits(job', b, owner'[b])
    BY <1>2 DEF IInv, PhaseInv, Waits
  <2>2. QED
    BY <1>2, <2>1, ReadyPhase, WorkingMeansReady
<1>10. nextSequence' \in Nat /\ owner' \in [Attempts -> OwnerStates]
  BY <1>2 DEF IInv, TypeOK, OwnerStates
<1>11. QED
  BY <1>2, <1>6, <1>7, <1>8, <1>9, <1>10, NotReconciling, EntriesKeep

\* Phases in which the recovery works on the registry.
LEMMA RegistryPhases ==
  ASSUME IInv, phase \in {"pending", "repair"}, UNCHANGED <<vault, job, owner>>,
         phase' \in {"boot", "pending", "repair"},
         phase' = "repair" => \A a \in Attempts : State(a)' # "pending"
  PROVE  PhaseInv'
<1>1. /\ \A a \in Attempts : owner[a] \in {"idle", "over"} /\ Waits(job, a, owner[a])
      /\ job = NoJob
      /\ \A c \in Captures : vault[c].temporaries = {} /\ (Rests(vault[c]) \/ job.todo # <<>>)
  BY QueueByPhase DEF IInv, PhaseInv
<1>2. job.kind = "none" /\ job.todo = <<>>
  BY <1>1 DEF NoJob
<1>3. QED
  BY <1>1, <1>2 DEF PhaseInv

\* The recovery removes pending entries, a batch at a time.
LEMMA RecoverPendingKeeps ==
  ASSUME IInv, RecoverPending
  PROVE  IInv'
<1> DEFINE pending == {a \in Attempts : State(a) = "pending"}
           new(a) == RemovedEntry(a, Receipt(recoveredAt, "pending"))
<1>1. phase = "pending" /\ UNCHANGED <<vault, meta, nextSequence, job, owner, recoveredAt>>
  BY DEF RecoverPending
<1>2. PICK S \in SUBSET pending :
        /\ registry' = [a \in Attempts |-> IF a \in S THEN new(a) ELSE registry[a]]
        /\ phase' \in {"boot", "pending", "repair"} /\ (phase' = "repair" => S = pending)
  <2>1. CASE phase' = "boot" /\ UNCHANGED registry
    <3>1. registry = [a \in Attempts |-> IF a \in {} THEN new(a) ELSE registry[a]]
      BY DEF IInv, TypeOK
    <3> DEFINE none == {}
    <3>2. /\ none \in SUBSET pending
          /\ registry' = [a \in Attempts |-> IF a \in none THEN new(a) ELSE registry[a]]
          /\ phase' \in {"boot", "pending", "repair"} /\ (phase' = "repair" => none = pending)
      BY <2>1, <3>1
    <3> HIDE DEF none, new
    <3>3. QED
      BY <3>2
  <2>2. ASSUME NEW S \in SUBSET pending,
               registry' = [a \in Attempts |-> IF a \in S THEN new(a) ELSE registry[a]],
               phase' = IF S = pending THEN "repair" ELSE phase
        PROVE  phase' \in {"boot", "pending", "repair"} /\ (phase' = "repair" => S = pending)
    BY <1>1, <2>2
  <2>3. \/ phase' = "boot" /\ UNCHANGED registry
        \/ \E S \in SUBSET pending :
             /\ registry' = [a \in Attempts |-> IF a \in S THEN new(a) ELSE registry[a]]
             /\ phase' = IF S = pending THEN "repair" ELSE phase
    BY DEF RecoverPending
  <2>4. QED
    BY <2>1, <2>2, <2>3
<1>3. Receipt(recoveredAt, "pending") \in Receipts /\ Receipt(recoveredAt, "pending").reason = "pending"
  BY DEF Receipt, Receipts, IInv, TypeOK
<1>4. ASSUME NEW a \in S
      PROVE  /\ a \in Rows /\ owner[a] \in {"idle", "over"}
             /\ new(a) \in Entry /\ new(a) # None /\ new(a).state = "removed"
             /\ new(a).sequence = registry[a].sequence /\ RowSound(new(a)) /\ Timed(new(a))
             /\ Accepts(a, new(a), owner[a])
  <2>1. a \in Attempts /\ a \in Rows /\ registry[a].capture = None /\ owner[a] \in {"idle", "over"}
    BY <1>1, RowProperties DEF IInv, PhaseInv
  <2>2. QED
    BY <1>3, <2>1, RemovedProperties, RemovalAccepted
<1> HIDE DEF new
<1>5. EntriesMove
  BY <1>1, <1>2, <1>4 DEF EntriesMove
<1>6. RegistryInv'
  BY <1>1, <1>2, <1>4, RowsStaySound
<1>7. registry' \in [Attempts -> Entry \cup {None}]
  BY <1>2, <1>4 DEF IInv, TypeOK
<1>8. PhaseInv'
  <2>1. phase' = "repair" => \A a \in Attempts : State(a)' # "pending"
    BY <1>2, <1>4 DEF State
  <2>2. QED
    BY <1>1, <1>2, <2>1, RegistryPhases
<1>9. nextSequence' \in Nat /\ owner' \in [Attempts -> OwnerStates]
  BY <1>1 DEF IInv, TypeOK, OwnerStates
<1>10. QED
  BY <1>1, <1>2, <1>5, <1>6, <1>7, <1>8, <1>9, NotReconciling, EntriesKeep

\* A committed capture that can no longer be read has a tombstone the registry accepts:
\* the repair never gives up.
LEMMA UnreadableIsDeleted ==
  ASSUME IInv, phase = "repair", NEW a \in Committed, ~Readable(vault[registry[a].capture])
  PROVE  LET v == vault[registry[a].capture]
         IN  /\ "deleted" \in v.files /\ v.tombstone \in GoodReceipts /\ v.tombstone # None
             /\ Acceptable(a, v.tombstone)
<1> DEFINE c == registry[a].capture
           v == vault[c]
<1>1. a \in Attempts /\ State(a) = "committed" /\ registry[a].state = "committed"
  BY DEF Committed, State
<1>2. c \in Captures /\ Of(c, a)
  BY <1>1 DEF IInv, AttemptsInv
<1>3. Sound(v) /\ CaptureSound(v, meta[c], registry[a], owner[a])
  BY <1>2 DEF IInv, CapturesInv, Of
<1>4. Kept(v)
  BY <1>1, <1>3 DEF CaptureSound, Counts
<1>5. Rests(v)
  <2>1. job.todo = <<>>
    BY QueueByPhase DEF NoJob
  <2>2. QED
    BY <1>2, <2>1 DEF IInv, PhaseInv
<1>6. v.files = {"deleted"}
  BY <1>4, <1>5 DEF Kept, Rests, Readable
<1>7. v.tombstone \in GoodReceipts /\ v.tombstone # None
  BY <1>3, <1>6 DEF Sound
<1>8. Acceptable(a, v.tombstone)
  BY <1>1, <1>3, <1>7 DEF CaptureSound, Allows, ReceiptOf, Acceptable
<1>9. QED
  BY <1>6, <1>7, <1>8

\* The recovery records a deletion that the registry missed.
LEMMA RepairKeeps ==
  ASSUME IInv, NEW a \in Attempts, Repair(a)
  PROVE  IInv'
<1> DEFINE c == registry[a].capture
           r == vault[c].tombstone
           new == RemovedEntry(a, r)
<1>1. /\ phase = "repair" /\ a \in Committed /\ ~Readable(vault[c])
      /\ UNCHANGED <<vault, meta, nextSequence, job, owner, recoveredAt>>
  BY DEF Repair
<1>2. "deleted" \in vault[c].files /\ r \in GoodReceipts /\ r # None /\ Acceptable(a, r)
  BY <1>1, UnreadableIsDeleted
<1>3. registry' = [registry EXCEPT ![a] = new] /\ phase' = phase
  BY <1>1, <1>2 DEF Repair
<1>4. State(a) = "committed" /\ owner[a] \in {"idle", "over"}
  BY <1>1 DEF Committed, IInv, PhaseInv
<1>5. a \in Rows /\ c \in Captures /\ c # None
  BY <1>4, RowProperties
<1>6. r \in Receipts /\ r.reason # "pending"
  BY <1>2 DEF GoodReceipts
<1>7. Accepts(a, new, owner[a])
  BY <1>2, <1>4, <1>5, <1>6, RemovalAccepted
<1>8. /\ new \in Entry /\ new.state = "removed" /\ new.sequence = registry[a].sequence
      /\ RowSound(new) /\ Timed(new)
  BY <1>5, <1>6, RemovedProperties
<1> HIDE DEF new
<1>9. /\ registry'[a] = new /\ \A b \in Attempts \ {a} : registry'[b] = registry[b]
      /\ registry' \in [Attempts -> Entry \cup {None}]
  BY <1>3, <1>8 DEF IInv, TypeOK
<1>10. EntriesMove
  BY <1>1, <1>7, <1>9 DEF EntriesMove
<1>11. RegistryInv'
  BY <1>1, <1>5, <1>8, <1>9, RowsStaySound
<1>12. PhaseInv'
  <2>1. \A b \in Attempts : State(b)' # "pending"
    BY <1>1, <1>8, <1>9 DEF State, IInv, PhaseInv
  <2>2. QED
    BY <1>1, <1>3, <2>1, RegistryPhases
<1>13. nextSequence' \in Nat /\ owner' \in [Attempts -> OwnerStates]
  BY <1>1 DEF IInv, TypeOK, OwnerStates
<1>14. QED
  BY <1>1, <1>3, <1>9, <1>10, <1>11, <1>12, <1>13, NotReconciling, EntriesKeep

-----------------------------------------------------------------------------
(* The specification. *)

\* It holds at first.
LEMMA InitSound ==
  ASSUME Init
  PROVE  IInv
<1>1. /\ vault = [c \in Captures |-> Empty] /\ meta = [c \in Captures |-> None]
      /\ registry = [a \in Attempts |-> None] /\ nextSequence = 1 /\ job = NoJob
      /\ owner = [a \in Attempts |-> "idle"] /\ phase = "closed" /\ recoveredAt = 0
  BY DEF Init
<1>2. Empty \in Contents /\ Sound(Empty)
  BY DEF Empty, Contents, Sound, Shapes
<1>3. TypeOK
  BY <1>1, <1>2, NoJobIsJob DEF TypeOK, Empty
<1>4. RegistryInv
  <2>1. Rows = {}
    BY <1>1 DEF Rows, State
  <2>2. IsFiniteSet(Rows) /\ Cardinality(Rows) = 0
    BY <2>1, FS_EmptySet
  <2>3. QED
    BY <1>1, <2>1, <2>2, RecordsAssumption DEF RegistryInv, VerifyIntegrity
<1>5. CapturesInv
  BY <1>1, <1>2 DEF CapturesInv, Of
<1>6. AttemptsInv
  BY <1>1 DEF AttemptsInv, OwnerSound, State
<1>7. JobSound(job)
  BY <1>1, NoJobSound
<1>8. PhaseInv
  BY <1>1 DEF PhaseInv, Waits, NoJob
<1>9. QED
  BY <1>1, <1>3, <1>4, <1>5, <1>6, <1>7, <1>8 DEF IInv

\* And while nothing happens.
LEMMA StutterKeeps ==
  ASSUME IInv, UNCHANGED vars
  PROVE  IInv'
<1>1. /\ UNCHANGED <<durable, owner>> /\ job' = job /\ phase' = phase
      /\ recoveredAt' = recoveredAt /\ owner' = owner
  BY DEF vars, durable
<1>2. /\ vault' = vault /\ meta' = meta /\ registry' = registry
      /\ CommittedCaptures' = CommittedCaptures
      /\ \A a \in Attempts : State(a)' = State(a)
  BY <1>1, Quiet
<1>3. \A c \in Captures : Same(vault[c], vault'[c]) /\ vault'[c] \in Contents
  BY <1>2 DEF Same, IInv, TypeOK
<1>4. JobSound(job)'
  BY <1>1, <1>2, <1>3, JobStays
<1>5. PhaseInv'
  BY <1>1, <1>2 DEF IInv, PhaseInv
<1>6. QED
  BY <1>1, <1>4, <1>5, QuietKeeps DEF IInv, TypeOK

\* Every step keeps the invariant.
LEMMA NextKeeps ==
  ASSUME IInv, Next
  PROVE  IInv'
<1>1. CASE Recovery
  <2>1. CASE \E c \in Captures : \E k \in Artifacts \cup {"loose"} : RemoveTemporary(c, k)
    BY <2>1, RemoveTemporaryKeeps
  <2>2. CASE \E c \in Captures : RecoverNext(c) \/ ReconcileNext(c)
    BY <2>2, RecoverNextKeeps, ReconcileNextKeeps
  <2>3. CASE Open \/ JobStep \/ JobRefused
    BY <2>3, OpenKeeps, JobStepKeeps, JobFailsKeeps
  <2>4. CASE RecoverDone \/ RecoverPending \/ VerifyCommitted \/ Reconcile \/ ReconcileDone
    BY <2>4, RecoverDoneKeeps, RecoverPendingKeeps, VerifyCommittedKeeps, ReconcileKeeps,
       ReconcileDoneKeeps
  <2>5. CASE \E a \in Attempts : Repair(a)
    BY <2>5, RepairKeeps
  <2>6. QED
    BY <1>1, <2>1, <2>2, <2>3, <2>4, <2>5 DEF Recovery
<1>2. CASE IoError
  BY <1>2, JobFailsKeeps, TemporaryStaysKeeps DEF IoError
<1>3. CASE \E t \in Times : StartRecovery(t) \/ StartSweep(t) \/ PurgeRemoved(t)
  BY <1>3, StartRecoveryKeeps, StartSweepKeeps, PurgeRemovedKeeps
<1>4. CASE (\E c \in Captures : SweepNext(c)) \/ SweepDone
  BY <1>4, SweepNextKeeps, SweepDoneKeeps
<1>5. ASSUME NEW a \in Attempts,
             JobDone(a) \/ CollectionFails(a) \/ Shred(a) \/ Resume(a) \/ RecordDeletion(a)
      PROVE  IInv'
  BY <1>5, JobDoneKeeps, CollectionFailsKeeps, ShredKeeps, ResumeKeeps, RecordDeletionKeeps
<1>6. ASSUME NEW a \in Attempts, NEW t \in Times,
             Commit(a, t) \/ StartDelete(a, t) \/ RemovePending(a, t)
      PROVE  IInv'
  BY <1>6, CommitKeeps, StartDeleteKeeps, RemovePendingKeeps
<1>7. ASSUME NEW a \in Attempts, NEW t \in Times,
             (\E e \in Times : Begin(a, t, e)) \/ (\E c \in Captures : StartCapture(a, c, t))
      PROVE  IInv'
  BY <1>7, BeginKeeps, StartCaptureKeeps
<1>8. CASE Crash
  BY <1>8, CrashKeeps
<1>9. QED
  BY <1>1, <1>2, <1>3, <1>4, <1>5, <1>6, <1>7, <1>8 DEF Next

\* The invariant holds what the run checks.
LEMMA SoundMeansIntegrity ==
  ASSUME IInv
  PROVE  CaptureIntegrity
<1>1. NeverCorrupt /\ TypeOK /\ VerifyIntegrity
  BY DEF IInv, NeverCorrupt, RegistryInv
<1>2. CommittedAreHeld
  <2> SUFFICES ASSUME NEW a \in Committed
               PROVE  LET v == vault[registry[a].capture]
                      IN  Readable(v) \/ (ReceiptOf(v) # None /\ Acceptable(a, ReceiptOf(v)))
    BY DEF CommittedAreHeld
  <2> DEFINE c == registry[a].capture
             v == vault[c]
  <2>1. a \in Attempts /\ State(a) = "committed" /\ registry[a].state = "committed"
    BY DEF Committed, State
  <2>2. c \in Captures /\ Of(c, a)
    BY <2>1 DEF IInv, AttemptsInv
  <2>3. Sound(v) /\ CaptureSound(v, meta[c], registry[a], owner[a])
    BY <2>2 DEF IInv, CapturesInv, Of
  <2>4. Readable(v) \/ ReceiptOf(v) # None
    BY <2>1, <2>3 DEF CaptureSound, Counts, Kept, Readable, Sound, ReceiptOf
  <2>5. ReceiptOf(v) # None => Acceptable(a, ReceiptOf(v))
    BY <2>1, <2>3 DEF CaptureSound, Allows, Acceptable
  <2>6. QED
    BY <2>4, <2>5
<1>3. RemovalsAreTrue
  <2> SUFFICES ASSUME NEW a \in Attempts, State(a) = "removed", registry[a].capture # None
               PROVE  LET v == vault[registry[a].capture]
                      IN  ~Active(v) /\ v.tombstone = registry[a].removal
    BY DEF RemovalsAreTrue
  <2>1. registry[a].capture \in Captures
    BY DEF IInv, TypeOK, State, Entry
  <2>2. LET v == vault[registry[a].capture]
        IN  Sound(v) /\ "deleted" \in v.files /\ v.tombstone = registry[a].removal
    BY <2>1 DEF IInv, CapturesInv, AttemptsInv
  <2>3. QED
    BY <2>2 DEF Sound, Shapes, Active
<1>4. QED
  BY <1>1, <1>2, <1>3 DEF CaptureIntegrity, EntriesAreAccountedFor

\* So it always holds.
LEMMA AlwaysSound == Spec => []IInv
<1>1. Init => IInv
  BY InitSound
<1>2. IInv /\ [Next]_vars => IInv'
  BY NextKeeps, StutterKeeps
<1>3. QED
  BY <1>1, <1>2, PTL DEF Spec

\* Wherever a crash or an I/O error hits an operation on the vault or a transaction of the
\* registry, the two stay a pair that recoverCaptureStorage accepts: a committed capture
\* can be read or has a receipt of its deletion that the registry will accept, and what
\* the registry calls deleted is gone for good.
THEOREM CaptureStaysSound == Spec => []CaptureIntegrity
BY AlwaysSound, SoundMeansIntegrity, PTL

-----------------------------------------------------------------------------
(* What the steps do to deletions on record, and when a host gets ready. *)

\* Only the vault's own steps change artifacts, and only the reconciliation of vault and
\* registry makes a host ready.
VaultAlone == vault' = vault
StillWaiting == phase' = "ready" => phase = "ready"

\* So the steps divide.
LEMMA QuietSteps ==
  ASSUME Next
  PROVE  /\ VaultAlone \/ JobStep \/ JobStepFails \/ JobRefused \/ Crash
            \/ \E c \in Captures : \E k \in Artifacts \cup {"loose"} : RemoveTemporary(c, k)
         /\ StillWaiting \/ Reconcile
<1> USE DEF VaultAlone, StillWaiting, durable
<1>1. CASE Recovery
  <2>1. JobStep \/ JobRefused => StillWaiting
    BY DEF JobStep, JobRefused, JobAborts
  <2>2. Open \/ RecoverDone \/ VerifyCommitted \/ ReconcileDone => VaultAlone /\ StillWaiting
    BY DEF Open, RecoverDone, VerifyCommitted, ReconcileDone
  <2>3. Reconcile => VaultAlone
    BY DEF Reconcile
  <2>4. ASSUME NEW c \in Captures
        PROVE  /\ RecoverNext(c) \/ ReconcileNext(c) => VaultAlone /\ StillWaiting
               /\ \A k : RemoveTemporary(c, k) => StillWaiting
    BY DEF RecoverNext, ReconcileNext, RemoveTemporary
  <2>5. RecoverPending => VaultAlone /\ StillWaiting
    BY DEF RecoverPending
  <2>6. \A a \in Attempts : Repair(a) => VaultAlone /\ StillWaiting
    BY DEF Repair
  <2>7. QED
    BY <1>1, <2>1, <2>2, <2>3, <2>4, <2>5, <2>6 DEF Recovery
<1>2. CASE IoError
  <2>1. JobStepFails => StillWaiting
    BY DEF JobStepFails, JobAborts
  <2>2. \A c \in Captures : TemporaryStays(c) => VaultAlone /\ StillWaiting
    BY DEF TemporaryStays
  <2>3. QED
    BY <1>2, <2>1, <2>2 DEF IoError
<1>3. ASSUME NEW t \in Times
      PROVE  StartRecovery(t) \/ StartSweep(t) \/ PurgeRemoved(t) => VaultAlone /\ StillWaiting
  BY DEF StartRecovery, StartSweep, PurgeRemoved
<1>4. /\ SweepDone => VaultAlone /\ StillWaiting
      /\ \A c \in Captures : SweepNext(c) => VaultAlone /\ StillWaiting
  BY DEF SweepNext, SweepDone
<1>5. ASSUME NEW a \in Attempts
      PROVE  JobDone(a) \/ CollectionFails(a) \/ Shred(a) \/ Resume(a) \/ RecordDeletion(a) =>
               VaultAlone /\ StillWaiting
  BY DEF JobDone, CollectionFails, Shred, Resume, RecordDeletion
<1>6. ASSUME NEW a \in Attempts, NEW t \in Times
      PROVE  /\ Commit(a, t) \/ StartDelete(a, t) \/ RemovePending(a, t) => VaultAlone /\ StillWaiting
             /\ \A e \in Times : Begin(a, t, e) => VaultAlone /\ StillWaiting
             /\ \A c \in Captures : StartCapture(a, c, t) => VaultAlone /\ StillWaiting
  BY DEF Commit, StartDelete, RemovePending, Begin, StartCapture
<1>7. Crash => StillWaiting
  BY DEF Crash
<1>8. QED
  BY <1>1, <1>2, <1>3, <1>4, <1>5, <1>6, <1>7 DEF Next

\* A capture whose artifacts change moves on.
LEMMA VaultMoves ==
  ASSUME IInv, [Next]_vars, NEW c \in Captures
  PROVE  Keeps(vault[c], vault'[c])
<1>1. CASE vault'[c] = vault[c]
  BY <1>1 DEF Keeps
<1>2. ASSUME job.todo # <<>>, NEW w, Moves(job.capture, w), vault' = [vault EXCEPT ![job.capture] = w]
      PROVE  vault'[c] = vault[c] \/ Keeps(vault[c], vault'[c])
  BY <1>2 DEF Moves, IInv, TypeOK
<1>3. CASE JobStep
  BY <1>1, <1>2, <1>3, JobMoves DEF JobStep
<1>4. CASE JobStepFails \/ JobRefused
  <2>1. CASE JobStepFails
    <3>1. PICK w \in Cut(vault[job.capture], Head(job.todo), job.receipt) : JobAborts(w)
      BY <2>1 DEF JobStepFails
    <3>2. job.todo # <<>> /\ vault' = [vault EXCEPT ![job.capture] = w]
      BY <2>1, <3>1 DEF JobStepFails, JobAborts
    <3>3. Moves(job.capture, w)
      BY <3>2, JobMoves
    <3>4. QED
      BY <1>1, <1>2, <3>2, <3>3
  <2>2. CASE JobRefused
    BY <1>1, <2>2 DEF JobRefused, JobAborts, IInv, TypeOK
  <2>3. QED
    BY <1>4, <2>1, <2>2
<1>5. CASE Crash
  <2>1. CASE job.todo = <<>>
    BY <1>1, <1>5, <2>1 DEF Crash
  <2>2. CASE job.todo # <<>>
    <3>1. PICK w \in Cut(vault[job.capture], Head(job.todo), job.receipt) :
            vault' = [vault EXCEPT ![job.capture] = w]
      BY <1>5, <2>2 DEF Crash
    <3>2. Moves(job.capture, w)
      BY <2>2, JobMoves
    <3>3. QED
      BY <1>1, <1>2, <2>2, <3>1, <3>2
  <2>3. QED
    BY <2>1, <2>2
<1>6. CASE \E d \in Captures : \E k \in Artifacts \cup {"loose"} : RemoveTemporary(d, k)
  <2>1. PICK d \in Captures, k \in Artifacts \cup {"loose"} :
          vault' = [vault EXCEPT ![d].temporaries = @ \ {k}]
    BY <1>6 DEF RemoveTemporary
  <2>2. vault[c] \in Contents /\ vault \in [Captures -> Contents]
    BY DEF IInv, TypeOK
  <2>3. /\ vault'[c].files = vault[c].files /\ vault'[c].intent = vault[c].intent
        /\ vault'[c].tombstone = vault[c].tombstone
    BY <2>1, <2>2 DEF Contents
  <2>4. QED
    BY <2>3 DEF Keeps, Kept, ReceiptOf, Active
<1>7. CASE UNCHANGED vars
  BY <1>1, <1>7 DEF vars
<1>8. QED
  BY <1>1, <1>3, <1>4, <1>5, <1>6, <1>7, QuietSteps DEF VaultAlone

\* A host that gets ready has nothing left to reconcile.
LEMMA ReadyIsReconciled ==
  ASSUME IInv, Reconcile, phase' = "ready"
  PROVE  /\ {c \in Captures : Active(vault[c])} = CommittedCaptures
         /\ \A c \in CommittedCaptures : Readable(vault[c])
         /\ \A c \in Captures \ CommittedCaptures : vault[c].files \subseteq {"deleted"}
         /\ \A c \in Captures : vault[c].temporaries = {}
         /\ \A a \in Attempts : State(a) # "pending"
<1>1. phase = "reconcile" /\ job.todo = <<>> /\ Orphans = {}
  BY DEF Reconcile, VaultFree, NoJob
<1>2. /\ \A c \in CommittedCaptures : Readable(vault[c])
      /\ \A c \in Captures : vault[c].temporaries = {} /\ Rests(vault[c])
      /\ \A a \in Attempts : State(a) # "pending"
  BY <1>1 DEF IInv, PhaseInv
<1>3. CommittedCaptures \subseteq Captures
  BY DEF CommittedCaptures, Committed, IInv, AttemptsInv
<1>4. \A c \in Captures : Active(vault[c]) => c \in CommittedCaptures
  BY <1>1 DEF Orphans
<1>5. {c \in Captures : Active(vault[c])} = CommittedCaptures
  BY <1>2, <1>3, <1>4 DEF Readable, Active
<1>6. \A c \in Captures \ CommittedCaptures : vault[c].files \subseteq {"deleted"}
  BY <1>2, <1>4 DEF Rests, Active
<1>7. QED
  BY <1>2, <1>5, <1>6

\* A recovery that ends has brought vault and registry in step, and no step ever rewrites
\* the receipt of a deletion or revives the key of what is being deleted.
THEOREM RecoveryAlwaysReconciles == Spec => RecoveryReconciles
<1>1. IInv /\ [Next]_vars =>
        [\A c \in Captures :
           ReceiptOf(vault[c]) # None =>
             /\ ReceiptOf(vault'[c]) = ReceiptOf(vault[c])
             /\ Active(vault'[c]) => Active(vault[c])]_vars
  BY VaultMoves DEF Keeps
<1>2. IInv /\ [Next]_vars =>
        [phase # "ready" /\ phase' = "ready" =>
           /\ {c \in Captures : Active(vault[c])} = CommittedCaptures
           /\ \A c \in CommittedCaptures : Readable(vault[c])
           /\ \A c \in Captures \ CommittedCaptures : vault[c].files \subseteq {"deleted"}
           /\ \A c \in Captures : vault[c].temporaries = {}
           /\ \A a \in Attempts : State(a) # "pending"]_vars
  BY QuietSteps, ReadyIsReconciled DEF StillWaiting
<1>3. QED
  BY AlwaysSound, <1>1, <1>2, PTL
     DEF Spec, RecoveryReconciles, ReadyMeansReconciled, ReceiptsAreFinal

=============================================================================
