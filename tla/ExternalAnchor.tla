--------------------------- MODULE ExternalAnchor ---------------------------
(***************************************************************************)
(* External checkpoint anchors: an outbox with one row per journal         *)
(* sequence, publishers that claim a row, send a create-only request to an *)
(* object store and record what it answered, and the store itself.  A      *)
(* publisher may die while its request is under way, another host may take *)
(* the row back meanwhile, and every clock is free to run backwards.       *)
(*                                                                         *)
(* The verifier is the other half: one listing of the object store, one    *)
(* read per listed object with an await in between, and the judgement of   *)
(* what was read against a head that was pinned somewhere else.  It does   *)
(* not trust the provider, which lists any objects that were ever signed,  *)
(* one to a key, and of which a listed object may be gone, or another,     *)
(* when it is read.                                                        *)
(***************************************************************************)
EXTENDS Naturals, FiniteSets

CONSTANTS
  Checkpoints,   \* signed checkpoints: [id, sequence, previous, head, at]
  Publishers,    \* processes that call publishNext
  MaxTick,       \* bound: the clocks of the outbox and of the object store
  MaxDeaths,     \* bound: publishers that die
  Signed,        \* the checkpoints the verifier may meet
  Pinnable,      \* those that may be pinned
  LastTime,      \* bound: the provider's and the verifier's clocks
  Absent         \* no row, no object, not yet, no pin

Modes == {"governance", "compliance"}
Dispositions == {"created", "already_exists"}
Rows == [checkpoint : Checkpoints, mode : Modes, state : {"pending", "in_flight", "failed", "published"},
         count : Nat, active : Nat \cup {Absent}, queuedAt : Nat, updatedAt : Nat,
         storedAt : Nat \cup {Absent}, until : Nat \cup {Absent},
         disposition : Dispositions \cup {Absent}]
Objects == [mode : Modes, storedAt : Nat, until : Nat, by : Nat]
Outcomes == [storedAt : Nat \cup {Absent}, until : Nat \cup {Absent},
             disposition : Dispositions \cup {"conflict"}]

ASSUME TickAssumption == MaxTick \in Nat
ASSUME AbsentAssumption ==
  Absent \notin Checkpoints \cup Nat \cup Rows \cup Objects \cup Outcomes \cup Dispositions

VARIABLES
  outbox,        \* journal sequence |-> its row
  publisher,     \* publisher |-> its publishNext
  wire,          \* requests that outlived their publisher
  objects,       \* the object store: checkpoint |-> what is stored of it
  crashes,       \* so far
  pinned,        \* the head that was pinned, or Absent
  minimum,       \* minimumHeadRetentionMode
  verifiedAt,    \* the caller's time
  asked,         \* "idle", "reading" or "reported"
  listed,        \* listed and not yet read: [checkpoint, mode, storedAt, short]
  unsound,       \* some object that was listed could not be read or is no good by itself
  read,          \* the others
  valid          \* the report

outboxVars == <<outbox, publisher, wire, objects, crashes>>

Ticks == 0..MaxTick
Sequences == {c.sequence : c \in Checkpoints}
MaxAttempts == 2                   \* EXTERNAL_ANCHOR_MAX_ATTEMPTS

\* How long a mode keeps an object, in the model's days.
Days(mode) == IF mode = "compliance" THEN 2 ELSE 1

Resting == [phase |-> "idle", checkpoint |-> Absent, mode |-> Absent, attempt |-> 0, answer |-> Absent]

-----------------------------------------------------------------------------
(* Rows. *)

RowFor(c, mode, t) ==
  [checkpoint |-> c, mode |-> mode, state |-> "pending", count |-> 0, active |-> Absent,
   queuedAt |-> t, updatedAt |-> t, storedAt |-> Absent, until |-> Absent, disposition |-> Absent]

\* assertRetentionResult.
KeptLongEnough(mode, storedAt, until) == until >= storedAt + Days(mode)

\* assertRow, which every transaction asks of every row before it begins.
RowReadable(r) ==
  /\ r.updatedAt >= r.queuedAt
  /\ r.count <= MaxAttempts
  /\ \/ r.state = "pending" /\ r.active = Absent /\ r.count < MaxAttempts
     \/ r.state = "in_flight" /\ r.active = r.count /\ r.count >= 1
     \/ r.state \in {"failed", "published"} /\ r.active = Absent /\ r.count >= 1
  /\ (r.state = "published") = (r.storedAt # Absent)
  /\ (r.storedAt # Absent) = (r.disposition # Absent)
  /\ r.state = "published" => /\ r.updatedAt >= r.storedAt
                              /\ KeptLongEnough(r.mode, r.storedAt, r.until)

\* verifyIntegrityInternal.
Readable == \A n \in Sequences : outbox[n] # Absent => RowReadable(outbox[n])

InState(s) == {n \in Sequences : outbox[n] # Absent /\ outbox[n].state = s}

\* What an earlier outbox of the same journal may have stored.
Foreign == {[mode |-> m, storedAt |-> 0, until |-> Days(m), by |-> 0] : m \in Modes}

-----------------------------------------------------------------------------
OutboxInit ==
  /\ outbox = [n \in Sequences |-> Absent]
  /\ publisher = [p \in Publishers |-> Resting]
  /\ wire = {} /\ crashes = 0
  /\ objects \in [Checkpoints -> {Absent} \cup Foreign]

\* enqueue: a sequence is bound to one object for good, and only an exact repeat
\* gets a receipt.
Enqueue(c, mode, t) ==
  /\ Readable /\ t >= c.at
  /\ outbox[c.sequence] = Absent
  /\ outbox' = [outbox EXCEPT ![c.sequence] = RowFor(c, mode, t)]
  /\ UNCHANGED <<publisher, wire, objects, crashes>>

\* claim: the earliest pending row.
Claim(p, t) ==
  /\ Readable /\ publisher[p].phase = "idle"
  /\ \E n \in InState("pending") :
       /\ \A m \in InState("pending") : n <= m
       /\ t >= outbox[n].updatedAt
       /\ outbox' = [outbox EXCEPT ![n].state = "in_flight", ![n].count = @ + 1,
                                   ![n].active = outbox[n].count + 1, ![n].updatedAt = t]
       /\ publisher' = [publisher EXCEPT ![p] =
            [phase |-> "creating", checkpoint |-> outbox[n].checkpoint, mode |-> outbox[n].mode,
             attempt |-> outbox[n].count + 1, answer |-> Absent]]
  /\ UNCHANGED <<wire, objects, crashes>>

-----------------------------------------------------------------------------
(* The object store. *)

Request(p) == [checkpoint |-> publisher[p].checkpoint, mode |-> publisher[p].mode,
               attempt |-> publisher[p].attempt]

\* create: an object is stored once, for at least as long as was asked, unless
\* the provider does not do what it was asked.
Stored(req, t, until) ==
  IF objects[req.checkpoint] = Absent
  THEN [objects EXCEPT ![req.checkpoint] =
          [mode |-> req.mode, storedAt |-> t, until |-> until, by |-> req.attempt]]
  ELSE objects

\* The answer: the same request again finds the object there, another is refused.
Answer(req, t, until) ==
  LET o == objects[req.checkpoint] IN
    IF o = Absent THEN [storedAt |-> t, until |-> until, disposition |-> "created"]
    ELSE IF o.mode # req.mode THEN [storedAt |-> Absent, until |-> Absent, disposition |-> "conflict"]
    ELSE [storedAt |-> o.storedAt, until |-> o.until, disposition |-> "already_exists"]

Untils(mode, t) == {t + Days(mode), t + Days(mode) - 1}

Create(p, t) ==
  /\ publisher[p].phase = "creating"
  /\ \E until \in Untils(publisher[p].mode, t) :
       /\ objects' = Stored(Request(p), t, until)
       /\ publisher' = [publisher EXCEPT ![p].phase = "answered",
                                         ![p].answer = Answer(Request(p), t, until)]
  /\ UNCHANGED <<outbox, wire, crashes>>

\* The request of a dead publisher arrives after all.
Arrive(req, t) ==
  /\ req \in wire /\ wire' = wire \ {req}
  /\ \E until \in Untils(req.mode, t) : objects' = Stored(req, t, until)
  /\ UNCHANGED <<outbox, publisher, crashes>>

\* The transport reports an error: before or after the object was stored.
TransportFails(p) ==
  /\ publisher[p].phase \in {"creating", "answered"}
  /\ publisher' = [publisher EXCEPT ![p].phase = "lost"]
  /\ UNCHANGED <<outbox, wire, objects, crashes>>

-----------------------------------------------------------------------------
(* What the publisher records. *)

RowOf(p) == outbox[publisher[p].checkpoint.sequence]
Update(p, row) == outbox' = [outbox EXCEPT ![publisher[p].checkpoint.sequence] = row]
Rest(p) == publisher' = [publisher EXCEPT ![p] = Resting]

\* Mutant: whose attempt was answered does not matter.
Current_AnyAttempt(p) == RowOf(p).state = "in_flight"

\* The row is still the one of this attempt.
Current(p) == RowOf(p).state = "in_flight" /\ RowOf(p).active = publisher[p].attempt

\* complete's conditions on the times.
Timely(row, a, t) ==
  /\ t >= row.updatedAt /\ t >= a.storedAt
  /\ a.storedAt >= row.queuedAt
  /\ a.disposition = "created" => a.storedAt >= row.updatedAt

Completable(p, t) ==
  LET a == publisher[p].answer IN
    /\ a.disposition # "conflict" /\ Current(p) /\ Timely(RowOf(p), a, t)
    /\ KeptLongEnough(RowOf(p).mode, a.storedAt, a.until)

Complete(p, t) ==
  /\ publisher[p].phase = "answered" /\ Readable
  /\ LET a == publisher[p].answer IN
       IF Completable(p, t)
       THEN /\ Update(p, [RowOf(p) EXCEPT !.state = "published", !.active = Absent, !.updatedAt = t,
                                        !.storedAt = a.storedAt, !.until = a.until,
                                        !.disposition = a.disposition])
            /\ Rest(p)
       ELSE publisher' = [publisher EXCEPT ![p].phase = "refused"] /\ UNCHANGED outbox
  /\ UNCHANGED <<wire, objects, crashes>>

\* fail: another attempt only after an error of the transport.
AfterFailure(attempt, retryable) ==
  IF retryable /\ attempt < MaxAttempts THEN "pending" ELSE "failed"

\* publishNext's catch; when fail refuses as well, the row stays in flight.
Fail(p, t) ==
  /\ publisher[p].phase \in {"lost", "refused"} /\ Readable
  /\ IF Current(p) /\ t >= RowOf(p).updatedAt
     THEN Update(p, [RowOf(p) EXCEPT !.active = Absent, !.updatedAt = t,
            !.state = AfterFailure(publisher[p].attempt, publisher[p].phase = "lost")])
     ELSE UNCHANGED outbox
  /\ Rest(p)
  /\ UNCHANGED <<wire, objects, crashes>>

\* recover: every row in flight, whoever is working on it.
Recover(t) ==
  /\ Readable /\ InState("in_flight") # {}
  /\ \A n \in InState("in_flight") : t >= outbox[n].updatedAt
  /\ outbox' = [n \in Sequences |->
       IF n \in InState("in_flight")
       THEN [outbox[n] EXCEPT !.active = Absent, !.updatedAt = t,
               !.state = IF outbox[n].count < MaxAttempts THEN "pending" ELSE "failed"]
       ELSE outbox[n]]
  /\ UNCHANGED <<publisher, wire, objects, crashes>>

Die(p) ==
  /\ publisher[p].phase # "idle" /\ crashes < MaxDeaths
  /\ crashes' = crashes + 1
  /\ wire' = IF publisher[p].phase = "creating" THEN wire \cup {Request(p)} ELSE wire
  /\ Rest(p)
  /\ UNCHANGED <<outbox, objects>>

OutboxNext ==
  \E t \in Ticks :
    \/ \E c \in Checkpoints, mode \in Modes : Enqueue(c, mode, t)
    \/ \E p \in Publishers : \/ Claim(p, t) \/ Create(p, t) \/ TransportFails(p) \/ Complete(p, t)
                             \/ Fail(p, t) \/ Die(p)
    \/ \E req \in wire : Arrive(req, t)
    \/ Recover(t)

OutboxSpec == OutboxInit /\ [][OutboxNext]_outboxVars

-----------------------------------------------------------------------------
(* The verifier. *)

verifierVars == <<pinned, minimum, verifiedAt, asked, listed, unsound, read, valid>>

Kinds == {"governance", "compliance"}
Term(mode) == IF mode = "compliance" THEN 2 ELSE 1

\* An object is kept for the time its mode demands, or (short) for less.
Shapes == [mode : Kinds, storedAt : 0..LastTime, short : BOOLEAN]
Object(c, shape) == [checkpoint |-> c, mode |-> shape.mode, storedAt |-> shape.storedAt,
                     short |-> shape.short]
Until(o) == o.storedAt + Term(o.mode) - (IF o.short THEN 1 ELSE 0)
Sequence(o) == o.checkpoint.sequence

\* A head is pinned as it was stored, which was at once.
Pins == UNION {{Object(c, s) : s \in {x \in Shapes : ~x.short /\ x.storedAt = c.at}} : c \in Pinnable}

\* An id is the hash of its checkpoint.
ASSUME SignedAssumption ==
  /\ \A c \in Signed \cup Pinnable : c.sequence \in Nat /\ c.id \in Nat /\ c.head \in Nat /\ c.at \in Nat
  /\ \A c, d \in Signed : c.id = d.id => c = d
  /\ \A c \in Signed \cup Pinnable, s \in Shapes : Object(c, s) # Absent

-----------------------------------------------------------------------------
VerifierInit ==
  /\ pinned \in {Absent} \cup Pins
  /\ minimum \in Kinds /\ verifiedAt \in 0..LastTime
  /\ asked = "idle" /\ listed = {} /\ unsound = FALSE /\ read = {} /\ valid = FALSE

\* list.
List ==
  /\ asked = "idle" /\ asked' = "reading"
  /\ \E f \in [Signed -> Shapes \cup {Absent}] :
       listed' = {Object(c, f[c]) : c \in {x \in Signed : f[x] # Absent}}
  /\ UNCHANGED <<pinned, minimum, verifiedAt, unsound, read, valid>>

-----------------------------------------------------------------------------
(* One object. *)

\* What the verifier asks of an object by itself.
Sound(o) == /\ o.storedAt <= verifiedAt
            /\ o.storedAt >= o.checkpoint.at
            /\ ~o.short
            /\ Until(o) > verifiedAt

\* read, in the order of the keys; it may find nothing, or what was not listed.
Read ==
  /\ asked = "reading"
  /\ \E o \in listed :
       /\ \A y \in listed : o.checkpoint.id <= y.checkpoint.id
       /\ listed' = listed \ {o}
       /\ \/ Sound(o) /\ read' = read \cup {o} /\ UNCHANGED unsound
          \/ unsound' = TRUE /\ UNCHANGED read
  /\ UNCHANGED <<pinned, minimum, verifiedAt, asked, valid>>

-----------------------------------------------------------------------------
(* All of them. *)

\* The objects in the order in which the stable sort leaves them: by sequence,
\* and by key where there is a fork.
Before(x, y) == \/ Sequence(x) < Sequence(y)
                \/ Sequence(x) = Sequence(y) /\ x.checkpoint.id < y.checkpoint.id
IsFirst(set, o) == \A x \in set : x # o => Before(o, x)
IsLast(set, o) == \A x \in set : x # o => Before(x, o)
Follows(set, x, y) == Before(x, y) /\ ~\E z \in set : Before(x, z) /\ Before(z, y)

If(condition, code) == IF condition THEN {code} ELSE {}

\* verifyLineage: what follows on what.
Succession(x, y) ==
  If(Sequence(y) = Sequence(x), "FORK_DETECTED")
  \cup If(Sequence(y) > Sequence(x) + 1, "JOURNAL_SEQUENCE_GAP")
  \cup If(y.checkpoint.previous # x.checkpoint.id, "PREVIOUS_HASH_MISMATCH")
  \cup If(y.checkpoint.head <= x.checkpoint.head, "STORE_SEQUENCE_NOT_INCREASING")
  \cup If(y.checkpoint.at < x.checkpoint.at \/ y.storedAt < x.storedAt, "TIMESTAMP_REGRESSION")

\* Mutant: a history may begin anywhere.
Start_Anywhere(o) == {}

\* verifyLineage: where the first one starts.
Start(o) ==
  IF pinned # Absent /\ Sequence(o) > Sequence(pinned) THEN Succession(pinned, o)
  ELSE If(Sequence(o) # 1 /\ o # pinned, "JOURNAL_SEQUENCE_GAP")

\* verifyLineage: governance after compliance, the pin's own mode included.
Downgrade(set) ==
  LET bound == pinned # Absent /\ \A o \in set : Sequence(o) >= Sequence(pinned) IN
    If(\E y \in set : /\ y.mode = "governance"
                      /\ \/ bound /\ pinned.mode = "compliance"
                         \/ \E x \in set : Before(x, y) /\ x.mode = "compliance",
       "COMPLIANCE_DOWNGRADE")

Lineage(set) ==
  (UNION {Start(o) : o \in {x \in set : IsFirst(set, x)}})
  \cup (UNION {Succession(p[1], p[2]) : p \in {q \in set \X set : Follows(set, q[1], q[2])}})
  \cup Downgrade(set)

\* verifyPin.
PinMatched(set) ==
  \/ pinned = Absent
  \/ \E o \in set : /\ Sequence(o) = Sequence(pinned) /\ o = pinned
                    /\ \A x \in set : Sequence(x) = Sequence(o) => ~Before(x, o)
  \/ /\ \A o \in set : Sequence(o) # Sequence(pinned)
     /\ \E o \in set : /\ IsFirst(set, o) /\ Sequence(o) = Sequence(pinned) + 1
                       /\ o.checkpoint.previous = pinned.checkpoint.id
                       /\ o.checkpoint.head > pinned.checkpoint.head

\* verify, after the last read.
ReportVerdict ==
  /\ asked = "reading" /\ listed = {}
  /\ asked' = "reported"
  /\ LET found == Lineage(read)
                  \cup If(unsound, "UNSOUND_OBJECT")
                  \cup If(~PinMatched(read), "PINNED_HEAD_MISMATCH")
                  \cup If(minimum = "compliance" /\ ~\E o \in read : IsLast(read, o) /\ o.mode = "compliance",
                          "RETENTION_POLICY_MISMATCH")
                  \cup If(read = {}, "EMPTY_ANCHOR_SET")
     IN valid' = (found = {} /\ PinMatched(read))
  /\ UNCHANGED <<pinned, minimum, verifiedAt, listed, unsound, read>>

VerifierNext == List \/ Read \/ ReportVerdict

VerifierSpec == VerifierInit /\ [][VerifierNext]_verifierVars

-----------------------------------------------------------------------------
(* Properties. *)

\* What the outbox says is so, also after recoveries behind a publisher's back,
\* requests that arrive late and clocks that go back: no row is refused by the
\* next transaction, a published row repeats what the store holds, and "created"
\* is only said of the attempt that created it.
OutboxIsTruthful ==
  /\ Readable
  /\ \A n \in InState("published") :
       LET r == outbox[n]   o == objects[outbox[n].checkpoint] IN
         /\ o # Absent
         /\ o.mode = r.mode /\ o.storedAt = r.storedAt /\ o.until = r.until
         /\ r.disposition = "created" => o.by = r.count

\* What a sound set is, said without reference to how it is checked: one
\* object per sequence, without a gap, from the first checkpoint or from the pin
\* or its successor on, each descending from the one before.
Chain(pin, set) ==
  \E first, last \in {Sequence(o) : o \in set} :
    LET known == set \cup (IF pin # Absent /\ first > Sequence(pin) THEN {pin} ELSE {}) IN
      /\ {Sequence(o) : o \in set} = first..last /\ Cardinality(set) = last - first + 1
      /\ first = 1 \/ (pin # Absent /\ first \in {Sequence(pin), Sequence(pin) + 1})
      /\ pin # Absent => pin \in known
      /\ pin \notin set /\ pin # Absent => first = Sequence(pin) + 1
      /\ \A x, y \in known : Sequence(y) = Sequence(x) + 1 =>
           /\ y.checkpoint.previous = x.checkpoint.id
           /\ y.checkpoint.head > x.checkpoint.head
           /\ y.checkpoint.at >= x.checkpoint.at /\ y.storedAt >= x.storedAt
           /\ x.mode = "compliance" => y.mode = "compliance"

\* A report says valid of exactly the sets that are a chain through the pin and
\* whose objects could all be read: no loss, fork, gap, late start, roll-back
\* behind the pin or weaker retention passes, and a sound history is not refused.
ReportIsRight ==
  asked = "reported" =>
    valid = /\ ~unsound /\ Chain(pinned, read)
            /\ minimum = "compliance" =>
                 \E o \in read : o.mode = "compliance" /\ \A x \in read : Sequence(x) <= Sequence(o)

=============================================================================
