--------------------------- MODULE OperatorResponses ---------------------------
(***************************************************************************)
(* What the operator servers let out.                                      *)
(*                                                                         *)
(* GET /api/events: the runtime's audit is read backwards, one page per    *)
(* request, while the runtime appends to it.  A client that follows the    *)
(* cursors to the end has read everything there was when it began.         *)
(*                                                                         *)
(* projectPublicJson copies whatever a provider returned without what must *)
(* not be public, and assertPlainDataTree accepts only data in the first   *)
(* place.  A value is a graph: nodes with the edges of their properties in *)
(* order.  A name is open or forbidden, and a property may be computed (an *)
(* accessor, taken to give the same value whenever it is asked); a leaf is *)
(* data, absent or not data.  Both functions read the elements of an array *)
(* as they come, so that they do ask its accessors.                        *)
(*                                                                         *)
(* The receipt of a canary run is made from what the run found, put        *)
(* through the schema it is stored under, read back by the recovery, and   *)
(* parsed again by the operator server.  A field is None or not; the rules *)
(* that relate the fields are written out in every one of these places for *)
(* each provider, and one that refuses what another made leaves the run    *)
(* without a receipt for good.                                             *)
(***************************************************************************)
EXTENDS Naturals, Sequences, FiniteSets, SequencesExt

CONSTANTS
  Types,          \* event types
  MaxEvents,      \* bound: events of the audit
  MaxLimit,       \* bound: the limits a client asks for (100 in the code)
  Nodes,          \* objects of a provider's value
  Root,           \* the value itself
  MaxEdges,       \* bound: properties of an object
  Limits,         \* bound: the <<depth, width>> limits tried
  Codes,          \* a few of the failure codes, "RUNTIME_DENIED" among them
  None

VARIABLES
  audit,          \* sequence of [type, at]: an event's number is its place
  reader,         \* [phase, query, cursor, read, began]
  heap,           \* node |-> [form, edges]: [name, to], `to' a node or a leaf
  limits,         \* <<MAX_PROJECTION_DEPTH, MAX_PROJECTED_OBJECT_KEYS and ..._ARRAY_LENGTH>>
  found           \* what a run found: see Findings

pageVars == <<audit, reader>>
projectionVars == <<heap, limits>>

-----------------------------------------------------------------------------
(* The pages of the audit. *)

\* The queries a client may make; `since' and `until' are None or a time.
Times == 1..MaxEvents
Queries == [limit : 1..MaxLimit, type : Types \cup {None}, since : {None} \cup Times, until : {None} \cup Times]

PagesInit == audit = <<>> /\ reader = [phase |-> "idle", query |-> None, cursor |-> None, read |-> <<>>, began |-> 0]

\* The runtime's audit time never goes back.
Append1(type, step) ==
  /\ Len(audit) < MaxEvents
  /\ audit' = Append(audit, [type |-> type, at |-> (IF audit = <<>> THEN 1 ELSE audit[Len(audit)].at) + step])
  /\ UNCHANGED reader

\* parseEventQuery: an interval that ends before it begins is refused.
Begin(query) ==
  /\ reader.phase = "idle"
  /\ ~(query.since # None /\ query.until # None /\ query.since > query.until)
  /\ reader' = [phase |-> "reading", query |-> query, cursor |-> None, read |-> <<>>, began |-> Len(audit)]
  /\ UNCHANGED audit

Wanted(query, e) ==
  /\ query.type \in {None, audit[e].type}
  /\ query.since # None => audit[e].at >= query.since
  /\ query.until # None => audit[e].at =< query.until

\* Mutant: the event of the cursor is given again.
Before_Inclusive(e, cursor) == cursor # None => e =< cursor

\* cursorSequence: the events before the cursor's.
Before(e, cursor) == cursor # None => e < cursor

\* listEvents: newest first, as many as the limit, and a cursor when there are more.
Found == SelectSeq(Reverse([e \in DOMAIN audit |-> e]),
                   LAMBDA e : Before(e, reader.cursor) /\ Wanted(reader.query, e))
Items == SubSeq(Found, 1, IF Len(Found) < reader.query.limit THEN Len(Found) ELSE reader.query.limit)
NextCursor == IF Len(Found) > reader.query.limit /\ Items # <<>> THEN Items[Len(Items)] ELSE None

GetPage ==
  /\ reader.phase = "reading"
  /\ reader' = [reader EXCEPT !.read = @ \o Items, !.cursor = NextCursor,
                              !.phase = IF NextCursor = None THEN "read" ELSE @,
                              !.began = IF reader.cursor = None THEN Len(audit) ELSE @]
  /\ UNCHANGED audit

PagesNext == \/ \E type \in Types, step \in 0..1 : Append1(type, step)
             \/ \E query \in Queries : Begin(query)
             \/ GetPage

PagesSpec == PagesInit /\ [][PagesNext]_pageVars

-----------------------------------------------------------------------------
\* Following the cursors yields every event that was there at the first page and
\* fits the query, newest first, each once, however many were appended since.
PagesCoverHistory ==
  reader.phase = "read" =>
    reader.read = SelectSeq(Reverse([e \in 1..reader.began |-> e]), LAMBDA e : Wanted(reader.query, e))

-----------------------------------------------------------------------------
(* The projection of a provider's value. *)

Depth == limits[1]
Widest == limits[2]

Leaves == {"data", "undefined", "code"}
ArrayEdges == [name : {"open", "computed"}, to : Nodes \cup Leaves]
\* An accessor of an object is never asked: one value stands for all it could give.
ObjectEdges == [name : {"open", "forbidden"}, to : Nodes \cup Leaves] \cup [name : {"computed"}, to : {"data"}]
Bodies == [form : {"array"}, edges : BoundedSeq(ArrayEdges, MaxEdges)]
          \cup [form : {"object"}, edges : BoundedSeq(ObjectEdges, MaxEdges)]
          \cup [form : {"opaque"}, edges : {<<>>}]

\* A node that nothing refers to has one body.
HeapInit ==
  /\ heap \in [Nodes -> Bodies] /\ limits \in Limits
  /\ \A n \in Nodes \ {Root} :
       \/ \E m \in Nodes \ {n} : \E i \in DOMAIN heap[m].edges : heap[m].edges[i].to = n
       \/ heap[n].form = "opaque"
HeapSpec == HeapInit /\ [][UNCHANGED projectionVars]_projectionVars

-----------------------------------------------------------------------------
\* A projected value: the numbers of the properties it was made of come along.
Data == [form |-> "data", items |-> <<>>]
Nothing == [form |-> "nothing", items |-> <<>>]

\* The values that are not entered: proxies and binary ones, what is too deep, and
\* what contains itself.
Traversed(node, ancestors, depth) == heap[node].form # "opaque" /\ depth < Depth /\ node \notin ancestors

\* The properties that are read: by its descriptor that of an object, and whatever
\* it is the element of an array.
Read(node, i) == \/ heap[node].edges[i].name = "open"
                 \/ heap[node].edges[i].name = "computed" /\ heap[node].form = "array"

\* projectValue for a property, and for an object the first `Widest' that remain.
RECURSIVE Projected(_, _, _)
Projected(value, ancestors, depth) ==
  CASE value = "data" -> Data
    [] value \in {"undefined", "code"} -> Nothing
    [] value \in Nodes /\ ~Traversed(value, ancestors, depth) -> Nothing
    [] OTHER ->
       LET array == heap[value].form = "array"
           edges == heap[value].edges
           Item(i) == [at |-> i, value |-> Projected(edges[i].to, ancestors \cup {value}, depth + 1)]
           considered == SelectSeq([i \in DOMAIN edges |-> i],
                                   LAMBDA i : Read(value, i) /\ (array => i =< Widest))
           kept == SelectSeq([k \in DOMAIN considered |-> Item(considered[k])],
                             LAMBDA item : item.value # Nothing)
       IN [form |-> heap[value].form,
           items |-> IF array \/ Len(kept) =< Widest THEN kept ELSE SubSeq(kept, 1, Widest)]

\* projectPublicJson.
Public == LET value == Projected(Root, {}, 0) IN IF value = Nothing THEN Data ELSE value

\* assertPlainDataTree.
RECURSIVE Plain(_, _)
Plain(value, ancestors) ==
  CASE value \in {"data", "undefined"} -> TRUE
    [] value = "code" -> FALSE
    [] OTHER -> /\ heap[value].form # "opaque" /\ value \notin ancestors
                /\ \A i \in DOMAIN heap[value].edges :
                     /\ heap[value].form = "object" => heap[value].edges[i].name # "computed"
                     /\ Plain(heap[value].edges[i].to, ancestors \cup {value})

-----------------------------------------------------------------------------
(* The reference: paths from the root, as sequences of property numbers. *)

RECURSIVE PathsOf(_)
PathsOf(value) == {<<>>} \cup UNION {{<<item.at>> \o path : path \in PathsOf(item.value)} :
                                     item \in ToSet(value.items)}

RECURSIVE Visited(_, _)
Visited(path, k) == IF k = 0 THEN <<Root>>
                    ELSE LET before == Visited(path, k - 1)
                             body == heap[before[k]]
                         IN Append(before, body.edges[path[k]].to)

IsPath(path) == \A k \in DOMAIN path :
  LET at == Visited(path, k - 1)[k] IN at \in Nodes /\ path[k] \in DOMAIN heap[at].edges

\* Every property on the way is one that is read and every node on it new.
MayShow(path) ==
  /\ IsPath(path)
  /\ LET way == Visited(path, Len(path)) IN
       /\ \A k \in DOMAIN path : Read(way[k], path[k])
       /\ \A k \in DOMAIN way : way[k] \in Nodes => heap[way[k]].form # "opaque"
       /\ \A j, k \in DOMAIN way : j < k /\ way[j] \in Nodes => way[j] # way[k]
       /\ way[Len(way)] \notin {"undefined", "code"}

AllPaths == BoundedSeq(1..MaxEdges, Depth + 1)

\* What is let out is what may be shown and nothing else, as deep and as wide as the
\* limits; data that is plain, openly named and within the limits is all let out but
\* for what is undefined, which is plain and is left out.
ProjectionIsFaithful ==
  LET shown == PathsOf(Public)
      mayShow == {path \in AllPaths : MayShow(path)}
      within == {path \in mayShow : /\ \A k \in DOMAIN path : path[k] =< Widest
                                    /\ Len(path) < Depth \/ Visited(path, Len(path))[Len(path) + 1] = "data"}
      named == \A path \in AllPaths : IsPath(path) =>
                 \A k \in DOMAIN path : heap[Visited(path, k - 1)[k]].edges[path[k]].name # "forbidden"
  IN heap[Root].form # "opaque" =>
       /\ shown \subseteq mayShow
       /\ \A path \in within : Len(path) =< Depth => path \in shown
       /\ \A path \in shown : Len(path) =< Depth
       /\ Plain(Root, {}) /\ named /\ mayShow = within =>
            shown = {path \in AllPaths : IsPath(path) /\ Visited(path, Len(path))[Len(path) + 1] # "undefined"}

-----------------------------------------------------------------------------
(* The forms of a receipt. *)

\* A run has a committed capture or failed before; a completion may be denied.
Findings ==
  [provider : {"x", "opensea", "base"}, captured : {TRUE}, status : {"accepted", "rejected"}, count : 0..2,
   next : BOOLEAN, denied : BOOLEAN, code : Codes, rate : {None, "rate"}, runtime : {"runtime"},
   acquiredAt : 1..2, committedAt : 1..2, now : 0..3]
  \cup [provider : {"x", "opensea", "base"}, captured : {FALSE}, status : {"failed"}, count : {0},
        next : {FALSE}, denied : {FALSE}, code : Codes, rate : {None, "rate"}, runtime : {None, "runtime"},
        acquiredAt : {0}, committedAt : {0}, now : 0..3]

\* Base RPC asks for one anchor, which an accepted response has, and knows no limits.
Possible(f) == /\ f.provider = "base" => f.rate = None /\ (f.status = "accepted" => f.count = 1)
               /\ f.captured => f.acquiredAt =< f.committedAt

ReceiptInit == found \in {f \in Findings : Possible(f)}
ReceiptSpec == ReceiptInit /\ [][UNCHANGED found]_found

-----------------------------------------------------------------------------
\* completionTime: not before what it completes, whatever the clock says.
LatestOf(times) == CHOOSE t \in times : \A u \in times : u =< t

\* Whether the counts of a result are told.
Counted(f) == f.status = "accepted" /\ ~f.denied

\* resultCandidate: what a run with a committed capture found.
Result(f) ==
  [outcome |-> IF f.denied \/ f.status = "rejected" THEN "rejected"
               ELSE IF f.provider # "base" /\ f.count = 0 THEN "empty" ELSE "accepted",
   code |-> IF f.denied THEN "RUNTIME_DENIED" ELSE IF f.status = "rejected" THEN f.code ELSE None,
   acquiredAt |-> f.acquiredAt, completedAt |-> LatestOf({f.acquiredAt, f.committedAt, f.now}),
   count |-> IF Counted(f) THEN f.count ELSE None, bytes |-> "bytes",
   next |-> IF Counted(f) /\ f.provider # "base" THEN f.next ELSE None,
   finalized |-> Counted(f) /\ f.provider = "base", fresh |-> Counted(f) /\ f.provider = "base",
   rate |-> f.rate, runtime |-> f.runtime, capture |-> "capture"]

\* The schemas of the result event.
ResultParses(r, provider) ==
  LET succeeded == r.outcome \in {"accepted", "empty"} IN
    /\ succeeded <=> r.code = None
    /\ r.completedAt >= r.acquiredAt
    /\ IF provider = "base"
       THEN /\ r.outcome # "empty" /\ (r.outcome = "accepted" <=> r.count = 1)
            /\ (r.outcome = "accepted" <=> r.finalized) /\ (r.outcome = "accepted" <=> r.fresh)
       ELSE /\ succeeded <=> r.count # None
            /\ succeeded <=> r.next # None
            /\ r.outcome = "empty" => r.count = 0
            /\ r.outcome = "accepted" => r.count >= 1

\* receiptFromResult and failedReceipt.
FailedReceipt(f) ==
  [outcome |-> "failed", code |-> f.code, acquiredAt |-> None, completedAt |-> f.now, count |-> None,
   bytes |-> None, next |-> None, finalized |-> FALSE, fresh |-> FALSE, rate |-> f.rate,
   runtime |-> f.runtime, capture |-> None]

Receipt(f) == IF f.captured THEN Result(f) ELSE FailedReceipt(f)

\* The schemas of the receipt, of X and OpenSea and of Base RPC.
Disagree(r) ==
  LET succeeded == r.outcome \in {"accepted", "empty"}
      captured == r.outcome # "failed"
  IN \/ succeeded # (r.code = None) \/ captured # (r.acquiredAt # None)
     \/ captured # (r.bytes # None) \/ captured # (r.capture # None)
     \/ captured /\ r.runtime = None
     \/ r.acquiredAt # None /\ r.completedAt < r.acquiredAt

XReceiptParses(r) ==
  /\ ~Disagree(r)
  /\ (r.outcome \in {"accepted", "empty"}) <=> r.count # None
  /\ (r.outcome \in {"accepted", "empty"}) <=> r.next # None
  /\ r.outcome = "empty" => r.count = 0
  /\ r.outcome = "accepted" => r.count >= 1

BaseReceiptParses(r) ==
  /\ ~Disagree(r)
  /\ r.outcome = "accepted" <=> r.count = 1
  /\ r.outcome = "accepted" <=> r.finalized
  /\ r.outcome = "accepted" <=> r.fresh

\* What Base RPC shows of its receipt, and its schema.
PublicReceipt(r) == [outcome |-> r.outcome, code |-> r.code, finalized |-> r.finalized, fresh |-> r.fresh]

PublicReceiptParses(r) == LET accepted == r.outcome = "accepted" IN
  (accepted <=> r.code = None) /\ (accepted <=> r.finalized) /\ (accepted <=> r.fresh)

\* parseOperatorReadCanaryReceipt, written anew for X; the other two servers parse with
\* the schemas.
OperatorParses(r, provider) ==
  CASE provider = "x" ->
         LET succeeded == r.outcome \in {"accepted", "empty"}
             captured == succeeded \/ r.outcome = "rejected"
         IN /\ succeeded = (r.code = None)
            /\ captured = (r.acquiredAt # None) /\ captured = (r.bytes # None)
            /\ succeeded = (r.count # None) /\ succeeded = (r.next # None)
            /\ r.outcome = "empty" => r.count = 0
            /\ r.outcome = "accepted" => r.count >= 1
            /\ r.acquiredAt # None => r.completedAt >= r.acquiredAt
            /\ captured = (r.capture # None) /\ (captured => r.runtime # None)
    [] provider = "opensea" -> XReceiptParses(r)
    [] provider = "base" -> PublicReceiptParses(PublicReceipt(r))

-----------------------------------------------------------------------------
\* Whatever a run found, every check its receipt passes on the way lets it through,
\* and it tells success exactly when the response was accepted and its completion
\* not denied.
ReceiptsArrive ==
  LET r == Receipt(found) IN
    /\ found.captured => ResultParses(r, found.provider)
    /\ IF found.provider = "base" THEN BaseReceiptParses(r) ELSE XReceiptParses(r)
    /\ OperatorParses(r, found.provider)
    /\ (r.outcome \in {"accepted", "empty"}) = (found.status = "accepted" /\ ~found.denied)
================================================================================
