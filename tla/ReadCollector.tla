--------------------------- MODULE ReadCollector ---------------------------
(***************************************************************************)
(* collectRaw of the three collectors: one network request under a runtime *)
(* authorization, raced against its own timer and the caller's abort.  The *)
(* transport is launched inside the runtime's transaction, which may still *)
(* fail to commit; the answer may come late, never, or flawed, and its     *)
(* body is a stream that may stop half way.                                *)
(*                                                                         *)
(* An action is one event of the JavaScript loop and everything that runs  *)
(* before the next await, so nothing happens between a promise settling    *)
(* and the error being classified.  Whose collector it is (provider) never *)
(* changes.                                                                *)
(***************************************************************************)
EXTENDS Naturals, FiniteSets

CONSTANTS
  Limit,      \* the byte limit, in chunks
  MaxFlaws,   \* bound: flaws of one answer
  None        \* not there

VARIABLES
  provider,   \* "x", "opensea" or "base"
  phase,      \* where executeNetworkRequest waits
  signal,     \* the caller has aborted
  timer,      \* the request's own timer
  dispatch,    \* what became of the dispatch in the runtime store
  transport,  \* the promise of the fetch
  answer,     \* what it was fulfilled with
  body,       \* the provider's stream
  chunks,     \* read so far
  copy,       \* the quarantined copy
  reported    \* what collectRaw returned or threw

collectorVars == <<provider, phase, signal, timer, dispatch, transport, answer, body,
                   chunks, copy, reported>>

-----------------------------------------------------------------------------
(* Answers. *)

\* What may be wrong with an answer, apart from its status and its length.
Flaws == {"limits", "unlimited", "encoding", "type", "length", "credential", "clock"}

\* "garbage" is no Response at all; size is what the stream delivers, null a
\* response without a body.
Answers ==
  [status : {"garbage", "redirect", "402", "429", "500", "200"},
   flaws : {F \in SUBSET Flaws : Cardinality(F) <= MaxFlaws},
   size : 0..(Limit + 1), declared : {None} \cup 0..Limit, null : BOOLEAN]

\* The first thing each collector refuses in the headers; "read" when nothing.
Headers(r) == IF "encoding" \in r.flaws THEN "UNSUPPORTED_CONTENT_ENCODING"
              ELSE IF "type" \in r.flaws THEN "UNSUPPORTED_CONTENT_TYPE"
              ELSE IF "length" \in r.flaws THEN "RESPONSE_TOO_LARGE"
              ELSE "read"

XVerdict(r) == IF r.status = "redirect" THEN "REDIRECT_REFUSED"
               ELSE IF "limits" \in r.flaws THEN "INVALID_RATE_LIMIT_METADATA"
               ELSE IF r.status # "200" THEN "HTTP_STATUS"
               ELSE Headers(r)

\* A malformed rate limit cannot obscure the demand for payment; a success must
\* carry one.
OpenSeaVerdict(r) == IF r.status = "redirect" THEN "REDIRECT_REFUSED"
                     ELSE IF r.status = "402" THEN "PAYMENT_REQUIRED"
                     ELSE IF "limits" \in r.flaws THEN "INVALID_RATE_LIMIT_METADATA"
                     ELSE IF r.status # "200" THEN "HTTP_STATUS"
                     ELSE IF "unlimited" \in r.flaws THEN "INVALID_RATE_LIMIT_METADATA"
                     ELSE Headers(r)

BaseVerdict(r) == IF r.status = "redirect" THEN "REDIRECT_REFUSED"
                  ELSE IF r.status = "402" THEN "PAYMENT_REQUIRED"
                  ELSE IF r.status = "429" THEN "RATE_LIMITED"
                  ELSE IF r.status # "200" THEN "HTTP_STATUS"
                  ELSE Headers(r)

Verdict(r) == IF r.status = "garbage" THEN "TRANSPORT_FAILURE"
              ELSE IF provider = "x" THEN XVerdict(r)
              ELSE IF provider = "opensea" THEN OpenSeaVerdict(r)
              ELSE BaseVerdict(r)

\* What is refused once n chunks are there and the stream has ended.
Content(r, n) == IF r.declared # None /\ r.declared # n THEN "CONTENT_LENGTH_MISMATCH"
                 ELSE IF "credential" \in r.flaws THEN "CREDENTIAL_IN_RESPONSE"
                 ELSE IF "clock" \in r.flaws THEN "CLOCK_REGRESSION"
                 ELSE "response"

\* A refused response, or one that comes late, is cancelled, except by the X collector.
Rejected(r) == IF r.status = "garbage" THEN "none"
               ELSE IF provider = "x" THEN "open" ELSE "cancelled"

-----------------------------------------------------------------------------
Init ==
  /\ provider \in {"x", "opensea", "base"}
  /\ phase = "idle" /\ signal = FALSE /\ timer = "off" /\ dispatch = "none"
  /\ transport = "none" /\ answer = None /\ body = "none" /\ chunks = 0
  /\ copy = "none" /\ reported = None

Waiting == phase \in {"fetching", "reading"}

\* Mutant: a response is handed out although the dispatch did not commit.
Settle_Undrained(outcome) ==
  /\ phase' = "done"
  /\ timer' = IF timer = "armed" THEN "off" ELSE timer
  /\ reported' = outcome
  /\ copy' = IF outcome = "response" THEN "held" ELSE copy

\* executeNetworkRequest settles and collectRaw with it: the timer is cleared,
\* and a dispatch that was not committed drains the response and fails.
Settle(outcome) ==
  /\ phase' = "done"
  /\ timer' = IF timer = "armed" THEN "off" ELSE timer
  /\ reported' = IF dispatch = "failed" THEN "RUNTIME_AUTHORIZATION_FAILED" ELSE outcome
  /\ copy' = IF outcome # "response" THEN copy
             ELSE IF dispatch = "failed" THEN "destroyed" ELSE "held"

\* collectRaw up to the first await.
Collect ==
  /\ phase = "idle"
  /\ \/ signal /\ phase' = "done" /\ reported' = "ABORTED"
        /\ UNCHANGED <<timer, dispatch, transport>>
     \/ ~signal /\ phase' = "done" /\ dispatch' = "denied"
        /\ reported' \in {"RUNTIME_AUTHORIZATION_FAILED", "ATTEMPT_AUTHORIZATION_FAILED"}
        /\ UNCHANGED <<timer, transport>>
     \/ ~signal /\ dispatch' \in {"committed", "failed"} /\ phase' = "fetching"
        /\ timer' = "armed" /\ transport' = "pending" /\ UNCHANGED reported
  /\ UNCHANGED <<provider, signal, answer, body, chunks, copy>>

XCollect == provider = "x" /\ Collect
OpenSeaCollect == provider = "opensea" /\ Collect
BaseCollect == provider = "base" /\ Collect

\* The caller's abort; the listener is gone once the request has settled.
Abort ==
  /\ ~signal /\ signal' = TRUE
  /\ IF Waiting
     THEN /\ Settle("ABORTED")
          /\ body' = IF phase = "reading" THEN "cancelled" ELSE body
     ELSE UNCHANGED <<phase, timer, reported, copy, body>>
  /\ UNCHANGED <<provider, dispatch, transport, answer, chunks>>

Timeout ==
  /\ timer = "armed"
  /\ phase' = "done" /\ timer' = "fired"
  /\ reported' = IF dispatch = "failed" THEN "RUNTIME_AUTHORIZATION_FAILED" ELSE "TIMEOUT"
  /\ body' = IF phase = "reading" THEN "cancelled" ELSE body
  /\ UNCHANGED <<provider, signal, dispatch, transport, answer, chunks, copy>>

\* The transport fails, by itself or because its signal was aborted.
Fail ==
  /\ transport = "pending" /\ transport' = "rejected"
  /\ IF phase = "fetching" THEN Settle("TRANSPORT_FAILURE")
     ELSE UNCHANGED <<phase, timer, reported, copy>>
  /\ UNCHANGED <<provider, signal, dispatch, answer, body, chunks>>

\* The transport answers: in time, and the headers are judged; or late.
Answer(r) ==
  /\ transport = "pending" /\ transport' = "answered" /\ answer' = r
  /\ IF phase # "fetching"
     THEN body' = Rejected(r) /\ UNCHANGED <<phase, timer, reported, copy>>
     ELSE IF Verdict(r) # "read"
     THEN body' = Rejected(r) /\ Settle(Verdict(r))
     ELSE IF r.null
     THEN body' = "none" /\ Settle(Content(r, 0))
     ELSE body' = "open" /\ phase' = "reading" /\ UNCHANGED <<timer, reported, copy>>
  /\ UNCHANGED <<provider, signal, dispatch, chunks>>

\* readBoundedBody: the next chunk, the end, or a failure of the stream.
Chunk ==
  /\ phase = "reading" /\ chunks < answer.size
  /\ chunks' = chunks + 1
  /\ IF chunks + 1 > Limit
     THEN body' = "cancelled" /\ Settle("RESPONSE_TOO_LARGE")
     ELSE UNCHANGED <<body, phase, timer, reported, copy>>
  /\ UNCHANGED <<provider, signal, dispatch, transport, answer>>

End ==
  /\ phase = "reading" /\ chunks = answer.size
  /\ body' = "ended"
  /\ Settle(Content(answer, chunks))
  /\ UNCHANGED <<provider, signal, dispatch, transport, answer, chunks>>

Break ==
  /\ phase = "reading"
  /\ body' = "cancelled"
  /\ Settle("TRANSPORT_FAILURE")
  /\ UNCHANGED <<provider, signal, dispatch, transport, answer, chunks>>

Launch == XCollect \/ OpenSeaCollect \/ BaseCollect
Network == Fail \/ Chunk \/ End \/ Break \/ \E r \in Answers : Answer(r)

Next == Launch \/ Abort \/ Timeout \/ Network

CollectorSpec == Init /\ [][Next]_collectorVars

\* The timer fires; the network promises nothing.
Fairness == WF_collectorVars(Timeout)

-----------------------------------------------------------------------------
(* Properties. *)

\* What collectRaw reports is so: a response only of a committed dispatch, whole,
\* within the limit and of the declared length; a time-out or an abort only when
\* there was one; a demand for payment as nothing else, whatever else is wrong
\* with it; and a dispatch that did not commit hands nothing out.
ReportsTheTruth ==
  /\ reported = "response" =>
       /\ dispatch = "committed" /\ copy = "held"
       /\ answer.status = "200" /\ chunks <= Limit /\ chunks = (IF answer.null THEN 0 ELSE answer.size)
       /\ answer.declared \in {None, chunks}
       /\ body = (IF answer.null THEN "none" ELSE "ended")
  /\ reported = "TIMEOUT" => timer = "fired" /\ ~(transport = "answered" /\ body = "ended")
  /\ reported = "ABORTED" => signal
  /\ dispatch = "failed" /\ phase = "done" => reported # "response" /\ copy # "held"
  /\ /\ provider # "x" /\ phase = "done" /\ dispatch = "committed" /\ timer = "off" /\ ~signal
     /\ answer # None
     => (answer.status = "402") = (reported = "PAYMENT_REQUIRED")

\* The OpenSea and Base RPC collectors leave no response of the provider open,
\* not even one that arrives after the request has failed.
NothingLeftOpen ==
  provider # "x" /\ phase = "done" /\ transport # "pending" => body # "open"

\* A request that was launched ends, whatever the network does: also while the
\* body is read, and also when the dispatch did not commit.
CollectionEnds == phase = "fetching" ~> phase = "done"

=============================================================================
