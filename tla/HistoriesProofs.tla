--------------------------- MODULE HistoriesProofs ---------------------------
(***************************************************************************)
(* Theorems about the three stores that record under the runtime's log,    *)
(* for every set of processes, snapshots, bundles and proposals and every  *)
(* bound; about the improvement loop; and about the fixture pipeline.  A   *)
(* record is written in a later transaction than the check that allowed    *)
(* it, and the preview it is of is older than both; so the invariant says  *)
(* what a command between two of its transactions may rely on, whatever    *)
(* other processes did meanwhile: the log only grows, and each of the      *)
(* stores only grows.  Of the pipeline it says the same of a call between  *)
(* two stages.                                                             *)
(***************************************************************************)
EXTENDS MCHistories, TLAPS, WellFoundedInduction

-----------------------------------------------------------------------------
(* Sequences.  What an event or a record holds has no type of its own here:  *)
(* what matters is that a log is a sequence of something.                    *)

IsSeq(s) == s \in Seq({s[i] : i \in 1..Len(s)})

\* A sequence over any set is a sequence of its elements.
LEMMA SeqIsSeq ==
  ASSUME NEW S, NEW s \in Seq(S)
  PROVE  IsSeq(s) /\ Len(s) \in Nat
  BY DEF IsSeq

\* The empty sequence is one.
LEMMA EmptyIsSeq == IsSeq(<<>>) /\ Len(<<>>) = 0 /\ DOMAIN <<>> = {}
  BY DEF IsSeq

\* Where a sequence is defined.
LEMMA SeqFacts ==
  ASSUME NEW s, IsSeq(s)
  PROVE  Len(s) \in Nat /\ DOMAIN s = 1..Len(s) /\ (s = <<>> <=> Len(s) = 0)
<1> DEFINE S == {s[i] : i \in 1..Len(s)}
<1>1. s \in Seq(S)
  BY DEF IsSeq
<1> HIDE DEF S
<1>2. QED
  BY <1>1

\* A sequence that one element is added to keeps the others, and so all its prefixes.
LEMMA AppendFacts ==
  ASSUME NEW s, IsSeq(s), NEW e
  PROVE  /\ IsSeq(Append(s, e)) /\ Len(Append(s, e)) = Len(s) + 1 /\ Len(s) \in Nat
         /\ DOMAIN Append(s, e) = 1..(Len(s) + 1)
         /\ Append(s, e)[Len(s) + 1] = e
         /\ \A i \in 1..Len(s) : Append(s, e)[i] = s[i]
         /\ \A k \in 0..Len(s) : SubSeq(Append(s, e), 1, k) = SubSeq(s, 1, k)
         /\ SubSeq(Append(s, e), 1, Len(s)) = s
         /\ SubSeq(Append(s, e), 1, Len(s) + 1) = Append(s, e)
<1> DEFINE S == {s[i] : i \in 1..Len(s)} \cup {e}
<1>1. s \in Seq(S) /\ e \in S
  BY DEF IsSeq
<1> HIDE DEF S
<1>2. Append(s, e) \in Seq(S)
  BY <1>1
<1>3. IsSeq(Append(s, e))
  BY <1>2, SeqIsSeq
<1>4. /\ Len(Append(s, e)) = Len(s) + 1 /\ Len(s) \in Nat
      /\ DOMAIN Append(s, e) = 1..(Len(s) + 1)
      /\ Append(s, e)[Len(s) + 1] = e
      /\ \A i \in 1..Len(s) : Append(s, e)[i] = s[i]
  BY <1>1
<1>5. ASSUME NEW k \in 0..Len(s) PROVE SubSeq(Append(s, e), 1, k) = SubSeq(s, 1, k)
  <2>1. /\ SubSeq(s, 1, k) \in Seq(S) /\ Len(SubSeq(s, 1, k)) = k
        /\ \A i \in 1..k : SubSeq(s, 1, k)[i] = s[i]
    BY <1>1
  <2>2. /\ SubSeq(Append(s, e), 1, k) \in Seq(S) /\ Len(SubSeq(Append(s, e), 1, k)) = k
        /\ \A i \in 1..k : SubSeq(Append(s, e), 1, k)[i] = Append(s, e)[i]
    BY <1>2, <1>4
  <2>3. QED
    BY <1>4, <2>1, <2>2
<1>6. SubSeq(Append(s, e), 1, Len(s)) = s
  <2>1. SubSeq(s, 1, Len(s)) = s
    BY <1>1
  <2>2. QED
    BY <1>4, <1>5, <2>1
<1>7. SubSeq(Append(s, e), 1, Len(s) + 1) = Append(s, e)
  BY <1>2, <1>4
<1>8. QED
  BY <1>3, <1>4, <1>5, <1>6, <1>7

-----------------------------------------------------------------------------
(* The runtime's log and the commands. *)

IsCheck(e) == e.type = "boundary"

\* The replayed mode event is the last one of the log.
HasLast(l) ==
  /\ R!LastModePosition(l) \in R!ModePositions(l)
  /\ \A j \in R!ModePositions(l) : j <= R!LastModePosition(l)

LogSound(l) ==
  /\ IsSeq(l) /\ l # <<>> /\ HasLast(l)
  /\ \A i \in 1..Len(l) : l[i].at \in Nat
  /\ \A i, j \in 1..Len(l) : i <= j => l[i].at <= l[j].at
  /\ \A i \in 1..Len(l) : IsCheck(l[i]) =>
       \E q \in Processes : \E m \in Nat : m < i /\ l[i].auth.id = <<q, m>>
  /\ \A i, j \in 1..Len(l) : IsCheck(l[i]) /\ IsCheck(l[j]) /\ l[i].auth.id = l[j].auth.id => i = j

\* An authorization is of its process, and was drawn from the log as it was once.
GrantSound(p, q) ==
  /\ q.process = p /\ q.requestedAt \in Nat /\ q.expiresAt \in Nat
  /\ \E m \in Nat : m <= Len(log) /\ q.auth.id = <<p, m>>

\* One that was not consumed is new to the log.
GrantedSound(p) ==
  /\ GrantSound(p, job[p].q)
  /\ \A i \in 1..Len(log) : IsCheck(log[i]) => log[i].auth.id # job[p].q.auth.id

\* One that was has its check there.
Answers(e, q) == /\ IsCheck(e) /\ e.reason = "ALLOWED" /\ e.boundary = q.boundary
                 /\ e.auth = q.auth /\ e.process = q.process /\ e.revision = q.revision

ReceiptedSound(p) ==
  /\ GrantSound(p, job[p].q)
  /\ job[p].sequence \in 1..Len(log)
  /\ Answers(log[job[p].sequence], job[p].q)
  /\ log[job[p].sequence].at = job[p].checkedAt
  /\ R!ModeAllows(R!State(SubSeq(log, 1, job[p].sequence)).mode, job[p].q.boundary)

JobSound(p) ==
  /\ job[p].stage \in {"idle", "granted", "receipted", "committed"}
  /\ At(p, "granted") => GrantedSound(p)
  /\ At(p, "receipted") => ReceiptedSound(p)

CommandInv ==
  /\ now \in Nat /\ LogSound(log)
  /\ job = [p \in Processes |-> job[p]]
  /\ \A p \in Processes : JobSound(p)

\* A mode event is the last one of the log it is added to.
LEMMA ModeIsLast ==
  ASSUME NEW l, IsSeq(l), NEW e, ~IsCheck(e)
  PROVE  HasLast(Append(l, e))
<1> DEFINE m == Append(l, e)
<1>1. /\ DOMAIN m = 1..(Len(l) + 1) /\ m[Len(l) + 1] = e /\ Len(l) \in Nat
      /\ \A i \in 1..Len(l) : m[i] = l[i]
  BY AppendFacts
<1> HIDE DEF m
<1>2. Len(l) + 1 \in R!ModePositions(m) /\ \A j \in R!ModePositions(m) : j <= Len(l) + 1
  BY <1>1 DEF R!ModePositions, IsCheck
<1>3. \A i \in R!ModePositions(m) : (\A j \in R!ModePositions(m) : j <= i) => i = Len(l) + 1
  BY <1>1, <1>2 DEF R!ModePositions
<1>4. R!LastModePosition(m) = Len(l) + 1
  BY <1>2, <1>3 DEF R!LastModePosition
<1>5. HasLast(m)
  BY <1>2, <1>4 DEF HasLast
<1>6. QED
  BY <1>5 DEF m

\* A check leaves the state of the log it is added to alone.
LEMMA CheckLeavesState ==
  ASSUME NEW l, IsSeq(l), HasLast(l), NEW e, IsCheck(e)
  PROVE  HasLast(Append(l, e)) /\ R!State(Append(l, e)) = R!State(l)
<1> DEFINE m == Append(l, e)
<1>1. /\ DOMAIN m = 1..(Len(l) + 1) /\ m[Len(l) + 1] = e /\ Len(l) \in Nat
      /\ \A i \in 1..Len(l) : m[i] = l[i]
      /\ DOMAIN l = 1..Len(l)
  BY AppendFacts, SeqFacts
<1> HIDE DEF m
<1>2. R!ModePositions(m) = R!ModePositions(l)
  BY <1>1 DEF R!ModePositions, IsCheck
<1>3. R!LastModePosition(m) = R!LastModePosition(l)
  BY <1>2 DEF R!LastModePosition
<1>4. R!LastModePosition(l) \in 1..Len(l)
  BY <1>1 DEF HasLast, R!ModePositions
<1>5. m[R!LastModePosition(m)] = l[R!LastModePosition(l)]
  BY <1>1, <1>3, <1>4
<1>6. HasLast(m) /\ R!State(m) = R!State(l)
  BY <1>2, <1>3, <1>5 DEF HasLast, R!State
<1>7. QED
  BY <1>6 DEF m

\* Dates in the log do not go back.
LEMMA LastDate ==
  ASSUME LogSound(log), NEW t \in Nat
  PROVE  /\ R!LastAuditAt(log) \in Nat /\ R!NonRegressing(t, log) \in Nat
         /\ R!NonRegressing(t, log) >= R!LastAuditAt(log)
         /\ \A i \in 1..Len(log) : log[i].at <= R!LastAuditAt(log)
<1>1. Len(log) \in Nat /\ Len(log) # 0
  BY SeqFacts DEF LogSound
<1>2. R!LastAuditAt(log) = log[Len(log)].at
  BY DEF LogSound, R!LastAuditAt
<1>3. QED
  BY <1>1, <1>2 DEF LogSound, R!NonRegressing, R!LaterOf

\* What an event must be to be added.
Addable(e) ==
  /\ e.at \in Nat /\ e.at >= R!LastAuditAt(log)
  /\ IsCheck(e) => /\ \E q \in Processes : \E m \in Nat : m <= Len(log) /\ e.auth.id = <<q, m>>
                   /\ \A i \in 1..Len(log) : IsCheck(log[i]) => log[i].auth.id # e.auth.id

\* The log has one event more.
Grown(e) == log' = Append(log, e)

\* What the log said, it goes on saying.
LogStays ==
  /\ Len(log) \in Nat /\ Len(log') \in Nat /\ Len(log) <= Len(log')
  /\ \A i \in 1..Len(log) : i \in 1..Len(log') /\ log'[i] = log[i]
  /\ \A k \in 0..Len(log) : SubSeq(log', 1, k) = SubSeq(log, 1, k)

\* An unchanged log and one that grew by an event both do.
LEMMA LogKept ==
  ASSUME LogSound(log), log' = log \/ \E e : Addable(e) /\ Grown(e)
  PROVE  LogSound(log') /\ LogStays
<1>1. CASE log' = log
  BY <1>1, SeqFacts DEF LogSound, LogStays
<1>2. ASSUME NEW e, Addable(e), Grown(e) PROVE LogSound(log') /\ LogStays
  <2>1. IsSeq(log) /\ log' = Append(log, e) /\ HasLast(log)
    BY <1>2 DEF LogSound, Grown
  <2>2. /\ IsSeq(log') /\ Len(log') = Len(log) + 1 /\ Len(log) \in Nat
        /\ DOMAIN log' = 1..(Len(log) + 1)
        /\ log'[Len(log) + 1] = e
        /\ \A i \in 1..Len(log) : log'[i] = log[i]
        /\ \A k \in 0..Len(log) : SubSeq(log', 1, k) = SubSeq(log, 1, k)
    BY <2>1, AppendFacts
  <2>3. LogStays
    BY <2>2 DEF LogStays
  <2>4. log' # <<>>
    BY <2>2, EmptyIsSeq
  <2>5. HasLast(log')
    BY <2>1, ModeIsLast, CheckLeavesState
  <2>6. R!LastAuditAt(log) \in Nat /\ \A i \in 1..Len(log) : log[i].at <= R!LastAuditAt(log)
    BY LastDate
  <2>7. \A i \in 1..Len(log') : log'[i].at \in Nat
    BY <1>2, <2>2 DEF LogSound, Addable
  <2>8. \A i, j \in 1..Len(log') : i <= j => log'[i].at <= log'[j].at
    <3>1. SUFFICES ASSUME NEW i \in 1..Len(log'), NEW j \in 1..Len(log'), i <= j PROVE log'[i].at <= log'[j].at
      OBVIOUS
    <3>2. CASE j \in 1..Len(log)
      BY <2>2, <3>1, <3>2 DEF LogSound
    <3>3. CASE j = Len(log) + 1 /\ i \in 1..Len(log)
      BY <1>2, <2>2, <2>6, <3>1, <3>3 DEF LogSound, Addable
    <3>4. CASE i = Len(log) + 1 /\ j = Len(log) + 1
      BY <2>7, <3>1, <3>4
    <3>5. QED
      BY <2>2, <3>1, <3>2, <3>3, <3>4
  <2>9. \A i \in 1..Len(log') : IsCheck(log'[i]) =>
          \E q \in Processes : \E m \in Nat : m < i /\ log'[i].auth.id = <<q, m>>
    <3>1. ASSUME NEW i \in 1..Len(log), IsCheck(log'[i])
          PROVE  \E q \in Processes : \E m \in Nat : m < i /\ log'[i].auth.id = <<q, m>>
      BY <2>2, <3>1 DEF LogSound
    <3>2. ASSUME IsCheck(e)
          PROVE  \E q \in Processes : \E m \in Nat : m < Len(log) + 1 /\ e.auth.id = <<q, m>>
      BY <1>2, <2>2, <3>2 DEF Addable
    <3>3. QED
      BY <2>2, <3>1, <3>2
  <2>10. \A i, j \in 1..Len(log') : IsCheck(log'[i]) /\ IsCheck(log'[j]) /\ log'[i].auth.id = log'[j].auth.id => i = j
    BY <1>2, <2>2 DEF LogSound, Addable
  <2>11. QED
    BY <2>2, <2>3, <2>4, <2>5, <2>7, <2>8, <2>9, <2>10 DEF LogSound
<1>3. QED
  BY <1>1, <1>2

-----------------------------------------------------------------------------
(* What the steps of a command that every store shares do. *)

\* A job stays, ends, or has its check.
Receipt(p) ==
  \E e : /\ Grown(e) /\ Answers(e, job[p].q)
         /\ R!ModeAllows(State.mode, job[p].q.boundary)
         /\ job'[p] = [stage |-> "receipted", q |-> job[p].q, about |-> job[p].about,
                       state |-> job[p].state, sequence |-> Len(log) + 1, checkedAt |-> e.at]

JobMoves(p) == \/ job'[p] = job[p]
               \/ job'[p] = Idle
               \/ At(p, "granted") /\ Receipt(p)
               \/ job'[p].stage \in {"idle", "committed"}
               \/ job'[p].stage = "granted" /\ log' = log /\ GrantedSound(p)'

\* Such moves keep what every command relies on.
LEMMA CommandsKeep ==
  ASSUME CommandInv, now' \in Nat, LogStays, LogSound(log'),
         job' = [p \in Processes |-> job'[p]], \A p \in Processes : JobMoves(p),
         \A p \in Processes : At(p, "granted") /\ job'[p] = job[p] => GrantedSound(p)'
  PROVE  CommandInv'
<1>1. ASSUME NEW p \in Processes PROVE JobSound(p)'
  <2>1. JobSound(p)
    BY DEF CommandInv
  <2>2. CASE job'[p] = job[p]
    <3>1. At(p, "granted")' => GrantedSound(p)'
      BY <2>2 DEF At
    <3>2. ASSUME At(p, "receipted") PROVE ReceiptedSound(p)'
      <4>1. ReceiptedSound(p)
        BY <2>1, <3>2 DEF JobSound
      <4>2. GrantSound(p, job[p].q)'
        BY <2>2, <4>1 DEF ReceiptedSound, GrantSound, LogStays
      <4>3. SubSeq(log', 1, job[p].sequence) = SubSeq(log, 1, job[p].sequence)
        BY <4>1 DEF ReceiptedSound, LogStays
      <4>4. QED
        BY <2>2, <4>1, <4>2, <4>3 DEF ReceiptedSound, LogStays
    <3>3. job[p].stage \in {"idle", "granted", "receipted", "committed"}
      BY <2>1 DEF JobSound
    <3>4. QED
      BY <2>2, <3>1, <3>2, <3>3 DEF JobSound, At
  <2>3. CASE job'[p].stage \in {"idle", "committed"} \/ job'[p] = Idle
    BY <2>3 DEF JobSound, At, Idle
  <2>4. CASE At(p, "granted") /\ Receipt(p)
    <3>1. PICK e : /\ Grown(e) /\ Answers(e, job[p].q)
                   /\ R!ModeAllows(State.mode, job[p].q.boundary)
                   /\ job'[p] = [stage |-> "receipted", q |-> job[p].q, about |-> job[p].about,
                                 state |-> job[p].state, sequence |-> Len(log) + 1, checkedAt |-> e.at]
      BY <2>4 DEF Receipt
    <3>2. GrantSound(p, job[p].q) /\ GrantSound(p, job[p].q)'
      BY <2>1, <2>4, <3>1 DEF JobSound, GrantedSound, GrantSound, LogStays
    <3>3. IsSeq(log) /\ HasLast(log)
      BY DEF CommandInv, LogSound
    <3>4. Len(log') = Len(log) + 1 /\ log'[Len(log) + 1] = e /\ SubSeq(log', 1, Len(log) + 1) = log' /\ Len(log) \in Nat
      BY <3>1, <3>3, AppendFacts DEF Grown
    <3>5. R!State(log') = State
      BY <3>1, <3>3, CheckLeavesState DEF Grown, Answers, State
    <3>6. /\ job'[p].stage = "receipted" /\ job'[p].q = job[p].q /\ job'[p].sequence = Len(log) + 1
          /\ job'[p].checkedAt = e.at
      BY <3>1
    <3>8. Answers(log'[job'[p].sequence], job'[p].q)
      BY <3>1, <3>4, <3>6
    <3>9. ReceiptedSound(p)'
      <4>1. job'[p].sequence \in 1..Len(log')
        BY <3>4, <3>6
      <4>2. log'[job'[p].sequence].at = job'[p].checkedAt
        BY <3>4, <3>6
      <4>3. R!ModeAllows(R!State(SubSeq(log', 1, job'[p].sequence)).mode, job'[p].q.boundary)
        BY <3>1, <3>4, <3>5, <3>6
      <4>4. QED
        BY <3>2, <3>8, <4>1, <4>2, <4>3 DEF ReceiptedSound
    <3>10. QED
      <4>1. ~At(p, "granted")' /\ job'[p].stage \in {"idle", "granted", "receipted", "committed"}
        BY <3>6 DEF At
      <4>2. QED
        BY <3>9, <4>1 DEF JobSound
  <2>5. CASE job'[p].stage = "granted" /\ GrantedSound(p)'
    BY <2>5 DEF JobSound, At
  <2>6. QED
    BY <2>2, <2>3, <2>4, <2>5 DEF JobMoves
<1>2. QED
  BY <1>1 DEF CommandInv

\* An authorization that was not consumed stays new while others grow the log.
LEMMA GrantsStay ==
  ASSUME NEW p \in Processes, LogSound(log), GrantedSound(p), job'[p] = job[p],
         NEW e, Grown(e), LogStays, IsCheck(e) => e.auth.id # job[p].q.auth.id
  PROVE  GrantedSound(p)'
<1>1. Len(log') = Len(log) + 1 /\ Len(log) \in Nat /\ log'[Len(log) + 1] = e
      /\ \A i \in 1..Len(log) : log'[i] = log[i]
  BY AppendFacts DEF LogSound, Grown
<1>2. GrantSound(p, job[p].q)'
  BY <1>1 DEF GrantedSound, GrantSound
<1>3. \A i \in 1..Len(log') : IsCheck(log'[i]) => log'[i].auth.id # job[p].q.auth.id
  BY <1>1 DEF GrantedSound
<1>4. QED
  BY <1>2, <1>3 DEF GrantedSound

\* Clock readings are dates.
LEMMA ReadingsAre == ASSUME now \in Nat, NEW t \in Readings PROVE t \in Nat
  BY DEF Readings

\* A check is dated and says why it is allowed.
LEMMA ChecksAre ==
  ASSUME NEW p \in Processes, LogSound(log), GrantedSound(p), now \in Nat, NEW t \in Readings,
         NEW e, e = R!CheckEvent(job[p].q, State, R!CheckedAt(job[p].q, t))
  PROVE  /\ IsCheck(e) /\ Addable(e) /\ e.auth = job[p].q.auth
         /\ e.reason = "ALLOWED" =>
              Answers(e, job[p].q) /\ R!ModeAllows(State.mode, job[p].q.boundary)
<1> DEFINE q == job[p].q
           at == R!CheckedAt(q, t)
<1>1. t \in Nat
  BY ReadingsAre
<1>2. q.requestedAt \in Nat /\ q.expiresAt \in Nat
  BY DEF GrantedSound, GrantSound
<1>3. R!LastAuditAt(log) \in Nat /\ R!NonRegressing(t, log) \in Nat
      /\ R!NonRegressing(t, log) >= R!LastAuditAt(log)
  BY <1>1, LastDate
<1>4. at \in Nat /\ at >= R!LastAuditAt(log)
  <2>1. R!LaterOf(R!NonRegressing(t, log), q.requestedAt) \in Nat
        /\ R!LaterOf(R!NonRegressing(t, log), q.requestedAt) >= R!LastAuditAt(log)
    BY <1>2, <1>3 DEF R!LaterOf
  <2>2. \/ at = R!LaterOf(R!NonRegressing(t, log), q.requestedAt)
        \/ at = q.expiresAt /\ R!LaterOf(R!NonRegressing(t, log), q.requestedAt) < q.expiresAt
    BY DEF R!CheckedAt
  <2> HIDE DEF at, q
  <2>3. QED
    BY <1>2, <1>3, <2>1, <2>2
<1>5. /\ e.type = "boundary" /\ e.auth = q.auth /\ e.boundary = q.boundary /\ e.at = at
      /\ e.process = q.process /\ e.revision = q.revision /\ e.reason = R!BoundaryReason(q, State, at)
  BY DEF R!CheckEvent
<1> HIDE DEF at
<1>6. e.reason = "ALLOWED" => R!ModeAllows(State.mode, q.boundary)
  <2> HIDE DEF q
  <2>1. QED
    BY <1>5 DEF R!BoundaryReason, R!StandingReason
<1>7. Addable(e)
  BY <1>4, <1>5 DEF Addable, GrantedSound, GrantSound
<1>8. QED
  BY <1>5, <1>6, <1>7 DEF IsCheck, Answers

SharedStep ==
  \/ \E p \in Processes : (\E t \in Readings : Consume(p, t)) \/ Abandon(p) \/ Supersede(p)
  \/ Tick \/ \E m \in {"STOPPED", "RESEARCH", "PROPOSE_ONLY"} : SetMode(m)

SharedMoves ==
  \A p \in Processes : job'[p] = job[p] \/ job'[p] = Idle \/ (At(p, "granted") /\ Receipt(p))

\* Mode events are dated.
LEMMA ModeEventsAre ==
  ASSUME LogSound(log), now \in Nat, NEW e, e.at = R!NonRegressing(now, log), e.type # "boundary"
  PROVE  Addable(e) /\ ~IsCheck(e)
  BY LastDate DEF Addable, IsCheck

\* A new mode event or nothing: all commands stay where they are.
LEMMA LogMovesAlone ==
  ASSUME CommandInv, UNCHANGED job, now' \in Nat, log' = log \/ \E e : Addable(e) /\ ~IsCheck(e) /\ Grown(e)
  PROVE  CommandInv' /\ LogStays /\ SharedMoves
<1>1. LogSound(log) /\ now \in Nat
  BY DEF CommandInv
<1>2. LogSound(log') /\ LogStays
  BY <1>1, LogKept
<1>3. ASSUME NEW p \in Processes, At(p, "granted") PROVE GrantedSound(p)'
  <2>1. GrantedSound(p)
    BY <1>3 DEF CommandInv, JobSound
  <2>2. CASE log' = log
    BY <2>1, <2>2 DEF GrantedSound, GrantSound
  <2>3. ASSUME NEW e, ~IsCheck(e), Grown(e) PROVE GrantedSound(p)'
    BY <1>1, <1>2, <2>1, <2>3, GrantsStay
  <2>4. QED
    BY <2>2, <2>3
<1>4. CommandInv'
  BY <1>2, <1>3, CommandsKeep DEF CommandInv, JobMoves
<1>5. QED
  BY <1>2, <1>4 DEF SharedMoves

\* The shared steps keep the log and move each command by at most its check.
LEMMA SharedKeeps ==
  ASSUME CommandInv, SharedStep
  PROVE  CommandInv' /\ LogStays /\ SharedMoves
<1>1. LogSound(log) /\ now \in Nat /\ job = [p \in Processes |-> job[p]]
  BY DEF CommandInv
<1>2. ASSUME NEW p \in Processes, Supersede(p) PROVE CommandInv' /\ LogStays /\ SharedMoves
  <2> DEFINE e == R!StopEvent("startup", State, p, p, R!NonRegressing(now, log))
  <2>1. e.at = R!NonRegressing(now, log) /\ e.type # "boundary"
    BY DEF R!StopEvent
  <2>2. Grown(e) /\ UNCHANGED <<now, job>>
    BY <1>2 DEF Supersede, Grown
  <2> HIDE DEF e
  <2>3. QED
    BY <1>1, <2>1, <2>2, ModeEventsAre, LogMovesAlone
<1>3. ASSUME NEW m, SetMode(m) PROVE CommandInv' /\ LogStays /\ SharedMoves
  <2>1. PICK e : /\ e.at = R!NonRegressing(now, log) /\ e.type # "boundary"
                 /\ Grown(e) /\ UNCHANGED <<now, job>>
    BY <1>3 DEF SetMode, Grown, R!StopEvent, R!TransitionEvent
  <2>2. QED
    BY <1>1, <2>1, ModeEventsAre, LogMovesAlone
<1>4. CASE Tick
  BY <1>1, <1>4, LogMovesAlone DEF Tick
<1>5. ASSUME NEW p \in Processes, Abandon(p) PROVE CommandInv' /\ LogStays /\ SharedMoves
  <2>1. log' = log /\ now' = now /\ job' = [job EXCEPT ![p] = Idle]
    BY <1>5 DEF Abandon, Goto
  <2>2. LogSound(log') /\ LogStays
    BY <1>1, <2>1, LogKept
  <2>3. \A q \in Processes : job'[q] = job[q] \/ job'[q] = Idle
    BY <1>1, <2>1
  <2>4. job' = [q \in Processes |-> job'[q]]
    BY <1>1, <2>1
  <2>5. \A q \in Processes : At(q, "granted") /\ job'[q] = job[q] => GrantedSound(q)'
    BY <2>1 DEF CommandInv, JobSound, GrantedSound, GrantSound
  <2>6. QED
    BY <1>1, <2>1, <2>2, <2>3, <2>4, <2>5, CommandsKeep DEF JobMoves, SharedMoves
<1>6. ASSUME NEW p \in Processes, NEW t \in Readings, Consume(p, t) PROVE CommandInv' /\ LogStays /\ SharedMoves
  <2> DEFINE e == R!CheckEvent(job[p].q, State, R!CheckedAt(job[p].q, t))
             done == [stage |-> "receipted", q |-> job[p].q, about |-> job[p].about,
                      state |-> job[p].state, sequence |-> Len(log) + 1, checkedAt |-> e.at]
  <2>1. At(p, "granted") /\ GrantedSound(p)
    BY <1>6 DEF Consume, CommandInv, JobSound
  <2>2. /\ IsCheck(e) /\ Addable(e) /\ e.auth = job[p].q.auth
        /\ e.reason = "ALLOWED" =>
             Answers(e, job[p].q) /\ R!ModeAllows(State.mode, job[p].q.boundary)
    BY <1>1, <2>1, ChecksAre
  <2>3. /\ Grown(e) /\ now' = now
        /\ job' = [job EXCEPT ![p] = IF e.reason # "ALLOWED" THEN Idle ELSE done]
    BY <1>6 DEF Consume, Goto, Grown
  <2> HIDE DEF e
  <2>4. LogSound(log') /\ LogStays
    BY <1>1, <2>2, <2>3, LogKept
  <2>5. job'[p] = Idle \/ (At(p, "granted") /\ Receipt(p))
    <3>1. CASE e.reason # "ALLOWED"
      BY <1>1, <2>3, <3>1
    <3>2. CASE e.reason = "ALLOWED"
      BY <1>1, <2>1, <2>2, <2>3, <3>2 DEF Receipt
    <3>3. QED
      BY <3>1, <3>2
  <2>6. \A q \in Processes : q # p => job'[q] = job[q]
    BY <1>1, <2>3
  <2>7. job' = [q \in Processes |-> job'[q]]
    BY <1>1, <2>3
  <2>8. ASSUME NEW q \in Processes, At(q, "granted"), job'[q] = job[q] PROVE GrantedSound(q)'
    <3>1. q # p
      <4>1. job'[p].stage # "granted"
        <5>1. CASE job'[p] = Idle
          BY <5>1 DEF Idle
        <5>2. CASE Receipt(p)
          BY <5>2 DEF Receipt
        <5>3. QED
          BY <2>5, <5>1, <5>2
      <4>2. QED
        BY <2>8, <4>1 DEF At
    <3>2. GrantedSound(q)
      BY <2>8 DEF CommandInv, JobSound
    <3>3. e.auth.id # job[q].q.auth.id
      BY <2>1, <2>2, <3>1, <3>2 DEF GrantedSound, GrantSound
    <3>4. QED
      BY <1>1, <2>3, <2>4, <2>8, <3>2, <3>3, GrantsStay
  <2>9. SharedMoves
    BY <2>5, <2>6 DEF SharedMoves
  <2>10. QED
    BY <1>1, <2>3, <2>4, <2>7, <2>8, <2>9, CommandsKeep DEF JobMoves, SharedMoves
<1>7. QED
  BY <1>2, <1>3, <1>4, <1>5, <1>6 DEF SharedStep

\* A command that begins has an authorization that is its own and new.
LEMMA CommandBegins ==
  ASSUME CommandInv, NEW p \in Processes, NEW t \in Readings, NEW boundary, NEW action, NEW about, NEW state,
         job' = [job EXCEPT ![p] = Command(Grant(p, boundary, action, t), about, state)],
         UNCHANGED <<log, now>>
  PROVE  CommandInv'
<1> DEFINE q == Grant(p, boundary, action, t)
<1>1. LogSound(log) /\ now \in Nat /\ job = [x \in Processes |-> job[x]] /\ t \in Nat
  BY ReadingsAre DEF CommandInv
<1>2. LogSound(log') /\ LogStays
  BY <1>1, LogKept
<1>3. R!NonRegressing(t, log) \in Nat /\ Len(log) \in Nat
  BY <1>1, LastDate, SeqFacts DEF LogSound
<1>4. /\ q.process = p /\ q.requestedAt \in Nat /\ q.expiresAt \in Nat /\ q.auth.id = <<p, Len(log)>>
  BY <1>3, LifetimeAssumption DEF Grant
<1> HIDE DEF q
<1>5. job'[p].stage = "granted" /\ job'[p].q = q
  BY <1>1 DEF Command, q
<1>6. GrantSound(p, job[p].q)'
  BY <1>3, <1>4, <1>5 DEF GrantSound
<1>7. \A i \in 1..Len(log) : IsCheck(log[i]) => log[i].auth.id # q.auth.id
  BY <1>1, <1>3, <1>4 DEF LogSound
<1>8. GrantedSound(p)'
  BY <1>5, <1>6, <1>7 DEF GrantedSound
<1>9. \A x \in Processes : x # p => job'[x] = job[x]
  BY <1>1
<1>10. \A x \in Processes : JobMoves(x)
  BY <1>5, <1>8, <1>9 DEF JobMoves
<1>11. \A x \in Processes : At(x, "granted") /\ job'[x] = job[x] => GrantedSound(x)'
  BY DEF CommandInv, JobSound, GrantedSound, GrantSound
<1>12. job' = [x \in Processes |-> job'[x]]
  BY <1>1
<1>13. QED
  BY <1>1, <1>2, <1>10, <1>11, <1>12, CommandsKeep

\* One that ends, or has committed, relies on nothing.
LEMMA CommandEnds ==
  ASSUME CommandInv, NEW p \in Processes, job'[p].stage \in {"idle", "committed"},
         \E j : job' = [job EXCEPT ![p] = j], UNCHANGED <<log, now>>
  PROVE  CommandInv'
<1>1. LogSound(log) /\ now \in Nat /\ job = [x \in Processes |-> job[x]]
  BY DEF CommandInv
<1>2. LogSound(log') /\ LogStays
  BY <1>1, LogKept
<1>3. \A x \in Processes : JobMoves(x)
  BY <1>1 DEF JobMoves
<1>4. \A x \in Processes : At(x, "granted") /\ job'[x] = job[x] => GrantedSound(x)'
  BY DEF CommandInv, JobSound, GrantedSound, GrantSound
<1>5. job' = [x \in Processes |-> job'[x]]
  BY <1>1
<1>6. QED
  BY <1>1, <1>2, <1>3, <1>4, <1>5, CommandsKeep

\* Nor does a step that leaves the commands alone disturb them.
LEMMA CommandsUnmoved == ASSUME CommandInv, UNCHANGED commandVars PROVE CommandInv' /\ LogStays
<1>1. LogSound(log') /\ LogStays
  BY LogKept DEF CommandInv, commandVars
<1>2. CommandInv'
  BY DEF CommandInv, commandVars, JobSound, GrantedSound, ReceiptedSound, GrantSound, At
<1>3. QED
  BY <1>1, <1>2

\* At the start there are a startup and the mode events of the operator.
LEMMA CommandsInitially ==
  ASSUME NEW p, NEW modes, CommandInit(p, modes), modes = <<"RESEARCH">> \/ modes = <<"RESEARCH", "PROPOSE_ONLY">>
  PROVE  CommandInv
<1> DEFINE first == R!StopEvent("startup", R!State(<<>>), p, p, 0)
           start == <<first>>
           Raised(l, m) == R!TransitionEvent(R!State(l), m, Len(l), 0)
           ModesOnly(l) == /\ IsSeq(l) /\ l # <<>> /\ HasLast(l)
                           /\ \A i \in 1..Len(l) : l[i].at = 0 /\ ~IsCheck(l[i])
<1>1. ModesOnly(start)
  <2>1. start = Append(<<>>, first)
    OBVIOUS
  <2>2. ~IsCheck(first) /\ first.at = 0
    BY DEF R!StopEvent, IsCheck
  <2> HIDE DEF first
  <2>3. HasLast(start) /\ IsSeq(start)
    <3> HIDE DEF start
    <3>1. HasLast(Append(<<>>, first)) /\ IsSeq(Append(<<>>, first))
      BY <2>2, ModeIsLast, EmptyIsSeq, AppendFacts
    <3>2. QED
      BY <2>1, <3>1
  <2>4. QED
    BY <2>2, <2>3
<1>2. ASSUME NEW l, ModesOnly(l), NEW m PROVE ModesOnly(Append(l, Raised(l, m)))
  <2> DEFINE e == Raised(l, m)
  <2>1. ~IsCheck(e) /\ e.at = 0
    BY DEF R!TransitionEvent, IsCheck
  <2> HIDE DEF e
  <2>2. HasLast(Append(l, e))
    BY <1>2, <2>1, ModeIsLast
  <2>3. /\ IsSeq(Append(l, e)) /\ Len(Append(l, e)) = Len(l) + 1 /\ Len(l) \in Nat
        /\ Append(l, e)[Len(l) + 1] = e
        /\ \A i \in 1..Len(l) : Append(l, e)[i] = l[i]
    BY <1>2, AppendFacts
  <2>4. Append(l, e) # <<>>
    BY <2>3, EmptyIsSeq
  <2>5. ModesOnly(Append(l, e))
    BY <1>2, <2>1, <2>2, <2>3, <2>4
  <2>6. QED
    BY <2>5 DEF e
<1>3. \/ log = Append(start, Raised(start, modes[1]))
      \/ log = Append(Append(start, Raised(start, modes[1])),
                      Raised(Append(start, Raised(start, modes[1])), modes[2]))
  BY Zenon DEF CommandInit
<1>4. ModesOnly(log)
  <2> HIDE DEF ModesOnly, start, Raised
  <2>1. QED
    BY <1>1, <1>2, <1>3
<1>5. LogSound(log)
  <2> HIDE DEF start, Raised
  <2>1. QED
    BY <1>4 DEF LogSound
<1>6. now = 0 /\ job = [q \in Processes |-> Idle]
  BY DEF CommandInit
<1>7. \A q \in Processes : JobSound(q)
  BY <1>6 DEF JobSound, At, Idle
<1>8. QED
  BY <1>5, <1>6, <1>7 DEF CommandInv

-----------------------------------------------------------------------------
(* The watchlist. *)

\* Vouched, of a given log.
VouchedIn(l, sequence, boundary, action, process, revision, at) ==
  /\ sequence \in 1..Len(l)
  /\ Answers(l[sequence], [boundary |-> boundary, auth |-> l[sequence].auth, process |-> process, revision |-> revision])
  /\ l[sequence].auth.action = action /\ l[sequence].at = at

\* The two agree, and what is vouched for stays so.
LEMMA VouchedIs ==
  ASSUME LogSound(log), NEW sequence, NEW boundary, NEW action, NEW process, NEW revision, NEW at
  PROVE  Vouched(sequence, boundary, action, process, revision, at)
           <=> VouchedIn(log, sequence, boundary, action, process, revision, at)
  BY SeqFacts DEF LogSound, Vouched, VouchedIn, Answers, IsCheck

\* A receipt is vouched for.
LEMMA ReceiptsVouch ==
  ASSUME NEW p \in Processes, CommandInv, At(p, "receipted")
  PROVE  /\ VouchedIn(log, job[p].sequence, job[p].q.boundary, job[p].q.auth.action, p,
                      job[p].q.revision, job[p].checkedAt)
         /\ log[job[p].sequence].auth = job[p].q.auth
  BY DEF CommandInv, JobSound, ReceiptedSound, GrantSound, VouchedIn, Answers

\* What a preview shows, and what a command is bound to.
Shown(b) ==
  /\ b.snapshot \in Rankings /\ b.predecessor \in Rankings \cup {None} /\ b.at \in Nat
  /\ b.rows = Movement(b.snapshot, b.predecessor) /\ b.stale = StaleAt(b.snapshot, b.at)

WatchJob(p) ==
  At(p, "granted") \/ At(p, "receipted") =>
    /\ job[p].about \in previews /\ job[p].about.process = p
    /\ job[p].about.revision = job[p].q.revision
    /\ job[p].q.boundary = "watchlist_import" /\ job[p].q.auth.action = job[p].about.snapshot

\* A record is as it was shown after another one, and has the authorization of its check.
OnRecord(r, before, shown, l) ==
  /\ l[r.sequence].auth.id = r.auth
  /\ \E b \in shown :
       /\ b.snapshot = r.snapshot /\ b.at <= r.importedAt
       /\ b.rows = Movement(r.snapshot, before) /\ b.stale = StaleAt(r.snapshot, r.importedAt)
       /\ VouchedIn(l, r.sequence, "watchlist_import", r.snapshot, b.process, b.revision, r.importedAt)

RecordSound(records, n, shown, l) ==
  /\ ImportReplays(records, n)
  /\ records[n].snapshot \in Rankings
  /\ OnRecord(records[n], LastSnapshot(SubSeq(records, 1, n - 1)), shown, l)

WatchInv ==
  /\ IsSeq(history) /\ Len(history) <= MaxImports
  /\ \A b \in previews : Shown(b)
  /\ \A p \in Processes : WatchJob(p)
  /\ \A n \in 1..Len(history) : RecordSound(history, n, previews, log)
  /\ \A a \in told : a.place \in 1..Len(history) /\ a = Answer(a.place, history[a.place])

\* What was compared is listed row by row.
LEMMA RowsAreDistinct ==
  ASSUME NEW s \in Rankings, NEW previous \in Rankings \cup {None}
  PROVE  \A x, y \in Movement(s, previous) : x.addresses = y.addresses => x = y
<1> DEFINE new == {[addresses |-> s.rows[n].addresses, rank |-> n, previous |-> RankOf(s.rows[n], previous)] : n \in DOMAIN s.rows}
           gone == IF previous = None THEN {}
                   ELSE {[addresses |-> previous.rows[n].addresses, rank |-> None, previous |-> n] :
                           n \in {k \in DOMAIN previous.rows : RankOf(previous.rows[k], s) = None}}
<1>1. Movement(s, previous) = new \cup gone
  BY DEF Movement
<1>2. /\ \A m, n \in DOMAIN s.rows : s.rows[m].addresses = s.rows[n].addresses => m = n
      /\ s # None /\ DOMAIN s.rows \subseteq Nat
  <2> DEFINE S == {s.rows[n] : n \in DOMAIN s.rows}
  <2>1. s.rows \in Seq(S)
    BY SnapshotsAssumption
  <2> HIDE DEF S
  <2>2. DOMAIN s.rows \subseteq Nat
    BY <2>1
  <2>3. QED
    BY <2>2, SnapshotsAssumption
<1>3. ASSUME NEW x \in new, NEW y \in new, x.addresses = y.addresses PROVE x = y
  BY <1>2, <1>3
<1>4. ASSUME NEW x \in gone, NEW y \in gone, x.addresses = y.addresses PROVE x = y
  <2>1. previous \in Rankings
    BY <1>4
  <2>2. \A m, n \in DOMAIN previous.rows : previous.rows[m].addresses = previous.rows[n].addresses => m = n
    BY <2>1, SnapshotsAssumption
  <2>3. QED
    BY <1>4, <2>1, <2>2
<1>5. ASSUME NEW x \in new, NEW y \in gone PROVE x.addresses # y.addresses
  <2>1. PICK n \in DOMAIN s.rows : x.addresses = s.rows[n].addresses
    BY <1>5
  <2>2. PICK k \in DOMAIN previous.rows : y.addresses = previous.rows[k].addresses /\ RankOf(previous.rows[k], s) = None
    BY <1>5
  <2> DEFINE found == {m \in DOMAIN s.rows : SameCollection(s.rows[m], previous.rows[k])}
  <2>3. ASSUME found # {} PROVE FALSE
    <3>1. RankOf(previous.rows[k], s) = CHOOSE m \in found : TRUE
      BY <1>2, <2>3 DEF RankOf
    <3>2. RankOf(previous.rows[k], s) \in found
      BY <2>3, <3>1
    <3>3. QED
      BY <1>2, <2>2, <3>2, SnapshotsAssumption
  <2>4. ASSUME s.rows[n].addresses = previous.rows[k].addresses PROVE FALSE
    BY <2>3, <2>4 DEF SameCollection
  <2>5. QED
    BY <2>1, <2>2, <2>4
<1> HIDE DEF new, gone
<1>6. QED
  BY <1>1, <1>3, <1>4, <1>5

\* The property follows.
LEMMA WatchInvIsEnough == ASSUME CommandInv, WatchInv PROVE ImportsAreConfirmed
<1>1. DOMAIN history = 1..Len(history) /\ LogSound(log)
  BY SeqFacts DEF WatchInv, CommandInv
<1>2. Replays(history)
  BY <1>1 DEF WatchInv, RecordSound, Replays
<1>3. ASSUME NEW n \in 1..Len(history)
      PROVE  \E b \in previews :
               /\ b.snapshot = history[n].snapshot /\ b.at <= history[n].importedAt
               /\ b.rows = Movement(history[n].snapshot, LastSnapshot(SubSeq(history, 1, n - 1)))
               /\ b.stale = StaleAt(history[n].snapshot, history[n].importedAt)
               /\ Vouched(history[n].sequence, "watchlist_import", history[n].snapshot, b.process, b.revision,
                          history[n].importedAt)
               /\ \A x, y \in b.rows : x.addresses = y.addresses => x = y
  <2>1. OnRecord(history[n], LastSnapshot(SubSeq(history, 1, n - 1)), previews, log)
    BY DEF WatchInv, RecordSound
  <2>2. PICK b \in previews :
          /\ b.snapshot = history[n].snapshot /\ b.at <= history[n].importedAt
          /\ b.rows = Movement(history[n].snapshot, LastSnapshot(SubSeq(history, 1, n - 1)))
          /\ b.stale = StaleAt(history[n].snapshot, history[n].importedAt)
          /\ VouchedIn(log, history[n].sequence, "watchlist_import", history[n].snapshot, b.process, b.revision,
                       history[n].importedAt)
    BY <2>1 DEF OnRecord
  <2>3. \A x, y \in b.rows : x.addresses = y.addresses => x = y
    BY RowsAreDistinct DEF WatchInv, Shown
  <2>4. QED
    BY <1>1, <2>2, <2>3, VouchedIs
<1>4. QED
  BY <1>1, <1>2, <1>3 DEF ImportsAreConfirmed, WatchInv

\* What was recorded stays recorded while the log and the previews grow.
LEMMA OnRecordStays ==
  ASSUME NEW r, NEW before, NEW shown, NEW more, shown \subseteq more, LogStays,
         OnRecord(r, before, shown, log)
  PROVE  OnRecord(r, before, more, log')
<1>1. PICK b \in shown :
        /\ b.snapshot = r.snapshot /\ b.at <= r.importedAt
        /\ b.rows = Movement(r.snapshot, before) /\ b.stale = StaleAt(r.snapshot, r.importedAt)
        /\ VouchedIn(log, r.sequence, "watchlist_import", r.snapshot, b.process, b.revision, r.importedAt)
  BY DEF OnRecord
<1>2. VouchedIn(log', r.sequence, "watchlist_import", r.snapshot, b.process, b.revision, r.importedAt)
  BY <1>1 DEF VouchedIn, LogStays
<1>3. r.sequence \in 1..Len(log)
  BY <1>1 DEF VouchedIn
<1>4. log'[r.sequence].auth.id = r.auth
  BY <1>3 DEF OnRecord, LogStays
<1>5. QED
  BY <1>1, <1>2, <1>4 DEF OnRecord

\* Commands go on as they began.
LEMMA WatchJobsGoOn ==
  ASSUME NEW p \in Processes, WatchJob(p), previews \subseteq previews',
         job'[p] = job[p] \/ job'[p] = Idle \/ (At(p, "granted") /\ Receipt(p))
  PROVE  WatchJob(p)'
<1>1. CASE job'[p] = job[p]
  BY <1>1 DEF WatchJob, At
<1>2. CASE job'[p] = Idle
  BY <1>2 DEF WatchJob, At, Idle
<1>3. CASE At(p, "granted") /\ Receipt(p)
  <2>1. job'[p].about = job[p].about /\ job'[p].q = job[p].q
    BY <1>3 DEF Receipt
  <2>2. QED
    BY <1>3, <2>1 DEF WatchJob
<1>4. QED
  BY <1>1, <1>2, <1>3

\* As long as the history and what was told stay.
LEMMA HistoryStays ==
  ASSUME WatchInv, LogStays, UNCHANGED <<history, told>>, previews \subseteq previews',
         \A b \in previews' : Shown(b), \A p \in Processes : WatchJob(p)'
  PROVE  WatchInv'
<1>1. ASSUME NEW n \in 1..Len(history) PROVE RecordSound(history, n, previews', log')
  BY OnRecordStays DEF WatchInv, RecordSound
<1>2. QED
  BY <1>1 DEF WatchInv

\* The steps that every store shares.
LEMMA WatchShared ==
  ASSUME CommandInv, WatchInv, SharedStep, UNCHANGED watchlistVars
  PROVE  WatchInv'
<1>1. LogStays /\ SharedMoves
  BY SharedKeeps
<1>2. previews' = previews /\ history' = history /\ told' = told
  BY DEF watchlistVars
<1>3. \A p \in Processes : WatchJob(p)'
  BY <1>1, <1>2, WatchJobsGoOn DEF WatchInv, SharedMoves
<1>4. QED
  BY <1>1, <1>2, <1>3, HistoryStays DEF WatchInv

\* preview.
LEMMA WatchPreview ==
  ASSUME CommandInv, WatchInv, NEW p \in Processes, NEW s \in Rankings, NEW t \in Readings, PreviewImport(p, s, t)
  PROVE  CommandInv' /\ WatchInv'
<1> DEFINE before == LastSnapshot(history)
           b == [snapshot |-> s, predecessor |-> before, process |-> p, revision |-> State.revision,
                 at |-> t, rows |-> Movement(s, before), stale |-> StaleAt(s, t)]
<1>1. previews' = previews \cup {b} /\ UNCHANGED <<commandVars, history, told>>
  BY DEF PreviewImport
<1>2. CommandInv' /\ LogStays
  BY <1>1, CommandsUnmoved
<1>3. before \in Rankings \cup {None}
  BY SeqFacts DEF LastSnapshot, Final, WatchInv, RecordSound
<1>4. t \in Nat
  BY ReadingsAre DEF CommandInv
<1> HIDE DEF before
<1>5. Shown(b)
  BY <1>3, <1>4 DEF Shown
<1> HIDE DEF b
<1>6. \A x \in previews' : Shown(x)
  BY <1>1, <1>5 DEF WatchInv
<1>7. \A x \in Processes : WatchJob(x)'
  BY <1>1, WatchJobsGoOn DEF WatchInv, commandVars
<1>8. QED
  BY <1>1, <1>2, <1>6, <1>7, HistoryStays

\* importSnapshot, up to the consumption.
LEMMA WatchConfirm ==
  ASSUME CommandInv, WatchInv, NEW p \in Processes, NEW b \in previews, NEW t \in Readings, Confirm(p, b, t)
  PROVE  CommandInv' /\ WatchInv'
<1> DEFINE q == Grant(p, "watchlist_import", b.snapshot, t)
<1>1. /\ job' = [job EXCEPT ![p] = Command(q, b, None)] /\ UNCHANGED <<log, now, watchlistVars>>
      /\ b.process = p /\ b.revision = q.revision
  BY DEF Confirm, Goto
<1>2. CommandInv'
  BY <1>1, CommandBegins
<1>3. LogStays
  BY <1>1, LogKept DEF CommandInv
<1>4. q.boundary = "watchlist_import" /\ q.auth.action = b.snapshot
  BY DEF Grant
<1> HIDE DEF q
<1>5. job = [x \in Processes |-> job[x]]
  BY DEF CommandInv
<1>6. job'[p].about = b /\ job'[p].q = q
  BY <1>1, <1>5 DEF Command
<1>7. previews' = previews /\ history' = history /\ told' = told
  BY <1>1 DEF watchlistVars
<1>8. WatchJob(p)'
  BY <1>1, <1>4, <1>6, <1>7 DEF WatchJob
<1>9. \A x \in Processes : x # p => job'[x] = job[x]
  BY <1>1, <1>5
<1>10. \A x \in Processes : WatchJob(x)'
  BY <1>7, <1>8, <1>9, WatchJobsGoOn DEF WatchInv
<1>11. QED
  BY <1>2, <1>3, <1>7, <1>10, HistoryStays DEF WatchInv

\* A history that a sound record is added to.
LEMMA HistoryGrows ==
  ASSUME WatchInv, NEW r, Len(history) < MaxImports, RecordSound(Append(history, r), Len(history) + 1, previews, log)
  PROVE  /\ IsSeq(Append(history, r)) /\ Len(Append(history, r)) = Len(history) + 1
         /\ Len(history) + 1 <= MaxImports /\ Len(history) \in Nat
         /\ Append(history, r)[Len(history) + 1] = r
         /\ \A n \in 1..Len(history) : Append(history, r)[n] = history[n]
         /\ \A n \in 1..(Len(history) + 1) : RecordSound(Append(history, r), n, previews, log)
<1> DEFINE h == Append(history, r)
<1>1. /\ IsSeq(h) /\ Len(h) = Len(history) + 1 /\ Len(history) \in Nat /\ h[Len(history) + 1] = r
      /\ \A n \in 1..Len(history) : h[n] = history[n]
      /\ \A k \in 0..Len(history) : SubSeq(h, 1, k) = SubSeq(history, 1, k)
  BY AppendFacts DEF WatchInv
<1>2. RecordSound(h, Len(history) + 1, previews, log)
  OBVIOUS
<1> HIDE DEF h
<1>3. ASSUME NEW n \in 1..Len(history) PROVE RecordSound(h, n, previews, log)
  <2>1. /\ h[n] = history[n] /\ SubSeq(h, 1, n - 1) = SubSeq(history, 1, n - 1)
        /\ n > 1 => h[n - 1] = history[n - 1]
        /\ \A k \in 1..(n - 1) : h[k] = history[k]
    BY <1>1
  <2>2. RecordSound(history, n, previews, log)
    BY DEF WatchInv
  <2>3. ImportReplays(h, n)
    BY <2>1, <2>2 DEF RecordSound, ImportReplays
  <2>4. QED
    BY <2>1, <2>2, <2>3 DEF RecordSound
<1>4. Len(history) + 1 <= MaxImports
  BY <1>1, ValidityAssumption
<1>5. \A n \in 1..(Len(history) + 1) : RecordSound(h, n, previews, log)
  BY <1>1, <1>2, <1>3
<1>6. QED
  BY <1>1, <1>4, <1>5 DEF h

\* What the commit callback records is as it was shown and allowed.
LEMMA ImportIsSound ==
  ASSUME CommandInv, WatchInv, NEW p \in Processes, At(p, "receipted"), NEW at \in Nat,
         NEW b, b = job[p].about, b.at <= job[p].checkedAt, job[p].checkedAt <= at, b.snapshot.acquired <= b.at,
         Existing(b.snapshot) = {}, Importable(p, b, at),
         NEW r, r = [snapshot |-> b.snapshot, predecessor |-> b.predecessor, importedAt |-> job[p].checkedAt,
                     auth |-> job[p].q.auth.id, sequence |-> job[p].sequence]
  PROVE  RecordSound(Append(history, r), Len(history) + 1, previews, log)
<1> DEFINE h == Append(history, r)
           N == Len(history) + 1
<1>1. /\ IsSeq(h) /\ Len(history) \in Nat /\ h[N] = r
      /\ \A n \in 1..Len(history) : h[n] = history[n]
      /\ SubSeq(h, 1, N - 1) = history
      /\ DOMAIN history = 1..Len(history) /\ (history = <<>> <=> Len(history) = 0)
  <2>1. N - 1 = Len(history)
    BY SeqFacts DEF WatchInv
  <2>2. QED
    BY <2>1, AppendFacts, SeqFacts DEF WatchInv
<1>2. /\ b \in previews /\ b.process = p /\ b.revision = job[p].q.revision
      /\ job[p].q.boundary = "watchlist_import" /\ job[p].q.auth.action = b.snapshot
  BY DEF WatchInv, WatchJob
<1>3. /\ VouchedIn(log, r.sequence, "watchlist_import", r.snapshot, b.process, b.revision, r.importedAt)
      /\ log[r.sequence].auth.id = r.auth
  BY <1>2, ReceiptsVouch
<1>4. r.importedAt \in Nat
  BY <1>3 DEF VouchedIn, CommandInv, LogSound
<1>5. Shown(b)
  BY <1>2 DEF WatchInv
<1>6. b.predecessor = LastSnapshot(history)
  BY DEF Importable
<1>7. b.stale = StaleAt(b.snapshot, r.importedAt)
  <2>1. b.snapshot.acquired \in Nat /\ b.at \in Nat /\ b.stale = StaleAt(b.snapshot, b.at)
    BY <1>5, SnapshotsAssumption DEF Shown
  <2>2. b.stale = StaleAt(b.snapshot, at)
    BY DEF Importable
  <2>3. QED
    BY <1>4, <2>1, <2>2, ValidityAssumption DEF StaleAt
<1>8. ASSUME NEW k \in 1..Len(history) PROVE history[k].snapshot # r.snapshot /\ history[k].auth # r.auth
  <2>1. history[k].snapshot # r.snapshot
    BY <1>1 DEF Existing
  <2>2. OnRecord(history[k], LastSnapshot(SubSeq(history, 1, k - 1)), previews, log)
    BY DEF WatchInv, RecordSound
  <2>3. /\ history[k].sequence \in 1..Len(log) /\ IsCheck(log[history[k].sequence])
        /\ log[history[k].sequence].auth.id = history[k].auth
    BY <2>2 DEF OnRecord, VouchedIn, Answers
  <2>4. r.sequence \in 1..Len(log) /\ IsCheck(log[r.sequence])
    BY <1>3 DEF VouchedIn, Answers
  <2>5. history[k].sequence # r.sequence
    BY <1>1 DEF Importable
  <2>6. QED
    BY <1>3, <2>1, <2>3, <2>4, <2>5 DEF CommandInv, LogSound
<1>9. Len(history) > 0 => /\ r.snapshot.acquired > history[Len(history)].snapshot.acquired
                          /\ r.sequence > history[Len(history)].sequence
  BY <1>1 DEF Importable, Final
<1>10. r.snapshot.acquired <= r.importedAt
  <2>1. b.snapshot.acquired \in Nat /\ b.at \in Nat
    BY <1>5, SnapshotsAssumption DEF Shown
  <2>2. b.snapshot.acquired <= b.at /\ b.at <= r.importedAt /\ r.snapshot = b.snapshot
    OBVIOUS
  <2> HIDE DEF h, N
  <2>3. QED
    BY <1>4, <2>1, <2>2
<1>11. r.predecessor = b.predecessor /\ r.snapshot = b.snapshot /\ r.snapshot \in Rankings
  BY <1>5 DEF Shown
<1> HIDE DEF h
<1>12. ImportReplays(h, N)
  <2>1. r.predecessor = LastSnapshot(SubSeq(h, 1, N - 1))
    BY <1>1, <1>6, <1>11
  <2>2. N > 1 => /\ r.snapshot.acquired > h[N - 1].snapshot.acquired
                 /\ r.sequence > h[N - 1].sequence
    BY <1>1, <1>9
  <2>3. \A k \in 1..(N - 1) : h[k].snapshot # r.snapshot /\ h[k].auth # r.auth
    BY <1>1, <1>8
  <2>4. QED
    BY <1>1, <1>10, <2>1, <2>2, <2>3 DEF ImportReplays
<1>13. OnRecord(r, LastSnapshot(history), previews, log)
  <2>1. b.rows = Movement(r.snapshot, LastSnapshot(history))
    BY <1>5, <1>6, <1>11 DEF Shown
  <2>2. b.at <= r.importedAt
    OBVIOUS
  <2>3. QED
    BY <1>2, <1>3, <1>7, <1>11, <2>1, <2>2 DEF OnRecord
<1>14. RecordSound(h, N, previews, log)
  BY <1>1, <1>11, <1>12, <1>13 DEF RecordSound
<1>15. QED
  BY <1>14 DEF h

\* The commit callback.
LEMMA WatchImport ==
  ASSUME CommandInv, WatchInv, NEW p \in Processes, NEW t \in Readings, Import(p, t)
  PROVE  CommandInv' /\ WatchInv'
<1> DEFINE b == job[p].about
           at == Checkpoint(p, t)
           r == [snapshot |-> b.snapshot, predecessor |-> b.predecessor, importedAt |-> job[p].checkedAt,
                 auth |-> job[p].q.auth.id, sequence |-> job[p].sequence]
<1>1. At(p, "receipted") /\ job' = [job EXCEPT ![p] = Idle] /\ UNCHANGED <<log, now, previews>>
  BY DEF Import, Goto
<1>2. CommandInv'
  <2>1. job'[p].stage \in {"idle", "committed"}
    BY <1>1 DEF Idle, CommandInv
  <2>2. \E j : job' = [job EXCEPT ![p] = j]
    BY <1>1
  <2>3. QED
    BY <1>1, <2>1, <2>2, CommandEnds
<1>3. LogStays
  BY <1>1, LogKept DEF CommandInv
<1>4. \A x \in Processes : job'[x] = job[x] \/ job'[x] = Idle
  BY <1>1 DEF CommandInv
<1>5. ASSUME NEW x \in Processes PROVE WatchJob(x)'
  <2>1. WatchJob(x) /\ previews \subseteq previews'
    BY <1>1 DEF WatchInv
  <2>2. QED
    BY <1>4, <2>1, WatchJobsGoOn
<1>6. (\A x \in previews' : Shown(x)) /\ previews' = previews
  BY <1>1 DEF WatchInv
<1>7. CASE UNCHANGED <<history, told>>
  <2>1. WatchInv'
    BY <1>1, <1>3, <1>5, <1>6, <1>7, HistoryStays
  <2>2. QED
    BY <1>2, <2>1
<1>8. CASE /\ \E n \in Existing(b.snapshot) : told' = told \cup {Answer(n, history[n])}
           /\ UNCHANGED history
  <2>1. PICK n \in 1..Len(history) : told' = told \cup {Answer(n, history[n])}
    BY <1>8, SeqFacts DEF Existing, WatchInv
  <2>2. Answer(n, history[n]).place = n
    BY DEF Answer
  <2>3. \A a \in told' : a.place \in 1..Len(history) /\ a = Answer(a.place, history[a.place])
    BY <2>1, <2>2 DEF WatchInv
  <2>4. \A k \in 1..Len(history) : RecordSound(history, k, previews, log)
    BY DEF WatchInv
  <2>5. WatchInv'
    BY <1>1, <1>5, <1>6, <1>8, <2>3, <2>4 DEF WatchInv
  <2>6. QED
    BY <1>2, <2>5
<1>9. CASE /\ b.snapshot.acquired <= b.at /\ b.at <= job[p].checkedAt /\ job[p].checkedAt <= at
           /\ Existing(b.snapshot) = {} /\ Importable(p, b, at)
           /\ history' = Append(history, r)
           /\ told' = told \cup {Answer(Len(history'), r)}
  <2>1. at \in Nat
    <3>1. GrantSound(p, job[p].q)
      BY <1>1 DEF CommandInv, JobSound, ReceiptedSound
    <3>2. t \in Nat /\ LogSound(log)
      BY ReadingsAre DEF CommandInv
    <3>3. R!NonRegressing(t, log) \in Nat
      BY <3>2, LastDate
    <3>4. QED
      BY <3>1, <3>3 DEF Checkpoint, GrantSound, R!LaterOf
  <2> HIDE DEF at
  <2>2. RecordSound(Append(history, r), Len(history) + 1, previews, log)
    BY <1>1, <1>9, <2>1, ImportIsSound
  <2>3. Len(history) < MaxImports
    BY <1>9 DEF Importable
  <2> HIDE DEF r
  <2>4. /\ IsSeq(history') /\ Len(history') = Len(history) + 1
        /\ Len(history') <= MaxImports /\ Len(history) \in Nat
        /\ history'[Len(history) + 1] = r
        /\ \A n \in 1..Len(history) : history'[n] = history[n]
        /\ \A n \in 1..Len(history') : RecordSound(history', n, previews, log)
    BY <1>9, <2>2, <2>3, HistoryGrows
  <2>5. ASSUME NEW a \in told' PROVE a.place \in 1..Len(history') /\ a = Answer(a.place, history'[a.place])
    <3>1. CASE a \in told
      BY <2>4, <3>1 DEF WatchInv
    <3>2. CASE a = Answer(Len(history'), r)
      <4>1. a.place = Len(history')
        BY <3>2 DEF Answer
      <4>2. QED
        BY <2>4, <3>2, <4>1
    <3>3. QED
      BY <1>9, <3>1, <3>2
  <2>6. WatchInv'
    BY <1>1, <1>5, <1>6, <2>4, <2>5 DEF WatchInv
  <2>7. QED
    BY <1>2, <2>6
<1>10. \/ UNCHANGED <<history, told>>
       \/ /\ \E n \in Existing(b.snapshot) : told' = told \cup {Answer(n, history[n])}
          /\ UNCHANGED history
       \/ /\ b.snapshot.acquired <= b.at /\ b.at <= job[p].checkedAt /\ job[p].checkedAt <= at
          /\ Existing(b.snapshot) = {} /\ Importable(p, b, at)
          /\ history' = Append(history, r)
          /\ told' = told \cup {Answer(Len(history'), r)}
  BY Zenon DEF Import
<1>11. QED
  BY <1>2, <1>7, <1>8, <1>9, <1>10

\* Before anything was imported.
LEMMA WatchInitially ==
  ASSUME WatchlistInit, \A p \in Processes : At(p, "idle")
  PROVE  WatchInv
<1>1. \A p \in Processes : WatchJob(p)
  BY DEF WatchJob, At
<1>2. QED
  BY <1>1, EmptyIsSeq, ValidityAssumption DEF WatchlistInit, WatchInv

\* Every step.
LEMMA WatchStepKeeps ==
  ASSUME CommandInv, WatchInv, WatchlistNext
  PROVE  CommandInv' /\ WatchInv'
<1>1. ASSUME SharedStep, UNCHANGED watchlistVars PROVE CommandInv' /\ WatchInv'
  BY <1>1, SharedKeeps, WatchShared
<1>2. \/ \E p \in Processes : \E t \in Readings : \E s \in Rankings : PreviewImport(p, s, t)
      \/ \E p \in Processes : \E t \in Readings : \E b \in previews : Confirm(p, b, t)
      \/ \E p \in Processes : \E t \in Readings : Import(p, t)
      \/ SharedStep /\ UNCHANGED watchlistVars
  BY Zenon DEF WatchlistNext, WatchlistStep, SharedStep
<1>3. QED
  BY <1>1, <1>2, WatchPreview, WatchConfirm, WatchImport

-----------------------------------------------------------------------------
(* The attention history.  A command that was granted looks at the store as   *)
(* it was then; while nothing was appended since, what it saw still holds.    *)

ReceiptedIn(l, r) ==
  VouchedIn(l, r.sequence, "attention_refresh", r.binding, r.binding.process, r.binding.revision, r.checkedAt)

Readable(records, n, l) == RecordReplays(records, n) /\ ReceiptedIn(l, records[n])

AttentionJob(p) ==
  /\ At(p, "granted") \/ At(p, "receipted") =>
       /\ job[p].about \in bindings /\ job[p].about.process = p
       /\ job[p].about.revision = job[p].q.revision
       /\ job[p].q.boundary = "attention_refresh" /\ job[p].q.auth.action = job[p].about
       /\ job[p].state \in 0..Len(store)
       /\ job[p].state = Len(store) =>
            LaterThanRecords(job[p].about.at, store) /\ RecordedBefore(job[p].about.bundle) = {}
  /\ At(p, "committed") => Len(store) > 0

AttentionInv ==
  /\ IsSeq(store) /\ Len(store) <= MaxRecords
  /\ \A b \in bindings : b.head < MaxRecords
  /\ \A n \in 1..Len(store) : Readable(store, n, log)
  /\ \A r \in answers : \E n \in 1..Len(store) : store[n] = r
  /\ \A p \in Processes : AttentionJob(p)

\* The property follows.
LEMMA AttentionInvIsEnough == ASSUME CommandInv, AttentionInv PROVE HistoryStaysReadable
<1>1. DOMAIN store = 1..Len(store) /\ LogSound(log)
  BY SeqFacts DEF AttentionInv, CommandInv
<1>2. \A n \in 1..Len(store) : RecordReplays(store, n) /\ ReceiptedIn(log, store[n])
  BY DEF AttentionInv, Readable
<1>3. \A n \in 1..Len(store) : Receipted(store[n])
  BY <1>1, <1>2, VouchedIs DEF Receipted, ReceiptedIn
<1>4. VerifiedReplay
  BY <1>1, <1>2, <1>3 DEF VerifiedReplay
<1>5. QED
  BY <1>1, <1>4 DEF HistoryStaysReadable, AttentionInv

\* Commands go on as they began, as long as nothing is recorded.
LEMMA AttentionJobsGoOn ==
  ASSUME NEW p \in Processes, AttentionJob(p), bindings \subseteq bindings', store' = store,
         job'[p] = job[p] \/ job'[p] = Idle \/ (At(p, "granted") /\ Receipt(p))
  PROVE  AttentionJob(p)'
<1>1. CASE job'[p] = job[p]
  BY <1>1 DEF AttentionJob, At, RecordedBefore
<1>2. CASE job'[p] = Idle
  BY <1>2 DEF AttentionJob, At, Idle
<1>3. CASE At(p, "granted") /\ Receipt(p)
  <2>1. /\ job'[p].about = job[p].about /\ job'[p].q = job[p].q /\ job'[p].state = job[p].state
        /\ job'[p].stage = "receipted"
    BY <1>3 DEF Receipt
  <2>2. QED
    BY <1>3, <2>1 DEF AttentionJob, At, RecordedBefore
<1>4. QED
  BY <1>1, <1>2, <1>3

\* What is on file stays readable.
LEMMA ReadableStays ==
  ASSUME NEW records, NEW n, Readable(records, n, log), LogStays
  PROVE  Readable(records, n, log')
  BY DEF Readable, ReceiptedIn, VouchedIn, LogStays

\* As long as the store stays.
LEMMA StoreStays ==
  ASSUME AttentionInv, LogStays, store' = store, bindings \subseteq bindings',
         \A b \in bindings' : b.head < MaxRecords,
         \A r \in answers' : \E n \in 1..Len(store) : store[n] = r,
         \A p \in Processes : job'[p] = job[p] \/ job'[p] = Idle \/ (At(p, "granted") /\ Receipt(p))
                                \/ AttentionJob(p)'
  PROVE  AttentionInv'
<1>1. \A n \in 1..Len(store) : Readable(store, n, log')
  BY ReadableStays DEF AttentionInv
<1>2. \A p \in Processes : AttentionJob(p)'
  BY AttentionJobsGoOn DEF AttentionInv
<1>3. QED
  BY <1>1, <1>2 DEF AttentionInv

\* The steps that every store shares.
LEMMA AttentionShared ==
  ASSUME CommandInv, AttentionInv, SharedStep, UNCHANGED attentionVars
  PROVE  AttentionInv'
<1>1. LogStays /\ SharedMoves
  BY SharedKeeps
<1>2. store' = store /\ bindings' = bindings /\ answers' = answers
  BY DEF attentionVars
<1>3. QED
  BY <1>1, <1>2, StoreStays DEF AttentionInv, SharedMoves

\* preview, the answer from the file, and what ends a recorded command.
LEMMA AttentionReads ==
  ASSUME CommandInv, AttentionInv,
         \/ \E p \in Processes : \E t \in Readings : \E b \in Bundles : Preview(p, b, t)
         \/ \E b \in bindings : AnswerExisting(b)
         \/ \E p \in Processes : Confirmed(p)
  PROVE  CommandInv' /\ AttentionInv'
<1>1. ASSUME NEW p \in Processes, NEW t \in Readings, NEW b \in Bundles, Preview(p, b, t)
      PROVE  CommandInv' /\ AttentionInv'
  <2> DEFINE shown == Binding(Cardinality(bindings), p, State.revision, b, t)
  <2>1. /\ UNCHANGED <<commandVars, store, answers>> /\ bindings' \in {bindings, bindings \cup {shown}}
        /\ Len(store) < MaxRecords
    BY <1>1 DEF Preview
  <2>2. shown.head < MaxRecords
    BY <2>1 DEF Binding, HeadOf
  <2> HIDE DEF shown
  <2>3. CommandInv' /\ LogStays /\ job' = job
    BY <2>1, CommandsUnmoved DEF commandVars
  <2>4. bindings \subseteq bindings' /\ \A x \in bindings' : x.head < MaxRecords
    BY <2>1, <2>2 DEF AttentionInv
  <2>5. store' = store /\ answers' = answers
    BY <2>1
  <2>6. QED
    BY <2>3, <2>4, <2>5, StoreStays DEF AttentionInv
<1>2. ASSUME NEW b \in bindings, AnswerExisting(b) PROVE CommandInv' /\ AttentionInv'
  <2>1. PICK n \in DOMAIN store : answers' = answers \cup {store[n]}
    BY <1>2 DEF AnswerExisting, RecordedBefore
  <2>2. UNCHANGED commandVars /\ store' = store /\ bindings' = bindings
    BY <1>2 DEF AnswerExisting
  <2>3. CommandInv' /\ LogStays /\ job' = job
    BY <2>2, CommandsUnmoved DEF commandVars
  <2>4. \A r \in answers' : \E k \in 1..Len(store) : store[k] = r
    BY <2>1, SeqFacts DEF AttentionInv
  <2>5. QED
    BY <2>2, <2>3, <2>4, StoreStays DEF AttentionInv
<1>3. ASSUME NEW p \in Processes, Confirmed(p) PROVE CommandInv' /\ AttentionInv'
  <2>1. /\ At(p, "committed") /\ job' = [job EXCEPT ![p] = Idle] /\ UNCHANGED <<log, now>>
        /\ store' = store /\ bindings' = bindings
        /\ answers' = IF store[Len(store)] = job[p].record THEN answers \cup {job[p].record} ELSE answers
    BY <1>3 DEF Confirmed, Goto
  <2>2. job = [x \in Processes |-> job[x]]
    BY DEF CommandInv
  <2>3. job'[p] = Idle /\ \A x \in Processes : job'[x] = job[x] \/ job'[x] = Idle
    BY <2>1, <2>2
  <2>4. CommandInv'
    <3>1. job'[p].stage \in {"idle", "committed"}
      BY <2>3 DEF Idle
    <3>2. \E j : job' = [job EXCEPT ![p] = j]
      BY <2>1
    <3>3. QED
      BY <2>1, <3>1, <3>2, CommandEnds
  <2>5. LogStays
    BY <2>1, LogKept DEF CommandInv
  <2>6. Len(store) \in 1..Len(store)
    BY <2>1, SeqFacts DEF AttentionInv, AttentionJob
  <2>7. \A r \in answers' : \E k \in 1..Len(store) : store[k] = r
    BY <2>1, <2>6 DEF AttentionInv
  <2>8. QED
    BY <2>1, <2>3, <2>4, <2>5, <2>7, StoreStays DEF AttentionInv
<1>4. QED
  BY <1>1, <1>2, <1>3

\* recordAttention, up to the consumption.
LEMMA AttentionBegin ==
  ASSUME CommandInv, AttentionInv, NEW p \in Processes, NEW b \in bindings, NEW t \in Readings, BeginRecord(p, b, t)
  PROVE  CommandInv' /\ AttentionInv'
<1> DEFINE q == Grant(p, "attention_refresh", b, t)
<1>1. /\ job' = [job EXCEPT ![p] = Command(q, b, HeadOf(store))] /\ UNCHANGED <<log, now>>
      /\ store' = store /\ bindings' = bindings /\ answers' = answers
      /\ b.process = p /\ b.revision = q.revision
      /\ LaterThanRecords(b.at, store) /\ RecordedBefore(b.bundle) = {}
  BY DEF BeginRecord, Goto, attentionVars
<1>2. CommandInv'
  BY <1>1, CommandBegins
<1>3. LogStays
  BY <1>1, LogKept DEF CommandInv
<1>4. q.boundary = "attention_refresh" /\ q.auth.action = b
  BY DEF Grant
<1> HIDE DEF q
<1>5. job = [x \in Processes |-> job[x]] /\ Len(store) \in Nat
  BY SeqFacts DEF CommandInv, AttentionInv
<1>6. /\ job'[p].about = b /\ job'[p].q = q /\ job'[p].state = Len(store) /\ job'[p].stage = "granted"
  BY <1>1, <1>5 DEF Command, HeadOf
<1>7. RecordedBefore(b.bundle)' = {}
  BY <1>1 DEF RecordedBefore
<1>8. AttentionJob(p)'
  BY <1>1, <1>4, <1>5, <1>6, <1>7 DEF AttentionJob, At
<1>9. \A x \in Processes : x # p => job'[x] = job[x]
  BY <1>1, <1>5
<1>10. AttentionInv'
  BY <1>1, <1>3, <1>8, <1>9, StoreStays DEF AttentionInv
<1>11. QED
  BY <1>2, <1>10

\* A store that a readable record is added to.
LEMMA StoreGrows ==
  ASSUME AttentionInv, NEW r, Len(store) < MaxRecords, Readable(Append(store, r), Len(store) + 1, log)
  PROVE  /\ IsSeq(Append(store, r)) /\ Len(Append(store, r)) = Len(store) + 1
         /\ Len(store) + 1 <= MaxRecords /\ Len(store) \in Nat
         /\ Append(store, r)[Len(store) + 1] = r
         /\ \A n \in 1..Len(store) : Append(store, r)[n] = store[n]
         /\ \A n \in 1..(Len(store) + 1) : Readable(Append(store, r), n, log)
<1> DEFINE h == Append(store, r)
<1>1. /\ IsSeq(h) /\ Len(h) = Len(store) + 1 /\ Len(store) \in Nat /\ h[Len(store) + 1] = r
      /\ \A n \in 1..Len(store) : h[n] = store[n]
      /\ \A k \in 0..Len(store) : SubSeq(h, 1, k) = SubSeq(store, 1, k)
  BY AppendFacts DEF AttentionInv
<1>2. Readable(h, Len(store) + 1, log)
  OBVIOUS
<1> HIDE DEF h
<1>3. ASSUME NEW n \in 1..Len(store) PROVE Readable(h, n, log)
  <2>1. /\ h[n] = store[n] /\ SubSeq(h, 1, n - 1) = SubSeq(store, 1, n - 1)
        /\ n > 1 => h[n - 1] = store[n - 1]
        /\ \A k \in 1..(n - 1) : h[k] = store[k]
    BY <1>1
  <2>2. Readable(store, n, log)
    BY DEF AttentionInv
  <2>3. RecordReplays(h, n)
    BY <2>1, <2>2 DEF Readable, RecordReplays
  <2>4. QED
    BY <2>1, <2>2, <2>3 DEF Readable
<1>4. Len(store) + 1 <= MaxRecords
  BY <1>1, HistoryAssumption
<1>5. \A n \in 1..(Len(store) + 1) : Readable(h, n, log)
  BY <1>1, <1>2, <1>3
<1>6. QED
  BY <1>1, <1>4, <1>5 DEF h

\* A check that was consumed is dated no later than the transaction that follows it.
LEMMA ChecksPrecede ==
  ASSUME CommandInv, NEW p \in Processes, At(p, "receipted"), NEW t \in Readings
  PROVE  job[p].checkedAt \in Nat /\ Checkpoint(p, t) \in Nat /\ job[p].checkedAt <= Checkpoint(p, t)
<1>1. /\ GrantSound(p, job[p].q) /\ job[p].sequence \in 1..Len(log)
      /\ log[job[p].sequence].at = job[p].checkedAt
  BY DEF CommandInv, JobSound, ReceiptedSound
<1>2. LogSound(log) /\ t \in Nat
  BY ReadingsAre DEF CommandInv
<1>3. /\ R!LastAuditAt(log) \in Nat /\ R!NonRegressing(t, log) \in Nat
      /\ R!NonRegressing(t, log) >= R!LastAuditAt(log)
      /\ log[job[p].sequence].at <= R!LastAuditAt(log)
  BY <1>1, <1>2, LastDate
<1>4. job[p].checkedAt \in Nat /\ job[p].checkedAt <= R!LastAuditAt(log)
  BY <1>1, <1>2, <1>3 DEF LogSound
<1>5. job[p].q.requestedAt \in Nat
  BY <1>1 DEF GrantSound
<1>6. /\ Checkpoint(p, t) \in Nat /\ Checkpoint(p, t) >= R!NonRegressing(t, log)
  BY <1>3, <1>5 DEF Checkpoint, R!LaterOf
<1>7. QED
  BY <1>3, <1>4, <1>6

\* What the commit callback records can be read by everybody.
LEMMA RecordIsReadable ==
  ASSUME CommandInv, AttentionInv, NEW p \in Processes, At(p, "receipted"), NEW t \in Readings,
         NEW b, b = job[p].about, HeadOf(store) = job[p].state,
         b = Binding(b.id, b.process, b.revision, b.bundle, b.at),
         store # <<>> => job[p].sequence > store[Len(store)].sequence,
         Holds(b, Checkpoint(p, t)), b.at <= job[p].checkedAt,
         NEW r, r = Recorded(p, Checkpoint(p, t))
  PROVE  Readable(Append(store, r), Len(store) + 1, log)
<1> DEFINE h == Append(store, r)
           N == Len(store) + 1
<1>1. /\ IsSeq(h) /\ Len(store) \in Nat /\ h[N] = r
      /\ \A n \in 1..Len(store) : h[n] = store[n]
      /\ SubSeq(h, 1, N - 1) = store
      /\ DOMAIN store = 1..Len(store) /\ (store = <<>> <=> Len(store) = 0)
  <2>1. N - 1 = Len(store)
    BY SeqFacts DEF AttentionInv
  <2>2. QED
    BY <2>1, AppendFacts, SeqFacts DEF AttentionInv
<1>2. /\ b.process = p /\ b.revision = job[p].q.revision
      /\ job[p].q.boundary = "attention_refresh" /\ job[p].q.auth.action = b
      /\ LaterThanRecords(b.at, store) /\ RecordedBefore(b.bundle) = {}
  BY DEF AttentionInv, AttentionJob, HeadOf
<1>3. /\ r.binding = b /\ r.checkedAt = job[p].checkedAt /\ r.sequence = job[p].sequence
      /\ r.checkpointAt = Checkpoint(p, t)
  BY DEF Recorded
<1>4. r.checkedAt <= r.checkpointAt
  BY <1>3, ChecksPrecede
<1>5. b.head = Len(store) /\ b.decision = Decision(b.bundle, b.at, store)
  BY DEF Binding, HeadOf
<1>6. r.checkpointAt < b.deadline /\ b.decision = Decision(b.bundle, r.checkpointAt, store)
  BY <1>3 DEF Holds
<1>7. \A k \in 1..Len(store) : store[k].binding.bundle # b.bundle
  BY <1>1, <1>2 DEF RecordedBefore
<1>8. Len(store) > 0 => r.sequence > store[Len(store)].sequence
  BY <1>1, <1>3
<1>9. b.at <= r.checkedAt
  BY <1>3
<1> HIDE DEF h
<1>10. RecordReplays(h, N)
  <2>1. N - 1 = Len(store) /\ (N > 1 => h[N - 1] = store[Len(store)])
    BY <1>1
  <2>2. N > 1 => r.sequence > h[N - 1].sequence
    BY <1>1, <1>8, <2>1
  <2>3. \A k \in 1..(N - 1) : h[k].binding.bundle # b.bundle
    BY <1>1, <1>7, <2>1
  <2>4. QED
    BY <1>1, <1>2, <1>3, <1>4, <1>5, <1>6, <1>9, <2>2, <2>3 DEF RecordReplays, HeadOf
<1>11. ReceiptedIn(log, r)
  BY <1>2, <1>3, ReceiptsVouch DEF ReceiptedIn
<1>12. Readable(h, N, log)
  BY <1>1, <1>10, <1>11 DEF Readable
<1>13. QED
  BY <1>12 DEF h

\* The commit callback.
LEMMA AttentionCommit ==
  ASSUME CommandInv, AttentionInv, NEW p \in Processes, NEW t \in Readings, CommitRecord(p, t)
  PROVE  CommandInv' /\ AttentionInv'
<1> DEFINE b == job[p].about
           r == Recorded(p, Checkpoint(p, t))
           done == [stage |-> "committed", about |-> b, record |-> r]
<1>1. /\ At(p, "receipted") /\ UNCHANGED <<log, now>>
      /\ bindings' = bindings /\ answers' = answers
  BY DEF CommitRecord
<1>2. job = [x \in Processes |-> job[x]] /\ Len(store) \in Nat
  BY SeqFacts DEF CommandInv, AttentionInv
<1>3. LogStays
  BY <1>1, LogKept DEF CommandInv
<1>4. CASE job' = [job EXCEPT ![p] = Idle] /\ store' = store
  <2>1. \A x \in Processes : job'[x] = job[x] \/ job'[x] = Idle
    BY <1>2, <1>4
  <2>2. job'[p].stage \in {"idle", "committed"}
    BY <1>2, <1>4 DEF Idle
  <2>3. \E j : job' = [job EXCEPT ![p] = j]
    BY <1>4
  <2>4. CommandInv'
    BY <1>1, <2>2, <2>3, CommandEnds
  <2>5. AttentionInv'
    BY <1>1, <1>3, <1>4, <2>1, StoreStays DEF AttentionInv
  <2>6. QED
    BY <2>4, <2>5
<1>5. CASE /\ HeadOf(store) = job[p].state
           /\ b = Binding(b.id, b.process, b.revision, b.bundle, b.at)
           /\ store # <<>> => job[p].sequence > store[Len(store)].sequence
           /\ Holds(b, Checkpoint(p, t)) /\ b.at <= job[p].checkedAt
           /\ store' = Append(store, r) /\ job' = [job EXCEPT ![p] = done]
  <2>1. Readable(Append(store, r), Len(store) + 1, log)
    BY <1>1, <1>5, RecordIsReadable
  <2>2. Len(store) < MaxRecords
    <3>1. b \in bindings
      BY <1>1 DEF AttentionInv, AttentionJob
    <3>2. b.head = Len(store)
      BY <1>5 DEF Binding, HeadOf
    <3>3. QED
      BY <3>1, <3>2 DEF AttentionInv
  <2> HIDE DEF r
  <2>3. /\ IsSeq(store') /\ Len(store') = Len(store) + 1 /\ Len(store') <= MaxRecords
        /\ \A n \in 1..Len(store) : store'[n] = store[n]
        /\ \A n \in 1..Len(store') : Readable(store', n, log')
    BY <1>1, <1>5, <2>1, <2>2, StoreGrows
  <2>4. job'[p].stage = "committed" /\ \A x \in Processes : x # p => job'[x] = job[x]
    BY <1>2, <1>5
  <2>5. \E j : job' = [job EXCEPT ![p] = j]
    BY <1>5
  <2>6. CommandInv'
    BY <1>1, <2>4, <2>5, CommandEnds
  <2>7. ASSUME NEW x \in Processes PROVE AttentionJob(x)'
    <3>1. Len(store') > 0
      BY <1>2, <2>3
    <3>2. CASE x = p
      BY <2>4, <3>1, <3>2 DEF AttentionJob, At
    <3>3. CASE x # p
      <4>1. AttentionJob(x) /\ job'[x] = job[x]
        BY <2>4, <3>3 DEF AttentionInv
      <4>2. ASSUME job[x].state \in 0..Len(store) PROVE job[x].state \in 0..Len(store') /\ job[x].state # Len(store')
        BY <1>2, <2>3, <4>2
      <4>3. QED
        BY <1>1, <3>1, <4>1, <4>2 DEF AttentionJob, At
    <3>4. QED
      BY <3>2, <3>3
  <2>8. \A a \in answers' : \E n \in 1..Len(store') : store'[n] = a
    <3>1. SUFFICES ASSUME NEW a \in answers PROVE \E n \in 1..Len(store') : store'[n] = a
      BY <1>1
    <3>2. PICK n \in 1..Len(store) : store[n] = a
      BY DEF AttentionInv
    <3>3. n \in 1..Len(store') /\ store'[n] = a
      BY <1>2, <2>3, <3>2
    <3>4. QED
      BY <3>3
  <2>9. AttentionInv'
    BY <1>1, <2>3, <2>7, <2>8 DEF AttentionInv
  <2>10. QED
    BY <2>6, <2>9
<1>6. QED
  BY <1>4, <1>5 DEF CommitRecord, Goto

\* Before anything was recorded.
LEMMA AttentionInitially ==
  ASSUME AttentionInit, \A p \in Processes : At(p, "idle")
  PROVE  AttentionInv
<1>1. \A p \in Processes : AttentionJob(p)
  BY DEF AttentionJob, At
<1>2. QED
  BY <1>1, EmptyIsSeq, HistoryAssumption DEF AttentionInit, AttentionInv

\* Every step.
LEMMA AttentionStepKeeps ==
  ASSUME CommandInv, AttentionInv, AttentionNext
  PROVE  CommandInv' /\ AttentionInv'
<1>1. ASSUME SharedStep, UNCHANGED attentionVars PROVE CommandInv' /\ AttentionInv'
  BY <1>1, SharedKeeps, AttentionShared
<1>2. \/ \E p \in Processes : \E t \in Readings : \E b \in Bundles : Preview(p, b, t)
      \/ \E b \in bindings : AnswerExisting(b)
      \/ \E p \in Processes : Confirmed(p)
      \/ \E p \in Processes : \E b \in bindings : \E t \in Readings : BeginRecord(p, b, t)
      \/ \E p \in Processes : \E t \in Readings : CommitRecord(p, t)
      \/ SharedStep /\ UNCHANGED attentionVars
  BY Zenon DEF AttentionNext, AttentionStep, SharedStep
<1>3. QED
  BY <1>1, <1>2, AttentionReads, AttentionBegin, AttentionCommit

-----------------------------------------------------------------------------
(* The ledger of proposals.  Its append is a commit of its own, so what makes *)
(* it right is that the log still says under which mode the check was passed. *)

\* A check in a log that allowed a proposal, in PROPOSE_ONLY.
AllowedIn(l, id, at) ==
  \E k \in 1..Len(l) : /\ IsCheck(l[k]) /\ l[k].reason = "ALLOWED" /\ l[k].auth.action = id /\ l[k].at = at
                       /\ R!State(SubSeq(l, 1, k)).mode = "PROPOSE_ONLY"

LedgerJob(p) ==
  At(p, "granted") \/ At(p, "receipted") =>
    job[p].q.boundary = "proposal_persist" /\ job[p].q.auth.action = job[p].about.id

EntrySound(records, n, l) ==
  LET r == records[n] IN
  /\ r.proposal.createdAt <= r.persistedAt /\ r.persistedAt <= r.proposal.expiresAt
  /\ AllowedIn(l, r.proposal.id, r.persistedAt)
  /\ \A k \in 1..Len(records) : records[k].proposal.id = r.proposal.id => k = n

LedgerInv ==
  /\ IsSeq(proposals)
  /\ \A n \in 1..Len(proposals) : EntrySound(proposals, n, log)
  /\ \A r \in given : \E n \in 1..Len(proposals) : proposals[n] = r
  /\ \A p \in Processes : LedgerJob(p)

\* The property follows.
LEMMA LedgerInvIsEnough == ASSUME CommandInv, LedgerInv PROVE ProposalsWereAllowed
<1>1. DOMAIN proposals = 1..Len(proposals) /\ DOMAIN log = 1..Len(log)
  BY SeqFacts DEF LedgerInv, CommandInv, LogSound
<1>2. ASSUME NEW n \in 1..Len(proposals)
      PROVE  /\ proposals[n].proposal.createdAt <= proposals[n].persistedAt
             /\ proposals[n].persistedAt <= proposals[n].proposal.expiresAt
             /\ \E k \in DOMAIN log : /\ log[k].type = "boundary" /\ log[k].reason = "ALLOWED"
                                      /\ log[k].auth.action = proposals[n].proposal.id
                                      /\ log[k].at = proposals[n].persistedAt
                                      /\ R!State(SubSeq(log, 1, k)).mode = "PROPOSE_ONLY"
             /\ Filed(proposals[n].proposal) = {n}
  <2>1. EntrySound(proposals, n, log)
    BY DEF LedgerInv
  <2>2. AllowedIn(log, proposals[n].proposal.id, proposals[n].persistedAt)
    BY <2>1 DEF EntrySound
  <2>3. Filed(proposals[n].proposal) = {n}
    BY <1>1, <2>1 DEF EntrySound, Filed
  <2>4. QED
    BY <1>1, <2>1, <2>2, <2>3 DEF EntrySound, AllowedIn, IsCheck
<1>3. QED
  BY <1>1, <1>2 DEF ProposalsWereAllowed, LedgerInv

\* What was allowed stays so.
LEMMA AllowedStays ==
  ASSUME NEW id, NEW at, AllowedIn(log, id, at), LogStays
  PROVE  AllowedIn(log', id, at)
<1>1. PICK k \in 1..Len(log) : /\ IsCheck(log[k]) /\ log[k].reason = "ALLOWED" /\ log[k].auth.action = id
                               /\ log[k].at = at /\ R!State(SubSeq(log, 1, k)).mode = "PROPOSE_ONLY"
  BY DEF AllowedIn
<1>2. k \in 1..Len(log') /\ log'[k] = log[k] /\ SubSeq(log', 1, k) = SubSeq(log, 1, k)
  BY DEF LogStays
<1>3. QED
  BY <1>1, <1>2 DEF AllowedIn

\* Commands go on as they began.
LEMMA LedgerJobsGoOn ==
  ASSUME NEW p \in Processes, LedgerJob(p),
         job'[p] = job[p] \/ job'[p] = Idle \/ (At(p, "granted") /\ Receipt(p))
  PROVE  LedgerJob(p)'
<1>1. CASE job'[p] = job[p]
  BY <1>1 DEF LedgerJob, At
<1>2. CASE job'[p] = Idle
  BY <1>2 DEF LedgerJob, At, Idle
<1>3. CASE At(p, "granted") /\ Receipt(p)
  <2>1. job'[p].about = job[p].about /\ job'[p].q = job[p].q
    BY <1>3 DEF Receipt
  <2>2. QED
    BY <1>3, <2>1 DEF LedgerJob
<1>4. QED
  BY <1>1, <1>2, <1>3

\* As long as the ledger stays.
LEMMA LedgerStays ==
  ASSUME LedgerInv, LogStays, proposals' = proposals,
         \A r \in given' : \E n \in 1..Len(proposals) : proposals[n] = r,
         \A p \in Processes : LedgerJob(p)'
  PROVE  LedgerInv'
<1>1. \A n \in 1..Len(proposals) : EntrySound(proposals, n, log')
  BY AllowedStays DEF LedgerInv, EntrySound
<1>2. QED
  BY <1>1 DEF LedgerInv

\* The steps that every store shares.
LEMMA LedgerShared ==
  ASSUME CommandInv, LedgerInv, SharedStep, UNCHANGED ledgerVars
  PROVE  LedgerInv'
<1>1. LogStays /\ SharedMoves
  BY SharedKeeps
<1>2. proposals' = proposals /\ given' = given
  BY DEF ledgerVars
<1>3. \A p \in Processes : LedgerJob(p)'
  BY <1>1, LedgerJobsGoOn DEF LedgerInv, SharedMoves
<1>4. QED
  BY <1>1, <1>2, <1>3, LedgerStays DEF LedgerInv

\* A proposal on file is returned.
LEMMA LedgerAgain ==
  ASSUME CommandInv, LedgerInv, NEW r, PersistAgain(r)
  PROVE  CommandInv' /\ LedgerInv'
<1>1. UNCHANGED commandVars /\ proposals' = proposals
  BY DEF PersistAgain
<1>2. PICK n \in DOMAIN proposals : given' = given \cup {proposals[n]}
  BY DEF PersistAgain, Filed
<1>3. CommandInv' /\ LogStays /\ job' = job
  BY <1>1, CommandsUnmoved DEF commandVars
<1>4. \A x \in given' : \E k \in 1..Len(proposals) : proposals[k] = x
  BY <1>2, SeqFacts DEF LedgerInv
<1>5. \A p \in Processes : LedgerJob(p)'
  BY <1>3, LedgerJobsGoOn DEF LedgerInv
<1>6. QED
  BY <1>1, <1>3, <1>4, <1>5, LedgerStays

\* persist, up to the consumption.
LEMMA LedgerBegin ==
  ASSUME CommandInv, LedgerInv, NEW p \in Processes, NEW r \in Proposals, NEW t \in Readings, BeginPersist(p, r, t)
  PROVE  CommandInv' /\ LedgerInv'
<1> DEFINE q == Grant(p, "proposal_persist", r.id, t)
<1>1. /\ job' = [job EXCEPT ![p] = Command(q, r, None)] /\ UNCHANGED <<log, now>>
      /\ proposals' = proposals /\ given' = given
  BY DEF BeginPersist, Goto, ledgerVars
<1>2. CommandInv'
  BY <1>1, CommandBegins
<1>3. LogStays
  BY <1>1, LogKept DEF CommandInv
<1>4. q.boundary = "proposal_persist" /\ q.auth.action = r.id
  BY DEF Grant
<1> HIDE DEF q
<1>5. job = [x \in Processes |-> job[x]]
  BY DEF CommandInv
<1>6. job'[p].about = r /\ job'[p].q = q
  BY <1>1, <1>5 DEF Command
<1>7. LedgerJob(p)'
  BY <1>4, <1>6 DEF LedgerJob
<1>8. \A x \in Processes : x # p => job'[x] = job[x]
  BY <1>1, <1>5
<1>9. \A x \in Processes : LedgerJob(x)'
  BY <1>7, <1>8, LedgerJobsGoOn DEF LedgerInv
<1>10. QED
  BY <1>1, <1>2, <1>3, <1>9, LedgerStays DEF LedgerInv

\* A receipt for a proposal says that it was allowed, in PROPOSE_ONLY.
LEMMA ProposalIsAllowed ==
  ASSUME CommandInv, LedgerInv, NEW p \in Processes, At(p, "receipted")
  PROVE  AllowedIn(log, job[p].about.id, job[p].checkedAt)
<1>1. ReceiptedSound(p)
  BY DEF CommandInv, JobSound
<1>2. job[p].q.boundary = "proposal_persist" /\ job[p].q.auth.action = job[p].about.id
  BY DEF LedgerInv, LedgerJob
<1>3. R!State(SubSeq(log, 1, job[p].sequence)).mode = "PROPOSE_ONLY"
  BY <1>1, <1>2 DEF ReceiptedSound, R!ModeAllows, R!LocalCommitBoundaries, R!NetworkBoundaries, R!PlainBoundaries
<1>4. QED
  BY <1>1, <1>2, <1>3 DEF ReceiptedSound, Answers, AllowedIn

\* A ledger that a new proposal is added to.
LEMMA LedgerGrows ==
  ASSUME LedgerInv, NEW mine, AllowedIn(log, mine.proposal.id, mine.persistedAt),
         mine.proposal.createdAt <= mine.persistedAt, mine.persistedAt <= mine.proposal.expiresAt,
         Filed(mine.proposal) = {}
  PROVE  /\ IsSeq(Append(proposals, mine)) /\ Len(Append(proposals, mine)) = Len(proposals) + 1
         /\ Append(proposals, mine)[Len(proposals) + 1] = mine /\ Len(proposals) \in Nat
         /\ \A n \in 1..Len(proposals) : Append(proposals, mine)[n] = proposals[n]
         /\ \A n \in 1..(Len(proposals) + 1) : EntrySound(Append(proposals, mine), n, log)
<1> DEFINE h == Append(proposals, mine)
           N == Len(proposals) + 1
<1>1. /\ IsSeq(h) /\ Len(h) = N /\ Len(proposals) \in Nat /\ h[N] = mine
      /\ \A n \in 1..Len(proposals) : h[n] = proposals[n]
      /\ DOMAIN proposals = 1..Len(proposals)
  BY AppendFacts, SeqFacts DEF LedgerInv
<1> HIDE DEF h
<1>2. \A k \in 1..Len(proposals) : proposals[k].proposal.id # mine.proposal.id
  BY <1>1 DEF Filed
<1>3. EntrySound(h, N, log)
  BY <1>1, <1>2 DEF EntrySound
<1>4. ASSUME NEW n \in 1..Len(proposals) PROVE EntrySound(h, n, log)
  <2>1. EntrySound(proposals, n, log)
    BY DEF LedgerInv
  <2>2. \A k \in 1..Len(h) : h[k].proposal.id = h[n].proposal.id => k = n
    BY <1>1, <1>2, <2>1 DEF EntrySound
  <2>3. QED
    BY <1>1, <2>1, <2>2 DEF EntrySound
<1>5. \A n \in 1..N : EntrySound(h, n, log)
  BY <1>1, <1>3, <1>4
<1>6. QED
  BY <1>1, <1>5 DEF h

\* append.
LEMMA LedgerAppend ==
  ASSUME CommandInv, LedgerInv, NEW p \in Processes, AppendProposal(p)
  PROVE  CommandInv' /\ LedgerInv'
<1> DEFINE r == job[p].about
           mine == [proposal |-> r, persistedAt |-> job[p].checkedAt]
<1>1. At(p, "receipted") /\ job' = [job EXCEPT ![p] = Idle] /\ UNCHANGED <<log, now>>
  BY DEF AppendProposal, Goto
<1>2. job = [x \in Processes |-> job[x]]
  BY DEF CommandInv
<1>3. \A x \in Processes : job'[x] = job[x] \/ job'[x] = Idle
  BY <1>1, <1>2
<1>4. CommandInv'
  <2>1. job'[p].stage \in {"idle", "committed"}
    BY <1>1, <1>2 DEF Idle
  <2>2. \E j : job' = [job EXCEPT ![p] = j]
    BY <1>1
  <2>3. QED
    BY <1>1, <2>1, <2>2, CommandEnds
<1>5. LogStays
  BY <1>1, LogKept DEF CommandInv
<1>6. \A x \in Processes : LedgerJob(x)'
  BY <1>3, LedgerJobsGoOn DEF LedgerInv
<1>7. CASE /\ InLifetime(p) /\ Filed(r) = {}
           /\ proposals' = Append(proposals, mine) /\ given' = given \cup {mine}
  <2>1. AllowedIn(log, mine.proposal.id, mine.persistedAt)
    BY <1>1, ProposalIsAllowed
  <2>2. /\ mine.proposal.createdAt <= mine.persistedAt /\ mine.persistedAt <= mine.proposal.expiresAt
        /\ Filed(mine.proposal) = {}
    BY <1>7 DEF InLifetime
  <2> HIDE DEF mine
  <2>3. /\ IsSeq(proposals') /\ Len(proposals') = Len(proposals) + 1
        /\ proposals'[Len(proposals) + 1] = mine /\ Len(proposals) \in Nat
        /\ \A n \in 1..Len(proposals) : proposals'[n] = proposals[n]
        /\ \A n \in 1..Len(proposals') : EntrySound(proposals', n, log')
    BY <1>1, <1>7, <2>1, <2>2, LedgerGrows
  <2>4. ASSUME NEW x \in given' PROVE \E n \in 1..Len(proposals') : proposals'[n] = x
    <3>1. CASE x \in given
      <4>1. PICK n \in 1..Len(proposals) : proposals[n] = x
        BY <3>1 DEF LedgerInv
      <4>2. n \in 1..Len(proposals') /\ proposals'[n] = x
        BY <2>3, <4>1
      <4>3. QED
        BY <4>2
    <3>2. CASE x = mine
      <4>1. Len(proposals) + 1 \in 1..Len(proposals')
        BY <2>3
      <4>2. QED
        BY <2>3, <3>2, <4>1
    <3>3. QED
      BY <1>7, <3>1, <3>2
  <2>5. LedgerInv'
    BY <1>6, <2>3, <2>4 DEF LedgerInv
  <2>6. QED
    BY <1>4, <2>5
<1>8. CASE /\ \E n \in Filed(r) : given' = given \cup {proposals[n]}
           /\ proposals' = proposals
  <2>1. PICK n \in DOMAIN proposals : given' = given \cup {proposals[n]}
    BY <1>8 DEF Filed
  <2>2. \A x \in given' : \E k \in 1..Len(proposals) : proposals[k] = x
    BY <2>1, SeqFacts DEF LedgerInv
  <2>3. QED
    BY <1>4, <1>5, <1>6, <1>8, <2>2, LedgerStays
<1>9. CASE proposals' = proposals /\ given' = given
  <2>1. LedgerInv'
    BY <1>5, <1>6, <1>9, LedgerStays DEF LedgerInv
  <2>2. QED
    BY <1>4, <2>1
<1>10. QED
  BY <1>7, <1>8, <1>9 DEF AppendProposal, ledgerVars

\* Before anything was filed.
LEMMA LedgerInitially ==
  ASSUME LedgerInit, \A p \in Processes : At(p, "idle")
  PROVE  LedgerInv
<1>1. \A p \in Processes : LedgerJob(p)
  BY DEF LedgerJob, At
<1>2. QED
  BY <1>1, EmptyIsSeq DEF LedgerInit, LedgerInv

\* Every step.
LEMMA LedgerStepKeeps ==
  ASSUME CommandInv, LedgerInv, LedgerNext
  PROVE  CommandInv' /\ LedgerInv'
<1>1. ASSUME SharedStep, UNCHANGED ledgerVars PROVE CommandInv' /\ LedgerInv'
  BY <1>1, SharedKeeps, LedgerShared
<1>2. \/ \E r : PersistAgain(r)
      \/ \E p \in Processes : \E r \in Proposals : \E t \in Readings : BeginPersist(p, r, t)
      \/ \E p \in Processes : AppendProposal(p)
      \/ SharedStep /\ UNCHANGED ledgerVars
  BY Zenon DEF LedgerNext, LedgerStep, SharedStep
<1>3. QED
  BY <1>1, <1>2, LedgerAgain, LedgerBegin, LedgerAppend

-----------------------------------------------------------------------------
(* One store at a time: the others, and everything, stay as they are. *)

HistInv ==
  /\ CommandInv
  /\ scope = "watchlist" \/ WatchlistInit
  /\ scope = "attention" \/ AttentionInit
  /\ scope = "proposals" \/ LedgerInit
  /\ scope = "watchlist" => WatchInv
  /\ scope = "attention" => AttentionInv
  /\ scope = "proposals" => LedgerInv

\* An empty store has nothing on file that was not allowed.
LEMMA EmptyStoresAreFine ==
  /\ WatchlistInit => ImportsAreConfirmed
  /\ AttentionInit => HistoryStaysReadable
  /\ LedgerInit => ProposalsWereAllowed
<1>1. WatchlistInit => ImportsAreConfirmed
  BY EmptyIsSeq, ValidityAssumption DEF WatchlistInit, ImportsAreConfirmed, Replays
<1>2. AttentionInit => HistoryStaysReadable
  BY EmptyIsSeq, HistoryAssumption DEF AttentionInit, HistoryStaysReadable, VerifiedReplay
<1>3. LedgerInit => ProposalsWereAllowed
  BY EmptyIsSeq DEF LedgerInit, ProposalsWereAllowed
<1>4. QED
  BY <1>1, <1>2, <1>3

\* The property follows.
LEMMA HistInvIsEnough == ASSUME HistInv PROVE RecordsWereAllowed
  BY EmptyStoresAreFine, WatchInvIsEnough, AttentionInvIsEnough, LedgerInvIsEnough DEF HistInv, RecordsWereAllowed

\* It holds when the stores are opened.
LEMMA HistInitially == ASSUME MCInit PROVE HistInv
<1>1. CommandInv
  <2>1. \E modes : CommandInit("p1", modes) /\ (modes = <<"RESEARCH">> \/ modes = <<"RESEARCH", "PROPOSE_ONLY">>)
    BY Zenon DEF MCInit
  <2>2. QED
    BY <2>1, CommandsInitially
<1>2. job = [q \in Processes |-> Idle]
  BY DEF MCInit, CommandInit
<1>3. \A p \in Processes : At(p, "idle")
  BY <1>2 DEF At, Idle
<1>4. WatchlistInit /\ AttentionInit /\ LedgerInit
  BY Zenon DEF MCInit
<1>5. QED
  BY <1>1, <1>3, <1>4, WatchInitially, AttentionInitially, LedgerInitially DEF HistInv

\* It stays as long as nothing of it moves.
LEMMA HistInvIsStable ==
  ASSUME HistInv, UNCHANGED scope, UNCHANGED <<commandVars, watchlistVars, attentionVars, ledgerVars>>
  PROVE  HistInv'
<1>1. /\ scope' = scope /\ log' = log /\ now' = now /\ job' = job
      /\ history' = history /\ previews' = previews /\ told' = told
      /\ store' = store /\ bindings' = bindings /\ leases' = leases /\ answers' = answers
      /\ proposals' = proposals /\ given' = given
  BY DEF commandVars, watchlistVars, attentionVars, ledgerVars
<1>2. CommandInv' /\ LogStays
  BY CommandsUnmoved DEF HistInv
<1>3. WatchlistInit => WatchlistInit'
  BY <1>1 DEF WatchlistInit
<1>4. AttentionInit => AttentionInit'
  BY <1>1 DEF AttentionInit
<1>5. LedgerInit => LedgerInit'
  BY <1>1 DEF LedgerInit
<1>6. WatchInv => WatchInv'
  <2>1. ASSUME WatchInv PROVE \A p \in Processes : WatchJob(p)'
    BY <1>1, <2>1, WatchJobsGoOn DEF WatchInv
  <2>2. QED
    BY <1>1, <1>2, <2>1, HistoryStays DEF WatchInv
<1>7. AttentionInv => AttentionInv'
  BY <1>1, <1>2, StoreStays DEF AttentionInv
<1>8. LedgerInv => LedgerInv'
  <2>1. ASSUME LedgerInv PROVE \A p \in Processes : LedgerJob(p)'
    BY <1>1, <2>1, LedgerJobsGoOn DEF LedgerInv
  <2>2. QED
    BY <1>1, <1>2, <2>1, LedgerStays DEF LedgerInv
<1>9. QED
  BY <1>1, <1>2, <1>3, <1>4, <1>5, <1>6, <1>7, <1>8 DEF HistInv

\* Every step keeps it.
LEMMA HistStepKeeps == ASSUME HistInv, [MCNext]_mcVars PROVE HistInv'
<1>1. CASE UNCHANGED mcVars
  <2>1. UNCHANGED scope /\ UNCHANGED <<commandVars, watchlistVars, attentionVars, ledgerVars>>
    BY <1>1 DEF mcVars, stores
  <2>2. QED
    BY <2>1, HistInvIsStable
<1>2. CASE scope' = scope /\ scope = "watchlist" /\ WatchlistNext /\ UNCHANGED <<attentionVars, ledgerVars>>
  <2>1. CommandInv' /\ WatchInv'
    BY <1>2, WatchStepKeeps DEF HistInv
  <2>2. AttentionInit' /\ LedgerInit'
    BY <1>2 DEF HistInv, AttentionInit, LedgerInit, attentionVars, ledgerVars
  <2>3. QED
    BY <1>2, <2>1, <2>2 DEF HistInv
<1>3. CASE scope' = scope /\ scope = "attention" /\ AttentionNext /\ UNCHANGED <<watchlistVars, ledgerVars>>
  <2>1. CommandInv' /\ AttentionInv'
    BY <1>3, AttentionStepKeeps DEF HistInv
  <2>2. WatchlistInit' /\ LedgerInit'
    BY <1>3 DEF HistInv, WatchlistInit, LedgerInit, watchlistVars, ledgerVars
  <2>3. QED
    BY <1>3, <2>1, <2>2 DEF HistInv
<1>4. CASE scope' = scope /\ scope = "proposals" /\ LedgerNext /\ UNCHANGED <<watchlistVars, attentionVars>>
  <2>1. CommandInv' /\ LedgerInv'
    BY <1>4, LedgerStepKeeps DEF HistInv
  <2>2. WatchlistInit' /\ AttentionInit'
    BY <1>4 DEF HistInv, WatchlistInit, AttentionInit, watchlistVars, attentionVars
  <2>3. QED
    BY <1>4, <2>1, <2>2 DEF HistInv
<1>5. CASE scope' = scope /\ UNCHANGED <<commandVars, watchlistVars, attentionVars, ledgerVars>>
  BY <1>5, HistInvIsStable
<1>6. \/ UNCHANGED mcVars
      \/ scope' = scope /\ scope = "watchlist" /\ WatchlistNext /\ UNCHANGED <<attentionVars, ledgerVars, assessment>>
      \/ scope' = scope /\ scope = "attention" /\ AttentionNext /\ UNCHANGED <<watchlistVars, ledgerVars, assessment>>
      \/ scope' = scope /\ scope = "proposals" /\ LedgerNext /\ UNCHANGED <<watchlistVars, attentionVars, assessment>>
      \/ scope' = scope /\ UNCHANGED <<commandVars, watchlistVars, attentionVars, ledgerVars>>
      \/ scope' = scope /\ UNCHANGED stores
  BY Zenon DEF MCNext
<1>7. ASSUME UNCHANGED stores PROVE UNCHANGED <<commandVars, watchlistVars, attentionVars, ledgerVars>>
  BY <1>7 DEF stores
<1>8. QED
  BY <1>1, <1>2, <1>3, <1>4, <1>5, <1>6, <1>7

\* What is on file in the watchlist, the attention history and the ledger of proposals
\* was confirmed, checked and allowed as itself; it replays for every later reader; and
\* what a caller was told or given stays on file, for any number of processes, whatever
\* stops and takeovers come between the transactions of a command.
THEOREM RecordsStayAllowed == MCSpec => []RecordsWereAllowed
<1>1. MCInit => HistInv
  BY HistInitially
<1>2. HistInv /\ [MCNext]_mcVars => HistInv'
  BY HistStepKeeps
<1>3. HistInv => RecordsWereAllowed
  BY HistInvIsEnough
<1>4. QED
  BY <1>1, <1>2, <1>3, PTL DEF MCSpec

-----------------------------------------------------------------------------
(* The improvement loop, for any versions, weights, limits and numbers of    *)
(* candidates: a promotion has been earned.  Strategies and candidates have  *)
(* no type of their own: what matters is that champions, promotions and      *)
(* results are sequences of something, and that the results of a candidate   *)
(* are as far as its stage says.                                             *)
\* How far the results are, and what they say.
Shows(results, n) ==
  /\ IsSeq(results) /\ Len(results) = n
  /\ n >= 1 => results[1] = <<"attack", 0>>
  /\ n >= 2 => results[2][1] = "allocated" /\ results[2][2] \in 1..MaxAllocation
  /\ n >= 3 => results[3][1] = "drawdown" /\ results[3][2] <= MaxDrawdown
  /\ n >= 4 => results[4][2] >= MinSample

StageOf(id, stage, n) == candidates[id] = stage => Shows(passed[id], n)

CandidatesAgree ==
  /\ candidates = [id \in DOMAIN candidates |-> candidates[id]]
  /\ passed = [id \in DOMAIN candidates |-> passed[id]]
  /\ \A id \in DOMAIN candidates :
       /\ StageOf(id, "proposed", 0) /\ StageOf(id, "attack_passed", 1)
       /\ StageOf(id, "canary_active", 2) /\ StageOf(id, "canary_complete", 3)
       /\ StageOf(id, "evaluated", 4)

PromotionsAgree ==
  /\ IsSeq(champions) /\ IsSeq(promotions) /\ Len(champions) = Len(promotions) + 1
  /\ \A n \in 1..Len(promotions) :
       /\ promotions[n].of.base = champions[n].version /\ promotions[n].of.strategy = champions[n + 1]
       /\ Cleared(promotions[n].passed)

LoopInv == CandidatesAgree /\ PromotionsAgree

\* One more result takes a candidate one stage on.
LEMMA OneMore ==
  ASSUME NEW results, NEW n \in 0..3, Shows(results, n), NEW r,
         n = 0 => r = <<"attack", 0>>,
         n = 1 => r[1] = "allocated" /\ r[2] \in 1..MaxAllocation,
         n = 2 => r[1] = "drawdown" /\ r[2] <= MaxDrawdown,
         n = 3 => r[2] >= MinSample
  PROVE  Shows(Append(results, r), n + 1)
<1> DEFINE longer == Append(results, r)
<1>1. /\ IsSeq(longer) /\ Len(longer) = n + 1 /\ longer[n + 1] = r
      /\ \A i \in 1..n : longer[i] = results[i]
  BY AppendFacts DEF Shows
<1> HIDE DEF longer
<1>2. longer[1] = <<"attack", 0>>
  BY <1>1 DEF Shows
<1>3. n >= 1 => longer[2][1] = "allocated" /\ longer[2][2] \in 1..MaxAllocation
  <2>1. CASE n = 1
    BY <1>1, <2>1
  <2>2. CASE n > 1
    BY <1>1, <2>2 DEF Shows
  <2>3. QED
    BY <2>1, <2>2
<1>4. n >= 2 => longer[3][1] = "drawdown" /\ longer[3][2] <= MaxDrawdown
  <2>1. CASE n = 2
    BY <1>1, <2>1
  <2>2. CASE n > 2
    BY <1>1, <2>2 DEF Shows
  <2>3. QED
    BY <2>1, <2>2
<1>5. n >= 3 => longer[4][2] >= MinSample
  BY <1>1
<1>6. QED
  BY <1>1, <1>2, <1>3, <1>4, <1>5 DEF Shows, longer

\* A stage that is reached with one more result.
LEMMA AdvanceKeeps ==
  ASSUME LoopInv, NEW id \in DOMAIN candidates, NEW n \in 0..3, NEW stage, NEW r,
         Advance(id, stage, r),
         Shows(passed[id], n) => Shows(Append(passed[id], r), n + 1),
         \/ n = 0 /\ candidates[id] = "proposed" /\ stage = "attack_passed"
         \/ n = 1 /\ candidates[id] = "attack_passed" /\ stage = "canary_active"
         \/ n = 2 /\ candidates[id] = "canary_active" /\ stage = "canary_complete"
         \/ n = 3 /\ candidates[id] = "canary_complete" /\ stage = "evaluated"
  PROVE  LoopInv'
<1>1. Shows(Append(passed[id], r), n + 1)
  BY DEF LoopInv, CandidatesAgree, StageOf
<1>2. /\ candidates' = [candidates EXCEPT ![id] = stage]
      /\ passed' = [passed EXCEPT ![id] = Append(passed[id], r)]
      /\ UNCHANGED <<champions, promotions>>
  BY DEF Advance
<1>3. /\ candidates' = [x \in DOMAIN candidates |-> IF x = id THEN stage ELSE candidates[x]]
      /\ passed' = [x \in DOMAIN candidates |-> IF x = id THEN Append(passed[id], r) ELSE passed[x]]
  BY <1>2 DEF LoopInv, CandidatesAgree
<1>4. DOMAIN candidates' = DOMAIN candidates
      /\ candidates' = [x \in DOMAIN candidates' |-> candidates'[x]]
      /\ passed' = [x \in DOMAIN candidates' |-> passed'[x]]
  BY <1>3
<1>5. ASSUME NEW x \in DOMAIN candidates'
      PROVE  CandidatesAgree!3!(x)'
  <2>1. CASE x = id
    BY <1>1, <1>3, <1>4, <2>1 DEF StageOf, Shows
  <2>2. CASE x # id
    BY <1>3, <1>4, <2>2 DEF LoopInv, CandidatesAgree, StageOf, Shows
  <2>3. QED
    BY <2>1, <2>2
<1>6. CandidatesAgree'
  BY <1>4, <1>5 DEF CandidatesAgree
<1>7. PromotionsAgree'
  BY <1>2 DEF LoopInv, PromotionsAgree, IsSeq, Cleared
<1>8. QED
  BY <1>6, <1>7 DEF LoopInv

\* A stage about whose results nothing is claimed.
LEMMA StageOnly ==
  ASSUME CandidatesAgree, NEW id \in DOMAIN candidates, NEW stage \in {"rejected", "promoted"},
         candidates' = [candidates EXCEPT ![id] = stage], UNCHANGED passed
  PROVE  CandidatesAgree'
<1>1. candidates' = [x \in DOMAIN candidates |-> IF x = id THEN stage ELSE candidates[x]]
  BY DEF CandidatesAgree
<1>2. DOMAIN candidates' = DOMAIN candidates
      /\ candidates' = [x \in DOMAIN candidates' |-> candidates'[x]]
  BY <1>1
<1>3. ASSUME NEW x \in DOMAIN candidates'
      PROVE  CandidatesAgree!3!(x)'
  <2>1. CASE x = id
    BY <1>1, <1>2, <2>1 DEF StageOf
  <2>2. CASE x # id
    BY <1>1, <1>2, <2>2 DEF CandidatesAgree, StageOf, Shows
  <2>3. QED
    BY <2>1, <2>2
<1>4. QED
  BY <1>2, <1>3 DEF CandidatesAgree

LEMMA RejectKeeps ==
  ASSUME LoopInv, NEW id \in DOMAIN candidates, Reject(id)
  PROVE  LoopInv'
<1>1. CandidatesAgree'
  BY StageOnly DEF Reject, LoopInv
<1>2. PromotionsAgree'
  BY DEF Reject, LoopInv, PromotionsAgree, IsSeq, Cleared
<1>3. QED
  BY <1>1, <1>2 DEF LoopInv

\* A candidate that is proposed, again or for the first time, has shown nothing.
LEMMA ProposeKeeps ==
  ASSUME LoopInv, NEW version, NEW patch, NEW evidence, Propose(version, patch, evidence)
  PROVE  LoopInv'
<1> DEFINE id == [base |-> Champion.version, evidence |-> evidence,
                  strategy |-> Merged(Champion, version, patch)]
           D == DOMAIN candidates \cup {id}
<1>1. /\ candidates' = Set(candidates, id, "proposed") /\ passed' = Set(passed, id, <<>>)
      /\ UNCHANGED <<champions, promotions>>
  BY DEF Propose
<1> HIDE DEF id
<1>2. DOMAIN passed = DOMAIN candidates
  BY DEF LoopInv, CandidatesAgree
<1>3. /\ candidates' = [x \in D |-> IF x = id THEN "proposed" ELSE candidates[x]]
      /\ passed' = [x \in D |-> IF x = id THEN <<>> ELSE passed[x]]
  BY <1>1, <1>2 DEF Set
<1> HIDE DEF D
<1>4. DOMAIN candidates' = D
      /\ candidates' = [x \in DOMAIN candidates' |-> candidates'[x]]
      /\ passed' = [x \in DOMAIN candidates' |-> passed'[x]]
  BY <1>3
<1>5. ASSUME NEW x \in DOMAIN candidates'
      PROVE  CandidatesAgree!3!(x)'
  <2>1. CASE x = id
    <3>1. candidates'[x] = "proposed" /\ passed'[x] = <<>>
      BY <1>3, <1>4, <2>1
    <3>2. Shows(<<>>, 0)
      BY DEF Shows, IsSeq
    <3>3. QED
      BY <3>1, <3>2 DEF StageOf, Shows
  <2>2. CASE x # id
    <3>1. x \in DOMAIN candidates /\ candidates'[x] = candidates[x] /\ passed'[x] = passed[x]
      BY <1>3, <1>4, <2>2 DEF D
    <3>2. QED
      BY <3>1 DEF LoopInv, CandidatesAgree, StageOf, Shows
  <2>3. QED
    BY <2>1, <2>2
<1>6. PromotionsAgree'
  BY <1>1 DEF LoopInv, PromotionsAgree, IsSeq, Cleared
<1>7. QED
  BY <1>4, <1>5, <1>6 DEF LoopInv, CandidatesAgree

\* What is promoted has shown everything, and is over the present champion.
LEMMA PromoteKeeps ==
  ASSUME LoopInv, NEW id \in DOMAIN candidates, Promote(id)
  PROVE  LoopInv'
<1>1. CASE Reject(id)
  BY <1>1, RejectKeeps
<1>2. CASE ~Reject(id)
  <2>1. /\ candidates[id] = "evaluated" /\ Recommended(id) /\ id.base = Champion.version
        /\ candidates' = [candidates EXCEPT ![id] = "promoted"] /\ UNCHANGED passed
        /\ champions' = Append(champions, id.strategy)
        /\ promotions' = Append(promotions, [of |-> id, passed |-> passed[id]])
    BY <1>2 DEF Promote, RequireStage
  <2>2. CandidatesAgree'
    BY <2>1, StageOnly DEF LoopInv
  <2>3. Cleared(passed[id])
    <3>1. Shows(passed[id], 4)
      BY <2>1 DEF LoopInv, CandidatesAgree, StageOf
    <3>2. passed[id][4][1] = "recommended"
      BY <2>1, <3>1 DEF Shows, Recommended
    <3>3. QED
      BY <3>1, <3>2 DEF Shows, Cleared
  <2> DEFINE m == Len(promotions)   new == [of |-> id, passed |-> passed[id]]
  <2>4. /\ m \in Nat /\ IsSeq(promotions') /\ Len(promotions') = m + 1 /\ promotions'[m + 1] = new
        /\ \A i \in 1..m : promotions'[i] = promotions[i]
    BY <2>1, AppendFacts DEF LoopInv, PromotionsAgree
  <2>5. /\ Len(champions) = m + 1 /\ IsSeq(champions') /\ Len(champions') = m + 2
        /\ champions'[m + 2] = id.strategy
        /\ \A i \in 1..(m + 1) : champions'[i] = champions[i]
    <3>1. IsSeq(champions) /\ Len(champions) = m + 1
      BY DEF LoopInv, PromotionsAgree
    <3>2. QED
      BY <2>1, <2>4, <3>1, AppendFacts
  <2>6. new.of.base = champions[m + 1].version /\ new.of.strategy = id.strategy /\ Cleared(new.passed)
    BY <2>1, <2>3, <2>5 DEF Champion
  <2> HIDE DEF m, new
  <2>7. ASSUME NEW n \in 1..(m + 1)
        PROVE  /\ promotions'[n].of.base = champions'[n].version
               /\ promotions'[n].of.strategy = champions'[n + 1] /\ Cleared(promotions'[n].passed)
    <3>1. CASE n = m + 1
      BY <2>4, <2>5, <2>6, <3>1
    <3>2. CASE n \in 1..m
      <4>1. /\ promotions[n].of.base = champions[n].version
            /\ promotions[n].of.strategy = champions[n + 1] /\ Cleared(promotions[n].passed)
        BY <3>2 DEF LoopInv, PromotionsAgree, m
      <4>2. QED
        BY <2>4, <2>5, <3>2, <4>1
    <3>3. QED
      BY <2>4, <3>1, <3>2
  <2>8. PromotionsAgree'
    BY <2>4, <2>5, <2>7 DEF PromotionsAgree, Cleared
  <2>9. QED
    BY <2>2, <2>8 DEF LoopInv
<1>3. QED
  BY <1>1, <1>2

LEMMA StagesKeep ==
  ASSUME LoopInv, NEW id \in DOMAIN candidates,
         \/ \E ok \in BOOLEAN, escapes \in 0..1 : RecordAttackResult(id, ok, escapes)
         \/ \E allocation \in Amounts : StartLiveCanary(id, allocation)
         \/ \E escapes \in 0..1, drawdown \in Amounts : RecordCanaryResult(id, escapes, drawdown)
         \/ \E size \in Amounts, recommend \in BOOLEAN : RecordEvaluation(id, size, recommend)
  PROVE  LoopInv'
<1>1. ASSUME NEW ok \in BOOLEAN, NEW escapes \in 0..1, RecordAttackResult(id, ok, escapes)
      PROVE  LoopInv'
  <2>1. CASE ~ok \/ escapes # 0
    BY <1>1, <2>1, RejectKeeps DEF RecordAttackResult
  <2>2. CASE ok /\ escapes = 0
    <3>1. Advance(id, "attack_passed", <<"attack", 0>>) /\ candidates[id] = "proposed"
      BY <1>1, <2>2 DEF RecordAttackResult, RequireStage
    <3>2. Shows(passed[id], 0) => Shows(Append(passed[id], <<"attack", 0>>), 0 + 1)
      BY OneMore
    <3>3. QED
      BY <3>1, <3>2, AdvanceKeeps
  <2>3. QED
    BY <2>1, <2>2
<1>2. ASSUME NEW allocation \in Amounts, StartLiveCanary(id, allocation)
      PROVE  LoopInv'
  <2> DEFINE r == <<"allocated", allocation>>
  <2>1. Advance(id, "canary_active", r) /\ candidates[id] = "attack_passed"
    BY <1>2 DEF StartLiveCanary, RequireStage
  <2>2. r[1] = "allocated" /\ r[2] \in 1..MaxAllocation
    BY <1>2, AmountsAssumption DEF StartLiveCanary
  <2>3. Shows(passed[id], 1) => Shows(Append(passed[id], r), 1 + 1)
    BY <2>2, OneMore
  <2>4. QED
    BY <2>1, <2>3, AdvanceKeeps
<1>3. ASSUME NEW escapes \in 0..1, NEW drawdown \in Amounts, RecordCanaryResult(id, escapes, drawdown)
      PROVE  LoopInv'
  <2> DEFINE r == <<"drawdown", drawdown>>
  <2>1. CASE escapes # 0 \/ drawdown > MaxDrawdown
    BY <1>3, <2>1, RejectKeeps DEF RecordCanaryResult
  <2>2. CASE ~(escapes # 0 \/ drawdown > MaxDrawdown)
    <3>1. Advance(id, "canary_complete", r) /\ candidates[id] = "canary_active"
      BY <1>3, <2>2 DEF RecordCanaryResult, RequireStage
    <3>2. r[1] = "drawdown" /\ r[2] <= MaxDrawdown
      BY <2>2, AmountsAssumption
    <3>3. Shows(passed[id], 2) => Shows(Append(passed[id], r), 2 + 1)
      BY <3>2, OneMore
    <3>4. QED
      BY <3>1, <3>3, AdvanceKeeps
  <2>3. QED
    BY <2>1, <2>2
<1>4. ASSUME NEW size \in Amounts, NEW recommend \in BOOLEAN, RecordEvaluation(id, size, recommend)
      PROVE  LoopInv'
  <2> DEFINE r == <<IF recommend THEN "recommended" ELSE "against", size>>
  <2>1. Advance(id, "evaluated", r) /\ candidates[id] = "canary_complete" /\ r[2] >= MinSample
    BY <1>4 DEF RecordEvaluation, RequireStage
  <2>2. Shows(passed[id], 3) => Shows(Append(passed[id], r), 3 + 1)
    BY <2>1, OneMore
  <2>3. QED
    BY <2>1, <2>2, AdvanceKeeps
<1>5. QED
  BY <1>1, <1>2, <1>3, <1>4

\* Nobody has been proposed or promoted yet.
LEMMA LoopInitially == LoopInit => LoopInv
<1> SUFFICES ASSUME LoopInit
             PROVE  LoopInv
  OBVIOUS
<1>1. candidates = <<>> /\ passed = <<>> /\ champions = <<FirstChampion>> /\ promotions = <<>>
  BY DEF LoopInit
<1>2. IsSeq(<<>>) /\ IsSeq(<<FirstChampion>>) /\ Len(promotions) = 0 /\ Len(champions) = 1
  BY <1>1 DEF IsSeq
<1>3. DOMAIN candidates = {}
  BY <1>1
<1>4. CandidatesAgree
  BY <1>1, <1>3 DEF CandidatesAgree
<1>5. QED
  BY <1>1, <1>2, <1>4 DEF LoopInv, PromotionsAgree

LEMMA LoopStepKeeps == LoopInv /\ [LoopNext]_loopVars => LoopInv'
<1> SUFFICES ASSUME LoopInv, [LoopNext]_loopVars
             PROVE  LoopInv'
  OBVIOUS
<1>1. CASE \E version \in Versions, patch \in Weights, evidence \in Evidence :
             Propose(version, patch, evidence)
  BY <1>1, ProposeKeeps
<1>2. ASSUME NEW id \in DOMAIN candidates, Promote(id)
      PROVE  LoopInv'
  BY <1>2, PromoteKeeps
<1>3. CASE UNCHANGED loopVars
  <2>1. UNCHANGED <<candidates, champions, passed, promotions>>
    BY <1>3 DEF loopVars
  <2>2. CandidatesAgree'
    BY <2>1 DEF LoopInv, CandidatesAgree, StageOf, Shows
  <2>3. PromotionsAgree'
    BY <2>1 DEF LoopInv, PromotionsAgree, IsSeq, Cleared
  <2>4. QED
    BY <2>2, <2>3 DEF LoopInv
<1>4. QED
  BY <1>1, <1>2, <1>3, StagesKeep DEF LoopNext

\* Every champion but the first, for any versions, weights, limits and numbers of
\* candidates, had passed every stage since it was last proposed, over a champion of the
\* version it was proposed over; two are promoted over one version only when a champion
\* in between brought that version back.
THEOREM PromotionsStayEarned == LoopSpec => []PromotionsAreEarned
<1>1. LoopInv => PromotionsAreEarned
  <2> SUFFICES ASSUME LoopInv
               PROVE  PromotionsAreEarned
    OBVIOUS
  <2>1. /\ Len(promotions) \in Nat /\ DOMAIN promotions = 1..Len(promotions)
        /\ Len(champions) = Len(promotions) + 1
    BY DEF LoopInv, PromotionsAgree, IsSeq
  <2>2. \A n \in DOMAIN promotions :
          /\ promotions[n].of.base = champions[n].version
          /\ promotions[n].of.strategy = champions[n + 1] /\ Cleared(promotions[n].passed)
    BY <2>1 DEF LoopInv, PromotionsAgree
  <2>3. ASSUME NEW j \in DOMAIN promotions, NEW k \in DOMAIN promotions, j # k,
               promotions[j].of.base = promotions[k].of.base
        PROVE  \E l \in DOMAIN promotions : promotions[l].of.strategy.version = promotions[k].of.base
    <3>1. PICK n \in {j, k} : n > 1
      BY <2>1, <2>3
    <3>2. n - 1 \in DOMAIN promotions /\ n - 1 + 1 = n
      BY <2>1, <3>1
    <3>3. promotions[n - 1].of.strategy = champions[n] /\ promotions[n].of.base = champions[n].version
      BY <2>2, <3>1, <3>2
    <3>4. QED
      BY <2>3, <3>1, <3>2, <3>3
  <2>4. QED
    BY <2>1, <2>2, <2>3 DEF PromotionsAreEarned
<1>2. QED
  BY <1>1, LoopInitially, LoopStepKeeps, PTL DEF LoopSpec

-----------------------------------------------------------------------------
(* The fixture pipeline.  What the kernel remembers and what was spent are    *)
(* recursive functions over the log; that they agree goes by induction over   *)
(* the positions of the log, as a set of numbers.                             *)

\* A set that holds zero and with each number the next holds all.
LEMMA NumbersInduct ==
  ASSUME NEW S, 0 \in S, \A n \in Nat : n \in S => n + 1 \in S
  PROVE  Nat \subseteq S
<1> DEFINE Below == OpToRel(<, Nat)
           Bad == Nat \ S
<1> SUFFICES ASSUME Bad # {} PROVE FALSE
  OBVIOUS
<1>1. IsWellFoundedOn(Below, Nat)
  BY NatLessThanWellFounded
<1>2. \A m, n \in Nat : m < n => <<m, n>> \in Below
  BY DEF OpToRel
<1>3. Bad \subseteq Nat
  OBVIOUS
<1>4. \E n \in Bad : \A m \in Bad : ~(<<m, n>> \in Below)
  <2> HIDE DEF Below, Bad
  <2>1. QED
    BY <1>1, <1>3, WFMin
<1>5. PICK n \in Bad : \A m \in Bad : ~(<<m, n>> \in Below)
  BY <1>4
<1> HIDE DEF Below
<1>6. n # 0 /\ n - 1 \in Nat /\ n - 1 < n
  BY <1>5
<1>7. n - 1 \in S
  BY <1>2, <1>5, <1>6
<1>8. (n - 1) + 1 \in S
  BY <1>6, <1>7
<1>9. QED
  BY <1>5, <1>8

\* One step of each.
MemoryStep(l, m, n) ==
  IF n = 0 THEN Q!K!NothingApproved
  ELSE IF n \in Q!Approvals(l) THEN Q!K!Remember(m[n - 1], l[n].payload.intent, l[n].payload.at)
  ELSE m[n - 1]

SumStep(day, l, s, n) ==
  IF n = 0 THEN 0
  ELSE IF n \in Q!Approvals(l) /\ Q!K!Day(l[n].payload.at) = day THEN s[n - 1] + l[n].payload.intent.amount
  ELSE s[n - 1]

\* The memory of a log is what its definition says.
LEMMA MemoryIs ==
  ASSUME NEW l, Len(l) \in Nat
  PROVE  Q!Memory(l) = [n \in 0..Len(l) |-> MemoryStep(l, Q!Memory(l), n)]
<1> DEFINE S == {N \in Nat : \E m : m = [n \in 0..N |-> MemoryStep(l, m, n)]}
<1>1. 0 \in S
  <2> DEFINE m == [n \in 0..0 |-> Q!K!NothingApproved]
  <2>1. m = [n \in 0..0 |-> MemoryStep(l, m, n)]
    BY DEF MemoryStep
  <2> HIDE DEF m
  <2>2. QED
    BY <2>1
<1>2. ASSUME NEW N \in Nat, N \in S PROVE N + 1 \in S
  <2>1. PICK m : m = [n \in 0..N |-> MemoryStep(l, m, n)]
    BY <1>2
  <2> DEFINE k == [n \in 0..(N + 1) |-> IF n = N + 1 THEN MemoryStep(l, m, N + 1) ELSE m[n]]
  <2>2. ASSUME NEW n \in 0..(N + 1) PROVE k[n] = MemoryStep(l, k, n)
    <3>1. CASE n = 0
      <4>1. k[n] = m[0] /\ m[0] = MemoryStep(l, m, 0)
        BY <2>1, <3>1
      <4> HIDE DEF k
      <4>2. QED
        BY <3>1, <4>1 DEF MemoryStep
    <3>2. CASE n # 0
      <4>1. n - 1 \in 0..N /\ k[n - 1] = m[n - 1] /\ k[n] = MemoryStep(l, m, n)
        BY <2>1, <3>2
      <4> HIDE DEF k
      <4>2. QED
        BY <4>1 DEF MemoryStep
    <3>3. QED
      BY <3>1, <3>2
  <2>3. k = [n \in 0..(N + 1) |-> k[n]]
    OBVIOUS
  <2> HIDE DEF k
  <2>4. k = [n \in 0..(N + 1) |-> MemoryStep(l, k, n)]
    BY <2>2, <2>3
  <2>5. QED
    BY <2>4
<1>3. Nat \subseteq S
  <2> HIDE DEF S
  <2>1. QED
    BY <1>1, <1>2, NumbersInduct
<1>4. \E m : m = [n \in 0..Len(l) |-> MemoryStep(l, m, n)]
  BY <1>3
<1>5. Q!Memory(l) = CHOOSE m : m = [n \in 0..Len(l) |-> MemoryStep(l, m, n)]
  BY DEF Q!Memory, MemoryStep
<1>6. QED
  BY <1>4, <1>5

\* So are the sums.
LEMMA SpendingIs ==
  ASSUME NEW day, NEW l, Len(l) \in Nat
  PROVE  Q!Spending(day, l) = [n \in 0..Len(l) |-> SumStep(day, l, Q!Spending(day, l), n)]
<1> DEFINE S == {N \in Nat : \E s : s = [n \in 0..N |-> SumStep(day, l, s, n)]}
<1>1. 0 \in S
  <2> DEFINE s == [n \in 0..0 |-> 0]
  <2>1. s = [n \in 0..0 |-> SumStep(day, l, s, n)]
    BY DEF SumStep
  <2> HIDE DEF s
  <2>2. QED
    BY <2>1
<1>2. ASSUME NEW N \in Nat, N \in S PROVE N + 1 \in S
  <2>1. PICK s : s = [n \in 0..N |-> SumStep(day, l, s, n)]
    BY <1>2
  <2> DEFINE k == [n \in 0..(N + 1) |-> IF n = N + 1 THEN SumStep(day, l, s, N + 1) ELSE s[n]]
  <2>2. ASSUME NEW n \in 0..(N + 1) PROVE k[n] = SumStep(day, l, k, n)
    <3>1. CASE n = 0
      <4>1. k[n] = s[0] /\ s[0] = SumStep(day, l, s, 0)
        BY <2>1, <3>1
      <4> HIDE DEF k
      <4>2. QED
        BY <3>1, <4>1 DEF SumStep
    <3>2. CASE n # 0
      <4>1. n - 1 \in 0..N /\ k[n - 1] = s[n - 1] /\ k[n] = SumStep(day, l, s, n)
        BY <2>1, <3>2
      <4> HIDE DEF k
      <4>2. QED
        BY <4>1 DEF SumStep
    <3>3. QED
      BY <3>1, <3>2
  <2>3. k = [n \in 0..(N + 1) |-> k[n]]
    OBVIOUS
  <2> HIDE DEF k
  <2>4. k = [n \in 0..(N + 1) |-> SumStep(day, l, k, n)]
    BY <2>2, <2>3
  <2>5. QED
    BY <2>4
<1>3. Nat \subseteq S
  <2> HIDE DEF S
  <2>1. QED
    BY <1>1, <1>2, NumbersInduct
<1>4. \E s : s = [n \in 0..Len(l) |-> SumStep(day, l, s, n)]
  BY <1>3
<1>5. Q!Spending(day, l) = CHOOSE s : s = [n \in 0..Len(l) |-> SumStep(day, l, s, n)]
  BY DEF Q!Spending, SumStep
<1>6. QED
  BY <1>4, <1>5

\* What is remembered of an approval.
LEMMA RememberSpends ==
  ASSUME NEW state, NEW i, NEW t, NEW day
  PROVE  Q!K!SpentOn(Q!K!Remember(state, i, t), day)
           = IF Q!K!Day(t) = day THEN Q!K!SpentOn(state, day) + i.amount ELSE Q!K!SpentOn(state, day)
<1> DEFINE D == Q!K!Day(t)
           new == [day |-> D, amount |-> Q!K!SpentOn(state, D) + i.amount]
           after == {s \in state.spend : s.day # D} \cup {new}
           entries == {s \in after : s.day = day}
           kept == Q!K!Remember(state, i, t)
<1>1. kept.spend = after
  BY DEF Q!K!Remember
<1> HIDE DEF kept, after
<1>2. Q!K!SpentOn(kept, day) = IF entries = {} THEN 0 ELSE (CHOOSE s \in entries : TRUE).amount
  <2>1. Q!K!SpentOn(kept, day) = IF {s \in kept.spend : s.day = day} = {} THEN 0
                                 ELSE (CHOOSE s \in {s \in kept.spend : s.day = day} : TRUE).amount
    BY Zenon DEF Q!K!SpentOn
  <2>2. QED
    BY <1>1, <2>1
<1> USE DEF after
<1>3. CASE D = day
  <2>1. entries = {new}
    BY <1>3
  <2>2. (CHOOSE s \in entries : TRUE) = new
    BY <2>1
  <2>3. new.amount = Q!K!SpentOn(state, day) + i.amount
    BY <1>3
  <2> HIDE DEF entries, new
  <2>4. QED
    BY <1>2, <1>3, <2>1, <2>2, <2>3 DEF kept
<1>4. CASE D # day
  <2>1. entries = {s \in state.spend : s.day = day}
    BY <1>4
  <2> HIDE DEF entries, D
  <2>2. QED
    BY <1>2, <1>4, <2>1 DEF Q!K!SpentOn, D, kept
<1>5. QED
  BY <1>3, <1>4 DEF kept

\* The kernel that is restored from a log remembers what the log says was spent.
LEMMA RestoredSpend ==
  ASSUME NEW l, IsSeq(l), \A n \in Q!Approvals(l) : l[n].payload.intent.amount \in Int, NEW day
  PROVE  Q!K!SpentOn(Q!Restored(l), day) = Q!SpentThatDay(day, l) /\ Q!SpentThatDay(day, l) \in Int
<1> DEFINE m == Q!Memory(l)
           s == Q!Spending(day, l)
           S == {n \in Nat : n <= Len(l) => Q!K!SpentOn(m[n], day) = s[n] /\ s[n] \in Int}
<1>1. Len(l) \in Nat
  BY SeqFacts
<1>2. /\ \A n \in 0..Len(l) : m[n] = MemoryStep(l, m, n)
      /\ \A n \in 0..Len(l) : s[n] = SumStep(day, l, s, n)
  <2>1. m = [n \in 0..Len(l) |-> MemoryStep(l, m, n)] /\ s = [n \in 0..Len(l) |-> SumStep(day, l, s, n)]
    BY <1>1, MemoryIs, SpendingIs
  <2> HIDE DEF m, s
  <2>2. QED
    BY <2>1
<1> HIDE DEF m, s
<1>3. 0 \in S
  <2>1. m[0] = Q!K!NothingApproved /\ s[0] = 0
    BY <1>1, <1>2 DEF MemoryStep, SumStep
  <2>2. Q!K!SpentOn(Q!K!NothingApproved, day) = 0
    BY DEF Q!K!SpentOn, Q!K!NothingApproved
  <2>3. QED
    BY <2>1, <2>2
<1>4. ASSUME NEW n \in Nat, n \in S PROVE n + 1 \in S
  <2>1. SUFFICES ASSUME n + 1 <= Len(l) PROVE Q!K!SpentOn(m[n + 1], day) = s[n + 1] /\ s[n + 1] \in Int
    OBVIOUS
  <2>2. Q!K!SpentOn(m[n], day) = s[n] /\ s[n] \in Int
    BY <1>1, <1>4, <2>1
  <2>3. /\ m[n + 1] = MemoryStep(l, m, n + 1) /\ s[n + 1] = SumStep(day, l, s, n + 1)
        /\ n + 1 # 0 /\ (n + 1) - 1 = n
    BY <1>1, <1>2, <2>1
  <2>4. CASE n + 1 \in Q!Approvals(l)
    <3> DEFINE i == l[n + 1].payload.intent
               t == l[n + 1].payload.at
    <3>1. m[n + 1] = Q!K!Remember(m[n], i, t)
      BY <2>3, <2>4 DEF MemoryStep
    <3>2. s[n + 1] = IF Q!K!Day(t) = day THEN s[n] + i.amount ELSE s[n]
      BY <2>3, <2>4 DEF SumStep
    <3>3. i.amount \in Int
      BY <2>4
    <3> HIDE DEF i, t
    <3>4. QED
      BY <2>2, <3>1, <3>2, <3>3, RememberSpends
  <2>5. CASE n + 1 \notin Q!Approvals(l)
    <3>1. m[n + 1] = m[n] /\ s[n + 1] = s[n]
      BY <2>3, <2>5 DEF MemoryStep, SumStep
    <3>2. QED
      BY <2>2, <3>1
  <2>6. QED
    BY <2>4, <2>5
<1>5. Len(l) \in S
  <2> HIDE DEF S
  <2>1. QED
    BY <1>1, <1>3, <1>4, NumbersInduct
<1>6. Q!K!SpentOn(m[Len(l)], day) = s[Len(l)] /\ s[Len(l)] \in Int
  BY <1>1, <1>5
<1>7. QED
  BY <1>6 DEF m, s, Q!Restored, Q!SpentThatDay

\* An event more.
LEMMA SpendGrows ==
  ASSUME NEW l, IsSeq(l), NEW e, NEW day
  PROVE  Q!SpentThatDay(day, Append(l, e))
           = IF e.type = "policy.decided" /\ e.payload.approved /\ Q!K!Day(e.payload.at) = day
             THEN Q!SpentThatDay(day, l) + e.payload.intent.amount ELSE Q!SpentThatDay(day, l)
<1> DEFINE h == Append(l, e)
           s == Q!Spending(day, l)
           k == Q!Spending(day, h)
           S == {n \in Nat : n <= Len(l) => k[n] = s[n]}
<1>1. /\ Len(h) = Len(l) + 1 /\ Len(l) \in Nat /\ h[Len(l) + 1] = e
      /\ DOMAIN h = 1..(Len(l) + 1) /\ DOMAIN l = 1..Len(l)
      /\ \A i \in 1..Len(l) : h[i] = l[i]
  BY AppendFacts, SeqFacts
<1> HIDE DEF h
<1>2. /\ \A n \in 0..Len(l) : s[n] = SumStep(day, l, s, n)
      /\ \A n \in 0..Len(h) : k[n] = SumStep(day, h, k, n)
  <2>1. s = [n \in 0..Len(l) |-> SumStep(day, l, s, n)]
    BY <1>1, SpendingIs
  <2>2. k = [n \in 0..Len(h) |-> SumStep(day, h, k, n)]
    BY <1>1, SpendingIs
  <2> HIDE DEF s, k
  <2>3. QED
    BY <2>1, <2>2
<1> HIDE DEF s, k
<1>3. \A n \in 1..Len(l) : n \in Q!Approvals(h) <=> n \in Q!Approvals(l)
  BY <1>1 DEF Q!Approvals, Q!Decisions
<1>4. Len(l) + 1 \in Q!Approvals(h) <=> e.type = "policy.decided" /\ e.payload.approved
  BY <1>1 DEF Q!Approvals, Q!Decisions
<1>5. 0 \in S
  BY <1>1, <1>2 DEF SumStep
<1>6. ASSUME NEW n \in Nat, n \in S PROVE n + 1 \in S
  <2>1. SUFFICES ASSUME n + 1 <= Len(l) PROVE k[n + 1] = s[n + 1]
    OBVIOUS
  <2>2. k[n] = s[n]
    BY <1>1, <1>6, <2>1
  <2>3. /\ k[n + 1] = SumStep(day, h, k, n + 1) /\ s[n + 1] = SumStep(day, l, s, n + 1)
        /\ n + 1 # 0 /\ (n + 1) - 1 = n /\ h[n + 1] = l[n + 1]
        /\ n + 1 \in Q!Approvals(h) <=> n + 1 \in Q!Approvals(l)
    BY <1>1, <1>2, <1>3, <2>1
  <2>4. QED
    BY <2>2, <2>3 DEF SumStep
<1>7. Len(l) \in S
  <2> HIDE DEF S
  <2>1. QED
    BY <1>1, <1>5, <1>6, NumbersInduct
<1>8. k[Len(l)] = s[Len(l)]
  BY <1>1, <1>7
<1>9. k[Len(l) + 1] = SumStep(day, h, k, Len(l) + 1) /\ Len(l) + 1 # 0 /\ (Len(l) + 1) - 1 = Len(l)
  BY <1>1, <1>2
<1>10. k[Len(h)] = IF e.type = "policy.decided" /\ e.payload.approved /\ Q!K!Day(e.payload.at) = day
                   THEN s[Len(l)] + e.payload.intent.amount ELSE s[Len(l)]
  BY <1>1, <1>4, <1>8, <1>9 DEF SumStep
<1>11. QED
  BY <1>10 DEF h, k, s, Q!SpentThatDay

\* What is approved was found within the limit of the day.
LEMMA ApprovedWithin ==
  ASSUME NEW policy, NEW state, NEW i, NEW found, NEW t, NEW d,
         d = Q!K!Decision(policy, state, i, found, t)
  PROVE  /\ d.at = t /\ d.policy = policy
         /\ d.approved => d.intent = i /\ ~(Q!K!SpentOn(state, Q!K!Day(t)) + i.amount > policy.daily)
<1> DEFINE reasons == Q!K!Reasons(policy, state, i, found, t)
           over == Q!K!SpentOn(state, Q!K!Day(t)) + i.amount > policy.daily
<1>1. d = [approved |-> reasons = {}, at |-> t, policy |-> policy, reasons |-> reasons,
           intent |-> IF reasons = {} THEN i ELSE None]
  BY DEF Q!K!Decision
<1>2. Q!K!If(over, "DAILY_SPEND_LIMIT_EXCEEDED") \subseteq reasons
  BY Zenon DEF Q!K!Reasons, Q!K!IntentReasons
<1> HIDE DEF reasons, over
<1>3. over => "DAILY_SPEND_LIMIT_EXCEEDED" \in reasons
  <2>1. over => Q!K!If(over, "DAILY_SPEND_LIMIT_EXCEEDED") = {"DAILY_SPEND_LIMIT_EXCEEDED"}
    BY Zenon DEF Q!K!If
  <2>2. QED
    BY <1>2, <2>1
<1>4. d.approved <=> reasons = {}
  <2> DEFINE none == reasons = {}
  <2>1. d = [approved |-> none, at |-> t, policy |-> policy, reasons |-> reasons,
             intent |-> IF reasons = {} THEN i ELSE None]
    BY <1>1
  <2> HIDE DEF none
  <2>2. d.approved = none
    BY <2>1
  <2>3. QED
    BY <2>2 DEF none
<1>5. reasons = {} => d.intent = i /\ ~over
  BY <1>1, <1>3
<1>6. d.at = t /\ d.policy = policy
  BY <1>1
<1>7. QED
  BY <1>4, <1>5, <1>6 DEF over

\* The first event of a run.
LEMMA FirstIs ==
  ASSUME NEW l, IsSeq(l), NEW s \in DOMAIN l
  PROVE  /\ Q!FirstOf(l[s].run, l) \in DOMAIN l
         /\ \A k \in DOMAIN l : l[k].run = l[s].run => k >= Q!FirstOf(l[s].run, l)
<1> DEFINE run == l[s].run
           S == {n \in Nat : \A k \in 1..n : k \in DOMAIN l => l[k].run # run}
           IsFirst(n) == n \in DOMAIN l /\ l[n].run = run /\ \A k \in 1..(n - 1) : l[k].run # run
<1>1. Len(l) \in Nat /\ DOMAIN l = 1..Len(l)
  BY SeqFacts
<1>2. \E n \in DOMAIN l : IsFirst(n)
  <2>1. SUFFICES ASSUME ~\E n \in DOMAIN l : IsFirst(n) PROVE FALSE
    OBVIOUS
  <2>2. 0 \in S
    OBVIOUS
  <2>3. ASSUME NEW n \in Nat, n \in S PROVE n + 1 \in S
    <3>1. \A k \in 1..n : k \in DOMAIN l => l[k].run # run
      BY <2>3
    <3>2. n + 1 \in DOMAIN l => l[n + 1].run # run
      BY <1>1, <2>1, <3>1
    <3>3. \A k \in 1..(n + 1) : k \in 1..n \/ k = n + 1
      BY <2>3
    <3>4. QED
      BY <3>1, <3>2, <3>3
  <2>4. s \in S
    <3> HIDE DEF S
    <3>1. QED
      BY <1>1, <2>2, <2>3, NumbersInduct
  <2>5. QED
    BY <1>1, <2>4
<1>3. Q!FirstOf(run, l) = CHOOSE n \in DOMAIN l : l[n].run = run /\ \A k \in 1..(n - 1) : l[k].run # run
  BY DEF Q!FirstOf
<1>4. IsFirst(Q!FirstOf(run, l))
  BY <1>2, <1>3
<1>5. ASSUME NEW k \in DOMAIN l, l[k].run = run PROVE k >= Q!FirstOf(run, l)
  BY <1>1, <1>4, <1>5
<1>6. QED
  BY <1>4, <1>5

\* The stages before the exclusive transaction.
Before == {"run.started", "evidence.correlated", "intent.proposed"}

OnFile(l, run, type) == \E s \in DOMAIN l : l[s].run = run /\ l[s].type = type
Says(l, run, type, payload) == \E s \in DOMAIN l : l[s] = Q!Event(run, type, payload)
Asked(c) == [at |-> c.now, scenario |-> c.scenario, amount |-> c.amount]

\* A completed run: all its events are on file, none is outside its report.
CompletedAt(l, n, r) ==
  /\ r.run = l[n].run /\ r.last = n
  /\ Says(l, r.run, "run.started", [at |-> r.at, scenario |-> r.scenario, amount |-> r.amount])
  /\ \A type \in Before : OnFile(l, r.run, type)
  /\ Says(l, r.run, "policy.decided", r.decision) /\ r.decision.at = r.at
  /\ \A k \in DOMAIN l : l[k].run = r.run => k \in r.first..r.last

LogAgrees(l) ==
  /\ IsSeq(l)
  /\ \A n \in DOMAIN l : l[n] = Q!Event(l[n].run, l[n].type, l[n].payload)
  /\ \A j, k \in DOMAIN l : l[j].run = l[k].run /\ l[j].type = l[k].type => j = k
  /\ \A n \in DOMAIN l : l[n].type \in {"policy.decided", "policy.state"} => OnFile(l, l[n].run, "run.completed")
  /\ \A n \in DOMAIN l : l[n].type = "run.completed" => CompletedAt(l, n, l[n].payload)

ApprovalIsLimited(l, d) ==
  /\ d.intent.amount \in Int /\ d.policy.daily \in Int
  /\ Q!SpentThatDay(Q!K!Day(d.at), l) <= d.policy.daily

Limited(l) ==
  /\ \A j, k \in Q!Decisions(l) : l[j].payload.policy = l[k].payload.policy
  /\ \A n \in Q!Approvals(l) : ApprovalIsLimited(l, l[n].payload)

\* A call that is in a run, and what it found or put on file.
InRun(l, c) ==
  /\ c = [stage |-> c.stage, run |-> c.run, scenario |-> c.scenario, amount |-> c.amount, now |-> c.now]
  /\ c.stage \in {"begun", "started", "researched", "proposed"} /\ c.amount \in Int
  /\ c.stage # "begun" => Says(l, c.run, "run.started", Asked(c))
  /\ c.stage \in {"researched", "proposed"} => OnFile(l, c.run, "evidence.correlated")
  /\ c.stage = "proposed" => OnFile(l, c.run, "intent.proposed")

CallSound(l, c) == c.stage \in {"closed", "idle"} \/ InRun(l, c)

PipeInv ==
  /\ LogAgrees(runEvents) /\ Limited(runEvents)
  /\ call = [p \in DOMAIN Policies |-> call[p]]
  /\ \A p \in DOMAIN Policies : CallSound(runEvents, call[p])
  /\ \A r \in reports : Says(runEvents, r.run, "run.completed", r)

\* What an event says is what is read of it.
LEMMA EventFields ==
  ASSUME NEW run, NEW type, NEW payload
  PROVE  /\ Q!Event(run, type, payload).run = run /\ Q!Event(run, type, payload).type = type
         /\ Q!Event(run, type, payload).payload = payload
  BY DEF Q!Event

\* There is one event of a type in a run.
LEMMA PayloadIs ==
  ASSUME NEW l, LogAgrees(l), NEW s \in DOMAIN l
  PROVE  Q!PayloadOf(l, l[s].run, l[s].type) = l[s].payload
<1> DEFINE filed == Q!Filed(l, l[s].run, l[s].type)
<1>1. filed = {s}
  BY DEF LogAgrees, Q!Filed
<1>2. (CHOOSE n \in filed : TRUE) = s
  BY <1>1
<1>3. Q!PayloadOf(l, l[s].run, l[s].type) = l[CHOOSE n \in filed : TRUE].payload
  BY DEF Q!PayloadOf
<1>4. QED
  BY <1>2, <1>3

\* What a run is said to have on file is what is read.
LEMMA SaidIsRead ==
  ASSUME NEW l, LogAgrees(l), NEW run, NEW type, NEW payload, Says(l, run, type, payload)
  PROVE  Q!PayloadOf(l, run, type) = payload /\ OnFile(l, run, type)
<1>1. PICK s \in DOMAIN l : l[s] = Q!Event(run, type, payload)
  BY DEF Says
<1>2. l[s].run = run /\ l[s].type = type /\ l[s].payload = payload
  BY <1>1, EventFields
<1>3. QED
  BY <1>2, PayloadIs DEF OnFile

\* The model asks for the positions, the proofs for an event.
LEMMA FiledIsOnFile ==
  ASSUME NEW l, NEW run, NEW type
  PROVE  Q!Filed(l, run, type) # {} <=> OnFile(l, run, type)
  BY DEF Q!Filed, OnFile

\* A log that another begins with.
Prefix(l, h) == DOMAIN l \subseteq DOMAIN h /\ \A n \in DOMAIN l : h[n] = l[n]

\* What is on file stays on file.
LEMMA FileStays ==
  ASSUME NEW l, NEW h, Prefix(l, h)
  PROVE  /\ \A run, type : OnFile(l, run, type) => OnFile(h, run, type)
         /\ \A run, type, payload : Says(l, run, type, payload) => Says(h, run, type, payload)
         /\ \A c : CallSound(l, c) => CallSound(h, c)
<1>1. \A run, type : OnFile(l, run, type) => OnFile(h, run, type)
  BY DEF Prefix, OnFile
<1>2. \A run, type, payload : Says(l, run, type, payload) => Says(h, run, type, payload)
  BY DEF Prefix, Says
<1>3. ASSUME NEW c, CallSound(l, c) PROVE CallSound(h, c)
  BY <1>1, <1>2, <1>3 DEF CallSound, InRun
<1>4. QED
  BY <1>1, <1>2, <1>3

\* So does a completed run, when what is added is of other runs.
LEMMA CompletedStays ==
  ASSUME NEW l, NEW h, Prefix(l, h), NEW n \in DOMAIN l, NEW r, CompletedAt(l, n, r),
         \A k \in DOMAIN h \ DOMAIN l : h[k].run # r.run
  PROVE  CompletedAt(h, n, r)
<1>1. h[n] = l[n]
  BY DEF Prefix
<1>2. Says(h, r.run, "run.started", [at |-> r.at, scenario |-> r.scenario, amount |-> r.amount])
  BY FileStays DEF CompletedAt
<1>3. \A type \in Before : OnFile(h, r.run, type)
  BY FileStays DEF CompletedAt
<1>4. Says(h, r.run, "policy.decided", r.decision)
  BY FileStays DEF CompletedAt
<1>5. \A k \in DOMAIN h : h[k].run = r.run => k \in r.first..r.last
  BY DEF CompletedAt, Prefix
<1>6. QED
  BY <1>1, <1>2, <1>3, <1>4, <1>5 DEF CompletedAt

\* How the log grows.
Grows(l, e, h) == IsSeq(l) /\ h = Append(l, e)
GrowsByThree(l, a, b, c, g, h) == IsSeq(l) /\ g = Append(Append(l, a), b) /\ h = Append(g, c)

\* An event more, at the end.
LEMMA OneMoreEvent ==
  ASSUME NEW l, NEW e, NEW h, Grows(l, e, h)
  PROVE  /\ IsSeq(h) /\ Prefix(l, h) /\ DOMAIN h = DOMAIN l \cup {Len(l) + 1} /\ h[Len(l) + 1] = e
         /\ Len(h) = Len(l) + 1 /\ Len(l) + 1 \notin DOMAIN l /\ Len(l) \in Nat /\ DOMAIN l = 1..Len(l)
<1>1. /\ IsSeq(h) /\ Len(h) = Len(l) + 1 /\ Len(l) \in Nat /\ DOMAIN h = 1..(Len(l) + 1)
      /\ h[Len(l) + 1] = e /\ \A i \in 1..Len(l) : h[i] = l[i]
  BY AppendFacts DEF Grows
<1>2. DOMAIN l = 1..Len(l)
  BY SeqFacts DEF Grows
<1>3. QED
  BY <1>1, <1>2 DEF Prefix

\* A stage's event is added to a run that it was not on file of, and so not complete.
LEMMA StageGrows ==
  ASSUME NEW l, LogAgrees(l), Limited(l), NEW run, NEW type \in Before, NEW payload, ~OnFile(l, run, type),
         NEW h, h = Append(l, Q!Event(run, type, payload))
  PROVE  LogAgrees(h) /\ Limited(h) /\ Prefix(l, h) /\ Says(h, run, type, payload)
<1> DEFINE e == Q!Event(run, type, payload)
           last == Len(l) + 1
<1>1. IsSeq(l)
  BY DEF LogAgrees
<1>2. /\ IsSeq(h) /\ Prefix(l, h) /\ DOMAIN h = DOMAIN l \cup {last} /\ h[last] = e /\ last \notin DOMAIN l
  <2>1. Grows(l, e, h)
    BY <1>1 DEF Grows
  <2> HIDE DEF e
  <2>2. QED
    BY <2>1, OneMoreEvent
<1>3. e.run = run /\ e.type = type /\ e.payload = payload
  BY EventFields
<1>4. /\ type # "run.completed" /\ type # "policy.decided" /\ type # "policy.state"
  BY DEF Before
<1>5. Says(h, run, type, payload)
  BY <1>2 DEF Says
<1> HIDE DEF last
<1>6. \A n \in DOMAIN l : h[n] = l[n]
  BY <1>2 DEF Prefix
<1>7. \A n \in DOMAIN l : l[n].type = "run.completed" => l[n].run # run
  <2>1. ASSUME NEW n \in DOMAIN l, l[n].type = "run.completed", l[n].run = run PROVE FALSE
    <3>1. CompletedAt(l, n, l[n].payload)
      BY <2>1 DEF LogAgrees
    <3>2. OnFile(l, run, type)
      BY <2>1, <3>1 DEF CompletedAt
    <3>3. QED
      BY <3>2
  <2>2. QED
    BY <2>1
<1>8. \A n \in DOMAIN h : h[n] = Q!Event(h[n].run, h[n].type, h[n].payload)
  BY <1>2, <1>3, <1>6 DEF LogAgrees
<1>9. \A j, k \in DOMAIN h : h[j].run = h[k].run /\ h[j].type = h[k].type => j = k
  BY <1>2, <1>3, <1>6 DEF LogAgrees, OnFile
<1>10. ASSUME NEW n \in DOMAIN h, h[n].type \in {"policy.decided", "policy.state"}
       PROVE  OnFile(h, h[n].run, "run.completed")
  <2>1. n \in DOMAIN l /\ h[n] = l[n]
    BY <1>2, <1>3, <1>4, <1>6, <1>10
  <2>2. OnFile(l, l[n].run, "run.completed")
    BY <1>10, <2>1 DEF LogAgrees
  <2>3. QED
    BY <1>2, <2>1, <2>2, FileStays
<1>11. ASSUME NEW n \in DOMAIN h, h[n].type = "run.completed" PROVE CompletedAt(h, n, h[n].payload)
  <2>1. n \in DOMAIN l /\ h[n] = l[n]
    BY <1>2, <1>3, <1>4, <1>6, <1>11
  <2>2. CompletedAt(l, n, l[n].payload)
    BY <1>11, <2>1 DEF LogAgrees
  <2>3. l[n].payload.run # run
    BY <1>7, <1>11, <2>1, <2>2 DEF CompletedAt
  <2>4. \A k \in DOMAIN h \ DOMAIN l : h[k].run # l[n].payload.run
    BY <1>2, <1>3, <2>3
  <2>5. QED
    BY <1>2, <2>1, <2>2, <2>4, CompletedStays
<1>12. LogAgrees(h)
  BY <1>2, <1>8, <1>9, <1>10, <1>11 DEF LogAgrees
<1>13. \A n \in DOMAIN h : h[n].type = "policy.decided" => n \in DOMAIN l
  BY <1>2, <1>3, <1>4
<1>14. Q!Decisions(h) = Q!Decisions(l)
  BY <1>2, <1>6, <1>13 DEF Q!Decisions
<1>15. Q!Approvals(h) = Q!Approvals(l) /\ \A n \in Q!Decisions(l) : h[n] = l[n]
  BY <1>6, <1>14 DEF Q!Approvals, Q!Decisions
<1>16. \A day : Q!SpentThatDay(day, h) = Q!SpentThatDay(day, l)
  BY <1>1, <1>3, <1>4, SpendGrows
<1>17. Limited(h)
  <2>1. \A n \in Q!Approvals(h) : n \in Q!Decisions(l)
    BY <1>15 DEF Q!Approvals
  <2>2. \A j, k \in Q!Decisions(h) : h[j].payload.policy = h[k].payload.policy
    <3>1. ASSUME NEW j \in Q!Decisions(l), NEW k \in Q!Decisions(l) PROVE h[j].payload.policy = h[k].payload.policy
      <4>1. l[j].payload.policy = l[k].payload.policy
        BY DEF Limited
      <4>2. QED
        BY <1>15, <4>1
    <3>2. QED
      BY <1>14, <3>1
  <2>3. ASSUME NEW n \in Q!Approvals(h) PROVE ApprovalIsLimited(h, h[n].payload)
    <3>1. h[n] = l[n] /\ ApprovalIsLimited(l, l[n].payload)
      BY <1>15, <2>1 DEF Limited
    <3>2. QED
      BY <1>16, <3>1 DEF ApprovalIsLimited
  <2>4. QED
    BY <2>2, <2>3 DEF Limited
<1>18. QED
  BY <1>2, <1>5, <1>12, <1>17

\* The next places.
After1(l) == Len(l) + 1
After2(l) == Len(l) + 2
After3(l) == Len(l) + 3

ThreeOn(l, a, b, c, g, h) ==
  /\ IsSeq(h) /\ Prefix(l, h) /\ DOMAIN l = 1..Len(l)
  /\ DOMAIN h = DOMAIN l \cup {After1(l), After2(l), After3(l)}
  /\ h[After1(l)] = a /\ h[After2(l)] = b /\ h[After3(l)] = c
  /\ IsSeq(g) /\ DOMAIN g = DOMAIN l \cup {After1(l), After2(l)} /\ Prefix(g, h)

\* The exclusive transaction adds three events.
LEMMA ThreeMore ==
  ASSUME NEW l, NEW a, NEW b, NEW c, NEW g, NEW h, GrowsByThree(l, a, b, c, g, h)
  PROVE  ThreeOn(l, a, b, c, g, h)
<1>1. PICK f : f = Append(l, a)
  OBVIOUS
<1>2. Grows(l, a, f)
  BY <1>1 DEF Grows, GrowsByThree
<1>3. /\ IsSeq(f) /\ Prefix(l, f) /\ DOMAIN f = DOMAIN l \cup {Len(l) + 1} /\ f[Len(l) + 1] = a
      /\ Len(f) = Len(l) + 1 /\ Len(l) \in Nat /\ DOMAIN l = 1..Len(l)
  BY <1>2, OneMoreEvent
<1>4. Grows(f, b, g)
  BY <1>1, <1>3 DEF Grows, GrowsByThree
<1>5. /\ IsSeq(g) /\ Prefix(f, g) /\ DOMAIN g = DOMAIN f \cup {Len(f) + 1} /\ g[Len(f) + 1] = b
      /\ Len(g) = Len(f) + 1
  BY <1>4, OneMoreEvent
<1>6. Grows(g, c, h)
  BY <1>5 DEF Grows, GrowsByThree
<1>7. /\ IsSeq(h) /\ Prefix(g, h) /\ DOMAIN h = DOMAIN g \cup {Len(g) + 1} /\ h[Len(g) + 1] = c
  BY <1>6, OneMoreEvent
<1>8. Len(l) + 1 = After1(l) /\ Len(f) + 1 = After2(l) /\ Len(g) + 1 = After3(l)
  BY <1>3, <1>5 DEF After1, After2, After3
<1>9. h[After1(l)] = a /\ h[After2(l)] = b /\ h[After3(l)] = c
  BY <1>3, <1>5, <1>7, <1>8 DEF Prefix
<1>10. DOMAIN h = DOMAIN l \cup {After1(l), After2(l), After3(l)}
  BY <1>3, <1>5, <1>7, <1>8
<1>11. DOMAIN g = DOMAIN l \cup {After1(l), After2(l)}
  BY <1>3, <1>5, <1>8
<1>12. Prefix(l, h)
  BY <1>3, <1>5, <1>7 DEF Prefix
<1>13. QED
  BY <1>3, <1>5, <1>7, <1>9, <1>10, <1>11, <1>12 DEF ThreeOn

\* A run ends: none of its end was on file, all its stages were.
Ending(l, h, run, d, state, r) ==
  /\ h = Append(Append(Append(l, Q!Event(run, "policy.decided", d)), Q!Event(run, "policy.state", state)),
                Q!Event(run, "run.completed", r))
  /\ LogAgrees(l) /\ Limited(l) /\ ~OnFile(l, run, "run.completed") /\ \A type \in Before : OnFile(l, run, type)

\* The log of a run that is complete.
LEMMA EndingAgrees ==
  ASSUME NEW l, NEW h, NEW run, NEW d, NEW state, NEW r, Ending(l, h, run, d, state, r),
         r.run = run, r.last = Len(l) + 3, r.decision = d, d.at = r.at,
         r.first = Q!FirstOf(run, Append(Append(l, Q!Event(run, "policy.decided", d)), Q!Event(run, "policy.state", state))),
         Says(l, run, "run.started", [at |-> r.at, scenario |-> r.scenario, amount |-> r.amount])
  PROVE  LogAgrees(h) /\ Prefix(l, h) /\ Says(h, run, "run.completed", r)
<1> DEFINE a == Q!Event(run, "policy.decided", d)
           b == Q!Event(run, "policy.state", state)
           c == Q!Event(run, "run.completed", r)
           N == Len(l)
           n1 == After1(l)
           n2 == After2(l)
           n3 == After3(l)
           g == Append(Append(l, a), b)
<1>1. IsSeq(l)
  BY DEF Ending, LogAgrees
<1>2. /\ IsSeq(h) /\ Prefix(l, h) /\ DOMAIN l = 1..N /\ DOMAIN h = DOMAIN l \cup {n1, n2, n3}
      /\ h[n1] = a /\ h[n2] = b /\ h[n3] = c
      /\ IsSeq(g) /\ DOMAIN g = DOMAIN l \cup {n1, n2} /\ Prefix(g, h)
  <2>1. GrowsByThree(l, a, b, c, g, h)
    BY <1>1 DEF Ending, GrowsByThree
  <2> HIDE DEF a, b, c, g
  <2>2. ThreeOn(l, a, b, c, g, h)
    BY <2>1, ThreeMore
  <2>3. QED
    BY <2>2 DEF ThreeOn
<1>22. /\ N \in Nat /\ n1 = N + 1 /\ n2 = N + 2 /\ n3 = N + 3
       /\ n1 \notin DOMAIN l /\ n2 \notin DOMAIN l /\ n3 \notin DOMAIN l /\ n1 # n2 /\ n1 # n3 /\ n2 # n3
  BY <1>1, SeqFacts DEF After1, After2, After3
<1>3. /\ a.run = run /\ a.type = "policy.decided" /\ a.payload = d
      /\ b.run = run /\ b.type = "policy.state"
      /\ c.run = run /\ c.type = "run.completed" /\ c.payload = r
      /\ a = Q!Event(a.run, a.type, a.payload) /\ b = Q!Event(b.run, b.type, b.payload)
      /\ c = Q!Event(c.run, c.type, c.payload)
  BY EventFields
<1> HIDE DEF a, b, c, g
<1>4. \A n \in DOMAIN l : h[n] = l[n]
  BY <1>2, <1>22 DEF Prefix
<1>5. \A n \in DOMAIN l : l[n].run = run =>
        l[n].type # "policy.decided" /\ l[n].type # "policy.state" /\ l[n].type # "run.completed"
  BY DEF Ending, LogAgrees, OnFile
<1>6. n1 \in DOMAIN h /\ n2 \in DOMAIN h /\ n3 \in DOMAIN h
  BY <1>2, <1>22
<1>7. \A n \in DOMAIN h : n \in DOMAIN l \/ n = n1 \/ n = n2 \/ n = n3
  BY <1>2, <1>22
<1>8. \A n \in DOMAIN h : h[n] = Q!Event(h[n].run, h[n].type, h[n].payload)
  <2>1. \A n \in DOMAIN l : l[n] = Q!Event(l[n].run, l[n].type, l[n].payload)
    BY DEF Ending, LogAgrees
  <2>2. QED
    BY <1>2, <1>22, <1>3, <1>4, <1>7, <2>1
<1>9. \A j, k \in DOMAIN h : h[j].run = h[k].run /\ h[j].type = h[k].type => j = k
  <2>1. \A j, k \in DOMAIN l : l[j].run = l[k].run /\ l[j].type = l[k].type => j = k
    BY DEF Ending, LogAgrees
  <2>2. ASSUME NEW j \in DOMAIN h, NEW k \in DOMAIN h, h[j].run = h[k].run, h[j].type = h[k].type
        PROVE  j = k
    <3>1. CASE j \in DOMAIN l /\ k \in DOMAIN l
      BY <1>4, <2>1, <2>2, <3>1
    <3>2. CASE j \in DOMAIN l /\ k \notin DOMAIN l
      <4>1. h[k].run = run /\ h[k].type \in {"policy.decided", "policy.state", "run.completed"}
        BY <1>2, <1>22, <1>3, <1>7, <3>2
      <4>2. QED
        BY <1>4, <1>5, <2>2, <3>2, <4>1
    <3>3. CASE j \notin DOMAIN l /\ k \in DOMAIN l
      <4>1. h[j].run = run /\ h[j].type \in {"policy.decided", "policy.state", "run.completed"}
        BY <1>2, <1>22, <1>3, <1>7, <3>3
      <4>2. QED
        BY <1>4, <1>5, <2>2, <3>3, <4>1
    <3>4. CASE j \notin DOMAIN l /\ k \notin DOMAIN l
      BY <1>2, <1>22, <1>3, <1>7, <2>2, <3>4
    <3>5. QED
      BY <3>1, <3>2, <3>3, <3>4
  <2>3. QED
    BY <2>2
<1>10. Says(h, run, "run.completed", r)
  BY <1>2, <1>22, <1>6 DEF Says, c
<1>11. OnFile(h, run, "run.completed")
  BY <1>2, <1>22, <1>3, <1>6 DEF OnFile
<1>12. ASSUME NEW n \in DOMAIN h, h[n].type \in {"policy.decided", "policy.state"}
       PROVE  OnFile(h, h[n].run, "run.completed")
  <2>1. CASE n \in DOMAIN l
    <3>1. OnFile(l, l[n].run, "run.completed")
      BY <1>4, <1>12, <2>1 DEF Ending, LogAgrees
    <3>2. QED
      BY <1>2, <1>22, <1>4, <2>1, <3>1, FileStays
  <2>2. CASE n \notin DOMAIN l
    BY <1>2, <1>22, <1>3, <1>7, <1>11, <2>2
  <2>3. QED
    BY <2>1, <2>2
<1>13. CompletedAt(h, n3, r)
  <2>1. Says(h, run, "run.started", [at |-> r.at, scenario |-> r.scenario, amount |-> r.amount])
    BY <1>2, <1>22, FileStays
  <2>2. \A type \in Before : OnFile(h, run, type)
    BY <1>2, <1>22, FileStays DEF Ending
  <2>3. Says(h, run, "policy.decided", r.decision)
    BY <1>2, <1>22, <1>6 DEF Says, a
  <2>4. ASSUME NEW k \in DOMAIN h, h[k].run = run PROVE k \in r.first..r.last
    <3>1. IsSeq(g) /\ DOMAIN g = DOMAIN l \cup {n1, n2} /\ \A n \in DOMAIN g : g[n] = h[n]
      BY <1>2, <1>22 DEF Prefix
    <3>2. r.first = Q!FirstOf(run, g)
      BY DEF a, b, g
    <3>3. n1 \in DOMAIN g /\ g[n1].run = run
      BY <1>2, <1>22, <1>3, <3>1
    <3>4. \A n \in DOMAIN g : g[n].run = run => n >= r.first
      BY <3>1, <3>2, <3>3, FirstIs
    <3>5. r.first <= n1
      BY <3>3, <3>4, <1>2
    <3>6. r.first \in Int
      <4>1. r.first \in DOMAIN g
        BY <3>1, <3>2, <3>3, FirstIs
      <4>2. QED
        BY <1>2, <1>22, <3>1, <4>1
    <3>7. CASE k \in DOMAIN g
      <4>1. k >= r.first /\ k \in Int /\ k <= n3
        BY <1>2, <1>22, <2>4, <3>1, <3>4, <3>7
      <4>2. QED
        BY <1>2, <1>22, <3>6, <4>1
    <3>8. CASE k \notin DOMAIN g
      <4>1. k = n3
        BY <1>7, <3>1, <3>8
      <4>2. QED
        BY <1>2, <1>22, <3>5, <3>6, <4>1
    <3>9. QED
      BY <3>7, <3>8
  <2>5. QED
    BY <1>2, <1>22, <1>3, <2>1, <2>2, <2>3, <2>4 DEF CompletedAt
<1>14. ASSUME NEW n \in DOMAIN h, h[n].type = "run.completed" PROVE CompletedAt(h, n, h[n].payload)
  <2>1. CASE n \in DOMAIN l
    <3>1. CompletedAt(l, n, l[n].payload) /\ l[n].run # run
      BY <1>4, <1>5, <1>14, <2>1 DEF Ending, LogAgrees
    <3>2. \A k \in DOMAIN h \ DOMAIN l : h[k].run # l[n].payload.run
      BY <1>2, <1>22, <1>3, <1>7, <3>1 DEF CompletedAt
    <3>3. QED
      BY <1>2, <1>22, <1>4, <2>1, <3>1, <3>2, CompletedStays
  <2>2. CASE n \notin DOMAIN l
    <3>1. n = n3
      BY <1>2, <1>22, <1>3, <1>7, <1>14, <2>2
    <3>2. QED
      BY <1>2, <1>22, <1>3, <1>13, <3>1
  <2>3. QED
    BY <2>1, <2>2
<1>15. LogAgrees(h)
  BY <1>2, <1>22, <1>8, <1>9, <1>12, <1>14 DEF LogAgrees
<1>16. QED
  BY <1>2, <1>22, <1>10, <1>15

\* What the kernel found within the limit is within it on file.
LEMMA EndingLimited ==
  ASSUME NEW l, NEW h, NEW run, NEW d, NEW state, NEW r, Ending(l, h, run, d, state, r),
         NEW policy, NEW i, NEW found, NEW t, d = Q!K!Decision(policy, Q!Restored(l), i, found, t),
         Q!Restorable(l, policy), i.amount \in Int, policy.daily \in Int
  PROVE  Limited(h)
<1> DEFINE a == Q!Event(run, "policy.decided", d)
           b == Q!Event(run, "policy.state", state)
           c == Q!Event(run, "run.completed", r)
           N == Len(l)
           n1 == After1(l)
           n2 == After2(l)
           n3 == After3(l)
<1>1. IsSeq(l)
  BY DEF Ending, LogAgrees
<1>2. /\ Prefix(l, h) /\ DOMAIN l = 1..N /\ DOMAIN h = DOMAIN l \cup {n1, n2, n3}
      /\ h[n1] = a /\ h[n2] = b /\ h[n3] = c
  <2> DEFINE g == Append(Append(l, a), b)
  <2>1. GrowsByThree(l, a, b, c, g, h)
    BY <1>1 DEF Ending, GrowsByThree
  <2> HIDE DEF a, b, c, g
  <2>2. ThreeOn(l, a, b, c, g, h)
    BY <2>1, ThreeMore
  <2>3. QED
    BY <2>2 DEF ThreeOn
<1>22. n1 \notin DOMAIN l /\ n2 \notin DOMAIN l /\ n3 \notin DOMAIN l /\ n1 # n2 /\ n1 # n3 /\ n2 # n3
  BY <1>1, SeqFacts DEF After1, After2, After3
<1>3. /\ a.type = "policy.decided" /\ a.payload = d /\ b.type = "policy.state" /\ c.type = "run.completed"
  BY EventFields
<1>4. \A n \in DOMAIN l : h[n] = l[n]
  BY <1>2, <1>22 DEF Prefix
<1>5. ASSUME NEW day
      PROVE  Q!SpentThatDay(day, h) = IF d.approved /\ Q!K!Day(d.at) = day THEN Q!SpentThatDay(day, l) + d.intent.amount
                                      ELSE Q!SpentThatDay(day, l)
  <2> DEFINE la == Append(l, a)
             lb == Append(la, b)
  <2>1. IsSeq(la) /\ IsSeq(lb)
    BY <1>1, AppendFacts
  <2>2. h = Append(lb, c)
    BY DEF Ending
  <2> HIDE DEF a, b, c
  <2>3. Q!SpentThatDay(day, la) = IF d.approved /\ Q!K!Day(d.at) = day THEN Q!SpentThatDay(day, l) + d.intent.amount
                                  ELSE Q!SpentThatDay(day, l)
    BY <1>1, <1>3, SpendGrows
  <2> HIDE DEF la
  <2>4. Q!SpentThatDay(day, lb) = Q!SpentThatDay(day, la)
    BY <1>3, <2>1, SpendGrows
  <2> HIDE DEF lb
  <2>5. Q!SpentThatDay(day, h) = Q!SpentThatDay(day, lb)
    BY <1>3, <2>1, <2>2, SpendGrows
  <2>6. QED
    BY <2>3, <2>4, <2>5
<1> HIDE DEF a, b, c
<1>6. /\ d.at = t /\ d.policy = policy
      /\ d.approved => d.intent = i /\ ~(Q!K!SpentOn(Q!Restored(l), Q!K!Day(t)) + i.amount > policy.daily)
  BY ApprovedWithin
<1>7. \A n \in Q!Decisions(l) : l[n].payload.policy = policy
  BY DEF Q!Restorable
<1>8. \A n \in Q!Approvals(l) : n \in Q!Decisions(l) /\ n \in DOMAIN l /\ ApprovalIsLimited(l, l[n].payload)
  BY DEF Ending, Limited, Q!Approvals, Q!Decisions
<1>9. \A n \in Q!Approvals(l) : l[n].payload.intent.amount \in Int
  BY <1>8 DEF ApprovalIsLimited
<1>10. \A day : Q!K!SpentOn(Q!Restored(l), day) = Q!SpentThatDay(day, l) /\ Q!SpentThatDay(day, l) \in Int
  BY <1>1, <1>9, RestoredSpend
<1>11. d.approved => Q!SpentThatDay(Q!K!Day(t), l) + i.amount <= policy.daily
  BY <1>6, <1>10
<1>12. \A n \in DOMAIN h : h[n].type = "policy.decided" => n \in DOMAIN l \/ n = n1
  BY <1>2, <1>22, <1>3
<1>13. \A n \in Q!Decisions(h) : h[n].payload.policy = policy
  <2>1. ASSUME NEW n \in DOMAIN h, h[n].type = "policy.decided" PROVE h[n].payload.policy = policy
    <3>1. CASE n \in DOMAIN l
      BY <1>4, <1>7, <2>1, <3>1 DEF Q!Decisions
    <3>2. CASE n = n1
      BY <1>2, <1>22, <1>3, <1>6, <3>2
    <3>3. QED
      BY <1>12, <2>1, <3>1, <3>2
  <2>2. QED
    BY <2>1 DEF Q!Decisions
<1>14. ASSUME NEW n \in Q!Approvals(h) PROVE ApprovalIsLimited(h, h[n].payload)
  <2>1. n \in DOMAIN h /\ h[n].type = "policy.decided" /\ h[n].payload.approved
    BY DEF Q!Approvals, Q!Decisions
  <2>2. CASE n \in DOMAIN l
    <3> DEFINE o == l[n].payload
    <3>1. h[n].payload = o /\ n \in Q!Approvals(l) /\ o.policy = policy
      BY <1>4, <1>7, <2>1, <2>2 DEF Q!Approvals, Q!Decisions
    <3>2. /\ o.intent.amount \in Int /\ o.policy.daily \in Int
          /\ Q!SpentThatDay(Q!K!Day(o.at), l) <= o.policy.daily
      BY <1>8, <3>1 DEF ApprovalIsLimited
    <3> HIDE DEF o
    <3>3. CASE d.approved /\ Q!K!Day(d.at) = Q!K!Day(o.at)
      <4>1. Q!SpentThatDay(Q!K!Day(o.at), h) = Q!SpentThatDay(Q!K!Day(o.at), l) + i.amount
        BY <1>5, <1>6, <3>3
      <4>2. Q!SpentThatDay(Q!K!Day(o.at), l) + i.amount <= policy.daily
        BY <1>6, <1>11, <3>3
      <4>3. QED
        BY <3>1, <3>2, <4>1, <4>2 DEF ApprovalIsLimited
    <3>4. CASE ~(d.approved /\ Q!K!Day(d.at) = Q!K!Day(o.at))
      <4>1. Q!SpentThatDay(Q!K!Day(o.at), h) = Q!SpentThatDay(Q!K!Day(o.at), l)
        BY <1>5, <3>4
      <4>2. QED
        BY <3>1, <3>2, <4>1 DEF ApprovalIsLimited
    <3>5. QED
      BY <3>3, <3>4
  <2>3. CASE n = n1
    <3>1. h[n].payload = d /\ d.approved
      BY <1>2, <1>22, <1>3, <2>1, <2>3
    <3>2. Q!SpentThatDay(Q!K!Day(d.at), h) = Q!SpentThatDay(Q!K!Day(t), l) + i.amount
      BY <1>5, <1>6, <3>1
    <3>3. QED
      BY <1>6, <1>11, <3>1, <3>2 DEF ApprovalIsLimited
  <2>4. QED
    BY <1>12, <2>1, <2>2, <2>3
<1>15. QED
  BY <1>13, <1>14 DEF Limited

\* The properties follow.
LEMMA PipeInvIsEnough == ASSUME PipeInv PROVE RunsAgreeWithinLimits
<1>1. LogAgrees(runEvents) /\ Limited(runEvents)
  BY DEF PipeInv
<1>2. Q!SpendStaysLimited
  <2>1. \A j, k \in Q!Decisions(runEvents) : runEvents[j].run = runEvents[k].run => j = k
    BY <1>1 DEF LogAgrees, Q!Decisions
  <2>2. \A j, k \in Q!Decisions(runEvents) : runEvents[j].payload.policy = runEvents[k].payload.policy
    BY <1>1 DEF Limited
  <2>3. \A n \in Q!Approvals(runEvents) :
          Q!SpentThatDay(Q!K!Day(runEvents[n].payload.at), runEvents) <= runEvents[n].payload.policy.daily
    BY <1>1 DEF Limited, ApprovalIsLimited
  <2>4. QED
    BY <2>1, <2>2, <2>3 DEF Q!SpendStaysLimited
<1>3. ASSUME NEW r \in reports
      PROVE  \E n \in DOMAIN runEvents : runEvents[n] = Q!Event(r.run, "run.completed", r) /\ CompletedAt(runEvents, n, r)
  <2>1. PICK n \in DOMAIN runEvents : runEvents[n] = Q!Event(r.run, "run.completed", r)
    BY DEF PipeInv, Says
  <2>2. runEvents[n].type = "run.completed" /\ runEvents[n].payload = r
    BY <2>1, EventFields
  <2>3. CompletedAt(runEvents, n, r)
    BY <1>1, <2>2 DEF LogAgrees
  <2>4. QED
    BY <2>1, <2>3
<1>4. ASSUME NEW r \in reports, NEW other \in reports, other.run = r.run PROVE other = r
  <2>1. PICK n \in DOMAIN runEvents : runEvents[n] = Q!Event(r.run, "run.completed", r)
    BY <1>3
  <2>2. PICK m \in DOMAIN runEvents : runEvents[m] = Q!Event(other.run, "run.completed", other)
    BY <1>3
  <2>3. /\ runEvents[n].run = r.run /\ runEvents[n].type = "run.completed" /\ runEvents[n].payload = r
        /\ runEvents[m].run = other.run /\ runEvents[m].type = "run.completed" /\ runEvents[m].payload = other
    BY <2>1, <2>2, EventFields
  <2>4. m = n
    BY <1>1, <1>4, <2>3 DEF LogAgrees
  <2>5. QED
    BY <2>3, <2>4
<1>5. ASSUME NEW r \in reports
      PROVE  /\ r.last \in DOMAIN runEvents /\ runEvents[r.last] = Q!Event(r.run, "run.completed", r)
             /\ Q!PayloadOf(runEvents, r.run, "run.started") = [at |-> r.at, scenario |-> r.scenario, amount |-> r.amount]
             /\ r.decision = Q!PayloadOf(runEvents, r.run, "policy.decided") /\ r.decision.at = r.at
             /\ \A n \in DOMAIN runEvents : runEvents[n].run = r.run => n \in r.first..r.last
  <2>1. PICK n \in DOMAIN runEvents : runEvents[n] = Q!Event(r.run, "run.completed", r) /\ CompletedAt(runEvents, n, r)
    BY <1>3
  <2>2. Q!PayloadOf(runEvents, r.run, "run.started") = [at |-> r.at, scenario |-> r.scenario, amount |-> r.amount]
    BY <1>1, <2>1, SaidIsRead DEF CompletedAt
  <2>3. Q!PayloadOf(runEvents, r.run, "policy.decided") = r.decision
    BY <1>1, <2>1, SaidIsRead DEF CompletedAt
  <2>4. QED
    BY <2>1, <2>2, <2>3 DEF CompletedAt
<1>6. Q!ReportsAgree
  BY <1>4, <1>5 DEF Q!ReportsAgree
<1>7. QED
  BY <1>2, <1>6 DEF RunsAgreeWithinLimits

\* The log grows, one call goes on, and a report is given that is on file.
LEMMA PipeGoesOn ==
  ASSUME PipeInv, LogAgrees(runEvents'), Limited(runEvents'), Prefix(runEvents, runEvents'),
         NEW p \in DOMAIN Policies, NEW c, call' = [call EXCEPT ![p] = c], CallSound(runEvents', c),
         \A r \in reports' : r \in reports \/ Says(runEvents', r.run, "run.completed", r)
  PROVE  PipeInv'
<1> DEFINE l == runEvents
           h == runEvents'
<1>1. /\ \A o \in DOMAIN Policies : CallSound(l, call[o])
      /\ \A r \in reports : Says(l, r.run, "run.completed", r)
      /\ call = [o \in DOMAIN Policies |-> call[o]]
  BY DEF PipeInv
<1>2. /\ \A o \in DOMAIN Policies : call'[o] = IF o = p THEN c ELSE call[o]
      /\ call' = [o \in DOMAIN Policies |-> call'[o]]
  BY <1>1
<1>3. \A o \in DOMAIN Policies : CallSound(h, call[o])
  BY <1>1, FileStays
<1>4. \A o \in DOMAIN Policies : CallSound(h, call'[o])
  BY <1>2, <1>3
<1>5. \A r \in reports' : Says(h, r.run, "run.completed", r)
  BY <1>1, FileStays
<1>6. QED
  BY <1>2, <1>4, <1>5 DEF PipeInv

\* A log begins with itself.
LEMMA SamePrefix == ASSUME NEW l PROVE Prefix(l, l)
  BY DEF Prefix

\* Nothing is on file at first, and every process is yet to open the pipeline.
LEMMA PipeInitially == Q!PipelineInit => PipeInv
<1> SUFFICES ASSUME Q!PipelineInit PROVE PipeInv
  OBVIOUS
<1>1. runEvents = <<>> /\ reports = {} /\ call = [p \in DOMAIN Policies |-> [stage |-> "closed"]]
  BY DEF Q!PipelineInit
<1>2. IsSeq(runEvents) /\ DOMAIN runEvents = {}
  BY <1>1, EmptyIsSeq
<1>3. LogAgrees(runEvents)
  BY <1>2 DEF LogAgrees
<1>4. Limited(runEvents)
  BY <1>2 DEF Limited, Q!Decisions, Q!Approvals
<1>5. /\ call = [p \in DOMAIN Policies |-> call[p]]
      /\ \A p \in DOMAIN Policies : CallSound(runEvents, call[p])
  BY <1>1 DEF CallSound
<1>6. QED
  BY <1>1, <1>3, <1>4, <1>5 DEF PipeInv

Rests(p, c) == c.stage \in {"closed", "idle"} /\ call' = [call EXCEPT ![p] = c]

\* A call that is thrown or answered, and a process that opens the pipeline or dies.
LEMMA CallEnds ==
  ASSUME PipeInv, NEW p \in DOMAIN Policies, runEvents' = runEvents,
         NEW c, Rests(p, c),
         \A r \in reports' : r \in reports \/ Says(runEvents, r.run, "run.completed", r)
  PROVE  PipeInv'
<1>0. c.stage \in {"closed", "idle"} /\ call' = [call EXCEPT ![p] = c]
  BY DEF Rests
<1>1. LogAgrees(runEvents') /\ Limited(runEvents')
  BY DEF PipeInv
<1>2. CallSound(runEvents', c)
  BY <1>0 DEF CallSound
<1>3. Prefix(runEvents, runEvents')
  BY SamePrefix
<1>4. \A r \in reports' : r \in reports \/ Says(runEvents', r.run, "run.completed", r)
  OBVIOUS
<1>5. QED
  BY <1>0, <1>1, <1>2, <1>3, <1>4, PipeGoesOn

\* The report of a completed run is on file as itself.
LEMMA ReportIsFiled ==
  ASSUME PipeInv, NEW run, OnFile(runEvents, run, "run.completed"),
         NEW r, r = Q!PayloadOf(runEvents, run, "run.completed")
  PROVE  Says(runEvents, r.run, "run.completed", r)
<1>1. LogAgrees(runEvents)
  BY DEF PipeInv
<1>2. PICK n \in DOMAIN runEvents : runEvents[n].run = run /\ runEvents[n].type = "run.completed"
  BY DEF OnFile
<1>3. r = runEvents[n].payload
  BY <1>1, <1>2, PayloadIs
<1>4. CompletedAt(runEvents, n, r) /\ runEvents[n] = Q!Event(run, "run.completed", r)
  BY <1>1, <1>2, <1>3 DEF LogAgrees
<1>5. QED
  BY <1>2, <1>4 DEF CompletedAt, Says

\* A call that throws leaves the log alone.
LEMMA PipeThrows ==
  ASSUME PipeInv, NEW p \in DOMAIN Policies, Q!Throw(p)
  PROVE  PipeInv'
<1>1. call' = [call EXCEPT ![p] = Q!NoCall] /\ runEvents' = runEvents /\ reports' = reports
  BY DEF Q!Throw, Q!Goto
<1>2. Q!NoCall.stage = "idle"
  BY DEF Q!NoCall
<1>3. Rests(p, Q!NoCall)
  BY <1>1, <1>2 DEF Rests
<1>4. QED
  BY <1>1, <1>3, CallEnds

\* A call is answered with a report that is on file.
LEMMA PipeGives ==
  ASSUME PipeInv, NEW p \in DOMAIN Policies, NEW r, Q!Give(p, r), Says(runEvents, r.run, "run.completed", r)
  PROVE  PipeInv'
<1>1. call' = [call EXCEPT ![p] = Q!NoCall] /\ runEvents' = runEvents /\ reports' = reports \cup {r}
  BY DEF Q!Give, Q!Goto
<1>2. Q!NoCall.stage = "idle"
  BY DEF Q!NoCall
<1>3. Rests(p, Q!NoCall)
  BY <1>1, <1>2 DEF Rests
<1>4. QED
  BY <1>1, <1>3, CallEnds

\* Open, Die.
LEMMA PipeOpensOrDies ==
  ASSUME PipeInv, NEW p \in DOMAIN Policies, Q!Open(p) \/ Q!Die(p)
  PROVE  PipeInv'
<1>1. Rests(p, Q!NoCall) \/ Rests(p, [stage |-> "closed"])
  <2>1. Q!NoCall.stage = "idle" /\ [stage |-> "closed"].stage = "closed"
    BY DEF Q!NoCall
  <2>2. QED
    BY <2>1 DEF Q!Open, Q!Die, Rests
<1>2. runEvents' = runEvents /\ reports' = reports
  BY DEF Q!Open, Q!Die
<1>3. QED
  BY <1>1, <1>2, CallEnds

\* A run that is complete is answered or refused; one that is not is gone on with.
LEMMA PipeBegins ==
  ASSUME PipeInv, NEW p \in DOMAIN Policies, NEW run \in Runs, NEW r \in Requests,
         Q!Begin(p, run, r.scenario, r.amount)
  PROVE  PipeInv'
<1> DEFINE asked == [run |-> run, scenario |-> r.scenario, amount |-> r.amount]
           time == IF Q!Filed(runEvents, run, "run.started") = {} THEN runClock
                   ELSE Q!PayloadOf(runEvents, run, "run.started").at
           c == [stage |-> "begun", run |-> run, scenario |-> r.scenario, amount |-> r.amount, now |-> time]
           report == Q!PayloadOf(runEvents, run, "run.completed")
<1>1. CASE Q!Filed(runEvents, run, "run.completed") # {}
  <2>1. OnFile(runEvents, run, "run.completed")
    BY <1>1, FiledIsOnFile
  <2>2. Says(runEvents, report.run, "run.completed", report)
    BY <2>1, ReportIsFiled
  <2>3. Q!Give(p, report) \/ Q!Throw(p)
    BY <1>1 DEF Q!Begin
  <2>4. QED
    BY <2>2, <2>3, PipeGives, PipeThrows
<1>2. CASE Q!Filed(runEvents, run, "run.completed") = {}
  <2>1. call' = [call EXCEPT ![p] = c] /\ runEvents' = runEvents /\ reports' = reports
    BY <1>2 DEF Q!Begin, Q!Goto
  <2>2. CallSound(runEvents', c)
    <3>1. /\ c.stage = "begun" /\ c.amount = r.amount
          /\ c = [stage |-> c.stage, run |-> c.run, scenario |-> c.scenario, amount |-> c.amount, now |-> c.now]
      OBVIOUS
    <3>2. r.amount \in Int
      BY SpendAssumption
    <3> HIDE DEF c
    <3>3. QED
      BY <3>1, <3>2 DEF CallSound, InRun
  <2> HIDE DEF c
  <2>3. LogAgrees(runEvents') /\ Limited(runEvents') /\ Prefix(runEvents, runEvents')
    BY <2>1, SamePrefix DEF PipeInv
  <2>4. QED
    BY <2>1, <2>2, <2>3, PipeGoesOn
<1>3. QED
  BY <1>1, <1>2

\* A process that is in a stage is in a run.
LEMMA StageIsInRun ==
  ASSUME PipeInv, NEW p \in DOMAIN Policies, call[p].stage \in {"begun", "started", "researched", "proposed"}
  PROVE  InRun(runEvents, call[p])
<1>1. CallSound(runEvents, call[p])
  BY DEF PipeInv
<1>2. QED
  BY <1>1 DEF CallSound

\* The call, one stage on.
LEMMA NextStage ==
  ASSUME NEW l, NEW c, InRun(l, c), NEW next
  PROVE  [c EXCEPT !.stage = next]
           = [stage |-> next, run |-> c.run, scenario |-> c.scenario, amount |-> c.amount, now |-> c.now]
<1>1. c = [stage |-> c.stage, run |-> c.run, scenario |-> c.scenario, amount |-> c.amount, now |-> c.now]
  BY DEF InRun
<1> DEFINE d == [stage |-> c.stage, run |-> c.run, scenario |-> c.scenario, amount |-> c.amount, now |-> c.now]
<1>2. [d EXCEPT !.stage = next]
        = [stage |-> next, run |-> c.run, scenario |-> c.scenario, amount |-> c.amount, now |-> c.now]
  OBVIOUS
<1>3. QED
  BY <1>1, <1>2

\* A stage throws, or its event is on file after it.
LEMMA PipeStage ==
  ASSUME PipeInv, NEW p \in DOMAIN Policies, NEW type \in Before, NEW payload, NEW next,
         Q!Stage(p, type, payload, next), NEW c, c = [call[p] EXCEPT !.stage = next],
         \A h : LogAgrees(h) /\ Prefix(runEvents, h) /\ Says(h, call[p].run, type, payload) => CallSound(h, c)
  PROVE  PipeInv'
<1> DEFINE run == call[p].run
<1>1. LogAgrees(runEvents) /\ Limited(runEvents)
  BY DEF PipeInv
<1>2. CASE Q!Conflicts(runEvents, run, type, payload)
  BY <1>2, PipeThrows DEF Q!Stage
<1>3. CASE ~Q!Conflicts(runEvents, run, type, payload)
  <2>1. runEvents' = Q!Appended(runEvents, run, type, payload) /\ call' = [call EXCEPT ![p] = c] /\ reports' = reports
    BY <1>3 DEF Q!Stage, Q!Goto
  <2>2. LogAgrees(runEvents') /\ Limited(runEvents') /\ Prefix(runEvents, runEvents') /\ Says(runEvents', run, type, payload)
    <3>1. CASE OnFile(runEvents, run, type)
      <4>1. Q!Filed(runEvents, run, type) # {}
        BY <3>1, FiledIsOnFile
      <4>2. Q!PayloadOf(runEvents, run, type) = payload /\ runEvents' = runEvents
        BY <1>3, <2>1, <4>1 DEF Q!Conflicts, Q!Appended
      <4>3. PICK n \in DOMAIN runEvents : runEvents[n].run = run /\ runEvents[n].type = type
        BY <3>1 DEF OnFile
      <4>4. runEvents[n] = Q!Event(run, type, payload)
        BY <1>1, <4>2, <4>3, PayloadIs DEF LogAgrees
      <4>5. Says(runEvents, run, type, payload)
        BY <4>3, <4>4 DEF Says
      <4>6. QED
        BY <1>1, <4>2, <4>5, SamePrefix
    <3>2. CASE ~OnFile(runEvents, run, type)
      <4>1. Q!Filed(runEvents, run, type) = {}
        BY <3>2, FiledIsOnFile
      <4>2. runEvents' = Append(runEvents, Q!Event(run, type, payload))
        BY <2>1, <4>1 DEF Q!Appended
      <4>3. QED
        BY <1>1, <3>2, <4>2, StageGrows
    <3>3. QED
      BY <3>1, <3>2
  <2>3. CallSound(runEvents', c)
    BY <2>2
  <2>4. QED
    BY <2>1, <2>2, <2>3, PipeGoesOn
<1>4. QED
  BY <1>2, <1>3

\* run.started: the request is on file as the call has it.
LEMMA PipeStarts ==
  ASSUME PipeInv, NEW p \in DOMAIN Policies, Q!Start(p)
  PROVE  PipeInv'
<1> DEFINE b == call[p]
           c == [b EXCEPT !.stage = "started"]
<1>1. b.stage = "begun" /\ Q!Stage(p, "run.started", Asked(b), "started")
  BY DEF Q!Start, Asked
<1>2. InRun(runEvents, b)
  BY <1>1, StageIsInRun
<1>3. c = [stage |-> "started", run |-> b.run, scenario |-> b.scenario, amount |-> b.amount, now |-> b.now]
  BY <1>2, NextStage
<1>4. b.amount \in Int
  BY <1>2 DEF InRun
<1>5. "run.started" \in Before
  BY DEF Before
<1>6. ASSUME NEW h, Says(h, b.run, "run.started", Asked(b)) PROVE CallSound(h, c)
  <2> HIDE DEF b, c
  <2>1. Asked(c) = Asked(b) /\ c.run = b.run
    BY <1>3 DEF Asked
  <2>2. QED
    BY <1>3, <1>4, <1>6, <2>1 DEF CallSound, InRun
<1>7. QED
  BY <1>1, <1>5, <1>6, PipeStage

\* evidence.correlated.
LEMMA PipeResearches ==
  ASSUME PipeInv, NEW p \in DOMAIN Policies, Q!Research(p)
  PROVE  PipeInv'
<1> DEFINE b == call[p]
           c == [b EXCEPT !.stage = "researched"]
           payload == [scenario |-> b.scenario, at |-> b.now]
<1>1. b.stage = "started" /\ Q!Stage(p, "evidence.correlated", payload, "researched")
  BY DEF Q!Research
<1>2. InRun(runEvents, b)
  BY <1>1, StageIsInRun
<1>3. c = [stage |-> "researched", run |-> b.run, scenario |-> b.scenario, amount |-> b.amount, now |-> b.now]
  BY <1>2, NextStage
<1>4. b.amount \in Int /\ Says(runEvents, b.run, "run.started", Asked(b))
  BY <1>1, <1>2 DEF InRun
<1>5. "evidence.correlated" \in Before
  BY DEF Before
<1> HIDE DEF payload
<1>6. ASSUME NEW h, LogAgrees(h), Prefix(runEvents, h), Says(h, b.run, "evidence.correlated", payload) PROVE CallSound(h, c)
  <2>1. OnFile(h, b.run, "evidence.correlated")
    BY <1>6, SaidIsRead
  <2>2. Says(h, b.run, "run.started", Asked(b))
    BY <1>4, <1>6, FileStays
  <2> HIDE DEF b, c
  <2>3. Asked(c) = Asked(b) /\ c.run = b.run
    BY <1>3 DEF Asked
  <2>4. QED
    BY <1>3, <1>4, <2>1, <2>2, <2>3 DEF CallSound, InRun
<1>7. QED
  BY <1>1, <1>5, <1>6, PipeStage

\* intent.proposed.
LEMMA PipeProposes ==
  ASSUME PipeInv, NEW p \in DOMAIN Policies, Q!Propose(p)
  PROVE  PipeInv'
<1> DEFINE b == call[p]
           c == [b EXCEPT !.stage = "proposed"]
           payload == Q!IntentFor(b, Policies[p])
<1>1. b.stage = "researched" /\ Q!Stage(p, "intent.proposed", payload, "proposed")
  BY DEF Q!Propose
<1>2. InRun(runEvents, b)
  BY <1>1, StageIsInRun
<1>3. c = [stage |-> "proposed", run |-> b.run, scenario |-> b.scenario, amount |-> b.amount, now |-> b.now]
  BY <1>2, NextStage
<1>4. /\ b.amount \in Int /\ Says(runEvents, b.run, "run.started", Asked(b))
      /\ OnFile(runEvents, b.run, "evidence.correlated")
  BY <1>1, <1>2 DEF InRun
<1>5. "intent.proposed" \in Before
  BY DEF Before
<1> HIDE DEF payload
<1>6. ASSUME NEW h, LogAgrees(h), Prefix(runEvents, h), Says(h, b.run, "intent.proposed", payload) PROVE CallSound(h, c)
  <2>1. OnFile(h, b.run, "intent.proposed")
    BY <1>6, SaidIsRead
  <2>2. Says(h, b.run, "run.started", Asked(b)) /\ OnFile(h, b.run, "evidence.correlated")
    BY <1>4, <1>6, FileStays
  <2> HIDE DEF b, c
  <2>3. Asked(c) = Asked(b) /\ c.run = b.run
    BY <1>3 DEF Asked
  <2>4. QED
    BY <1>3, <1>4, <2>1, <2>2, <2>3 DEF CallSound, InRun
<1>7. QED
  BY <1>1, <1>5, <1>6, PipeStage

\* The exclusive transaction: a run that another call completed is answered as it is; else
\* nothing of its end is on file, and the kernel decides on all that was approved before.
LEMMA PipeCompletes ==
  ASSUME PipeInv, NEW p \in DOMAIN Policies, Q!Complete(p)
  PROVE  PipeInv'
<1> DEFINE l == runEvents
           c == call[p]
           i == Q!IntentFor(c, Policies[p])
           d == Q!Decided(c, Policies[p], l)
           fresh == Q!Filed(l, c.run, "policy.decided") = {}
           state == IF fresh /\ d.approved THEN Q!K!Remember(Q!Restored(l), d.intent, c.now) ELSE Q!Restored(l)
           grown == Q!Appended(Q!Appended(l, c.run, "policy.decided", d), c.run, "policy.state", state)
           r == Q!Report(c, d, grown)
           found == Q!PayloadOf(l, c.run, "run.completed")
<1>1. LogAgrees(l) /\ Limited(l)
  BY DEF PipeInv
<1>2. c.stage = "proposed"
  BY DEF Q!Complete
<1>3. InRun(l, c)
  BY <1>2, StageIsInRun
<1>4. CASE OnFile(l, c.run, "run.completed")
  <2>1. Q!Filed(l, c.run, "run.completed") # {}
    BY <1>4, FiledIsOnFile
  <2>2. Q!Give(p, found) \/ Q!Throw(p)
    BY <2>1 DEF Q!Complete
  <2>3. Says(l, found.run, "run.completed", found)
    BY <1>4, ReportIsFiled
  <2>4. QED
    BY <2>2, <2>3, PipeGives, PipeThrows
<1>5. CASE ~OnFile(l, c.run, "run.completed") /\ ~Q!Restorable(l, Policies[p])
  <2>1. Q!Filed(l, c.run, "run.completed") = {}
    BY <1>5, FiledIsOnFile
  <2>2. Q!Throw(p)
    BY <1>5, <2>1 DEF Q!Complete
  <2>3. QED
    BY <2>2, PipeThrows
<1>6. CASE ~OnFile(l, c.run, "run.completed") /\ Q!Restorable(l, Policies[p])
  <2>1. Q!Filed(l, c.run, "run.completed") = {}
    BY <1>6, FiledIsOnFile
  <2>2. /\ runEvents' = Append(grown, Q!Event(c.run, "run.completed", r))
        /\ call' = [call EXCEPT ![p] = Q!NoCall] /\ reports' = reports \cup {r}
    BY <1>6, <2>1 DEF Q!Complete, Q!Goto
  <2>3. \A n \in DOMAIN l : l[n].run = c.run => l[n].type # "policy.decided" /\ l[n].type # "policy.state"
    BY <1>1, <1>6 DEF LogAgrees
  <2>4. fresh
    BY <2>3 DEF Q!Filed
  <2>5. d = Q!K!Decision(Policies[p], Q!Restored(l), i, Gathered[c.scenario], c.now)
    BY <2>4 DEF Q!Decided
  <2> HIDE DEF d, state
  <2>6. grown = Append(Append(l, Q!Event(c.run, "policy.decided", d)), Q!Event(c.run, "policy.state", state))
    <3> DEFINE g == Append(l, Q!Event(c.run, "policy.decided", d))
    <3>1. Q!Appended(l, c.run, "policy.decided", d) = g
      BY <2>4 DEF Q!Appended
    <3>2. IsSeq(l)
      BY <1>1 DEF LogAgrees
    <3>3. Prefix(l, g) /\ DOMAIN g = DOMAIN l \cup {Len(l) + 1} /\ g[Len(l) + 1].type = "policy.decided"
      <4> DEFINE e == Q!Event(c.run, "policy.decided", d)
      <4>1. e.type = "policy.decided"
        BY EventFields
      <4> HIDE DEF e
      <4>2. Prefix(l, g) /\ DOMAIN g = DOMAIN l \cup {Len(l) + 1} /\ g[Len(l) + 1] = e
        <5>1. Grows(l, e, g)
          BY <3>2 DEF e, Grows
        <5> HIDE DEF g
        <5>2. QED
          BY <5>1, OneMoreEvent
      <4>3. QED
        BY <4>1, <4>2
    <3> HIDE DEF g
    <3>4. Q!Filed(g, c.run, "policy.state") = {}
      BY <2>3, <3>3 DEF Q!Filed, Prefix
    <3>5. QED
      BY <3>1, <3>4 DEF Q!Appended, g
  <2> HIDE DEF grown
  <2>7. \A type \in Before : OnFile(l, c.run, type)
    <3>1. Says(l, c.run, "run.started", Asked(c))
      BY <1>2, <1>3 DEF InRun
    <3>2. OnFile(l, c.run, "run.started") /\ OnFile(l, c.run, "evidence.correlated") /\ OnFile(l, c.run, "intent.proposed")
      BY <1>1, <1>2, <1>3, <3>1, SaidIsRead DEF InRun
    <3>3. QED
      BY <3>2 DEF Before
  <2>8. Ending(l, runEvents', c.run, d, state, r)
    BY <1>1, <1>6, <2>2, <2>6, <2>7 DEF Ending
  <2>9. i.amount = c.amount /\ c.amount \in Int /\ Policies[p].daily \in Int
    BY <1>3, SpendAssumption DEF InRun, Q!IntentFor
  <2>10. Limited(runEvents')
    <3> HIDE DEF i, r, c
    <3>1. QED
      BY <1>6, <2>5, <2>8, <2>9, EndingLimited DEF c
  <2>11. LogAgrees(runEvents') /\ Prefix(l, runEvents') /\ Says(runEvents', c.run, "run.completed", r)
    <3>1. /\ r.run = c.run /\ r.scenario = c.scenario /\ r.amount = c.amount /\ r.at = c.now /\ r.decision = d
          /\ r.first = Q!FirstOf(c.run, grown) /\ r.last = Len(grown) + 1
      BY DEF Q!Report
    <3>2. Len(grown) = Len(l) + 2 /\ Len(l) \in Nat
      BY <1>1, <2>6, AppendFacts DEF LogAgrees
    <3>3. d.at = c.now
      BY <2>5, ApprovedWithin
    <3>4. Says(l, c.run, "run.started", [at |-> r.at, scenario |-> r.scenario, amount |-> r.amount])
      BY <1>2, <1>3, <3>1 DEF InRun, Asked
    <3> HIDE DEF r, c
    <3>5. r.last = Len(l) + 3 /\ d.at = r.at
      BY <3>1, <3>2, <3>3
    <3>6. QED
      BY <2>6, <2>8, <3>1, <3>4, <3>5, EndingAgrees
  <2>12. r.run = c.run
    BY DEF Q!Report
  <2>13. CallSound(runEvents', Q!NoCall)
    BY DEF CallSound, Q!NoCall
  <2> HIDE DEF r
  <2>14. \A o \in reports' : o \in reports \/ Says(runEvents', o.run, "run.completed", o)
    BY <2>2, <2>11, <2>12
  <2>15. QED
    BY <2>2, <2>10, <2>11, <2>13, <2>14, PipeGoesOn
<1>7. QED
  BY <1>4, <1>5, <1>6

\* The other components do not touch the pipeline.
LEMMA PipeInvIsStable == ASSUME PipeInv, runEvents' = runEvents, call' = call, reports' = reports PROVE PipeInv'
  BY DEF PipeInv

\* Every step keeps the invariant.
LEMMA PipeStepKeeps == ASSUME PipeInv, Q!PipelineNext PROVE PipeInv'
<1>1. CASE Q!Pass
  BY <1>1, PipeInvIsStable DEF Q!Pass
<1>2. CASE \E p \in DOMAIN Policies :
             \/ Q!Open(p) \/ Q!Die(p) \/ Q!Start(p) \/ Q!Research(p) \/ Q!Propose(p) \/ Q!Complete(p)
             \/ \E run \in Runs, r \in Requests : Q!Begin(p, run, r.scenario, r.amount)
  BY <1>2, Zenon, PipeOpensOrDies, PipeStarts, PipeResearches, PipeProposes, PipeCompletes, PipeBegins
<1>3. QED
  BY <1>1, <1>2, Zenon DEF Q!PipelineNext

\* For any number of processes, runs, requests and policies: the approvals on file are of
\* one policy, no day's exceed its daily limit, no run is decided twice, and a report says
\* what the log says.
THEOREM RunsStayWithinLimits == MCSpec => []RunsAgreeWithinLimits
<1>1. MCInit => PipeInv
  BY PipeInitially DEF MCInit
<1>2. ASSUME PipeInv, [MCNext]_mcVars PROVE PipeInv'
  <2>1. \/ Q!PipelineNext
        \/ runEvents' = runEvents /\ call' = call /\ reports' = reports
    <3>1. CASE MCNext
      BY <3>1, Zenon DEF MCNext, research, pipeline
    <3>2. CASE UNCHANGED mcVars
      BY <3>2 DEF mcVars, research, pipeline
    <3>3. QED
      BY <1>2, <3>1, <3>2
  <2>2. QED
    BY <1>2, <2>1, PipeStepKeeps, PipeInvIsStable
<1>3. PipeInv => RunsAgreeWithinLimits
  BY PipeInvIsEnough
<1>4. QED
  BY <1>1, <1>2, <1>3, PTL DEF MCSpec

=============================================================================
