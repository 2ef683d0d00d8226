# RSI in TLA+

RSI is a local, signer-blind research observer. One operator runs one host process at a time on
one machine. The host may send a provider at most one reviewed read-only request per permanent
claim, keeps the answer encrypted for at most two hours, and leaves behind only content-free,
tamper-evident records. The program is sequential almost everywhere. What makes it hard is that its
state is spread over many small durable stores (SQLite files, directories of artifacts, a Keychain
item), that nothing commits two of them together, that an operator may press STOP between any two
steps, that wall clocks are not trusted, and that every store refuses to open when it finds a state
it did not expect, so that a legal sequence of calls that leads to such a state locks the operator
out for good.

This directory holds the models of that state, the TLC runs that check them, and the proofs TLAPS
checks. `PROJECT.json` maps every definition to the lines it was translated from.

## 1. Inventory

Sizes are lines of the package's `src/`. *Hard* names the behaviour a test hardly reaches.

| Component | State | Operations | Talks to | Hard | Correct when |
| --- | --- | --- | --- | --- | --- |
| `runtime` (1958) | audit log in an event store; in memory: tickets, claims | open, transition, stop, requestAuthorization, dispatch, checkpointCompletion, consumeAndCommit | store; every host and collector | several controllers on one file, STOP against a dispatch, rollback, clock jumps | nothing is sent, completed or committed after the mode event that allowed it |
| `operations` (3895) | budgets, attempts, cursor heads and advances, audit chain | createBudget, reserve, authorize, consume, close, recoverExpired; cursor stage/mark/commit/abort | collectors, canaries, session closure | two authorizations of one permit, clock rollback, competing advances, crash before physical erasure | no budget is overdrawn, nothing is sent twice, a cursor moves only on evidence |
| `vault` (2176) | up to five artifact files per capture | capture, read, delete, sweep, recover, reconcile | ingestion, recovery | crash between any two file steps | recovery always finds a state it can finish |
| `capture-registry` (2343) | one encrypted row per attempt, audit chain | beginAttempt, commitCapture, recordVerifiedDeletion, removePending, recoverPending | ingestion, recovery | registry and vault disagree | a committed entry names a readable capture or a deletion it will accept |
| `ingestion` (3175) | none durable of its own | ingestX…, ingestOpenSea…, Base RPC anchor storage, recoverCaptureStorage | vault, registry, operations, store | crash between the stores, ambiguous COMMIT | each capture is registered or destroyed |
| `read-canary` (5656) | prepared, captured, result and receipt events | X, OpenSea and Base RPC one-shot runs, their recoveries | all of the above | crash between six stores, STOP while the answer arrives | one request per claim, one true receipt |
| `x-collector`, `opensea-collector`, `base-rpc-collector` (1853, 1405, 1267) | in-memory slots and budgets | collect | runtime dispatch, operations consume | abort and timeout against the answer, quarantine | at most one fetch per authorization |
| `credential-host` (2251) | Keychain items, one-shot markers | read, claim, status | canary hosts | claim times out after the marker was written | a marker is never granted twice |
| `store` (968) | hash-chained events in SQLite | append, checkpointed append, verify | runtime, research-ledger, canaries | two writers, reader during append | the chain verifies after every accepted append |
| `checkpoints` (1687) | signed JSONL journal | sign, append, verify | store | partial line at a crash, journal behind or ahead of the store | a verified journal is a prefix of the store |
| `external-anchor` (2922) | outbox, remote objects | enqueue, claim, publish, acknowledge, verify | checkpoints | lost answer after a create, lease expiry | one object per sequence, never a fork |
| `alerts` (2432) | deliveries, their attempts, audit chain | enqueue, claim, complete, fail, recover | session closure | an answer that comes after a recovery or during the retry, a file put back to an earlier copy | rows always verify; what was answered is never sent again |
| `session-lifecycle` (2517) | session records, audit chain | plan, preflight, start, acknowledge, stop, three verifications, accept, invalidate, recovery at open | session-controller, operations, alerts | stop during a phase, crash before closure | a session is accepted only with every closure proof |
| `session-controller` (655) | none durable | verify and record local closure | session-lifecycle, checkpoints | stores read one after another | closure is recorded from facts that still hold |
| `event-archive`, `backup`, `release-bundle` (3190, 2643, 2288) | published directories | create, verify, restore | checkpoints | crash during publication | a published directory is complete or absent |
| `attention`, `watchlist` (3933, 676) | hash-chained recorded history | preview, record, verify | runtime local commit | confirmation of a preview that is stale | a record follows the head it was previewed against |
| `research-ledger` (387) | event store of proposals | persistProposal | runtime plain boundary, store | STOP between authorization and append | a proposal is persisted once |
| `policy`, `pipeline` (425, 642) | the kernel's day, the log of runs | evaluate; begin, research, propose, complete | store | a restart in the middle of a run, two processes on one log | the day's limit holds over restarts, a run is decided once |
| `engine` (241) | candidates and champions in memory | propose, attack, canary, evaluate, promote | | any order of calls | a champion passed every stage over the champion it was proposed over |
| `domain`, `adapters` (424, 118) | none | schemas, interfaces | | | |
| `preflight` (1085) | none | eleven checks over read-only probes | operator, session-lifecycle | probes refused, killed or late while the machine changes | ready is said only of facts that held when their command ran |
| `research` (1530) | none | admit captures, cluster, correlate, replay | pipeline | copies and chains of links that look like independent sources | evidence counts once per origin |
| `source-contracts`, `public-projection` (1440, 1005) | none | pure validation and projection of documents | | | |
| `apps/cli` (5098) | profile lock file, open stores | lock, boot, one command, close | everything | two hosts, crash with the lock held | one writer per profile |
| `apps/operator` (6922) | servers, browser sessions | HTTP endpoints | hosts | concurrent commands, shutdown during one | one command at a time |
| `scripts` (16 500), `docs`, demos | none | boundary checks of the build | | | not modelled: build tooling |

### Interactions

```
operator ── STOP / RESEARCH ──▶ RuntimeController ◀── dispatch, completion ── collectors ── fetch
   │                                  ▲                                          │
   └── one command ─▶ canary host ────┤                                          ▼
                        │  Keychain marker, prepared event            operations: attempt consumed
                        ▼                                                        │
        recoverCaptureStorage ◀─ vault ◀─ ingestion ◀── response ────────────────┘
                        ▲          │           │
                        └─ capture registry ◀──┘ ──▶ captured event ▶ result ▶ receipt
```

Calls are synchronous; the only asynchronous parts are the fetch, file I/O and the Keychain
subprocess. Sharing is through files: any number of store objects may be open on one SQLite file
(every write transaction is `BEGIN IMMEDIATE` and starts by re-verifying the store), while the vault
and the canary stores are used under the profile lock by one process at a time.

## 2. Modules

Runtime, stores and the capture pipeline:

| Module | Models | State ↔ code |
| --- | --- | --- |
| `RuntimeAuthority` | abstract: an authority (mode, revision, owner) and grants that are used only while it stands | specification of the next one |
| `RuntimeController` | `packages/runtime` | `log` is the audit log; mode, revision and owner are what replaying it says. `ticket` is an authorization object, `tx` the transaction that holds the write lock while a callback runs. One action per transaction; dispatch, completion and local commit are split at the callback |
| `BoundaryCommands` | the runtime as `attention`, `watchlist` and `research-ledger` use it | `log` and the operators of `RuntimeController`; `job[p]` is the one command of a process, between its check in the runtime's log and its write in its own store |
| `CaptureStorage` | `vault`, `capture-registry`, `captureAndCommit` and `recoverCaptureStorage` of `ingestion` | `vault[c].files` are the artifact files and `temporaries` what a cut publication left; a vault operation is a plan of publications and removals (`job`), each step durable, a crash or an I/O error possible before, in and after each. `registry[a]` is the row; `owner[a]` where the ingestion stands; `phase` where the boot-time recovery stands. The verifications that open each transaction are stated row by row, apart from the actions |
| `XReadCanary` | `x-read-canary-controller.ts`, the X ingestion, `x-canary-operator-host-core.ts` | one variable per durable store record, `pc` the step of the host's sequential code, operator commands between its steps, `Crash` and failing operations anywhere. Runtime, registry and vault are abstracted to what this code reads of them |
| `ReadCanaries` | the same for the OpenSea and the Base RPC canary, and the three behind one specification (`provider` says which) | extends `XReadCanary`, shares its variables and its abstraction of the stores, and replaces the steps in which the code differs: the order of capture, projection and closure, failure checkpoints, what is retained |
| `ReadCollector` | `x-collector`, `opensea-collector`, `base-rpc-collector` | one request: `dispatch` the runtime's transaction around it, `transport`, `signal`, `timer` and `body` as the code sees them, `chunks` read, `reported` what the caller is told |
| `AttemptLedger` | budgets and attempts of `packages/operations`, with `network-authorization.ts` | rows of `rsi_budgets` and `rsi_attempts`; `auths` are the in-memory authorizations; one action per transaction, replays that change nothing are left out |
| `CursorRegister` | abstract: a compare-and-swap register of verified proposals | specification of the next one |
| `CursorLineage` | cursor lineage of `packages/operations`, extends `AttemptLedger` | rows of `rsi_cursor_heads` and `rsi_cursor_advances`, the audit events per advance, the erasure bit; `residue` are destroyed envelopes that are still in the file. `VerifyIntegrity` is the code's check of all rows |
| `AlertOutbox` | `packages/alerts` | `rows`, `attempts` and `audit` are the three tables, one action per transaction; `pin` is the audit prefix whose head the caller retains outside the file, `copy` an earlier state of the file that may be put back while it is closed |
| `SessionGate` | abstract: one session at a time, one run each, one acceptance per date | specification of the next one |
| `SessionLifecycle` | `packages/session-lifecycle`, called by the operator's lifecycle controls | `sessions` are the records, `audit` the audit rows; one action per transition, each building its record as the code does; `Semantics` and `AuditReplays` are what the code's verification demands, stated apart from them; `Open` includes the recovery that ends what a dead process left |
| `LocalClosure` | `session-controller/local-closure.ts` | `verifier[v]` is a closure between two of its reads; beside it the session, its attempts, captures, incidents and the log go on, each abstracted to what the closure counts |

History, anchoring and archives:

| Module | Models | State ↔ code |
| --- | --- | --- |
| `CheckpointJournal` | `packages/store` and `packages/checkpoints` | `log` is the table, `tx` the transaction of a connection that appends inside one; an append is answered by the row it made or the one it repeats (`told`). `journal` are the journal's whole lines, `torn` says that it ends in a cut one, `lock` is the lock file, `signer[s]` a signer between two of its steps, `retained` the head kept outside; store and journal may be put back to earlier copies |
| `ExternalAnchor` | `packages/external-anchor` | outbox: the row of a checkpoint, `publisher[p]` the attempt a process is in, `wire` requests under way, `objects` what the remote holds, which loses and delays answers. Verifier: a remote history is listed, read and judged; initial states are all small histories: gaps, forks, foreign and damaged objects |
| `ArchivePublication` | `filesystem.ts` of `event-archive`, `backup` and `release-bundle` | `temp`, `bytes`, `synced`, `destination`, `entrySynced` are a file's states on the disk, `dirSync` says whether the filesystem can sync a directory; a publication, a reader and a restore are each between two system calls |
| `RecoverySet` | what evidence and archive contain, extends `CheckpointJournal` | exports at any moment, retained copies, and the store rebuilt from them |
| `SignedArchives` | `archive.ts`, `schema.ts`, `artifacts.ts` of the three and `verifySessionRecoveryArtifacts` | documents as records of what their manifest names and their signature covers; sound ones are signed, edited and mixed ones presented |
| `WatchlistHistory`, `AttentionHistory`, `ResearchLedger` | the three stores that record under the runtime's log, over `BoundaryCommands` | `history`, `store`, `proposals` are the records; previews, leases and confirmations as the code holds them |

Hosts, research and the loop:

| Module | Models | State ↔ code |
| --- | --- | --- |
| `OperatorHost` | the three `*-canary-operator-host-core.ts` and the operator servers before them | `call[c]` a request, `recovery` and `run` the host's two jobs, `handles` who has the stores open, `shutdown` where the close stands; `kind` says which host, since only X recovers on a status read and only X goes without a recovery when nothing is on record |
| `OperatorResponses` | what the servers let out | an audit read page by page while it grows, a projection of an arbitrary small object graph with its accessors and undefined values, and every receipt of every stage |
| `ProfileLock` | `profile-service-lock-core.ts` | `artifact` the lock file, `durable` what survives a loss of power, `pc` each process |
| `Keychain` | `packages/credential-host` | `item` the Keychain, `use` a call that reads keys, `key` what of them is in memory, `claim` and `claimed` the one-shot marker |
| `Preflight` | `packages/preflight` | `facts` the machine, `replies` what each probe got, `moments` the fact when its command ran |
| `AttentionAssessment` | `attention/assess.ts`, `identity.ts`, `schemas.ts` | `facts` is the history an assessment reads (known collections, posts, clusters, conflicts), `recorded` the assessments |
| `ResearchEvidence` | `packages/research` | operators over a batch of captures; clusters by a union over links against the reference definition (components of the graph) |
| `PolicyKernel` | `packages/policy` | the decision as a function of the kernel's memory, an intent and its evidence |
| `FixturePipeline` | `packages/pipeline`, with `PolicyKernel` | `events` the log of runs, `call` a process in one of a run's stages |
| `ImprovementLoop` | `packages/engine` | `candidates`, `champions`; `passed` is a history variable |

An `MC*` module instantiates several components with a variable `scope` that is chosen in the initial
state: one component runs in a behaviour and the others stutter, so a run is as large as the sum of
its scopes and not their product; of `MCEvidence`, which holds everything from events to archives, each
run takes the scopes that its `.cfg` names. Components that do interact are composed by `EXTENDS`: the cursor
lineage over the ledger, the recovery set over the event store and its journal, the stores over the
runtime's log, the pipeline over the kernel and the evidence.

Theorems are in eight modules of their own. Components that are run
together are also proved about together: `OperationsProofs` extends `MCOperations` and so covers the
ledger, the lineage and, as the instance `O`, the alerts; `CheckpointProofs` extends `MCEvidence` and so
covers the event store, the journal, the anchor, the recovery set and, as the instances `Disk` and
`Documents`, the published directories and what was signed;
`SessionProofs` extends `MCSessionLifecycle`, with the closure as the instance `C`;
`OperatorHostProofs` has the lock and the Keychain as the instances `Lock` and `Keys` of
`OperatorHost`; `ReadCanaryProofs` extends `MCProviders`, where the canaries and the collectors are;
`HistoriesProofs` extends `MCHistories` with the three stores over one log and the improvement loop.
A theorem about an instance is one about its module: the instance renames the variables and hands the
constants on.

In `PROJECT.json` an operator whose lines lie within those of the definition that uses it is mapped
with that definition, not again.

Data is abstracted to what decides: a timestamp is a small number, an id a model value, a response
one of *posts*, *none* or *malformed*; MACs, encryption and schemas are the statement that rows are
what the code wrote. What is kept is every guard, early return, error path and the order of the
durable steps.

## 3. Runs

| Run | Instance | Shows |
| --- | --- | --- |
| `runtime_concurrency` | 2 controllers, 2 tickets, 2 request and 2 authorization ids, a network and a local-commit boundary, log up to 5 events | `EffectsFollowAuthority` (with the types), `SendsOnlyUnderAuthority`: no send, completion or commit outlives the mode event it was granted under, retries report the current mode; `ImplementsAuthority`: `RuntimeController` implements `RuntimeAuthority` |
| `runtime_clocks` | 1 controller, clock 0..3, lifetime 2, every boundary class | the wall clock may jump freely: the log stays replayable (`LogReplays`), no expired ticket is used, by the monotonic clock or by the date of its check (`ChecksWithinLifetime`) |
| `runtime_completion` | 2 tickets that share an authorization id | **violation**: a dispatch that was rolled back can be completed on the durable check of the other object (see Findings) |
| `capture` | 2 attempts, 2 captures, 2 records, clock 0..1, one leftover temporary per capture | `CaptureIntegrity`: recovery never meets a state it takes for damage and registry and vault account for every entry; `RecoveryReconciles`: receipts are final and a host that serves has reconciled both. Checked for deadlock |
| `canary_crashes` | each of the three canaries; clock 0..2, 3 boots, 2 failures, 4 operator commands | `CanaryIntegrity`: one accounted request, a true receipt, evidence that recovery accepts, failures that leave no live capture; `ResultsUnderAuthority` |
| `liveness` | each canary with 5 boots and 2 failures; each collector with 2 flaws of the network; storage recovery with clock 0..3 | `RunsAndRequestsEnd`, `BecomesReady`; `ReportsTheTruth`: what a collector says of a response is so, and the later two leave none open |
| `operations` | budgets: 3 attempts, 1 budget for two of them, 2 authorizations, clocks 0..2; cursors: 2 attempts, 2 advances, 2 checkpoints and anchors; alerts: 2 incidents on one plane, a head retained at 0 or 3 audit rows, a copy taken at 2 | the nine properties of the three stores: rows always verify, one send, in time, final outcomes; compare-and-swap on complete evidence, erasure before serving; a delivered incident stays delivered, repeated replies are the first ones |
| `sessions` | pairs: 2 sessions, times 0..2 with a day change; windows: 1 session, times 0..5, a head retained at 0 or 10 audit rows, a copy taken at 9; closure: 2 verifiers, 2 attempts, 2 events, 5 reports | `SessionsStaySound` (and `WindowsStaySound`, the same of the windows): records satisfy the code's own check after every call, a session can always be ended, a retained acceptance stays; `ImplementsGate`; `RestartsBlockEgress`; `ClosedMeansNothingLeft`: a recorded closure had no open attempt, capture or incident. The two sessions and the two verifiers are symmetric: nothing compares or orders them, and the properties are invariants and step properties |
| `anchors` | events: 7 ways of naming 2 events; journal: 2 signers, 2 entries, a crash, a rollback; outbox: 2 publishers, clock 0..2, 2 crashes; verifier: every history of 4 signed checkpoints with a fork | `HistoryIsAnchored`, `OutboxIsTruthful`, `ReportIsRight` |
| `publication` | files: 2 publications, 2 hosts, an artifact and a manifest, 2 mishaps (losses of power among them), on a filesystem that syncs directories and on one that does not; contents: 2 sessions, 2 events, 2 pieces of evidence, a rollback; documents: 2 release keys, 2 versions, 3 signed documents | `WholeOrAbsent`; `VouchedFor`: a rebuilt store is the history its evidence vouches for, and a report of verified recovery artifacts is of one session, release and key |
| `hosts` | host: 3 callers with 5 requests, a shutdown, 1 fault; lock: 3 processes, 3 mishaps; Keychain: a call that reads keys and, apart from it since neither looks at the other, 2 claimants, each with 2 upsets; pages of 3 events; graphs of 2 nodes and 2 edges; all receipts; preflight: 2 services, 2 aliases, 2 facts that are wrong or change | `HostIsAlone`, `LockAndKeysAreKept`, `AnswersAreFaithful`, `CallsEnd` |
| `histories` | 2 processes, log up to 5, clock 0..2 for the stores; 9 bundles in histories of 3; batches of up to 3 of 7 captures; 2 runs, 3 calls and a loss in the pipeline; 3 candidates in the loop | `RecordsWereAllowed`, `AssessmentsAreGrounded`, `EvidenceIsIndependent`, `RunsAgreeWithinLimits`, `PromotionsAreEarned` |

Why the bounds are enough. Every hazard needs few actors: a race of STOP against a dispatch needs
two controllers and one ticket, plus a second ticket to see reuse; five events are boot, mode,
check, STOP and one more. Vault plans of different captures touch disjoint files, so two captures
exhibit every interference (they compete for the one running operation and for recovery). A crash
interrupts one step, and recovery itself may be interrupted: two failures and three boots cover
crash, crashed recovery, recovery. A session has at most ten audit entries, and two of them on one
date meet in the acceptance; one session with finer times covers the edges of every window. Clock
values only matter by their order around a lifetime, which three or four readings give. Two
advances are either competing or consecutive. A publication is disturbed by one other publication, a
reader and a restore; a journal by one other signer. A chain of links between captures needs three to
be longer than a direct link, a window of assessments three to show a copy of a copy. Two facts of a
machine that are wrong, or change while they are asked, are one that is reported and one that must not
hide it. Symmetry is over model values that no definition tells apart (tickets, attempts, signers,
publishers, keys); no run that checks liveness uses it.

`CHECK_DEADLOCK FALSE` is given where the instance really stops: a full log, used-up boots, a closed
ledger. `CaptureStorage` never stops and is checked for deadlock.

Fairness.

- Storage recovery: the steps of the recovery are taken (weak fairness: it is straight-line code of a
  running process), and a host is started again with a clock that has caught up (strong fairness on
  `StartRecovery(MaxTime)`: the operator restarts the host; a recovery that is dated before an
  orphan's acquisition is refused, `snapshot-vault.ts:548-562`). The conclusion is only claimed when
  crashes and I/O errors stop.
- Canaries: the host's code runs on, a host that is down is booted, a finished host is closed, and the
  operator asks X for the late recovery (weak fairness on `CanaryStep`, `Start`, `Restart`, `Poll`);
  no provider answer, mode change or clock reading is assumed. Failures are bounded by `MaxFaults`.
  The clock does not move (`MaxTime = 0`), since a backward clock makes a recovery refuse and uses up
  a boot of the bounded supply.
- Collectors: only that the timer of a request fires. Neither headers nor chunks are assumed.
- Hosts: the jobs and the shutdown run on, and a caller sends its body or disconnects
  (`HostFairness`): the servers' own timeouts end what a caller leaves.

A property that names several components in an `MC*` module is the conjunction of their promises,
each stated and commented in its own module; type invariants are conjuncts of the integrity
properties, which also speak of how the well-shaped records relate to each other. Each property of
each passing run comes with a mutant in `PROJECT.json`: an operator that changes a mapped definition
as a plausible bug would, and that TLC must catch.

## 4. Proofs

Every theorem holds for every value of the constants that satisfies the named assumptions, where a
run shows one small instance. Each rests on an inductive invariant;
the property itself is checked by the run first.

`RuntimeControllerProofs`, for every number of processes, tickets and ids, every lifetime and
whatever the clock does:

- `TypeCorrect`: `Spec => []TypeOK`;
- `DispatchAuthority`: `Spec => SendsOnlyUnderAuthority`: STOP cannot land between the check of an
  authorization and the send;
- `LogAlwaysReplays`: `Spec => []LogReplays`: no interleaving of controllers appends an event that
  the next open would refuse;
- `EffectAuthority`: `Spec => []EffectsFollowAuthority`: every send, completion and local commit has
  its check in the log, under the mode event that was the last one then, and there is one of each;
- `AuthorityImplemented`: `Spec => ImplementsAuthority`, the refinement of `RuntimeAuthority`;
- `LifetimesHold`: `Spec => ChecksWithinLifetime`: no check that lets a ticket through is dated at or after its
  wall expiry or made after its monotonic end, however the wall clock jumps.

The invariant is built in layers. `IInv == TypeOK /\ LogHasMode /\ OpenedLog /\ HolderHasAuthority`:
`TypeOK` alone is not inductive, since a stop event copies the owner from the last mode event, so the
log must have one whenever a controller is open; and the send happens one step after the check, so the
transaction that holds the lock must carry the authority it checked, which stands because no other
writer appends while it holds the lock (a mutant that lets `Stop` ignore the lock breaks exactly
that step). `LogInv` adds the event that a lock holder has decided and not yet written, which
must be one the log can take. `SendInv`, `ResultInv` and `CommitInv` say how far an effect is when
the transaction is in each of its phases: in particular a completion needs that the response it reads
was guarded by a check already in the log, and a local commit that its receipt survived the crash
between its two transactions. `RefInv` adds that the owner of the last mode event did boot.

`OperationsProofs`, for every set of attempts, authorizations, budgets, advances, checkpoints and
anchors, whatever the two clocks do:

- `AttemptsStayReadable`, `NoSecondSend`, `Finality`, `LifetimeIsElapsed`: the rows of the ledger;
- `LineageIsRegister`: `Spec => ImplementsRegister`, the lineage with its stages, receipts, aborts,
  erasures and crashes is a compare-and-swap register of verified proposals;
- `EvidenceIsComplete`: `Spec => []CommitsHaveEvidence`;
- `StoreIsSound`: `Spec => []LedgerStaysSound`, everything that `verifyIntegrity` reads.

`AttemptInv == AttemptTypeOK /\ DatesAgree /\ AuthsAgree /\ SendsAgree`: `DatesAgree` orders the dates
of a row and is not inductive alone, because the dispatch is dated by the authorization object, so the
object must agree with the row it was issued for; and that an authorization sends nothing twice is
known to the row and not to the object, so the count of sends must agree with the row's state.
`EvidenceInv`: the state of an advance is the last of the receipts recorded for it and all earlier
ones are recorded too; each operation moves a state by one step of `StateOrder`. `BudgetsInv`: what is
spent of each budget is the sum over its attempts. Such a sum is `MapThenSumSet`, defined by
recursion over a set; `TotalIs` shows that it is a function the recursion determines, and the lemmas
`TotalStep`, `TotalAgree` and `TotalAdd` (one more attempt adds its cost, none changes the others')
use an induction over subsets stated for a *set* of subsets, which is first-order and therefore
within reach. `LineageInv`: the committed advances have the bases `0 .. revision - 1`, one each, in
the order of their dates, and every advance was staged from a success and a revision that existed.
`ErasureInv`: only what has ended is destroyed, and the hardening of the file is pending while
anything is left.

The same module, for any incidents, planes, callers, clocks, deaths and earlier copies of the file:

- `AlertsStaySound`: `O!Spec => []OutboxStaysSound`;
- `ReceiptsStay`: `O!Spec => ReceiptsAreStable`.

`OutboxInv` says `FileSound` of the open file and of its copy, since either may be the one that is
opened next. It is the shape of the three tables, `RowSound` for each delivery (its row and its attempts
read as the verification demands, and a retry follows a failure), and `LogSound`: the audit has exactly
the events that rows and attempts call for, each once. An answer that is late changes nothing, since it
names an attempt that has ended and is never opened again. What was delivered under the head a caller
retains is delivered in any file that opens, since that file's audit begins with the retained one.

`CheckpointProofs`, for any number of connections, signers, readers' answers, crashes, cut lines and
restored copies:

- `CheckpointInvariant`: `CheckpointSpec => []CheckpointInv`;
- `AnchoredHistory`: `CheckpointSpec => []HistoryIsAnchored`.

`CheckpointInv == StoreInv /\ SignersInv /\ JournalInv /\ ReaderInv`. The property is about the
answer of a verification that reads the log, the journal and the retained head at three moments. So
the invariant must say what a signer holds between its check, its signature and its append (`Succeeds`:
the line it is about to write is one the journal can take, because the signer holds the lock and the
transaction), and that what a reader has read begins with the head it trusts. Only while nothing was
put back from a copy do the lines of the journal vouch for the log.

The same module, for any checkpoints, publishers, clocks and deaths:

- `OutboxStaysTruthful`: `OutboxSpec => []OutboxIsTruthful`.

`OutboxInv == OutboxTypeOK /\ RowsInPlace /\ PublishersAgree /\ AnswersAgree /\ RowsAgree`. A publisher's
row may be taken back by a recovery and claimed by another process while its request is under way, so
the invariant says of a publisher only what nobody can take from it: the row of its sequence is for the
checkpoint and the mode it asked for (`PublishersAgree`), and an answer that is no conflict repeats the
object that the store holds and goes on holding (`AnswersAgree`). What remains is that `complete` writes
into a row only while the row's active attempt is the one that was answered; that is where *created*
gets its attempt from, and the mutant `Current_AnyAttempt` breaks that step.

- `VerdictsAreRight`: `VerifierSpec => []ReportIsRight`, for every set of signed checkpoints, every pin
  and whatever a remote lists or fails to return.
- `ArchivesStayWhole`: `Disk!PublicationSpec => []WholeOrAbsent`, for any publications, hosts, payloads,
  faults and losses of power. It promises what the code provides for and no more: the name of a published file
  outlives a loss of power where directories can be synced (`syncDirectory` swallows `EINVAL`, `ENOTSUP` and
  `EBADF` and the receipt is returned all the same), and a restored directory may be gone after one even when the
  restore was reported, since its parent is not synced.

The verifier's invariant is small, since it reads what it listed and then decides once. The work is in the
decision: the code sorts what it read and compares neighbours, where the property speaks of the whole set
(`Chain(pin, set)`: every sequence from the pin, or from 1, to the last is there once, each naming the one
before). `EndsExist` and its companions show by an induction over subsets that the sorted set has a first
and a last object and a next one after every other, and from neighbours follows the whole. `FilesInv` of the
publications says of each call, by its phase, which of its bytes are synced, linked and registered
(`CallSound`), so that what is acknowledged is whole and, until it is deleted, linked and in a synced directory if there can
be one (`FileSound`, `NameKept`), and
that a reader has in hand only a file whose bytes are synced (`ReaderSound`).

- `RebuiltStaysVouched`: `RecoverySpec => []RebuiltAsVouched`, for any requests, sessions and releases and
  whatever is exported at different moments, put back or mixed up;
- `DocumentsStayVouchedFor`: `MCSpec => []VouchedFor`, the same of the run's specification and with it
  `ReportIsOfOneSession` and `SignedVerifies` of `SignedArchives`, for any sessions, release keys and versions.

`RecoveryInv` extends `CheckpointInv` by `Telescoped`: every line of a journal vouches for *all* the lines
before it, not only for the last. The code compares each line with its neighbour and only the last line with
the events, so this is what makes an import find the head of every line; it holds of the journal, of every
copy cut from it, of what was exported and of what was signed (`EvidenceSound`), while nothing at all is known
of how the exported rows relate to the exported journal until `validateCheckpointJournal` compares them.
`DocumentsInv` says that every file is sealed (its signature is over its own manifest) and passes its own
verification with its own receipt, and that a number stands for one piece of evidence (`EvidenceNumbered`).
From the first, a file mixed of parts of several or edited verifies only if it is one that was signed
(`MixedFile`, `EditedFile`); from the second, the archive that names the reported evidence by its id was signed
beside that very evidence (the mutant `Agree_AnyEvidence` drops the comparison of the id).

`SessionProofs`, for any number of sessions, any windows and clock readings, any evidence the callers
report, crashes, and earlier copies of the file put back under a caller who retains a head:

- `SessionInvariant`: `Spec => []SessionInv`;
- `SessionsAreSound`: `Spec => []SessionsStaySound`: records and audit pass the verification, an active
  session finds an audit row left to end with, and what a retained head accepted stays accepted;
- `NoEgressAfterRestart`: `Spec => RestartsBlockEgress`;
- `GateImplemented`: `CopiesAt = {} => (Spec => ImplementsGate)`, the refinement of `SessionGate`. The
  hypothesis is needed: a file put back from a copy forgets the sessions that ran since, so it is the
  retained head, in `SessionsStaySound`, that protects an acceptance then.

What the code verifies is not inductive, and `SessionInv` says why it is never refused. The
verification is stated over the fields of a record and over the rows of the audit, apart from the
transitions; so `Written(action, old, t, new)` says what each action may make of a record, the ten
`...Writes` lemmas show that the record each transition builds is one the verification reads, also
when the transition ends the session instead (`EndWrites`), and `Sound(S, A)` relates the records and
the audit: the last row of a session holds its record (`Stored`), what a record remembers of its past
is in a row (`Logged`), every row follows from the last one before it (`EntryInv`). The bound on the
audit is a potential: the rows written plus `Left(r)`, the most that each session can still take, are
at most ten per session planned (`Counted`), and planning is what the code bounds. The copy is sound
too, being an earlier state, and the audit of an open file begins with the head its caller retains.

The same module, for any number of verifiers, lanes, attempts, events and reports:

- `ClosureLeavesNothing`: `C!ClosureSpec => []ClosedMeansNothingLeft`.

A closure reads the stores one after another while their owners go on, so each fact must still hold when
the verdict is recorded. `FactsStand` says that it does, by the order of the reads: the attempts are
summarised first, and when none is open there is nobody left who could reserve, capture or raise anything,
so that what is found after them stands. The mutant `Order_AttemptsLast` breaks exactly that.

`OperatorHostProofs`, for any set of callers, requests and faults, and each of the three hosts:

- `HostTypeCorrect`: `HostSpec => []HostTypeOK`;
- `HostStaysAlone`: `HostSpec => []HostIsAlone`.

`HostInv` says who has the stores open: a recovery that is in its stores, or a run in the phases between
opening and closing them, and no run is past its wait while a recovery is there (`HandlesAgree`). That a
shutdown leaves nothing needs that nothing new begins once the host closes, so that what the shutdown
waits for is all there is (`ShutdownAgrees`), whatever a recovery or an abort throws, and that a store which did not close is reported by the run
that is about to end. A request goes out in a later step than the admission of its run: while the revision
is the one of the admission no STOP came in between; from the claim on, the marker is there and is the
run's; from its preparation on, the record is the run's own, so a receipt is of the caller's request.

- `LockAndKeysStayKept`: `Lock!LockSpec /\ Keys!KeychainSpec => []LockAndKeysAreKept`, for any number of
  processes, calls, claimants and mishaps.

`LockInv`: the lock file of a process that has created it and not yet tried to remove it is its own, whole
once the token is written and on the disk once that was synced, and only such a process has, or may have,
something open; two processes would then own the one file. `KeyInv`: a call that reads has in memory exactly
the keys it has read so far, hands over all of them and leaves none; and one claim succeeds at most, because
the one that does makes the marker, which nothing removes.

`CaptureProofs`, for any number of attempts, captures, rows and clock readings, and a crash or an I/O
error before, in the middle of or after any step on an artifact:

- `CaptureStaysSound`: `Spec => []CaptureIntegrity`;
- `RecoveryAlwaysReconciles`: `Spec => RecoveryReconciles`.

No transaction spans vault and registry, so `IInv` relates what is on the disk to what anyone may still
do with it. A capture's artifacts have one of ten shapes and its intent and tombstone agree (`Sound`). It
was complete and is whole or under deletion (`Kept`) for as long as its entry is committed *or* an owner in memory
may still commit it (`Counts`), and the receipt it holds is one that the entry, or the commit that may still
come, accepts (`Allows`): a sweep may delete a captured response before it is committed, and should the commit
still come, under a clock that ran backwards, its time is in the window and no later than the receipt. The running operation has to do exactly what its artifacts lack
(`job.todo = Plan(job.kind, vault[job.capture])`); `PlannedStep` proves that one step of a plan leaves sound
artifacts whose plan is the rest of it, and `CutIsBeforeOrAfter` that a cut leaves the artifacts of one side of
the step. `PhaseInv` says how far a recovery has come: after the vault's part nothing is half done, after the
registry's no attempt is pending, and what is committed can be read. The properties say that vault and registry
agree; the invariant is needed to say why no owner, sweep or reconciliation can still break it.

`ReadCanaryProofs`, for each of the three canaries, any clock readings, any lifetime of an
authorization, and any number of operator commands, processes, crashes and failed operations:

- `CanariesAreSound`: `CanarySpec => []CanaryIntegrity`;
- `ResultsStayAuthorized`: `CanarySpec => ResultsUnderAuthority`.

Six stores change one at a time and a process may die between any two changes, so the property, which
speaks of receipts and refusals, says far too little of the states before them. `Stores` says which records
can be there together and what each then says of the others, whoever left them: an attempt that is open has
no outcome yet, and one that was closed has the date and outcome of the result, or of the failure that will
be written (`AttemptTells`); a committed capture is deleted only for a result, as of its completion, and the
registry's key of a destroyed capture went with it (`EntryTells`); a failure checkpoint agrees with what is
stored at every moment after it was written, and the later two close no attempt as a failure without one
(`FailureTells`); a receipt repeats the result or the failure (`ReceiptTells`). `Control` says what is on
record at each step of the host, and `Catchable` what a live run's catch clause may find. That nothing is
ever refused (`EvidenceIsAccepted`) is where most of the work is: `ResultHasEvidence`, `FailureReceiptIs`,
`CheckpointIs` and `BaseLoaded` derive from `Stores` each assertion that a recovery makes, in the words of each
of the three controllers. That a result is authorized needs that it comes of a check that was allowed for
the prepared revision and process (`CheckBinds`), which `Complete` compares with the standing ones under the lock.

- `ReportsStayTrue`: `C!CollectorSpec => []ReportsTheTruth`, for each of the three collectors, any limit
  and any answer, chunks and failures of the network.

Abort, timer, answer and chunks come in any order. `CollectorInv` says what a collector has in hand while it
waits and while it reads, and that one which gave up before the transport answered was aborted or timed out,
so that a late answer reports nothing.

The watchlist, the attention history and the ledger of proposals over the runtime's log, for any
processes, snapshots, bundles, proposals, lifetimes and bounds:

- `RecordsStayAllowed`: `MCSpec => []RecordsWereAllowed`.

A command reads its store, consumes an authorization in one transaction and writes in a later one, and
others may stop the runtime, take it over, and write in between. `CommandInv` says what a command may rely
on all that while: the log only grows (`LogStays`), its dates do not go back, no two checks answer one
authorization, an authorization that was not consumed has no check (`GrantedSound`), and one that was has
its own, allowed, under the mode that the log before it says (`ReceiptedSound`). Each store then adds what
its commit callback needs not look at again: `WatchInv` that a preview in hand is one that was shown,
`AttentionInv` that a bundle is later than the records it was compared with as long as the store is as long
as it was (`AttentionJob`), `LedgerInv` that the authorization names the proposal. That a replay succeeds
for every later reader (`ImportReplays`, `Readable`) follows record by record from what the commit checks,
with the dates of the log between a check and the checkpoint after it (`ChecksPrecede`).

`ImprovementLoop`, for any versions, weights, limits and numbers of candidates:

- `PromotionsStayEarned`: `LoopSpec => []PromotionsAreEarned`.

`LoopInv` counts: the results that a candidate has since it was last proposed are as many as its stage
says, each within its limit (`Shows`), and a candidate that is proposed again starts with none. That two
candidates over one version are not both promoted over one champion follows from the promotion before the
later of the two, which must have brought that version back.

The fixture pipeline, for any processes, each with a policy of its own, and any runs, requests, amounts
and deaths of a process between two stages:

- `RunsStayWithinLimits`: `MCSpec => []RunsAgreeWithinLimits`.

`PipeInv` says of the log that a run has at most one event of a type, that a decision on file is of a run
that is complete, and that a completed run has all its stages on file (`CompletedAt`), so that another call
which is still in that run can add nothing after its report; of a call between two stages it says which
events it found or wrote (`InRun`), for the last transaction trusts them without reading them. That the kernel's limit is
one on the log is `RestoredSpend`: what a kernel rebuilt from the decisions remembers of a day is what
the approvals of that day add up to. Both are recursive functions over the positions of the log; that they
have the values their definitions say (`MemoryIs`, `SpendingIs`), and agree, goes by induction over a
*set* of numbers (`NumbersInduct`), from the well-foundedness of `<` on `Nat`.

Assumptions used, all evaluated by TLC on a run of the module: `BoundariesAssumption`,
`BoundsAssumption`, `NoneAssumption` and `NoTicketAssumption` of `RuntimeController`; the assumptions
named in `AttemptLedger` and `CursorLineage` (budgets, lifetimes and grace are numbers, what stands for
"no row" is no row); `IdsAssumption`, `ConnectionsAssumption` and
`SignersAssumption` of `CheckpointJournal` (the value for "nobody" is nobody's); `TickAssumption` and
`AbsentAssumption` of `ExternalAnchor` (the clock is a number, what stands for "no row" or "no object" is
neither); `AsksAssumption`, `FaultsAssumption` and `NoneAssumption` of `OperatorHost` (a call asks one of
the commands, faults are counted, the value for "none" is no run, command or request);
`TimeAssumption`, `RecordsAssumption`, `NoneAssumption` and `NoRecordAssumption` of `CaptureStorage` (the
clock is a number, the registry holds a row, what stands for nothing is no attempt, capture, number or
record); `AmountsAssumption` of `ImprovementLoop` (limits and amounts are numbers); `LifetimeAssumption` of
`BoundaryCommands`, `HistoryAssumption` of `AttentionHistory`, `SnapshotsAssumption` and `ValidityAssumption`
of `WatchlistHistory` (lifetimes, limits and dates are numbers, the contract groups of a snapshot do not
overlap, which `snapshot.ts` refuses); `LifecycleAssumption`
(windows and bounds are numbers, a day has a length, the minute marks are in order) and
`NoneAssumption` of `SessionLifecycle`; `BoundsAssumption` and `NoneAssumption` of `XReadCanary` and
`NoFailureAssumption` of `ReadCanaries` (the bounds are numbers, what stands for nothing is no number,
outcome or record); `OutboxAssumption` of `MCOperations` (deliveries are ordered by their ids, their dates are
numbers, what stands for nothing is no row, date or result); `OutcomeAssumption` of `MCSessionLifecycle` (what stands for an open attempt is no
outcome and no reason); `SpendAssumption` of `MCHistories` (requested amounts and daily limits are
numbers); `SignedAssumption` of `ExternalAnchor` (sequences, heads and dates of checkpoints are
numbers, and an id, being a hash, names one of them); `NoPublicationAssumption` of `RecoverySet` and
`NoArtifactAssumption` of `OperatorHost` (what stands for nothing is no publication and no lock file);
`LimitAssumption` and `NoReportAssumption` of `MCProviders` (the limit is a number, no report is none of
the reports). The last of these are stated where the instances are: an instance's own assumptions are not
handed on.

What the attempts to prove found:

- `ReportIsRight` was wrong as first stated: a set of checkpoints that begins after a gap, with the pin
  further on, counted as a chain, which the verifier refuses. No history of the run had one; the run
  now has, with a pin beyond the gap (`MCPinnable`), and the property is `Chain`.
- Guards of a `CASE` that overlap are a choice TLC resolves by order and the logic does not. The models
  of the collectors, canaries, storage jobs, closure, evidence and preflight had some; all are now
  `IF ... ELSE IF` in the order of the code.
- `LocalClosure` kept only a count of foreign attempts where the code lists them, and an action
  merged functions with `@@`, which is unordered where both define a point; both are explicit now.

Model-checked only, and why:

- `CallsEnd`, `BecomesReady`, `RunsAndRequestsEnd`: liveness under fairness and `ENABLED`.
- `AnswersAreFaithful`: pages and graphs are walked by recursion over data, in a module with a
  `RECURSIVE` operator; no other module has one.
- `EvidenceIsIndependent`, `AssessmentsAreGrounded`: what a union over links and a scan over a history
  compute for every input is an induction over data.
- `WindowsStaySound`: it is `SessionsStaySound` of an instance of the same module with other constants;
  `SessionsAreSound` is the theorem about it.
- `CompletionsAreDurable` does not hold (section 5).

## 5. Findings

`sqlite-runtime-controller.ts:1267-1269` says that completion authority is derived only from the
exact durable check that protected *this* authorization's dispatch, and that a dispatch whose
transaction did not commit cannot pass. The code looks the check up by authorization id and compares
its fields, so when a caller issues two objects with one id, request time and revision, and the
first dispatch is rolled back after its transport ran, the durable check of the second admits the
completion of the first. Run `runtime_completion` is that behaviour.

## 6. Plan

Done: the runtime with its refinement and proofs, capture storage, the three canaries and their
collectors, the operations store with its register refinement and proofs, alerts, sessions with their
gate and their closure, event store, checkpoints and anchors, publication and contents of the three
archives, hosts, lock, Keychain and preflight, the stores of attention, watchlist and research, the
assessment, the evidence, the kernel, the pipeline and the loop.

Left, in this order:

1. The documents of `source-contracts` and what the ingestions read of them, as operators against a
   reference definition; `public-projection` the same way.
2. The `cli`'s claim backfill over `Keychain`.

## 7. Not modelled, and why

- Cryptography, schemas and canonical JSON: rows, events and artifacts are authentic and well formed
  unless a module says otherwise (`SignedArchives`, the verifier of `ExternalAnchor` and `CheckpointJournal` present
  damaged and foreign ones); what the code does when they are not is to refuse.
- `domain`, `adapters`, `source-contracts`, `public-projection`: pure validation of documents, without
  state or order. `scripts/`, dashboards' markup, option parsing and demos.
- Two canary hosts at once: excluded by the profile lock, which `ProfileLock` models.
- Two writers during a cursor erasure: the pending bit is read before and cleared after the
  hardening in different transactions, so a second writer's bit could be cleared with the first
  one's; the package's README leaves this to the single-writer lock, and `CursorLineage` has one
  open store.
- Pages left in a registry file by a purge whose compaction failed and whose process then died
  (`secure_delete` zeroes them), the vault's queue limit and close.
- Delivery of alerts and enqueueing of incidents: no code under `src/` calls the outbox, so
  `LocalClosure` takes incidents to come from open attempts.
- The weights of research and attention scores; the text that sanitisation removes.

What a reader of the code should know, and the models take as it is:

- No application calls `purgeRemoved`; after 1000 attempts a registry refuses to begin another.
- A restored directory's own entry is never synced, only what is in it (`release-bundle/src/filesystem.ts:186`,
  `271-277`): a restore that was reported may be gone after a loss of power. Where a filesystem cannot sync
  directories a publication is acknowledged without a durable name.
- `projectPublicJson` says that accessors are never traversed (`server.ts:684-688`). Those of an object are not;
  those of an array's elements are asked by `slice` (`server.ts:729`), and `assertPlainDataTree` accepts them and
  asks them too (`server.ts:477-488`). `undefined` is plain data for the one and left out by the other. The model
  and `ProjectionIsFaithful` follow the code.
- A torn journal line or a stale lock file stops signing until an operator acts; a failed anchor row
  leaves a permanent gap for the verifier, and the second crash after a create leaves a row *failed*
  whose object was stored.
- A timed-out claim may have made the marker, and the host object never retries it. A failed close
  latches an incomplete cleanup and keeps the profile lock. Only X recovers on a status read.
- Two publications of one process to one destination share `activePublications`, so the second's
  clean-up makes a reader refuse a file that is being linked (it fails closed); a crash between link
  and unlink leaves a file that no reader accepts. *Manifest last* holds for deaths and errors, not
  for a loss of power before the directory's sync.
- Evidence names a release's commit and version, which are not compared with the bundle's: only the
  manifest's digest is. A backup has no limit on events where an archive has 100 000, so evidence can
  be signed that no archive can be bound to.
- A proposal's append may land after a STOP that came after its check: the ledger consumes a plain
  boundary. An attention record whose caller was told that the history changed may be on file, and a
  retry returns it.
- A run that was proposed under one policy and first decided under another cannot be completed under
  the first. A candidate's version may return (A, B, A), which the loop's base check does not see, and
  proposing a rejected candidate again resets it.
- `DarwinReadOnlyProbeHost` never answers for AirPlay and the command line passes neither a wake
  assertion nor clock references, so `pnpm preflight` cannot report ready for any profile; and a
  `launchctl print` that fails for a reason of its own counts as a service that is not loaded (its
  disabled override is demanded besides, `preflight.ts:219-269`).
