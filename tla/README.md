# A TLA+ model of Cutout

Cutout tells a user of a public Starknet privacy pool how linkable a planned
deposit is, from public data only.  The value of the answer depends on a chain
of trust: a long-lived indexer turns an RPC endpoint that may reorganise, fail
or lie into one *canonical* SQLite read model; an API process serves the
snapshot that read model has activated; a guard in front of the wallet refuses
to authorise anything the served snapshot does not justify.  This directory
models that chain from end to end: what a reorganisation, a crash or a failing
endpoint can do to the database, what the API may then serve and report of itself, which
provider the indexer runs on, and what the signing page may ask the wallet to execute.
The one-shot ingestion of milestone 1, which does without a database, is modelled beside it.

All paths below are relative to `src/`, the root of the repository.

## 1. Inventory

| component | state it keeps | operations | talks to |
|---|---|---|---|
| Canonical store, `src/indexer/store.ts` | one SQLite file: `indexer_state` (status, source boundary, cursor, active snapshot), `canonical_blocks`, `public_events`, `public_withdrawals`, `snapshots`, provider rows | one transaction per method: `setStatus`, `initializeSource`, `retainHeaders`, `commitBatch`, `rollbackTo`, `resetForReplay`, `persistCompleteSnapshot`, `ensureModelVersion`; reads `loadCompleteSnapshotRow`, `recentHeadersDescending`, `getHeader` | written by the indexer, read by the API process |
| Incremental indexer, `src/indexer/indexer.ts` | locals of one `syncOnce` across its awaits | `syncOnce`: recover from a reorg, establish the source boundary, ingest ranges, retain the dense window, confirm head, publish | RPC endpoint, store |
| RPC client, `src/starknet/rpc.ts` | none | head, block, batch of blocks, event pages, with timeout | endpoint |
| RPC failover, `src/operations/rpc-failover.ts` | per-provider health, suppression deadline, forced secondary | `select`, `probe`, `markRuntimeFailure`, cross-check | two endpoints, provider rows of the store |
| Supervisor, `src/operations/indexer-supervisor.ts` | stop flag, wake-up callback, failure counter | `run`, `runAttempt`, `sleep`, `stop` | failover, indexer |
| Health and metrics, `src/operations/health.ts`, `metrics.ts` | none, counters | `buildOperationalHealthReport`: the state row, the served snapshot, else the latest stored one; two ladders of statuses | store (up to three reads), clock |
| Preflight service and HTTP API, `src/api/*`, `apps/web/app/api`, `scripts/preflight-api.ts` | none; the standalone server keeps its store open | parse an intent, compare its time with the clock, load, validate, evaluate, answer with an HTTP code | store, engine, clock |
| Linkage engine, `src/engine/*` | none | `evaluatePreflight`, `evaluatePreflightV14`: cohorts, burst share, signals, bands, recommendations | snapshot |
| Public cover, `src/cover.ts` | none | `buildPublicCover`: rates the most used amounts for an account with no past | engine, page |
| Freshness and snapshot validation, `src/starknet/freshness.ts`, `snapshot.ts`, `policies.ts` | none | `validatePublicSnapshot`: order and links of blocks, boundary, observations, age, lag | used by indexer, ingestion, API, cover |
| Signing guard, `src/workflow/guard.ts`, `canonical.ts`, `amounts.ts` | none; it hands out frozen objects the caller passes back | plan, simulation evidence, authorisation | engine answer, wallet |
| Signing page, `apps/web/app/_components/signing-workflow.tsx` | reducer state, requests in flight | load, select, evaluate, simulate, sign | guard, API, wallet |
| Receipts and wallet execution, `src/workflow/receipt.ts`, `src/starknet/wallet*.ts` | none | submit, verify receipt | wallet, endpoint |
| ABI review and event decoding, `src/starknet/abi.ts`, `events.ts`, `felt.ts` | none | parse and check one event | indexer |
| Spike ingestion, `src/starknet/ingest.ts`, `preflight.ts`, `scripts/mainnet-spike.ts` | a map of headers by number, for one run | `ingestPublicSnapshot`: source head, boundary by bisection, event pages, headers, newest head, second reading of the source head; then validation and one preflight | endpoint, clock, engine |
| Guard packages, scripts, web shell | none | wrappers, wiring, rendering | everything |

Behaviour that is hard, and the property that makes each component correct:

- **Indexer and store.**  Every `await` of `syncOnce` is a point where the chain
  can reorganise; every boundary between two transactions is a point where the
  process can die.  Correct means: what is served is always backed by what is
  stored, the store never mixes branches, the cursor says exactly which events
  are in, a fork inside the retained window is rolled back to the fork point
  and no further, and every intermediate database leads to a published head.
- **Failover.**  Late failures, suppression deadlines and a cross-check that
  compares two moving heads.  Correct means: never hand out a provider whose
  last comparison disagreed, and suppress the provider that failed.
- **Supervisor.**  A stop must end every sleep, at every interleaving.
- **Health, preflight, bootstrap.**  Separate reads of a row that another process writes
  in between, and a clock that runs on.  Correct means: 200 names evidence that was served during
  the request and that is fresh; no alarm is raised while such evidence is served; a dead
  indexer is noticed although its row says `COMPLETE` for good.
- **Spike ingestion.**  A dozen calls at a chain that moves between them, joined in a map.
  Correct means: an accepted snapshot is one history, growth is never taken for a
  contradiction, and the bisection ends at the right block.
- **Guard and signing page.**  Objects from different evaluations, expiring
  while the user decides; answers that arrive after the question changed.
- **Engine and cover.**  Six filters with open and closed ends over the same events,
  a two-pointer scan, a three-key choice among candidates, and advice that the user
  follows into a second evaluation.  Correct means: the scan and the choice are what
  their definitions say whatever the order of the events, what arrives later never
  changes a verdict, and advice agrees with the ratings it leads to.

## 2. Modules

```
BlockHistory             blocks as histories, and what one history continues another means
  BlockProofs            lemmas on ancestry, used by IndexerProofs and SpikeProofs
  PublicChain            the chain as the endpoint shows it (external environment)
    CanonicalStore       the database: one operator per transaction
      IncrementalIndexer syncOnce, the faults, the crash and the restart
        MCIndexer        small contents, model versions and selectors for TLC
        IndexerProofs    type correctness and "served is backed", for all constants
          StoreProofs    what the store holds, and the indexer implements SnapshotService
  SnapshotService        abstract: what readers of the API are promised

RpcFailover              select() over two providers
  IndexerSupervisor      run(): attempts, backoff, sleep, stop
    SupervisorProofs

PublicChain
  SpikeIngestion         ingestPublicSnapshot and validatePublicSnapshot, one action per answer
    MCSpike              contents, queries and timestamps for TLC
    SpikeProofs

ApiService               health, preflight and bootstrap over the row of a running indexer
  ApiProofs

SigningGuard             the decisions from intent to wallet call, as functions
  SigningWorkflow        the page and its requests in flight
    MCSigning            engines (verdict and advice) for TLC
    SigningProofs

LinkageEngine            cohorts, signals, bands, recommendations, cover, as functions
  PreflightSession       a user who asks, waits and follows advice while the pool goes on
    MCPreflight          pools and proposals for TLC
    PreflightProofs      every property of the sessions, for all windows, thresholds and pools
```

### PublicChain

A Starknet block hash commits to the whole ancestry, so a block *is* its
history, a sequence of contents; its number is the length, its parent the prefix,
and two blocks of one number are equal exactly when their hashes are.  `Extend`
appends a block, `Revert` drops a suffix (the other branch then grows with
`Extend`).  `Exists`, `BlockAt`, `HeadNumber`, `Live` are what an RPC answers at
that instant.  Timestamps grow with block numbers, so a time boundary
(`requiredFromTimestamp`) is a height.

### CanonicalStore

| variable | column or table |
|---|---|
| `status`, `lastError`, `modelVersion` | `indexer_state.status`, `.last_error_code`, `.model_version` |
| `source`, `requiredFrom` | `indexer_state.source_from_block/_hash`, `.required_from_timestamp` |
| `cursor` | `indexer_state.indexed_through_block/_hash` |
| `headers` | `canonical_blocks` |
| `events` | `public_events` and `public_withdrawals`, identified by their block |
| `snapshots`, `active` | `snapshots`, `indexer_state.active_snapshot_hash` |

Each operator is one `BEGIN IMMEDIATE ... COMMIT` and therefore one atomic step.
The variables survive a crash.  `Served` is what the API process reads.
The order in which `persistCompleteSnapshot` evicts history rows depends on a
wall clock that can step back; the model leaves the choice open.

### IncrementalIndexer

`pc` names the await, or the transaction boundary, the process is at.  The
actions follow the body of `syncOnce`:

| action | code (`src/indexer/indexer.ts`) |
|---|---|
| `StartSync`, `ReadHead` | entry of `syncOnce`, `initialHead` |
| `CompareCursor`, `LocateAncestor` | `recoverReorg`, before and after its second await |
| `FindSource`, `RetainSource`, `EstablishSource` | source boundary: search, retain its header, record it (three steps, two transactions) |
| `ReadTarget`, `CollectPage`, `FetchHeaders`, `CommitRange` | target head, `collectRangeEvents` page by page, `buildBatch`, `commitBatch` |
| `RetainWindow` | `retainDenseCursorWindow` |
| `ConfirmCursor`, `ConfirmParent`, `ConfirmHead`, `Publish` | `finalizeSnapshot` |
| `Fault` | any RPC, provider-selection or validation failure: the `catch` of `syncOnce` and `runAttempt` |
| `Crash`, `Restart` | kill at any step; reopening the store, perhaps under another model version (`ensureIdentity`, `ensureModelVersion`) |

`horizon` is the `requiredFromTimestamp` of the latest attempt.  The supervisor dates it from the clock at every
attempt (`DateHorizon`; `indexer-supervisor.ts:104-110`): it stays or moves on, and the restart with another model version, which
has another observation time, dates it anew.  Only a clock that is set back or a longer buffer moves it back; the
constant `HorizonMovesBack` allows that, and `syncOnce` then resets the database.

What the indexer abstracts, and why it is sound for the properties below: one `getBlocks`
batch and the binary search by timestamp are single reads (a reorganisation
inside them gives answers that the later hash checks reject, or answers that a
reading at one instant also gives); head and head parent are read at one
instant; a snapshot stands for its hash; a rejected freshness validation is a
`Fault` at the publishing step; a graceful stop is a `Crash` between attempts;
`recordSyncSuccess` writes metrics only.  Provider rows, `ingestion_batches` and
the migration of older schemas are left out.

### SnapshotService

What the API process, which only polls, may rely on.  Its one variable is the snapshot
it is served, or a refusal; `Publish` serves a snapshot, which has to continue the history
of the one served before, and `Withdraw` refuses.  A reader that saw no
refusal between two answers has seen one history.  `IncrementalIndexer!ServesOneHistory` is
`SnapshotService!Spec` with `served <- Served`, the row the API reads.  The interesting part is
everything that replaces an active snapshot by one of another history: a reorganisation,
an earlier horizon, another model version.  All have to pass through a withdrawal.

### RpcFailover and IndexerSupervisor

`RpcFailover` is `select()` of `src/operations/rpc-failover.ts`, one action per await: `ProbePrimary`,
`ProbeSecondary`, `CrossCheck` (the two heads compared, each read may fail), `Conclude`
(which provider is handed out, degraded or not, or a refusal), and `MarkRuntimeFailure`, called
when a sync on the provider fails.  `status` and `suppressed` are the published health and the
suppression deadline of a provider, `force` the forced secondary, `stage` the await.
What an endpoint answers is a environment variable that
`EndpointChanges` may change at any moment, `MaxChanges` times.

`IndexerSupervisor` is `run()` of `src/operations/indexer-supervisor.ts`.  `place` is where
its loop stands; `timer` counts the ticks left of the sleep; `Retry` records the failure and sleeps for
the backoff, `SyncSucceeds` resets it, `RequestStop` may come at every await.  Time is a
`Tick`: it lowers every running timer and suppression.  The code sleeps for the
current backoff and doubles it afterwards; the model doubles it in the same step, with
the sleep of the old value.  One sync is one step here, with the three outcomes the
supervisor distinguishes (success, provider failure, data failure); its inside is
`IncrementalIndexer`.

### SigningGuard and SigningWorkflow

The engine is deterministic, so `Verdict` and `Advice` are constants: functions of snapshot,
time, account and amount.  An available answer is then just the snapshot
it was computed from, a decision ID is the pair of intent and snapshot, and
`PlanAllowed`, `PlanHolds`, `Authorizes`, `ReceiptMatches` are the guard's and the receipt
verifier's checks on these.  The proofs hold for every such function; TLC uses two
engines, one whose verdicts flip between two snapshots and one whose verdict moves
with time.

`SigningWorkflow` is the React component.  A handler is split at its awaits: up to the first one
it is a user's action, and the rest is the arrival of the answer, on the *values the
handler had captured*, which is what makes the page hard.  They are kept in
the record of the request.

| variable | code (`signing-workflow.tsx`) |
|---|---|
| `state`, `capability`, `plan`, `simulation`, `acknowledged` | the `useState` of that name (`warningAcknowledged`) |
| `form` | action, amount and range inputs |
| `initial` | `initialIntent` with `initialPreflight` |
| `selection` | `selection`, or `withdrawSelection` for a withdrawal |
| `bootstrap` | the snapshot in the server-rendered props |
| `artifact` | the receipt stored in `sessionStorage` |
| `requests` | promises that are pending, with what their handler captured |
| `published`, `now` | the snapshots the service has served, the clock |

| action | code |
|---|---|
| `Edit` | `selectAction`, `selectToken`, the inputs: all call `clearDecision` |
| `Refresh`, `Refreshed` | `refreshSnapshot`; new props and the bootstrap effect |
| `Connect`, `Connected` | `connectWallet` before and after its await, which can also throw |
| `Check`, `InitialLost`, `InitialAnswered` | `submitProposal`, `runInitialPreflight` |
| `PickCell`, `CellMoved` | `chooseCoverAmount`: the click, and `runInitialPreflight` when the amount has moved (`animateAmountFlip`) |
| `Choose` | `chooseCheckedAmount` of the proposed amount: `chooseSelection` or `chooseWithdrawSelection` at once |
| `Follow`, `AmountMoved` | the same of the recommended amount: the click, and the selection when the amount has moved, with what the click captured |
| `Planned`, `NotPlanned`, `WithdrawAnalyzed` | the answer of the final preflight, and the guard |
| `Simulate`, `Simulated` | `simulate` |
| `Acknowledge`, `Submit`; `Submitted`, `ReceiptVerified` | confirmation panel, `submit` with its two awaits |
| `Publish`, `Tick` | the indexer, the clock |

A user's action is enabled exactly when its control is rendered and not disabled.  An
answer may come at any time and in any order.  The end of an animation is such an answer: it comes
some half a second after the click and the handler then goes on with what the click saw, whatever the
page shows by then, so its request is kept in `requests` too.  Without motion it ends at once,
which is one of the interleavings.  The token is fixed, and
chain, pool, model and policy versions, which a deployment fixes, are single
values, so the guard's comparisons of them hold.  Client and server share a clock;
the refusal of an intent with a skewed clock is one of the ways to get no usable answer.  `Advice` is one
recommended amount for a case, where the code computes it from the permitted range as well; no property depends on which
amount is advised (that is `PreflightSession`'s subject).

### LinkageEngine and PreflightSession

`LinkageEngine` is `src/engine/evaluate.ts` and `src/cover.ts` as functions of a snapshot's
events (sequences, in the order the snapshot lists them), an intent and the time of the
evaluation.  Both frozen models are there: `CUTOUT-v1.3` is v1.4 without withdrawals, `S7` and `WAIT`, as the two
halves of `evaluate.ts` are.

| definition | code |
|---|---|
| `Ordered`, `Scan`, `AdvanceRight`, `MaximumBurst` | `maximumBurstShare`: its sort, its two-pointer loop (a recursive function, one value per turn) and the inner loop |
| `Joined`, `TopCount`, `DaysOf`, `Failures`, `CohortFor`, `Cohort` | `cohortForV14`, `cohortFor`; the uses are positions in the list of events, and the proposed action is position 0 |
| `Signals`, `BandFor`, `DecisionFor` | the signals of `evaluatePreflight(V14)`, `bandFor(V14)`, `decisionFor` |
| `Candidates`, `Preferred`, `Best`, `Recommendation` | `recommendationFor(V14)`; `Best` is the head of the stable sort |
| `Rated`, `CoverRows` | `evaluatedCohort`, `coverAction`; `CoverDeadline` is the 60 seconds their intents allow |

Shares are compared as fractions; the header says why the doubles of the code decide the same.

`PreflightSession` drives it: `Deposit`, `Withdraw` and `Register` append an event of the current
second, `Tick` passes time, `Propose`, `PickFromCover` and `Choose` are the page's preflights (initial, from a
cell of the cover ledger, and final with the exact amount), `Recheck` is what `WAIT` advises.  Evidence is what the
chain shows; how a snapshot lags and how answers race is the subject of the modules above, where
the engine is an arbitrary function.  `Observation`, `Snapshot` and `Intent` are the types of
`engine/types.ts`, over the constants `Accounts` and `Tokens`; intents that `runSpikePreflight` refuses before it evaluates
(`src/starknet/preflight.ts:136-147`) are not proposed, where the code answers them with an error.  The account `Synthetic` of the cover, `0x1`, is
none that acts.

### SpikeIngestion

`src/starknet/ingest.ts`, one action per answer of the endpoint, with the header map `cache`
that all of them fill.

| action | code |
|---|---|
| `ReadHead`, `ReadSource`, `ReadSourceParent` | the source head and its parent; their link |
| `SearchFirst`, `SearchStep`, `ReadFrom` | `findBlockAtOrBeforeTimestamp` (unless the option gives the boundary), then the header of the boundary |
| `CollectPage`, `ReadEventHeaders` | `collectSelectorEvents` query by query and page by page, then the headers the events need and `decodePoolEvent` |
| `ReadHeadAgain`, `ReadRpcHead`, `ReadRpcHeadParent` | the newest head and its parent |
| `RevalidateSource` | the source header once more |
| `Evaluate` | `validatePublicSnapshot`, check by check in its order, at a wall clock's reading |
| `RpcFails` | any call: transport, timeout, malformed answer |
| `ChainGrows`, `ChainReorgs` | between any two calls |

A block's timestamp depends on its number alone, also across branches: the order of timestamps, which
`freshness.ts:170-178` checks, then always holds, and a bisection that a reorg interrupts meets other blocks but not
other times.

`orphaned` and `returned` remember which blocks reorgs removed and whether one of them came back.

### ApiService

Requests share nothing but the database, so one is followed at a time, step by step, while the
indexer's transactions and the clock go on between its steps.

| variable | code |
|---|---|
| `model`, `status`, `lastError`, `active`, `stored` | the row of `indexer_state` and the `snapshots` table |
| `server` | the web application (a store per request) or the standalone process (`scripts/preflight-api.ts`, one store) |
| `stateRead`, `candidate`, `latest`, `redundant` | locals of `buildOperationalHealthReport` |
| `intent`, `now` | what the client sent; the time read by the handler |
| `seen` | history: what was served at each moment since the request began |

| action | code |
|---|---|
| `Initialise`, `BeginSync`, `Publish`, `Fail`, `BeginReorg`, `Rollback`, `Reset` | the indexer's transactions, as far as this row is concerned (`CanonicalStore` has all of them) |
| `StartServer`, `StopServer`, `OpenStore` | opening a store: no database yet, a schema without its row, or a row of another version |
| `ReadState`, `ReadActive`, `ReadLatest`, `Report` | the health report: three reads, then the clock |
| `Accept`, `Load` | `POST /api/preflight`: parse, skew, then `loadCompleteSnapshot` and the checks before the engine |
| `StartBootstrap`, `LoadBootstrap` | `loadWebBootstrap`: the clock first, then the snapshot |

One block a second makes a block's number its timestamp, and a snapshot is the block it is
indexed through.  The two provider rows are one answer, both healthy and recent or not; what writes
them is `RpcFailover`.

### Seeded faults

Operators whose comment begins with "Seeded fault" (`RollbackKeepingHeaders`,
`RetainShortWindow`, ...) are not used by the specification.  Each is a plausible
bug in the operator below it and is substituted for it to confirm that a property
would notice.

## 3. Runs

| run | cfg | what it asks |
|---|---|---|
| `indexer_safety` | `MCIndexerSafety.cfg` | chain of at most 4, one reorg at any await, one fault or kill anywhere: `TypeOK`, `ServedIsBacked`, `StoreIsOneChain`, `DenseWhenComplete`, `RecoversToForkPoint`, and the refinement `ServesOneHistory` |
| `indexer_exact` | `MCIndexerExact.cfg` | two model versions with different selectors, horizons that move both ways, two reorgs between attempts, two faults or kills: `IndexIsExact` and again `ServedIsBacked` |
| `indexer_converges` | `MCIndexerConverges.cfg` | two reorgs at any await, one fault or kill, a horizon that moves on, then the chain grows to its bound: `Converges`, and again `StoreIsOneChain` |
| `supervisor` | `MCSupervisor.cfg` | two providers that change while they are probed, a stop at any await: `TypeOK`, `HandedOutIsSound`, `NeverSleepsStopping`, `StopsEventually`, `Recovers` |
| `signing_waits` | `MCSigningWaits.cfg` | deposits by a user who waits for the wallet, two snapshots, edits, refreshes and animations anywhere: `TypeOK`, `WalletGetsWhatIsShown`, `ArtifactBindsItsEvidence`, `AcknowledgementIsOfThePlan` |
| `signing_overlaps` | `MCSigningOverlaps.cfg` | deposits and withdrawals by a user who acts at any time, evidence that expires: `ProgressHasARequest`, `NoUnbackedCall` |
| `preflight_session` | `MCPreflight.cfg` | all mixes of usage patterns of three amounts, for deposits and withdrawals, both model versions, one more event at any time: `BurstIsTheBusiestWindow`, `VerdictIsReplayable`, `OrderIsIrrelevant`, `RecommendationIsClosest`, `RecommendedDepositIsAllowed`, `HealthyHasAPast`, `CoverHoldsForNewcomers`, `WaitingAloneDoesNotHeal`, `TypeOK` |
| `spike_ingestion` | `MCSpike.cfg` | growth at will and one reorg between any two calls, every cut into pages, with and without the option: `AcceptedIsExact`, `RefusesOnlyAfterReorg`, `BoundaryIsTight`, `Completes`, `TypeOK` |
| `api_service` | `MCApi.cfg` | all requests of both servers against an indexer of two versions that is killed: `ReadyMeansPreflight`, `AvailableIsBacked`, `NoFalseAlarm`, `DeadIndexerIsNoticed`, `TypeOK` |
| `event_missed_in_reorg` | `MCIndexerMissedEvent.cfg` | violation: a published range lacks an event its blocks carry |
| `source_reorged` | `MCIndexerDeepReorg.cfg` | violation: no replay when the source block itself is orphaned |
| `signing_stale_simulation` | `MCSigningStale.cfg` | violation: the page shows one plan and submits another |

**Bounds.**  `MaxHeight`, `MaxReverts`, `MaxFaults` are the only caps and each is a
guard of one environment action.  `Window = 3` with four heights makes the window
start both at the source and above it, so its off-by-one shows; `MaxRange = 2`
in the exact and liveness runs makes a backfill take several ranges, so a
kill or a reorg falls between two commits; two reverts give a reorg during the
recovery from a reorg; `MaxHistory = 2` (1 in the liveness run) makes the third publication evict.
`Finalized = 0` lets a reorg reach below the source block where that matters.
In the supervisor, `MaxChanges` caps how often an endpoint changes; its intervals differ
from its backoffs, so that a suppression runs out before, at and after the end of a
sleep.  On the signing page six requests are a full deposit (connect, check, final check,
simulation, submission with its receipt) and one more, a refresh or a second
check, that overlaps with any part of it; two in flight at once are enough for every pair
to race.  `MaximumAge = 0` with one tick makes the evidence expire at every step.  Accounts are
symmetric: no constant tells them apart, and no liveness is checked there.

In the preflight runs the windows are 8 ticks (30 days), 2 (24 hours, and a calendar day) and 1 (the 60 and 30
minutes), and the thresholds of S5 are 1 use, 2 addresses and 2 days instead of 5, 3 and 7;
shares are the code's.  A standing cohort then takes three uses, so every failure of S5, every tie between two
recommended amounts and both ends of every window occur.  `RowLimit = 2` of three
amounts truncates the cover.  The patterns are listed in `MCPreflight`; two of the amounts are
round, two deviate equally from the proposal 3 and differently from the proposal 2.

`spike_ingestion` has five blocks whose timestamps come in equal pairs (0, 1, 3) around the required
time 1, so that the bisection meets equality and a gap; one reorg, which may fall between any
two calls and remove anything but the first block; an option above the boundary, at it, or none;
`MaxSourceAge = MaxIndexLag = 2` with wall clocks 1, 3 and 9, behind, within and beyond.
It has some 3 million states.

`api_service` has a clock of five readings, and an indexer killed at any moment up to the second of
them; `MaxSourceAge = MaxSkew = 1` are both reached and exceeded, by snapshots, by the client's
date and by both together.  Three error codes stand for the three ways health treats one:
transient, schema, any other.  Its Init has an empty database, so every row is one the
indexer's transactions can produce.

Deadlock is unchecked where the system stops: `run()` ends after a stop, a bounded page
has no request left, an ingestion is done, and the clock of the API run ends.

**Preconditions that are findings in disguise.**  `indexer_exact` has
`ReorgMidSync = FALSE`: with a reorg inside an attempt `IndexIsExact` fails, which is
what `event_missed_in_reorg` shows.  `indexer_converges` has both its horizons at or below `Finalized = 2`, so a
source block never reorganises: otherwise it fails as `source_reorged` shows.
`StoreIsOneChain` is checked twice: in `indexer_safety` with one horizon and a source that can be orphaned, and in
`indexer_converges` with a horizon that moves on over final blocks, as the supervisor's does.  With a horizon that moves to
an *earlier* time (`HorizonMovesBack`) it fails: the process dies between `retainHeaders` and `initializeSource`, the
next one retains a second, earlier source block beside the first, and a later
reorg orphans the first while nothing looks at it.  So it does with two horizons of which the blocks are not
final.  The theorems about these properties (section 5) name such
preconditions as hypotheses.  `ServedIsBacked` is
unaffected and is proved without any such precondition.
`signing_waits` has `WaitsForWallet = TRUE`: the user leaves the page alone while the wallet
connects or simulates, and simulates only when nothing else is pending.  Without it
`WalletGetsWhatIsShown` fails in two ways: the one of `signing_stale_simulation`, and with a wallet that has
two accounts, when the user edits during a slow connection, connects again, plans
for the account of the second answer, and the first answer then replaces it.
`NoUnbackedCall`, `ProgressHasARequest` and, by its theorem, `AcknowledgementIsOfThePlan` need no such user.
`ProgressHasARequest` leaves `CONNECTING` out, because the code does leave the page there (section 4).
`AcceptedIsExact` speaks of runs in which no orphaned block became canonical again.
Otherwise the source head can disappear, events be paged while it is gone, and the second reading find
it back in its place: TLC finds this when the condition is dropped.  A chain hardly does this; an endpoint that balances over nodes of different height shows it to its client.

**Fairness.**  `FairSpec` has weak fairness on the sync steps taken together (the
supervisor's loop starts the next attempt after every outcome, and each await ends
in an answer or in a timeout, which is a failure), on `Restart` (the process
manager restarts a dead process) and on `ChainGrows` up to the bound (a chain
produces blocks).  There is none on faults, crashes or reorgs, which are bounded.
The supervisor's specification has weak fairness on `RunStep`, all steps of its loop and of the
selection it awaits (an RPC call ends in an answer or a timeout), and on `Tick`, the passing of
time; none on the stop request or on changes of the endpoints.  `StopsEventually` speaks of a run that
was asked to stop; `Recovers` of one in which a provider stays good.  The ingestion has weak fairness on
its answers, because every request of `rpc.ts` ends in an answer, an error or its timeout, and none on
the chain, which may grow and reorganise for ever; the API on the clock alone: `DeadIndexerIsNoticed`
expects nothing of an indexer, and nothing of clients.  No liveness is claimed of the
signing page, whose answers depend on a wallet and its user.

## 4. Findings

1. `event_missed_in_reorg`: events of a range are paged before its headers are
   fetched.  A reorg in between can add an event to a block that had none;
   everything checked afterwards is on the new branch, and the range is committed
   and published without it.
2. `source_reorged`: `recoverReorg` looks only at the cursor.  A source block
   orphaned before the first commit is never cleared; every later attempt fails on
   its retained header.
3. `signing_stale_simulation`: `simulate` (`signing-workflow.tsx:538-557`) stores whatever simulation
   comes back.  If another amount was planned meanwhile, the confirmation panel shows the new
   plan while "Confirm in wallet" executes the old one.  The later comparison with the receipt
   notices, after the deposit.  No edit is needed: after a click on the recommended amount the proposed one can still be
   clicked until the amount has moved, which makes two plans of one answer.

Also noticed while reading, without a run of their own:

- `docs/INDEXER.md:62` and `:119` say a snapshot is served only in `COMPLETE` and never after a failure;
  `loadCompleteSnapshotRow` (`store.ts:1120-1127`) also serves it in `SYNCING` and after
  `RPC_UNAVAILABLE`.  `docs/OPERATIONS.md:28-32` describes what the code does.
- For a withdrawal the page calls the recommended amount "Lower-linkage permitted amount"
  (`signing-workflow.tsx:932`).  `recommendationForV14` (`evaluate.ts:440-478`) looks at the cohort alone; an amount that
  was deposited recently fires S2 and S3 where the proposal fired neither.
  `RecommendedDepositIsAllowed` shows that deposits have no such problem.
- `docs/HEALTH.md:17-20` reads as if `DEGRADED` came with a current snapshot and 200; the report combines it with
  503 and `STALE_SNAPSHOT` as well, and a monitor should look at the code of the answer.
- `docs/PREFLIGHT_API.md:48` says a client cannot backdate its evaluation.  It can by the allowed skew, so a
  snapshot up to that much older than the maximum age is rated; `AvailableIsBacked` states the sum.
- `connectWallet` (`signing-workflow.tsx:307-323`) has no `try`.  Discovery rejects where `wallet.ts` has none either (the list of
  versions, 110 and 139; an account without an address, 156; the store of wallets, 196): the page then stays in
  `CONNECTING` with its button disabled and nothing in flight, until an edit or a refresh resets it.
- The standalone server compares model versions only in a preflight.  After an indexer of another version has
  replaced the database, its health stays ready while every preflight answers `MODEL_VERSION_MISMATCH`;
  hence the condition on the version in `ReadyMeansPreflight`.
- `docs/OPERATIONS.md` has the API open the database for every request; the standalone server opens it once.
- A persisted `UNKNOWN_POOL` would be answered with 400, as if the client were at fault.
- The page gives every intent a deadline of 600 seconds (`signing-workflow.tsx:351`), and `WAIT`
  needs 24 hours, so only other clients of the API can ever be told to wait.
- `useCutoutEvidence` (`guard-react.tsx:51`) sets whatever answer arrives, so the answer to an earlier check, or to one
  that was reset, replaces a newer state.
- The schema migration (`store.ts:410-433`) adds columns one statement at a time and records the version last; after a
  kill in between every later start fails on a duplicate column.

## 5. Proofs

All theorems hold for every value of the constants that satisfies the assumptions named in the
modules.

`IndexerProofs.tla`, from `ChainAssumption`, `StoreAssumption` and `IndexerAssumption`:

- `TypeCorrect == Spec => []TypeOK`.  `TypeInv` strengthens `TypeOK` by what the process
  knows at each place of `pc` (`PlaceOK`): while the source is being established there
  is a boundary and no source, inside a range there is a source, while a snapshot is
  confirmed there is a cursor, and a cursor never exists without a source.
- `Backed == Spec => []ServedIsBacked`.  `ServedIsBacked` is not inductive: a commit or a
  rollback also needs to know where the stored rows come from.  `BackedInv` adds
  `RowsInv` (one header per number; the cursor is retained; no event above the cursor;
  while a snapshot is active its source header is retained), `RangeOK` (every event
  found lies in the range in flight, which starts right above the cursor, so none can
  fall below the head of the active snapshot) and `FetchedOK` (the headers of the range
  were read from one chain, and the one at the end of the range has the cursor as an
  ancestor).  The delicate part is `SourceBelowCursor`: `FetchHeaders` skips its link
  check for a range that starts at the source, so the proof needs that a rollback below
  the source removes the source header, hence an active snapshot excludes that case.
  Each transaction is one lemma and each action one step of `NextBacked`.

`StoreProofs.tla`:

- `Implements == Spec => ServesOneHistory`.  Every step of the indexer is at most one store transaction, and
  each transaction maps to `Publish`, `Withdraw` or a stutter.  Two facts carry it: a row that may be served is
  served whenever its status allows (`ActiveAllowed`), so a change of status is never a silent replacement; and the
  snapshot that `persistCompleteSnapshot` activates ends at the cursor, which by `ServedIsBacked` and the rows
  of the store continues the active one.
- `Dense == Spec => []DenseWhenComplete`, without a hypothesis.  `DenseInv` adds to `BackedInv` that every stored
  snapshot has its window retained (`DenseSnapshots`: a rollback drops the snapshots above the ancestor and no header
  below it) and that the window `retainDenseCursorWindow` stored is still there when the snapshot is published
  (`DensePlaces`).
- `Recovery == HorizonsAreFinal /\ Spec => RecoversToForkPoint`.  The recovery walks the retained headers
  down to the first that is still canonical.  By density every height of the window has a header and by `ChainInv`
  exactly one, the cursor's ancestor; so the first match is the fork point itself (`ForkIsHighest`), and no
  match is missed (`ForkIsSearched`).
- `Exact == HorizonsAreFinal /\ ReorgMidSync = FALSE /\ Spec => []IndexIsExact`.  `ExactInv` adds that the events found
  so far are those of the blocks of the range on the chain (`FoundExact`).
- `OneChain == HorizonsAreFinal /\ ~HorizonMovesBack /\ Spec => []StoreIsOneChain`.  `OneChainInv` adds that nothing
  retained lies above the cursor or the source, and what a killed attempt retained before there was a source lies at or below
  the latest horizon (`RowsBelow`), so the boundary the next attempt establishes, whose horizon is no earlier, is not below it
  (`PlacesBelow`).  The supervisor computes the horizon as its clock less fixed spans, so the hypothesis says that this
  clock is not set back and the buffer not lengthened; `indexer_exact` also has earlier horizons.

The last three share `ChainInv`: below the boundary no reorg reaches, so every retained row that is not on the
cursor's branch would have to be there from before the boundary.  `HorizonsAreFinal` (every horizon is at or below
the finalised height) is what production has: the horizon is weeks behind the head and blocks that old are not
reorganised (section 3).  Without it the theorems are false, and TLC says so: with
`Horizons = {1, 3}`, `Finalized = 1` and `MaxHeight = 4` a source orphaned between two attempts leaves a row that the
replay takes for its own and `IndexIsExact` fails; with one horizon above `Finalized` so does
`StoreIsOneChain`; and when the horizon moves back, a second boundary below the first leaves the header of the first above
the cursor, hence `~HorizonMovesBack`.  The runs `indexer_safety` and `indexer_exact` use small chains on which no block
need be final: there the properties hold for the bound at hand, where the theorems do not apply.

`SupervisorProofs.tla`: `SoundHandOut == Spec => []HandedOutIsSound` (with `SelectionInv`: the published states of
the last attempt are overwritten before they are read), `StopIsNotSlept == Spec => []NeverSleepsStopping`
and `SupervisorTypes == Spec => []TypeOK`, which bounds backoff and timers for every interval.

`SigningProofs.tla`, from `GuardAssumption` (the engine is some function), `WorkflowAssumption` and `RequestAssumption`
(`null` is not a request):

- `SigningTypes == Spec => []TypeOK`, one lemma per action.
- `NoCallUnbacked == Spec => NoUnbackedCall`.  `EvidenceInv` says that all evidence on the page or captured
  by a pending handler was published; the rest is what `authorizeSubmission` checks again at the moment of the call.
- `WaitingUserGetsWhatIsShown == WaitsForWallet /\ Spec => WalletGetsWhatIsShown`, and
  `WaitingUserArtifact` for `ArtifactBindsItsEvidence`.  `WaitsInv` has five parts: at most one connection is pending, and
  only while no account is known (`ConnectInv`), so everything decided is for the connected account
  (`AccountInv`); a simulation is pending alone and for the plan on the page (`SimulationInv`); hence a page
  ready for confirmation shows the plan it simulated (`ReadyInv`), and what was sent is what its receipt
  is compared with (`SentInv`).  The counterexample of finding 3 breaks `SimulationInv`.
- `AcknowledgedPlan == Spec => AcknowledgementIsOfThePlan` and
  `ProgressIsAwaited == Spec => []ProgressHasARequest`, without an assumption on the user.  The first is carried by
  the page's shape (an acknowledgement is given only on a confirmation panel, and every answer that brings or drops
  a plan clears it); the second says nothing of `CONNECTING`.

`BlockProofs.tla` has the lemmas on ancestry that both histories need: ancestors of one block at one number
agree, ancestry is transitive, and appending a block keeps the ancestors.

`SpikeProofs.tla`, from `ChainAssumption` and `SpikeAssumption`.  The invariant `FullInv` has five parts:

- `SpikeInv`: types, which locals are known at each place, and how the numbers relate.  `SpikeTypes` follows.
- `OrphanOK`: the source head is canonical or a reorg removed it, and what was removed is not canonical
  unless it came back.
- `HistoryInv`: while the source head is canonical, everything read so far, every page with nothing missing
  in it included, agrees with its history.  This is not an invariant of what was *read* but of what
  is true as long as the source head is there; the second reading then turns it into a
  fact that no later reorg can touch.  `AcceptedSnapshotsAreExact` follows.
- `NoReorgInv`: without a reorg every header in the map is canonical, so an update of the map never replaces
  one and no comparison can fail.  `GrowthIsNotRefused` follows.
- `BoundaryInv`: the bracket of the bisection: the block at `low` is not later than the required time, and every
  block above `high` is.  `SearchIsTight` follows.

`ApiProofs.tla`, from `ApiAssumption` and `NoneAssumption`.  The invariant `ApiInv` relates what a request holds to
what was served since it began: what is served now is in `seen` (`SeenInv`); the row read first allowed
serving, or something was not served (`HealthInv`: a report whose row and snapshot contradict each
other has seen a withdrawal); an accepted intent was close to the clock (`IntentInv`); a bootstrap remembers a
moment at its own `now` (`BootstrapInv`).  `ApiTypes`, `ReadyIsServed`, `DecisionsAreBacked` and
`NoAlarmWhileServing` follow for every maximum age, skew and set of error codes.

`PreflightProofs.tla`, from `EngineAssumption` and `SessionAssumption`, covers all nine properties of
`preflight_session`.  Two steps carry most of it.

- *An answer depends on what was there before it, in no particular order.*  `Shuffles` says that a renaming of
  positions takes the events of one list before a moment to those of another.  Cardinalities, actors, days and the sorted
  timestamps survive a renaming (`FailuresRenamed`, `BurstRenamed`), hence cohorts, signals and candidates.
  The recommended amount does too, though it is the head of a sort, because `Preferred` is a strict
  total order on amounts (`PreferredOrders`): two healthy candidates no other is preferred to have the same
  amount.  So `EvaluateSame`: two snapshots with the same past (`SamePast`) give the same answer.  Appending an event of the current
  second keeps the past of every earlier evaluation, which makes `VerdictInv` (types and `VerdictIsReplayable`)
  inductive: `Replayable`.  Reversing is a renaming: `OrderIrrelevant`.
- *What the scan computes.*  The k-th timestamp in order is at most t exactly when at least k timestamps are
  (`OrderedRanks`).  With that the inner loop stops at a closed form, one after the number of timestamps within a
  window of the l-th (`AdvanceStops`), the closed form satisfies the recursion of `Scan`, and only one function
  does, by the least turn at which two would differ (`ScanIsUnique`).  The number of times in a window is a difference of two
  such counts, so no window holds more than the maximum and one holds that many (`BurstIsMaximum`):
  `BurstIsBusiest`.  A cohort all of whose uses are live lies in one window, so its burst share is 1:
  `HealthyWasUsedBefore`.

A cohort of the user alone is always thin, so what is healthy is in live use (`HealthyIsUsed`).  Hence
the code, which considers only amounts in live use, misses no permitted amount (`ClosestRecommended`), a wait
during which nobody uses the amount heals nothing (`WaitingDoesNotHeal`), and a recommended deposit fires neither
`S1` nor `S5` nor `S7`, which leaves `S4` and thereby an ALLOW (`DepositAllowed`; this needs the cohort window to lie inside
the observation window, which `EngineAssumption` says and `constants.ts` has).  `CoverHolds`: an account that is
not among the live users adds one address and one use of its own, whoever it is (`FailuresOfNewcomers`).  It needs
that `Synthetic` is no account that acts; an event from the address `0x1` could change the cover's rows.
`SessionTypes` needs only `TypeInv`, types and that an exact intent permits no other amount.

Only model-checked: liveness (`Converges`, `StopsEventually`, `Recovers`, `Completes`, `DeadIndexerIsNoticed`), for which
the provers have no rule for `WF` and `ENABLED`.  Every safety property that a passing run checks, invariants, action
properties and the refinement, is the statement of a theorem; those of `StoreProofs` and `SigningProofs` whose
hypotheses are named above hold under them.  The violated properties of the three other runs are findings.

## 6. Plan

Done: the store and the indexer, the refinement of `SnapshotService` with its proof, failover and supervisor,
guard and signing page with their proofs, engine and cover with their proofs, the one-shot ingestion with the
validation of its snapshot and the API's answers with their proofs.  Next, in this order:

1. The refinement of the row in `ApiService` by `CanonicalStore`, so that both are one model of
   one row.
2. The parts listed as partly modelled: provider rows with the time of their checks, clock skew on the signing page,
   provenance of ingestion batches.

Not modelled, and not planned:

- HTTP framing, size limits of requests, JSON and felt parsing, canonical JSON and hashing: pure conversions
  of one value; their failures are failures of the call in every module.
- ABI review (`abi.ts`) and the decoding of a single event (`events.ts`): comparisons with fixed values, no state; the
  one check that relates an event to another call, that its block is the one of the header
  kept, is in `SpikeIngestion`.
- Migration of older database schemas: run once, a fixed list of statements (see the note in section 4).
- The counters of `metrics.ts`, which nothing reads back but the display.
- The published guard packages: re-exports, a panel that renders its argument, and a hook whose host is not in
  the repository (see the note in section 4).
- Rendering and animation (`motion-system.ts` and the rest of the web shell, but for the delay `animateAmountFlip` puts
  into two handlers), backup and smoke scripts: input and output without protocol state.
