# A verification project for Real-Time-Blockchain-Analytics

TLA+ models of the stateful core of the repository: the Snowflake control
tables and the pipelines that commit their progress to them last. TLC checks
every model on a small instance, and TLAPS proves the safety properties
for every value of the constants. Paths below are relative to the repository.

## The system

The platform ingests Uniswap, Aave and Chainlink data into an object store
(Bronze, then Silver), loads Silver into Snowflake RAW with COPY and MERGE, and
builds facts and marts with dbt. Three *forward* pipelines (Aave, Chainlink,
Uniswap) process one bounded interval per run and keep their durable progress in
the schema CONTROL.

| Component | State it keeps | Operations | What makes it correct |
|---|---|---|---|
| Watermark table (`warehouse/watermarks.py`, `orchestration/watermark.py`) | one row per identity in PIPELINE_WATERMARKS | get, initialize(_many), advance(_many), the `commit_*` services | related rows appear together and move forward together, whoever races |
| Aave forward pipeline (`orchestration/run_aave_forward.py`, `backfill/run_aave_incremental.py`) | Bronze batches, Silver increments, landing and RAW tables, facts, watermark | plan, capture, Silver, load, dbt, commit | the watermark never runs ahead of the facts; nothing planned is lost |
| Completed-range ledger (`warehouse/completed_ranges.py`) | PIPELINE_COMPLETED_RANGES | record_ranges, list_ranges | no committed block without evidence; another attempt's evidence, and a doubled one, is refused |
| Pipeline lease (`warehouse/leases.py`) | one pre-seeded row of PIPELINE_RUN_LEASES | acquire, renew, release | one writer; a stale handle changes nothing |
| Uniswap recovery (`orchestration/run_uniswap_recovery.py`, `backfill/run_uniswap_incremental.py`) | recovery batches with markers, Silver increments, watermark tagged with its source contract | as the Aave pipeline, under the lease | commit-last, no event twice beside the live stream |
| Chainlink forward (`orchestration/chainlink_forward.py`, `run_chainlink_forward.py`) | round cursors per feed and a global block | as the Aave pipeline, an atomic set of watermarks | no round is skipped, phases are crossed in order |
| Bounded Aave backfill (`orchestration/backfill.py`, `backfill/run_aave_v3.py`) | historical Bronze, a backwards checkpoint, a quarantine | search a requested window, or go on from the checkpoint | what a checkpoint has passed is stored or reported |
| Chainlink backfill and bootstrap (`backfill/run_chainlink.py`, `run_chainlink_bootstrap_batches.py`) | historical Bronze, checkpoints per phase, a quarantine, bootstrap batches | extract, bootstrap in batches | a transient failure holds the checkpoint, a final one is recorded |
| Correction replay (`orchestration/correction_replay.py`) | none (audit) | fetch afresh, compare, report | a finding has one of the known causes; records retained meanwhile, halved ranges and bad logs are none |
| Run observability (`warehouse/pipeline_runs.py`, `orchestration/observability.py`) | PIPELINE_RUNS | start, finish, increment_metrics | a run ends once, with the counters of its loads; failures of it never stop a pipeline |
| Freshness and alerts (`orchestration/freshness.py`, `alerts.py`, `warehouse/alert_state.py`) | one row per alert | collect, evaluate, compare_and_set, emit | incidents open, escalate and resolve once, from facts that held |
| Live producer (`producer/`) | the messages queued behind a lookup, cached timestamps, the Kafka buffer | subscribe, receive, look up, publish | no log lost or out of order while a connection lasts |
| Market-data poller (`market_data/`) | the round last published of each feed | poll, publish | a feed that fails waits for the next cycle |
| Bronze streams and local Silver (`spark/write_*_bronze.py`, `spark/build_swaps_silver.py`) | Bronze files, checkpoints, quarantine, Silver, the manifest | plan, write and commit a batch; merge new files | what is committed past is kept |
| Price enrichment (`spark/price_enrichment.py`) | enriched datasets and their quarantine | rebuild each dataset | priced as of its time; a finished build left nothing torn |
| RAW load (`warehouse/load_raw.py`, `snowflake.py`) | landing tables, RAW tables, COPY's load metadata | COPY, MERGE, mark | what is marked merged is merged, but for a dead client's late COPY |
| Gold, dbt, reference data, configuration, app, scripts | derived, cached or none | batch transformations and queries | see "Not modelled" |

The components meet in three places. The forward pipelines, the RAW loads and
dbt share the Airflow pool `warehouse_writes` (four slots; an exclusive task
takes all four). The processes share Snowflake, where a statement reads what was
committed before it began, an UPDATE keeps its table or row locked until the
transaction ends, and INSERTs take no lock. And they share the object store,
whose overwrites are not atomic.

What is hard here is never one function: it is a crash between two stores, a
retry with the same run id, a statement of a dead process that executes later,
two transactions that see each other's rows between two statements, and time
(leases, timeouts). `PROJECT.json` lists these hazards at their lines.

## The modules

| Module | Models | Role |
|---|---|---|
| `AtomicProgress` | what the watermark table promises its callers | abstract specification |
| `Watermarks` | the SELECTs, INSERTs, UPDATEs, COMMITs and ROLLBACKs of `initialize_many` and `advance_many` and the services around them | refines `AtomicProgress` |
| `AaveForward` | one Aave forward task, its retry, the ledger, the stores, the other holders of the pool | component |
| `PipelineLease` | one lease row and the processes that share it | component |
| `UniswapRecovery` | forward and bootstrap runs of the recovery, batch markers, joins with live Bronze and Silver, the source contract | component |
| `ChainlinkForward` | forward runs, from the frozen snapshot to the atomic commit | component |
| `PipelineRuns` | the run table, a forward runner with its retry, the daily DAG with its loads and callbacks | component |
| `HealthAlerts` | overlapping evaluations: report, conditions, transitions, emission | component |
| `AaveBackfill`, `ChainlinkBackfill`, `CorrectionReplay` | the bounded backfills, the bootstrap and the audit | components |
| `LogProducer` | the producer, its socket and the Kafka client | component |
| `BronzeStreams` | poller, topics, Bronze streams, local Silver and its manifest | component |
| `PriceEnrichment` | the point-in-time enrichment and its rebuild | component |
| `RawLoad` | repeated loads of one dataset, statement by statement | component |
| `MC...` | instances for TLC; `MCOperations` (run history, alerts, audit) and `MCDatasets` (backfills, live path, enrichment, load) hold several components | |
| `WatermarksProofs`, `AaveForwardProofs`, `UniswapRecoveryProofs`, `ChainlinkForwardProofs` | theorems of the module each is named for | proofs |
| `OperationsProofs` | theorems of `PipelineLease`, `PipelineRuns` and `HealthAlerts` | proofs |
| `BackfillProofs` | theorems of `AaveBackfill`, `ChainlinkBackfill` and `CorrectionReplay` | proofs |
| `DatasetsProofs` | theorems of `LogProducer`, `BronzeStreams`, `PriceEnrichment` and `RawLoad` | proofs |
| `NaturalBounds` | least and greatest elements, pieces of an interval, division and multiples, for the proofs | lemmas |

The variable `part` of the two joint instances names the component whose
behaviour is checked. Those components share no mutable state: each hands the
next only what it has stored, and the receiving model takes anything its
predecessor may have stored. So a behaviour of the instance is a behaviour of
one component, and the sum of their states is explored instead of the product.

### Watermarks

An identity is its position under `_identity_sort_key`, because both loops visit
the identities in that order. `rows[i]` is the set of committed physical rows of
an identity; a set, because two `INSERT ... WHERE NOT EXISTS` may both insert.
`writer` is the UPDATE lock. Each client has a program counter (`pc`, `next`)
with one action per SQL statement, and the variables of its Python frame: `plan`
(the values it read), `goal` (its candidates) and `hit` (the rows its
transaction updated). `Abort` is a failure at any statement. An UPDATE matches
the rows that hold the planned value (`Matching`) and goes on if there is exactly
one (`UpdateMatches`), which is all that `rowcount == 1` tells: one row of a doubled
identity may match although the identity is corrupt by then.

`CommitsOnlyItsPlan` is the subtle one. `advance_many` re-checks by its UPDATE
only the rows it changes, and skips equal candidates. Under READ COMMITTED,
another commit may come between the SELECT of a skipped row and the COMMIT. The
property holds because every commit moves the *anchor* (the global Chainlink
block), so that two overlapping commits always meet in one row. `Candidate`
states that assumption: `is_noop` excludes a plan that leaves the block where it
was. The mutant that drops it is caught. The property speaks of a usable table:
once two initializations have doubled the rows, which every later read refuses, an
UPDATE already under way may still match one of two.

### AaveForward

The events of a block are represented by the block, and each store by the set of
blocks it holds. `step` goes through `run_pipeline` and `run_forward_capture` in
order. An overwrite that dies leaves any part of the old and the new content
(`Torn`). The fetch may be cut anywhere (`Leaves`): chunks end at multiples of
the chunk size, and the adaptive fetch bisects further as the provider demands.
Evidence carries its run and its time only as *this run or an earlier one*, *this
attempt or an earlier one*, which is all `_assert_identical` can tell apart.
Between attempts the bounded backfill may replace all of Silver, or die doing so
(`RebuildSilver`, `TearRebuild`), and the daily pipeline may load and refresh.
A COMMIT whose client died may still land: the watermark's (`DetachCommit`,
`LandCommit`) and the ledger's (`DetachRanges`, `LandRanges`), for which the SELECTs
and INSERTs of `record_ranges` (`InsertRanges`) are a step apart from its COMMIT
(`CommitRanges`). A ledger COMMIT may so land after the retry's SELECT and double
a range, which later attempts refuse (`RefuseRanges`). `RunsOnItsOwnEvidence` is
what holds all the same: an attempt past the ledger has itself recorded every
block of its interval. The load's MERGE and marking are one step here, and no COPY
lands late; `RawLoad` has them apart, with the exception it finds.

### PipelineLease

One action per statement of `acquire`, one each for `renew` and `release`, which
are single UPDATEs. Processes are killed at their timeout (`Tick`), die anywhere
(`Die`), leave transactions that Snowflake ends later (`EndOrphan`) and releases
that execute later (`LateRelease`). Two of the three processes of the instance
share a run id, as two manual runs do by default.

### UniswapRecovery

One action per store of `run_pipeline` and `run_forward_capture`. A batch is a
prefix with the markers `_CONTRACT` and `_COMMITTED`; clearing, writing,
validating and sealing it are separate steps, and a writer may die within each
(`TearBatch`). `live` is Bronze as the streaming writer appends to it during the
capture, so an event may be in both or missing from both views the left-anti
join read. The source contract is read when an attempt plans; the pool metadata
may change it and an operator accept it anew at any time, also while a batch
sealed under the older one lies there, and also between the check of the
contract (`CheckContract`) and the UPDATE that commits (`CommitWatermark`). The
UPDATE compares the position only and overwrites the tag, so the acceptance is
lost; `TagIsTheCapturedContract` says that the tag still tells under which
contract the last interval was captured. Bootstrap runs share the batches and
the ledger, look once whether the watermark exists and then go through their
batches; the operator's initialization may fall into one. `RecordRanges` is one
step here, and its COMMIT does not land late: `AaveForward` has that, and the
watermark's late COMMIT too. The runs have one worker, with which the refused
branch of `CommitWatermark` (a row moved since the plan) is never taken; the
conflict of two writers is the subject of `Watermarks`.

### ChainlinkForward

Each run freezes one safe block and reads every feed at it. A round is a pair of
phase and aggregator round; `LateRound` lets a retired aggregator answer more
rounds to a retry than to the first attempt, because the end of a past phase is
read at no block. Batches are cut from what is missing, so a retry cuts them
elsewhere. The commit of the block and all the cursors is one step here; that it
is atomic is what `Watermarks` shows. `OverLimitIsFinal` states a limit of the
design: over `max_rounds_per_run` a plan is refused and the backlog only grows.

### PipelineRuns and HealthAlerts

Writes of the run table are best effort, so each may be lost (`lossy` records
that for the property only). The daily DAG's failure callback races its loads,
which are still dying, and its success command. An evaluation reads the head,
then the watermark, then the last run; takes each alert through
compare-and-set with retries; and emits what it persisted at the end. A second
evaluation runs beside it. A report whose refresh time lies in the future
(`age_seconds` raises) is one of the outcomes of `Collect`.

### AaveBackfill, ChainlinkBackfill and CorrectionReplay

A backfill scans, and then replaces three datasets one after the other; `Kill`
actions fall between and within the replacements, and a replaced dataset may be
torn or gone. The properties exclude the states after a loss the code makes no attempt
to repair (`aaveTorn`, `roundsTorn`): events are gone while the
checkpoint stays. A checkpoint dataset that lost its row (`NoRow`) makes every later
run raise; one that is gone (`NoCheckpoint`) makes the next run start anew. A log that
does not decode is quarantined without a timestamp lookup, and so does not wait
for the budget (`RefuseLog`).

The replay fetches, then loads what is retained, while the pipelines go on;
ranges are halved when the provider refuses them. The answer to one range may
leave out events without any issue (`omitted`), which the code takes for
complete. Uniswap's source is asked for the pools verified at the start of the
run, which grow (`VerifyPool`), and what is retained is of every pool
(`foreign`); a block may gain an event while the run is under way (`gained`).
`omitted` and `gained` are history variables. `FindingsHaveACause` says that the
three and the chain's own changes are the only things an audit reports.

### LogProducer and BronzeStreams

`pending` is `_pending_messages`. A lookup (`Await`) reads the same socket as
the loop and queues what is not its answer; `Receive` takes the queue first.
`PublishedInOrder` compares all that a connection has delivered with what is
published or on its way, so that it speaks of lost logs and not only of their order.
The Kafka client delivers from its own buffer; a delivery may be repeated or
given up, which nobody is told, since `produce` gets no callback. The streams
are modelled by offsets: a planned batch survives a kill with its offsets and
is written again. The parquet sink lists its files in its own log, but local
Silver reads the directory, so a torn file (`whole = FALSE`) is visible and
makes the build raise. That fails `build_silver_swaps` until the file is gone;
it never loses a row, which is what `CommittedIsKept` says.

### PriceEnrichment and RawLoad

A build goes through all datasets in order and passes over one that has no
source when its turn comes (`SkipDataset`). `Status` and `Candidates` follow the
order of the `when` clauses and the join; a raw amount is the set of the
integers it denotes, so the scaling (`Normalized`) is the exact product. An
amount that fits DECIMAL(38,18) but not the calculation type raises under the
pinned Spark, whose casts are ANSI by default, and fails the whole build,
although the code names the status `invalid_amount` for it (`Raises`,
`FailDataset`). The writer replaces an output in place on an object store, and
by two renames on a disk: `OverwriteOutput` and `WriteOutput` are two steps, and
a kill between them leaves any part of the old or of the new rows, or nothing.
The output stays so until a build reaches that dataset again.
`PricedPointInTime` therefore speaks of the rows there are, and
`FinishedBuildsAreWhole` of the whole outputs: a build that ends without a
failure has left every event of each in the output or with the rejected.

In `RawLoad`, COPY commits alone; MERGE and the marking UPDATE are one
transaction, each reading what was committed before it began. The client may die
anywhere, with its COPY (`LateCopy`) or its COMMIT under way, either of which
Snowflake may still execute. A late COPY that falls between the MERGE and the
UPDATE of the retry adds rows that are marked and never merged; the history
variable `between` keeps them, and `MarkedIsMerged` speaks of all other rows.
`PoolKeepsApart` states what the deployment
provides: the tasks that load one dataset never run at once. Without it
(`FALSE`) `MarkedIsMerged` fails: a load started by hand beside a DAG's has its
copied rows marked by the other, unmerged.

## The runs

| Run | Expected | Question |
|---|---|---|
| `watermarks` | pass | Do two clients with two identities implement one atomic, monotonic vector? Does every call return? |
| `aave_forward` | pass | Is what is committed served and evidenced, whatever dies or lands late? |
| `aave_forward_progress` | pass | Is a planned interval committed or its attempt failed? |
| `aave_ledger_retry` | violation | Is reprocessing a recorded range a no-op, as the docs say? |
| `pipeline_lease` | pass | Can a holder lose its lease, or two handles be valid at once? Does `acquire` return? |
| `lease_exclusion` | violation | Is at most one recovery at work, as the docs say? |
| `uniswap_recovery` | pass | Do markers, ledger and watermark only speak of what is held, and does the watermark name the contract it was captured under? |
| `uniswap_silver` | violation | Does the watermark advance only after Silver succeeded, as the code says? |
| `chainlink_forward` | pass | Are block and cursors one snapshot whose rounds are captured once and loaded? |
| `chainlink_two_runs` | violation | Is marker-backed output never deleted, as the code says? |
| `operations` | pass | Is a run's row final and its count right? Are alert events emitted once, on facts that held? What can a finding of the audit come from? |
| `datasets` | pass | Is what a checkpoint passed stored or reported? From the socket to RAW: is anything lost, reordered, mispriced or marked unmerged? Does a finished build repair what kills tore? |

Bounds. `watermarks`: two clients, two identities and the values 0 to 2 give
concurrent initializations, a commit that skips a row, and two commits in a row.
Larger instances add no new kind of interleaving: conflicts are between two
transactions over one or two rows, and the theorems cover the rest.
`aave_forward`: three blocks, two per run, chunks of two give capped and
uncapped intervals, intervals of two leaves or one, and a second run after a
failed one. `aave_forward_progress` has two blocks, one run's interval: liveness
is decided within an attempt and its retry, which two blocks already give with
both of their cuts. `pipeline_lease`: a TTL of 2 and the times 0 to 4 let a
lease expire twice; no call starts once the version is 2 (`MaxVersion`), which
still leaves a takeover, a renewal and stale handles from before both.
`uniswap_recovery`: three blocks, at most two per run, one malformed block, one
streamed, two contracts. `chainlink_forward`: two feeds, two phases, rounds 1 to
3, three blocks, one late round; a feed changes its phase, a round is malformed,
one is out of Silver's range. `operations`: two runs of two attempts, two loads
and three faults; two evaluators, three evaluations and two changes beside them,
with both thresholds in reach; three audited blocks, intervals of two, one
reorganization, one advance of the watermark and one block whose event may be of
an unverified pool (`McForeignBlocks`), so that each cause of a finding occurs
alone and with another. `datasets`: four Aave blocks in chunks of two; two phases
of two rounds; one kill of each backfill, because a second only starts the same
recovery again; five logs over two
connections with a cache of one block and a buffer of two; topics of three
records with four files and two kills; two datasets, five events, four prices,
of which two share their time; two attempts, three starts and four stage files,
which give a death at each statement followed by two more loads.

Fairness. A client inside a call executes its next statement, and Snowflake
grants a lock to waiting statements in turn: weak fairness of the steps and
strong fairness of the steps that wait for the lock. The holder of the Airflow
pool keeps executing (`WF_vars(Work)`), and so does a recovery that has begun
(`WF_vars(Proceed(w))`). Nothing has to begin, to fail, to be
scheduled, or to be released in time. Deadlock checking is off where the system
may stop: the chain and the bounded clock end.

### What the violations show

* `aave_ledger_retry`: `docs/watermark_foundation.md` (line 127) calls
  reprocessing an exact completed range a safe no-op in the ledger. The ledger
  compares `completed_at`, and every attempt takes a new one. An attempt that
  records its ranges and dies before the watermark commit makes its own retry
  fail with `ConflictingCompletedRangeEvidence`, and every later run too, until
  the leaves differ. The passing run shows that this costs progress, never
  correctness.
* `lease_exclusion`: the recovery task has three hours and its lease two, with no
  heartbeat and no check before the commit. The theorem `OverlapsFollowExpiry`
  says, whatever the timeouts, what is left: of two processes at work the earlier
  one is past the expiry it was granted and can no longer change the row.
* `uniswap_silver`: `orchestration/uniswap_recovery.py` (line 133) advances
  coverage "only after every downstream boundary succeeds", but an existing
  increment path counts as a complete increment. A run that died while writing it
  leaves some files; a later run whose fetch was split differently takes them for
  the whole and commits.
* `chainlink_two_runs`: `backfill/chainlink_storage.py` (line 597) says that
  marker-backed output is never deleted. The marker is looked for before the
  prefix is deleted, and a run started by hand takes no lease.

### Behaviour the models record and no property claims

* Aave backfill: an explicit `--to-block` below the checkpoint makes the
  checkpoint jump over blocks nobody scanned; after block 0 it is -1, and resumed
  runs raise. Two backfills started by hand overwrite each other's datasets.
* A kill within a dataset's replacement loses historical Bronze while the
  checkpoint stays (`spark/parquet.py`, lines 88 and 106); if it empties the
  checkpoint's dataset, every later run raises (`backfill/storage.py`, line 250).
* Ledger: two rows of one range, left by a late COMMIT, make every later attempt
  with that leaf fail; nothing removes one of them.
* Alerts: a crash or an exhausted compare-and-set between persisting and
  emitting loses the notifications (`run_alert_evaluation.py`); no evaluation
  emits them again.
* Chainlink: one malformed round refuses its whole RPC batch; a kill between
  checkpoints and quarantine, and the bootstrap's clearing, lose audit rows.
* Replay: of Chainlink only fresh identities are loaded, so nothing can be
  found missing; one undecodable log makes every audit of its interval incomplete.
* Uniswap: an operator who re-accepts another contract between a recovery's check
  (`run_uniswap_recovery.py`, line 147) and its UPDATE loses that acceptance: the
  UPDATE compares only the position and writes the recovery's own tag, so the
  watermark passes an interval under a contract that is no longer the accepted one.
* Replay, Uniswap: `load_stored_records` (`replay_sources.py`, line 201) promises
  the audited scope, but the stored records are of every pool and the fresh ones
  of the verified pools only: an event of an unverified pool is reported as gone.
* Price enrichment: "Atomically rebuild" (`build_price_enriched_silver.py`, line
  277) is an overwrite in place or two renames (`spark/parquet.py`, lines 88 and
  106): between them, and after a kill, readers see a part or nothing.
* RAW: the repository's README (lines 160-161) calls the load idempotent, but a
  dead client's COPY that lands between the MERGE and the UPDATE of its retry
  leaves rows that are marked merged and never merged.
* RAW: a landing row with a null key is marked merged and never merged.
* Poller: "each new round exactly once per run" (`market_data/poller.py`, line 51)
  does not hold when consecutive calls reach nodes that differ by a block: an
  older round counts as new and is published again, with the same identity.
* Producer: an event the client gives up on is lost, and the subscription is
  not resumed from the last block; recovery and backfills fill such gaps.

## The proofs

Seven proof modules prove, for every value of the constants, every invariant and
action property that a passing run checks. Each states its inductive invariant
as a conjunction of named parts.

`WatermarksProofs`: typing; `AllOrNothing`; `OnlyForward`; `CommitsOnlyItsPlan`;
and that `Watermarks` implements `AtomicProgress`. The inductive invariant says
what an open transaction knows: the rows it has updated are the committed ones,
held by the lock; the planned anchor bounds the current one from below; and
while the anchor has not moved since the plan, no other row has.

`AaveForwardProofs`: typing; `CommittedIsServed`; `CommittedIsEvidenced`;
`RunsOnItsOwnEvidence`; `OnlyForward`. The invariant follows the interval
through the stores, one conjunct per step: after Bronze its blocks are in
Bronze, after the ledger they are evidenced, and so on up to the facts. A
detached commit must have been served when its attempt died, and stays so
because RAW and the evidence only grow and the facts are rebuilt from RAW. That
the leaves of any set of cuts cover the interval needs the greatest cut below a
block, which is where well-founded induction is used. `RunsOnItsOwnEvidence`
follows because the ledger accepts only evidence dated by the attempt itself,
and a late COMMIT only adds to the ledger (`Progress`).

`UniswapRecoveryProofs`: typing, for any number of workers; and, for one worker,
`SealedIsComplete`, `EvidenceIsCaptured` and `TagIsTheCapturedContract`. A
sealed batch is never touched again and the ledger only grows, so what the
attempt has established about its interval (`Progress`) lasts until it commits,
and what a dead attempt left is either sealed, hence complete, or cleared before
anything is written over it. `CommittedIsCovered` and `CoveredIsCaptured` carry
this from the watermark over the ledger to the batches.

`ChainlinkForwardProofs`: for any number of runs, typing, `CursorsShareOneBlock`
and `OverLimitIsFinal`; for one run at a time, `NoRoundTwice` and
`CursorIsLoaded`. What the feeds showed at a block never changes (`History`,
`Frozen`), so a plan names every round shown up to its block that the cursors do
not have (`PlanIsComplete`); its batches hold what Bronze lacks, each round once
(`BatchesAreDisjoint`, `BatchesAreComplete`), wherever a retry cuts them. A run
that reaches Silver has sealed them all (`CaptureOK`). The hard step is
`SilverStep`: what a sealed increment leaves out stands in increments that no
later run rewrites, because a later run's increment starts or ends later.

The hypothesis of the second group, `OneWorker`, says that there is only one
process. It is what the Airflow task and, for Uniswap, the lease provide while
no process outlives them and nobody starts a run by hand; a process that dies
may still be followed by any number of retries and runs. Without it the
properties fail: `chainlink_two_runs` shows it of the batches, `lease_exclusion`
that the lease alone does not provide it. The passing runs of these two modules
have one worker for the same reason.

`BackfillProofs`: `PassedIsAccountedFor` and `CheckpointDescends` of the Aave
backfill; typing, `SkippedIsRecorded` and `TransientHoldsCheckpoint` of the
Chainlink one; `FindingsHaveACause` of the audit. The invariants say what
a scan holds in memory about the blocks or rounds it has passed, and that every
replacement in the lake comes before the checkpoint that relies on it. For the
audit, a record is tied to the chain it was fetched from (`Sourced`), and the
ranges still pending with those fetched cover the interval, however they are
halved, up to what was omitted (`FetchMissesNothing`).

`OperationsProofs` has three components.
* The lease: typing; `UniqueHandle`; `HolderProtected`; `ConflictMeansChange`;
  `OneVersionPerChange`; and `OverlapsFollowExpiry`, which needs no hypothesis on the
  timeouts. The invariant orders versions: no handle, transaction
  or late release names a version above the row's, each version is granted once,
  and a transaction that holds the lock still sees the row it selected.
* The run table: `CountersMatchWork` and `TerminalIsFinal`. `Owed` is what the
  children of a run have merged and not yet added. What a row claims and is owed
  is never more than was merged (`NothingIsInvented`), and exactly that unless a
  write was lost or the run failed (`NothingIsForgotten`). The values with which
  a command will finish the row were read earlier; `SeenByRunner` and
  `SeenByCommands` say why they are still right.
* The alerts: `EventsAreEmittedOnce`, `LagIsNotOverstated`, `CriticalIsSticky`.
  An evaluation about to write has read an earlier version of the row or this very
  row (`VersionsIdentifyRows`); the row's incident and severity rule out the
  events still ahead of it (`EventsAreBehind`); and an event is with one evaluation
  only, or emitted, or lost (`EventsAreApart`).

`DatasetsProofs` has four.
* The producer: `PublishedInOrder`. What is published, looked up, queued and on
  the socket follow one another (`OneAfterAnother`) and leave out nothing usable
  (`NothingIsLost`), however many logs are queued behind a lookup.
* The streams: `CommittedIsKept`. A batch is in a file before its offsets are
  committed (`BatchIsInFile`, `BatchIsAppended`); the files that a build has
  selected are merged before it saves the manifest (`SavedIsMerged`).
* Price enrichment: `PricedPointInTime`; `FinishedBuildsAreWhole`. Of a set of
  candidate prices the window keeps exactly one, the newest; that there is one
  needs that `PricePool` is finite and that its ordering tells two prices of an
  asset apart. A torn output is a part of what one build computed, and a running
  build accounts for each dataset it has gone through.
* The RAW load: typing; and `MarkedIsMerged`, under the hypothesis
  `PoolKeepsApart`. The transaction that has written RAW holds the lock, so
  nothing it has read changes before it ends (`Holding`); what its MERGE wrote
  is at least RAW (`Grows`) and at least every unmerged row (`Covers`); and
  since no other load copies in between (`Alone`), the rows its UPDATE marks are
  the rows it has merged (`Marks`), also when its COMMIT executes after its
  client's death. The rows of a late COPY are the exception (`between`), and the
  theorem names it.

`NaturalBounds` holds the lemmas on numbers that several of them use: least and
greatest elements of sets of naturals, the pieces of an interval that is cut,
division and multiples.

The assumptions are the `ASSUME`s of the models, and they are weak: bounds are
natural numbers, sizes are positive, sets that are iterated over are finite, the
markers `NoClient`, `NoRun`, `NoWorker` are none of the things they stand apart
from, no attempt is called `"none"`, the mapping of addresses to feeds is a
function (the loader refuses another), WARNING comes before STALE. The proofs take
nothing else but the two hypotheses named above, `OneWorker` and
`PoolKeepsApart`.

Model-checked only: `CallsReturn`, `AcquireReturns` and the two
`PlannedIsCommittedOrFails`. They are liveness properties, whose proofs need
fairness and ENABLED, which the provers here do not handle. No
model uses a recursive definition, so nothing else is out of the provers' reach.

## Not modelled, and the plan

* dbt (SQL): `AaveForward` has its full rebuild. The incremental pricing models,
  which filter on a high-water mark shared by sources that arrive in different
  orders (`int_defi_event_token_prices.sql`, line 127), deserve a module of their own.
* Gold, the rebuilds of local Aave Silver and of market-data Silver: functions
  of a dataset that keep no state between runs. The DuckDB jobs rename a
  finished file over their output; the Spark jobs overwrite with the
  enrichment's writer, so a kill tears their output in the same way, until the
  next rebuild.
* Reference data: caches of immutable pool and token metadata; their storage is
  the same overwriting of a whole dataset as in `AaveBackfill`, torn by a kill
  in the same way.
* Configuration, the Streamlit app and dashboard, scripts, infrastructure,
  CI and examples: reading the environment, read-only queries, layout and
  provisioning. Their values are the models' constants.
* Event decoding is an input of the models (malformed or not), and column
  projections are left out.
* `watermarks` leaves out the single-row `initialize`; `AaveForward` has the
  single-row `advance`. The coverage summary of the ledger is not modelled.

Next, in this order: a module for the incremental dbt models; a refinement of
`ChainlinkForward`'s commit by `Watermarks`, whose `AtomicProgress` it now takes
as one step; the theorems of the group under `OneWorker` for several workers
that a lease keeps apart.
