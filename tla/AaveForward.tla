------------------------------ MODULE AaveForward ------------------------------
(***************************************************************************)
(* The commit-last Aave forward pipeline: one Airflow task instance at a   *)
(* time plans the next block interval, writes its Bronze batch, records    *)
(* its completed ranges, writes its Silver increment, loads RAW, runs dbt, *)
(* and only then commits the watermark.  The events of a block are         *)
(* represented by the block, and every store by the set of blocks whose    *)
(* events it holds.                                                        *)
(*                                                                         *)
(* The task may die at any point and is retried once, under the same run   *)
(* id and with a new processed_at.  Between attempts other holders of the  *)
(* warehouse_writes pool run: the bounded backfill rewrites all of Silver, *)
(* and the daily pipeline loads RAW and rebuilds the facts.  Object-store  *)
(* overwrites are not atomic: a writer that dies leaves any part of the    *)
(* old and the new content behind.  A COMMIT whose client is gone may still *)
(* be executed: a dead attempt's ledger rows, and its watermark, may land   *)
(* while the next attempt is between any two of its statements.            *)
(***************************************************************************)
EXTENDS Integers, FiniteSets

CONSTANTS
  MaxBlock,   \* bound: the highest block the chain reaches
  MaxBlocks,  \* get_aave_forward_max_blocks_per_run
  ChunkSize   \* get_aave_bootstrap_chunk_size: the longest logical range

ASSUME MaxBlockAssumption == MaxBlock \in Nat
ASSUME MaxBlocksAssumption == MaxBlocks \in Nat \ {0}
ASSUME ChunkSizeAssumption == ChunkSize \in Nat \ {0}

Blocks == 1 .. MaxBlock
Heads == 0 .. MaxBlock

\* Whether evidence was written by the run, or the attempt, under way: a run
\* id is unique to a run and processed_at to an attempt, so nothing else about
\* them matters.
Age == {"current", "earlier"}

\* A row of PIPELINE_COMPLETED_RANGES: successful_run_id and completed_at.
Evidence == [from : Blocks, to : Blocks, run : Age, at : Age]

Tasks == {"nobody", "forward", "load"}

\* Where the latest forward run is: its first attempt, waiting for the retry,
\* its second attempt, or ended.
RunPhases == {"first", "waiting", "second", "succeeded", "failed"}

Steps == {"idle", "plan", "bronze", "ledger", "record", "refused", "silver", "copy",
          "merge", "dbt", "test", "commit"}

VARIABLES
  head,       \* the confirmed safe head of the source
  committed,  \* the aave_forward watermark
  ledger,     \* PIPELINE_COMPLETED_RANGES
  bronze,     \* blocks in the forward Bronze batches
  silver,     \* blocks in the Silver datasets
  landing,    \* blocks copied to the landing tables and not in RAW
  raw,        \* blocks in RAW
  facts,      \* blocks in the dbt facts
  task,       \* the holder of the warehouse_writes pool
  step,       \* the step that holder executes next
  run,        \* the phase of the forward run
  plan,       \* the interval of the forward attempt: [from, to]
  inserted,   \* ledger rows the attempt has inserted and not yet committed
  adrift,     \* ledger rows of a dead attempt whose COMMIT may still land
  detached    \* the interval of a dead attempt whose watermark may still land

vars == <<head, committed, ledger, bronze, silver, landing, raw, facts, task, step,
          run, plan, inserted, adrift, detached>>

\* What Snowflake may still execute for a client that is gone.
late == <<adrift, detached>>

stores == <<committed, ledger, bronze, silver, landing, raw, facts>>

Plans == [from : Heads, to : Heads]
NoPlan == [from |-> 0, to |-> 0]

Batch == plan.from .. plan.to

Smaller(a, b) == IF a <= b THEN a ELSE b

\* What a store may hold after its writer died while it replaced batch.
Torn(store, batch) == {s \in SUBSET (store \cup batch) : store \ batch \subseteq s}

\* ---- Scheduling -----------------------------------------------------------

\* The chain grows and the confirmation depth moves with it.
GrowHead ==
  /\ head < MaxBlock
  /\ head' = head + 1
  /\ UNCHANGED <<stores, task, step, run, plan, inserted, late>>

\* Evidence ages when another attempt, or another run, starts.
AgedAttempt(rows) == {[e EXCEPT !.at = "earlier"] : e \in rows}
AgedRun(rows) == {[e EXCEPT !.at = "earlier", !.run = "earlier"] : e \in rows}

\* max_active_runs=1 and four of four pool slots.
StartRun ==
  /\ task = "nobody" /\ run \in {"succeeded", "failed"}
  /\ task' = "forward" /\ step' = "plan" /\ run' = "first"
  /\ ledger' = AgedRun(ledger) /\ adrift' = AgedRun(adrift)
  /\ UNCHANGED <<head, committed, bronze, silver, landing, raw, facts, plan,
                 inserted, detached>>

\* retries=1, with the same run_id, once the pool is free again.
StartRetry ==
  /\ task = "nobody" /\ run = "waiting"
  /\ task' = "forward" /\ step' = "plan" /\ run' = "second"
  /\ ledger' = AgedAttempt(ledger) /\ adrift' = AgedAttempt(adrift)
  /\ UNCHANGED <<head, committed, bronze, silver, landing, raw, facts, plan,
                 inserted, detached>>

\* dagrun_timeout: the retry never comes.
GiveUp ==
  /\ run = "waiting"
  /\ run' = "failed"
  /\ UNCHANGED <<head, stores, task, step, plan, inserted, late>>

\* The daily pipeline or a bounded backfill loads RAW.
StartLoad ==
  /\ task = "nobody"
  /\ task' = "load" /\ step' = "copy"
  /\ UNCHANGED <<head, stores, run, plan, inserted, late>>

\* Whoever leaves with a transaction open rolls it back.
LeavePool ==
  /\ task' = "nobody" /\ step' = "idle"
  /\ plan' = NoPlan /\ inserted' = {}

\* An attempt fails: the first one is retried.
FailAttempt ==
  /\ LeavePool
  /\ run' = IF task # "forward" THEN run
            ELSE IF run = "first" THEN "waiting" ELSE "failed"

Forward(s) == task = "forward" /\ step = s
Goto(s) == step' = s /\ UNCHANGED <<head, task, run, plan, inserted, late>>

\* ---- Planning and source capture: run_forward_capture ----------------------

\* plan_forward_increment has nothing to plan: a successful no-op run.
PlanNothing ==
  /\ Forward("plan")
  /\ head <= committed
  /\ LeavePool
  /\ run' = "succeeded"
  /\ UNCHANGED <<head, stores, late>>

PlanIncrement ==
  /\ Forward("plan")
  /\ committed < head
  /\ plan' = [from |-> committed + 1, to |-> Smaller(head, committed + MaxBlocks)]
  /\ step' = "bronze"
  /\ UNCHANGED <<head, stores, task, run, inserted, late>>

\* AaveForwardBatchStore.write_and_validate overwrites range_<from>_<to> and
\* reads it back.
WriteBronze ==
  /\ Forward("bronze")
  /\ bronze' = bronze \cup Batch
  /\ Goto("ledger")
  /\ UNCHANGED <<committed, ledger, silver, landing, raw, facts>>

TearBronze ==
  /\ Forward("bronze")
  /\ bronze' \in Torn(bronze, Batch)
  /\ FailAttempt
  /\ UNCHANGED <<head, committed, ledger, silver, landing, raw, facts, late>>

\* Mutant: only the first leaf of a split range is recorded.
FirstLeafOnly(cuts) ==
  {[from |-> plan.from, to |-> hi, run |-> "current", at |-> "current"] :
     hi \in {b \in Batch : (b \in cuts \/ b = plan.to)
                           /\ \A c \in cuts : plan.from <= c => b <= c}}

\* The leaves of the fetch: the interval cut after each chunk, and wherever
\* the provider's limits made fetch_event_logs_adaptive bisect.
Leaves(cuts) ==
  {e \in [from : Batch, to : Batch, run : {"current"}, at : {"current"}] :
     /\ e.from = plan.from \/ e.from - 1 \in cuts
     /\ e.to = plan.to \/ e.to \in cuts
     /\ e.from <= e.to
     /\ \A c \in cuts : ~(e.from <= c /\ c < e.to)}

ChunkEnds == {b \in Batch : (b - plan.from + 1) % ChunkSize = 0}

SameRange(e, f) == e.from = f.from /\ e.to = f.to

Recorded(leaf) == {e \in ledger : SameRange(e, leaf)}

\* Mutant: the time of the attempt is not compared.
SameRun(e) == e.run = "current"

\* _assert_identical.
Identical(e) == e.run = "current" /\ e.at = "current"

\* No evidence of the leaf, or one row that is identical.
Acceptable(leaf) ==
  /\ Cardinality(Recorded(leaf)) <= 1
  /\ \A e \in Recorded(leaf) : Identical(e)

\* record_ranges, up to its COMMIT: leaves without evidence are inserted,
\* identical ones skipped.  An INSERT takes no lock, and the table has no key.
InsertRanges ==
  /\ Forward("ledger")
  /\ \E cuts \in SUBSET Batch :
       /\ ChunkEnds \subseteq cuts
       /\ \A leaf \in Leaves(cuts) : Acceptable(leaf)
       /\ inserted' = {leaf \in Leaves(cuts) : Recorded(leaf) = {}}
  /\ step' = "record"
  /\ UNCHANGED <<head, stores, task, run, plan, late>>

CommitRanges ==
  /\ Forward("record")
  /\ ledger' = ledger \cup inserted
  /\ inserted' = {}
  /\ step' = "silver"
  /\ UNCHANGED <<head, committed, bronze, silver, landing, raw, facts, task, run, plan,
                 late>>

\* DuplicateCompletedRangeEvidence or ConflictingCompletedRangeEvidence rolls
\* the whole batch back.
RefuseRanges ==
  /\ Forward("ledger")
  /\ \E cuts \in SUBSET Batch :
       /\ ChunkEnds \subseteq cuts
       /\ \E leaf \in Leaves(cuts) : ~Acceptable(leaf)
  /\ Goto("refused")
  /\ UNCHANGED stores

\* The task dies with its ledger COMMIT on the way (in place of an older one).
DetachRanges ==
  /\ Forward("record")
  /\ FailAttempt
  /\ adrift' = inserted
  /\ UNCHANGED <<head, stores, detached>>

\* That COMMIT executes: its rows appear beside whatever was recorded since.
LandRanges ==
  /\ adrift # {}
  /\ ledger' = ledger \cup adrift
  /\ adrift' = {}
  /\ UNCHANGED <<head, committed, bronze, silver, landing, raw, facts, task, step, run,
                 plan, inserted, detached>>

Refused ==
  /\ Forward("refused")
  /\ FailAttempt
  /\ UNCHANGED <<head, stores, late>>

\* ---- Silver, RAW and dbt ----------------------------------------------------

\* Mutant: an increment that exists is taken to be complete.
KeepExistingSilver ==
  /\ Forward("silver")
  /\ silver' = IF silver \cap Batch = {} THEN silver \cup Batch ELSE silver
  /\ Goto("copy")
  /\ UNCHANGED <<committed, ledger, bronze, landing, raw, facts>>

\* build_aave_silver_increment overwrites the increment from its Bronze batch.
WriteSilver ==
  /\ Forward("silver")
  /\ silver' = silver \cup Batch
  /\ Goto("copy")
  /\ UNCHANGED <<committed, ledger, bronze, landing, raw, facts>>

TearSilver ==
  /\ Forward("silver")
  /\ silver' \in Torn(silver, Batch)
  /\ FailAttempt
  /\ UNCHANGED <<head, committed, ledger, bronze, landing, raw, facts, late>>

\* COPY INTO the landing tables, of every file under the dataset prefixes that
\* was not copied before; it commits by itself.
CopyRaw ==
  /\ step = "copy"
  /\ landing' = landing \cup (silver \ raw)
  /\ Goto("merge")
  /\ UNCHANGED <<committed, ledger, bronze, silver, raw, facts>>

\* MERGE into RAW and mark the landing rows, in one transaction.
MergeRaw ==
  /\ step = "merge"
  /\ raw' = raw \cup landing
  /\ landing' = {}
  /\ IF task = "forward" THEN Goto("dbt")
     ELSE LeavePool /\ UNCHANGED <<head, run, late>>
  /\ UNCHANGED <<committed, ledger, bronze, silver, facts>>

\* dbt run rebuilds the Aave facts from RAW.
DbtRun ==
  /\ Forward("dbt")
  /\ facts' = raw
  /\ Goto("test")
  /\ UNCHANGED <<committed, ledger, bronze, silver, landing, raw>>

DbtTest ==
  /\ Forward("test")
  /\ Goto("commit")
  /\ UNCHANGED stores

Advance(interval) ==
  /\ committed' = interval.to
  /\ UNCHANGED <<head, ledger, bronze, silver, landing, raw, facts>>

\* Mutant: the UPDATE's predicate only names the identity.
ExpectsNothing(interval) == TRUE

\* The watermark still is the one the interval was planned from.
Expected(interval) == committed = interval.from - 1

\* Mutant: the DAG succeeds without the commit.
SucceedWithoutCommit ==
  /\ Forward("commit")
  /\ LeavePool
  /\ run' = "succeeded"
  /\ UNCHANGED <<head, stores, late>>

\* commit_watermark_from_expected.
CommitWatermark ==
  /\ Forward("commit")
  /\ Expected(plan)
  /\ Advance(plan)
  /\ LeavePool
  /\ run' = "succeeded"
  /\ UNCHANGED late

\* WatermarkCommitConflictError: the commit of a dead attempt came first.
RefuseCommit ==
  /\ Forward("commit")
  /\ ~Expected(plan)
  /\ FailAttempt
  /\ UNCHANGED <<head, stores, late>>

\* The task dies with its COMMIT on the way (in place of an older one).
DetachCommit ==
  /\ Forward("commit")
  /\ FailAttempt
  /\ detached' = plan
  /\ UNCHANGED <<head, stores, adrift>>

\* That transaction ends, now or much later: its UPDATE still applies, or not.
LandCommit ==
  /\ detached # NoPlan
  /\ IF Expected(detached) THEN Advance(detached) ELSE UNCHANGED <<head, stores>>
  /\ detached' = NoPlan
  /\ UNCHANGED <<task, step, run, plan, inserted, adrift>>

\* An RPC, Snowflake or dbt error, a failed test, the 45 minute
\* execution_timeout or a killed worker.
Die ==
  /\ task # "nobody"
  /\ FailAttempt
  /\ UNCHANGED <<head, stores, late>>

\* ---- The other holders of the pool -------------------------------------------

\* build_aave_silver replaces all of Silver, increments included, from all of
\* Bronze; dying, it leaves any part of the old and the new behind.
RebuildSilver ==
  /\ task = "nobody"
  /\ silver' = bronze
  /\ UNCHANGED <<head, committed, ledger, bronze, landing, raw, facts, task, step,
                 run, plan, inserted, late>>

TearRebuild ==
  /\ task = "nobody"
  /\ silver' \in SUBSET (silver \cup bronze)
  /\ UNCHANGED <<head, committed, ledger, bronze, landing, raw, facts, task, step,
                 run, plan, inserted, late>>

\* dbt_refresh of the other pipelines.
RefreshFacts ==
  /\ task = "nobody"
  /\ facts' = raw
  /\ UNCHANGED <<head, committed, ledger, bronze, silver, landing, raw, task, step,
                 run, plan, inserted, late>>

\* ---- Specification -------------------------------------------------------------

Init ==
  /\ head = 0 /\ committed = 0
  /\ ledger = {} /\ inserted = {} /\ adrift = {}
  /\ bronze = {} /\ silver = {} /\ landing = {} /\ raw = {} /\ facts = {}
  /\ task = "nobody" /\ step = "idle" /\ run = "succeeded"
  /\ plan = NoPlan /\ detached = NoPlan

\* What the holder of the pool does when nothing fails.
Work ==
  \/ PlanNothing \/ PlanIncrement \/ WriteBronze \/ InsertRanges \/ CommitRanges
  \/ RefuseRanges \/ Refused \/ WriteSilver \/ CopyRaw \/ MergeRaw \/ DbtRun \/ DbtTest
  \/ CommitWatermark \/ RefuseCommit

Failure ==
  \/ TearBronze \/ TearSilver \/ DetachRanges \/ LandRanges \/ DetachCommit
  \/ LandCommit \/ Die

Schedule == StartRun \/ StartRetry \/ GiveUp \/ StartLoad

Others == RebuildSilver \/ TearRebuild \/ RefreshFacts

Next == GrowHead \/ Schedule \/ Work \/ Failure \/ Others

Spec == Init /\ [][Next]_vars

\* A process that holds the pool keeps executing.  The DAG has no schedule, so
\* no run has to start, and nothing has to fail.
FairSpec == Spec /\ WF_vars(Work)

\* ---- Properties ------------------------------------------------------------------

TypeOK ==
  /\ head \in Heads /\ committed \in Heads
  /\ ledger \cup inserted \cup adrift \subseteq Evidence
  /\ bronze \subseteq Blocks /\ silver \subseteq Blocks
  /\ landing \subseteq Blocks /\ raw \subseteq Blocks /\ facts \subseteq Blocks
  /\ task \in Tasks /\ step \in Steps /\ run \in RunPhases
  /\ plan \in Plans /\ detached \in Plans

\* Commit-last, across every crash and retry: each block at or below the
\* watermark is in RAW and in the facts, so no later run has to look at it.
CommittedIsServed == 1 .. committed \subseteq raw \cap facts

\* Every committed block lies in a recorded range, however the fetch was
\* bisected and whichever attempt recorded it.
CommittedIsEvidenced ==
  \A b \in 1 .. committed : \E e \in ledger : e.from <= b /\ b <= e.to

\* Whatever evidence of earlier attempts the ledger holds, or gains while an
\* attempt looks it up and inserts, an attempt goes on to Silver only with
\* evidence of its own for every block: the rows it loads and the evidence
\* that vouches for them bear one run id and one processing time.
RunsOnItsOwnEvidence ==
  task = "forward" /\ step \in {"silver", "copy", "merge", "dbt", "test", "commit"} =>
    \A b \in Batch : \E e \in ledger :
      e.run = "current" /\ e.at = "current" /\ e.from <= b /\ b <= e.to

\* A late or repeated commit never takes progress back.
OnlyForward == [][committed <= committed']_vars

\* A planned interval is never dropped silently: it is committed, or its
\* attempt fails.
PlannedIsCommittedOrFails ==
  \A b \in Blocks :
    (task = "forward" /\ plan.to = b)
      ~> (committed >= b \/ run \in {"waiting", "failed"})

\* docs/watermark_foundation.md: reprocessing an exact completed range is a
\* safe no-op in the ledger.
ReprocessingIsSafe == step # "refused"

================================================================================
