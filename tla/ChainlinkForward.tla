--------------------------- MODULE ChainlinkForward ---------------------------
(***************************************************************************)
(* The Chainlink forward pipeline.  A run freezes one safe block, reads the *)
(* round of every feed at it, plans the rounds behind each feed's cursor,   *)
(* phase by phase, captures those Bronze does not hold in batches behind    *)
(* _COMMITTED markers, writes a Silver increment behind a marker of its     *)
(* own, loads RAW, runs dbt and commits the block and every feed's cursor   *)
(* in one transaction, last.                                                *)
(*                                                                         *)
(* A round is <<phase, aggregator round>>, as split_proxy_round_id returns  *)
(* it.  An observation is <<feed, phase, aggregator round>>, its identity.  *)
(* The staging prefix is not modelled: only its own writer reads it.  A     *)
(* promotion and a Spark write are not atomic, and leave any part when they *)
(* die.  Unlike the other forward pipelines this one takes no lease.        *)
(***************************************************************************)
EXTENDS Integers, FiniteSets

CONSTANTS
  Feeds,       \* the configured feed proxies
  MaxPhase,    \* bound: proxy phases
  MaxRound,    \* bound: rounds of one aggregator
  MaxHead,     \* bound: the highest safe block
  MaxLate,     \* bound: rounds of retired aggregators
  MaxRounds,   \* get_chainlink_forward_max_rounds_per_run
  BatchSize,   \* batch_size of plan_missing_batches
  Malformed,   \* the observations the proxy never answers well
  OutOfRange,  \* the observations whose price Silver cannot represent
  Workers      \* the processes that run the pipeline

ASSUME FeedsAssumption == IsFiniteSet(Feeds)
ASSUME MaxPhaseAssumption == MaxPhase \in Nat \ {0}
ASSUME MaxRoundAssumption == MaxRound \in Nat \ {0}
ASSUME MaxHeadAssumption == MaxHead \in Nat
ASSUME MaxLateAssumption == MaxLate \in Nat
ASSUME MaxRoundsAssumption == MaxRounds \in Nat \ {0}
ASSUME BatchSizeAssumption == BatchSize \in Nat \ {0}

Phases == 1 .. MaxPhase
Heads == 0 .. MaxHead
Rounds == Phases \X (1 .. MaxRound)
Observations == Feeds \X Phases \X (1 .. MaxRound)
Of(f) == {f} \X Phases \X (1 .. MaxRound)

\* A batch prefix feed_<f>/phase_<p>/round_<from>_<to>, and what it holds.
Keys == {k \in [feed : Feeds, phase : Phases, from : 1 .. MaxRound, to : 1 .. MaxRound] :
           k.from <= k.to}
Ids(k) == {<<k.feed, k.phase, n>> : n \in k.from .. k.to}
Prefixes == [held : SUBSET Observations, sealed : BOOLEAN]
NoPrefix == [held |-> {}, sealed |-> FALSE]

\* The Silver increments are named after the blocks of their plan.
Increments == {i \in [from : Heads, to : Heads] : i.from <= i.to}

Steps == {"idle", "capture", "clear", "promote", "verify", "mark", "silver", "seal", "load",
          "commit"}

VARIABLES
  head,     \* the safe block
  at,       \* the round the proxy of each feed answers with at each block
  late,     \* rounds a retired aggregator reported after its phase ended
  global,   \* the chainlink_forward watermark
  cursor,   \* the round watermark of each feed
  bronze,   \* the forward batch prefixes
  silver,   \* the Silver increment prefixes
  raw,      \* the observations RAW holds
  work      \* each worker's run

vars == <<head, at, late, global, cursor, bronze, silver, raw, work>>

source == <<head, at, late>>
cursors == <<global, cursor>>
lake == <<bronze, silver, raw>>

\* The start of every feed's history, and a run that plans nothing.
FirstRounds == [f \in Feeds |-> <<1, 1>>]
Idle == [step |-> "idle", block |-> 0, start |-> 0, states |-> FirstRounds,
         targets |-> FirstRounds, todo |-> {}, batch |-> {}]
Runs == [step : Steps, block : Heads, start : Heads, states : [Feeds -> Rounds],
         targets : [Feeds -> Rounds], todo : SUBSET Keys, batch : SUBSET Keys]

At(w, s) == work[w].step = s
Goto(w, s) == work' = [work EXCEPT ![w].step = s]
Stop(w) == work' = [work EXCEPT ![w] = Idle]

\* ---- The source ---------------------------------------------------------------

\* get_phase_latest_round: the aggregator's own latest round, pinned to no block.
PhaseLatest(f, p) ==
  LET known == {n \in 1 .. MaxRound : \/ \E b \in 0 .. head : at[b][f] = <<p, n>>
                                      \/ <<f, p, n>> \in late}
  IN IF known = {} THEN 0 ELSE CHOOSE n \in known : \A m \in known : m <= n

\* Behind a round a feed shows the same, the next one, or a new phase's first.
Follows(r) == {r} \cup (Rounds \cap {<<r[1], r[2] + 1>>, <<r[1] + 1, 1>>})

NewBlock ==
  /\ head < MaxHead
  /\ head' = head + 1
  /\ \E shown \in [Feeds -> Rounds] :
       /\ \A f \in Feeds : shown[f] \in Follows(at[head][f])
       /\ at' = [at EXCEPT ![head + 1] = shown]
  /\ UNCHANGED <<late, cursors, lake, work>>

LateRound ==
  /\ Cardinality(late) < MaxLate
  /\ \E f \in Feeds, p \in Phases :
       /\ p < at[head][f][1]
       /\ PhaseLatest(f, p) \in 1 .. MaxRound - 1
       /\ late' = late \cup {<<f, p, PhaseLatest(f, p) + 1>>}
  /\ UNCHANGED <<head, at, cursors, lake, work>>

\* ---- Planning -------------------------------------------------------------------

SealedKeys == {k \in Keys : bronze[k].sealed}
SealedIds == UNION {bronze[k].held : k \in SealedKeys}

\* load_observations raises when two committed batches hold the same round.
StoredTwice == \E j, k \in SealedKeys : j # k /\ bronze[j].held \cap bronze[k].held # {}

\* Mutant: only the target's phase is planned.
RangesOfTargetPhase(f, current, target) ==
  {o \in Of(f) : LET p == o[2] n == o[3] IN
     /\ p = target[1]
     /\ n > (IF p = current[1] THEN current[2] ELSE 0)
     /\ n <= target[2]}

\* _ranges_after_cursor: the rest of the cursor's phase, the phases in between,
\* and the target's phase up to the target.
RangesAfterCursor(f, current, target) ==
  {o \in Of(f) : LET p == o[2] n == o[3] IN
     /\ current[1] <= p /\ p <= target[1]
     /\ n > (IF p = current[1] THEN current[2] ELSE 0)
     /\ n <= (IF p = target[1] THEN target[2] ELSE PhaseLatest(f, p))}

\* Mutant: rounds that are stored already are planned again.
PlanAllBatches(required, stored) ==
  {k \in Keys : /\ Ids(k) \subseteq required
                /\ <<k.feed, k.phase, k.from - 1>> \notin required
                /\ <<k.feed, k.phase, k.to + 1>> \notin required}

\* plan_missing_batches: each run of missing rounds, cut into batches from its start.
PlanMissingBatches(required, stored) ==
  LET missing == required \ stored
      Starts(k) == {s \in 1 .. k.from : <<k.feed, k.phase, s - 1>> \notin missing}
  IN {k \in Keys :
        /\ \E s \in Starts(k) :
             /\ \A n \in s .. k.to : <<k.feed, k.phase, n>> \in missing
             /\ (k.from - s) % BatchSize = 0
        /\ \/ k.to = k.from + BatchSize - 1
           \/ /\ k.to < k.from + BatchSize - 1
              /\ <<k.feed, k.phase, k.to + 1>> \notin missing}

\* expected_observation_ids of the plan a run would make now.
Backlog == UNION {RangesAfterCursor(f, cursor[f], at[head][f]) : f \in Feeds}

\* plan_chainlink_forward raises on more rounds than the limit.
OverLimit == Cardinality(Backlog) > MaxRounds

PlanNothing(w) ==
  /\ At(w, "idle")
  /\ head <= global
  /\ Stop(w)
  /\ UNCHANGED <<source, cursors, lake>>

\* A run over what the feeds show at a block, with the rounds Bronze does not hold.
Freeze(w, block) ==
  work' = [work EXCEPT ![w] =
             [step |-> IF Backlog = {} THEN "commit" ELSE "capture",
              block |-> block, start |-> global + 1, states |-> cursor,
              targets |-> at[head], batch |-> {},
              todo |-> PlanMissingBatches(Backlog, SealedIds)]]

\* Mutant: a plan over the limit is run.
PlanBeyondLimit(w) ==
  /\ At(w, "idle") /\ global < head
  /\ Backlog = {} \/ ~StoredTwice
  /\ Freeze(w, head)
  /\ UNCHANGED <<source, cursors, lake>>

\* freeze_chainlink_snapshot reads every feed at one block, plan_chainlink_forward
\* plans each behind its own cursor.
PlanIncrement(w) ==
  /\ At(w, "idle") /\ global < head
  /\ ~OverLimit /\ (Backlog = {} \/ ~StoredTwice)
  /\ Freeze(w, head)
  /\ UNCHANGED <<source, cursors, lake>>

\* The plan, or the reading of what is stored, raises.
RefusePlan(w) ==
  /\ At(w, "idle")
  /\ global < head
  /\ OverLimit \/ (Backlog # {} /\ StoredTwice)
  /\ Stop(w)
  /\ UNCHANGED <<source, cursors, lake>>

\* ---- A batch: extract_historical_rounds and write_and_validate ---------------------

Key(w) == CHOOSE k \in Keys : work[w].batch = {k}

\* get_rounds reads a batch whole, or not at all.
Answered(k) == Ids(k) \cap Malformed = {}

\* A committed batch that does not hold its range.
Conflicts(k) == bronze[k].sealed /\ bronze[k].held # Ids(k)

\* Every round of the batch is read.  A marker seen now means an earlier run wrote it.
FetchBatch(w) ==
  /\ At(w, "capture")
  /\ \E k \in work[w].todo :
       /\ Answered(k) /\ ~Conflicts(k)
       /\ work' = [work EXCEPT ![w].step = IF bronze[k].sealed THEN "capture" ELSE "clear",
                               ![w].batch = IF bronze[k].sealed THEN {} ELSE {k},
                               ![w].todo = @ \ {k}]
  /\ UNCHANGED <<source, cursors, lake>>

\* A round without a good answer, or a committed batch that conflicts with it.
RefuseBatch(w) ==
  /\ At(w, "capture")
  /\ \E k \in work[w].todo : ~Answered(k) \/ Conflicts(k)
  /\ Stop(w)
  /\ UNCHANGED <<source, cursors, lake>>

\* Whatever stands at the final prefix is deleted: it had no marker when looked at.
ClearPrefix(w) ==
  /\ At(w, "clear")
  /\ bronze' = [bronze EXCEPT ![Key(w)] = NoPrefix]
  /\ Goto(w, "promote")
  /\ UNCHANGED <<source, cursors, silver, raw>>

\* The staged batch is renamed to the final prefix, unless that exists again.
PromoteBatch(w) ==
  /\ At(w, "promote")
  /\ IF bronze[Key(w)] = NoPrefix
     THEN /\ bronze' = [bronze EXCEPT ![Key(w)].held = Ids(Key(w))]
          /\ Goto(w, "verify")
     ELSE Stop(w) /\ UNCHANGED bronze
  /\ UNCHANGED <<source, cursors, silver, raw>>

TearPromotion(w) ==
  /\ At(w, "promote")
  /\ bronze[Key(w)] = NoPrefix
  /\ \E part \in SUBSET Ids(Key(w)) : bronze' = [bronze EXCEPT ![Key(w)].held = part]
  /\ Stop(w)
  /\ UNCHANGED <<source, cursors, silver, raw>>

\* The promoted batch is read back.
VerifyBatch(w) ==
  /\ At(w, "verify")
  /\ IF bronze[Key(w)].held = Ids(Key(w)) THEN Goto(w, "mark") ELSE Stop(w)
  /\ UNCHANGED <<source, cursors, lake>>

\* _mark_committed.
MarkBatch(w) ==
  /\ At(w, "mark")
  /\ bronze' = [bronze EXCEPT ![Key(w)].sealed = TRUE]
  /\ work' = [work EXCEPT ![w].step = "capture", ![w].batch = {}]
  /\ UNCHANGED <<source, cursors, silver, raw>>

FinishCapture(w) ==
  /\ At(w, "capture")
  /\ work[w].todo = {}
  /\ Goto(w, "silver")
  /\ UNCHANGED <<source, cursors, lake>>

\* ---- Silver: build_market_data_silver_increment -------------------------------------

Increment(w) == [from |-> work[w].start, to |-> work[w].block]

\* Every file under the Silver root is read, a dead run's too, but its own.
Elsewhere(i) == UNION {silver[j].held : j \in Increments \ {i}}

\* prepare_market_data_records rejects a price that DECIMAL(38, 18) cannot hold.
Rejected == SealedIds \cap OutOfRange

\* All committed batches, each round once, left-anti joined with the rest of Silver.
Fresh(i) == SealedIds \ Elsewhere(i)

\* An increment with a marker is taken as it is.
KeepIncrement(w) ==
  /\ At(w, "silver")
  /\ silver[Increment(w)].sealed
  /\ Goto(w, "load")
  /\ UNCHANGED <<source, cursors, lake>>

\* One row in any committed batch that Silver rejects fails every increment.
RefuseIncrement(w) ==
  /\ At(w, "silver")
  /\ ~silver[Increment(w)].sealed
  /\ Rejected # {}
  /\ silver' = [silver EXCEPT ![Increment(w)] = NoPrefix]
  /\ Stop(w)
  /\ UNCHANGED <<source, cursors, bronze, raw>>

WriteIncrement(w) ==
  /\ At(w, "silver")
  /\ ~silver[Increment(w)].sealed
  /\ Rejected = {}
  /\ silver' = [silver EXCEPT ![Increment(w)] =
                  [held |-> Fresh(Increment(w)), sealed |-> FALSE]]
  /\ Goto(w, "seal")
  /\ UNCHANGED <<source, cursors, bronze, raw>>

TearIncrement(w) ==
  /\ At(w, "silver")
  /\ ~silver[Increment(w)].sealed
  /\ Rejected = {}
  /\ \E part \in SUBSET Fresh(Increment(w)) :
       silver' = [silver EXCEPT ![Increment(w)] = [held |-> part, sealed |-> FALSE]]
  /\ Stop(w)
  /\ UNCHANGED <<source, cursors, bronze, raw>>

SealIncrement(w) ==
  /\ At(w, "seal")
  /\ silver' = [silver EXCEPT ![Increment(w)].sealed = TRUE]
  /\ Goto(w, "load")
  /\ UNCHANGED <<source, cursors, bronze, raw>>

\* ---- RAW, dbt and the commit -----------------------------------------------------------

\* load_raw copies every Silver file and merges by observation_id; dbt follows.
LoadRaw(w) ==
  /\ At(w, "load")
  /\ raw' = raw \cup UNION {silver[i].held : i \in Increments}
  /\ Goto(w, "commit")
  /\ UNCHANGED <<source, cursors, bronze, silver>>

\* Mutant: the cursors advance to what the feeds show when the run ends.
LatestCandidates(w) == at[head]

\* ChainlinkForwardPlan.candidates: the rounds of the frozen snapshot.
Candidates(w) == work[w].targets

\* commit_watermarks_atomically: all rows, each against the value the plan read.
Commit(w) ==
  /\ At(w, "commit")
  /\ IF global = work[w].start - 1 /\ cursor = work[w].states
     THEN global' = work[w].block /\ cursor' = Candidates(w)
     ELSE UNCHANGED cursors
  /\ Stop(w)
  /\ UNCHANGED <<source, lake>>

\* A call fails, a timeout strikes or the host dies.
Die(w) ==
  /\ ~At(w, "idle")
  /\ Stop(w)
  /\ UNCHANGED <<source, cursors, lake>>

\* ---- The system -----------------------------------------------------------------------

Init ==
  /\ head = 0 /\ at = [b \in Heads |-> FirstRounds] /\ late = {}
  /\ global = 0 /\ cursor = FirstRounds
  /\ bronze = [k \in Keys |-> NoPrefix] /\ silver = [i \in Increments |-> NoPrefix]
  /\ raw = {}
  /\ work = [w \in Workers |-> Idle]

Capture(w) == \/ FetchBatch(w) \/ ClearPrefix(w) \/ PromoteBatch(w) \/ VerifyBatch(w)
              \/ MarkBatch(w) \/ FinishCapture(w)
Publish(w) == KeepIncrement(w) \/ WriteIncrement(w) \/ SealIncrement(w) \/ LoadRaw(w)
Refuse(w) == RefusePlan(w) \/ RefuseBatch(w) \/ RefuseIncrement(w)
Fault(w) == TearPromotion(w) \/ TearIncrement(w) \/ Die(w)
Run(w) == PlanNothing(w) \/ PlanIncrement(w) \/ Capture(w) \/ Publish(w) \/ Commit(w)

Next == NewBlock \/ LateRound \/ \E w \in Workers : Run(w) \/ Refuse(w) \/ Fault(w)

Spec == Init /\ [][Next]_vars

\* ---- Properties -------------------------------------------------------------------------

\* Every variable stays in its domain.
TypeOK ==
  /\ head \in Heads /\ at \in [Heads -> [Feeds -> Rounds]] /\ late \subseteq Observations
  /\ global \in 0 .. head /\ cursor \in [Feeds -> Rounds]
  /\ bronze \in [Keys -> Prefixes] /\ silver \in [Increments -> Prefixes]
  /\ raw \subseteq Observations
  /\ work \in [Workers -> Runs]

\* The global block and the feed cursors are one snapshot: whatever runs died in
\* between, each cursor is the round its feed showed at the committed block
\* (freeze_chainlink_snapshot, "one consistent block snapshot shared by every feed").
CursorsShareOneBlock == cursor = at[global]

\* The rounds of a feed that the proxy showed up to the committed block, behind
\* the bootstrap's last, and those before them in their phase.
Vouched(f) ==
  {o \in Of(f) : LET p == o[2] n == o[3] IN
     /\ <<p, n>> # <<1, 1>>
     /\ \E b \in 0 .. global : at[b][f][1] = p /\ n <= at[b][f][2]}

\* A round behind its feed's cursor is in a committed Bronze batch and in RAW,
\* phase changes, retries with other batch boundaries and torn Silver included.
CursorIsLoaded == \A f \in Feeds : Vouched(f) \subseteq SealedIds \cap raw

\* No two committed batches hold one round, or load_observations would raise in
\* every later run: batches of a retry are cut from what is still missing.
NoRoundTwice == ~StoredTwice

\* "Valid marker-backed output is never deleted" (write_and_validate).
SealedIsKept == [][\A k \in SealedKeys : bronze'[k] = bronze[k]]_vars

\* Once idle with more rounds behind the cursors than the limit, the pipeline never
\* advances again: the backlog only grows, and no run takes a part of it.
Overwhelmed == OverLimit /\ \A w \in Workers : At(w, "idle")
OverLimitIsFinal == [][Overwhelmed => Overwhelmed']_vars

===============================================================================
