---------------------------- MODULE UniswapRecovery ----------------------------
(***************************************************************************)
(* Recovery of the Uniswap events the live stream missed.  A forward run   *)
(* plans the next confirmed interval, writes a recovery batch of the       *)
(* events that are not in live Bronze, seals it with markers, records its  *)
(* completed ranges, adds a Silver increment, loads RAW, runs dbt and      *)
(* commits the watermark last.  Before the watermark exists, bootstrap     *)
(* runs capture the history, batch by batch, from the ledger's position.   *)
(*                                                                         *)
(* A block stands for its events, a store for the blocks whose events it   *)
(* holds.  A source contract is a fingerprint of the pools, topics and     *)
(* query version.  An interval is captured under the one its attempt read. *)
(* Object-store writes are not atomic: a writer that dies leaves any part. *)
(***************************************************************************)
EXTENDS Integers, FiniteSets

CONSTANTS
  MaxBlock,    \* bound: the highest block the chain reaches
  MaxBlocks,   \* get_uniswap_forward_max_blocks_per_run, and a bootstrap batch
  ChunkSize,   \* get_uniswap_recovery_chunk_size
  Malformed,   \* the blocks whose logs do not decode
  Streamed,    \* the blocks whose events the live stream delivers, early or late
  MaxContract, \* bound: the source contracts, v1:<fingerprint>, are numbered
  Workers      \* the processes that hold the lease, or believe to

ASSUME MaxBlockAssumption == MaxBlock \in Nat
ASSUME MaxBlocksAssumption == MaxBlocks \in Nat \ {0}
ASSUME ChunkSizeAssumption == ChunkSize \in Nat \ {0}
ASSUME MalformedAssumption == Malformed \subseteq 1 .. MaxBlock
ASSUME StreamedAssumption == Streamed \subseteq 1 .. MaxBlock
ASSUME MaxContractAssumption == MaxContract \in Nat \ {0}

Blocks == 1 .. MaxBlock
Heads == 0 .. MaxBlock
Contracts == 1 .. MaxContract
NoContract == 0   \* the watermark is not initialized
Intervals == [from : Heads, to : Heads]
NoPlan == [from |-> 0, to |-> 0]
Span(i) == i.from .. i.to

\* A batch prefix range_<from>_<to>: its readable events, the contract of its
\* _CONTRACT marker, and whether its _COMMITTED marker exists.
Batches == [blocks : SUBSET Blocks, contract : Contracts \cup {NoContract},
            sealed : BOOLEAN]
NoBatch == [blocks |-> {}, contract |-> NoContract, sealed |-> FALSE]

Steps == {"idle", "plan", "clear", "write", "mark", "seal", "ledger", "silver", "publish",
          "check", "commit"}

VARIABLES
  head,        \* the confirmed safe head
  live,        \* blocks in live Bronze, written by the stream
  contract,    \* the contract of the current pool metadata
  committed,   \* the uniswap_forward watermark, 0 before it exists
  tag,         \* the contract its successful_run_id names
  ledger,      \* PIPELINE_COMPLETED_RANGES
  bronze,      \* the recovery batches
  silver,      \* blocks readable under the Silver root
  increments,  \* the intervals whose increment path exists
  broken,      \* those of them that hold no readable file
  work         \* each worker's attempt

vars == <<head, live, contract, committed, tag, ledger, bronze, silver, increments,
          broken, work>>

source == <<head, live, contract>>
control == <<committed, tag, ledger>>
lake == <<bronze, silver, increments, broken>>

Attempts == [kind : {"forward", "bootstrap"}, step : Steps, plan : Intervals,
             contract : Contracts \cup {NoContract}, wrote : SUBSET Blocks,
             failed : BOOLEAN]

Idle(failed) ==
  [kind |-> "forward", step |-> "idle", plan |-> NoPlan, contract |-> NoContract,
   wrote |-> {}, failed |-> failed]

At(w, s) == work[w].step = s
Plan(w) == work[w].plan
Goto(w, s) == work' = [work EXCEPT ![w].step = s]
Succeed(w) == work' = [work EXCEPT ![w] = Idle(FALSE)]
Fail(w) == work' = [work EXCEPT ![w] = Idle(TRUE)]

\* ---- Starting and planning -----------------------------------------------------

\* A forward run needs the watermark, a bootstrap must find none.
Start(w) ==
  /\ At(w, "idle")
  /\ work' = [work EXCEPT ![w] =
                [Idle(FALSE) EXCEPT
                   !.step = "plan",
                   !.kind = IF tag = NoContract THEN "bootstrap" ELSE "forward"]]
  /\ UNCHANGED <<source, control, lake>>

Covered(b) == \E e \in ledger : e.from <= b /\ b <= e.to

\* highest_contiguous_block of the ledger.
Contiguous == CHOOSE b \in Heads :
                /\ \A a \in 1 .. b : Covered(a)
                /\ b = MaxBlock \/ ~Covered(b + 1)

\* Where the next interval starts: behind the watermark, behind the ledger, or
\* behind the batch a bootstrap has just recorded.
Position(w) ==
  IF work[w].kind = "forward" THEN committed
  ELSE IF Plan(w) = NoPlan THEN Contiguous ELSE Plan(w).to

\* Nothing is confirmed beyond the position.  A bootstrap ends at the head it
\* read when it started, which may be behind the present one.
PlanNothing(w) ==
  /\ At(w, "plan")
  /\ head <= Position(w) \/ Plan(w) # NoPlan
  /\ work[w].kind = "forward" => tag = contract
  /\ Succeed(w)
  /\ UNCHANGED <<source, control, lake>>

\* UniswapSourceContractChangedError.
RefuseContract(w) ==
  /\ At(w, "plan")
  /\ work[w].kind = "forward" /\ tag # contract
  /\ Fail(w)
  /\ UNCHANGED <<source, control, lake>>

\* plan_recovery_increment, or the chunks of a bootstrap batch.  A bootstrap looks
\* for the watermark and reads the contract once, before its first batch.
PlanInterval(w) ==
  /\ At(w, "plan")
  /\ Position(w) < head
  /\ work[w].kind = "forward" => tag = contract
  /\ LET end == Position(w) + MaxBlocks IN
     work' = [work EXCEPT
                ![w].step = "clear",
                ![w].contract = IF Plan(w) = NoPlan THEN contract ELSE @,
                ![w].plan = [from |-> Position(w) + 1,
                             to |-> IF end <= head THEN end ELSE head]]
  /\ UNCHANGED <<source, control, lake>>

\* ---- The recovery batch: UniswapRecoveryBatchStore.write_and_validate -------------

\* Mutant: a committed batch is used whatever contract it was captured under.
AnyContract(batch, accepted) == TRUE

\* The contract marker named by the attempt exists beside _COMMITTED.
SameContract(batch, accepted) == batch.contract = accepted

\* A committed batch is kept as it is.
KeepBatch(w) ==
  /\ At(w, "clear")
  /\ bronze[Plan(w)].sealed /\ SameContract(bronze[Plan(w)], work[w].contract)
  /\ Goto(w, "ledger")
  /\ UNCHANGED <<source, control, lake>>

RefuseBatch(w) ==
  /\ At(w, "clear")
  /\ bronze[Plan(w)].sealed /\ ~SameContract(bronze[Plan(w)], work[w].contract)
  /\ Fail(w)
  /\ UNCHANGED <<source, control, lake>>

\* Mutant: what a dead attempt left is taken over.
KeepLeftovers(w) ==
  /\ At(w, "clear")
  /\ ~bronze[Plan(w)].sealed
  /\ work' = [work EXCEPT ![w].step = IF bronze[Plan(w)].blocks = {} THEN "write" ELSE "mark",
                          ![w].wrote = bronze[Plan(w)].blocks]
  /\ UNCHANGED <<source, control, lake>>

\* delete_dataset removes what a dead attempt left.
ClearBatch(w) ==
  /\ At(w, "clear")
  /\ ~bronze[Plan(w)].sealed
  /\ bronze' = [bronze EXCEPT ![Plan(w)] = NoBatch]
  /\ Goto(w, "write")
  /\ UNCHANGED <<source, control, silver, increments, broken>>

\* The decoded events of the interval, left-anti joined with live Bronze.
Missing(i) == Span(i) \ (live \cup Malformed)

WriteBatch(w) ==
  /\ At(w, "write")
  /\ bronze' = [bronze EXCEPT ![Plan(w)].blocks = Missing(Plan(w))]
  /\ work' = [work EXCEPT ![w].step = "mark", ![w].wrote = Missing(Plan(w))]
  /\ UNCHANGED <<source, control, silver, increments, broken>>

TearBatch(w) ==
  /\ At(w, "write")
  /\ \E part \in SUBSET Missing(Plan(w)) :
       bronze' = [bronze EXCEPT ![Plan(w)].blocks = part]
  /\ Fail(w)
  /\ UNCHANGED <<source, control, silver, increments, broken>>

\* Mutant: the batch is not sealed.
ValidateOnly(w) ==
  /\ At(w, "mark")
  /\ bronze' = [bronze EXCEPT ![Plan(w)].contract = work[w].contract]
  /\ work' = [work EXCEPT ![w].step = "ledger", ![w].wrote = {}]
  /\ UNCHANGED <<source, control, silver, increments, broken>>

\* Reads the batch back; the contract marker comes before _COMMITTED.
ValidateBatch(w) ==
  /\ At(w, "mark")
  /\ IF bronze[Plan(w)].blocks = work[w].wrote
     THEN /\ bronze' = [bronze EXCEPT ![Plan(w)].contract = work[w].contract]
          /\ Goto(w, "seal")
     ELSE /\ Fail(w)
          /\ UNCHANGED bronze
  /\ UNCHANGED <<source, control, silver, increments, broken>>

SealBatch(w) ==
  /\ At(w, "seal")
  /\ bronze' = [bronze EXCEPT ![Plan(w)].sealed = TRUE]
  /\ work' = [work EXCEPT ![w].step = "ledger", ![w].wrote = {}]
  /\ UNCHANGED <<source, control, silver, increments, broken>>

\* ---- The ledger ---------------------------------------------------------------

ChunkEnds(i) == {b \in Span(i) : (b - i.from + 1) % ChunkSize = 0}

\* The leaves of the fetch: cut after every chunk, and wherever a failed query
\* of any address group split the range.
Leaves(i, cuts) ==
  {e \in [from : Span(i), to : Span(i)] :
     /\ e.from = i.from \/ e.from - 1 \in cuts
     /\ e.to = i.to \/ e.to \in cuts
     /\ e.from <= e.to
     /\ \A c \in cuts : ~(e.from <= c /\ c < e.to)}

\* Each attempt has a processed_at of its own, so a recorded range conflicts.
RecordRanges(w) ==
  /\ At(w, "ledger")
  /\ \E cuts \in SUBSET Span(Plan(w)) :
       /\ ChunkEnds(Plan(w)) \subseteq cuts
       /\ Leaves(Plan(w), cuts) \cap ledger = {}
       /\ ledger' = ledger \cup Leaves(Plan(w), cuts)
  /\ Goto(w, IF work[w].kind = "forward" THEN "silver" ELSE "plan")
  /\ UNCHANGED <<source, committed, tag, lake>>

RefuseRanges(w) ==
  /\ At(w, "ledger")
  /\ \E cuts \in SUBSET Span(Plan(w)) :
       /\ ChunkEnds(Plan(w)) \subseteq cuts
       /\ Leaves(Plan(w), cuts) \cap ledger # {}
  /\ Fail(w)
  /\ UNCHANGED <<source, control, lake>>

\* ---- Silver, RAW, dbt and the commit ---------------------------------------------

\* An increment that exists is only counted.
KeepIncrement(w) ==
  /\ At(w, "silver")
  /\ Plan(w) \in increments \ broken
  /\ Goto(w, "publish")
  /\ UNCHANGED <<source, control, lake>>

\* It exists, but there is no file to read a schema from.
UnreadableIncrement(w) ==
  /\ At(w, "silver")
  /\ Plan(w) \in increments \cap broken
  /\ Fail(w)
  /\ UNCHANGED <<source, control, lake>>

\* The events of the batch that are not under the Silver root yet.
WriteIncrement(w) ==
  /\ At(w, "silver")
  /\ Plan(w) \notin increments
  /\ silver' = silver \cup bronze[Plan(w)].blocks
  /\ increments' = increments \cup {Plan(w)}
  /\ Goto(w, "publish")
  /\ UNCHANGED <<source, control, bronze, broken>>

TearIncrement(w) ==
  /\ At(w, "silver")
  /\ Plan(w) \notin increments
  /\ \E part \in SUBSET (bronze[Plan(w)].blocks \ silver) :
       /\ silver' = silver \cup part
       /\ broken' \in {broken, IF part = {} THEN broken \cup {Plan(w)} ELSE broken}
  /\ increments' = increments \cup {Plan(w)}
  /\ Fail(w)
  /\ UNCHANGED <<source, control, bronze>>

\* load_raw copies and merges whatever is under the Silver root, dbt runs and
\* tests; each of them may fail (Die).
PublishSilver(w) ==
  /\ At(w, "publish")
  /\ Goto(w, "check")
  /\ UNCHANGED <<source, control, lake>>

\* assert_source_contract_matches, on the watermark read again.
CheckContract(w) ==
  /\ At(w, "check")
  /\ IF tag = work[w].contract THEN Goto(w, "commit") ELSE Fail(w)
  /\ UNCHANGED <<source, control, lake>>

\* Mutant: a no-op answer of the commit is taken for success.
CommitNothing(w) ==
  /\ At(w, "commit")
  /\ Succeed(w)
  /\ UNCHANGED <<source, control, lake>>

\* commit_watermark_from_expected: the new successful_run_id names the contract
\* of the capture, whatever the row named by now: its read and its UPDATE compare
\* the planned position only. A row another worker has moved is a conflict.
CommitWatermark(w) ==
  /\ At(w, "commit")
  /\ IF committed = Plan(w).from - 1
     THEN committed' = Plan(w).to /\ tag' = work[w].contract /\ Succeed(w)
     ELSE Fail(w) /\ UNCHANGED <<committed, tag>>
  /\ UNCHANGED <<source, ledger, lake>>

\* An RPC, Spark, Snowflake or dbt error, or a timeout.
Die(w) ==
  /\ ~At(w, "idle")
  /\ Fail(w)
  /\ UNCHANGED <<source, control, lake>>

\* ---- The rest of the world -------------------------------------------------------

GrowHead ==
  /\ head < MaxBlock
  /\ head' = head + 1
  /\ UNCHANGED <<live, contract, control, lake, work>>

\* The streaming writer appends at any time, also behind the watermark.
StreamAppend ==
  /\ \E b \in Streamed \ live : live' = live \cup {b}
  /\ UNCHANGED <<head, contract, control, lake, work>>

\* The pool metadata gains a verified pool.
ChangeContract ==
  /\ contract < MaxContract
  /\ contract' = contract + 1
  /\ UNCHANGED <<head, live, control, lake, work>>

\* An operator initializes the watermark where bootstrap_eligible_value allows it,
\* or accepts the changed contract, at any time: also between an attempt's check
\* of the contract and its UPDATE.
Initialize ==
  /\ tag = NoContract
  /\ \E b \in 1 .. Contiguous : committed' = b
  /\ tag' = contract
  /\ UNCHANGED <<source, ledger, lake, work>>

Reaccept ==
  /\ tag \notin {NoContract, contract}
  /\ tag' = contract
  /\ UNCHANGED <<source, committed, ledger, lake, work>>

\* build_uniswap_silver replaces the root, increments included, from live Bronze
\* and every recovery batch; dying, it leaves any part of old and new.
RebuildSilver ==
  /\ silver' = live \cup UNION {bronze[i].blocks : i \in Intervals}
  /\ increments' = {} /\ broken' = {}
  /\ UNCHANGED <<source, control, bronze, work>>

\* ---- Specification -----------------------------------------------------------------

Init ==
  /\ head = 0 /\ live = {} /\ contract = 1
  /\ committed = 0 /\ tag = NoContract /\ ledger = {}
  /\ bronze = [i \in Intervals |-> NoBatch]
  /\ silver = {} /\ increments = {} /\ broken = {}
  /\ work = [w \in Workers |-> Idle(FALSE)]

Capture(w) ==
  \/ PlanNothing(w) \/ RefuseContract(w) \/ PlanInterval(w)
  \/ KeepBatch(w) \/ RefuseBatch(w) \/ ClearBatch(w) \/ WriteBatch(w)
  \/ ValidateBatch(w) \/ SealBatch(w) \/ RecordRanges(w) \/ RefuseRanges(w)

Publish(w) ==
  \/ KeepIncrement(w) \/ UnreadableIncrement(w) \/ WriteIncrement(w)
  \/ PublishSilver(w) \/ CheckContract(w) \/ CommitWatermark(w)

Proceed(w) == Capture(w) \/ Publish(w)

Failure(w) == TearBatch(w) \/ TearIncrement(w) \/ Die(w)

World ==
  \/ GrowHead \/ StreamAppend \/ ChangeContract \/ Initialize \/ Reaccept
  \/ RebuildSilver

Next == (\E w \in Workers : Start(w) \/ Proceed(w) \/ Failure(w)) \/ World

Spec == Init /\ [][Next]_vars

\* A worker that runs keeps running; nobody has to start one.
FairSpec == Spec /\ \A w \in Workers : WF_vars(Proceed(w))

\* ---- Properties -----------------------------------------------------------------------

\* Every variable stays in its domain.
TypeOK ==
  /\ head \in Heads /\ live \subseteq Blocks /\ contract \in Contracts
  /\ committed \in Heads /\ tag \in Contracts \cup {NoContract}
  /\ ledger \subseteq Intervals
  /\ bronze \in [Intervals -> Batches]
  /\ silver \subseteq Blocks
  /\ increments \subseteq Intervals /\ broken \subseteq increments
  /\ work \in [Workers -> Attempts]

\* A _COMMITTED marker promises the whole interval: what the batch lacks is in
\* live Bronze or quarantined, whatever died while the batch was written.
SealedIsComplete ==
  \A i \in Intervals :
    bronze[i].sealed => Span(i) \subseteq bronze[i].blocks \cup live \cup Malformed

Captured(b) ==
  \/ b \in live \cup Malformed
  \/ \E i \in Intervals : bronze[i].sealed /\ b \in bronze[i].blocks

\* The ledger and the watermark, kept in Snowflake, never speak of a block whose
\* events the object store does not hold.
EvidenceIsCaptured ==
  /\ \A b \in Blocks : Covered(b) => Captured(b)
  /\ \A b \in 1 .. committed : Covered(b) /\ Captured(b)

\* The watermark names the contract its progress was captured under: a commit
\* writes the one its batch was sealed with, also when the metadata changed, an
\* operator accepted another meanwhile, or an older attempt left the batch.
TagIsTheCapturedContract ==
  [][(tag # NoContract /\ committed # committed')
       => LET i == [from |-> committed + 1, to |-> committed'] IN
          bronze[i].sealed /\ bronze[i].contract = tag']_vars

\* What a forward run planned is committed, or its attempt fails: an interval is
\* never dropped silently.
PlannedIsCommittedOrFails ==
  \A w \in Workers : \A b \in Blocks :
    (work[w].kind = "forward" /\ Plan(w).to = b) ~> (committed >= b \/ work[w].failed)

\* orchestration/uniswap_recovery.py: source coverage only advances after every
\* downstream boundary succeeded.  So a block the forward runs committed, and
\* that the stream did not deliver, is where the RAW load copies from.
CommittedIsLoaded ==
  [][\A w \in Workers : (At(w, "commit") /\ committed' = Plan(w).to /\ committed < committed')
       => Span(Plan(w)) \subseteq silver \cup live \cup Malformed]_vars

================================================================================
