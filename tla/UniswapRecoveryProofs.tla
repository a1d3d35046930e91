------------------------- MODULE UniswapRecoveryProofs -------------------------
(***************************************************************************)
(* What TLAPS proves of UniswapRecovery for any chain, any batch and chunk   *)
(* size and any contracts: types, and, where the lease lets one worker run,  *)
(* that a sealed batch is complete, that the ledger and the watermark speak  *)
(* of captured blocks only, and that the watermark names the contract its     *)
(* progress was captured under.                                            *)
(*                                                                         *)
(* The argument.  Live Bronze only grows, a sealed batch is never touched    *)
(* again, and a recorded range stays recorded.  So what the one attempt has  *)
(* established about its interval (Progress) holds until it commits, and     *)
(* what dead attempts left behind is either sealed, hence complete, or is    *)
(* cleared before anything is written over it.                               *)
(***************************************************************************)
EXTENDS UniswapRecovery, NaturalBounds, TLAPS

\* What the lease provides while its holders are killed before it expires.
OneWorker == \A v, w \in Workers : v = w

\* An attempt that has planned works on an interval of blocks, under a contract.
Planned ==
  \A w \in Workers :
    /\ work[w].step \notin {"idle", "plan"}
         => Plan(w).from \in Blocks /\ work[w].contract \in Contracts
    /\ Plan(w) # NoPlan => work[w].contract \in Contracts

\* What the attempt of a worker has reached, step by step.
Progress ==
  \A w \in Workers :
    /\ work[w].step \in {"write", "mark", "seal"} => ~bronze[Plan(w)].sealed
    /\ At(w, "mark") => Span(Plan(w)) \subseteq work[w].wrote \cup live \cup Malformed
    /\ At(w, "seal") =>
         /\ Span(Plan(w)) \subseteq bronze[Plan(w)].blocks \cup live \cup Malformed
         /\ bronze[Plan(w)].contract = work[w].contract
    /\ work[w].step \in {"ledger", "silver", "publish", "check", "commit"} =>
         bronze[Plan(w)].sealed /\ bronze[Plan(w)].contract = work[w].contract
    /\ work[w].step \in {"silver", "publish", "check", "commit"} =>
         \A b \in Span(Plan(w)) : Covered(b)

CommittedIsCovered == \A b \in 1 .. committed : Covered(b)

CoveredIsCaptured == \A b \in Blocks : Covered(b) => Captured(b)

IInv ==
  /\ TypeOK /\ Planned /\ Progress /\ SealedIsComplete
  /\ CommittedIsCovered /\ CoveredIsCaptured

USE MaxBlockAssumption, MaxBlocksAssumption, ChunkSizeAssumption, MaxContractAssumption

-------------------------------------------------------------------------------

LEMMA WorkTypes ==
  ASSUME TypeOK, NEW w \in Workers
  PROVE  /\ work[w] \in Attempts
         /\ Plan(w) \in Intervals /\ Plan(w).from \in Heads /\ Plan(w).to \in Heads
         /\ Span(Plan(w)) \subseteq 0 .. MaxBlock
         /\ bronze[Plan(w)] \in Batches
<1>1. work[w] \in Attempts
  BY DEF TypeOK
<1>2. Plan(w) \in Intervals
  BY <1>1 DEF Attempts, Plan
<1>3. Plan(w).from \in Heads /\ Plan(w).to \in Heads
  BY <1>2 DEF Intervals
<1>4. Span(Plan(w)) \subseteq 0 .. MaxBlock
  BY <1>3 DEF Span, Heads
<1>5. bronze[Plan(w)] \in Batches
  BY <1>2 DEF TypeOK
<1> QED
  BY <1>1, <1>2, <1>3, <1>4, <1>5

LEMMA IdleIsAttempt ==
  ASSUME NEW failed \in BOOLEAN
  PROVE  Idle(failed) \in Attempts
BY DEF Idle, Attempts, NoPlan, Intervals, Heads, Steps, NoContract

\* Where the ledger's contiguous coverage ends is a block, and all before it is covered.
LEMMA ContiguousIsCovered ==
  /\ Contiguous \in Heads
  /\ \A a \in 1 .. Contiguous : Covered(a)
<1> DEFINE S == {b \in Heads : \A a \in 1 .. b : Covered(a)}
           End(b) == /\ \A a \in 1 .. b : Covered(a)
                     /\ b = MaxBlock \/ ~Covered(b + 1)
<1>1. 0 \in S
  BY DEF Heads
<1>2. PICK m \in S : \A k \in S : k <= m
  <2>1. S \subseteq 0 .. MaxBlock /\ S # {}
    BY <1>1 DEF Heads
  <2> HIDE DEF S
  <2> QED
    BY <2>1, GreatestElement
<1>3. m \in Heads /\ m \in Nat /\ \A a \in 1 .. m : Covered(a)
  BY DEF Heads
<1>4. ASSUME m # MaxBlock, Covered(m + 1)
      PROVE  FALSE
  <2>1. m + 1 \in Heads /\ \A a \in 1 .. m + 1 : a \in 1 .. m \/ a = m + 1
    BY <1>3, <1>4 DEF Heads
  <2>2. \A a \in 1 .. m + 1 : Covered(a)
    BY <1>3, <1>4, <2>1
  <2>3. m + 1 \in S
    BY <2>1, <2>2
  <2>4. m + 1 <= m
    BY <1>2, <2>3
  <2> QED
    BY <1>3, <2>4
<1>5. End(m)
  BY <1>3, <1>4
<1>6. \E b \in Heads : End(b)
  BY <1>3, <1>5
<1>7. Contiguous = CHOOSE b \in Heads : End(b)
  BY DEF Contiguous
<1>8. Contiguous \in Heads /\ End(Contiguous)
  <2> HIDE DEF End
  <2> QED
    BY <1>6, <1>7
<1> QED
  BY <1>8

LEMMA LeavesAreIntervals ==
  ASSUME NEW i \in Intervals, NEW cuts
  PROVE  Leaves(i, cuts) \subseteq Intervals
BY DEF Leaves, Intervals, Span, Heads

\* The leaves of an interval cover it, wherever failed queries split the ranges.
LEMMA LeavesCover ==
  ASSUME NEW i \in Intervals, NEW cuts \in SUBSET Span(i), NEW b \in Span(i)
  PROVE  \E leaf \in Leaves(i, cuts) : leaf.from <= b /\ b <= leaf.to
<1>1. i.from \in Nat /\ i.to \in Nat /\ Span(i) = i.from .. i.to
  BY DEF Intervals, Heads, Span
<1>2. PICK lo, hi : Piece(i.from, i.to, cuts, b, lo, hi)
  BY <1>1, PieceOfCut
<1> DEFINE leaf == [from |-> lo, to |-> hi]
<1>3. leaf \in Leaves(i, cuts) /\ leaf.from <= b /\ b <= leaf.to
  BY <1>1, <1>2 DEF Leaves, Piece
<1> QED
  BY <1>3

\* A leaf lies within its interval.
LEMMA LeavesWithin ==
  ASSUME NEW i \in Intervals, NEW cuts, NEW leaf \in Leaves(i, cuts),
         NEW b \in Int, leaf.from <= b, b <= leaf.to
  PROVE  b \in Span(i)
BY DEF Leaves, Intervals, Heads, Span

-------------------------------------------------------------------------------

LEMMA TypingStep ==
  ASSUME TypeOK, Planned, [Next]_vars
  PROVE  TypeOK'
<1> USE DEF source, control, lake
<1>1. CASE UNCHANGED vars
  BY <1>1 DEF vars, TypeOK
<1>2. CASE World
  <2>1. CASE GrowHead \/ StreamAppend \/ ChangeContract \/ Reaccept
    <3>1. live' \subseteq Blocks
      <4>1. Streamed \subseteq Blocks /\ live \subseteq Blocks
        BY StreamedAssumption DEF Blocks, TypeOK
      <4> QED
        BY <2>1, <4>1 DEF GrowHead, StreamAppend, ChangeContract, Reaccept
    <3>2. head' \in Heads /\ contract' \in Contracts /\ tag' \in Contracts \cup {NoContract}
      BY <2>1 DEF GrowHead, StreamAppend, ChangeContract, Reaccept, TypeOK, Heads, Contracts
    <3> QED
      BY <2>1, <3>1, <3>2 DEF GrowHead, StreamAppend, ChangeContract, Reaccept, TypeOK
  <2>2. CASE Initialize
    BY <2>2, ContiguousIsCovered DEF Initialize, TypeOK, Heads
  <2>3. CASE RebuildSilver
    <3>1. \A i \in Intervals : bronze[i].blocks \subseteq Blocks
      BY DEF TypeOK, Batches
    <3> QED
      BY <2>3, <3>1 DEF RebuildSilver, TypeOK
  <2> QED
    BY <1>2, <2>1, <2>2, <2>3 DEF World
<1>3. ASSUME NEW w \in Workers, Start(w)
      PROVE  TypeOK'
  <2>1. work' \in [Workers -> Attempts]
    BY <1>3, IdleIsAttempt DEF Start, TypeOK, Attempts, Steps
  <2> QED
    BY <1>3, <2>1 DEF Start, TypeOK
<1>4. ASSUME NEW w \in Workers,
             \/ PlanNothing(w) \/ RefuseContract(w) \/ RefuseBatch(w) \/ RefuseRanges(w)
             \/ UnreadableIncrement(w) \/ Die(w)
      PROVE  TypeOK'
  <2>1. work' = [work EXCEPT ![w] = Idle(TRUE)] \/ work' = [work EXCEPT ![w] = Idle(FALSE)]
    BY <1>4 DEF PlanNothing, RefuseContract, RefuseBatch, RefuseRanges, UnreadableIncrement,
                Die, Succeed, Fail
  <2>2. work' \in [Workers -> Attempts]
    BY <2>1, IdleIsAttempt DEF TypeOK
  <2>3. UNCHANGED <<source, control, lake>>
    BY <1>4 DEF PlanNothing, RefuseContract, RefuseBatch, RefuseRanges, UnreadableIncrement,
                Die
  <2> QED
    BY <2>2, <2>3 DEF TypeOK
<1>5. ASSUME NEW w \in Workers, PlanInterval(w)
      PROVE  TypeOK'
  <2> DEFINE end == Position(w) + MaxBlocks
             plan == [from |-> Position(w) + 1, to |-> IF end <= head THEN end ELSE head]
  <2>1. Position(w) \in Heads
    BY ContiguousIsCovered, WorkTypes DEF Position, TypeOK
  <2>2. plan \in Intervals
    BY <1>5, <2>1 DEF PlanInterval, Intervals, Heads, TypeOK
  <2>3. \A c \in Contracts \cup {NoContract} :
          [work[w] EXCEPT !.step = "clear", !.contract = c, !.plan = plan] \in Attempts
    BY <2>2, WorkTypes DEF Attempts, Steps
  <2>4. contract \in Contracts /\ work[w].contract \in Contracts \cup {NoContract}
    BY WorkTypes DEF TypeOK, Attempts
  <2>5. work' \in [Workers -> Attempts]
    BY <1>5, <2>3, <2>4 DEF PlanInterval, TypeOK
  <2> QED
    BY <1>5, <2>5 DEF PlanInterval, TypeOK
<1>6. ASSUME NEW w \in Workers, NEW s \in Steps, Goto(w, s)
      PROVE  work' \in [Workers -> Attempts]
  BY <1>6 DEF Goto, TypeOK, Attempts
<1>7. ASSUME NEW w \in Workers,
             KeepBatch(w) \/ KeepIncrement(w) \/ PublishSilver(w) \/ CheckContract(w)
      PROVE  TypeOK'
  <2>1. work' \in [Workers -> Attempts]
    BY <1>6, <1>7, IdleIsAttempt
       DEF KeepBatch, KeepIncrement, PublishSilver, CheckContract, Fail, Steps, TypeOK
  <2> QED
    BY <1>7, <2>1 DEF KeepBatch, KeepIncrement, PublishSilver, CheckContract, TypeOK
<1>8. ASSUME NEW w \in Workers, ClearBatch(w) \/ SealBatch(w)
      PROVE  TypeOK'
  <2>1. work' \in [Workers -> Attempts]
    <3>1. [work[w] EXCEPT !.step = "ledger", !.wrote = {}] \in Attempts
      BY WorkTypes DEF Attempts, Steps
    <3> QED
      BY <1>6, <1>8, <3>1 DEF ClearBatch, SealBatch, Steps, TypeOK
  <2>2. NoBatch \in Batches /\ [bronze[Plan(w)] EXCEPT !.sealed = TRUE] \in Batches
    BY WorkTypes DEF NoBatch, Batches, NoContract
  <2>3. bronze' \in [Intervals -> Batches]
    BY <1>8, <2>2, WorkTypes DEF ClearBatch, SealBatch, TypeOK
  <2> QED
    BY <1>8, <2>1, <2>3 DEF ClearBatch, SealBatch, TypeOK
<1>9. ASSUME NEW w \in Workers, WriteBatch(w) \/ TearBatch(w)
      PROVE  TypeOK'
  <2>1. Missing(Plan(w)) \subseteq Blocks
    BY <1>9, WorkTypes DEF Missing, Blocks, Span, Heads, Planned, WriteBatch, TearBatch, At
  <2>2. ASSUME NEW part \in SUBSET Blocks
        PROVE  [bronze[Plan(w)] EXCEPT !.blocks = part] \in Batches
    BY WorkTypes DEF Batches
  <2>3. PICK part \in SUBSET Blocks :
          bronze' = [bronze EXCEPT ![Plan(w)] = [bronze[Plan(w)] EXCEPT !.blocks = part]]
    BY <1>9, <2>1 DEF WriteBatch, TearBatch
  <2>4. work' \in [Workers -> Attempts]
    <3>1. [work[w] EXCEPT !.step = "mark", !.wrote = Missing(Plan(w))] \in Attempts
      BY <2>1, WorkTypes DEF Attempts, Steps
    <3> QED
      BY <1>9, <3>1, IdleIsAttempt DEF WriteBatch, TearBatch, Fail, TypeOK
  <2>5. bronze' \in [Intervals -> Batches]
    BY <2>2, <2>3 DEF TypeOK
  <2> QED
    BY <1>9, <2>4, <2>5 DEF WriteBatch, TearBatch, TypeOK
<1>10. ASSUME NEW w \in Workers, ValidateBatch(w)
      PROVE  TypeOK'
  <2>1. [bronze[Plan(w)] EXCEPT !.contract = work[w].contract] \in Batches
    BY WorkTypes DEF Batches, Attempts
  <2>2. bronze' \in [Intervals -> Batches]
    BY <1>10, <2>1, WorkTypes DEF ValidateBatch, TypeOK
  <2>3. work' \in [Workers -> Attempts]
    BY <1>6, <1>10, IdleIsAttempt DEF ValidateBatch, Fail, Steps, TypeOK
  <2> QED
    BY <1>10, <2>2, <2>3 DEF ValidateBatch, TypeOK
<1>11. ASSUME NEW w \in Workers, RecordRanges(w)
      PROVE  TypeOK'
  <2>1. ledger' \subseteq Intervals
    BY <1>11, WorkTypes, LeavesAreIntervals DEF RecordRanges, TypeOK
  <2>2. work' \in [Workers -> Attempts]
    BY <1>6, <1>11 DEF RecordRanges, Steps
  <2> QED
    BY <1>11, <2>1, <2>2 DEF RecordRanges, TypeOK
<1>12. ASSUME NEW w \in Workers, WriteIncrement(w) \/ TearIncrement(w)
      PROVE  TypeOK'
  <2>1. bronze[Plan(w)].blocks \subseteq Blocks /\ Plan(w) \in Intervals
    BY WorkTypes DEF Batches
  <2>2. silver' \subseteq Blocks /\ increments' \subseteq Intervals /\ broken' \subseteq increments'
    BY <1>12, <2>1 DEF WriteIncrement, TearIncrement, TypeOK
  <2>3. work' \in [Workers -> Attempts]
    BY <1>6, <1>12, IdleIsAttempt DEF WriteIncrement, TearIncrement, Fail, Steps, TypeOK
  <2> QED
    BY <1>12, <2>2, <2>3 DEF WriteIncrement, TearIncrement, TypeOK
<1>13. ASSUME NEW w \in Workers, CommitWatermark(w)
      PROVE  TypeOK'
  <2>1. committed' \in Heads /\ tag' \in Contracts \cup {NoContract}
    BY <1>13, WorkTypes DEF CommitWatermark, Attempts, TypeOK
  <2>2. work' \in [Workers -> Attempts]
    BY <1>13, IdleIsAttempt DEF CommitWatermark, Succeed, Fail, TypeOK
  <2> QED
    BY <1>13, <2>1, <2>2 DEF CommitWatermark, TypeOK
<1> QED
  BY <1>1, <1>2, <1>3, <1>4, <1>5, <1>7, <1>8, <1>9, <1>10, <1>11, <1>12, <1>13
     DEF Next, Proceed, Capture, Publish, Failure

-------------------------------------------------------------------------------

\* The steps after which an attempt is over.
Ends(w) ==
  \/ PlanNothing(w) \/ RefuseContract(w) \/ RefuseBatch(w) \/ RefuseRanges(w)
  \/ UnreadableIncrement(w) \/ Die(w)
  \/ TearBatch(w) \/ TearIncrement(w) \/ CommitWatermark(w)

\* What plan_recovery_increment returns: an interval behind the position, under the
\* contract of the moment or, in a bootstrap, that of its first batch.
LEMMA PlannedInterval ==
  ASSUME TypeOK, Planned, NEW w \in Workers, PlanInterval(w)
  PROVE  /\ work'[w].step = "clear"
         /\ work'[w].contract \in Contracts
         /\ work'[w].plan.from \in Blocks
<1> DEFINE end == Position(w) + MaxBlocks
           plan == [from |-> Position(w) + 1, to |-> IF end <= head THEN end ELSE head]
           under == IF Plan(w) = NoPlan THEN contract ELSE work[w].contract
<1>1. Position(w) \in Heads /\ Position(w) < head /\ head \in Heads
  BY ContiguousIsCovered, WorkTypes DEF PlanInterval, Position, TypeOK
<1>2. plan.from \in Blocks
  BY <1>1 DEF Blocks, Heads
<1>3. work' = [work EXCEPT ![w] =
                 [work[w] EXCEPT !.step = "clear", !.contract = under, !.plan = plan]]
  BY DEF PlanInterval
<1>4. work[w] \in Attempts /\ work \in [Workers -> Attempts] /\ under \in Contracts
  BY DEF TypeOK, Planned
<1>5. /\ work'[w].step = "clear" /\ work'[w].contract = under
      /\ work'[w].plan = plan
  <2> HIDE DEF plan, under
  <2> QED
    BY <1>3, <1>4 DEF Attempts
<1> QED
  BY <1>2, <1>4, <1>5

\* An attempt that has planned keeps its interval and its contract until it ends, whatever
\* the other workers do.
LEMMA PlannedStep ==
  ASSUME TypeOK, Planned, [Next]_vars
  PROVE  Planned'
<1> USE DEF source, control, lake
<1>0. work \in [Workers -> Attempts]
  BY DEF TypeOK
<1>1. CASE UNCHANGED work
  BY <1>1 DEF Planned, Plan
<1>2. ASSUME NEW w \in Workers, Start(w) \/ Proceed(w) \/ Failure(w)
      PROVE  Planned'
  <2>1. \A v \in Workers \ {w} : work'[v] = work[v]
    BY <1>0, <1>2
       DEF Start, Proceed, Capture, Publish, Failure, PlanNothing, RefuseContract,
           PlanInterval, KeepBatch, RefuseBatch, ClearBatch, WriteBatch, ValidateBatch,
           SealBatch, RecordRanges, RefuseRanges, KeepIncrement, UnreadableIncrement,
           WriteIncrement, PublishSilver, CheckContract, CommitWatermark, TearBatch,
           TearIncrement, Die, Goto, Succeed, Fail
  <2>2. CASE Start(w)
    BY <1>0, <2>1, <2>2 DEF Start, Planned, Plan, Idle
  <2>3. CASE PlanInterval(w)
    BY <2>1, <2>3, PlannedInterval DEF Planned, Plan
  <2>4. CASE KeepBatch(w) \/ ClearBatch(w) \/ KeepIncrement(w) \/ WriteIncrement(w) \/ PublishSilver(w)
    <3>1. /\ work'[w].plan = work[w].plan /\ work'[w].contract = work[w].contract
          /\ work[w].step \notin {"idle", "plan"}
      BY <1>0, <2>4 DEF KeepBatch, ClearBatch, KeepIncrement, WriteIncrement, PublishSilver,
                        Goto, At, Attempts
    <3> QED
      BY <2>1, <3>1 DEF Planned, Plan
  <2>5. CASE WriteBatch(w) \/ SealBatch(w)
    <3>1. /\ work'[w].plan = work[w].plan /\ work'[w].contract = work[w].contract
          /\ work[w].step \notin {"idle", "plan"}
      BY <1>0, <2>5 DEF WriteBatch, SealBatch, At, Attempts
    <3> QED
      BY <2>1, <3>1 DEF Planned, Plan
  <2>6. CASE ValidateBatch(w) \/ RecordRanges(w) \/ CheckContract(w)
    <3>1. \/ work'[w].step = "idle" /\ work'[w].plan = NoPlan
          \/ /\ work'[w].plan = work[w].plan /\ work'[w].contract = work[w].contract
             /\ work[w].step \notin {"idle", "plan"}
      BY <1>0, <2>6 DEF ValidateBatch, RecordRanges, CheckContract, Goto, Fail, Idle, At,
                        Attempts
    <3> QED
      BY <2>1, <3>1 DEF Planned, Plan
  <2>7. CASE Ends(w)
    <3>1. work'[w].step = "idle" /\ work'[w].plan = NoPlan
      BY <1>0, <2>7 DEF Ends, PlanNothing, RefuseContract, RefuseBatch, RefuseRanges,
                        UnreadableIncrement, Die, TearBatch, TearIncrement,
                        CommitWatermark, Succeed, Fail, Idle
    <3> QED
      BY <2>1, <3>1 DEF Planned, Plan
  <2> QED
    BY <1>2, <2>2, <2>3, <2>4, <2>5, <2>6, <2>7 DEF Proceed, Capture, Publish, Failure, Ends
<1>3. CASE World \/ UNCHANGED vars
  BY <1>1, <1>3 DEF vars, World, GrowHead, StreamAppend, ChangeContract, Initialize, Reaccept,
                    RebuildSilver
<1> QED
  BY <1>2, <1>3 DEF Next

-------------------------------------------------------------------------------

\* Live Bronze and the ledger only grow; nobody touches a sealed batch.
LEMMA Monotone ==
  ASSUME TypeOK, Progress, [Next]_vars
  PROVE  /\ live \subseteq live' /\ ledger \subseteq ledger'
         /\ \A i \in Intervals : bronze[i].sealed => bronze'[i] = bronze[i]
<1> USE DEF source, control, lake
<1>0. bronze \in [Intervals -> Batches]
  BY DEF TypeOK
<1>1. CASE UNCHANGED vars
  BY <1>1 DEF vars
<1>2. CASE World
  BY <1>2 DEF World, GrowHead, StreamAppend, ChangeContract, Initialize, Reaccept, RebuildSilver
<1>3. ASSUME NEW w \in Workers, Start(w) \/ Proceed(w) \/ Failure(w)
      PROVE  /\ live \subseteq live' /\ ledger \subseteq ledger'
             /\ \A i \in Intervals : bronze[i].sealed => bronze'[i] = bronze[i]
  <2>1. UNCHANGED bronze \/ (~bronze[Plan(w)].sealed /\ \A i \in Intervals \ {Plan(w)} : bronze'[i] = bronze[i])
    <3>1. CASE ClearBatch(w)
      BY <1>0, <3>1 DEF ClearBatch
    <3>2. CASE WriteBatch(w)
      BY <1>0, <3>2 DEF WriteBatch, Progress, At
    <3>3. CASE TearBatch(w)
      BY <1>0, <3>3 DEF TearBatch, Progress, At
    <3>4. CASE ValidateBatch(w)
      BY <1>0, <3>4 DEF ValidateBatch, Progress, At
    <3>5. CASE SealBatch(w)
      BY <1>0, <3>5 DEF SealBatch, Progress, At
    <3> QED
      BY <1>3, <3>1, <3>2, <3>3, <3>4, <3>5
         DEF Start, Proceed, Capture, Publish, Failure, PlanNothing, RefuseContract,
             PlanInterval, KeepBatch, RefuseBatch, RecordRanges, RefuseRanges, KeepIncrement,
             UnreadableIncrement, WriteIncrement, PublishSilver, CheckContract, CommitWatermark,
             TearIncrement, Die
  <2>2. UNCHANGED live /\ ledger \subseteq ledger'
    BY <1>3
       DEF Start, Proceed, Capture, Publish, Failure, PlanNothing, RefuseContract,
           PlanInterval, KeepBatch, RefuseBatch, ClearBatch, WriteBatch, ValidateBatch,
           SealBatch, RecordRanges, RefuseRanges, KeepIncrement, UnreadableIncrement,
           WriteIncrement, PublishSilver, CheckContract, CommitWatermark, TearBatch,
           TearIncrement, Die
  <2> QED
    BY <2>1, <2>2
<1> QED
  BY <1>1, <1>2, <1>3 DEF Next

\* A block stays covered and captured.
LEMMA EvidenceStays ==
  ASSUME TypeOK, Progress, [Next]_vars, NEW b
  PROVE  /\ Covered(b) => Covered(b)'
         /\ Captured(b) => Captured(b)'
<1>1. Covered(b) => Covered(b)'
  BY Monotone DEF Covered
<1>2. Captured(b) => Captured(b)'
  BY Monotone DEF Captured
<1> QED
  BY <1>1, <1>2

\* The attempts' part of the invariant: an attempt that ends leaves nothing to show, and
\* one that goes on has established what the next step relies on.
LEMMA ProgressStep ==
  ASSUME OneWorker, TypeOK, Planned, Progress, [Next]_vars
  PROVE  Progress'
<1> USE DEF source, control, lake
<1>0. /\ bronze \in [Intervals -> Batches] /\ work \in [Workers -> Attempts]
      /\ TypeOK'
  BY TypingStep DEF TypeOK
<1>1. CASE UNCHANGED work /\ UNCHANGED bronze
  <2>2. \A b : Covered(b) => Covered(b)'
    BY EvidenceStays
  <2>3. live \subseteq live'
    BY Monotone
  <2>4. Progress'
    BY <1>1, <2>2, <2>3 DEF Progress, Plan, At
  <2> QED
    BY <2>4
<1>2. ASSUME NEW w \in Workers, work'[w].step \in {"idle", "plan"}
      PROVE  Progress'
  BY <1>2 DEF OneWorker, Planned, Progress, At
<1>3. ASSUME NEW w \in Workers, Start(w) \/ Ends(w)
      PROVE  Progress'
  <2>1. work'[w].step \in {"idle", "plan"}
    <3>1. CASE Start(w)
      BY <1>0, <3>1 DEF Start, Idle
    <3>2. CASE Ends(w)
      BY <1>0, <3>2 DEF Ends, PlanNothing, RefuseContract, RefuseBatch, RefuseRanges,
                        UnreadableIncrement, Die, TearBatch, TearIncrement,
                        CommitWatermark, Succeed, Fail, Idle
    <3> QED
      BY <1>3, <3>1, <3>2
  <2> QED
    BY <1>2, <2>1
<1>4. ASSUME NEW w \in Workers, PlanInterval(w)
      PROVE  Progress'
  BY <1>4, PlannedInterval DEF OneWorker, Progress, At
<1>5. ASSUME NEW w \in Workers, KeepBatch(w)
      PROVE  Progress'
  <2>1. work[w].step = "clear" /\ work' = [work EXCEPT ![w].step = "ledger"] /\ UNCHANGED bronze
    BY <1>5 DEF KeepBatch, Goto, At
  <2>2. work'[w].step = "ledger" /\ work'[w].plan = work[w].plan /\ work'[w].contract = work[w].contract
    BY <1>0, <2>1 DEF Attempts
  <2> QED
    BY <1>5, <2>1, <2>2 DEF KeepBatch, SameContract, OneWorker, Planned, Progress, At, Plan
<1>6. ASSUME NEW w \in Workers, ClearBatch(w)
      PROVE  Progress'
  <2>1. /\ work[w].step = "clear" /\ work'[w].step = "write"
        /\ work'[w].plan = work[w].plan /\ work'[w].contract = work[w].contract
    BY <1>0, <1>6 DEF ClearBatch, Goto, At, Attempts
  <2>2. ~bronze'[Plan(w)].sealed
    BY <1>0, <1>6, WorkTypes DEF ClearBatch, NoBatch
  <2> QED
    BY <2>1, <2>2 DEF OneWorker, Planned, Progress, At, Plan
<1>7. ASSUME NEW w \in Workers, WriteBatch(w)
      PROVE  Progress'
  <2>1. /\ work[w].step = "write" /\ work'[w].step = "mark"
        /\ work'[w].plan = work[w].plan /\ work'[w].contract = work[w].contract
        /\ work'[w].wrote = Missing(Plan(w))
    BY <1>0, <1>7 DEF WriteBatch, At, Attempts
  <2>2. ~bronze'[Plan(w)].sealed
    <3>1. ~bronze[Plan(w)].sealed
      BY <2>1 DEF Progress
    <3> QED
      BY <1>0, <1>7, <3>1, WorkTypes DEF WriteBatch, Batches
  <2>3. Span(Plan(w)) \subseteq Missing(Plan(w)) \cup live' \cup Malformed
    BY Monotone DEF Missing
  <2> QED
    BY <2>1, <2>2, <2>3 DEF OneWorker, Planned, Progress, At, Plan
<1>8. ASSUME NEW w \in Workers, ValidateBatch(w), work'[w].step = "seal"
      PROVE  Progress'
  <2>1. bronze[Plan(w)].blocks = work[w].wrote
    BY <1>0, <1>8 DEF ValidateBatch, Fail, Idle
  <2>2. /\ work[w].step = "mark"
        /\ work'[w].plan = work[w].plan /\ work'[w].contract = work[w].contract
    BY <1>0, <1>8, <2>1 DEF ValidateBatch, Goto, At, Attempts
  <2>3. /\ bronze'[Plan(w)].blocks = bronze[Plan(w)].blocks
        /\ bronze'[Plan(w)].sealed = bronze[Plan(w)].sealed
        /\ bronze'[Plan(w)].contract = work[w].contract
    BY <1>0, <1>8, <2>1, WorkTypes DEF ValidateBatch, Batches
  <2>4. live \subseteq live'
    BY Monotone
  <2>5. /\ ~bronze'[Plan(w)].sealed
        /\ Span(Plan(w)) \subseteq bronze'[Plan(w)].blocks \cup live' \cup Malformed
    BY <2>1, <2>2, <2>3, <2>4 DEF Progress, At
  <2> QED
    BY <1>8, <2>2, <2>3, <2>5 DEF OneWorker, Planned, Progress, At, Plan
<1>9. ASSUME NEW w \in Workers, ValidateBatch(w), work'[w].step # "seal"
      PROVE  Progress'
  <2>1. work'[w].step = "idle"
    BY <1>0, <1>9 DEF ValidateBatch, Goto, Fail, Idle, Attempts
  <2> QED
    BY <1>2, <2>1
<1>10. ASSUME NEW w \in Workers, SealBatch(w)
       PROVE  Progress'
  <2>1. /\ work[w].step = "seal" /\ work'[w].step = "ledger"
        /\ work'[w].plan = work[w].plan /\ work'[w].contract = work[w].contract
    BY <1>0, <1>10 DEF SealBatch, At, Attempts
  <2>2. bronze'[Plan(w)].sealed /\ bronze'[Plan(w)].contract = bronze[Plan(w)].contract
    BY <1>0, <1>10, WorkTypes DEF SealBatch, Batches
  <2>3. bronze[Plan(w)].contract = work[w].contract
    BY <2>1 DEF Progress, At
  <2> QED
    BY <2>1, <2>2, <2>3 DEF OneWorker, Planned, Progress, At, Plan
<1>11. ASSUME NEW w \in Workers, RecordRanges(w)
       PROVE  Progress'
  <2>1. CASE work[w].kind = "forward"
    <3>1. /\ work[w].step = "ledger" /\ work'[w].step = "silver" /\ UNCHANGED bronze
          /\ work'[w].plan = work[w].plan /\ work'[w].contract = work[w].contract
      BY <1>0, <1>11, <2>1 DEF RecordRanges, Goto, At, Attempts
    <3>2. PICK cuts \in SUBSET Span(Plan(w)) : ledger' = ledger \cup Leaves(Plan(w), cuts)
      BY <1>11 DEF RecordRanges
    <3>3. \A b \in Span(Plan(w)) : Covered(b)'
      BY <3>2, WorkTypes, LeavesCover DEF Covered
    <3> QED
      BY <3>1, <3>3 DEF OneWorker, Planned, Progress, At, Plan
  <2>2. CASE work[w].kind # "forward"
    <3>1. work'[w].step = "plan"
      BY <1>0, <1>11, <2>2 DEF RecordRanges, Goto
    <3> QED
      BY <1>2, <3>1
  <2> QED
    BY <2>1, <2>2
<1>12. ASSUME NEW w \in Workers, KeepIncrement(w) \/ WriteIncrement(w) \/ PublishSilver(w)
       PROVE  Progress'
  <2>1. /\ work[w].step \in {"silver", "publish"} /\ work'[w].step \in {"publish", "check"}
        /\ work'[w].plan = work[w].plan /\ work'[w].contract = work[w].contract
        /\ UNCHANGED <<bronze, ledger, live>>
    BY <1>0, <1>12 DEF KeepIncrement, WriteIncrement, PublishSilver, Goto, At, Attempts
  <2> QED
    BY <2>1 DEF OneWorker, Planned, Progress, At, Plan, Covered
<1>13. ASSUME NEW w \in Workers, CheckContract(w)
       PROVE  Progress'
  <2>1. CASE tag = work[w].contract
    <3>1. /\ work[w].step = "check" /\ work'[w].step = "commit"
          /\ work'[w].plan = work[w].plan /\ work'[w].contract = work[w].contract
          /\ UNCHANGED <<bronze, ledger, live>>
      BY <1>0, <1>13, <2>1 DEF CheckContract, Goto, At, Attempts
    <3> QED
      BY <3>1 DEF OneWorker, Planned, Progress, At, Plan, Covered
  <2>2. CASE tag # work[w].contract
    <3>1. work'[w].step = "idle"
      BY <1>0, <1>13, <2>2 DEF CheckContract, Fail, Idle
    <3> QED
      BY <1>2, <3>1
  <2> QED
    BY <2>1, <2>2
<1>14. CASE World \/ UNCHANGED vars
  BY <1>1, <1>14 DEF vars, World, GrowHead, StreamAppend, ChangeContract, Initialize, Reaccept,
                     RebuildSilver
<1> QED
  BY <1>3, <1>4, <1>5, <1>6, <1>7, <1>8, <1>9, <1>10, <1>11, <1>12, <1>13,
     <1>14
     DEF Next, Proceed, Capture, Publish, Failure, Ends

-------------------------------------------------------------------------------

LEMMA TypingInit ==
  ASSUME Init
  PROVE  TypeOK /\ Planned
<1>1. NoBatch \in Batches
  BY DEF NoBatch, Batches
<1>2. 0 \in Heads /\ 1 \in Contracts
  BY DEF Heads, Contracts
<1>3. TypeOK
  BY <1>1, <1>2, IdleIsAttempt DEF Init, TypeOK, NoContract
<1>4. Planned
  BY DEF Init, Planned, Plan, Idle
<1> QED
  BY <1>3, <1>4

\* Types, for any number of workers and whatever they do to each other's batches.
THEOREM Typing == Spec => []TypeOK
<1>1. Init => TypeOK /\ Planned
  BY TypingInit
<1>2. TypeOK /\ Planned /\ [Next]_vars => TypeOK' /\ Planned'
  BY TypingStep, PlannedStep
<1> QED
  BY <1>1, <1>2, PTL DEF Spec

\* What a sealed batch promises was established when its writer read it back, and no later
\* writer touches it: SealedIsComplete is preserved.
LEMMA SealedStep ==
  ASSUME TypeOK, Progress, SealedIsComplete, [Next]_vars
  PROVE  SealedIsComplete'
<1>1. ASSUME NEW i \in Intervals, bronze[i].sealed
      PROVE  Span(i) \subseteq bronze'[i].blocks \cup live' \cup Malformed
  BY <1>1, Monotone DEF SealedIsComplete
<1>2. ASSUME NEW i \in Intervals, ~bronze[i].sealed, bronze'[i].sealed
      PROVE  Span(i) \subseteq bronze'[i].blocks \cup live' \cup Malformed
  <2>0. bronze \in [Intervals -> Batches]
    BY DEF TypeOK
  <2>1. ASSUME NEW w \in Workers, Start(w) \/ Proceed(w) \/ Failure(w)
        PROVE  SealBatch(w)
    <3>1. CASE ClearBatch(w)
      BY <1>2, <2>0, <3>1, WorkTypes DEF ClearBatch, NoBatch
    <3>2. CASE WriteBatch(w) \/ TearBatch(w) \/ ValidateBatch(w)
      BY <1>2, <2>0, <3>2, WorkTypes DEF WriteBatch, TearBatch, ValidateBatch, Batches
    <3>3. CASE UNCHANGED bronze
      BY <1>2, <3>3
    <3> QED
      BY <2>1, <3>1, <3>2, <3>3
         DEF Start, Proceed, Capture, Publish, Failure, PlanNothing, RefuseContract,
             PlanInterval, KeepBatch, RefuseBatch, RecordRanges, RefuseRanges, KeepIncrement,
             UnreadableIncrement, WriteIncrement, PublishSilver, CheckContract, CommitWatermark,
             TearIncrement, Die, lake
  <2>2. ~(World \/ UNCHANGED vars)
    BY <1>2 DEF vars, World, GrowHead, StreamAppend, ChangeContract, Initialize, Reaccept,
                RebuildSilver, lake
  <2>3. PICK w \in Workers : SealBatch(w)
    BY <2>1, <2>2 DEF Next
  <2>4. i = Plan(w) /\ bronze'[i].blocks = bronze[i].blocks /\ At(w, "seal")
    BY <1>2, <2>0, <2>3, WorkTypes DEF SealBatch, Batches
  <2> QED
    BY <2>4, Monotone DEF Progress
<1> QED
  BY <1>1, <1>2 DEF SealedIsComplete

\* Who extends the ledger, and with what: the leaves of an interval whose sealed batch is
\* complete.
LEMMA LedgerCases ==
  ASSUME TypeOK, Progress, [Next]_vars, ledger' # ledger
  PROVE  \E w \in Workers : \E cuts \in SUBSET Span(Plan(w)) :
           /\ ledger' = ledger \cup Leaves(Plan(w), cuts)
           /\ bronze[Plan(w)].sealed
<1> USE DEF source, control, lake
<1>1. ASSUME NEW w \in Workers, RecordRanges(w)
      PROVE  \E cuts \in SUBSET Span(Plan(w)) :
               /\ ledger' = ledger \cup Leaves(Plan(w), cuts)
               /\ bronze[Plan(w)].sealed
  BY <1>1 DEF RecordRanges, Progress, At
<1>2. ~(World \/ UNCHANGED vars)
  BY DEF vars, World, GrowHead, StreamAppend, ChangeContract, Initialize, Reaccept,
         RebuildSilver
<1>3. ASSUME NEW w \in Workers, Start(w) \/ Proceed(w) \/ Failure(w)
      PROVE  RecordRanges(w)
  BY <1>3
     DEF Start, Proceed, Capture, Publish, Failure, PlanNothing, RefuseContract,
         PlanInterval, KeepBatch, RefuseBatch, ClearBatch, WriteBatch, ValidateBatch,
         SealBatch, RefuseRanges, KeepIncrement, UnreadableIncrement, WriteIncrement,
         PublishSilver, CheckContract, CommitWatermark, TearBatch, TearIncrement, Die
<1> QED
  BY <1>1, <1>2, <1>3 DEF Next

\* The ledger only ever speaks of captured blocks.
LEMMA CoveredStep ==
  ASSUME TypeOK, Progress, SealedIsComplete, CoveredIsCaptured, [Next]_vars
  PROVE  CoveredIsCaptured'
<1>1. ASSUME NEW b \in Blocks, Covered(b)', ~Covered(b)
      PROVE  Captured(b)
  <2>1. PICK w \in Workers : \E cuts \in SUBSET Span(Plan(w)) :
           /\ ledger' = ledger \cup Leaves(Plan(w), cuts)
           /\ bronze[Plan(w)].sealed
    <3>1. ledger' # ledger
      BY <1>1 DEF Covered
    <3> QED
      BY <3>1, LedgerCases
  <2>2. PICK cuts \in SUBSET Span(Plan(w)) :
           /\ ledger' = ledger \cup Leaves(Plan(w), cuts)
           /\ bronze[Plan(w)].sealed
    BY <2>1
  <2>3. PICK leaf \in Leaves(Plan(w), cuts) : leaf.from <= b /\ b <= leaf.to
    BY <1>1, <2>2 DEF Covered
  <2>4. Plan(w) \in Intervals /\ b \in Int
    BY WorkTypes DEF Blocks
  <2>5. b \in Span(Plan(w))
    BY <2>3, <2>4, LeavesWithin
  <2> QED
    BY <2>2, <2>4, <2>5 DEF SealedIsComplete, Captured
<1> QED
  BY <1>1, EvidenceStays DEF CoveredIsCaptured, Blocks

\* Who moves the watermark, and over what: a worker, over its sealed and recorded interval,
\* naming the contract of its batch; or the operator who initializes it, up to where
\* the ledger is contiguous.
LEMMA CommitCases ==
  ASSUME TypeOK, Planned, Progress, [Next]_vars, committed' # committed
  PROVE  \/ \E w \in Workers :
              /\ Plan(w).from = committed + 1 /\ Plan(w).to = committed'
              /\ Plan(w) \in Intervals
              /\ tag' = work[w].contract
              /\ bronze[Plan(w)].sealed /\ bronze[Plan(w)].contract = work[w].contract
              /\ \A b \in Span(Plan(w)) : Covered(b)
         \/ tag = NoContract /\ committed' \in 1 .. Contiguous
<1> USE DEF source, control, lake
<1>1. ASSUME NEW w \in Workers, CommitWatermark(w)
      PROVE  /\ Plan(w).from = committed + 1 /\ Plan(w).to = committed'
             /\ Plan(w) \in Intervals
             /\ tag' = work[w].contract
             /\ bronze[Plan(w)].sealed /\ bronze[Plan(w)].contract = work[w].contract
             /\ \A b \in Span(Plan(w)) : Covered(b)
  <2>1. /\ At(w, "commit") /\ committed = Plan(w).from - 1
        /\ committed' = Plan(w).to /\ tag' = work[w].contract
    BY <1>1 DEF CommitWatermark
  <2>2. Plan(w) \in Intervals /\ Plan(w).from \in Heads /\ committed \in Heads
    BY WorkTypes DEF TypeOK
  <2>3. Plan(w).from = committed + 1
    BY <2>1, <2>2 DEF Heads
  <2> QED
    BY <2>1, <2>2, <2>3 DEF Progress, At
<1>2. CASE Initialize
  BY <1>2 DEF Initialize
<1>3. ~((World /\ ~Initialize) \/ UNCHANGED vars)
  BY DEF vars, World, GrowHead, StreamAppend, ChangeContract, Reaccept, RebuildSilver
<1>4. ASSUME NEW w \in Workers, Start(w) \/ Proceed(w) \/ Failure(w)
      PROVE  CommitWatermark(w)
  BY <1>4
     DEF Start, Proceed, Capture, Publish, Failure, PlanNothing, RefuseContract,
         PlanInterval, KeepBatch, RefuseBatch, ClearBatch, WriteBatch, ValidateBatch,
         SealBatch, RecordRanges, RefuseRanges, KeepIncrement, UnreadableIncrement,
         WriteIncrement, PublishSilver, CheckContract, TearBatch, TearIncrement, Die
<1> QED
  BY <1>1, <1>2, <1>3, <1>4 DEF Next

\* Whoever moves the watermark, what lies before it is recorded.
LEMMA CommittedStep ==
  ASSUME TypeOK, Planned, Progress, CommittedIsCovered, [Next]_vars
  PROVE  CommittedIsCovered'
<1>0. committed \in Nat
  BY DEF TypeOK, Heads
<1>1. \A b \in 1 .. committed : Covered(b)'
  BY EvidenceStays DEF CommittedIsCovered
<1>2. CASE committed' = committed
  BY <1>1, <1>2 DEF CommittedIsCovered
<1>3. ASSUME NEW w \in Workers,
             Plan(w).from = committed + 1, Plan(w).to = committed', Plan(w) \in Intervals,
             \A b \in Span(Plan(w)) : Covered(b)
      PROVE  CommittedIsCovered'
  <2>1. committed' \in Nat
    BY <1>3 DEF Intervals, Heads
  <2>2. \A b \in 1 .. committed' : b \in 1 .. committed \/ b \in Span(Plan(w))
    BY <1>0, <1>3, <2>1 DEF Span
  <2>3. \A b \in Span(Plan(w)) : Covered(b)'
    BY <1>3, EvidenceStays
  <2> QED
    BY <1>1, <2>2, <2>3 DEF CommittedIsCovered
<1>4. CASE committed' \in 1 .. Contiguous
  <2>1. \A b \in 1 .. committed' : b \in 1 .. Contiguous
    BY <1>4, ContiguousIsCovered DEF Heads
  <2>2. \A b \in 1 .. committed' : Covered(b)'
    BY <2>1, ContiguousIsCovered, EvidenceStays
  <2> QED
    BY <2>2 DEF CommittedIsCovered
<1> QED
  BY <1>2, <1>3, <1>4, CommitCases

\* The invariant is inductive.
LEMMA Inductive ==
  ASSUME OneWorker
  PROVE  Spec => []IInv
<1>1. Init => IInv
  <2> SUFFICES ASSUME Init PROVE IInv
    OBVIOUS
  <2>1. TypeOK /\ Planned
    BY TypingInit
  <2>2. Progress
    BY DEF Init, Progress, At, Idle
  <2>3. \A i \in Intervals : ~bronze[i].sealed
    BY DEF Init, NoBatch
  <2>4. \A b : ~Covered(b)
    BY DEF Init, Covered
  <2>5. 1 .. committed = {}
    BY DEF Init
  <2> QED
    BY <2>1, <2>2, <2>3, <2>4, <2>5
       DEF IInv, SealedIsComplete, CommittedIsCovered, CoveredIsCaptured
<1>2. IInv /\ [Next]_vars => IInv'
  <2> SUFFICES ASSUME IInv, [Next]_vars PROVE IInv'
    OBVIOUS
  <2>1. TypeOK' /\ Planned' /\ Progress'
    BY TypingStep, PlannedStep, ProgressStep DEF IInv
  <2>2. SealedIsComplete' /\ CommittedIsCovered' /\ CoveredIsCaptured'
    BY SealedStep, CommittedStep, CoveredStep DEF IInv
  <2> QED
    BY <2>1, <2>2 DEF IInv
<1> QED
  BY <1>1, <1>2, PTL DEF Spec

\* UniswapRecoveryBatchStore: a committed batch is complete, whatever died while it was
\* written and whatever a dead attempt left under its prefix.
THEOREM SealedBatchesAreComplete ==
  ASSUME OneWorker
  PROVE  Spec => []SealedIsComplete
<1>1. IInv => SealedIsComplete
  BY DEF IInv
<1> QED
  BY <1>1, Inductive, PTL

\* The ledger and the watermark never claim a block the object store lacks, however the
\* fetch was split and wherever attempts ended.
THEOREM ClaimsAreCaptured ==
  ASSUME OneWorker
  PROVE  Spec => []EvidenceIsCaptured
<1>1. IInv => EvidenceIsCaptured
  <2> SUFFICES ASSUME IInv PROVE EvidenceIsCaptured
    OBVIOUS
  <2>1. \A b \in 1 .. committed : b \in Blocks
    BY DEF IInv, TypeOK, Heads, Blocks
  <2> QED
    BY <2>1 DEF IInv, CommittedIsCovered, CoveredIsCaptured, EvidenceIsCaptured
<1> QED
  BY <1>1, Inductive, PTL

\* The watermark names the contract its progress was captured under, also when an operator
\* accepts another while the attempt is between its check and its UPDATE.
THEOREM CommitsNameTheCapturedContract ==
  ASSUME OneWorker
  PROVE  Spec => TagIsTheCapturedContract
<1> DEFINE Commit ==
      (tag # NoContract /\ committed # committed')
        => LET i == [from |-> committed + 1, to |-> committed'] IN
           bronze[i].sealed /\ bronze[i].contract = tag'
<1>1. IInv /\ [Next]_vars => [Commit]_vars
  <2> SUFFICES ASSUME IInv, [Next]_vars, tag # NoContract, committed # committed'
               PROVE  LET i == [from |-> committed + 1, to |-> committed'] IN
                      bronze[i].sealed /\ bronze[i].contract = tag'
    OBVIOUS
  <2>1. TypeOK /\ Planned /\ Progress
    BY DEF IInv
  <2>2. PICK w \in Workers :
          /\ Plan(w).from = committed + 1 /\ Plan(w).to = committed'
          /\ Plan(w) \in Intervals
          /\ tag' = work[w].contract
          /\ bronze[Plan(w)].sealed /\ bronze[Plan(w)].contract = work[w].contract
    BY <2>1, CommitCases
  <2>3. Plan(w) = [from |-> committed + 1, to |-> committed']
    BY <2>2 DEF Intervals
  <2> QED
    BY <2>2, <2>3
<1> QED
  BY <1>1, Inductive, PTL DEF Spec, TagIsTheCapturedContract

================================================================================
