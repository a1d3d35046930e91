--------------------------- MODULE AaveForwardProofs ---------------------------
(***************************************************************************)
(* What TLAPS proves of AaveForward for any number of blocks, any limit of *)
(* a run and any chunk size: types, the commit-last invariant, evidence    *)
(* for every committed block, an attempt's own evidence for the interval   *)
(* it loads, and a watermark that only moves forward.                      *)
(*                                                                         *)
(* The argument.  RAW and the facts only grow, and a range once covered by *)
(* the ledger stays covered (Monotone).  So what an attempt established at *)
(* each of its steps (Progress) still holds when it commits, however long  *)
(* that takes, and when the UPDATE it left behind executes (Pending).      *)
(* Silver and the landing tables do shrink, but not while a task that      *)
(* relies on them holds the pool.  Evidence ages only when an attempt      *)
(* starts, so an attempt's own rows stay its own until it ends.            *)
(***************************************************************************)
EXTENDS AaveForward, NaturalBounds, TLAPS

\* Every block of the interval lies in a recorded range.
Covered(interval) ==
  \A b \in interval.from .. interval.to : \E e \in ledger : e.from <= b /\ b <= e.to

\* The same of rows the attempt under way wrote itself.
OwnCovered(rows, interval) ==
  \A b \in interval.from .. interval.to :
    \E e \in rows : Identical(e) /\ e.from <= b /\ b <= e.to

Served(interval) == interval.from .. interval.to \subseteq raw \cap facts

Interval(interval) == interval.from \in Blocks /\ interval.from <= interval.to

Shape ==
  /\ task = "nobody" <=> step = "idle"
  /\ task = "load" => step \in {"copy", "merge"}
  /\ task = "forward" /\ step # "plan" => Interval(plan)

\* What the forward attempt has reached.
Progress ==
  /\ Forward("record") => OwnCovered(ledger \cup inserted, plan)
  /\ task = "forward" /\ step \in {"silver", "copy", "merge", "dbt", "test", "commit"}
       => Covered(plan) /\ OwnCovered(ledger, plan)
  /\ task = "forward" /\ step = "copy" => Batch \subseteq silver
  /\ task = "forward" /\ step = "merge" => Batch \subseteq landing \cup raw
  /\ task = "forward" /\ step \in {"dbt", "test", "commit"} => Batch \subseteq raw
  /\ task = "forward" /\ step \in {"test", "commit"} => Batch \subseteq facts

\* A dead attempt that had sent its commit had reached everything.
Pending ==
  detached # NoPlan => Interval(detached) /\ Covered(detached) /\ Served(detached)

FactsFromRaw == facts \subseteq raw

IInv ==
  /\ TypeOK /\ Shape /\ Progress /\ Pending /\ FactsFromRaw
  /\ CommittedIsServed /\ CommittedIsEvidenced

-------------------------------------------------------------------------------

USE MaxBlockAssumption, MaxBlocksAssumption, ChunkSizeAssumption

\* However an interval is cut, its leaves cover it: the leaf of a block reaches
\* from the last cut before the block to the first one at or after it.
LEMMA LeavesCover ==
  ASSUME plan \in Plans, Interval(plan), NEW cuts \in SUBSET Batch, NEW b \in Batch
  PROVE  \E leaf \in Leaves(cuts) : leaf.from <= b /\ b <= leaf.to
<1>1. plan.from \in Nat /\ plan.to \in Nat /\ Batch = plan.from .. plan.to
  BY DEF Plans, Interval, Batch, Blocks, Heads
<1>2. PICK lo, hi : Piece(plan.from, plan.to, cuts, b, lo, hi)
  BY <1>1, PieceOfCut
<1> DEFINE leaf == [from |-> lo, to |-> hi, run |-> "current", at |-> "current"]
<1>3. leaf \in Leaves(cuts) /\ leaf.from <= b /\ b <= leaf.to
  BY <1>1, <1>2 DEF Leaves, Piece
<1> QED
  BY <1>3

LEMMA LeavesAreEvidence ==
  ASSUME plan \in Plans, Interval(plan), NEW cuts
  PROVE  Leaves(cuts) \subseteq Evidence
BY DEF Plans, Interval, Heads, Blocks, Batch, Leaves, Evidence, Age

LEMMA BatchInBlocks ==
  ASSUME plan \in Plans, Interval(plan)
  PROVE  Batch \subseteq Blocks
BY DEF Plans, Interval, Heads, Blocks, Batch

-------------------------------------------------------------------------------

\* The steps that take the pool or plan, and those that only end an attempt.
Beginning == StartRun \/ StartRetry \/ StartLoad \/ PlanIncrement

Ending ==
  PlanNothing \/ TearBronze \/ Refused \/ TearSilver \/ RefuseCommit \/ DetachRanges
  \/ DetachCommit \/ Die

\* Rows that age stay evidence of the same ranges.
LEMMA Aged ==
  ASSUME NEW rows, rows \subseteq Evidence,
         NEW aged, aged \in {AgedAttempt(rows), AgedRun(rows)}
  PROVE  /\ aged \subseteq Evidence
         /\ \A e \in rows : \E f \in aged : SameRange(e, f)
<1> DEFINE Older(e) == {[e EXCEPT !.at = "earlier"],
                        [e EXCEPT !.at = "earlier", !.run = "earlier"]}
<1>1. ASSUME NEW e \in Evidence, NEW f \in Older(e)
      PROVE  f \in Evidence /\ SameRange(e, f)
  <2>1. CASE f = [e EXCEPT !.at = "earlier"]
    BY <2>1 DEF Evidence, Age, SameRange
  <2>2. CASE f = [e EXCEPT !.at = "earlier", !.run = "earlier"]
    BY <2>2 DEF Evidence, Age, SameRange
  <2> QED
    BY <1>1, <2>1, <2>2
<1>2. \A f \in aged : \E e \in rows : f \in Older(e)
  BY DEF AgedAttempt, AgedRun
<1>3. \A e \in rows : \E f \in aged : f \in Older(e)
  BY DEF AgedAttempt, AgedRun
<1>4. \A e \in rows : \A f \in Older(e) : f \in Evidence /\ SameRange(e, f)
  BY <1>1
<1> HIDE DEF Older
<1> QED
  BY <1>2, <1>3, <1>4

LEMMA TypingStep ==
  ASSUME TypeOK, Shape, [Next]_vars
  PROVE  TypeOK'
<1> USE DEF stores, late, Tasks, Steps, RunPhases
<1>0. NoPlan \in Plans
  BY DEF NoPlan, Plans, Heads
<1>1. CASE UNCHANGED vars
  BY <1>1 DEF vars, TypeOK
<1>2. CASE GrowHead \/ GiveUp
  BY <1>2 DEF GrowHead, GiveUp, TypeOK, Heads
<1>3. CASE StartRun \/ StartRetry
  <2>1. /\ ledger' \in {AgedAttempt(ledger), AgedRun(ledger)}
        /\ adrift' \in {AgedAttempt(adrift), AgedRun(adrift)}
    BY <1>3 DEF StartRun, StartRetry
  <2>2. ledger' \subseteq Evidence /\ adrift' \subseteq Evidence
    BY <2>1, Aged DEF TypeOK
  <2> QED
    BY <1>3, <2>2 DEF StartRun, StartRetry, TypeOK
<1>4. CASE StartLoad
  BY <1>4 DEF StartLoad, TypeOK
<1>5. CASE PlanIncrement
  <2>1. plan' \in Plans
    BY <1>5 DEF PlanIncrement, TypeOK, Plans, Heads, Smaller
  <2> QED
    BY <1>5, <2>1 DEF PlanIncrement, TypeOK
<1>6. CASE PlanNothing \/ Refused \/ RefuseCommit \/ Die
  BY <1>6, <1>0 DEF PlanNothing, Refused, RefuseCommit, Die, FailAttempt, LeavePool,
     TypeOK
<1>7. ASSUME Forward("bronze") \/ Forward("silver")
      PROVE  Batch \subseteq Blocks
  BY <1>7, BatchInBlocks DEF Forward, Shape, TypeOK
<1>8. CASE TearBronze \/ TearSilver
  BY <1>8, <1>0, <1>7
     DEF TearBronze, TearSilver, Torn, FailAttempt, LeavePool, TypeOK
<1>9. CASE WriteBronze \/ WriteSilver
  BY <1>9, <1>7 DEF WriteBronze, WriteSilver, Goto, TypeOK
<1>10. CASE InsertRanges
  <2>1. \A cuts : Leaves(cuts) \subseteq Evidence
    BY <1>10, LeavesAreEvidence DEF InsertRanges, Forward, Shape, TypeOK
  <2> QED
    BY <1>10, <2>1 DEF InsertRanges, TypeOK
<1>11. CASE RefuseRanges \/ DbtTest
  BY <1>11 DEF RefuseRanges, DbtTest, Goto, TypeOK
<1>12. CASE CopyRaw \/ DbtRun
  BY <1>12 DEF CopyRaw, DbtRun, Goto, TypeOK
<1>13. CASE MergeRaw
  BY <1>13, <1>0 DEF MergeRaw, LeavePool, Goto, TypeOK
<1>14. CASE CommitWatermark
  BY <1>14, <1>0 DEF CommitWatermark, Advance, LeavePool, TypeOK, Plans
<1>15. CASE DetachCommit \/ DetachRanges
  BY <1>15, <1>0 DEF DetachCommit, DetachRanges, FailAttempt, LeavePool, TypeOK
<1>16. CASE LandCommit
  BY <1>16, <1>0 DEF LandCommit, Advance, TypeOK, Plans
<1>17. CASE RebuildSilver \/ TearRebuild \/ RefreshFacts
  BY <1>17 DEF RebuildSilver, TearRebuild, RefreshFacts, TypeOK
<1>18. CASE CommitRanges \/ LandRanges
  BY <1>18 DEF CommitRanges, LandRanges, TypeOK
<1> QED
  BY <1>1, <1>2, <1>3, <1>4, <1>5, <1>6, <1>8, <1>9, <1>10, <1>11, <1>12, <1>13,
     <1>14, <1>15, <1>16, <1>17, <1>18
     DEF Next, Schedule, Work, Failure, Others

LEMMA ShapeStep ==
  ASSUME TypeOK, Shape, [Next]_vars
  PROVE  Shape'
<1> USE DEF stores, late, Shape, Interval
<1>1. CASE UNCHANGED vars
  BY <1>1 DEF vars
<1>2. CASE GrowHead \/ GiveUp
  BY <1>2 DEF GrowHead, GiveUp
<1>3. CASE StartRun \/ StartRetry \/ StartLoad
  BY <1>3 DEF StartRun, StartRetry, StartLoad
<1>4. CASE PlanIncrement
  BY <1>4 DEF PlanIncrement, TypeOK, Heads, Blocks, Smaller, Forward
<1>5. CASE Ending
  BY <1>5 DEF Ending, PlanNothing, TearBronze, Refused, TearSilver, RefuseCommit,
     DetachRanges, DetachCommit, Die, FailAttempt, LeavePool
<1>6. CASE WriteBronze \/ InsertRanges \/ CommitRanges \/ RefuseRanges \/ WriteSilver
           \/ DbtRun \/ DbtTest
  BY <1>6 DEF WriteBronze, InsertRanges, CommitRanges, RefuseRanges, WriteSilver, DbtRun,
     DbtTest, Goto, Forward
<1>7. CASE CopyRaw
  BY <1>7 DEF CopyRaw, Goto
<1>8. CASE MergeRaw
  BY <1>8 DEF MergeRaw, LeavePool, Goto
<1>9. CASE CommitWatermark
  BY <1>9 DEF CommitWatermark, LeavePool
<1>10. CASE LandCommit \/ LandRanges
  BY <1>10 DEF LandCommit, LandRanges
<1>11. CASE RebuildSilver \/ TearRebuild \/ RefreshFacts
  BY <1>11 DEF RebuildSilver, TearRebuild, RefreshFacts
<1> QED
  BY <1>1, <1>2, <1>3, <1>4, <1>5, <1>6, <1>7, <1>8, <1>9, <1>10, <1>11
     DEF Next, Schedule, Work, Failure, Others, Ending

\* RAW, the facts and what the ledger covers only grow.
LEMMA Monotone ==
  ASSUME TypeOK, FactsFromRaw, [Next]_vars
  PROVE  /\ raw \subseteq raw' /\ facts \subseteq facts'
         /\ FactsFromRaw'
         /\ \A p \in Plans : Covered(p) => Covered(p)'
<1> USE DEF stores, late, FactsFromRaw
<1>1. CASE UNCHANGED vars
  BY <1>1 DEF vars, Covered
<1>2. CASE StartRun \/ StartRetry
  <2>1. UNCHANGED <<raw, facts>> /\ ledger' \in {AgedAttempt(ledger), AgedRun(ledger)}
    BY <1>2 DEF StartRun, StartRetry
  <2>2. \A e \in ledger : \E f \in ledger' : SameRange(e, f)
    BY <2>1, Aged DEF TypeOK
  <2> QED
    BY <2>1, <2>2 DEF Covered, SameRange
<1>3. CASE CommitRanges \/ LandRanges
  <2>1. UNCHANGED <<raw, facts>> /\ ledger \subseteq ledger'
    BY <1>3 DEF CommitRanges, LandRanges
  <2> QED
    BY <2>1 DEF Covered
<1>4. CASE GrowHead \/ GiveUp \/ StartLoad \/ PlanIncrement \/ Ending
  <2>1. UNCHANGED <<raw, facts, ledger>>
    BY <1>4 DEF GrowHead, GiveUp, StartLoad, PlanIncrement, Ending, PlanNothing,
       TearBronze, Refused, TearSilver, RefuseCommit, DetachRanges, DetachCommit, Die
  <2> QED
    BY <2>1 DEF Covered
<1>5. CASE WriteBronze \/ InsertRanges \/ RefuseRanges \/ WriteSilver \/ CopyRaw
           \/ DbtTest \/ LandCommit \/ CommitWatermark \/ RebuildSilver \/ TearRebuild
  <2>1. UNCHANGED <<raw, facts, ledger>>
    BY <1>5 DEF WriteBronze, InsertRanges, RefuseRanges, WriteSilver, CopyRaw, DbtTest,
       LandCommit, CommitWatermark, Advance, RebuildSilver, TearRebuild
  <2> QED
    BY <2>1 DEF Covered
<1>6. CASE MergeRaw
  BY <1>6 DEF MergeRaw, Covered
<1>7. CASE DbtRun \/ RefreshFacts
  BY <1>7 DEF DbtRun, RefreshFacts, Covered
<1> QED
  BY <1>1, <1>2, <1>3, <1>4, <1>5, <1>6, <1>7
     DEF Next, Schedule, Work, Failure, Others, Ending

\* Evidence ages only when an attempt starts; the ledger loses no row.
LEMMA LedgerGrows ==
  ASSUME [Next]_vars, ~StartRun, ~StartRetry
  PROVE  ledger \subseteq ledger'
<1>1. ledger' = ledger \/ CommitRanges \/ LandRanges
  BY DEF Next, Schedule, Work, Failure, Others, vars, stores, GrowHead, GiveUp, StartLoad,
     PlanNothing, PlanIncrement, WriteBronze, InsertRanges, RefuseRanges, Refused,
     WriteSilver, CopyRaw, MergeRaw, DbtRun, DbtTest, CommitWatermark, RefuseCommit,
     TearBronze, TearSilver, DetachRanges, DetachCommit, LandCommit, Die, RebuildSilver,
     TearRebuild, RefreshFacts, Advance
<1> QED
  BY <1>1 DEF CommitRanges, LandRanges

\* Each leaf has a row of the attempt: inserted just now, or the identical one
\* that let it pass.
LEMMA InsertingCovers ==
  ASSUME TypeOK, Shape, InsertRanges
  PROVE  OwnCovered(ledger \cup inserted, plan)'
<1>1. plan' = plan /\ ledger' = ledger /\ plan \in Plans /\ Interval(plan)
  BY DEF InsertRanges, TypeOK, Shape, Forward, stores
<1>2. PICK cuts \in SUBSET Batch :
        /\ \A leaf \in Leaves(cuts) : Acceptable(leaf)
        /\ inserted' = {leaf \in Leaves(cuts) : Recorded(leaf) = {}}
  BY DEF InsertRanges
<1>3. ASSUME NEW leaf \in Leaves(cuts)
      PROVE  \E e \in ledger \cup inserted' : Identical(e) /\ SameRange(e, leaf)
  <2>1. CASE Recorded(leaf) = {}
    <3>1. leaf \in inserted' /\ Identical(leaf) /\ SameRange(leaf, leaf)
      BY <1>2, <2>1 DEF Leaves, Identical, SameRange
    <3> QED
      BY <3>1
  <2>2. CASE Recorded(leaf) # {}
    <3>1. PICK e \in Recorded(leaf) : Identical(e)
      BY <1>2, <2>2 DEF Acceptable
    <3> QED
      BY <3>1 DEF Recorded
  <2> QED
    BY <2>1, <2>2
<1>4. \A b \in Batch : \E e \in ledger \cup inserted' :
        Identical(e) /\ e.from <= b /\ b <= e.to
  BY <1>1, <1>3, LeavesCover DEF SameRange
<1> QED
  BY <1>1, <1>4 DEF OwnCovered, Batch, Identical

LEMMA ProgressStep ==
  ASSUME TypeOK, Shape, Progress, FactsFromRaw, [Next]_vars
  PROVE  Progress'
<1> USE DEF stores, late
<1>0. /\ raw \subseteq raw' /\ facts \subseteq facts'
      /\ plan \in Plans /\ (Covered(plan) /\ plan' = plan => Covered(plan)')
  BY Monotone DEF TypeOK, Covered
<1>01. ASSUME ~StartRun, ~StartRetry, plan' = plan, OwnCovered(ledger, plan)
       PROVE  OwnCovered(ledger, plan)'
  <2>1. ledger \subseteq ledger'
    BY <1>01, LedgerGrows
  <2> QED
    BY <1>01, <2>1 DEF OwnCovered, Identical
<1>1. CASE UNCHANGED <<task, step, plan, silver, landing, inserted>>
           /\ ~StartRun /\ ~StartRetry
  <2>1. ledger \subseteq ledger'
    BY <1>1, LedgerGrows
  <2>2. OwnCovered(ledger \cup inserted, plan) => OwnCovered(ledger \cup inserted, plan)'
    BY <1>1, <2>1 DEF OwnCovered, Identical
  <2> QED
    BY <1>0, <1>01, <1>1, <2>2 DEF Progress, Batch, Forward
<1>2. CASE task' # "forward" \/ step' \in {"plan", "bronze", "ledger", "refused"}
  BY <1>2 DEF Progress, Forward
<1>3. CASE GrowHead \/ GiveUp \/ LandCommit \/ LandRanges \/ UNCHANGED vars
  <2>1. UNCHANGED <<task, step, plan, silver, landing, inserted>>
    BY <1>3 DEF GrowHead, GiveUp, LandCommit, LandRanges, Advance, vars
  <2>2. ~StartRun /\ ~StartRetry
    BY <1>3, <2>1 DEF StartRun, StartRetry
  <2> QED
    BY <1>1, <2>1, <2>2
<1>4. CASE Beginning
  BY <1>4, <1>2 DEF Beginning, StartRun, StartRetry, StartLoad, PlanIncrement
<1>5. CASE Ending \/ CommitWatermark
  BY <1>5, <1>2 DEF Ending, PlanNothing, TearBronze, Refused, TearSilver, RefuseCommit,
     DetachRanges, DetachCommit, Die, FailAttempt, LeavePool, CommitWatermark
<1>6. CASE WriteBronze \/ RefuseRanges
  BY <1>6, <1>2 DEF WriteBronze, RefuseRanges, Goto
<1>7. CASE InsertRanges
  <2>1. step' = "record"
    BY <1>7 DEF InsertRanges
  <2> QED
    BY <1>7, <2>1, InsertingCovers DEF Progress, Forward
<1>14. CASE CommitRanges
  <2>1. step' = "silver" /\ plan' = plan /\ ledger' = ledger \cup inserted
    BY <1>14 DEF CommitRanges
  <2>2. OwnCovered(ledger \cup inserted, plan)
    BY <1>14 DEF CommitRanges, Progress
  <2>3. OwnCovered(ledger, plan)'
    BY <2>1, <2>2 DEF OwnCovered, Identical
  <2>4. Covered(plan)'
    BY <2>3 DEF OwnCovered, Covered
  <2> QED
    BY <2>1, <2>3, <2>4 DEF Progress, Forward
<1>8. CASE WriteSilver
  <2>1. step' = "copy" /\ plan' = plan /\ Batch \subseteq silver' /\ Covered(plan)
        /\ OwnCovered(ledger, plan) /\ ~StartRun /\ ~StartRetry
    BY <1>8 DEF WriteSilver, Goto, Progress, Forward, StartRun, StartRetry
  <2> QED
    BY <1>0, <1>01, <2>1 DEF Progress, Batch, Forward
<1>9. CASE CopyRaw
  <2>1. /\ step' = "merge" /\ plan' = plan /\ task' = task /\ raw' = raw
        /\ landing' = landing \cup (silver \ raw)
        /\ task = "forward" => /\ Covered(plan) /\ OwnCovered(ledger, plan)
                               /\ Batch \subseteq silver
        /\ ~StartRun /\ ~StartRetry
    BY <1>9 DEF CopyRaw, Goto, Progress, StartRun, StartRetry
  <2> QED
    BY <1>0, <1>01, <2>1 DEF Progress, Batch, Forward
<1>10. CASE MergeRaw
  <2>1. CASE task # "forward"
    BY <1>10, <2>1, <1>2 DEF MergeRaw, LeavePool
  <2>2. CASE task = "forward"
    <3>1. /\ step' = "dbt" /\ plan' = plan /\ raw' = raw \cup landing
          /\ Covered(plan) /\ Batch \subseteq landing \cup raw
          /\ OwnCovered(ledger, plan) /\ ~StartRun /\ ~StartRetry
      BY <1>10, <2>2 DEF MergeRaw, Goto, Progress, StartRun, StartRetry
    <3> QED
      BY <1>0, <1>01, <3>1 DEF Progress, Batch, Forward
  <2> QED
    BY <2>1, <2>2
<1>11. CASE DbtRun
  <2>1. /\ step' = "test" /\ plan' = plan /\ raw' = raw /\ facts' = raw
        /\ Covered(plan) /\ Batch \subseteq raw
        /\ OwnCovered(ledger, plan) /\ ~StartRun /\ ~StartRetry
    BY <1>11 DEF DbtRun, Goto, Progress, Forward, StartRun, StartRetry
  <2> QED
    BY <1>0, <1>01, <2>1 DEF Progress, Batch, Forward
<1>12. CASE DbtTest
  <2>1. /\ step' = "commit" /\ plan' = plan /\ raw' = raw /\ facts' = facts
        /\ Covered(plan) /\ Batch \subseteq raw /\ Batch \subseteq facts
        /\ OwnCovered(ledger, plan) /\ ~StartRun /\ ~StartRetry
    BY <1>12 DEF DbtTest, Goto, Progress, Forward, StartRun, StartRetry
  <2> QED
    BY <1>0, <1>01, <2>1 DEF Progress, Batch, Forward
<1>13. CASE RebuildSilver \/ TearRebuild \/ RefreshFacts
  BY <1>13, <1>2 DEF RebuildSilver, TearRebuild, RefreshFacts
<1> QED
  BY <1>3, <1>4, <1>5, <1>6, <1>7, <1>8, <1>9, <1>10, <1>11, <1>12, <1>13, <1>14
     DEF Next, Schedule, Work, Failure, Others, Beginning, Ending

LEMMA PendingStep ==
  ASSUME TypeOK, Shape, Progress, Pending, FactsFromRaw, [Next]_vars
  PROVE  Pending'
<1> USE DEF stores, late
<1>1. CASE detached' = detached
  <2>1. detached \in Plans
    BY DEF TypeOK
  <2>2. Covered(detached) => Covered(detached)'
    BY <1>1, <2>1, Monotone DEF Covered
  <2> QED
    BY <1>1, <2>2, Monotone DEF Pending, Interval, Served
<1>2. CASE detached' = NoPlan
  BY <1>2 DEF Pending, NoPlan
<1>3. CASE DetachCommit
  <2>1. detached' = plan /\ UNCHANGED <<ledger, raw, facts>>
    BY <1>3 DEF DetachCommit
  <2>2. Interval(plan) /\ Covered(plan) /\ Served(plan)
    BY <1>3 DEF DetachCommit, Forward, Shape, Progress, Served, Batch
  <2> QED
    BY <2>1, <2>2 DEF Pending, Interval, Covered, Served
<1>4. CASE LandCommit
  BY <1>4, <1>2 DEF LandCommit
<1>5. CASE ~DetachCommit /\ ~LandCommit
  <2>1. detached' = detached
    BY <1>5 DEF Next, Schedule, Work, Failure, Others, vars, GrowHead, StartRun,
       StartRetry, GiveUp, StartLoad, PlanNothing, PlanIncrement, WriteBronze,
       InsertRanges, CommitRanges, DetachRanges, LandRanges, RefuseRanges, Refused,
       WriteSilver, CopyRaw, MergeRaw, DbtRun, DbtTest, CommitWatermark, RefuseCommit,
       TearBronze, TearSilver, Die, RebuildSilver, TearRebuild, RefreshFacts, Goto
  <2> QED
    BY <1>1, <2>1
<1> QED
  BY <1>3, <1>4, <1>5

-------------------------------------------------------------------------------

\* Only a commit moves the watermark: to the end of an interval that begins
\* after it, is served and is covered.
LEMMA CommitCases ==
  ASSUME TypeOK, Shape, Progress, Pending, [Next]_vars
  PROVE  \/ committed' = committed
         \/ \E p \in Plans :
              /\ Interval(p) /\ Covered(p) /\ Served(p)
              /\ committed = p.from - 1 /\ committed' = p.to
<1> USE DEF stores, late
<1>1. CASE CommitWatermark
  <2>1. Interval(plan) /\ Covered(plan) /\ Served(plan)
    BY <1>1 DEF CommitWatermark, Forward, Shape, Progress, Served, Batch
  <2>2. plan \in Plans /\ committed = plan.from - 1 /\ committed' = plan.to
    BY <1>1 DEF CommitWatermark, Expected, Advance, TypeOK
  <2> QED
    BY <2>1, <2>2
<1>2. CASE LandCommit
  <2>1. CASE ~Expected(detached)
    BY <1>2, <2>1 DEF LandCommit
  <2>2. CASE Expected(detached)
    <3>1. detached # NoPlan /\ detached \in Plans
      BY <1>2 DEF LandCommit, TypeOK
    <3>2. committed = detached.from - 1 /\ committed' = detached.to
      BY <1>2, <2>2 DEF LandCommit, Expected, Advance
    <3> QED
      BY <3>1, <3>2 DEF Pending
  <2> QED
    BY <2>1, <2>2
<1>3. CASE ~CommitWatermark /\ ~LandCommit
  BY <1>3 DEF Next, Schedule, Work, Failure, Others, vars, GrowHead, StartRun,
     StartRetry, GiveUp, StartLoad, PlanNothing, PlanIncrement, WriteBronze,
     InsertRanges, CommitRanges, DetachRanges, LandRanges, RefuseRanges, Refused,
     WriteSilver, CopyRaw, MergeRaw, DbtRun, DbtTest, DetachCommit, RefuseCommit,
     TearBronze, TearSilver, Die, RebuildSilver, TearRebuild, RefreshFacts
<1> QED
  BY <1>1, <1>2, <1>3

LEMMA CommittedStep ==
  ASSUME IInv, [Next]_vars
  PROVE  CommittedIsServed' /\ CommittedIsEvidenced'
<1> USE DEF IInv
<1>1. /\ raw \subseteq raw' /\ facts \subseteq facts'
      /\ \A p \in Plans : Covered(p) => Covered(p)'
  BY Monotone
<1>2. committed \in Nat
  BY DEF TypeOK, Heads
<1> DEFINE done == [from |-> 1, to |-> committed]
<1>3. CASE committed' = committed
  <2>1. CommittedIsServed'
    BY <1>1, <1>3 DEF CommittedIsServed
  <2>2. CASE committed = 0
    BY <1>3, <2>1, <2>2 DEF CommittedIsEvidenced
  <2>3. CASE committed # 0
    <3>1. done \in Plans
      BY <1>2, <2>3 DEF Plans, Heads, TypeOK
    <3>2. Covered(done)
      BY DEF CommittedIsEvidenced, Covered
    <3>3. Covered(done)'
      BY <1>1, <1>3, <3>1, <3>2 DEF Covered
    <3> QED
      BY <1>3, <2>1, <3>3 DEF CommittedIsEvidenced, Covered
  <2> QED
    BY <2>2, <2>3
<1>4. ASSUME NEW p \in Plans, Interval(p), Covered(p), Served(p),
             committed = p.from - 1, committed' = p.to
      PROVE  CommittedIsServed' /\ CommittedIsEvidenced'
  <2>1. \A b \in 1 .. p.to : b \in 1 .. committed \/ b \in p.from .. p.to
    BY <1>2, <1>4 DEF Plans, Heads, Interval, Blocks
  <2>2. CommittedIsServed'
    BY <1>1, <1>4, <2>1 DEF CommittedIsServed, Served
  <2>3. CASE committed = 0
    <3>1. p.from = 1
      BY <1>4, <2>3 DEF Interval, Blocks
    <3>2. Covered(p)'
      BY <1>1, <1>4
    <3> QED
      BY <1>4, <2>2, <3>1, <3>2 DEF CommittedIsEvidenced, Covered
  <2>4. CASE committed # 0
    <3>1. done \in Plans
      BY <1>2, <2>4 DEF Plans, Heads, TypeOK
    <3>2. Covered(done)
      BY DEF CommittedIsEvidenced, Covered
    <3>3. \A b \in 1 .. committed : \E e \in ledger' : e.from <= b /\ b <= e.to
      BY <1>1, <3>1, <3>2 DEF Covered
    <3>4. \A b \in p.from .. p.to : \E e \in ledger' : e.from <= b /\ b <= e.to
      BY <1>1, <1>4 DEF Covered
    <3>5. \A b \in 1 .. p.to : \E e \in ledger' : e.from <= b /\ b <= e.to
      BY <2>1, <3>3, <3>4
    <3> QED
      BY <1>4, <2>2, <3>5 DEF CommittedIsEvidenced
  <2> QED
    BY <2>3, <2>4
<1> QED
  BY <1>3, <1>4, CommitCases

LEMMA InitialState == Init => IInv
<1> SUFFICES ASSUME Init
             PROVE  IInv
  OBVIOUS
<1> USE DEF Init
<1>1. TypeOK
  BY DEF TypeOK, Heads, Plans, NoPlan, Evidence, Tasks, Steps, RunPhases
<1>2. Shape /\ Progress /\ Pending /\ FactsFromRaw
  BY DEF Shape, Progress, Pending, FactsFromRaw, Forward
<1>3. CommittedIsServed /\ CommittedIsEvidenced
  BY DEF CommittedIsServed, CommittedIsEvidenced
<1> QED
  BY <1>1, <1>2, <1>3 DEF IInv

LEMMA InvariantStep ==
  ASSUME IInv, [Next]_vars
  PROVE  IInv'
<1> USE DEF IInv
<1>1. TypeOK' /\ Shape'
  BY TypingStep, ShapeStep
<1>2. Progress' /\ Pending' /\ FactsFromRaw'
  BY ProgressStep, PendingStep, Monotone
<1>3. CommittedIsServed' /\ CommittedIsEvidenced'
  BY CommittedStep
<1> QED
  BY <1>1, <1>2, <1>3

\* The inductive invariant holds in every reachable state.
THEOREM Inductive == Spec => []IInv
BY InitialState, InvariantStep, PTL DEF Spec

\* Every variable keeps its type.
THEOREM Typing == Spec => []TypeOK
<1>1. IInv => TypeOK
  BY DEF IInv
<1> QED
  BY <1>1, Inductive, PTL

\* Commit-last: whatever fails and however late a commit lands, each block at
\* or below the watermark is in RAW and in the facts.
THEOREM CommitIsLast == Spec => []CommittedIsServed
<1>1. IInv => CommittedIsServed
  BY DEF IInv
<1> QED
  BY <1>1, Inductive, PTL

\* The ledger covers every committed block, however its fetch was bisected.
THEOREM LedgerCoversProgress == Spec => []CommittedIsEvidenced
<1>1. IInv => CommittedIsEvidenced
  BY DEF IInv
<1> QED
  BY <1>1, Inductive, PTL

\* No commit, late or repeated, takes the watermark back.
THEOREM WatermarkMovesForward == Spec => OnlyForward
<1>1. IInv /\ [Next]_vars => [committed <= committed']_vars
  <2> SUFFICES ASSUME IInv, [Next]_vars
               PROVE  committed <= committed'
    OBVIOUS
  <2>1. committed \in Nat
    BY DEF IInv, TypeOK, Heads
  <2> QED
    BY <2>1, CommitCases DEF IInv, Interval, Plans, Heads, Blocks
<1> QED
  BY <1>1, Inductive, PTL DEF Spec, OnlyForward

\* Whatever lands late in the ledger, an attempt past it has recorded every
\* block of its interval itself, at its own processing time.
THEOREM OwnEvidence == Spec => []RunsOnItsOwnEvidence
<1>1. IInv => RunsOnItsOwnEvidence
  BY DEF IInv, Progress, RunsOnItsOwnEvidence, OwnCovered, Identical, Batch
<1> QED
  BY <1>1, Inductive, PTL

================================================================================
