------------------------- MODULE ChainlinkForwardProofs -------------------------
(***************************************************************************)
(* What TLAPS proves of ChainlinkForward for any feeds, phases, rounds,     *)
(* limits and batch sizes.  For any number of runs: types, that the cursors *)
(* are one snapshot of the feeds, and that a backlog over the limit is      *)
(* final.  For one run at a time: that no round is committed twice, and     *)
(* that a round behind its cursor is in Bronze and in RAW.                  *)
(*                                                                         *)
(* The argument.  What the feeds showed up to a block never changes, so a   *)
(* plan made at a block names every round shown up to it that the cursors   *)
(* do not have (PlanIsComplete).  Its batches hold exactly what Bronze      *)
(* lacks, each round once (BatchesAreDisjoint, BatchesAreComplete).  A run  *)
(* that reaches Silver has sealed them all; a sealed increment finds what   *)
(* it left out in increments that no later run rewrites, because a later    *)
(* run's increment starts or ends later (SilverStep).                       *)
(***************************************************************************)
EXTENDS ChainlinkForward, NaturalBounds, FiniteSetTheorems, FunctionTheorems, TLAPS

\* What the DAG's max_active_runs provides while no operator starts a run beside it.
OneWorker == \A v, w \in Workers : v = w

\* Round r is not shown behind round s.
Before(r, s) == r[1] < s[1] \/ (r[1] = s[1] /\ r[2] <= s[2])

\* The feeds only move on.
History ==
  /\ at[0] = FirstRounds
  /\ \A a, b \in 0 .. head : a <= b => \A f \in Feeds : Before(at[a][f], at[b][f])

\* A run works with the rounds of the block it froze.
Frozen ==
  \A w \in Workers :
    /\ work[w].block <= head /\ work[w].targets = at[work[w].block]
    /\ ~At(w, "idle") => work[w].start <= work[w].block
    /\ work[w].step \in {"clear", "promote", "verify", "mark"} =>
         \E k \in Keys : work[w].batch = {k}

\* The rounds of a feed, of all feeds, that a commit at a block vouches for.
Shown(f, block) ==
  {o \in Of(f) : LET p == o[2] n == o[3] IN
     /\ <<p, n>> # <<1, 1>>
     /\ \E b \in 0 .. block : at[b][f][1] = p /\ n <= at[b][f][2]}
Needed(block) == UNION {Shown(f, block) : f \in Feeds}

\* The batches a run has yet to seal.
Pending(w) == work[w].todo \cup work[w].batch

\* A committed batch is whole, and no two of them share a round.
BronzeOK ==
  /\ \A k \in Keys : bronze[k].sealed => bronze[k].held = Ids(k)
  /\ \A j, k \in SealedKeys : j # k => Ids(j) \cap Ids(k) = {}

\* A run's batches share no round with each other and with Bronze, and with Bronze hold
\* every round of its plan.
CaptureOK ==
  \A w \in Workers :
    /\ At(w, "capture") => work[w].batch = {}
    /\ At(w, "mark") => \A k \in work[w].batch : bronze[k].held = Ids(k)
    /\ work[w].step \in {"capture", "clear", "promote", "verify", "mark"} =>
         /\ \A k \in Pending(w) : Ids(k) \cap SealedIds = {}
         /\ \A j, k \in Pending(w) : j # k => Ids(j) \cap Ids(k) = {}
         /\ work[w].todo \cap work[w].batch = {}
         /\ Needed(work[w].block) \subseteq SealedIds \cup UNION {Ids(k) : k \in Pending(w)}

\* The observations of the increments that start and end no later than increment i.
Until(i) == UNION {silver[j].held : j \in {j \in Increments : j.from <= i.from /\ j.to <= i.to}}

\* Every increment in the lake was planned behind the watermark or by the current run, and
\* a sealed one has, with those before it, what was shown up to its end.
SilverOK ==
  /\ \A i \in Increments : silver[i] # NoPrefix =>
       /\ i.from <= global + 1 /\ i.to <= head
       /\ \A w \in Workers : ~At(w, "idle") => i.to <= work[w].block
  /\ \A i \in Increments : silver[i].sealed => Needed(i.to) \subseteq Until(i)

\* What a run that goes on has established.
PublishOK ==
  \A w \in Workers :
    /\ ~At(w, "idle") => work[w].start = global + 1
    /\ work[w].step \in {"silver", "seal", "load", "commit"} =>
         Needed(work[w].block) \subseteq SealedIds
    /\ At(w, "seal") => Needed(work[w].block) \subseteq Until(Increment(w))
    /\ At(w, "load") => silver[Increment(w)].sealed
    /\ At(w, "commit") => Needed(work[w].block) \subseteq raw

Safe == TypeOK /\ History /\ Frozen /\ CursorsShareOneBlock

IInv == Safe /\ BronzeOK /\ CaptureOK /\ SilverOK /\ PublishOK /\ CursorIsLoaded

USE MaxPhaseAssumption, MaxRoundAssumption, MaxHeadAssumption, BatchSizeAssumption

-------------------------------------------------------------------------------

\* from .. to is a batch of plan_missing_batches where the rounds M are missing.
BatchOf(M, from, to) ==
  /\ \E s \in 1 .. from :
       /\ s - 1 \notin M
       /\ \A n \in s .. to : n \in M
       /\ (from - s) % BatchSize = 0
  /\ \/ to = from + BatchSize - 1
     \/ to < from + BatchSize - 1 /\ to + 1 \notin M

\* A missing round is in one batch only.
LEMMA SameBatch ==
  ASSUME NEW M, NEW n \in Nat,
         NEW a \in Nat, NEW b \in Nat, NEW c \in Nat, NEW d \in Nat,
         BatchOf(M, a, b), BatchOf(M, c, d), a <= n, n <= b, c <= n, n <= d
  PROVE  a = c /\ b = d
<1>1. PICK s \in 1 .. a : /\ s - 1 \notin M
                          /\ \A m \in s .. b : m \in M
                          /\ (a - s) % BatchSize = 0
  BY DEF BatchOf
<1>2. PICK t \in 1 .. c : /\ t - 1 \notin M
                          /\ \A m \in t .. d : m \in M
                          /\ (c - t) % BatchSize = 0
  BY DEF BatchOf
<1>3. s = t
  <2>1. ~(s < t)
    <3>1. s < t => t - 1 \in s .. b
      BY <1>1, <1>2
    <3> QED
      BY <1>1, <1>2, <3>1
  <2>2. ~(t < s)
    <3>1. t < s => s - 1 \in t .. d
      BY <1>1, <1>2
    <3> QED
      BY <1>1, <1>2, <3>1
  <2> QED
    BY <1>1, <1>2, <2>1, <2>2
<1>4. b < a + BatchSize /\ d < c + BatchSize
  BY DEF BatchOf
<1>5. PICK p \in Nat, q \in Nat : p = a - s /\ q = c - t
  BY <1>1, <1>2
<1>6. ~(a < c)
  <2>1. p < q => p + BatchSize <= q
    BY <1>1, <1>2, <1>5, MultiplesApart
  <2> QED
    BY <1>1, <1>2, <1>3, <1>4, <1>5, <2>1
<1>7. ~(c < a)
  <2>1. q < p => q + BatchSize <= p
    BY <1>1, <1>2, <1>5, MultiplesApart
  <2> QED
    BY <1>1, <1>2, <1>3, <1>4, <1>5, <2>1
<1>8. a = c
  BY <1>6, <1>7
<1>9. b < d => b + 1 \in t .. d
  BY <1>2
<1>10. d < b => d + 1 \in s .. b
  BY <1>1
<1>11. b < d => b + 1 \notin M
  BY <1>4, <1>8 DEF BatchOf
<1>12. d < b => d + 1 \notin M
  BY <1>4, <1>8 DEF BatchOf
<1> QED
  BY <1>1, <1>2, <1>8, <1>9, <1>10, <1>11, <1>12

\* A missing round is in a batch.
LEMMA SomeBatch ==
  ASSUME NEW M, M \subseteq 1 .. MaxRound, NEW n \in M
  PROVE  \E a \in 1 .. MaxRound : \E b \in 1 .. MaxRound :
           a <= n /\ n <= b /\ BatchOf(M, a, b)
<1>0. n \in 1 .. MaxRound /\ n \in Nat
  OBVIOUS
\* Where the run of missing rounds starts that n is in.
<1>1. \E s \in 1 .. n : s - 1 \notin M /\ \A m \in s .. n : m \in M
  <2> DEFINE S == {s \in 1 .. n : s - 1 \notin M}
  <2>1. 1 \in S
    BY <1>0
  <2>2. \A s \in S : s \in 0 .. n
    BY <1>0
  <2>3. \E s \in S : \A t \in S : t <= s
    <3> HIDE DEF S
    <3> QED
      BY <1>0, <2>1, <2>2, GreatestElement
  <2>4. PICK s \in S : \A t \in S : t <= s
    BY <2>3
  <2>5. s \in 1 .. n /\ s - 1 \notin M
    OBVIOUS
  <2>6. \A m \in s .. n : m \in M
    <3> SUFFICES ASSUME NEW m \in s .. n, m \notin M PROVE FALSE
      OBVIOUS
    <3>1. m # n /\ m + 1 \in 1 .. n /\ (m + 1) - 1 \notin M
      BY <1>0, <2>5
    <3>2. m + 1 \in S
      BY <3>1
    <3>3. m + 1 <= s
      BY <2>4, <3>2
    <3> QED
      BY <1>0, <2>5, <3>3
  <2> QED
    BY <2>5, <2>6
<1>2. PICK s \in 1 .. n : s - 1 \notin M /\ \A m \in s .. n : m \in M
  BY <1>1
<1>3. PICK d \in 0 .. n - s : d % BatchSize = 0 /\ n - s < d + BatchSize
  <2>1. PICK r \in Nat : r = n - s
    BY <1>0, <1>2
  <2> QED
    BY <2>1, MultipleBelow
<1> DEFINE a == s + d
<1>4. a \in s .. n /\ a - s = d /\ n < a + BatchSize
  BY <1>0, <1>2, <1>3
\* Where the batch ends: at its size, or where the run of missing rounds does.
<1> DEFINE Last(t) == t = a + BatchSize - 1 \/ t + 1 \notin M
<1>5. \E b \in n .. a + BatchSize - 1 : Last(b) /\ \A m \in n .. b : m \in M
  <2> DEFINE T == {t \in n .. a + BatchSize - 1 : Last(t)}
  <2>1. a + BatchSize - 1 \in T
    BY <1>0, <1>4
  <2>2. T \subseteq Nat
    BY <1>0
  <2>3. \E t \in T : \A u \in T : t <= u
    <3> HIDE DEF T
    <3> QED
      BY <2>1, <2>2, LeastElement
  <2>4. PICK t \in T : \A u \in T : t <= u
    BY <2>3
  <2>5. t \in n .. a + BatchSize - 1 /\ Last(t)
    OBVIOUS
  <2>6. \A m \in n .. t : m \in M
    <3> SUFFICES ASSUME NEW m \in n .. t, m \notin M PROVE FALSE
      OBVIOUS
    <3>1. m # n /\ m - 1 \in n .. a + BatchSize - 1 /\ (m - 1) + 1 \notin M
      BY <1>0, <2>5
    <3>2. m - 1 \in T
      BY <3>1
    <3>3. t <= m - 1
      BY <2>4, <3>2
    <3> QED
      BY <1>0, <2>5, <3>3
  <2> QED
    BY <2>5, <2>6
<1>6. PICK b \in n .. a + BatchSize - 1 : Last(b) /\ \A m \in n .. b : m \in M
  BY <1>5
<1>7. b \in 1 .. MaxRound /\ a \in 1 .. MaxRound
  <2>1. b \in M
    BY <1>0, <1>6
  <2> QED
    BY <1>0, <1>2, <1>4, <2>1
<1>8. BatchOf(M, a, b)
  <2>1. \A m \in s .. b : m \in M
    <3>1. \A m \in s .. b : m \in s .. n \/ m \in n .. b
      BY <1>0, <1>2, <1>7
    <3> QED
      BY <1>2, <1>6, <3>1
  <2>2. s \in 1 .. a /\ (a - s) % BatchSize = 0
    BY <1>0, <1>2, <1>3, <1>4
  <2>3. b <= a + BatchSize - 1
    BY <1>0, <1>4, <1>6
  <2> QED
    BY <1>2, <1>6, <2>1, <2>2, <2>3 DEF BatchOf
<1> QED
  BY <1>0, <1>4, <1>6, <1>7, <1>8

\* The missing rounds of a phase of a feed.
MissingOf(f, p, missing) == {n \in Int : <<f, p, n>> \in missing}

LEMMA KeyTypes ==
  ASSUME NEW k \in Keys
  PROVE  /\ k.feed \in Feeds /\ k.phase \in Phases
         /\ k.from \in 1 .. MaxRound /\ k.to \in 1 .. MaxRound /\ k.from <= k.to
         /\ Ids(k) \subseteq Observations /\ Ids(k) # {}
<1>1. /\ k.feed \in Feeds /\ k.phase \in Phases
      /\ k.from \in 1 .. MaxRound /\ k.to \in 1 .. MaxRound /\ k.from <= k.to
  BY DEF Keys
<1>2. Ids(k) \subseteq Observations
  BY <1>1 DEF Ids, Observations
<1>3. <<k.feed, k.phase, k.from>> \in Ids(k)
  BY <1>1 DEF Ids
<1> QED
  BY <1>1, <1>2, <1>3

LEMMA ObservationTypes ==
  ASSUME NEW o \in Observations
  PROVE  /\ o = <<o[1], o[2], o[3]>>
         /\ o[1] \in Feeds /\ o[2] \in Phases /\ o[3] \in 1 .. MaxRound
         /\ \A k \in Keys : o \in Ids(k) <=>
              k.feed = o[1] /\ k.phase = o[2] /\ k.from <= o[3] /\ o[3] <= k.to
<1>1. /\ o = <<o[1], o[2], o[3]>>
      /\ o[1] \in Feeds /\ o[2] \in Phases /\ o[3] \in 1 .. MaxRound
  BY DEF Observations
<1>2. ASSUME NEW k \in Keys, o \in Ids(k)
      PROVE  k.feed = o[1] /\ k.phase = o[2] /\ k.from <= o[3] /\ o[3] <= k.to
  <2>1. PICK n \in k.from .. k.to : o = <<k.feed, k.phase, n>>
    BY <1>2 DEF Ids
  <2>2. o[1] = k.feed /\ o[2] = k.phase /\ o[3] = n
    BY <2>1
  <2> QED
    BY <2>2, KeyTypes
<1>3. ASSUME NEW k \in Keys, k.feed = o[1], k.phase = o[2], k.from <= o[3], o[3] <= k.to
      PROVE  o \in Ids(k)
  <2>1. o[3] \in k.from .. k.to
    BY <1>1, <1>3, KeyTypes
  <2> QED
    BY <1>1, <1>3, <2>1 DEF Ids
<1> QED
  BY <1>1, <1>2, <1>3

\* A planned batch is cut from the missing rounds of its phase.
LEMMA PlannedBatch ==
  ASSUME NEW required, NEW stored, NEW k \in Keys
  PROVE  k \in PlanMissingBatches(required, stored)
           <=> BatchOf(MissingOf(k.feed, k.phase, required \ stored), k.from, k.to)
<1> DEFINE missing == required \ stored
           M == MissingOf(k.feed, k.phase, missing)
<1>1. \A n \in Int : n \in M <=> <<k.feed, k.phase, n>> \in missing
  BY DEF MissingOf
<1> HIDE DEF M
<1>2. k.from \in Nat /\ k.to \in Nat
  BY KeyTypes
<1>3. \A s \in 1 .. k.from : s - 1 \in Int /\ \A n \in s .. k.to : n \in Int
  BY <1>2
<1>4. k.to + 1 \in Int
  BY <1>2
<1>5. ASSUME BatchOf(M, k.from, k.to)
      PROVE  k \in PlanMissingBatches(required, stored)
  BY <1>1, <1>3, <1>4, <1>5 DEF BatchOf, PlanMissingBatches
<1>6. ASSUME k \in PlanMissingBatches(required, stored)
      PROVE  BatchOf(M, k.from, k.to)
  BY <1>1, <1>3, <1>4, <1>6 DEF BatchOf, PlanMissingBatches
<1> QED
  BY <1>5, <1>6 DEF M

\* A planned batch names missing rounds only.
LEMMA BatchesAreMissing ==
  ASSUME NEW required, NEW stored, NEW k \in PlanMissingBatches(required, stored)
  PROVE  k \in Keys /\ Ids(k) \subseteq required \ stored
<1>1. k \in Keys
  BY DEF PlanMissingBatches
<1>2. PICK s \in 1 .. k.from : \A n \in s .. k.to : <<k.feed, k.phase, n>> \in required \ stored
  BY DEF PlanMissingBatches
<1>3. \A n \in k.from .. k.to : n \in s .. k.to
  BY <1>1, KeyTypes
<1> QED
  BY <1>1, <1>2, <1>3 DEF Ids

\* Two planned batches share no round: each is cut from the start of its run.
LEMMA BatchesAreDisjoint ==
  ASSUME NEW required, NEW stored,
         NEW j \in PlanMissingBatches(required, stored),
         NEW k \in PlanMissingBatches(required, stored), j # k
  PROVE  Ids(j) \cap Ids(k) = {}
<1> SUFFICES ASSUME NEW o \in Ids(j), o \in Ids(k)
             PROVE  FALSE
  OBVIOUS
<1>1. j \in Keys /\ k \in Keys
  BY DEF PlanMissingBatches
<1>2. o \in Observations
  BY <1>1, KeyTypes
<1>3. /\ j.feed = o[1] /\ j.phase = o[2] /\ j.from <= o[3] /\ o[3] <= j.to
      /\ k.feed = o[1] /\ k.phase = o[2] /\ k.from <= o[3] /\ o[3] <= k.to
      /\ o[3] \in Nat
  BY <1>1, <1>2, ObservationTypes
<1> DEFINE M == MissingOf(o[1], o[2], required \ stored)
<1>4. BatchOf(M, j.from, j.to) /\ BatchOf(M, k.from, k.to)
  BY <1>1, <1>3, PlannedBatch
<1> HIDE DEF M
<1>5. /\ j.from \in Nat /\ j.to \in Nat /\ k.from \in Nat /\ k.to \in Nat
  BY <1>1, KeyTypes
<1>6. j.from = k.from /\ j.to = k.to
  BY <1>3, <1>4, <1>5, SameBatch
<1>7. j = k
  BY <1>1, <1>3, <1>6 DEF Keys
<1> QED
  BY <1>7

\* Every missing round is in a planned batch.
LEMMA BatchesAreComplete ==
  ASSUME NEW required \in SUBSET Observations, NEW stored, NEW o \in required \ stored
  PROVE  \E k \in PlanMissingBatches(required, stored) : o \in Ids(k)
<1>1. /\ o = <<o[1], o[2], o[3]>>
      /\ o[1] \in Feeds /\ o[2] \in Phases /\ o[3] \in 1 .. MaxRound
  BY ObservationTypes
<1> DEFINE M == MissingOf(o[1], o[2], required \ stored)
<1>2. M \subseteq 1 .. MaxRound
  BY <1>1 DEF MissingOf, Observations
<1>3. o[3] \in M
  BY <1>1 DEF MissingOf
<1> HIDE DEF M
<1>4. PICK a \in 1 .. MaxRound, b \in 1 .. MaxRound : a <= o[3] /\ o[3] <= b /\ BatchOf(M, a, b)
  BY <1>2, <1>3, SomeBatch
<1> DEFINE k == [feed |-> o[1], phase |-> o[2], from |-> a, to |-> b]
<1>5. k \in Keys
  BY <1>1, <1>4 DEF Keys
<1>6. k.feed = o[1] /\ k.phase = o[2] /\ k.from = a /\ k.to = b
  OBVIOUS
<1> HIDE DEF k
<1>7. k \in PlanMissingBatches(required, stored)
  BY <1>4, <1>5, <1>6, PlannedBatch DEF M
<1>8. o \in Ids(k)
  BY <1>4, <1>5, <1>6, ObservationTypes
<1> QED
  BY <1>7, <1>8

-------------------------------------------------------------------------------

LEMMA RunTypes ==
  ASSUME TypeOK, NEW w \in Workers
  PROVE  /\ work[w] \in Runs
         /\ work[w].step \in Steps /\ work[w].block \in Heads /\ work[w].start \in Heads
         /\ work[w].states \in [Feeds -> Rounds] /\ work[w].targets \in [Feeds -> Rounds]
         /\ work[w].todo \subseteq Keys /\ work[w].batch \subseteq Keys
BY DEF TypeOK, Runs

LEMMA IdleIsRun ==
  /\ Idle \in Runs /\ FirstRounds \in [Feeds -> Rounds]
  /\ Idle.step = "idle" /\ Idle.block = 0 /\ Idle.targets = FirstRounds
<1>1. FirstRounds \in [Feeds -> Rounds]
  BY DEF FirstRounds, Rounds, Phases
<1> QED
  BY <1>1 DEF Idle, Runs, Steps, Heads

\* The batch of a run that writes one.
LEMMA KeyOfRun ==
  ASSUME Frozen, NEW w \in Workers, work[w].step \in {"clear", "promote", "verify", "mark"}
  PROVE  Key(w) \in Keys /\ work[w].batch = {Key(w)}
<1>1. \E k \in Keys : work[w].batch = {k}
  BY DEF Frozen
<1> QED
  BY <1>1 DEF Key

\* The increment of a run is named after the blocks of its plan.
LEMMA IncrementOfRun ==
  ASSUME TypeOK, Frozen, NEW w \in Workers, ~At(w, "idle")
  PROVE  /\ Increment(w) \in Increments
         /\ Increment(w).from = work[w].start /\ Increment(w).to = work[w].block
BY RunTypes DEF Frozen, Increment, Increments

\* A run that goes on keeps what it froze.
Keeps(w) ==
  /\ work[w].step # "idle" /\ work'[w].step # "idle"
  /\ work'[w].block = work[w].block /\ work'[w].start = work[w].start
  /\ work'[w].states = work[w].states /\ work'[w].targets = work[w].targets

\* What a step does to its run: it stops, it freezes a plan, or it goes on.
LEMMA RunCases ==
  ASSUME TypeOK, NEW w \in Workers, Run(w) \/ Refuse(w) \/ Fault(w)
  PROVE  /\ \A v \in Workers \ {w} : work'[v] = work[v]
         /\ \/ work' = [work EXCEPT ![w] = Idle]
            \/ PlanIncrement(w)
            \/ Keeps(w)
         /\ UNCHANGED source
<1>0. work \in [Workers -> Runs]
  BY DEF TypeOK
<1>1. CASE Stop(w) /\ UNCHANGED source
  BY <1>0, <1>1 DEF Stop
<1>2. CASE PlanIncrement(w)
  BY <1>0, <1>2 DEF PlanIncrement, Freeze
<1>3. ASSUME NEW s \in Steps \ {"idle"}, Goto(w, s), ~At(w, "idle"), UNCHANGED source
      PROVE  Keeps(w) /\ \A v \in Workers \ {w} : work'[v] = work[v]
  BY <1>0, <1>3 DEF Goto, At, Keeps, Runs
<1>4. CASE FetchBatch(w)
  BY <1>0, <1>4 DEF FetchBatch, Keeps, At, Runs
<1>5. CASE MarkBatch(w)
  BY <1>0, <1>5 DEF MarkBatch, Keeps, At, Runs
<1>6. CASE \/ PlanNothing(w) \/ Refuse(w) \/ Fault(w) \/ Commit(w)
  BY <1>1, <1>6 DEF PlanNothing, Refuse, RefusePlan, RefuseBatch, RefuseIncrement, Fault,
                    TearPromotion, TearIncrement, Die, Commit
<1>7. CASE ClearPrefix(w) \/ FinishCapture(w)
  BY <1>3, <1>7 DEF ClearPrefix, FinishCapture, At, Steps
<1>8. CASE PromoteBatch(w) \/ VerifyBatch(w)
  BY <1>1, <1>3, <1>8 DEF PromoteBatch, VerifyBatch, At, Steps
<1>9. CASE Publish(w)
  BY <1>3, <1>9 DEF Publish, KeepIncrement, WriteIncrement, SealIncrement, LoadRaw, At, Steps
<1> QED
  BY <1>2, <1>4, <1>5, <1>6, <1>7, <1>8, <1>9
     DEF Run, Capture, MarkBatch, FetchBatch, PlanIncrement

\* get_phase_latest_round answers with a round of the phase that is none older than any
\* round of it that a block or a retired aggregator showed.
Latest(S) == IF S = {} THEN 0 ELSE CHOOSE n \in S : \A m \in S : m <= n
Reported(f, p) == {n \in 1 .. MaxRound : \/ \E b \in 0 .. head : at[b][f] = <<p, n>>
                                         \/ <<f, p, n>> \in late}

LEMMA LatestOf ==
  ASSUME NEW N \in Nat, NEW S \in SUBSET (1 .. N)
  PROVE  Latest(S) \in 0 .. N /\ \A k \in S : k <= Latest(S)
<1>1. CASE S = {}
  BY <1>1 DEF Latest
<1>2. CASE S # {}
  <2>1. \A k \in S : k \in 0 .. N
    OBVIOUS
  <2>2. \E n \in S : \A m \in S : m <= n
    BY <1>2, <2>1, GreatestElement
  <2> QED
    BY <1>2, <2>1, <2>2 DEF Latest
<1> QED
  BY <1>1, <1>2

LEMMA LatestIn ==
  ASSUME NEW N \in Nat, NEW S \in SUBSET (1 .. N)
  PROVE  Latest(S) \in S \cup {0}
<1>1. CASE S = {}
  BY <1>1 DEF Latest
<1>2. CASE S # {}
  <2>1. \A k \in S : k \in 0 .. N
    OBVIOUS
  <2>2. \E n \in S : \A m \in S : m <= n
    BY <1>2, <2>1, GreatestElement
  <2> QED
    BY <1>2, <2>2 DEF Latest
<1> QED
  BY <1>1, <1>2

LEMMA PhaseLatestBounds ==
  ASSUME NEW f, NEW p
  PROVE  /\ PhaseLatest(f, p) \in 0 .. MaxRound
         /\ \A n \in Reported(f, p) : n <= PhaseLatest(f, p)
<1>1. Reported(f, p) \in SUBSET (1 .. MaxRound)
  BY DEF Reported
<1>2. PhaseLatest(f, p) = Latest(Reported(f, p))
  BY DEF PhaseLatest, Latest, Reported
<1> QED
  BY <1>1, <1>2, LatestOf

LEMMA PlanTypes ==
  /\ \A f \in Feeds : \A c, t : RangesAfterCursor(f, c, t) \subseteq Observations
  /\ Backlog \subseteq Observations
  /\ \A required, stored : PlanMissingBatches(required, stored) \subseteq Keys
<1>1. \A f \in Feeds : \A c, t : RangesAfterCursor(f, c, t) \subseteq Observations
  BY DEF RangesAfterCursor, Of, Observations
<1> QED
  BY <1>1 DEF Backlog, PlanMissingBatches

LEMMA PrefixTypes ==
  ASSUME TypeOK
  PROVE  /\ \A k \in Keys : bronze[k].held \subseteq Observations
         /\ \A i \in Increments : silver[i].held \subseteq Observations
         /\ SealedIds \subseteq Observations
         /\ NoPrefix \in Prefixes
<1>1. \A k \in Keys : bronze[k].held \subseteq Observations
  BY DEF TypeOK, Prefixes
<1>2. \A i \in Increments : silver[i].held \subseteq Observations
  BY DEF TypeOK, Prefixes
<1>3. SealedIds \subseteq Observations
  BY <1>1 DEF SealedIds, SealedKeys
<1> QED
  BY <1>1, <1>2, <1>3 DEF NoPrefix, Prefixes

LEMMA SourceTyping ==
  ASSUME TypeOK, NewBlock \/ LateRound
  PROVE  TypeOK'
<1> USE DEF source, cursors, lake
<1>1. CASE NewBlock
  <2>1. head' = head + 1 /\ head + 1 \in Heads /\ head \in Nat
    BY <1>1 DEF NewBlock, TypeOK, Heads
  <2>2. at' \in [Heads -> [Feeds -> Rounds]]
    BY <1>1 DEF NewBlock, TypeOK
  <2>3. global \in 0 .. head'
    BY <2>1 DEF TypeOK
  <2> QED
    BY <1>1, <2>1, <2>2, <2>3 DEF NewBlock, TypeOK
<1>2. CASE LateRound
  <2>1. PICK f \in Feeds, p \in Phases :
          /\ PhaseLatest(f, p) \in 1 .. MaxRound - 1
          /\ late' = late \cup {<<f, p, PhaseLatest(f, p) + 1>>}
    BY <1>2 DEF LateRound
  <2>2. PhaseLatest(f, p) + 1 \in 1 .. MaxRound
    BY <2>1
  <2>3. <<f, p, PhaseLatest(f, p) + 1>> \in Observations
    BY <2>2 DEF Observations
  <2> QED
    BY <1>2, <2>1, <2>3 DEF LateRound, TypeOK
<1> QED
  BY <1>1, <1>2

LEMMA RunTyping ==
  ASSUME TypeOK, Frozen, NEW w \in Workers, Run(w) \/ Refuse(w) \/ Fault(w)
  PROVE  work' \in [Workers -> Runs]
<1>0. work \in [Workers -> Runs] /\ work[w] \in Runs
  BY DEF TypeOK
<1>1. CASE Stop(w)
  BY <1>0, <1>1, IdleIsRun DEF Stop
<1>2. ASSUME NEW s \in Steps, Goto(w, s)
      PROVE  work' \in [Workers -> Runs]
  BY <1>0, <1>2 DEF Goto, Runs
<1>3. CASE PlanIncrement(w)
  <2>1. head \in Heads /\ global + 1 \in Heads
    BY <1>3 DEF PlanIncrement, TypeOK, Heads
  <2>2. PlanMissingBatches(Backlog, SealedIds) \subseteq Keys
    BY PlanTypes
  <2>3. at[head] \in [Feeds -> Rounds] /\ cursor \in [Feeds -> Rounds]
    BY <2>1 DEF TypeOK
  <2> DEFINE r == [step |-> IF Backlog = {} THEN "commit" ELSE "capture",
                   block |-> head, start |-> global + 1, states |-> cursor,
                   targets |-> at[head], batch |-> {},
                   todo |-> PlanMissingBatches(Backlog, SealedIds)]
  <2>4. r \in Runs
    BY <2>1, <2>2, <2>3 DEF Runs, Steps
  <2>5. work' = [work EXCEPT ![w] = r]
    BY <1>3 DEF PlanIncrement, Freeze
  <2> QED
    BY <1>0, <2>4, <2>5
<1>4. CASE FetchBatch(w)
  <2>1. PICK k \in work[w].todo :
          work' = [work EXCEPT ![w].step = IF bronze[k].sealed THEN "capture" ELSE "clear",
                               ![w].batch = IF bronze[k].sealed THEN {} ELSE {k},
                               ![w].todo = @ \ {k}]
    BY <1>4 DEF FetchBatch
  <2> QED
    BY <1>0, <2>1 DEF Runs, Steps
<1>5. CASE MarkBatch(w)
  BY <1>0, <1>5 DEF MarkBatch, Runs, Steps
<1>6. CASE PlanNothing(w) \/ Refuse(w) \/ Fault(w) \/ Commit(w)
  BY <1>1, <1>6 DEF PlanNothing, Refuse, RefusePlan, RefuseBatch, RefuseIncrement, Fault,
                    TearPromotion, TearIncrement, Die, Commit
<1>7. CASE \/ ClearPrefix(w) \/ FinishCapture(w) \/ PromoteBatch(w) \/ VerifyBatch(w)
  BY <1>1, <1>2, <1>7 DEF ClearPrefix, FinishCapture, PromoteBatch, VerifyBatch, Steps
<1>8. CASE Publish(w)
  BY <1>2, <1>8 DEF Publish, KeepIncrement, WriteIncrement, SealIncrement, LoadRaw, Steps
<1> QED
  BY <1>3, <1>4, <1>5, <1>6, <1>7, <1>8 DEF Run, Capture

LEMMA TypingStep ==
  ASSUME TypeOK, Frozen, [Next]_vars
  PROVE  TypeOK'
<1> USE DEF source, cursors, lake
<1>0. bronze \in [Keys -> Prefixes] /\ silver \in [Increments -> Prefixes]
  BY DEF TypeOK
<1>1. ASSUME NEW w \in Workers, Run(w) \/ Refuse(w) \/ Fault(w)
      PROVE  TypeOK'
  <2>1. work' \in [Workers -> Runs]
    BY <1>1, RunTyping
  <2>2. CASE UNCHANGED <<source, cursors, lake>>
    BY <2>1, <2>2 DEF TypeOK
  <2>3. CASE UNCHANGED <<source, cursors, silver, raw>> /\ bronze' \in [Keys -> Prefixes]
    BY <2>1, <2>3 DEF TypeOK
  <2>4. CASE UNCHANGED <<source, cursors, bronze, raw>> /\ silver' \in [Increments -> Prefixes]
    BY <2>1, <2>4 DEF TypeOK
  <2>5. CASE ClearPrefix(w) \/ PromoteBatch(w) \/ TearPromotion(w) \/ MarkBatch(w)
    <3>1. Key(w) \in Keys /\ Ids(Key(w)) \subseteq Observations
      BY <2>5, KeyOfRun, KeyTypes
         DEF ClearPrefix, PromoteBatch, TearPromotion, MarkBatch, At
    <3>2. CASE ClearPrefix(w) \/ MarkBatch(w)
      <4>1. [bronze[Key(w)] EXCEPT !.sealed = TRUE] \in Prefixes
        BY <1>0, <3>1 DEF Prefixes
      <4>2. bronze' \in [Keys -> Prefixes]
        BY <1>0, <3>1, <3>2, <4>1, PrefixTypes DEF ClearPrefix, MarkBatch
      <4> QED
        BY <2>3, <3>2, <4>2 DEF ClearPrefix, MarkBatch
    <3>3. CASE PromoteBatch(w) \/ TearPromotion(w)
      <4>1. bronze' \in [Keys -> Prefixes]
        <5>1. \A part \in SUBSET Observations :
                [bronze[Key(w)] EXCEPT !.held = part] \in Prefixes
          BY <1>0, <3>1 DEF Prefixes
        <5> QED
          BY <1>0, <3>1, <3>3, <5>1 DEF PromoteBatch, TearPromotion
      <4> QED
        BY <2>3, <3>3, <4>1 DEF PromoteBatch, TearPromotion
    <3> QED
      BY <2>5, <3>2, <3>3
  <2>6. CASE RefuseIncrement(w) \/ WriteIncrement(w) \/ TearIncrement(w) \/ SealIncrement(w)
    <3>1. Increment(w) \in Increments
      BY <2>6, IncrementOfRun
         DEF RefuseIncrement, WriteIncrement, TearIncrement, SealIncrement, At
    <3>2. Fresh(Increment(w)) \subseteq Observations
      BY PrefixTypes DEF Fresh
    <3>3. silver' \in [Increments -> Prefixes]
      <4>1. \A part \in SUBSET Observations : [held |-> part, sealed |-> FALSE] \in Prefixes
        BY DEF Prefixes
      <4>2. [silver[Increment(w)] EXCEPT !.sealed = TRUE] \in Prefixes
        BY <1>0, <3>1 DEF Prefixes
      <4>3. silver \in [Increments -> Prefixes]
        BY <1>0
      <4>4. CASE RefuseIncrement(w)
        BY PrefixTypes, <4>3, <4>4 DEF RefuseIncrement
      <4>5. CASE WriteIncrement(w)
        BY <3>2, <4>1, <4>3, <4>5 DEF WriteIncrement
      <4>6. CASE TearIncrement(w)
        BY <3>2, <4>1, <4>3, <4>6 DEF TearIncrement
      <4>7. CASE SealIncrement(w)
        BY <4>2, <4>3, <4>7 DEF SealIncrement
      <4> QED
        BY <2>6, <4>4, <4>5, <4>6, <4>7
    <3> QED
      BY <2>4, <2>6, <3>3 DEF RefuseIncrement, WriteIncrement, TearIncrement, SealIncrement
  <2>7. CASE LoadRaw(w)
    BY <2>1, <2>7, PrefixTypes DEF LoadRaw, TypeOK
  <2>8. CASE Commit(w)
    <3>1. work[w].block \in 0 .. head /\ work[w].targets \in [Feeds -> Rounds]
      BY RunTypes DEF Frozen, TypeOK, Heads
    <3> QED
      BY <2>1, <2>8, <3>1 DEF Commit, Candidates, TypeOK
  <2> QED
    BY <1>1, <2>2, <2>5, <2>6, <2>7, <2>8
       DEF Run, Refuse, Fault, Capture, Publish, PlanNothing, PlanIncrement, RefusePlan,
           FetchBatch, RefuseBatch, VerifyBatch, FinishCapture, KeepIncrement, Die
<1>2. CASE UNCHANGED vars
  BY <1>2 DEF vars, TypeOK
<1> QED
  BY <1>1, <1>2, SourceTyping DEF Next

\* What the feeds showed up to a block stays what it was.
LEMMA ShownStays ==
  ASSUME TypeOK, [Next]_vars
  PROVE  head' \in head .. MaxHead /\ \A b \in 0 .. head : at'[b] = at[b]
<1>0. head \in 0 .. MaxHead /\ at \in [Heads -> [Feeds -> Rounds]]
  BY DEF TypeOK, Heads
<1>1. CASE NewBlock
  BY <1>0, <1>1 DEF NewBlock, Heads
<1>2. ASSUME NEW w \in Workers, Run(w) \/ Refuse(w) \/ Fault(w)
      PROVE  head' = head /\ at' = at
  BY <1>2, RunCases DEF source
<1> QED
  BY <1>0, <1>1, <1>2 DEF Next, vars, LateRound

LEMMA RoundTypes ==
  ASSUME NEW r \in Rounds
  PROVE  r = <<r[1], r[2]>> /\ r[1] \in Nat /\ r[2] \in Nat
           /\ r[1] \in Phases /\ r[2] \in 1 .. MaxRound
BY DEF Rounds, Phases

LEMMA BeforeIsTransitive ==
  ASSUME NEW q \in Rounds, NEW r \in Rounds, NEW s \in Rounds, Before(q, r), Before(r, s)
  PROVE  Before(q, s)
BY RoundTypes DEF Before

LEMMA HistoryStep ==
  ASSUME TypeOK, History, [Next]_vars
  PROVE  History'
<1>0. head \in Nat /\ 0 \in 0 .. head /\ 0 .. head \subseteq Heads
  BY DEF TypeOK, Heads
<1>1. CASE UNCHANGED <<head, at>>
  BY <1>1 DEF History
<1>2. CASE NewBlock
  <2>1. PICK shown \in [Feeds -> Rounds] :
          /\ \A f \in Feeds : shown[f] \in Follows(at[head][f])
          /\ at' = [at EXCEPT ![head + 1] = shown]
    BY <1>2 DEF NewBlock
  <2>2. head' = head + 1 /\ head + 1 \in Heads
    BY <1>2 DEF NewBlock, TypeOK, Heads
  <2>3. at'[head + 1] = shown /\ \A b \in 0 .. head : at'[b] = at[b]
    BY <1>0, <2>1, <2>2 DEF TypeOK
  <2>4. \A b \in 0 .. head, f \in Feeds : at[b][f] \in Rounds
    BY <1>0 DEF TypeOK
  <2>5. ASSUME NEW f \in Feeds
        PROVE  Before(at[head][f], shown[f]) /\ Before(shown[f], shown[f])
    BY <1>0, <2>1, <2>4, RoundTypes DEF Follows, Before
  <2>6. ASSUME NEW a \in 0 .. head, NEW f \in Feeds
        PROVE  Before(at[a][f], shown[f])
    <3>1. Before(at[a][f], at[head][f])
      BY <1>0, <2>6 DEF History
    <3> QED
      BY <1>0, <2>1, <2>4, <2>5, <3>1, BeforeIsTransitive
  <2>7. \A a, b \in 0 .. head' : a <= b => \A f \in Feeds : Before(at'[a][f], at'[b][f])
    <3> SUFFICES ASSUME NEW a \in 0 .. head + 1, NEW b \in 0 .. head + 1, a <= b, NEW f \in Feeds
                 PROVE  Before(at'[a][f], at'[b][f])
      BY <2>2
    <3>1. a \in 0 .. head \/ (a = head + 1 /\ b = head + 1)
      BY <1>0
    <3>2. b \in 0 .. head \/ b = head + 1
      BY <1>0
    <3> QED
      BY <2>3, <2>5, <2>6, <3>1, <3>2 DEF History
  <2> QED
    BY <1>0, <2>3, <2>7 DEF History
<1>3. ASSUME NEW w \in Workers, Run(w) \/ Refuse(w) \/ Fault(w)
      PROVE  UNCHANGED <<head, at>>
  BY <1>3, RunCases DEF source
<1> QED
  BY <1>1, <1>2, <1>3 DEF Next, vars, LateRound

\* A run that writes a batch knows which.
LEMMA BatchStep ==
  ASSUME TypeOK, Frozen, NEW w \in Workers, Run(w) \/ Refuse(w) \/ Fault(w),
         work'[w].step \in {"clear", "promote", "verify", "mark"}
  PROVE  \E k \in Keys : work'[w].batch = {k}
<1>0. work \in [Workers -> Runs]
  BY DEF TypeOK
<1>1. CASE Stop(w)
  BY <1>0, <1>1, IdleIsRun DEF Stop
<1>2. CASE FetchBatch(w)
  <2>1. PICK k \in work[w].todo :
          work' = [work EXCEPT ![w].step = IF bronze[k].sealed THEN "capture" ELSE "clear",
                               ![w].batch = IF bronze[k].sealed THEN {} ELSE {k},
                               ![w].todo = @ \ {k}]
    BY <1>2 DEF FetchBatch
  <2>2. k \in Keys
    BY RunTypes
  <2> QED
    BY <1>0, <2>1, <2>2 DEF Runs
<1>3. ASSUME NEW s \in {"promote", "verify", "mark"}, Goto(w, s),
             work[w].step \in {"clear", "promote", "verify"}
      PROVE  \E k \in Keys : work'[w].batch = {k}
  <2>1. work'[w].batch = work[w].batch
    BY <1>0, <1>3 DEF Goto, Runs
  <2> QED
    BY <1>3, <2>1 DEF Frozen
<1>4. CASE ClearPrefix(w) \/ PromoteBatch(w) \/ VerifyBatch(w)
  BY <1>1, <1>3, <1>4 DEF ClearPrefix, PromoteBatch, VerifyBatch, At
<1>5. CASE \/ PlanNothing(w) \/ Refuse(w) \/ Fault(w) \/ Commit(w)
  BY <1>1, <1>5 DEF PlanNothing, Refuse, RefusePlan, RefuseBatch, RefuseIncrement, Fault,
                    TearPromotion, TearIncrement, Die, Commit
<1>6. ASSUME NEW s \in {"silver", "seal", "load", "commit", "capture"}, work'[w].step = s
      PROVE  FALSE
  BY <1>6
<1>7. ~(PlanIncrement(w) \/ MarkBatch(w) \/ FinishCapture(w) \/ Publish(w))
  BY <1>0, <1>6
     DEF PlanIncrement, Freeze, MarkBatch, FinishCapture, Publish, KeepIncrement,
         WriteIncrement, SealIncrement, LoadRaw, Goto, Runs
<1> QED
  BY <1>2, <1>4, <1>5, <1>7 DEF Run, Capture

LEMMA FrozenStep ==
  ASSUME TypeOK, History, Frozen, [Next]_vars
  PROVE  Frozen'
<1>0. work \in [Workers -> Runs] /\ \A v \in Workers : work[v].block \in 0 .. head
  BY RunTypes DEF TypeOK, Frozen, Heads
<1>1. ASSUME NEW v \in Workers, work'[v] = work[v]
      PROVE  /\ work'[v].block <= head' /\ work'[v].targets = at'[work'[v].block]
             /\ work'[v].step # "idle" => work'[v].start <= work'[v].block
             /\ work'[v].step \in {"clear", "promote", "verify", "mark"} =>
                  \E k \in Keys : work'[v].batch = {k}
  <2>1. head <= head' /\ at'[work[v].block] = at[work[v].block]
    BY <1>0, ShownStays
  <2>2. head \in Int /\ head' \in Int
    BY ShownStays DEF TypeOK, Heads
  <2> QED
    BY <1>0, <1>1, <2>1, <2>2 DEF Frozen, At
<1>2. CASE UNCHANGED work
  BY <1>1, <1>2 DEF Frozen, At
<1>3. ASSUME NEW w \in Workers, Run(w) \/ Refuse(w) \/ Fault(w)
      PROVE  Frozen'
  <2>1. UNCHANGED <<head, at>> /\ \A v \in Workers \ {w} : work'[v] = work[v]
    BY <1>3, RunCases DEF source
  <2>2. /\ work'[w].block <= head /\ work'[w].targets = at[work'[w].block]
        /\ work'[w].step # "idle" => work'[w].start <= work'[w].block
    <3>1. CASE work' = [work EXCEPT ![w] = Idle]
      <4>1. work'[w] = Idle
        BY <1>0, <3>1
      <4> QED
        BY <4>1, IdleIsRun DEF History, TypeOK, Heads
    <3>2. CASE PlanIncrement(w)
      <4>1. work'[w].block = head /\ work'[w].targets = at[head] /\ work'[w].start = global + 1
        BY <1>0, <3>2 DEF PlanIncrement, Freeze
      <4>2. global < head /\ global \in Int /\ head \in Int
        BY <3>2 DEF PlanIncrement, TypeOK, Heads
      <4> QED
        BY <4>1, <4>2
    <3>3. CASE Keeps(w)
      BY <3>3 DEF Keeps, Frozen, At
    <3> QED
      BY <1>3, <3>1, <3>2, <3>3, RunCases
  <2>3. work'[w].step \in {"clear", "promote", "verify", "mark"} =>
          \E k \in Keys : work'[w].batch = {k}
    BY <1>3, BatchStep
  <2> QED
    BY <1>1, <2>1, <2>2, <2>3 DEF Frozen, At
<1> QED
  BY <1>2, <1>3 DEF Next, vars, NewBlock, LateRound

\* Each commit writes the block it froze with the rounds the feeds showed at it.
LEMMA SnapshotStep ==
  ASSUME TypeOK, Frozen, CursorsShareOneBlock, [Next]_vars
  PROVE  CursorsShareOneBlock'
<1>0. global \in 0 .. head /\ at'[global] = at[global]
  BY ShownStays DEF TypeOK
<1>1. CASE UNCHANGED cursors
  BY <1>0, <1>1 DEF cursors, CursorsShareOneBlock
<1>2. ASSUME NEW w \in Workers, Commit(w), global' = work[w].block, cursor' = Candidates(w)
      PROVE  CursorsShareOneBlock'
  <2>1. at' = at /\ work[w].targets = at[work[w].block]
    BY <1>2 DEF Commit, source, Frozen
  <2> QED
    BY <1>2, <2>1 DEF Candidates, CursorsShareOneBlock
<1>3. ASSUME NEW w \in Workers, Run(w) \/ Refuse(w) \/ Fault(w)
      PROVE  \/ UNCHANGED cursors
             \/ Commit(w) /\ global' = work[w].block /\ cursor' = Candidates(w)
  BY <1>3
     DEF Run, Refuse, Fault, Capture, Publish, PlanNothing, PlanIncrement, RefusePlan,
         FetchBatch, RefuseBatch, ClearPrefix, PromoteBatch, VerifyBatch, MarkBatch,
         FinishCapture, KeepIncrement, WriteIncrement, SealIncrement, LoadRaw,
         RefuseIncrement, TearPromotion, TearIncrement, Die, Commit
<1> QED
  BY <1>1, <1>2, <1>3 DEF Next, vars, NewBlock, LateRound, cursors

LEMMA SafeInit ==
  ASSUME Init
  PROVE  Safe
<1>1. NoPrefix \in Prefixes
  BY DEF NoPrefix, Prefixes
<1>2. head = 0 /\ 0 \in Heads /\ at \in [Heads -> [Feeds -> Rounds]]
  BY IdleIsRun DEF Init, Heads
<1>3. TypeOK
  BY <1>1, <1>2, IdleIsRun DEF Init, TypeOK
<1>4. \A b \in 0 .. head : b = 0
  BY <1>2
<1>5. at[0] = FirstRounds
  BY <1>2 DEF Init
<1>6. \A f \in Feeds : Before(FirstRounds[f], FirstRounds[f])
  BY DEF Before, FirstRounds
<1>7. History /\ CursorsShareOneBlock
  BY <1>4, <1>5, <1>6 DEF Init, History, CursorsShareOneBlock
<1>8. Frozen
  BY <1>2, <1>5, IdleIsRun DEF Init, Frozen, At
<1> QED
  BY <1>3, <1>7, <1>8 DEF Safe

\* For any number of runs: types, and what a run has frozen.
THEOREM Safety == Spec => []Safe
<1>1. Init => Safe
  BY SafeInit
<1>2. Safe /\ [Next]_vars => Safe'
  BY TypingStep, HistoryStep, FrozenStep, SnapshotStep DEF Safe
<1> QED
  BY <1>1, <1>2, PTL DEF Spec

\* Types, for any number of runs at a time.
THEOREM Typing == Spec => []TypeOK
<1>1. Safe => TypeOK
  BY DEF Safe
<1> QED
  BY <1>1, Safety, PTL

\* freeze_chainlink_snapshot and commit_watermarks_atomically: the global block and the
\* feed cursors are one snapshot, whatever runs died or overtook each other.
THEOREM CursorsAreOneSnapshot == Spec => []CursorsShareOneBlock
<1>1. Safe => CursorsShareOneBlock
  BY DEF Safe
<1> QED
  BY <1>1, Safety, PTL

-------------------------------------------------------------------------------

LEMMA ObservationsAreFinite == IsFiniteSet(Observations)
<1> DEFINE Numbers == 1 .. MaxRound
           Nested == (Feeds \X Phases) \X Numbers
           flat == [x \in Nested |-> <<x[1][1], x[1][2], x[2]>>]
<1>1. IsFiniteSet(Numbers) /\ IsFiniteSet(Phases)
  BY FS_Interval DEF Phases
<1>2. IsFiniteSet(Feeds \X Phases)
  BY <1>1, FeedsAssumption, FS_Product
<1>3. IsFiniteSet(Nested)
  <2> HIDE DEF Numbers
  <2> QED
    BY <1>1, <1>2, FS_Product
<1>4. flat \in Surjection(Nested, Observations)
  <2>1. \A o \in Observations : <<<<o[1], o[2]>>, o[3]>> \in Nested
                                /\ flat[<<<<o[1], o[2]>>, o[3]>>] = o
    BY DEF Observations
  <2>2. flat \in [Nested -> Observations]
    BY DEF Observations
  <2> QED
    BY <2>1, <2>2, Fun_IsSurj
<1> QED
  BY <1>3, <1>4, FS_Surjection

\* Rounds behind the cursors are only added.
LEMMA BacklogGrows ==
  ASSUME TypeOK, NewBlock \/ LateRound
  PROVE  Backlog \subseteq Backlog'
<1>0. /\ head \in Nat /\ head' \in Nat /\ head <= head' /\ UNCHANGED cursor
      /\ \A b \in 0 .. head : at'[b] = at[b]
      /\ late \subseteq late'
  <2>1. [Next]_vars
    BY DEF Next
  <2>2. UNCHANGED cursor /\ late \subseteq late'
    BY DEF NewBlock, LateRound, cursors
  <2> QED
    BY <2>1, <2>2, ShownStays DEF TypeOK, Heads
<1>1. ASSUME NEW f \in Feeds, NEW p
      PROVE  PhaseLatest(f, p) <= PhaseLatest(f, p)'
  <2>1. Reported(f, p) \subseteq Reported(f, p)' /\ Reported(f, p)' \in SUBSET (1 .. MaxRound)
    BY <1>0 DEF Reported
  <2>2. PhaseLatest(f, p) = Latest(Reported(f, p))
    BY DEF PhaseLatest, Latest, Reported
  <2>3. PhaseLatest(f, p)' = Latest(Reported(f, p)')
    BY DEF PhaseLatest, Latest, Reported
  <2>4. Latest(Reported(f, p)') \in Nat /\ \A k \in Reported(f, p)' : k <= Latest(Reported(f, p)')
    BY <2>1, LatestOf
  <2>5. Latest(Reported(f, p)) \in Reported(f, p) \cup {0}
    <3>1. Reported(f, p) \in SUBSET (1 .. MaxRound)
      BY DEF Reported
    <3> QED
      BY <3>1, LatestIn
  <2> QED
    BY <2>1, <2>2, <2>3, <2>4, <2>5
<1>2. ASSUME NEW f \in Feeds
      PROVE  /\ at[head][f] \in Rounds /\ at'[head'][f] \in Rounds
             /\ Before(at[head][f], at'[head'][f])
  <2>1. at[head][f] \in Rounds /\ Before(at[head][f], at[head][f])
    BY RoundTypes DEF TypeOK, Before
  <2>2. CASE LateRound
    BY <2>1, <2>2 DEF LateRound
  <2>3. CASE NewBlock
    <3>1. PICK shown \in [Feeds -> Rounds] :
            /\ \A g \in Feeds : shown[g] \in Follows(at[head][g])
            /\ at' = [at EXCEPT ![head + 1] = shown]
      BY <2>3 DEF NewBlock
    <3>2. at'[head'][f] = shown[f]
      BY <2>3, <3>1 DEF NewBlock, TypeOK, Heads
    <3> QED
      BY <2>1, <3>1, <3>2, RoundTypes DEF Follows, Before
  <2> QED
    BY <2>2, <2>3
<1>3. ASSUME NEW f \in Feeds, NEW o \in RangesAfterCursor(f, cursor[f], at[head][f])
      PROVE  o \in RangesAfterCursor(f, cursor[f], at[head][f])'
  <2> DEFINE p == o[2]
             n == o[3]
             t == at[head][f]
             u == at'[head'][f]
  <2>1. o \in Of(f) /\ p \in Phases /\ n \in 1 .. MaxRound
    BY DEF RangesAfterCursor, Of
  <2>2. /\ cursor[f][1] <= p /\ p <= t[1]
        /\ n > (IF p = cursor[f][1] THEN cursor[f][2] ELSE 0)
        /\ n <= (IF p = t[1] THEN t[2] ELSE PhaseLatest(f, p))
    BY <1>3 DEF RangesAfterCursor
  <2>3. /\ t = <<t[1], t[2]>> /\ t[1] \in Nat /\ t[2] \in 1 .. MaxRound
        /\ u = <<u[1], u[2]>> /\ u[1] \in Nat /\ u[2] \in 1 .. MaxRound
        /\ t[1] < u[1] \/ (t[1] = u[1] /\ t[2] <= u[2])
    BY <1>2, RoundTypes DEF Before
  <2>4. p \in Nat /\ n \in Nat
    BY <2>1 DEF Phases
  <2>5. p <= u[1]
    BY <2>2, <2>3, <2>4
  <2>6. n <= (IF p = u[1] THEN u[2] ELSE PhaseLatest(f, p)')
    <3>1. PhaseLatest(f, p) \in Nat /\ PhaseLatest(f, p)' \in Nat
      <4>1. PhaseLatest(f, p) \in 0 .. MaxRound
        BY PhaseLatestBounds
      <4>2. Reported(f, p)' \in SUBSET (1 .. MaxRound)
        BY DEF Reported
      <4>3. PhaseLatest(f, p)' = Latest(Reported(f, p)')
        BY DEF PhaseLatest, Latest, Reported
      <4> QED
        BY <4>1, <4>2, <4>3, LatestOf
    <3>2. CASE p = u[1]
      BY <2>2, <2>3, <2>4, <3>2
    <3>3. CASE p # u[1] /\ p # t[1]
      BY <1>1, <2>2, <2>4, <3>1, <3>3
    <3>4. CASE p # u[1] /\ p = t[1]
      <4>1. t[2] \in Reported(f, p)
        BY <1>0, <2>3, <3>4 DEF Reported
      <4>2. t[2] <= PhaseLatest(f, p)
        BY <4>1, PhaseLatestBounds
      <4> QED
        BY <1>1, <2>2, <2>3, <2>4, <3>1, <3>4, <4>2
    <3> QED
      BY <3>2, <3>3, <3>4
  <2> HIDE DEF p, n, t, u
  <2>7. o \in Of(f) /\ cursor'[f] = cursor[f]
    BY <1>0, <2>1
  <2> QED
    BY <2>2, <2>5, <2>6, <2>7 DEF RangesAfterCursor, p, n, u
<1> QED
  BY <1>3 DEF Backlog

\* plan_chainlink_forward: more rounds than the limit behind the cursors are never again
\* few enough, however long the pipeline is run.
THEOREM BacklogOverLimitIsFinal == Spec => OverLimitIsFinal
<1>1. TypeOK /\ TypeOK' /\ [Next]_vars => [Overwhelmed => Overwhelmed']_vars
  <2> SUFFICES ASSUME TypeOK, [Next]_vars, Overwhelmed
               PROVE  Overwhelmed'
    OBVIOUS
  <2>1. CASE NewBlock \/ LateRound
    <3>1. Backlog \subseteq Backlog' /\ Backlog' \subseteq Observations
      BY <2>1, BacklogGrows DEF Backlog, RangesAfterCursor, Of, Observations
    <3>2. IsFiniteSet(Backlog') /\ Cardinality(Backlog) <= Cardinality(Backlog')
      BY <3>1, ObservationsAreFinite, FS_Subset
    <3>3. IsFiniteSet(Backlog)
      BY <3>1, <3>2, FS_Subset
    <3>4. Cardinality(Backlog) \in Nat /\ Cardinality(Backlog') \in Nat
      BY <3>2, <3>3, FS_CardinalityType
    <3>5. UNCHANGED work
      BY <2>1 DEF NewBlock, LateRound
    <3> QED
      BY <3>2, <3>4, <3>5, MaxRoundsAssumption DEF Overwhelmed, OverLimit, At
  <2>2. ASSUME NEW w \in Workers, Run(w) \/ Refuse(w) \/ Fault(w)
        PROVE  Overwhelmed'
    <3>1. At(w, "idle") /\ OverLimit
      BY DEF Overwhelmed
    <3>2. PlanNothing(w) \/ RefusePlan(w)
      BY <2>2, <3>1
         DEF Run, Refuse, Fault, Capture, Publish, PlanIncrement, FetchBatch, RefuseBatch,
             ClearPrefix, PromoteBatch, VerifyBatch, MarkBatch, FinishCapture,
             KeepIncrement, WriteIncrement, SealIncrement, LoadRaw, RefuseIncrement,
             TearPromotion, TearIncrement, Die, Commit, At
    <3>3. UNCHANGED <<source, cursors>> /\ Stop(w)
      BY <3>2 DEF PlanNothing, RefusePlan
    <3>4. OverLimit'
      BY <3>1, <3>3 DEF source, cursors, OverLimit, Backlog, RangesAfterCursor, PhaseLatest
    <3>5. \A v \in Workers : work'[v].step = "idle"
      BY <3>3, IdleIsRun DEF Stop, Overwhelmed, At, TypeOK
    <3> QED
      BY <3>4, <3>5 DEF Overwhelmed, At
  <2>3. CASE UNCHANGED vars
    BY <2>3 DEF vars, Overwhelmed, OverLimit, Backlog, RangesAfterCursor, PhaseLatest, At
  <2> QED
    BY <2>1, <2>2, <2>3 DEF Next
<1> QED
  BY <1>1, Typing, PTL DEF Spec, OverLimitIsFinal

-------------------------------------------------------------------------------

\* What the feeds showed up to a block of the past does not change.
LEMMA NeededStays ==
  ASSUME TypeOK, [Next]_vars, NEW block \in 0 .. head
  PROVE  Needed(block)' = Needed(block)
<1>1. \A b \in 0 .. block : at'[b] = at[b]
  <2>1. \A b \in 0 .. block : b \in 0 .. head
    BY DEF TypeOK, Heads
  <2> QED
    BY <2>1, ShownStays
<1>2. \A f \in Feeds : Shown(f, block)' = Shown(f, block)
  BY <1>1 DEF Shown
<1> QED
  BY <1>2 DEF Needed

\* The backlog has every round shown up to the head that a commit did not vouch for yet.
LEMMA PlanIsComplete ==
  ASSUME TypeOK, History, CursorsShareOneBlock
  PROVE  Needed(head) \subseteq Needed(global) \cup Backlog
<1> SUFFICES ASSUME NEW f \in Feeds, NEW o \in Shown(f, head), o \notin Shown(f, global)
             PROVE  o \in RangesAfterCursor(f, cursor[f], at[head][f])
  BY DEF Needed, Backlog
<1> DEFINE p == o[2]
           n == o[3]
<1>1. o \in Of(f) /\ p \in Nat /\ n \in 1 .. MaxRound /\ <<p, n>> # <<1, 1>>
  BY DEF Shown, Of, Phases
<1>2. PICK b \in 0 .. head : at[b][f][1] = p /\ n <= at[b][f][2]
  BY DEF Shown
<1>3. \A a \in 0 .. global : ~(at[a][f][1] = p /\ n <= at[a][f][2])
  BY <1>1 DEF Shown
<1>4. /\ global \in 0 .. head /\ head \in 0 .. head /\ 0 .. head \subseteq Heads
      /\ global \in Nat /\ head \in Nat /\ b \in Nat
  BY DEF TypeOK, Heads
<1>5. global <= b
  BY <1>2, <1>3, <1>4
<1> DEFINE c == cursor[f]
           s == at[b][f]
           t == at[head][f]
<1>6. Before(c, s) /\ Before(s, t) /\ c = at[global][f]
  BY <1>2, <1>4, <1>5 DEF History, CursorsShareOneBlock
<1>7. c \in Rounds /\ s \in Rounds /\ t \in Rounds
  BY <1>2, <1>4 DEF TypeOK
<1>8. /\ c[1] \in Nat /\ c[2] \in Nat /\ s[1] \in Nat /\ s[2] \in 1 .. MaxRound
      /\ t[1] \in Nat /\ t[2] \in Nat /\ s = <<s[1], s[2]>>
  BY <1>7, RoundTypes
<1>9. s[1] = p /\ n <= s[2]
  BY <1>2
<1>10. c[1] <= p /\ p <= t[1]
  BY <1>6, <1>8, <1>9 DEF Before
<1>11. n > (IF p = c[1] THEN c[2] ELSE 0)
  <2>1. ~(c[1] = p /\ n <= c[2])
    BY <1>3, <1>4, <1>6
  <2> QED
    BY <1>1, <1>8, <2>1
<1>12. n <= (IF p = t[1] THEN t[2] ELSE PhaseLatest(f, p))
  <2>1. CASE p = t[1]
    BY <1>1, <1>6, <1>8, <1>9, <2>1 DEF Before
  <2>2. CASE p # t[1]
    <3>1. s[2] \in Reported(f, p)
      BY <1>2, <1>8, <1>9 DEF Reported
    <3>2. s[2] <= PhaseLatest(f, p) /\ PhaseLatest(f, p) \in Nat
      BY <3>1, PhaseLatestBounds
    <3> QED
      BY <1>1, <1>8, <1>9, <2>2, <3>2
  <2> QED
    BY <2>1, <2>2
<1> QED
  BY <1>1, <1>10, <1>11, <1>12 DEF RangesAfterCursor

Writing == {"capture", "clear", "promote", "verify", "mark"}

\* A batch that a run has yet to seal is not sealed.
LEMMA PendingIsOpen ==
  ASSUME BronzeOK, CaptureOK, NEW w \in Workers, work[w].step \in Writing,
         NEW k \in Keys, k \in Pending(w)
  PROVE  ~bronze[k].sealed
<1> SUFFICES ASSUME bronze[k].sealed PROVE FALSE
  OBVIOUS
<1>1. Ids(k) \cap SealedIds = {}
  BY DEF CaptureOK, Writing
<1>2. Ids(k) \subseteq SealedIds
  BY DEF BronzeOK, SealedIds, SealedKeys
<1> QED
  BY <1>1, <1>2, KeyTypes

\* What a step of a run does to the committed batches: nothing, or it adds its own.
LEMMA SealedCases ==
  ASSUME TypeOK, Frozen, BronzeOK, CaptureOK, NEW w \in Workers,
         Run(w) \/ Refuse(w) \/ Fault(w)
  PROVE  /\ \A k \in SealedKeys : bronze'[k] = bronze[k]
         /\ \/ SealedKeys' = SealedKeys /\ SealedIds' = SealedIds
            \/ /\ MarkBatch(w) /\ Key(w) \in Keys
               /\ SealedKeys' = SealedKeys \cup {Key(w)}
               /\ SealedIds' = SealedIds \cup Ids(Key(w))
               /\ bronze'[Key(w)].held = Ids(Key(w))
<1> USE DEF source, cursors, lake
<1>0. bronze \in [Keys -> Prefixes]
  BY DEF TypeOK
<1>1. ASSUME work[w].step \in {"clear", "promote", "verify", "mark"}
      PROVE  /\ Key(w) \in Keys /\ Key(w) \in work[w].batch /\ Key(w) \in Pending(w)
             /\ ~bronze[Key(w)].sealed
  <2>1. Key(w) \in Keys /\ work[w].batch = {Key(w)}
    BY <1>1, KeyOfRun
  <2>2. Key(w) \in Pending(w) /\ work[w].step \in Writing
    BY <1>1, <2>1 DEF Pending, Writing
  <2> QED
    BY <2>1, <2>2, PendingIsOpen
<1>2. ASSUME ~bronze'[Key(w)].sealed, ~bronze[Key(w)].sealed,
             \A k \in Keys \ {Key(w)} : bronze'[k] = bronze[k]
      PROVE  /\ \A k \in SealedKeys : bronze'[k] = bronze[k]
             /\ SealedKeys' = SealedKeys /\ SealedIds' = SealedIds
  <2>1. \A k \in Keys : bronze[k].sealed => k # Key(w) /\ bronze'[k] = bronze[k]
    BY <1>2
  <2>2. SealedKeys' = SealedKeys /\ \A k \in SealedKeys : bronze'[k] = bronze[k]
    BY <1>2, <2>1 DEF SealedKeys
  <2> QED
    BY <2>2 DEF SealedIds
<1>3. CASE UNCHANGED bronze
  BY <1>3 DEF SealedKeys, SealedIds
<1>4. CASE ClearPrefix(w)
  <2>1. Key(w) \in Keys /\ ~bronze[Key(w)].sealed
    BY <1>1, <1>4 DEF ClearPrefix, At
  <2>2. ~bronze'[Key(w)].sealed /\ \A k \in Keys \ {Key(w)} : bronze'[k] = bronze[k]
    BY <1>0, <1>4, <2>1 DEF ClearPrefix, NoPrefix
  <2> QED
    BY <1>2, <2>1, <2>2
<1>5. CASE (PromoteBatch(w) \/ TearPromotion(w)) /\ ~UNCHANGED bronze
  <2>1. Key(w) \in Keys /\ ~bronze[Key(w)].sealed
    BY <1>1, <1>5 DEF PromoteBatch, TearPromotion, At
  <2>2. ~bronze'[Key(w)].sealed /\ \A k \in Keys \ {Key(w)} : bronze'[k] = bronze[k]
    BY <1>0, <1>5, <2>1 DEF PromoteBatch, TearPromotion, Prefixes
  <2> QED
    BY <1>2, <2>1, <2>2
<1>6. CASE MarkBatch(w)
  <2>1. Key(w) \in Keys /\ ~bronze[Key(w)].sealed /\ Key(w) \in work[w].batch
    BY <1>1, <1>6 DEF MarkBatch, At
  <2>2. /\ bronze'[Key(w)].sealed /\ bronze'[Key(w)].held = bronze[Key(w)].held
        /\ \A k \in Keys \ {Key(w)} : bronze'[k] = bronze[k]
    BY <1>0, <1>6, <2>1 DEF MarkBatch, Prefixes
  <2>3. bronze[Key(w)].held = Ids(Key(w))
    BY <1>6, <2>1 DEF MarkBatch, CaptureOK
  <2>4. SealedKeys' = SealedKeys \cup {Key(w)} /\ Key(w) \notin SealedKeys
    BY <2>1, <2>2 DEF SealedKeys
  <2>5. \A k \in SealedKeys : bronze'[k] = bronze[k]
    BY <2>2, <2>4 DEF SealedKeys
  <2>6. SealedIds' = SealedIds \cup Ids(Key(w))
    BY <2>2, <2>3, <2>4, <2>5 DEF SealedIds
  <2> QED
    BY <1>6, <2>1, <2>2, <2>3, <2>4, <2>5, <2>6
<1>7. \/ UNCHANGED bronze
      \/ ClearPrefix(w) \/ PromoteBatch(w) \/ TearPromotion(w) \/ MarkBatch(w)
  BY DEF Run, Refuse, Fault, Capture, Publish, PlanNothing, PlanIncrement, RefusePlan,
         FetchBatch, RefuseBatch, VerifyBatch, FinishCapture, KeepIncrement,
         WriteIncrement, SealIncrement, LoadRaw, RefuseIncrement, TearIncrement, Die, Commit
<1> QED
  BY <1>3, <1>4, <1>5, <1>6, <1>7

\* Committed batches stay what they are, and whole.
LEMMA BronzeStep ==
  ASSUME TypeOK, Frozen, BronzeOK, CaptureOK, [Next]_vars
  PROVE  /\ BronzeOK'
         /\ SealedIds \subseteq SealedIds'
<1>1. CASE UNCHANGED bronze
  BY <1>1 DEF BronzeOK, SealedKeys, SealedIds
<1>2. ASSUME NEW w \in Workers, Run(w) \/ Refuse(w) \/ Fault(w)
      PROVE  BronzeOK' /\ SealedIds \subseteq SealedIds'
  <2>1. CASE SealedKeys' = SealedKeys /\ SealedIds' = SealedIds
    <3>1. \A k \in SealedKeys : bronze'[k] = bronze[k]
      BY <1>2, SealedCases
    <3>2. \A k \in Keys : bronze'[k].sealed <=> bronze[k].sealed
      BY <2>1 DEF SealedKeys
    <3> QED
      BY <2>1, <3>1, <3>2 DEF BronzeOK, SealedKeys
  <2>2. CASE /\ MarkBatch(w) /\ Key(w) \in Keys
             /\ SealedKeys' = SealedKeys \cup {Key(w)}
             /\ SealedIds' = SealedIds \cup Ids(Key(w))
             /\ bronze'[Key(w)].held = Ids(Key(w))
    <3>1. \A k \in SealedKeys : bronze'[k] = bronze[k]
      BY <1>2, SealedCases
    <3>2. Ids(Key(w)) \cap SealedIds = {}
      <4>1. work[w].step = "mark"
        BY <2>2 DEF MarkBatch, At
      <4>2. Key(w) \in Pending(w)
        BY <4>1, KeyOfRun DEF Pending
      <4> QED
        BY <4>1, <4>2 DEF CaptureOK
    <3>3. \A k \in SealedKeys : Ids(k) \subseteq SealedIds
      BY DEF BronzeOK, SealedIds, SealedKeys
    <3>4. \A k \in Keys : bronze'[k].sealed => k \in SealedKeys \cup {Key(w)}
      BY <2>2 DEF SealedKeys
    <3>5. \A k \in Keys : bronze'[k].sealed => bronze'[k].held = Ids(k)
      BY <2>2, <3>1, <3>4 DEF BronzeOK, SealedKeys
    <3>6. \A j, k \in SealedKeys' : j # k => Ids(j) \cap Ids(k) = {}
      BY <2>2, <3>2, <3>3 DEF BronzeOK
    <3> QED
      BY <2>2, <3>5, <3>6 DEF BronzeOK
  <2> QED
    BY <1>2, <2>1, <2>2, SealedCases
<1> QED
  BY <1>1, <1>2 DEF Next, vars, NewBlock, LateRound, lake

\* The invariant but for its last conjuncts, which the capture does not look at.
Captured == Safe /\ BronzeOK /\ CaptureOK /\ CursorIsLoaded

LEMMA LoadedIsNeeded == CursorIsLoaded <=> Needed(global) \subseteq SealedIds \cap raw
<1>1. \A f \in Feeds : Vouched(f) = Shown(f, global)
  BY DEF Vouched, Shown
<1> QED
  BY <1>1 DEF CursorIsLoaded, Needed

\* A run that plans has, in Bronze and in its batches, all it is about to vouch for.
LEMMA PlanStep ==
  ASSUME Captured, NEW w \in Workers, PlanIncrement(w)
  PROVE  /\ work'[w].block = head /\ work'[w].start = global + 1
         /\ work'[w].batch = {} /\ work'[w].todo = PlanMissingBatches(Backlog, SealedIds)
         /\ work'[w].step = IF Backlog = {} THEN "commit" ELSE "capture"
         /\ UNCHANGED <<source, cursors, lake>>
         /\ Backlog = {} => Needed(head) \subseteq SealedIds \cap raw
         /\ Needed(head) \subseteq SealedIds \cup UNION {Ids(k) : k \in work'[w].todo}
<1>0. work \in [Workers -> Runs]
  BY DEF Captured, Safe, TypeOK
<1>1. /\ work'[w].block = head /\ work'[w].start = global + 1
      /\ work'[w].batch = {} /\ work'[w].todo = PlanMissingBatches(Backlog, SealedIds)
      /\ work'[w].step = IF Backlog = {} THEN "commit" ELSE "capture"
      /\ UNCHANGED <<source, cursors, lake>>
  BY <1>0 DEF PlanIncrement, Freeze
<1>2. Needed(head) \subseteq Needed(global) \cup Backlog
  BY PlanIsComplete DEF Captured, Safe
<1>3. Needed(global) \subseteq SealedIds \cap raw
  BY LoadedIsNeeded DEF Captured
<1>4. \A o \in Backlog \ SealedIds : \E k \in work'[w].todo : o \in Ids(k)
  BY <1>1, PlanTypes, BatchesAreComplete
<1> QED
  BY <1>1, <1>2, <1>3, <1>4

\* The capture's part of the invariant.
LEMMA CaptureStep ==
  ASSUME OneWorker, Captured, [Next]_vars
  PROVE  CaptureOK'
<1> USE DEF source, cursors, lake
<1>0. /\ TypeOK /\ Frozen /\ BronzeOK /\ CaptureOK
      /\ work \in [Workers -> Runs]
      /\ \A v \in Workers : work[v].block \in 0 .. head
  BY RunTypes DEF Captured, Safe, TypeOK, Frozen, Heads
<1>1. CASE UNCHANGED <<work, bronze>>
  <2>1. \A v \in Workers : Needed(work[v].block)' = Needed(work[v].block)
    <3> SUFFICES ASSUME NEW v \in Workers
                 PROVE  Needed(work[v].block)' = Needed(work[v].block)
      OBVIOUS
    <3>1. PICK block \in 0 .. head : block = work[v].block
      BY <1>0
    <3>2. Needed(block)' = Needed(block)
      BY <1>0, NeededStays
    <3> QED
      BY <1>1, <3>1, <3>2 DEF Needed, Shown
  <2>2. SealedIds' = SealedIds
    BY <1>1 DEF SealedIds, SealedKeys
  <2>3. \A v \in Workers : Pending(v)' = Pending(v)
    BY <1>1 DEF Pending
  <2> QED
    BY <1>0, <1>1, <2>1, <2>2, <2>3 DEF CaptureOK, At
<1>2. ASSUME NEW w \in Workers, work'[w].step \notin Writing
      PROVE  CaptureOK'
  BY <1>2 DEF OneWorker, CaptureOK, At, Writing
<1>3. ASSUME NEW w \in Workers, Run(w) \/ Refuse(w) \/ Fault(w)
      PROVE  UNCHANGED <<head, at>>
  BY <1>0, <1>3, RunCases
<1>4. ASSUME NEW w \in Workers, PlanIncrement(w)
      PROVE  CaptureOK'
  <2>1. CASE Backlog = {}
    <3>1. work'[w].step = "commit"
      BY <1>4, <2>1, PlanStep
    <3> QED
      BY <1>2, <3>1 DEF Writing
  <2>2. CASE Backlog # {}
    <3>1. /\ work'[w].step = "capture" /\ work'[w].batch = {} /\ work'[w].block = head
          /\ work'[w].todo = PlanMissingBatches(Backlog, SealedIds)
          /\ UNCHANGED <<head, at, bronze>>
      BY <1>4, <2>2, PlanStep
    <3>2. Pending(w)' = work'[w].todo /\ SealedIds' = SealedIds
      BY <3>1 DEF Pending, SealedIds, SealedKeys
    <3>3. Needed(work[w].block)' = Needed(head)
      BY <3>1 DEF Needed, Shown
    <3>4. Needed(head) \subseteq SealedIds \cup UNION {Ids(k) : k \in work'[w].todo}
      BY <1>4, PlanStep
    <3>5. \A k \in work'[w].todo : Ids(k) \cap SealedIds = {}
      BY <3>1, BatchesAreMissing
    <3>6. \A j, k \in work'[w].todo : j # k => Ids(j) \cap Ids(k) = {}
      BY <3>1, BatchesAreDisjoint
    <3> QED
      BY <3>1, <3>2, <3>3, <3>4, <3>5, <3>6 DEF OneWorker, CaptureOK, At
  <2> QED
    BY <2>1, <2>2
<1>5. ASSUME NEW w \in Workers, Run(w) \/ Refuse(w) \/ Fault(w),
             work[w].step \in Writing, work'[w].step \in Writing,
             work'[w].block = work[w].block, Pending(w)' = Pending(w),
             SealedIds' = SealedIds,
             work'[w].todo \cap work'[w].batch = {},
             work'[w].step = "capture" => work'[w].batch = {},
             work'[w].step = "mark" => \A k \in work'[w].batch : bronze'[k].held = Ids(k)
      PROVE  CaptureOK'
  <2>1. Needed(work[w].block)' = Needed(work[w].block)
    BY <1>3, <1>5 DEF Needed, Shown
  <2> QED
    BY <1>0, <1>5, <2>1 DEF OneWorker, CaptureOK, At, Writing
<1>6. ASSUME NEW w \in Workers, FetchBatch(w)
      PROVE  CaptureOK'
  <2>1. PICK k \in work[w].todo :
          work' = [work EXCEPT ![w].step = IF bronze[k].sealed THEN "capture" ELSE "clear",
                               ![w].batch = IF bronze[k].sealed THEN {} ELSE {k},
                               ![w].todo = @ \ {k}]
    BY <1>6 DEF FetchBatch
  <2>2. work[w].step = "capture" /\ work[w].batch = {} /\ UNCHANGED bronze
    BY <1>0, <1>6 DEF FetchBatch, At, CaptureOK
  <2>3. ~bronze[k].sealed
    <3>1. k \in Keys /\ k \in Pending(w)
      BY <1>0, RunTypes DEF Pending
    <3> QED
      BY <1>0, <2>2, <3>1, PendingIsOpen DEF Writing
  <2>4. /\ work'[w].step = "clear" /\ work'[w].batch = {k}
        /\ work'[w].todo = work[w].todo \ {k} /\ work'[w].block = work[w].block
    BY <1>0, <2>1, <2>3 DEF Runs
  <2>5. Pending(w)' = Pending(w) /\ SealedIds' = SealedIds
    BY <2>2, <2>4 DEF Pending, SealedIds, SealedKeys
  <2> QED
    BY <1>5, <1>6, <2>2, <2>4, <2>5 DEF Run, Capture, Writing
<1>7. ASSUME NEW w \in Workers, Run(w) \/ Refuse(w) \/ Fault(w), NEW s \in Writing \ {"capture"},
             Goto(w, s), work[w].step \in Writing \ {"capture"}, ~MarkBatch(w),
             s = "mark" => \A k \in work[w].batch : bronze'[k].held = Ids(k)
      PROVE  CaptureOK'
  <2>1. /\ work'[w].step = s /\ work'[w].block = work[w].block
        /\ work'[w].todo = work[w].todo /\ work'[w].batch = work[w].batch
    BY <1>0, <1>7 DEF Goto, Runs, Steps, Writing
  <2>2. SealedIds' = SealedIds /\ Pending(w)' = Pending(w)
    BY <1>0, <1>7, <2>1, SealedCases DEF Pending
  <2>3. work[w].todo \cap work[w].batch = {}
    BY <1>0, <1>7 DEF CaptureOK, Writing
  <2> QED
    BY <1>5, <1>7, <2>1, <2>2, <2>3
<1>8. ASSUME NEW w \in Workers, Stop(w)
      PROVE  CaptureOK'
  <2>1. work'[w].step = "idle"
    BY <1>0, <1>8, IdleIsRun DEF Stop
  <2> QED
    BY <1>2, <2>1 DEF Writing
<1>9. ASSUME NEW w \in Workers, ClearPrefix(w) \/ PromoteBatch(w)
      PROVE  CaptureOK'
  <2>1. CASE ClearPrefix(w)
    <3>1. ~MarkBatch(w) /\ Goto(w, "promote") /\ work[w].step = "clear"
      BY <2>1 DEF ClearPrefix, MarkBatch, At
    <3> QED
      BY <1>7, <1>9, <3>1 DEF Run, Capture, Writing
  <2>2. CASE PromoteBatch(w) /\ ~Stop(w)
    <3>1. ~MarkBatch(w) /\ Goto(w, "verify") /\ work[w].step = "promote"
      BY <2>2 DEF PromoteBatch, MarkBatch, At
    <3> QED
      BY <1>7, <1>9, <3>1 DEF Run, Capture, Writing
  <2> QED
    BY <1>8, <1>9, <2>1, <2>2
<1>10. ASSUME NEW w \in Workers, VerifyBatch(w)
       PROVE  CaptureOK'
  <2>1. CASE Stop(w)
    BY <1>8, <2>1
  <2>2. CASE ~Stop(w)
    <3>1. /\ ~MarkBatch(w) /\ Goto(w, "mark") /\ work[w].step = "verify"
          /\ bronze[Key(w)].held = Ids(Key(w)) /\ UNCHANGED bronze
      BY <1>10, <2>2 DEF VerifyBatch, MarkBatch, At
    <3>2. work[w].batch = {Key(w)}
      BY <1>0, <3>1, KeyOfRun
    <3> QED
      BY <1>7, <1>10, <3>1, <3>2 DEF Run, Capture, Writing
  <2> QED
    BY <2>1, <2>2
<1>11. ASSUME NEW w \in Workers, MarkBatch(w)
       PROVE  CaptureOK'
  <2>1. /\ work[w].step = "mark" /\ work'[w].step = "capture" /\ work'[w].batch = {}
        /\ work'[w].todo = work[w].todo /\ work'[w].block = work[w].block
    BY <1>0, <1>11 DEF MarkBatch, At, Runs
  <2>2. Key(w) \in Keys /\ work[w].batch = {Key(w)}
    BY <1>0, <2>1, KeyOfRun
  <2>3. SealedIds' = SealedIds \cup Ids(Key(w))
    <3>1. Key(w) \in Pending(w) /\ work[w].step \in Writing
      BY <2>1, <2>2 DEF Pending, Writing
    <3>2. Key(w) \notin SealedKeys
      BY <1>0, <2>2, <3>1, PendingIsOpen DEF SealedKeys
    <3>3. Key(w) \in SealedKeys'
      BY <1>0, <1>11, <2>2 DEF MarkBatch, SealedKeys, TypeOK, Prefixes
    <3> QED
      BY <1>0, <1>11, <3>2, <3>3, SealedCases DEF Run, Capture
  <2>4. Pending(w)' = work[w].todo /\ Pending(w) = work[w].todo \cup {Key(w)}
    BY <2>1, <2>2 DEF Pending
  <2>5. Needed(work[w].block)' = Needed(work[w].block)
    BY <1>3, <1>11, <2>1 DEF Needed, Shown, Run, Capture
  <2>6. /\ \A k \in Pending(w) : Ids(k) \cap SealedIds = {}
        /\ \A j, k \in Pending(w) : j # k => Ids(j) \cap Ids(k) = {}
        /\ work[w].todo \cap work[w].batch = {}
        /\ Needed(work[w].block) \subseteq SealedIds \cup UNION {Ids(k) : k \in Pending(w)}
    BY <1>0, <2>1 DEF CaptureOK
  <2>7. \A k \in work[w].todo : Ids(k) \cap SealedIds' = {}
    BY <2>2, <2>3, <2>4, <2>6
  <2>8. Needed(work[w].block) \subseteq SealedIds' \cup UNION {Ids(k) : k \in work[w].todo}
    BY <2>3, <2>4, <2>6
  <2> QED
    BY <2>1, <2>4, <2>5, <2>6, <2>7, <2>8 DEF OneWorker, CaptureOK, At
<1>12. ASSUME NEW w \in Workers, FinishCapture(w) \/ Publish(w)
       PROVE  CaptureOK'
  <2>1. work'[w].step \in {"silver", "seal", "load", "commit"}
    BY <1>0, <1>12 DEF FinishCapture, Publish, KeepIncrement, WriteIncrement, SealIncrement,
                       LoadRaw, Goto, Runs
  <2> QED
    BY <1>2, <2>1 DEF Writing
<1>13. ASSUME NEW w \in Workers, PlanNothing(w) \/ Refuse(w) \/ Fault(w) \/ Commit(w)
       PROVE  CaptureOK'
  BY <1>8, <1>13 DEF PlanNothing, Refuse, RefusePlan, RefuseBatch, RefuseIncrement, Fault,
                     TearPromotion, TearIncrement, Die, Commit
<1> QED
  BY <1>1, <1>4, <1>6, <1>9, <1>10, <1>11, <1>12, <1>13
     DEF Next, Run, Capture, vars, NewBlock, LateRound

\* What a step that is none of these does to Silver: nothing.
RewritesSilver(w) ==
  \/ RefuseIncrement(w) \/ WriteIncrement(w) \/ TearIncrement(w)

LEMMA SilverCases ==
  ASSUME NEW w \in Workers, Run(w) \/ Refuse(w) \/ Fault(w)
  PROVE  UNCHANGED silver \/ RewritesSilver(w) \/ SealIncrement(w)
BY DEF Run, Refuse, Fault, Capture, Publish, PlanNothing, PlanIncrement, RefusePlan,
       FetchBatch, RefuseBatch, ClearPrefix, PromoteBatch, VerifyBatch, MarkBatch,
       FinishCapture, KeepIncrement, LoadRaw, TearPromotion, Die, Commit, RewritesSilver,
       lake

\* A run's increment starts behind the watermark and ends where the run's plan does, so no
\* sealed one starts and ends at or behind both.
LEMMA OwnIncrement ==
  ASSUME OneWorker, TypeOK, Frozen, SilverOK, PublishOK, NEW w \in Workers, ~At(w, "idle")
  PROVE  /\ Increment(w) \in Increments
         /\ Increment(w).from = global + 1 /\ Increment(w).to = work[w].block
         /\ \A i \in Increments : silver[i] # NoPrefix =>
              i.from <= Increment(w).from /\ i.to <= Increment(w).to
         /\ \A i \in Increments :
              (silver[i] # NoPrefix /\ Increment(w).from <= i.from /\ Increment(w).to <= i.to)
                => i = Increment(w)
<1>1. /\ Increment(w) \in Increments
      /\ Increment(w).from = global + 1 /\ Increment(w).to = work[w].block
  BY IncrementOfRun DEF PublishOK
<1>2. \A i \in Increments : silver[i] # NoPrefix =>
        i.from <= Increment(w).from /\ i.to <= Increment(w).to
  BY <1>1 DEF SilverOK
<1>3. \A i, j \in Increments :
        (i.from <= j.from /\ i.to <= j.to /\ j.from <= i.from /\ j.to <= i.to) => i = j
  BY DEF Increments, Heads
<1> QED
  BY <1>1, <1>2, <1>3

\* An increment that is rewritten was not part of what an earlier, sealed one relies on.
LEMMA RewriteStep ==
  ASSUME OneWorker, TypeOK, Frozen, SilverOK, PublishOK, NEW w \in Workers,
         ~At(w, "idle"), ~silver[Increment(w)].sealed,
         NEW x, silver' = [silver EXCEPT ![Increment(w)] = x]
  PROVE  \A i \in Increments : silver[i].sealed => Until(i) \subseteq Until(i)'
<1>1. ASSUME NEW i \in Increments, silver[i].sealed,
             NEW j \in Increments, j.from <= i.from, j.to <= i.to
      PROVE  silver'[j] = silver[j]
  <2>1. silver[i] # NoPrefix
    BY <1>1 DEF NoPrefix
  <2>2. j # Increment(w)
    BY <1>1, <2>1, OwnIncrement
  <2> QED
    BY <2>2 DEF TypeOK
<1> QED
  BY <1>1 DEF Until

\* The Silver part of the invariant.
LEMMA SilverStep ==
  ASSUME OneWorker, Captured, SilverOK, PublishOK, [Next]_vars
  PROVE  SilverOK'
<1> USE DEF source, cursors, lake
<1>0. /\ TypeOK /\ Frozen /\ global \in 0 .. head /\ head \in Nat /\ head' \in Nat /\ head <= head'
      /\ silver \in [Increments -> Prefixes]
      /\ \A i \in Increments : i.from \in Nat /\ i.to \in Nat
      /\ \A v \in Workers : work[v].block \in 0 .. head /\ work[v].start \in Nat
  <2>1. TypeOK /\ Frozen
    BY DEF Captured, Safe
  <2>2. head \in Nat /\ head' \in Nat /\ head <= head' /\ global \in 0 .. head
    BY <2>1, ShownStays DEF TypeOK, Heads
  <2>3. \A i \in Increments : i.from \in Nat /\ i.to \in Nat
    BY DEF Increments, Heads
  <2>4. \A v \in Workers : work[v].block \in 0 .. head /\ work[v].start \in Nat
    BY <2>1, <2>2, RunTypes DEF Frozen, Heads
  <2> QED
    BY <2>1, <2>2, <2>3, <2>4 DEF TypeOK
\* A rewritten or sealed increment is the run's own.
<1>1. ASSUME NEW i \in Increments, silver'[i] # NoPrefix
      PROVE  \/ silver[i] # NoPrefix
             \/ \E w \in Workers : /\ ~At(w, "idle") /\ i = Increment(w)
                                   /\ UNCHANGED cursors
  <2>1. ASSUME NEW w \in Workers, RewritesSilver(w) \/ SealIncrement(w), i # Increment(w)
        PROVE  silver'[i] = silver[i]
    BY <1>0, <2>1 DEF RewritesSilver, RefuseIncrement, WriteIncrement, TearIncrement,
                      SealIncrement
  <2>2. ASSUME NEW w \in Workers, RewritesSilver(w) \/ SealIncrement(w)
        PROVE  ~At(w, "idle") /\ UNCHANGED cursors
    BY <2>2 DEF RewritesSilver, RefuseIncrement, WriteIncrement, TearIncrement,
                SealIncrement, At
  <2>3. UNCHANGED silver \/ \E w \in Workers : RewritesSilver(w) \/ SealIncrement(w)
    BY SilverCases DEF Next, vars, NewBlock, LateRound
  <2> QED
    BY <1>1, <2>1, <2>2, <2>3
\* Its bounds are those of the plan of a run.
<1>2. ASSUME NEW i \in Increments, silver'[i] # NoPrefix
      PROVE  i.from <= global + 1 /\ i.to <= head /\ \A w \in Workers : ~At(w, "idle") => i.to <= work[w].block
  <2>1. CASE silver[i] # NoPrefix
    BY <2>1 DEF SilverOK
  <2>2. ASSUME NEW w \in Workers, ~At(w, "idle"), i = Increment(w)
        PROVE  i.from <= global + 1 /\ i.to <= head
                 /\ \A v \in Workers : ~At(v, "idle") => i.to <= work[v].block
    <3>1. Increment(w).from = global + 1 /\ Increment(w).to = work[w].block
      BY <1>0, <2>2, OwnIncrement
    <3> QED
      BY <1>0, <2>2, <3>1 DEF OneWorker
  <2> QED
    BY <1>1, <1>2, <2>1, <2>2
<1>3. global <= global' /\ global' \in Nat
  <2>1. ASSUME NEW w \in Workers, Commit(w), ~UNCHANGED cursors
        PROVE  global <= global' /\ global' \in Nat
    <3>1. global' = work[w].block /\ ~At(w, "idle") /\ work[w].start = global + 1
      BY <2>1 DEF Commit, PublishOK, At
    <3>2. work[w].start <= work[w].block
      BY <1>0, <3>1 DEF Frozen
    <3> QED
      BY <1>0, <3>1, <3>2
  <2>2. UNCHANGED cursors \/ \E w \in Workers : Commit(w)
    BY ZenonT(40) DEF Next, vars, NewBlock, LateRound, Run, Refuse, Fault, Capture, Publish,
       PlanNothing, PlanIncrement, RefusePlan, FetchBatch, RefuseBatch, ClearPrefix,
       PromoteBatch, VerifyBatch, MarkBatch, FinishCapture, KeepIncrement,
       WriteIncrement, SealIncrement, LoadRaw, RefuseIncrement, TearPromotion,
       TearIncrement, Die
  <2> QED
    BY <1>0, <2>1, <2>2
<1>4. ASSUME NEW i \in Increments, silver'[i] # NoPrefix, NEW v \in Workers,
             work'[v].step # "idle"
      PROVE  i.to <= work'[v].block
  <2>1. CASE work'[v] = work[v]
    BY <1>2, <1>4, <2>1 DEF At
  <2>2. CASE PlanIncrement(v)
    <3>1. work'[v].block = head
      BY <2>2, PlanStep
    <3> QED
      BY <1>2, <1>4, <3>1
  <2>3. CASE Keeps(v)
    BY <1>2, <1>4, <2>3 DEF Keeps, At
  <2>4. ASSUME NEW w \in Workers, Run(w) \/ Refuse(w) \/ Fault(w)
        PROVE  work'[v] = work[v] \/ PlanIncrement(v) \/ Keeps(v) \/ work' = [work EXCEPT ![v] = Idle]
    BY <1>0, <2>4, RunCases
  <2>5. work' # [work EXCEPT ![v] = Idle]
    BY <1>0, <1>4, IdleIsRun DEF TypeOK
  <2> QED
    BY <2>1, <2>2, <2>3, <2>4, <2>5 DEF Next, vars, NewBlock, LateRound
<1>5. \A i \in Increments : silver'[i] # NoPrefix =>
        /\ i.from <= global' + 1 /\ i.to <= head'
        /\ \A w \in Workers : work'[w].step # "idle" => i.to <= work'[w].block
  BY <1>0, <1>2, <1>3, <1>4
\* What a sealed increment has with those before it.
<1>6. ASSUME NEW i \in Increments, silver'[i].sealed
      PROVE  Needed(i.to) \subseteq Until(i)'
  <2>1. CASE UNCHANGED silver
    BY <1>6, <2>1 DEF SilverOK, Until
  <2>2. ASSUME NEW w \in Workers, RewritesSilver(w)
        PROVE  Needed(i.to) \subseteq Until(i)'
    <3>1. ~At(w, "idle") /\ ~silver[Increment(w)].sealed
      BY <2>2 DEF RewritesSilver, RefuseIncrement, WriteIncrement, TearIncrement, At
    <3>2. PICK x : silver' = [silver EXCEPT ![Increment(w)] = x] /\ ~x.sealed
      BY <2>2 DEF RewritesSilver, RefuseIncrement, WriteIncrement, TearIncrement, NoPrefix
    <3>3. silver[i].sealed
      BY <1>0, <1>6, <3>2
    <3> QED
      BY <1>0, <3>1, <3>2, <3>3, RewriteStep DEF SilverOK
  <2>3. ASSUME NEW w \in Workers, SealIncrement(w)
        PROVE  Needed(i.to) \subseteq Until(i)'
    <3>1. ~At(w, "idle") /\ silver' = [silver EXCEPT ![Increment(w)].sealed = TRUE]
      BY <2>3 DEF SealIncrement, At
    <3>2. \A j \in Increments : silver'[j].held = silver[j].held
      BY <1>0, <3>1 DEF Prefixes
    <3>3. Until(i)' = Until(i)
      BY <3>2 DEF Until
    <3>4. CASE i = Increment(w)
      <4>1. Needed(work[w].block) \subseteq Until(Increment(w)) /\ i.to = work[w].block
        BY <1>0, <2>3, <3>1, <3>4, OwnIncrement DEF PublishOK, SealIncrement
      <4> QED
        BY <3>3, <3>4, <4>1
    <3>5. CASE i # Increment(w)
      BY <1>0, <1>6, <3>1, <3>3, <3>5 DEF SilverOK
    <3> QED
      BY <3>4, <3>5
  <2> QED
    BY <2>1, <2>2, <2>3, SilverCases DEF Next, vars, NewBlock, LateRound
<1>7. ASSUME NEW i \in Increments, silver'[i].sealed
      PROVE  Needed(i.to)' \subseteq Until(i)'
  <2>1. i.to \in 0 .. head
    <3>1. silver'[i] # NoPrefix
      BY <1>7 DEF NoPrefix
    <3> QED
      BY <1>0, <1>2, <3>1
  <2>2. PICK block \in 0 .. head : block = i.to
    BY <2>1
  <2>3. Needed(block)' = Needed(block)
    BY <1>0, NeededStays
  <2> QED
    BY <1>6, <1>7, <2>2, <2>3
<1> QED
  BY <1>5, <1>7 DEF SilverOK, At

\* Where silver has been sealed, RAW takes over what the plan names.
LEMMA PublishStep ==
  ASSUME OneWorker, Captured, SilverOK, PublishOK, [Next]_vars
  PROVE  PublishOK'
<1> USE DEF source, cursors, lake
<1>0. /\ TypeOK /\ Frozen /\ CaptureOK /\ work \in [Workers -> Runs]
      /\ silver \in [Increments -> Prefixes]
      /\ SealedIds \subseteq SealedIds'
      /\ \A v \in Workers : work[v].block \in 0 .. head
  <2>1. TypeOK /\ Frozen /\ BronzeOK /\ CaptureOK
    BY DEF Captured, Safe
  <2>2. \A v \in Workers : work[v].block \in 0 .. head
    BY <2>1, RunTypes DEF Frozen, TypeOK, Heads
  <2> QED
    BY <2>1, <2>2, BronzeStep DEF TypeOK
<1>1. CASE UNCHANGED <<work, global, bronze, silver, raw>>
  <2>1. \A v \in Workers : Needed(work[v].block)' = Needed(work[v].block)
    <3> SUFFICES ASSUME NEW v \in Workers
                 PROVE  Needed(work[v].block)' = Needed(work[v].block)
      OBVIOUS
    <3>1. PICK block \in 0 .. head : block = work[v].block
      BY <1>0
    <3>2. Needed(block)' = Needed(block)
      BY <1>0, NeededStays
    <3> QED
      BY <1>1, <3>1, <3>2 DEF Needed, Shown
  <2>2. SealedIds' = SealedIds
    BY <1>1 DEF SealedIds, SealedKeys
  <2>3. \A i : Until(i)' = Until(i)
    BY <1>1 DEF Until
  <2>4. \A v \in Workers : Increment(v)' = Increment(v)
    BY <1>1 DEF Increment
  <2> QED
    BY <1>1, <2>1, <2>2, <2>3, <2>4 DEF PublishOK, At
<1>2. ASSUME NEW w \in Workers, Stop(w)
      PROVE  PublishOK'
  <2>1. work'[w].step = "idle"
    BY <1>0, <1>2, IdleIsRun DEF Stop
  <2> QED
    BY <2>1 DEF OneWorker, PublishOK, At
<1>3. ASSUME NEW w \in Workers, PlanIncrement(w)
      PROVE  PublishOK'
  <2>1. /\ work'[w].block = head /\ work'[w].start = global + 1
        /\ work'[w].step = IF Backlog = {} THEN "commit" ELSE "capture"
        /\ UNCHANGED <<head, at, global, bronze, raw>>
        /\ Backlog = {} => Needed(head) \subseteq SealedIds \cap raw
    BY <1>3, PlanStep
  <2>2. Needed(work[w].block)' = Needed(head) /\ SealedIds' = SealedIds
    BY <2>1 DEF Needed, Shown, SealedIds, SealedKeys
  <2> QED
    BY <2>1, <2>2 DEF OneWorker, PublishOK, At
\* A run that goes on keeps its plan, and nobody else commits.
<1>4. ASSUME NEW w \in Workers, Run(w), Keeps(w)
      PROVE  /\ work'[w].start = global' + 1 /\ global' = global
             /\ Needed(work[w].block)' = Needed(work[w].block)
             /\ Increment(w)' = Increment(w)
  <2>1. UNCHANGED <<head, at>> /\ work'[w].block = work[w].block /\ work'[w].start = work[w].start
    BY <1>0, <1>4, RunCases DEF Keeps
  <2>2. ~Stop(w)
    BY <1>0, <1>4, IdleIsRun DEF Stop, Keeps
  <2>3. UNCHANGED global
    BY <1>4, <2>2
       DEF Run, Capture, Publish, PlanNothing, PlanIncrement, FetchBatch, ClearPrefix,
           PromoteBatch, VerifyBatch, MarkBatch, FinishCapture, KeepIncrement,
           WriteIncrement, SealIncrement, LoadRaw, Commit
  <2>4. work[w].start = global + 1
    BY <1>4 DEF PublishOK, Keeps, At
  <2>5. Needed(work[w].block)' = Needed(work[w].block)
    BY <2>1 DEF Needed, Shown
  <2>6. Increment(w)' = Increment(w)
    BY <2>1 DEF Increment
  <2> QED
    BY <2>1, <2>3, <2>4, <2>5, <2>6
<1>5. ASSUME NEW w \in Workers, Capture(w), Keeps(w), ~FinishCapture(w)
      PROVE  PublishOK'
  <2>1. work'[w].step \in Writing
    <3>1. ~Stop(w)
      BY <1>0, <1>5, IdleIsRun DEF Stop, Keeps
    <3>2. CASE FetchBatch(w)
      <4>1. \E k : work' = [work EXCEPT ![w].step = IF bronze[k].sealed THEN "capture" ELSE "clear",
                                        ![w].batch = IF bronze[k].sealed THEN {} ELSE {k},
                                        ![w].todo = @ \ {k}]
        BY <3>2 DEF FetchBatch
      <4> QED
        BY <1>0, <4>1 DEF Runs, Writing
    <3>3. CASE MarkBatch(w)
      BY <1>0, <3>3 DEF MarkBatch, Runs, Writing
    <3>4. CASE ClearPrefix(w) \/ PromoteBatch(w) \/ VerifyBatch(w)
      BY <1>0, <3>1, <3>4 DEF ClearPrefix, PromoteBatch, VerifyBatch, Goto, Runs, Writing
    <3> QED
      BY <1>5, <3>2, <3>3, <3>4 DEF Capture
  <2>2. work'[w].start = global' + 1
    BY <1>4, <1>5 DEF Run
  <2> QED
    BY <2>1, <2>2 DEF OneWorker, PublishOK, At, Writing
<1>6. ASSUME NEW w \in Workers, FinishCapture(w)
      PROVE  PublishOK'
  <2>1. /\ work[w].step = "capture" /\ work'[w].step = "silver" /\ work[w].todo = {}
        /\ Keeps(w)
    BY <1>0, <1>6 DEF FinishCapture, Goto, At, Keeps, Runs
  <2>2. Needed(work[w].block) \subseteq SealedIds
    <3>1. Pending(w) = {}
      BY <1>0, <2>1 DEF CaptureOK, Pending, At
    <3>2. Needed(work[w].block) \subseteq SealedIds \cup UNION {Ids(k) : k \in Pending(w)}
      BY <1>0, <2>1 DEF CaptureOK
    <3> QED
      BY <3>1, <3>2
  <2> QED
    BY <1>0, <1>4, <1>6, <2>1, <2>2 DEF OneWorker, PublishOK, At, Run, Capture
<1>7. ASSUME NEW w \in Workers, Publish(w)
      PROVE  /\ Keeps(w) /\ Run(w) /\ ~At(w, "idle")
             /\ Needed(work[w].block) \subseteq SealedIds
             /\ work'[w].start = global' + 1
             /\ Needed(work[w].block)' \subseteq SealedIds'
  <2>1. work[w].step \in {"silver", "seal", "load"}
    BY <1>7 DEF Publish, KeepIncrement, WriteIncrement, SealIncrement, LoadRaw, At
  <2>2. Keeps(w)
    BY <1>0, <1>7, <2>1
       DEF Publish, KeepIncrement, WriteIncrement, SealIncrement, LoadRaw, Goto, Keeps, Runs
  <2>3. Needed(work[w].block) \subseteq SealedIds
    BY <2>1 DEF PublishOK
  <2> QED
    BY <1>0, <1>4, <1>7, <2>1, <2>2, <2>3 DEF Run, At
<1>8. ASSUME NEW w \in Workers, KeepIncrement(w) \/ SealIncrement(w)
      PROVE  PublishOK'
  <2>1. work'[w].step = "load"
    BY <1>0, <1>8 DEF KeepIncrement, SealIncrement, Goto, Runs
  <2>2. Increment(w) \in Increments /\ Increment(w)' = Increment(w)
    BY <1>0, <1>4, <1>7, <1>8, IncrementOfRun DEF Publish
  <2>3. silver'[Increment(w)].sealed
    BY <1>0, <1>8, <2>2 DEF KeepIncrement, SealIncrement, Prefixes
  <2>4. (silver[Increment(w)].sealed)'
    BY <2>2, <2>3
  <2>5. work'[w].start = global' + 1 /\ Needed(work[w].block)' \subseteq SealedIds'
    BY <1>7, <1>8 DEF Publish
  <2> QED
    BY <2>1, <2>4, <2>5 DEF OneWorker, PublishOK, At
\* A written increment holds whatever the others, all of them earlier, do not.
<1>9. ASSUME NEW w \in Workers, WriteIncrement(w)
      PROVE  PublishOK'
  <2>1. work'[w].step = "seal"
    BY <1>0, <1>9 DEF WriteIncrement, Goto, Runs
  <2>2. /\ Needed(work[w].block) \subseteq SealedIds /\ ~At(w, "idle")
        /\ work'[w].start = global' + 1 /\ Needed(work[w].block)' \subseteq SealedIds'
        /\ Needed(work[w].block)' = Needed(work[w].block) /\ Increment(w)' = Increment(w)
    BY <1>4, <1>7, <1>9 DEF Publish
  <2>3. /\ Increment(w) \in Increments
        /\ Increment(w).from \in Int /\ Increment(w).to \in Int
        /\ \A i \in Increments : silver[i] # NoPrefix =>
             i.from <= Increment(w).from /\ i.to <= Increment(w).to
    BY <1>0, <2>2, OwnIncrement DEF Increments, Heads
  <2>4. /\ silver'[Increment(w)].held = SealedIds \ Elsewhere(Increment(w))
        /\ \A i \in Increments \ {Increment(w)} : silver'[i] = silver[i]
    BY <1>0, <1>9, <2>3 DEF WriteIncrement, Fresh
  <2>5. \A o \in Elsewhere(Increment(w)) : o \in Until(Increment(w))'
    <3> SUFFICES ASSUME NEW i \in Increments \ {Increment(w)}, NEW o \in silver[i].held
                 PROVE  o \in Until(Increment(w))'
      BY DEF Elsewhere
    <3>1. silver[i] # NoPrefix
      BY DEF NoPrefix
    <3>2. i.from <= Increment(w).from /\ i.to <= Increment(w).to /\ silver'[i] = silver[i]
      BY <2>3, <2>4, <3>1
    <3> QED
      BY <2>2, <3>2 DEF Until
  <2>6. \A o \in silver'[Increment(w)].held : o \in Until(Increment(w))'
    BY <2>2, <2>3 DEF Until
  <2>7. Needed(work[w].block) \subseteq Until(Increment(w))'
    BY <2>2, <2>4, <2>5, <2>6
  <2> QED
    BY <2>1, <2>2, <2>7 DEF OneWorker, PublishOK, At
<1>10. ASSUME NEW w \in Workers, LoadRaw(w)
       PROVE  PublishOK'
  <2>1. work[w].step = "load" /\ work'[w].step = "commit"
    BY <1>0, <1>10 DEF LoadRaw, Goto, At, Runs
  <2>2. /\ work'[w].start = global' + 1 /\ Needed(work[w].block)' \subseteq SealedIds'
        /\ Needed(work[w].block)' = Needed(work[w].block)
    BY <1>4, <1>7, <1>10 DEF Publish
  <2>3. /\ Increment(w) \in Increments /\ Increment(w).to = work[w].block
        /\ silver[Increment(w)].sealed
    BY <1>0, <2>1, IncrementOfRun DEF PublishOK, At
  <2>4. Needed(work[w].block) \subseteq Until(Increment(w))
    BY <2>3 DEF SilverOK
  <2>5. Until(Increment(w)) \subseteq raw'
    BY <1>10 DEF LoadRaw, Until
  <2> QED
    BY <2>1, <2>2, <2>4, <2>5 DEF OneWorker, PublishOK, At
<1>11. ASSUME NEW w \in Workers, PlanNothing(w) \/ Refuse(w) \/ Fault(w) \/ Commit(w)
       PROVE  PublishOK'
  BY <1>2, <1>11 DEF PlanNothing, Refuse, RefusePlan, RefuseBatch, RefuseIncrement, Fault,
                     TearPromotion, TearIncrement, Die, Commit
<1>12. ASSUME NEW w \in Workers, Capture(w)
       PROVE  PublishOK'
  <2>1. CASE work' = [work EXCEPT ![w] = Idle]
    BY <1>2, <2>1 DEF Stop
  <2>2. CASE PlanIncrement(w)
    BY <1>3, <2>2
  <2>3. CASE Keeps(w)
    BY <1>5, <1>6, <1>12, <2>3
  <2> QED
    BY <1>0, <1>12, <2>1, <2>2, <2>3, RunCases DEF Run
<1> QED
  BY <1>1, <1>3, <1>8, <1>9, <1>10, <1>11, <1>12
     DEF Next, Run, Publish, vars, NewBlock, LateRound

\* What the cursors vouch for stays in Bronze and in RAW, and a commit adds nothing that
\* is not there.
LEMMA LoadedStep ==
  ASSUME OneWorker, Captured, SilverOK, PublishOK, [Next]_vars
  PROVE  CursorIsLoaded'
<1> USE DEF source, cursors, lake
<1>0. /\ TypeOK /\ Frozen /\ SealedIds \subseteq SealedIds' /\ global \in 0 .. head
      /\ Needed(global) \subseteq SealedIds \cap raw
  BY BronzeStep, LoadedIsNeeded DEF Captured, Safe, TypeOK
<1>1. raw \subseteq raw'
  BY DEF Next, vars, NewBlock, LateRound, Run, Refuse, Fault, Capture, Publish,
         PlanNothing, PlanIncrement, RefusePlan, FetchBatch, RefuseBatch, ClearPrefix,
         PromoteBatch, VerifyBatch, MarkBatch, FinishCapture, KeepIncrement,
         WriteIncrement, SealIncrement, LoadRaw, RefuseIncrement, TearPromotion,
         TearIncrement, Die, Commit
<1>2. CASE UNCHANGED global
  <2>1. Needed(global)' = Needed(global)
    <3>1. PICK block \in 0 .. head : block = global
      BY <1>0
    <3>2. Needed(block)' = Needed(block)
      BY <1>0, NeededStays
    <3> QED
      BY <1>2, <3>1, <3>2 DEF Needed, Shown
  <2>2. Needed(global)' \subseteq SealedIds' \cap raw'
    BY <1>0, <1>1, <2>1
  <2> QED
    BY <2>2 DEF CursorIsLoaded, Vouched, Needed, Shown
<1>3. ASSUME NEW w \in Workers, Commit(w), global' = work[w].block
      PROVE  CursorIsLoaded'
  <2>1. Needed(work[w].block) \subseteq SealedIds \cap raw
    BY <1>3 DEF Commit, PublishOK, At
  <2>2. Needed(global)' = Needed(work[w].block)
    BY <1>3 DEF Commit, Needed, Shown
  <2>3. Needed(global)' \subseteq SealedIds' \cap raw'
    BY <1>0, <1>1, <2>1, <2>2
  <2> QED
    BY <2>3 DEF CursorIsLoaded, Vouched, Needed, Shown
<1>4. UNCHANGED global \/ \E w \in Workers : Commit(w) /\ global' = work[w].block
  BY DEF Next, vars, NewBlock, LateRound, Run, Refuse, Fault, Capture, Publish,
         PlanNothing, PlanIncrement, RefusePlan, FetchBatch, RefuseBatch, ClearPrefix,
         PromoteBatch, VerifyBatch, MarkBatch, FinishCapture, KeepIncrement,
         WriteIncrement, SealIncrement, LoadRaw, RefuseIncrement, TearPromotion,
         TearIncrement, Die, Commit
<1> QED
  BY <1>2, <1>3, <1>4

\* The invariant of one run at a time is inductive.
LEMMA Inductive ==
  ASSUME OneWorker
  PROVE  Spec => []IInv
<1>1. Init => IInv
  <2> SUFFICES ASSUME Init PROVE IInv
    OBVIOUS
  <2>1. \A k \in Keys : ~bronze[k].sealed
    BY DEF Init, NoPrefix
  <2>2. \A i \in Increments : silver[i] = NoPrefix /\ ~silver[i].sealed
    BY DEF Init, NoPrefix
  <2>3. \A w \in Workers : work[w].step = "idle"
    BY IdleIsRun DEF Init
  <2>4. BronzeOK /\ CaptureOK /\ SilverOK /\ PublishOK
    BY <2>1, <2>2, <2>3 DEF BronzeOK, SealedKeys, CaptureOK, SilverOK, PublishOK, At
  <2>5. CursorIsLoaded
    <3> SUFFICES ASSUME NEW f \in Feeds, NEW o \in Vouched(f)
                 PROVE  FALSE
      BY DEF CursorIsLoaded
    <3>1. o[2] \in Nat /\ o[3] \in 1 .. MaxRound
      BY DEF Vouched, Of, Phases
    <3>2. PICK b \in 0 .. global : at[b][f][1] = o[2] /\ o[3] <= at[b][f][2]
      BY DEF Vouched
    <3>3. at[b][f] = <<1, 1>>
      BY <3>2, MaxHeadAssumption DEF Init, FirstRounds, Heads
    <3>4. o[2] = 1 /\ o[3] = 1
      BY <3>1, <3>2, <3>3
    <3> QED
      BY <3>4 DEF Vouched
  <2> QED
    BY <2>4, <2>5, SafeInit DEF IInv
<1>2. IInv /\ [Next]_vars => IInv'
  <2> SUFFICES ASSUME IInv, [Next]_vars PROVE IInv'
    OBVIOUS
  <2>1. Captured
    BY DEF IInv, Captured
  <2>2. Safe'
    BY TypingStep, HistoryStep, FrozenStep, SnapshotStep DEF IInv, Safe
  <2>3. BronzeOK' /\ CaptureOK'
    BY <2>1, BronzeStep, CaptureStep DEF IInv, Safe
  <2>4. SilverOK' /\ PublishOK' /\ CursorIsLoaded'
    BY <2>1, SilverStep, PublishStep, LoadedStep DEF IInv
  <2> QED
    BY <2>2, <2>3, <2>4 DEF IInv
<1> QED
  BY <1>1, <1>2, PTL DEF Spec

\* load_observations never meets a round in two committed batches: a retry cuts its batches
\* from what is still missing, whatever batch boundaries a dead run left.
THEOREM RoundsAreStoredOnce ==
  ASSUME OneWorker
  PROVE  Spec => []NoRoundTwice
<1>1. IInv => NoRoundTwice
  BY DEF IInv, BronzeOK, NoRoundTwice, StoredTwice, SealedKeys
<1> QED
  BY <1>1, Inductive, PTL

\* A cursor never passes a round that Bronze or RAW lacks, across phase changes, retries
\* and torn Silver increments.
THEOREM CursorsVouchForLoadedRounds ==
  ASSUME OneWorker
  PROVE  Spec => []CursorIsLoaded
<1>1. IInv => CursorIsLoaded
  BY DEF IInv
<1> QED
  BY <1>1, Inductive, PTL

===============================================================================
