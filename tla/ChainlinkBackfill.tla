--------------------------- MODULE ChainlinkBackfill ---------------------------
(***************************************************************************)
(* The bounded Chainlink backfill beside the bootstrap batches.  A backfill *)
(* run discovers the proxy rounds of its block window phase by phase, reads *)
(* a bounded number of them in RPC batches from each phase's checkpoint on, *)
(* and replaces historical Bronze, the checkpoints and the quarantine, in   *)
(* this order.  A bootstrap run captures what neither store holds of a      *)
(* frozen range and, once nothing is missing, clears the quarantine.        *)
(*                                                                         *)
(* One feed: the checkpoints of two feeds share only the request budget, as *)
(* the phases of one do.  A round is <<phase, aggregator round>>.  Runs do  *)
(* not overlap (one active DAG run, all the slots of its pool, and an       *)
(* operator who bootstraps between them).  Replacing a dataset is not       *)
(* atomic: it may be gone when its writer dies.                             *)
(***************************************************************************)
EXTENDS Integers, FiniteSets

CONSTANTS
  MaxPhase,      \* bound: proxy phases
  MaxRound,      \* bound: rounds of one aggregator
  MaxTip,        \* bound: blocks
  Malformed,     \* the rounds the proxy never answers well
  Frozen,        \* the bootstrap contract's rounds
  MaxTargets,    \* --max-rpc-requests of an extraction
  BatchSize,     \* --rpc-batch-size
  Overlaps,      \* the values of --overlap-rounds in use
  MaxRoundKills  \* bound: runs killed

Phases == 1 .. MaxPhase
Rounds == Phases \X (1 .. MaxRound)

ASSUME MaxPhaseAssumption == MaxPhase \in Nat \ {0}
ASSUME MaxRoundAssumption == MaxRound \in Nat \ {0}
ASSUME MaxTipAssumption == MaxTip \in Nat \ {0}
ASSUME MalformedAssumption == Malformed \subseteq Rounds
ASSUME FrozenAssumption == Frozen \subseteq Rounds
ASSUME MaxTargetsAssumption == MaxTargets \in Nat \ {0}
ASSUME BatchSizeAssumption == BatchSize \in Nat \ {0}
ASSUME OverlapsAssumption == Overlaps \subseteq Nat
ASSUME MaxRoundKillsAssumption == MaxRoundKills \in Nat

VARIABLES
  roundAt,      \* the feed's latest round at each block, from --from-block on
  rounds,       \* historical Bronze
  batches,      \* the rounds of the committed bootstrap batches
  checkpoints,  \* the state dataset: the window's end and next round of each phase
  retryable,    \* the quarantine dataset: rounds that failed in passing
  rejected,     \* the quarantine dataset: rounds that did not
  extraction,   \* the backfill run in progress
  bootstrap,    \* the bootstrap run in progress
  transient,    \* history: rounds whose last answer was a transient failure
  unrecorded,   \* history: rounds whose quarantine row was lost
  roundsTorn,   \* history: a kill left no Bronze dataset
  roundKills

roundVars == <<roundAt, rounds, batches, checkpoints, retryable, rejected, extraction,
               bootstrap, transient, unrecorded, roundsTorn, roundKills>>

NoState == [to |-> 0, next |-> [p \in Phases |-> 0]]   \* 0: no row

NoExtraction == [step |-> "idle", state |-> NoState, read |-> {}, failed |-> {},
                 refused |-> {}, asked |-> {}]

NoBootstrap == [step |-> "idle", plan |-> {}]

States == [to : 0 .. MaxTip, next : [Phases -> 0 .. MaxRound + 1]]

RoundsTypeOK ==
    /\ rounds \in SUBSET Rounds /\ batches \in SUBSET Rounds
    /\ checkpoints \in States
    /\ retryable \in SUBSET Rounds /\ rejected \in SUBSET (Rounds \ retryable)
    /\ extraction \in [step : {"idle", "observations", "state", "issues"}, state : States,
                       read : SUBSET Rounds, failed : SUBSET Rounds, refused : SUBSET Rounds,
                       asked : SUBSET Rounds]
    /\ bootstrap \in [step : {"idle", "capture"}, plan : SUBSET Frozen]
    /\ roundKills \in 0 .. MaxRoundKills

Smallest(S) == CHOOSE x \in S : \A y \in S : x <= y
Largest(S) == CHOOSE x \in S : \A y \in S : x >= y

\* ---- The feed -------------------------------------------------------------

\* the next round of the aggregator, or the first of a new one
Follows(q, r) == r = <<q[1], q[2] + 1>> \/ r = <<q[1] + 1, 1>>

\* the chain's answers do not change; a run asks for as much of them as exists
Feeds ==
    {f \in [1 .. MaxTip -> Rounds] :
        f[1] = <<1, 1>> /\ \A b \in 2 .. MaxTip : Follows(f[b - 1], f[b])}

PhaseLatest(p) == Largest({roundAt[b][2] : b \in {c \in 1 .. MaxTip : roundAt[c][1] = p}})

\* ---- The plan of an extraction ----------------------------------------------

\* the last round of each phase of the window; 0 for a phase it does not reach
Discovered(to) ==
    [p \in Phases |-> IF p < roundAt[to][1] THEN PhaseLatest(p)
                      ELSE IF p = roundAt[to][1] THEN roundAt[to][2]
                      ELSE 0]

Stuck(p) == {r[2] : r \in {q \in retryable : q[1] = p}}

\* the checkpoint, less the overlap, or the first round still to be retried
ResumeAt(p, overlap) ==
    IF checkpoints.next[p] = 0 THEN 1
    ELSE LET back == Smallest(Stuck(p) \cup {checkpoints.next[p],
                                             checkpoints.next[p] - overlap})
         IN  IF back < 1 THEN 1 ELSE back

Before(q, r) == q[1] < r[1] \/ (q[1] = r[1] /\ q[2] < r[2])

Ahead(to, overlap) ==
    UNION {{p} \X (ResumeAt(p, overlap) .. Discovered(to)[p]) : p \in Phases}

Targets(to, overlap) ==
    LET ahead == Ahead(to, overlap)
    IN  {r \in ahead : Cardinality({q \in ahead : Before(q, r)}) < MaxTargets}

OfPhase(S, p) == {r[2] : r \in {q \in S : q[1] = p}}

\* RPC batches stay within one phase
BatchOf(targets, r) ==
    <<r[1], Cardinality({n \in OfPhase(targets, r[1]) : n < r[2]}) \div BatchSize>>

\* a batch is answered as a whole: one round that does not decode rejects it
Answers(targets) ==
    {answer \in [{BatchOf(targets, r) : r \in targets} -> {"ok", "retry", "reject"}] :
        \A r \in targets \cap Malformed : answer[BatchOf(targets, r)] # "ok"}

\* Mutant: a checkpoint behind everything attempted, the transient failures too.
NextBehindAll(p, asked, failed, resume) ==
    IF OfPhase(asked, p) # {} THEN Largest(OfPhase(asked, p)) + 1 ELSE resume

\* the first transient failure not yet stored holds the phase's checkpoint
NextRound(p, asked, failed, resume) ==
    IF OfPhase(failed \ rounds, p) # {} THEN Smallest(OfPhase(failed \ rounds, p))
    ELSE IF OfPhase(asked, p) # {} THEN Largest(OfPhase(asked, p)) + 1
    ELSE resume

\* ---- The backfill run ---------------------------------------------------------

WindowKept(to) == to \in checkpoints.to .. MaxTip /\ to >= 1

Extract(to, overlap) ==
    /\ extraction.step = "idle" /\ bootstrap.step = "idle"
    /\ WindowKept(to)
    /\ LET end == Discovered(to)
       IN  \E targets \in {Targets(to, overlap)} : \E answer \in Answers(targets) :
             LET Got(kind) == {r \in targets : answer[BatchOf(targets, r)] = kind}
             IN  extraction' =
                   [step |-> "observations", read |-> Got("ok"), failed |-> Got("retry"),
                    refused |-> Got("reject"), asked |-> targets,
                    state |-> [to |-> to,
                               next |-> [p \in Phases |->
                                   IF end[p] = 0 THEN 0
                                   ELSE NextRound(p, targets, Got("retry"),
                                                  ResumeAt(p, overlap))]]]
    /\ UNCHANGED <<roundAt, rounds, batches, checkpoints, retryable, rejected, bootstrap,
                   transient, unrecorded, roundsTorn, roundKills>>

SaveRounds ==
    /\ extraction.step = "observations"
    /\ rounds' = rounds \cup extraction.read
    /\ extraction' = [extraction EXCEPT !.step = "state"]
    /\ UNCHANGED <<roundAt, batches, checkpoints, retryable, rejected, bootstrap, transient,
                   unrecorded, roundsTorn, roundKills>>

SaveState ==
    /\ extraction.step = "state"
    /\ checkpoints' = extraction.state
    /\ transient' = (transient \ extraction.asked) \cup extraction.failed
    /\ extraction' = [extraction EXCEPT !.step = "issues", !.state = NoState, !.asked = {},
                                       !.read = {}]
    /\ UNCHANGED <<roundAt, rounds, batches, retryable, rejected, bootstrap, unrecorded,
                   roundsTorn, roundKills>>

\* Mutant: the earlier runs' quarantine is replaced, not kept.
OnlyNewIssues(old, new, others) == new \ rounds

\* a round's newest issue replaces its older one; a stored round has none
MergedIssues(old, new, others) == ((old \ others) \cup new) \ rounds

SaveRoundIssues ==
    /\ extraction.step = "issues"
    /\ retryable' = MergedIssues(retryable, extraction.failed, extraction.refused)
    /\ rejected' = MergedIssues(rejected, extraction.refused, extraction.failed)
    /\ extraction' = NoExtraction
    /\ UNCHANGED <<roundAt, rounds, batches, checkpoints, bootstrap, transient, unrecorded,
                   roundsTorn, roundKills>>

\* ---- The bootstrap run ----------------------------------------------------------

Missing == Frozen \ (rounds \cup batches)

StartBootstrap ==
    /\ extraction.step = "idle" /\ bootstrap.step = "idle"
    /\ bootstrap' = [step |-> "capture", plan |-> Missing]
    /\ UNCHANGED <<roundAt, rounds, batches, checkpoints, retryable, rejected, extraction,
                   transient, unrecorded, roundsTorn, roundKills>>

\* the first contiguous rounds of one phase, at most a batch of them
FirstBatch ==
    LET first == CHOOSE r \in bootstrap.plan : \A q \in bootstrap.plan \ {r} : Before(r, q)
    IN  {r \in bootstrap.plan :
            /\ r[1] = first[1] /\ r[2] < first[2] + BatchSize
            /\ \A n \in first[2] .. r[2] : <<r[1], n>> \in bootstrap.plan}

CaptureBatch ==
    /\ bootstrap.step = "capture" /\ bootstrap.plan # {}
    /\ FirstBatch \cap Malformed = {}
    /\ batches' = batches \cup FirstBatch
    /\ bootstrap' = [bootstrap EXCEPT !.plan = @ \ FirstBatch]
    /\ UNCHANGED <<roundAt, rounds, checkpoints, retryable, rejected, extraction, transient,
                   unrecorded, roundsTorn, roundKills>>

\* an incomplete batch raises, and so does a kill
FailBatch ==
    /\ bootstrap.step = "capture" /\ bootstrap.plan # {}
    /\ bootstrap' = NoBootstrap
    /\ UNCHANGED <<roundAt, rounds, batches, checkpoints, retryable, rejected, extraction,
                   transient, unrecorded, roundsTorn, roundKills>>

\* after the plan, or --max-batches of it: when nothing of Frozen is missing the
\* quarantine is cleared of every round, those outside Frozen included
FinishBootstrap ==
    /\ bootstrap.step = "capture"
    /\ IF Missing = {}
       THEN /\ retryable' = {} /\ rejected' = {}
            /\ unrecorded' = unrecorded \cup ((retryable \cup rejected) \ rounds)
       ELSE UNCHANGED <<retryable, rejected, unrecorded>>
    /\ bootstrap' = NoBootstrap
    /\ UNCHANGED <<roundAt, rounds, batches, checkpoints, extraction, transient, roundsTorn,
                   roundKills>>

\* ---- Faults -----------------------------------------------------------------------

\* what was being replaced is whole, or gone
KillExtraction ==
    /\ extraction.step # "idle"
    /\ roundKills < MaxRoundKills
    /\ roundKills' = roundKills + 1
    /\ extraction' = NoExtraction
    /\ \E gone \in BOOLEAN :
        /\ rounds' = IF gone /\ extraction.step = "observations" THEN {} ELSE rounds
        /\ checkpoints' = IF gone /\ extraction.step = "state" THEN NoState ELSE checkpoints
        /\ IF extraction.step = "issues"
           THEN /\ retryable' = IF gone THEN {} ELSE retryable
                /\ rejected' = IF gone THEN {} ELSE rejected
                /\ unrecorded' = unrecorded \cup extraction.failed \cup extraction.refused
                                   \cup (IF gone THEN retryable \cup rejected ELSE {})
           ELSE UNCHANGED <<retryable, rejected, unrecorded>>
    /\ roundsTorn' = (roundsTorn \/ rounds' # rounds)
    /\ UNCHANGED <<roundAt, batches, bootstrap, transient>>

\* ---- The specification ------------------------------------------------------------

RoundsInit ==
    /\ roundAt \in Feeds
    /\ rounds = {} /\ batches = {} /\ checkpoints = NoState
    /\ retryable = {} /\ rejected = {}
    /\ extraction = NoExtraction /\ bootstrap = NoBootstrap
    /\ transient = {} /\ unrecorded = {} /\ roundsTorn = FALSE /\ roundKills = 0

RoundsNext ==
    \/ \E to \in 1 .. MaxTip, overlap \in Overlaps : Extract(to, overlap)
    \/ SaveRounds \/ SaveState \/ SaveRoundIssues
    \/ StartBootstrap \/ CaptureBatch \/ FailBatch \/ FinishBootstrap
    \/ KillExtraction

RoundsSpec == RoundsInit /\ [][RoundsNext]_roundVars

\* ---- Properties -----------------------------------------------------------------------

\* A round behind its phase's checkpoint is stored or has a quarantine row
\* (load_issues: "so bounded runs retain their audit"), whatever batches failed
\* for good, however runs were cut short and windows grew; the rows are lost in
\* two ways only: a kill between the checkpoint and the quarantine, and the
\* bootstrap's clearing.
SkippedIsRecorded ==
    ~roundsTorn =>
        \A r \in Rounds : r[2] < checkpoints.next[r[1]] =>
            r \in rounds \cup retryable \cup rejected \cup unrecorded
                    \cup extraction.failed \cup extraction.refused

\* A transient provider failure never advances a checkpoint
\* (is_retryable_rpc_error): while a round's last answer is one and it is not
\* stored, its phase's checkpoint stands at it or before it, even when the
\* quarantine that names it was lost, cleared, or never written.
TransientHoldsCheckpoint ==
    ~roundsTorn =>
        \A r \in transient \ rounds : checkpoints.next[r[1]] <= r[2]
===============================================================================
