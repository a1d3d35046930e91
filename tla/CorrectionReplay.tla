--------------------------- MODULE CorrectionReplay ---------------------------
(***************************************************************************)
(* The audit of a bounded interval.  It reads every production watermark,   *)
(* fetches the interval afresh in ranges that are halved when the provider  *)
(* refuses them, then loads what is retained of it, compares the two, reads *)
(* the watermarks again and reports; it applies nothing.  Meanwhile the     *)
(* chain grows and reorganizes, pipelines retain events, pools are verified *)
(* and watermarks move.                                                     *)
(*                                                                         *)
(* An answer of eth_getLogs that is short raises nothing and counts as      *)
(* whole.  Uniswap is asked for the logs of the pools verified when the run *)
(* starts; what it is compared with is retained of every pool.              *)
(*                                                                         *)
(* An event is its block, with a content: None for no event.  Aave retains  *)
(* one copy of an identity in RAW, by MERGE; Uniswap's live and recovery    *)
(* Bronze are appended to, so two contents of one identity may stand there; *)
(* of Chainlink's RAW only the identities of the fresh snapshot are loaded. *)
(***************************************************************************)
EXTENDS Integers, Sequences, FiniteSets

CONSTANTS
  MaxReplayBlock,   \* bound: blocks
  ReplayDepth,            \* blocks this deep get no event they did not have
  MaxAuditBlocks,   \* MAX_AUDIT_BLOCKS
  MinRange,         \* minimum_range_size
  RangeAttempts,    \* max_range_attempts
  MaxReorgs,        \* bound: blocks reorganized
  MaxAdvances       \* bound: commits of the watermark

ASSUME MaxReplayBlockAssumption == MaxReplayBlock \in Nat \ {0}
ASSUME ReplayDepthAssumption == ReplayDepth \in Nat
ASSUME MaxAuditBlocksAssumption == MaxAuditBlocks \in Nat \ {0}
ASSUME MinRangeAssumption == MinRange \in Nat \ {0}
ASSUME RangeAttemptsAssumption == RangeAttempts \in Nat \ {0}
ASSUME MaxReorgsAssumption == MaxReorgs \in Nat
ASSUME MaxAdvancesAssumption == MaxAdvances \in Nat

ReplayBlocks == 1 .. MaxReplayBlock
Contents == {"old", "new"}
None == "none"
Records == ReplayBlocks \X Contents

VARIABLES
  source,      \* whose audits these are
  tipBlock,    \* the head
  canonical,   \* block -> the content of its event at the source
  verified,    \* the blocks whose event the source is asked for: of a verified pool
  retained,    \* the records kept downstream
  watermark,   \* the production cursor
  audit,       \* the run in progress
  report,      \* the report until the next run: what it found missing, changed, added
  touched,     \* history: the blocks whose event was removed or replaced
  reorgs

replayVars ==
  <<source, tipBlock, canonical, verified, retained, watermark, audit, report, touched, reorgs>>

NoAudit == [step |-> "idle", start |-> 1, end |-> 1, mode |-> "correction", before |-> 0,
            pending |-> <<>>, attempts |-> 0, fresh |-> {}, complete |-> TRUE, stored |-> {},
            settled |-> FALSE, foreign |-> {}, omitted |-> {}, gained |-> {}]

NoReport == [missing |-> {}, changed |-> {}, added |-> {},
             settled |-> FALSE, foreign |-> {}, omitted |-> {}, gained |-> {}]

ReplayTypeOK ==
    /\ source \in {"aave", "uniswap", "chainlink"}
    /\ tipBlock \in ReplayBlocks
    /\ canonical \in [ReplayBlocks -> Contents \cup {None}]
    /\ verified \subseteq ReplayBlocks
    /\ retained \subseteq Records
    /\ watermark \in 0 .. MaxAdvances
    /\ audit.step \in {"idle", "fetch", "load", "report"}
    /\ audit.fresh \subseteq Records /\ audit.stored \subseteq Records
    /\ audit.foreign \cup audit.omitted \cup audit.gained \subseteq ReplayBlocks
    /\ audit.attempts \in 0 .. RangeAttempts
    /\ touched \subseteq ReplayBlocks /\ reorgs \in 0 .. MaxReorgs

\* ---- The environment ------------------------------------------------------

\* history: the blocks that gained an event during the run
Gaining(blocks) ==
    audit' = [audit EXCEPT !.gained = IF audit.step = "idle" THEN @ ELSE @ \cup blocks]

ReplayNewBlock ==
    /\ tipBlock < MaxReplayBlock
    /\ tipBlock' = tipBlock + 1
    /\ \E content \in {"old", None} :
        /\ canonical' = [canonical EXCEPT ![tipBlock'] = content]
        /\ Gaining(IF content = None THEN {} ELSE {tipBlock'})
    /\ UNCHANGED <<source, verified, retained, watermark, report, touched, reorgs>>

\* a block loses its event or has it replaced; near the head it may gain one
Reorganize(b) ==
    /\ reorgs < MaxReorgs /\ b <= tipBlock
    /\ reorgs' = reorgs + 1
    /\ \E content \in {"new", None} \ {canonical[b]} :
        /\ canonical[b] = None => b > tipBlock - ReplayDepth
        /\ canonical' = [canonical EXCEPT ![b] = content]
        /\ touched' = IF canonical[b] = None THEN touched ELSE touched \cup {b}
    /\ Gaining(IF canonical[b] = None THEN {b} ELSE {})
    /\ UNCHANGED <<source, tipBlock, verified, retained, watermark, report>>

\* the pool of a block's event enters the reference data
VerifyPool(b) ==
    /\ b \notin verified
    /\ verified' = verified \cup {b}
    /\ UNCHANGED <<source, tipBlock, canonical, retained, watermark, audit, report, touched,
                   reorgs>>

\* a pipeline retains the event of a block; it deletes none
Retain(b) ==
    /\ b <= tipBlock /\ canonical[b] # None
    /\ <<b, canonical[b]>> \notin retained
    /\ retained' = {<<b, canonical[b]>>} \cup
                   (IF source = "uniswap" THEN retained ELSE {r \in retained : r[1] # b})
    /\ UNCHANGED <<source, tipBlock, canonical, verified, watermark, audit, report, touched,
                   reorgs>>

AdvanceCursor ==
    /\ watermark < MaxAdvances
    /\ watermark' = watermark + 1
    /\ UNCHANGED <<source, tipBlock, canonical, verified, retained, audit, report, touched,
                   reorgs>>

\* ---- The fetch ----------------------------------------------------------------

AuditStep(a) ==
    /\ audit' = a
    /\ UNCHANGED <<source, tipBlock, canonical, verified, retained, watermark, report, touched,
                   reorgs>>

\* the pools are read once; nothing compares the interval with the head (history: settled
\* notes that it is ReplayDepth behind)
StartAudit(start, end, mode) ==
    /\ audit.step = "idle"
    /\ start <= end /\ end - start + 1 <= MaxAuditBlocks
    /\ audit' = [NoAudit EXCEPT !.step = "fetch", !.start = start, !.end = end, !.mode = mode,
                                !.before = watermark, !.pending = <<<<start, end>>>>,
                                !.foreign = (start .. end) \ verified,
                                !.settled = (end <= tipBlock - ReplayDepth)]
    /\ report' = NoReport
    /\ UNCHANGED <<source, tipBlock, canonical, verified, retained, watermark, touched, reorgs>>

Current == Head(audit.pending)

FetchRange ==
    /\ audit.step = "fetch" /\ audit.pending # <<>>
    /\ audit.attempts < RangeAttempts

Answer(start, end) == {<<b, canonical[b]>> : b \in {c \in start .. end \cap 1 .. tipBlock :
                                         canonical[c] # None /\ c \notin audit.foreign}}

IdentitiesOf(R) == {r[1] : r \in R}

\* Mutant: an interval with a log that did not decode is compared all the same.
ReadRangePartly ==
    /\ FetchRange
    /\ \E decoded \in SUBSET Answer(Current[1], Current[2]) :
        AuditStep([audit EXCEPT !.attempts = @ + 1, !.pending = Tail(@), !.fresh = @ \cup decoded])

\* A log that does not decode becomes an issue and leaves the interval incomplete; one the
\* provider leaves out of eth_getLogs is not noticed (history: omitted).
ReadRange ==
    /\ FetchRange
    /\ \E given \in SUBSET Answer(Current[1], Current[2]) : \E decoded \in SUBSET given :
        /\ source = "chainlink" => given = Answer(Current[1], Current[2])
        /\ AuditStep([audit EXCEPT
                !.attempts = @ + 1, !.pending = Tail(@),
                !.complete = @ /\ decoded = given,
                !.omitted = @ \cup IdentitiesOf(Answer(Current[1], Current[2]) \ given),
                !.fresh = @ \cup decoded])

Middle == (Current[1] + Current[2]) \div 2

Halves == <<<<Current[1], Middle>>, <<Middle + 1, Current[2]>>>>

\* a refused range is halved, low half first
SplitRange ==
    /\ FetchRange
    /\ Current[2] - Current[1] + 1 > MinRange
    /\ AuditStep([audit EXCEPT !.attempts = @ + 1, !.pending = Halves \o Tail(@)])

\* a refused range too small to halve, or one attempt too many, raises; so does a kill
AbandonFetch ==
    /\ audit.step = "fetch"
    /\ AuditStep(NoAudit)

FinishFetch ==
    /\ audit.step = "fetch" /\ audit.pending = <<>>
    /\ AuditStep([audit EXCEPT !.step = "load", !.attempts = 0])

\* ---- The comparison -------------------------------------------------------------

\* of Uniswap every pool is loaded
InScope(r) ==
    /\ r[1] \in audit.start .. audit.end
    /\ source = "chainlink" => r[1] \in IdentitiesOf(audit.fresh)

LoadStored ==
    /\ audit.step = "load" /\ audit.complete
    /\ AuditStep([audit EXCEPT !.step = "report", !.stored = {r \in retained : InScope(r)}])

\* the load comes first; then the comparison refuses an incomplete interval
RefuseIncomplete ==
    /\ audit.step = "load" /\ ~audit.complete
    /\ AuditStep(NoAudit)

Conflicting(R) == \E r, s \in R : r[1] = s[1] /\ r # s

MissingIds == IdentitiesOf(audit.stored) \ IdentitiesOf(audit.fresh)

ChangedIds ==
    {b \in IdentitiesOf(audit.stored) \cap IdentitiesOf(audit.fresh) :
        \E r \in audit.stored, s \in audit.fresh : r[1] = b /\ s[1] = b /\ r # s}

AddedIds == IdentitiesOf(audit.fresh) \ IdentitiesOf(audit.stored)

Reportable ==
    /\ ~Conflicting(audit.stored)
    /\ audit.mode = "historical" => MissingIds \cup ChangedIds = {}
    /\ watermark = audit.before

FinishAudit ==
    /\ audit.step = "report" /\ Reportable
    /\ report' = [missing |-> MissingIds, changed |-> ChangedIds, added |-> AddedIds,
                  settled |-> audit.settled, foreign |-> audit.foreign,
                  omitted |-> audit.omitted, gained |-> audit.gained]
    /\ audit' = NoAudit
    /\ UNCHANGED <<source, tipBlock, canonical, verified, retained, watermark, touched, reorgs>>

\* conflicting copies, an add-only replay with something to remove, a moved watermark
RefuseAudit ==
    /\ audit.step = "report" /\ ~Reportable
    /\ AuditStep(NoAudit)

\* ---- The specification ------------------------------------------------------------

ReplayInit ==
    /\ source \in {"aave", "uniswap", "chainlink"}
    /\ tipBlock = 1
    /\ canonical = [b \in ReplayBlocks |-> IF b = 1 THEN "old" ELSE None]
    /\ verified \in SUBSET ReplayBlocks
    /\ source # "uniswap" => verified = ReplayBlocks
    /\ retained = {} /\ watermark = 0
    /\ audit = NoAudit /\ report = NoReport
    /\ touched = {} /\ reorgs = 0

ReplayNext ==
    \/ ReplayNewBlock
    \/ \E b \in ReplayBlocks : Reorganize(b) \/ VerifyPool(b) \/ Retain(b)
    \/ AdvanceCursor
    \/ \E start, end \in ReplayBlocks, mode \in {"historical", "correction"} :
           StartAudit(start, end, mode)
    \/ ReadRange \/ SplitRange \/ AbandonFetch \/ FinishFetch
    \/ LoadStored \/ RefuseIncomplete \/ FinishAudit \/ RefuseAudit

ReplaySpec == ReplayInit /\ [][ReplayNext]_replayVars

\* ---- Properties -----------------------------------------------------------------------

\* A report's findings have a cause, and only these: what it calls changed is an event the
\* chain did replace or remove; what it calls missing the chain removed, or the provider left
\* out of an answer, or was not asked for (a pool that was not verified), or the chain gained
\* while the run went on, which of blocks that were settled never happens.  The ranges'
\* halving, logs that do not decode and records retained between the fetch and the load
\* cause none (docs/correction_replay_policy.md names the provider's omission).
FindingsHaveACause ==
    /\ report.changed \subseteq touched
    /\ report.missing \subseteq touched \cup report.omitted \cup report.foreign \cup report.gained
    /\ report.settled => report.missing \cap report.gained = {}
===============================================================================
