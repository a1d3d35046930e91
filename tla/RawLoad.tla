-------------------------------- MODULE RawLoad --------------------------------
(***************************************************************************)
(* The load of one dataset from its stage into RAW, as its tasks run it again *)
(* and again.  COPY INTO commits by itself and takes the files it has not     *)
(* taken; then a transaction merges the newest unmerged landing row of each   *)
(* key and marks every unmerged row.  A statement sees what was committed      *)
(* before it began.  A client dies between any two statements: its session     *)
(* lingers with its locks, and the statement under way may still execute.      *)
(***************************************************************************)
EXTENDS Integers, FiniteSets

CONSTANTS
  Attempts,      \* the task instances that load the dataset
  Keys,          \* natural keys
  NoKey,         \* a natural key with a null part
  StageFiles,    \* the files writers may put under the stage prefix
  RowsIn,        \* file -> the keys of its rows
  Unreadable,    \* the files COPY aborts on
  PoolKeepsApart,\* TRUE: the pool lets one live load of the dataset run at a time
  MaxLoads       \* bound: attempts started

ASSUME NoKeyAssumption == NoKey \notin Keys
ASSUME AttemptsAssumption == "none" \notin Attempts
ASSUME RowsInAssumption == RowsIn \in [StageFiles -> SUBSET (Keys \cup {NoKey})]
ASSUME UnreadableAssumption == Unreadable \subseteq StageFiles
ASSUME PoolAssumption == PoolKeepsApart \in BOOLEAN
ASSUME MaxLoadsAssumption == MaxLoads \in Nat

VARIABLES
  stage,     \* the files under the prefix
  copied,    \* the files COPY has taken, by its load metadata
  landing,   \* the landing rows: key, file and loaded_at
  marked,    \* the rows with a merged_at
  raw,       \* key -> loaded_at of the RAW row, 0 where there is none
  load,      \* attempt -> its step and what its transaction has written
  lock,      \* the transaction that has written RAW, or "none"
  started,   \* attempts started, which also dates the COPYs
  between    \* history: rows a dead client's COPY landed between a MERGE and its UPDATE

loadVars == <<stage, copied, landing, marked, raw, load, lock, started, between>>

Landed == [key : Keys \cup {NoKey}, file : StageFiles, at : 1 .. MaxLoads]

NoLoad == [step |-> "idle", at |-> 0, raw |-> [k \in Keys |-> 0], marks |-> {}]

LoadStates ==
    [step  : {"idle", "validated", "copied", "begun", "merged", "marked", "lingering",
              "copying", "committing"},
     at    : 0 .. MaxLoads,
     raw   : [Keys -> 0 .. MaxLoads],
     marks : SUBSET Landed]

LoadTypeOK ==
    /\ stage \subseteq StageFiles /\ copied \subseteq StageFiles
    /\ landing \subseteq Landed /\ marked \subseteq Landed
    /\ raw \in [Keys -> 0 .. MaxLoads]
    /\ load \in [Attempts -> LoadStates]
    /\ lock \in Attempts \cup {"none"}
    /\ started \in 0 .. MaxLoads
    /\ between \subseteq landing

Live(a) == load[a].step \notin {"idle", "lingering", "copying", "committing"}

\* ---- The stage ------------------------------------------------------------

\* a Silver job adds a file, or a rebuild replaces the ones there are
WriteStage ==
    /\ \E file \in StageFiles \ (stage \cup copied) :
          stage' \in {stage \cup {file}, {file}}
    /\ UNCHANGED <<copied, landing, marked, raw, load, lock, started, between>>

\* an unreadable file is cleared away
RepairStage ==
    /\ stage \cap Unreadable # {}
    /\ stage' = stage \ Unreadable
    /\ UNCHANGED <<copied, landing, marked, raw, load, lock, started, between>>

\* ---- One attempt ----------------------------------------------------------

\* the daily run lists the prefix first and fails on an empty one
StartLoad(a) ==
    /\ load[a] = NoLoad /\ started < MaxLoads
    /\ PoolKeepsApart => \A other \in Attempts : ~Live(other)
    /\ stage # {}
    /\ started' = started + 1
    /\ load' = [load EXCEPT ![a] = [NoLoad EXCEPT !.step = "validated", !.at = started']]
    /\ UNCHANGED <<stage, copied, landing, marked, raw, lock, between>>

NewFiles == stage \ copied

\* ON_ERROR = ABORT_STATEMENT: one unreadable file and nothing is copied
CopyAborts(a) ==
    /\ load[a].step = "validated" /\ NewFiles \cap Unreadable # {}
    /\ load' = [load EXCEPT ![a] = NoLoad]
    /\ UNCHANGED <<stage, copied, landing, marked, raw, lock, started, between>>

RowsOfFiles(set, at) ==
    {row \in Landed : row.file \in set /\ row.key \in RowsIn[row.file] /\ row.at = at}

Taken(a) == RowsOfFiles(NewFiles, load[a].at)

LandFiles(a) ==
    /\ NewFiles \cap Unreadable = {}
    /\ landing' = landing \cup Taken(a)
    /\ copied' = copied \cup NewFiles

Copy(a) ==
    /\ load[a].step = "validated"
    /\ LandFiles(a)
    /\ load' = [load EXCEPT ![a].step = "copied"]
    /\ UNCHANGED <<stage, marked, raw, lock, started, between>>

BeginLoad(a) ==
    /\ load[a].step = "copied"
    /\ load' = [load EXCEPT ![a].step = "begun"]
    /\ UNCHANGED <<stage, copied, landing, marked, raw, lock, started, between>>

UnmergedAt(key) == {row.at : row \in {r \in landing \ marked : r.key = key}}

\* Mutant: of a key's unmerged rows the oldest is merged.
OldestUnmerged(key) == CHOOSE at \in UnmergedAt(key) : \A other \in UnmergedAt(key) : at <= other

\* QUALIFY ROW_NUMBER() ... = 1: the row of the key loaded last
NewestUnmerged(key) == CHOOSE at \in UnmergedAt(key) : \A other \in UnmergedAt(key) : other <= at

\* an existing row is updated unless it is newer than the source
MergedRaw(key) ==
    IF UnmergedAt(key) # {} /\ NewestUnmerged(key) >= raw[key]
    THEN NewestUnmerged(key)
    ELSE raw[key]

\* MERGE locks RAW until its transaction ends
Merge(a) ==
    /\ load[a].step = "begun" /\ lock = "none"
    /\ lock' = a
    /\ load' = [load EXCEPT ![a].step = "merged", ![a].raw = [k \in Keys |-> MergedRaw(k)]]
    /\ UNCHANGED <<stage, copied, landing, marked, raw, started, between>>

\* UPDATE ... WHERE merged_at IS NULL, over what is committed by now
Mark(a) ==
    /\ load[a].step = "merged"
    /\ load' = [load EXCEPT ![a].step = "marked", ![a].marks = landing \ marked]
    /\ UNCHANGED <<stage, copied, landing, marked, raw, lock, started, between>>

Applied(a) ==
    /\ raw' = load[a].raw
    /\ marked' = marked \cup load[a].marks
    /\ lock' = "none"
    /\ load' = [load EXCEPT ![a] = NoLoad]
    /\ UNCHANGED <<stage, copied, landing, started, between>>

CommitLoad(a) == load[a].step = "marked" /\ Applied(a)

\* a statement raises and the connection is closed, which rolls back
FailLoad(a) ==
    /\ load[a].step \in {"copied", "begun", "merged", "marked"}
    /\ lock' = IF lock = a THEN "none" ELSE lock
    /\ load' = [load EXCEPT ![a] = NoLoad]
    /\ UNCHANGED <<stage, copied, landing, marked, raw, started, between>>

\* the client is killed, perhaps with its COPY or its COMMIT on the way
KillLoad(a) ==
    /\ Live(a)
    /\ \/ load' = [load EXCEPT ![a].step = "lingering"]
       \/ load[a].step = "validated" /\ load' = [load EXCEPT ![a].step = "copying"]
       \/ load[a].step = "marked" /\ load' = [load EXCEPT ![a].step = "committing"]
    /\ UNCHANGED <<stage, copied, landing, marked, raw, lock, started, between>>

\* Snowflake executes a query to its end though its client is gone
LateCopy(a) ==
    /\ load[a].step = "copying"
    /\ LandFiles(a)
    /\ between' = between \cup (IF \E b \in Attempts : load[b].step = "merged"
                               THEN Taken(a) ELSE {})
    /\ load' = [load EXCEPT ![a] = NoLoad]
    /\ UNCHANGED <<stage, marked, raw, lock, started>>

LateCommit(a) == load[a].step = "committing" /\ Applied(a)

\* Snowflake ends the session of a dead client
EndSession(a) ==
    /\ load[a].step \in {"lingering", "copying"}
    /\ lock' = IF lock = a THEN "none" ELSE lock
    /\ load' = [load EXCEPT ![a] = NoLoad]
    /\ UNCHANGED <<stage, copied, landing, marked, raw, started, between>>

\* ---- Specification --------------------------------------------------------

LoadInit ==
    /\ stage = {} /\ copied = {} /\ landing = {} /\ marked = {}
    /\ raw = [k \in Keys |-> 0]
    /\ load = [a \in Attempts |-> NoLoad]
    /\ lock = "none" /\ started = 0 /\ between = {}

LoadNext ==
    \/ WriteStage
    \/ RepairStage
    \/ \E a \in Attempts :
          \/ StartLoad(a)
          \/ CopyAborts(a)
          \/ Copy(a)
          \/ BeginLoad(a)
          \/ Merge(a)
          \/ Mark(a)
          \/ CommitLoad(a)
          \/ FailLoad(a)
          \/ KillLoad(a)
          \/ LateCopy(a)
          \/ LateCommit(a)
          \/ EndSession(a)

LoadSpec == LoadInit /\ [][LoadNext]_loadVars

\* ---- Properties -----------------------------------------------------------

\* A landing row with a whole key that is marked merged, and so never looked at again, is
\* represented in RAW by itself or by a later copy of its key: a file COPY took is not lost by
\* a death before, between or after MERGE, UPDATE and COMMIT, nor by a retry beside the dead
\* client's session (generate_dataset_load_sql).  The one exception is a dead client's COPY
\* that lands between the retry's MERGE and its UPDATE.
MarkedIsMerged ==
    \A row \in marked \ between : row.key \in Keys => raw[row.key] >= row.at
===============================================================================
