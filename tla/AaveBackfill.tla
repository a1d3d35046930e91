----------------------------- MODULE AaveBackfill -----------------------------
(***************************************************************************)
(* The bounded Aave backfill.  A run scans the chain backwards in chunks,   *)
(* from the checkpoint of earlier runs or from a requested end, until its   *)
(* targets are met or a budget is spent, and then replaces three datasets   *)
(* one after the other: historical Bronze, the one-row checkpoint           *)
(* next_end_block, and the quarantine of what it could not read.            *)
(*                                                                         *)
(* An event is the block it is in: at most one per block, of one type, with *)
(* one target.  Runs do not overlap (the DAG has one active run and all the *)
(* slots of the pool); a killed run is followed by any other, its retry     *)
(* among them.  Replacing a dataset is not atomic: a local one leaves no    *)
(* dataset when it dies between its two renames, and a remote overwrite any *)
(* part of the old files or of the new.                                     *)
(***************************************************************************)
EXTENDS Integers, FiniteSets

CONSTANTS
  MaxBlock,       \* bound: the highest block of the chain
  EventBlocks,    \* the blocks with an event of the Pool
  BadLogs,        \* those whose log is refused or decoded by no handler
  ChunkSize,      \* --chunk-size
  Window,         \* --max-blocks of a resumed run
  Target,         \* --target-* of a resumed run
  MaxRequests,    \* --max-rpc-requests, which no caller raises
  LogAttempts,    \* attempts of one eth_getLogs call (4)
  MaxAaveKills    \* bound: runs killed

ASSUME MaxBlockAssumption == MaxBlock \in Nat
ASSUME EventBlocksAssumption == BadLogs \subseteq EventBlocks /\ EventBlocks \subseteq 0 .. MaxBlock
ASSUME ChunkSizeAssumption == ChunkSize \in Nat \ {0}
ASSUME WindowAssumption == Window \in Nat \ {0}
ASSUME TargetAssumption == Target \in Nat
ASSUME MaxRequestsAssumption == MaxRequests \in Nat \ {0}
ASSUME LogAttemptsAssumption == LogAttempts \in Nat \ {0}
ASSUME MaxAaveKillsAssumption == MaxAaveKills \in Nat

Blocks == 0 .. MaxBlock

\* no state dataset, or one without its row; next_end_block itself may be -1,
\* behind block 0
NoCheckpoint == -3
NoRow == -2

\* what force_full_window asks for: more events than there are blocks
FullWindow == MaxBlock + 2

Larger(a, b) == IF a < b THEN b ELSE a
Smaller(a, b) == IF a < b THEN a ELSE b

VARIABLES
  aaveHead,     \* the latest block of the chain
  aaveEvents,   \* historical Bronze
  aaveState,    \* next_end_block of the checkpoint dataset
  search,       \* the run in progress
  passed,       \* history: the blocks a run's own next_end_block went past
  reported,     \* history: the blocks of every quarantine ever written
  unreported,   \* history: those of the runs killed before writing theirs
  aaveTorn,     \* history: a kill took events out of Bronze
  aaveKills

aaveVars == <<aaveHead, aaveEvents, aaveState, search, passed, reported, unreported,
              aaveTorn, aaveKills>>

NoSearch == [step |-> "idle", end |-> 0, floor |-> 0, cursor |-> 0, next |-> 0, target |-> 0,
             requests |-> 0, logs |-> {}, decoded |-> {}, found |-> {}, issues |-> {}]

Searches ==
    [step : {"idle", "scan", "decode", "events", "state", "issues"},
     end : Blocks, floor : Blocks, cursor : -1 .. MaxBlock, next : -1 .. MaxBlock,
     target : {Target, FullWindow}, requests : 1 .. MaxRequests + LogAttempts,
     logs : SUBSET EventBlocks, decoded : SUBSET EventBlocks, found : SUBSET EventBlocks,
     issues : SUBSET Blocks]

AaveTypeOK ==
    /\ aaveHead \in Blocks
    /\ aaveEvents \in SUBSET EventBlocks
    /\ aaveState \in {NoCheckpoint, NoRow} \cup -1 .. MaxBlock
    /\ search \in Searches \cup {NoSearch}
    /\ aaveKills \in 0 .. MaxAaveKills

\* ---- The search ---------------------------------------------------------

\* Bronze and the checkpoint are read once, and a checkpoint dataset must have its
\* row; reading the head is the first request
StartSearch(end, window, target) ==
    /\ search.step = "idle" /\ aaveState # NoRow
    /\ end \in 0 .. aaveHead
    /\ search' = [NoSearch EXCEPT !.step = "scan", !.end = end, !.next = end, !.cursor = end,
                                  !.floor = Larger(0, end - window + 1), !.target = target,
                                  !.requests = 1, !.found = aaveEvents]
    /\ UNCHANGED <<aaveHead, aaveEvents, aaveState, passed, reported, unreported,
                   aaveTorn, aaveKills>>

ResumeSearch ==
    StartSearch(IF aaveState = NoCheckpoint THEN aaveHead ELSE aaveState, Window, Target)

ValidWindow(start, end) == start < end

\* the orchestrated request: its end is explicit and its targets out of reach
RequestWindow(start, end) ==
    /\ ValidWindow(start, end)
    /\ StartSearch(end, end - start + 1, FullWindow)

ChunkStart == Larger(search.floor, search.cursor - ChunkSize + 1)

TargetsMet == Cardinality(search.found) >= search.target

Continues ==
    /\ search.cursor >= search.floor
    /\ ~TargetsMet
    /\ search.requests < MaxRequests

ScanStep(s) ==
    /\ search' = s
    /\ UNCHANGED <<aaveHead, aaveEvents, aaveState, passed, reported, unreported,
                   aaveTorn, aaveKills>>

FetchChunk ==
    /\ search.step = "scan" /\ Continues
    /\ \E attempts \in 1 .. LogAttempts :
           ScanStep([search EXCEPT !.step = "decode", !.requests = @ + attempts,
                                   !.decoded = {},
                                   !.logs = EventBlocks \cap (ChunkStart .. search.cursor)])

\* a chunk no attempt can read ends the scan, and the next run begins with it
ChunkFails ==
    /\ search.step = "scan" /\ Continues
    /\ ScanStep([search EXCEPT !.step = "events", !.requests = @ + LogAttempts,
                               !.issues = @ \cup {ChunkStart}, !.next = search.cursor])

NextLog == CHOOSE b \in search.logs : \A c \in search.logs : b <= c

\* a lookup that fails, or a log no handler decodes, is quarantined and passed over
DecodeLog ==
    /\ search.step = "decode" /\ search.logs # {}
    /\ search.requests < MaxRequests
    /\ \/ /\ NextLog \notin BadLogs
          /\ ScanStep([search EXCEPT !.requests = @ + 1, !.logs = @ \ {NextLog},
                                     !.decoded = @ \cup {NextLog}])
       \/ ScanStep([search EXCEPT !.requests = @ + 1, !.logs = @ \ {NextLog},
                                  !.issues = @ \cup {NextLog}])

\* a log of another address or range is quarantined without a lookup
RefuseLog ==
    /\ search.step = "decode" /\ search.logs # {} /\ NextLog \in BadLogs
    /\ ScanStep([search EXCEPT !.logs = @ \ {NextLog}, !.issues = @ \cup {NextLog}])

\* Mutant: a chunk the budget cuts short counts as scanned.
PassCutChunk ==
    /\ search.step = "decode" /\ search.logs # {}
    /\ search.requests >= MaxRequests
    /\ ScanStep([search EXCEPT !.step = "events", !.found = @ \cup search.decoded,
                               !.next = ChunkStart - 1, !.logs = {}, !.decoded = {}])

\* the budget is spent inside a chunk: its events are kept, it is not passed
CutChunk ==
    /\ search.step = "decode" /\ search.logs # {}
    /\ search.requests >= MaxRequests
    /\ ScanStep([search EXCEPT !.step = "events", !.found = @ \cup search.decoded,
                               !.logs = {}, !.decoded = {}])

CloseChunk ==
    /\ search.step = "decode" /\ search.logs = {}
    /\ ScanStep([search EXCEPT !.step = "scan", !.found = @ \cup search.decoded,
                               !.decoded = {}, !.next = ChunkStart - 1,
                               !.cursor = ChunkStart - 1])

StopScan ==
    /\ search.step = "scan" /\ ~Continues
    /\ ScanStep([search EXCEPT !.step = "events"])

\* ---- What a run leaves behind ---------------------------------------------

\* Mutant: an overlap run puts its own, higher position down.
TakeCandidate(current, candidate) == candidate

PreserveCheckpoint(current, candidate) ==
    IF current = NoCheckpoint THEN candidate ELSE Smaller(current, candidate)

SaveEvents ==
    /\ search.step = "events"
    /\ aaveEvents' = search.found
    /\ search' = [search EXCEPT !.step = "state"]
    /\ UNCHANGED <<aaveHead, aaveState, passed, reported, unreported, aaveTorn,
                   aaveKills>>

SaveCheckpoint ==
    /\ search.step = "state"
    /\ aaveState' = PreserveCheckpoint(aaveState, search.next)
    /\ passed' = passed \cup (search.next + 1 .. search.end)
    /\ search' = [search EXCEPT !.step = "issues"]
    /\ UNCHANGED <<aaveHead, aaveEvents, reported, unreported, aaveTorn, aaveKills>>

\* nothing reads the quarantine back: each run replaces it with its own issues
SaveIssues ==
    /\ search.step = "issues"
    /\ reported' = reported \cup search.issues
    /\ search' = NoSearch
    /\ UNCHANGED <<aaveHead, aaveEvents, aaveState, passed, unreported, aaveTorn, aaveKills>>

\* ---- Faults -------------------------------------------------------------------

\* Bronze is written if the search found anything new
TornEvents ==
    IF search.step = "events" /\ search.found # aaveEvents
    THEN {aaveEvents} \cup SUBSET search.found
    ELSE {aaveEvents}

TornState ==
    IF search.step = "state" THEN {aaveState, NoCheckpoint, NoRow} ELSE {aaveState}

\* the run dies, or a write of it fails; an overwrite under way leaves a part
KillSearch ==
    /\ search.step # "idle"
    /\ aaveKills < MaxAaveKills
    /\ aaveKills' = aaveKills + 1
    /\ aaveEvents' \in TornEvents
    /\ aaveState' \in TornState
    /\ aaveTorn' = (aaveTorn \/ ~(aaveEvents \subseteq aaveEvents'))
    /\ unreported' = IF search.step = "issues" THEN unreported \cup search.issues ELSE unreported
    /\ search' = NoSearch
    /\ UNCHANGED <<aaveHead, passed, reported>>

\* ---- The specification ----------------------------------------------------------

AaveNewBlock ==
    /\ aaveHead < MaxBlock
    /\ aaveHead' = aaveHead + 1
    /\ UNCHANGED <<aaveEvents, aaveState, search, passed, reported, unreported,
                   aaveTorn, aaveKills>>

AaveInit ==
    /\ aaveHead \in Blocks
    /\ aaveEvents = {} /\ aaveState = NoCheckpoint
    /\ search = NoSearch
    /\ passed = {} /\ reported = {} /\ unreported = {}
    /\ aaveTorn = FALSE /\ aaveKills = 0

AaveNext ==
    \/ ResumeSearch
    \/ \E start, end \in Blocks : RequestWindow(start, end)
    \/ FetchChunk \/ ChunkFails \/ DecodeLog \/ RefuseLog \/ CutChunk \/ CloseChunk \/ StopScan
    \/ SaveEvents \/ SaveCheckpoint \/ SaveIssues
    \/ KillSearch
    \/ AaveNewBlock

AaveSpec == AaveInit /\ [][AaveNext]_aaveVars

\* ---- Properties -------------------------------------------------------------------

\* No event is lost between the runs: a block that a run's own position went
\* past has its event in historical Bronze, or stands in a quarantine some run
\* wrote or is about to, unless that run died between its checkpoint and its quarantine.  It
\* relates the budget cut in the middle of a chunk, the failed chunk, the
\* quarantined log and the order of the three writes (run_aave_v3.py:92-100).
PassedIsAccountedFor ==
    ~aaveTorn => passed \cap EventBlocks
                     \subseteq aaveEvents \cup reported \cup unreported \cup search.issues

\* Never regress a backwards checkpoint (aave_v3.py:340-346): whatever end a
\* run asks for and wherever it stops, the checkpoint only descends, unless a
\* kill takes the dataset away.
CheckpointDescends ==
    [][aaveState # NoCheckpoint => aaveState' <= aaveState]_aaveVars
===============================================================================
