---------------------------- MODULE BackfillProofs ----------------------------
(***************************************************************************)
(* What holds of every instance of the historical side: the bounded Aave   *)
(* backfill, the bounded Chainlink backfill beside the bootstrap batches,  *)
(* and the correction replay.                                              *)
(***************************************************************************)
EXTENDS AaveBackfill, ChainlinkBackfill, CorrectionReplay, NaturalBounds,
        SequenceTheorems, FiniteSetTheorems, TLAPS

-------------------------------------------------------------------------------
(***************************************************************************)
(* The bounded Aave backfill                                               *)
(***************************************************************************)

AaveTyping ==
  /\ aaveHead \in Blocks
  /\ aaveEvents \subseteq EventBlocks
  /\ aaveState \in {NoCheckpoint, NoRow} \cup -1 .. MaxBlock
  /\ search \in Searches \cup {NoSearch}
  /\ aaveKills \in 0 .. MaxAaveKills

\* What a run has read, or will quarantine, reaches from its end down to its own position.
RunKeepsWhatItPassed(s) ==
  s.step \in {"scan", "decode", "events"} =>
    (s.next + 1 .. s.end) \cap EventBlocks \subseteq s.found \cup s.issues

\* The chunk it is in lies right below that position: each of its events is still to
\* decode, decoded, or a quarantined one.
ChunkIsHeld(s) ==
  /\ s.step \in {"scan", "decode"} => s.next = s.cursor
  /\ s.step = "decode" =>
       EventBlocks \cap (Larger(s.floor, s.cursor - ChunkSize + 1) .. s.cursor)
         \subseteq s.logs \cup s.decoded \cup s.issues

\* A run writes Bronze before its checkpoint, and all of what Bronze held.
BronzeBeforeCheckpoint ==
  /\ search.step \in {"scan", "decode", "events"} => aaveEvents \subseteq search.found
  /\ search.step = "state" =>
       (search.next + 1 .. search.end) \cap EventBlocks \subseteq aaveEvents \cup search.issues

\* The accounting itself counts on the issues of a run only once its checkpoint stands.
Accounted ==
  ~aaveTorn => passed \cap EventBlocks
                   \subseteq aaveEvents \cup reported \cup unreported
                               \cup (IF search.step = "issues" THEN search.issues ELSE {})

AaveInv ==
  /\ AaveTyping
  /\ RunKeepsWhatItPassed(search)
  /\ ChunkIsHeld(search)
  /\ BronzeBeforeCheckpoint
  /\ Accounted

LEMMA AaveInitially == AaveInit => AaveInv
<1> SUFFICES ASSUME AaveInit PROVE AaveInv
  OBVIOUS
<1> USE MaxAaveKillsAssumption DEF AaveInit, NoSearch
<1>1. AaveTyping
  BY DEF AaveTyping
<1>2. RunKeepsWhatItPassed(search) /\ ChunkIsHeld(search)
  BY DEF RunKeepsWhatItPassed, ChunkIsHeld
<1>3. BronzeBeforeCheckpoint /\ Accounted
  BY DEF BronzeBeforeCheckpoint, Accounted
<1> QED
  BY <1>1, <1>2, <1>3 DEF AaveInv

AaveAssumptions ==
  /\ MaxBlock \in Nat /\ BadLogs \subseteq EventBlocks /\ EventBlocks \subseteq 0 .. MaxBlock
  /\ ChunkSize \in Nat \ {0} /\ Window \in Nat \ {0} /\ Target \in Nat
  /\ MaxRequests \in Nat \ {0} /\ LogAttempts \in Nat \ {0} /\ MaxAaveKills \in Nat

LEMMA AaveAssumed == AaveAssumptions
BY MaxBlockAssumption, EventBlocksAssumption, ChunkSizeAssumption, WindowAssumption,
   TargetAssumption, MaxRequestsAssumption, LogAttemptsAssumption, MaxAaveKillsAssumption
   DEF AaveAssumptions

\* A running search is one of Searches.
LEMMA SearchHasType ==
  ASSUME AaveTyping, search.step # "idle"
  PROVE  search \in Searches
BY DEF AaveTyping, NoSearch

LEMMA ChunkBounds ==
  ASSUME NEW s \in Searches
  PROVE  /\ Larger(s.floor, s.cursor - ChunkSize + 1) \in Blocks
         /\ Larger(s.floor, s.cursor - ChunkSize + 1) - 1 \in -1 .. MaxBlock
<1>1. s.floor \in 0 .. MaxBlock /\ s.cursor \in -1 .. MaxBlock
  BY DEF Searches, Blocks
<1> QED
  BY <1>1, AaveAssumed DEF AaveAssumptions, Larger, Blocks

\* A step that starts or continues a run, and moves only the run, keeps the invariant when
\* the new run holds what it passed.
LEMMA RunStep ==
  ASSUME AaveInv,
         UNCHANGED <<aaveHead, aaveEvents, aaveState, passed, reported, unreported,
                     aaveTorn, aaveKills>>,
         search.step \in {"idle", "scan", "decode"},
         search' \in Searches,
         search'.step \in {"scan", "decode", "events"},
         RunKeepsWhatItPassed(search'), ChunkIsHeld(search'),
         aaveEvents \subseteq search'.found
  PROVE  AaveInv'
<1>1. AaveTyping'
  BY DEF AaveInv, AaveTyping
<1>2. BronzeBeforeCheckpoint'
  BY DEF BronzeBeforeCheckpoint
<1>3. Accounted'
  BY DEF AaveInv, Accounted
<1> QED
  BY <1>1, <1>2, <1>3 DEF AaveInv, RunKeepsWhatItPassed, ChunkIsHeld

LEMMA StartStep ==
  ASSUME AaveInv, NEW end \in Int, NEW window \in Nat \ {0}, NEW target \in {Target, FullWindow},
         StartSearch(end, window, target)
  PROVE  AaveInv'
<1>1. end \in Blocks /\ aaveEvents \subseteq EventBlocks
  BY AaveAssumed DEF AaveInv, AaveTyping, StartSearch, Blocks, AaveAssumptions
<1> DEFINE lowest == Larger(0, end - window + 1)
           s == [step |-> "scan", end |-> end, floor |-> lowest, cursor |-> end, next |-> end,
                 target |-> target, requests |-> 1, logs |-> {}, decoded |-> {},
                 found |-> aaveEvents, issues |-> {}]
<1>2. lowest \in Blocks
  BY <1>1, AaveAssumed DEF Larger, Blocks, AaveAssumptions
<1>3. search' = s
  BY DEF StartSearch, NoSearch
<1>4. s \in Searches
  <2> HIDE DEF lowest
  <2> QED
    BY <1>1, <1>2, AaveAssumed DEF Searches, AaveAssumptions, Blocks
<1>5. RunKeepsWhatItPassed(s) /\ ChunkIsHeld(s)
  BY <1>1 DEF RunKeepsWhatItPassed, ChunkIsHeld, Blocks
<1>6. aaveEvents \subseteq s.found /\ s.step = "scan"
  OBVIOUS
<1> HIDE DEF s
<1> QED
  BY <1>3, <1>4, <1>5, <1>6, RunStep DEF StartSearch

LEMMA FetchStep == ASSUME AaveInv, FetchChunk PROVE AaveInv'
<1>1. search \in Searches /\ search.step = "scan"
  BY SearchHasType DEF FetchChunk, AaveInv
<1>2. PICK attempts \in 1 .. LogAttempts :
        ScanStep([search EXCEPT !.step = "decode", !.requests = @ + attempts, !.decoded = {},
                                !.logs = EventBlocks \cap (ChunkStart .. search.cursor)])
  BY DEF FetchChunk
<1> DEFINE s == [search EXCEPT !.step = "decode", !.requests = @ + attempts, !.decoded = {},
                               !.logs = EventBlocks \cap (ChunkStart .. search.cursor)]
<1>3. search' = s
  BY <1>2 DEF ScanStep
<1>4. search.requests + attempts \in 1 .. MaxRequests + LogAttempts
  BY <1>1, AaveAssumed DEF FetchChunk, Continues, Searches, AaveAssumptions
<1>5. s \in Searches
  BY <1>1, <1>4 DEF Searches
<1>6. /\ s.step = "decode" /\ s.next = search.next /\ s.cursor = search.cursor
      /\ s.end = search.end /\ s.floor = search.floor /\ s.found = search.found
      /\ s.issues = search.issues /\ s.logs = EventBlocks \cap (ChunkStart .. search.cursor)
  BY <1>1 DEF Searches
<1> HIDE DEF s
<1>7. RunKeepsWhatItPassed(s)
  BY <1>1, <1>6 DEF AaveInv, RunKeepsWhatItPassed
<1>8. ChunkIsHeld(s)
  BY <1>1, <1>6 DEF AaveInv, ChunkIsHeld, ChunkStart
<1>9. aaveEvents \subseteq s.found
  BY <1>1, <1>6 DEF AaveInv, BronzeBeforeCheckpoint
<1> QED
  BY <1>1, <1>2, <1>3, <1>5, <1>6, <1>7, <1>8, <1>9, RunStep DEF ScanStep

LEMMA ChunkFailsStep == ASSUME AaveInv, ChunkFails PROVE AaveInv'
<1>1. search \in Searches /\ search.step = "scan"
  BY SearchHasType DEF ChunkFails, AaveInv
<1> DEFINE s == [search EXCEPT !.step = "events", !.requests = @ + LogAttempts,
                               !.issues = @ \cup {ChunkStart}, !.next = search.cursor]
<1>2. search' = s
  BY DEF ChunkFails, ScanStep
<1>3. search.requests + LogAttempts \in 1 .. MaxRequests + LogAttempts
  BY <1>1, AaveAssumed DEF ChunkFails, Continues, Searches, AaveAssumptions
<1>4. ChunkStart \in Blocks
  BY <1>1, ChunkBounds DEF ChunkStart
<1>5. s \in Searches
  BY <1>1, <1>3, <1>4 DEF Searches
<1>6. /\ s.step = "events" /\ s.next = search.cursor /\ s.end = search.end
      /\ s.found = search.found /\ search.issues \subseteq s.issues
  BY <1>1 DEF Searches
<1> HIDE DEF s
<1>7. RunKeepsWhatItPassed(s) /\ ChunkIsHeld(s)
  BY <1>1, <1>6 DEF AaveInv, RunKeepsWhatItPassed, ChunkIsHeld
<1>8. aaveEvents \subseteq s.found
  BY <1>1, <1>6 DEF AaveInv, BronzeBeforeCheckpoint
<1> QED
  BY <1>1, <1>2, <1>5, <1>6, <1>7, <1>8, RunStep DEF ChunkFails, ScanStep

LEMMA DecodeStep == ASSUME AaveInv, DecodeLog \/ RefuseLog PROVE AaveInv'
<1>1. search \in Searches /\ search.step = "decode"
  BY SearchHasType DEF DecodeLog, RefuseLog, AaveInv
<1>2. NextLog \in EventBlocks
  <2>1. search.logs \subseteq Nat /\ search.logs # {} /\ search.logs \subseteq EventBlocks
    BY <1>1, AaveAssumed DEF Searches, AaveAssumptions, DecodeLog, RefuseLog
  <2>2. \E b \in search.logs : \A c \in search.logs : b <= c
    BY <2>1, LeastElement
  <2> QED
    BY <2>1, <2>2 DEF NextLog
<1>3. /\ NextLog \in Blocks
      /\ DecodeLog => search.requests + 1 \in 1 .. MaxRequests + LogAttempts
  BY <1>1, <1>2, AaveAssumed DEF Searches, DecodeLog, Blocks, AaveAssumptions
<1>4. ASSUME NEW s, s \in Searches, search' = s, s.step = "decode",
             s.next = search.next, s.cursor = search.cursor, s.end = search.end,
             s.floor = search.floor, s.found = search.found, search.issues \subseteq s.issues,
             search.logs \cup search.decoded \subseteq s.logs \cup s.decoded \cup s.issues,
             UNCHANGED <<aaveHead, aaveEvents, aaveState, passed, reported, unreported,
                         aaveTorn, aaveKills>>
      PROVE  AaveInv'
  <2>1. RunKeepsWhatItPassed(s)
    BY <1>1, <1>4 DEF AaveInv, RunKeepsWhatItPassed
  <2>2. ChunkIsHeld(s)
    BY <1>1, <1>4 DEF AaveInv, ChunkIsHeld
  <2>3. aaveEvents \subseteq s.found
    BY <1>1, <1>4 DEF AaveInv, BronzeBeforeCheckpoint
  <2> QED
    BY <1>1, <1>4, <2>1, <2>2, <2>3, RunStep
<1>5. CASE DecodeLog
           /\ ScanStep([search EXCEPT !.requests = @ + 1, !.logs = @ \ {NextLog},
                                      !.decoded = @ \cup {NextLog}])
  <2> DEFINE s == [search EXCEPT !.requests = @ + 1, !.logs = @ \ {NextLog},
                                 !.decoded = @ \cup {NextLog}]
  <2>1. s \in Searches
    BY <1>1, <1>2, <1>3, <1>5 DEF Searches
  <2>2. /\ s.step = "decode" /\ s.next = search.next /\ s.cursor = search.cursor
        /\ s.end = search.end /\ s.floor = search.floor /\ s.found = search.found
        /\ s.issues = search.issues /\ s.logs = search.logs \ {NextLog}
        /\ s.decoded = search.decoded \cup {NextLog}
    BY <1>1 DEF Searches
  <2> HIDE DEF s
  <2>3. search.logs \cup search.decoded \subseteq s.logs \cup s.decoded \cup s.issues
    BY <2>2
  <2> QED
    BY <1>4, <1>5, <2>1, <2>2, <2>3 DEF ScanStep, s
<1>6. ASSUME NEW n \in 1 .. MaxRequests + LogAttempts,
             ScanStep([search EXCEPT !.requests = n, !.logs = @ \ {NextLog},
                                     !.issues = @ \cup {NextLog}])
      PROVE  AaveInv'
  <2> DEFINE s == [search EXCEPT !.requests = n, !.logs = @ \ {NextLog},
                                 !.issues = @ \cup {NextLog}]
  <2>1. s \in Searches
    BY <1>1, <1>2, <1>3 DEF Searches
  <2>2. /\ s.step = "decode" /\ s.next = search.next /\ s.cursor = search.cursor
        /\ s.end = search.end /\ s.floor = search.floor /\ s.found = search.found
        /\ s.issues = search.issues \cup {NextLog} /\ s.logs = search.logs \ {NextLog}
        /\ s.decoded = search.decoded
    BY <1>1 DEF Searches
  <2> HIDE DEF s
  <2>3. search.logs \cup search.decoded \subseteq s.logs \cup s.decoded \cup s.issues
    BY <2>2
  <2> QED
    BY <1>4, <1>6, <2>1, <2>2, <2>3 DEF ScanStep, s
<1>7. CASE RefuseLog
  <2>1. /\ search.requests \in 1 .. MaxRequests + LogAttempts
        /\ [search EXCEPT !.requests = search.requests, !.logs = @ \ {NextLog},
                          !.issues = @ \cup {NextLog}]
             = [search EXCEPT !.logs = @ \ {NextLog}, !.issues = @ \cup {NextLog}]
    BY <1>1 DEF Searches
  <2> QED
    BY <1>6, <1>7, <2>1 DEF RefuseLog
<1>8. CASE DecodeLog /\ ScanStep([search EXCEPT !.requests = @ + 1, !.logs = @ \ {NextLog},
                                               !.issues = @ \cup {NextLog}])
  BY <1>3, <1>6, <1>8
<1> QED
  BY <1>5, <1>7, <1>8 DEF DecodeLog

LEMMA CutStep == ASSUME AaveInv, CutChunk PROVE AaveInv'
<1>1. search \in Searches /\ search.step = "decode"
  BY SearchHasType DEF CutChunk, AaveInv
<1> DEFINE s == [search EXCEPT !.step = "events", !.found = @ \cup search.decoded,
                               !.logs = {}, !.decoded = {}]
<1>2. search' = s
  BY DEF CutChunk, ScanStep
<1>3. s \in Searches
  BY <1>1 DEF Searches
<1>4. /\ s.step = "events" /\ s.next = search.next /\ s.end = search.end
      /\ search.found \subseteq s.found /\ search.issues = s.issues
  BY <1>1 DEF Searches
<1> HIDE DEF s
<1>5. RunKeepsWhatItPassed(s) /\ ChunkIsHeld(s)
  BY <1>1, <1>4 DEF AaveInv, RunKeepsWhatItPassed, ChunkIsHeld
<1>6. aaveEvents \subseteq s.found
  BY <1>1, <1>4 DEF AaveInv, BronzeBeforeCheckpoint
<1> QED
  BY <1>1, <1>2, <1>3, <1>4, <1>5, <1>6, RunStep DEF CutChunk, ScanStep

LEMMA CloseStep == ASSUME AaveInv, CloseChunk PROVE AaveInv'
<1>1. search \in Searches /\ search.step = "decode" /\ search.logs = {}
  BY SearchHasType DEF CloseChunk, AaveInv
<1> DEFINE s == [search EXCEPT !.step = "scan", !.found = @ \cup search.decoded,
                               !.decoded = {}, !.next = ChunkStart - 1,
                               !.cursor = ChunkStart - 1]
<1>2. search' = s
  BY DEF CloseChunk, ScanStep
<1>3. ChunkStart - 1 \in -1 .. MaxBlock /\ ChunkStart \in Blocks
  BY <1>1, ChunkBounds DEF ChunkStart
<1>4. s \in Searches
  BY <1>1, <1>3 DEF Searches
<1>5. /\ s.step = "scan" /\ s.next = ChunkStart - 1 /\ s.cursor = ChunkStart - 1
      /\ s.end = search.end /\ s.found = search.found \cup search.decoded
      /\ s.issues = search.issues
  BY <1>1 DEF Searches
<1> HIDE DEF s
<1>6. RunKeepsWhatItPassed(s)
  <2>1. EventBlocks \cap (ChunkStart .. search.cursor) \subseteq search.decoded \cup search.issues
    BY <1>1 DEF AaveInv, ChunkIsHeld, ChunkStart
  <2>2. (search.cursor + 1 .. search.end) \cap EventBlocks \subseteq search.found \cup search.issues
    BY <1>1 DEF AaveInv, ChunkIsHeld, RunKeepsWhatItPassed
  <2>3. search.cursor \in Int /\ search.end \in Int /\ ChunkStart \in Int
    BY <1>1, <1>3 DEF Searches, Blocks
  <2>4. ASSUME NEW b \in (s.next + 1 .. s.end) \cap EventBlocks
        PROVE  b \in s.found \cup s.issues
    <3>1. b \in Int /\ ChunkStart <= b /\ b <= search.end
      BY <1>5, <2>3
    <3>2. CASE b <= search.cursor
      BY <1>5, <2>1, <2>3, <3>1, <3>2
    <3>3. CASE search.cursor < b
      BY <1>5, <2>2, <2>3, <3>1, <3>3
    <3> QED
      BY <2>3, <3>1, <3>2, <3>3
  <2> QED
    BY <2>4 DEF RunKeepsWhatItPassed
<1>7. ChunkIsHeld(s)
  BY <1>5 DEF ChunkIsHeld
<1>8. aaveEvents \subseteq s.found
  BY <1>1, <1>5 DEF AaveInv, BronzeBeforeCheckpoint
<1> QED
  BY <1>1, <1>2, <1>4, <1>5, <1>6, <1>7, <1>8, RunStep DEF CloseChunk, ScanStep

LEMMA StopStep == ASSUME AaveInv, StopScan PROVE AaveInv'
<1>1. search \in Searches /\ search.step = "scan"
  BY SearchHasType DEF StopScan, AaveInv
<1> DEFINE s == [search EXCEPT !.step = "events"]
<1>2. search' = s
  BY DEF StopScan, ScanStep
<1>3. s \in Searches
  BY <1>1 DEF Searches
<1>4. /\ s.step = "events" /\ s.next = search.next /\ s.end = search.end
      /\ search.found = s.found /\ search.issues = s.issues
  BY <1>1 DEF Searches
<1> HIDE DEF s
<1>5. RunKeepsWhatItPassed(s) /\ ChunkIsHeld(s)
  BY <1>1, <1>4 DEF AaveInv, RunKeepsWhatItPassed, ChunkIsHeld
<1>6. aaveEvents \subseteq s.found
  BY <1>1, <1>4 DEF AaveInv, BronzeBeforeCheckpoint
<1> QED
  BY <1>1, <1>2, <1>3, <1>4, <1>5, <1>6, RunStep DEF StopScan, ScanStep

LEMMA SaveEventsStep == ASSUME AaveInv, SaveEvents PROVE AaveInv'
<1>1. search \in Searches /\ search.step = "events"
  BY SearchHasType DEF SaveEvents, AaveInv
<1> DEFINE s == [search EXCEPT !.step = "state"]
<1>2. search' = s /\ aaveEvents' = search.found
  BY DEF SaveEvents
<1>3. s \in Searches /\ search.found \subseteq EventBlocks
  BY <1>1 DEF Searches
<1>4. /\ s.step = "state" /\ s.next = search.next /\ s.end = search.end
      /\ search.issues = s.issues
  BY <1>1 DEF Searches
<1> HIDE DEF s
<1>5. RunKeepsWhatItPassed(s) /\ ChunkIsHeld(s)
  BY <1>4 DEF RunKeepsWhatItPassed, ChunkIsHeld
<1>6. AaveTyping'
  BY <1>2, <1>3 DEF SaveEvents, AaveInv, AaveTyping
<1>7. BronzeBeforeCheckpoint'
  BY <1>1, <1>2, <1>4 DEF AaveInv, RunKeepsWhatItPassed, BronzeBeforeCheckpoint
<1>8. Accounted'
  <2>1. aaveEvents \subseteq aaveEvents'
    BY <1>1, <1>2 DEF AaveInv, BronzeBeforeCheckpoint
  <2> QED
    BY <1>1, <1>2, <1>4, <2>1 DEF SaveEvents, AaveInv, Accounted
<1> QED
  BY <1>2, <1>5, <1>6, <1>7, <1>8 DEF AaveInv, RunKeepsWhatItPassed, ChunkIsHeld

LEMMA SaveCheckpointStep == ASSUME AaveInv, SaveCheckpoint PROVE AaveInv'
<1>1. search \in Searches /\ search.step = "state"
  BY SearchHasType DEF SaveCheckpoint, AaveInv
<1> DEFINE s == [search EXCEPT !.step = "issues"]
<1>2. search' = s /\ passed' = passed \cup (search.next + 1 .. search.end)
  BY DEF SaveCheckpoint
<1>3. s \in Searches
  BY <1>1 DEF Searches
<1>4. s.step = "issues" /\ search.issues = s.issues
  BY <1>1 DEF Searches
<1> HIDE DEF s
<1>5. RunKeepsWhatItPassed(s) /\ ChunkIsHeld(s)
  BY <1>4 DEF RunKeepsWhatItPassed, ChunkIsHeld
<1>6. AaveTyping'
  <2>1. search.next \in -1 .. MaxBlock
    BY <1>1 DEF Searches
  <2>2. aaveState' \in {NoCheckpoint, NoRow} \cup -1 .. MaxBlock
    BY <2>1 DEF SaveCheckpoint, PreserveCheckpoint, Smaller, AaveInv, AaveTyping
  <2> QED
    BY <1>2, <1>3, <2>2 DEF SaveCheckpoint, AaveInv, AaveTyping
<1>7. BronzeBeforeCheckpoint'
  BY <1>2, <1>4 DEF BronzeBeforeCheckpoint
<1>8. Accounted'
  <2>1. (search.next + 1 .. search.end) \cap EventBlocks \subseteq aaveEvents \cup search.issues
    BY <1>1 DEF AaveInv, BronzeBeforeCheckpoint
  <2>2. ~aaveTorn => passed \cap EventBlocks \subseteq aaveEvents \cup reported \cup unreported
    BY <1>1 DEF AaveInv, Accounted
  <2> QED
    BY <1>2, <1>4, <2>1, <2>2 DEF SaveCheckpoint, Accounted
<1> QED
  BY <1>2, <1>5, <1>6, <1>7, <1>8 DEF AaveInv, RunKeepsWhatItPassed, ChunkIsHeld

\* No run in progress: nothing to hold.
LEMMA NoSearchHolds ==
  ASSUME search' = NoSearch
  PROVE  /\ RunKeepsWhatItPassed(search') /\ ChunkIsHeld(search')
         /\ BronzeBeforeCheckpoint'
BY DEF NoSearch, RunKeepsWhatItPassed, ChunkIsHeld, BronzeBeforeCheckpoint

LEMMA SaveIssuesStep == ASSUME AaveInv, SaveIssues PROVE AaveInv'
<1>1. AaveTyping'
  BY DEF SaveIssues, AaveInv, AaveTyping
<1>2. Accounted'
  BY DEF SaveIssues, AaveInv, Accounted, NoSearch
<1> QED
  BY <1>1, <1>2, NoSearchHolds DEF SaveIssues, AaveInv, RunKeepsWhatItPassed, ChunkIsHeld

LEMMA KillSearchStep == ASSUME AaveInv, KillSearch PROVE AaveInv'
<1>1. /\ aaveEvents' \subseteq EventBlocks
      /\ aaveState' \in {aaveState, NoCheckpoint, NoRow}
      /\ ~aaveTorn' => ~aaveTorn /\ aaveEvents \subseteq aaveEvents'
  <2>1. search \in Searches /\ aaveEvents \subseteq EventBlocks
    BY SearchHasType DEF KillSearch, AaveInv, AaveTyping
  <2> QED
    BY <2>1 DEF KillSearch, TornEvents, TornState, Searches
<1>2. AaveTyping'
  BY <1>1, AaveAssumed DEF KillSearch, AaveInv, AaveTyping, AaveAssumptions
<1>3. Accounted'
  <2>1. CASE search.step = "issues"
    BY <1>1, <2>1 DEF KillSearch, AaveInv, Accounted, NoSearch
  <2>2. CASE search.step # "issues"
    BY <1>1, <2>2 DEF KillSearch, AaveInv, Accounted, NoSearch
  <2> QED
    BY <2>1, <2>2
<1> QED
  BY <1>2, <1>3, NoSearchHolds DEF KillSearch, AaveInv, RunKeepsWhatItPassed, ChunkIsHeld

LEMMA AaveInductive == AaveInv /\ [AaveNext]_aaveVars => AaveInv'
<1> SUFFICES ASSUME AaveInv, [AaveNext]_aaveVars PROVE AaveInv'
  OBVIOUS
<1>1. CASE ResumeSearch
  <2>1. (IF aaveState = NoCheckpoint THEN aaveHead ELSE aaveState) \in Int
    BY DEF AaveInv, AaveTyping, Blocks, NoCheckpoint, NoRow
  <2> QED
    BY <1>1, <2>1, StartStep, AaveAssumed DEF ResumeSearch, AaveAssumptions
<1>2. ASSUME NEW start \in Blocks, NEW end \in Blocks, RequestWindow(start, end)
      PROVE  AaveInv'
  <2>1. end - start + 1 \in Nat \ {0} /\ end \in Int
    BY <1>2 DEF RequestWindow, ValidWindow, Blocks
  <2> QED
    BY <1>2, <2>1, StartStep DEF RequestWindow
<1>3. CASE AaveNewBlock
  <2>1. AaveTyping'
    BY <1>3, AaveAssumed DEF AaveNewBlock, AaveInv, AaveTyping, Blocks, AaveAssumptions
  <2>2. BronzeBeforeCheckpoint' /\ Accounted'
    BY <1>3 DEF AaveNewBlock, AaveInv, BronzeBeforeCheckpoint, Accounted
  <2> QED
    BY <1>3, <2>1, <2>2 DEF AaveNewBlock, AaveInv, RunKeepsWhatItPassed, ChunkIsHeld
<1>4. CASE UNCHANGED aaveVars
  <2>1. AaveTyping'
    BY <1>4 DEF aaveVars, AaveInv, AaveTyping
  <2>2. BronzeBeforeCheckpoint' /\ Accounted'
    BY <1>4 DEF aaveVars, AaveInv, BronzeBeforeCheckpoint, Accounted
  <2> QED
    BY <1>4, <2>1, <2>2 DEF aaveVars, AaveInv, RunKeepsWhatItPassed, ChunkIsHeld
<1> QED
  BY <1>1, <1>2, <1>3, <1>4, FetchStep, ChunkFailsStep, DecodeStep, CutStep, CloseStep,
     StopStep, SaveEventsStep, SaveCheckpointStep, SaveIssuesStep, KillSearchStep
     DEF AaveNext

\* No event between the runs is lost (run_aave_v3.py:92-100): whatever the chunk size, the
\* windows, the targets, the budget and the number of kills, a block that some run's own
\* position went past has its event in Bronze or in a quarantine.
THEOREM PassedBlocksAreAccountedFor == AaveSpec => []PassedIsAccountedFor
<1>1. AaveInv => PassedIsAccountedFor
  BY DEF AaveInv, Accounted, PassedIsAccountedFor
<1> QED
  BY <1>1, AaveInitially, AaveInductive, PTL DEF AaveSpec

\* The checkpoint of the backwards scan only descends (aave_v3.py:340-346): every run,
\* the orchestrated ones that start above it too, leaves it where it was or lower.
THEOREM AaveCheckpointDescends == AaveSpec => CheckpointDescends
<1>1. ASSUME AaveInv, [AaveNext]_aaveVars, aaveState # NoCheckpoint
      PROVE  aaveState' <= aaveState
  <2>1. aaveState \in Int /\ NoRow <= aaveState
    BY <1>1 DEF AaveInv, AaveTyping, NoRow
  <2>2. CASE SaveCheckpoint
    <3>1. search.next \in Int
      BY <1>1, <2>2, SearchHasType DEF SaveCheckpoint, AaveInv, Searches
    <3> QED
      BY <1>1, <2>1, <2>2, <3>1 DEF SaveCheckpoint, PreserveCheckpoint, Smaller
  <2>3. CASE KillSearch
    <3>1. aaveState' \in {aaveState, NoCheckpoint, NoRow}
      BY <2>3 DEF KillSearch, TornState
    <3> QED
      BY <2>1, <3>1 DEF NoCheckpoint, NoRow
  <2>4. aaveState' = aaveState => aaveState' <= aaveState
    BY <2>1
  <2> QED
    BY <1>1, <2>2, <2>3, <2>4
       DEF AaveNext, ResumeSearch, RequestWindow, StartSearch, FetchChunk, ChunkFails,
           DecodeLog, RefuseLog, CutChunk, CloseChunk, StopScan, ScanStep, SaveEvents, SaveIssues,
           AaveNewBlock, aaveVars
<1>2. AaveInv /\ [AaveNext]_aaveVars
        => [aaveState # NoCheckpoint => aaveState' <= aaveState]_aaveVars
  BY <1>1
<1> QED
  BY <1>2, AaveInitially, AaveInductive, PTL DEF AaveSpec, CheckpointDescends

-------------------------------------------------------------------------------
(***************************************************************************)
(* The bounded Chainlink backfill beside the bootstrap batches             *)
(***************************************************************************)

RoundsAssumptions ==
  /\ MaxPhase \in Nat \ {0} /\ MaxRound \in Nat \ {0} /\ MaxTip \in Nat \ {0}
  /\ Malformed \subseteq Rounds /\ Frozen \subseteq Rounds
  /\ MaxTargets \in Nat \ {0} /\ BatchSize \in Nat \ {0}
  /\ Overlaps \subseteq Nat /\ MaxRoundKills \in Nat

LEMMA RoundsAssumed == RoundsAssumptions
BY MaxPhaseAssumption, MaxRoundAssumption, MaxTipAssumption, MalformedAssumption,
   FrozenAssumption, MaxTargetsAssumption, BatchSizeAssumption, OverlapsAssumption,
   MaxRoundKillsAssumption DEF RoundsAssumptions

LEMMA RoundIs ==
  ASSUME NEW r \in Rounds
  PROVE  /\ r = <<r[1], r[2]>> /\ r[1] \in Phases /\ r[1] \in Nat
         /\ r[2] \in 1 .. MaxRound /\ r[2] \in Nat
BY RoundsAssumed DEF RoundsAssumptions, Rounds, Phases

LEMMA RoundsAreFinite == IsFiniteSet(Rounds)
<1>1. IsFiniteSet(Phases) /\ IsFiniteSet(1 .. MaxRound)
  BY RoundsAssumed, FS_Interval DEF RoundsAssumptions, Phases
<1> QED
  BY <1>1, FS_Product DEF Rounds

\* The least of a set of integers that something bounds from below.
LEMMA SmallestIs ==
  ASSUME NEW S, S \subseteq Int, S # {}, NEW low \in Int, \A k \in S : low <= k
  PROVE  Smallest(S) \in S /\ \A k \in S : Smallest(S) <= k
<1> DEFINE D == {k - low : k \in S}
<1>1. D \subseteq Nat /\ D # {}
  <2>1. \A k \in S : k \in Int /\ k - low \in Nat
    OBVIOUS
  <2> QED
    BY <2>1
<1>2. PICK d \in D : \A e \in D : d <= e
  BY <1>1, LeastElement
<1>3. PICK m \in S : d = m - low
  OBVIOUS
<1>4. \A k \in S : m <= k
  <2> TAKE k \in S
  <2>1. k - low \in D
    OBVIOUS
  <2>2. m - low <= k - low
    BY <1>2, <1>3, <2>1
  <2>3. k \in Int /\ m \in Int
    OBVIOUS
  <2> QED
    BY <2>2, <2>3
<1> QED
  BY <1>4 DEF Smallest

LEMMA LargestIs ==
  ASSUME NEW n \in Nat, NEW S, S \subseteq 0 .. n, S # {}
  PROVE  Largest(S) \in S /\ \A k \in S : k <= Largest(S)
<1>1. PICK m \in S : \A k \in S : k <= m
  BY GreatestElement
<1>2. m \in S /\ \A k \in S : m >= k
  BY <1>1
<1>3. Largest(S) \in S /\ \A k \in S : Largest(S) >= k
  BY <1>2 DEF Largest
<1> QED
  BY <1>3

LEMMA OfPhaseIs ==
  ASSUME NEW S, S \subseteq Rounds, NEW p \in Phases
  PROVE  /\ OfPhase(S, p) \subseteq 1 .. MaxRound
         /\ \A k \in OfPhase(S, p) : <<p, k>> \in S
         /\ \A r \in S : r[1] = p => r[2] \in OfPhase(S, p)
<1>1. \A r \in S : r = <<r[1], r[2]>> /\ r[2] \in 1 .. MaxRound
  BY RoundIs
<1> QED
  BY <1>1 DEF OfPhase

\* The feed reaches each of its phases by its first round, so a phase below the latest one
\* has a latest round.
LEMMA PhasesAreVisited ==
  ASSUME NEW f \in Feeds, NEW to \in 1 .. MaxTip, NEW p \in Phases, p < f[to][1]
  PROVE  \E b \in 1 .. MaxTip : f[b][1] = p
<1>1. /\ f \in [1 .. MaxTip -> Rounds] /\ f[1] = <<1, 1>>
      /\ \A b \in 2 .. MaxTip : Follows(f[b - 1], f[b])
  BY DEF Feeds
<1>2. MaxTip \in Nat /\ p \in Nat \ {0}
  BY RoundsAssumed DEF RoundsAssumptions, Phases
<1> DEFINE S == {c \in 1 .. MaxTip : p < f[c][1]}
<1>3. S \subseteq Nat /\ to \in S
  OBVIOUS
<1>4. PICK c \in S : \A k \in S : c <= k
  BY <1>3, LeastElement
<1>5. c \in 1 .. MaxTip /\ p < f[c][1] /\ f[c] \in Rounds
  BY <1>1
<1>6. c # 1
  <2>1. f[1][1] = 1
    BY <1>1
  <2> QED
    BY <1>2, <1>5, <2>1
<1>7. c - 1 \in 1 .. MaxTip /\ c \in 2 .. MaxTip
  BY <1>2, <1>5, <1>6
<1> DEFINE d == c - 1
<1>8. d \in 1 .. MaxTip /\ d \notin S /\ Follows(f[d], f[c])
  BY <1>1, <1>2, <1>4, <1>7
<1> HIDE DEF d, S
<1>9. f[d] \in Rounds /\ ~(p < f[d][1])
  BY <1>1, <1>8 DEF S
<1>10. f[d][1] \in Nat /\ f[c][1] \in Nat
  BY <1>5, <1>9, RoundIs
<1>11. f[c][1] = f[d][1] \/ f[c][1] = f[d][1] + 1
  BY <1>8 DEF Follows
<1>12. f[d][1] = p
  BY <1>2, <1>5, <1>9, <1>10, <1>11
<1> QED
  BY <1>8, <1>12

LEMMA DiscoveredIs ==
  ASSUME roundAt \in Feeds, NEW to \in 1 .. MaxTip, NEW p \in Phases
  PROVE  Discovered(to)[p] \in 0 .. MaxRound
<1>1. roundAt \in [1 .. MaxTip -> Rounds] /\ MaxRound \in Nat
  BY RoundsAssumed DEF Feeds, RoundsAssumptions
<1>2. roundAt[to][2] \in 0 .. MaxRound
  BY <1>1, RoundIs
<1>3. CASE p < roundAt[to][1]
  <2> DEFINE S == {roundAt[b][2] : b \in {c \in 1 .. MaxTip : roundAt[c][1] = p}}
  <2>1. S \subseteq 0 .. MaxRound
    <3>1. \A b \in 1 .. MaxTip : roundAt[b][2] \in 0 .. MaxRound
      BY <1>1, RoundIs
    <3> QED
      BY <3>1
  <2>2. S # {}
    <3>1. PICK b \in 1 .. MaxTip : roundAt[b][1] = p
      BY <1>3, PhasesAreVisited
    <3> QED
      BY <3>1
  <2>3. Largest(S) \in S
    <3> HIDE DEF S
    <3> QED
      BY <1>1, <2>1, <2>2, LargestIs
  <2>4. Discovered(to)[p] = Largest(S)
    BY <1>3 DEF Discovered, PhaseLatest
  <2> HIDE DEF S
  <2> QED
    BY <2>1, <2>3, <2>4
<1>4. CASE ~(p < roundAt[to][1])
  BY <1>1, <1>2, <1>4 DEF Discovered
<1> QED
  BY <1>3, <1>4

\* What a plan reads of the datasets.
PlanTyping ==
  /\ roundAt \in Feeds
  /\ rounds \subseteq Rounds /\ retryable \subseteq Rounds
  /\ checkpoints \in States

\* A phase resumes at its checkpoint or before it.
LEMMA ResumeIs ==
  ASSUME PlanTyping, NEW overlap \in Nat, NEW p \in Phases
  PROVE  /\ ResumeAt(p, overlap) \in 1 .. MaxRound + 1
         /\ ResumeAt(p, overlap) = 1 \/ ResumeAt(p, overlap) <= checkpoints.next[p]
<1> DEFINE n == checkpoints.next[p]
           S == Stuck(p) \cup {n, n - overlap}
<1>1. n \in 0 .. MaxRound + 1 /\ MaxRound \in Nat
  BY RoundsAssumed DEF RoundsAssumptions, PlanTyping, States
<1> HIDE DEF n
<1>2. Stuck(p) \subseteq 1 .. MaxRound
  BY RoundIs DEF Stuck, PlanTyping
<1>3. S \subseteq Int /\ n \in S /\ n - overlap \in Int /\ \A k \in S : n - overlap <= k \/ 1 <= k
  BY <1>1, <1>2
<1>4. \E low \in Int : \A k \in S : low <= k
  <2>1. CASE n - overlap <= 1
    BY <1>3, <2>1
  <2>2. CASE 1 <= n - overlap
    BY <1>3, <2>2
  <2> QED
    BY <1>3, <2>1, <2>2
<1>5. Smallest(S) \in S /\ \A k \in S : Smallest(S) <= k
  <2> HIDE DEF S
  <2> QED
    BY <1>3, <1>4, SmallestIs
<1>6. Smallest(S) \in Int /\ Smallest(S) <= n
  BY <1>3, <1>5
<1>7. ResumeAt(p, overlap) = IF n = 0 THEN 1
                             ELSE IF Smallest(S) < 1 THEN 1 ELSE Smallest(S)
  BY DEF ResumeAt, n
<1> HIDE DEF S
<1> QED
  BY <1>1, <1>6, <1>7 DEF n

LEMMA AheadIs ==
  ASSUME PlanTyping, NEW to \in 1 .. MaxTip, NEW overlap \in Nat
  PROVE  /\ Ahead(to, overlap) \subseteq Rounds
         /\ \A r \in Rounds : r \in Ahead(to, overlap) <=>
              ResumeAt(r[1], overlap) <= r[2] /\ r[2] <= Discovered(to)[r[1]]
<1>1. \A p \in Phases : /\ Discovered(to)[p] \in 0 .. MaxRound
                        /\ ResumeAt(p, overlap) \in 1 .. MaxRound + 1
  BY DiscoveredIs, ResumeIs DEF PlanTyping
<1>2. MaxRound \in Nat
  BY RoundsAssumed DEF RoundsAssumptions
<1>3. \A r : r \in Ahead(to, overlap) <=>
               \E p \in Phases : r \in {p} \X (ResumeAt(p, overlap) .. Discovered(to)[p])
  BY DEF Ahead
<1>4. ASSUME NEW r \in Ahead(to, overlap) PROVE r \in Rounds
  <2>1. PICK p \in Phases : r \in {p} \X (ResumeAt(p, overlap) .. Discovered(to)[p])
    BY <1>3, <1>4
  <2> QED
    BY <1>1, <1>2, <2>1 DEF Rounds
<1>5. ASSUME NEW r \in Rounds
      PROVE  r \in Ahead(to, overlap) <=>
               ResumeAt(r[1], overlap) <= r[2] /\ r[2] <= Discovered(to)[r[1]]
  <2>1. r = <<r[1], r[2]>> /\ r[1] \in Phases /\ r[2] \in Nat
    BY RoundIs
  <2>2. ASSUME r \in Ahead(to, overlap)
        PROVE  ResumeAt(r[1], overlap) <= r[2] /\ r[2] <= Discovered(to)[r[1]]
    <3>1. PICK p \in Phases : r \in {p} \X (ResumeAt(p, overlap) .. Discovered(to)[p])
      BY <1>3, <2>2
    <3> QED
      BY <1>1, <3>1
  <2>3. ASSUME ResumeAt(r[1], overlap) <= r[2], r[2] <= Discovered(to)[r[1]]
        PROVE  r \in Ahead(to, overlap)
    <3>1. r[2] \in ResumeAt(r[1], overlap) .. Discovered(to)[r[1]]
      BY <1>1, <2>1, <2>3
    <3>2. r \in {r[1]} \X (ResumeAt(r[1], overlap) .. Discovered(to)[r[1]])
      BY <2>1, <3>1
    <3> QED
      BY <1>3, <2>1, <3>2
  <2> QED
    BY <2>2, <2>3
<1> QED
  BY <1>4, <1>5

\* The budget cuts a plan at one point: with a round it asks for every round of the same
\* phase from the resumption on.
LEMMA TargetsAreClosed ==
  ASSUME PlanTyping, NEW to \in 1 .. MaxTip, NEW overlap \in Nat,
         NEW t \in Targets(to, overlap), NEW r \in Rounds, r[1] = t[1], r[2] <= t[2],
         ResumeAt(r[1], overlap) <= r[2]
  PROVE  r \in Targets(to, overlap)
<1> DEFINE ahead == Ahead(to, overlap)
           before(x) == {q \in ahead : Before(q, x)}
<1>1. t \in ahead /\ Cardinality(before(t)) < MaxTargets /\ ahead \subseteq Rounds
  BY AheadIs DEF Targets
<1>2. r \in ahead
  <2>1. t \in Rounds /\ t[2] <= Discovered(to)[t[1]]
    BY <1>1, AheadIs
  <2>2. Discovered(to)[t[1]] \in 0 .. MaxRound
    BY <2>1, RoundIs, DiscoveredIs DEF PlanTyping
  <2>3. r[2] <= Discovered(to)[r[1]]
    BY <2>1, <2>2, RoundIs
  <2> QED
    BY <2>3, AheadIs
<1> HIDE DEF ahead
<1>3. before(r) \subseteq before(t)
  <2> SUFFICES ASSUME NEW q \in ahead, Before(q, r) PROVE Before(q, t)
    OBVIOUS
  <2>1. q \in Rounds /\ t \in Rounds
    BY <1>1
  <2>2. q[1] \in Nat /\ q[2] \in Nat /\ r[1] \in Nat /\ r[2] \in Nat /\ t[2] \in Nat
    BY <2>1, RoundIs
  <2> QED
    BY <2>2 DEF Before
<1>4. IsFiniteSet(before(t)) /\ IsFiniteSet(before(r))
  BY <1>1, RoundsAreFinite, FS_Subset
<1>5. Cardinality(before(r)) <= Cardinality(before(t))
  BY <1>3, <1>4, FS_Subset
<1>6. Cardinality(before(r)) \in Nat /\ Cardinality(before(t)) \in Nat
  BY <1>4, FS_CardinalityType
<1>7. Cardinality(before(r)) < MaxTargets
  <2> HIDE DEF before
  <2> QED
    BY <1>1, <1>5, <1>6, RoundsAssumed DEF RoundsAssumptions
<1> QED
  BY <1>2, <1>7 DEF Targets, ahead

\* What a run leaves as a phase's checkpoint: behind it is only what it asked for or what
\* was behind the old one, and no failure of its own that is not stored.
LEMMA NextIsSound ==
  ASSUME PlanTyping, NEW to \in 1 .. MaxTip, NEW overlap \in Nat, NEW p \in Phases,
         NEW failed, failed \subseteq Targets(to, overlap)
  PROVE  LET asked == Targets(to, overlap)
             n     == NextRound(p, asked, failed, ResumeAt(p, overlap))
         IN  /\ n \in 1 .. MaxRound + 1
             /\ \A r \in Rounds : r[1] = p /\ r[2] < n =>
                  r[2] < checkpoints.next[p] \/ r \in asked
             /\ \A r \in failed \ rounds : r[1] = p => n <= r[2]
<1> DEFINE asked == Targets(to, overlap)
           resume == ResumeAt(p, overlap)
           n == NextRound(p, asked, failed, resume)
           F == OfPhase(failed \ rounds, p)
           A == OfPhase(asked, p)
<1>1. asked \subseteq Rounds
  BY AheadIs DEF Targets
<1>2. MaxRound \in Nat
  BY RoundsAssumed DEF RoundsAssumptions
<1>3. /\ F \subseteq 1 .. MaxRound /\ \A k \in F : <<p, k>> \in failed \ rounds
      /\ \A r \in failed \ rounds : r[1] = p => r[2] \in F
  <2> HIDE DEF asked
  <2>1. failed \ rounds \subseteq Rounds
    BY <1>1 DEF asked
  <2> QED
    BY <2>1, OfPhaseIs
<1>4. /\ A \subseteq 1 .. MaxRound /\ \A k \in A : <<p, k>> \in asked
      /\ \A r \in asked : r[1] = p => r[2] \in A
  <2> HIDE DEF asked
  <2> QED
    BY <1>1, OfPhaseIs
<1>5. resume \in 1 .. MaxRound + 1 /\ (resume = 1 \/ resume <= checkpoints.next[p])
  BY ResumeIs
<1>6. checkpoints.next[p] \in 0 .. MaxRound + 1
  BY DEF PlanTyping, States
<1>7. n = IF F # {} THEN Smallest(F) ELSE IF A # {} THEN Largest(A) + 1 ELSE resume
  BY DEF NextRound
<1>8. failed \subseteq asked
  OBVIOUS
<1>9. \A t \in asked, r \in Rounds :
        r[1] = t[1] /\ r[2] <= t[2] /\ ResumeAt(r[1], overlap) <= r[2] => r \in asked
  BY TargetsAreClosed
<1> HIDE DEF asked, n, F, A
<1>10. ASSUME NEW t \in asked, t[1] = p, NEW r \in Rounds, r[1] = p, r[2] <= t[2]
       PROVE  r[2] < checkpoints.next[p] \/ r \in asked
  <2>1. r[2] \in Nat /\ 1 <= r[2]
    BY RoundIs
  <2>2. CASE resume <= r[2]
    BY <1>9, <1>10, <2>2
  <2>3. CASE r[2] < resume
    BY <1>2, <1>5, <1>6, <2>1, <2>3
  <2> HIDE DEF resume
  <2> QED
    BY <1>2, <1>5, <2>1, <2>2, <2>3
<1>11. CASE F # {}
  <2>1. Smallest(F) \in F /\ \A k \in F : Smallest(F) <= k
    <3>1. F \subseteq Int /\ (\A k \in F : 1 <= k) /\ F # {} /\ 1 \in Int
      BY <1>3, <1>11
    <3> QED
      BY <3>1, SmallestIs
  <2>2. n = Smallest(F)
    BY <1>7, <1>11
  <2>3. n \in 1 .. MaxRound + 1 /\ <<p, n>> \in asked /\ n \in Nat
    BY <1>2, <1>3, <1>8, <2>1, <2>2
  <2>4. ASSUME NEW r \in Rounds, r[1] = p, r[2] < n
        PROVE  r[2] < checkpoints.next[p] \/ r \in asked
    <3>1. PICK t \in asked : t[1] = p /\ t[2] = n
      BY <2>3
    <3>2. r[2] <= t[2]
      BY <2>3, <2>4, <3>1, RoundIs
    <3> QED
      BY <1>10, <2>4, <3>1, <3>2
  <2>5. \A r \in failed \ rounds : r[1] = p => n <= r[2]
    BY <1>3, <2>1, <2>2
  <2> QED
    BY <2>3, <2>4, <2>5 DEF n, asked
<1>12. CASE F = {} /\ A # {}
  <2>1. Largest(A) \in A /\ \A k \in A : k <= Largest(A)
    <3>1. A \subseteq 0 .. MaxRound
      BY <1>4
    <3> QED
      BY <1>2, <1>12, <3>1, LargestIs
  <2>2. n = Largest(A) + 1
    BY <1>7, <1>12
  <2>3. Largest(A) \in Nat /\ Largest(A) <= MaxRound /\ <<p, Largest(A)>> \in asked
    <3>1. Largest(A) \in 1 .. MaxRound /\ Largest(A) \in A
      BY <1>4, <2>1
    <3> QED
      BY <1>2, <1>4, <3>1
  <2>4. n \in 1 .. MaxRound + 1
    BY <1>2, <2>2, <2>3
  <2>5. ASSUME NEW r \in Rounds, r[1] = p, r[2] < n
        PROVE  r[2] < checkpoints.next[p] \/ r \in asked
    <3>1. PICK t \in asked : t[1] = p /\ t[2] = Largest(A)
      BY <2>3
    <3>2. r[2] <= t[2]
      BY <2>2, <2>3, <2>5, <3>1, RoundIs
    <3> QED
      BY <1>10, <2>5, <3>1, <3>2
  <2>6. \A r \in failed \ rounds : r[1] = p => n <= r[2]
    BY <1>3, <1>12
  <2> QED
    BY <2>4, <2>5, <2>6 DEF n, asked
<1>13. CASE F = {} /\ A = {}
  <2>1. n = resume
    BY <1>7, <1>13
  <2>2. ASSUME NEW r \in Rounds, r[1] = p, r[2] < n
        PROVE  r[2] < checkpoints.next[p]
    <3>1. r[2] \in Nat /\ 1 <= r[2]
      BY RoundIs
    <3> QED
      BY <1>2, <1>5, <1>6, <2>1, <2>2, <3>1
  <2>3. \A r \in failed \ rounds : r[1] = p => n <= r[2]
    BY <1>3, <1>13
  <2> QED
    BY <1>5, <2>1, <2>2, <2>3 DEF n, asked
<1> QED
  BY <1>11, <1>12, <1>13

Extractions ==
  [step : {"idle", "observations", "state", "issues"}, state : States, read : SUBSET Rounds,
   failed : SUBSET Rounds, refused : SUBSET Rounds, asked : SUBSET Rounds]

RoundsTyping ==
  /\ RoundsTypeOK /\ roundAt \in Feeds /\ transient \subseteq Rounds
  /\ extraction.failed \cap extraction.refused = {}
  /\ extraction.step = "idle" => extraction.failed = {} /\ extraction.refused = {}
  /\ extraction.step = "idle" \/ bootstrap.step = "idle"

\* Bronze, the quarantine, and the rows that were lost.
Kept == rounds \cup retryable \cup rejected \cup unrecorded

\* Behind a checkpoint every round is kept; the issues of the run in progress count only
\* once it has moved the checkpoint.
BehindIsKept ==
  ~roundsTorn =>
    \A r \in Rounds : r[2] < checkpoints.next[r[1]] =>
      r \in Kept \cup (IF extraction.step = "issues"
                       THEN extraction.failed \cup extraction.refused ELSE {})

\* Nor will the checkpoint a run is about to write pass a round it does not account for.
BehindNextIsKept ==
  ~roundsTorn /\ extraction.step \in {"observations", "state"} =>
    \A r \in Rounds : r[2] < extraction.state.next[r[1]] =>
      r \in Kept \cup extraction.failed \cup extraction.refused
              \cup (IF extraction.step = "observations" THEN extraction.read ELSE {})

\* What will be the rounds whose last answer was a transient failure.
NextTransient(e) == (transient \ e.asked) \cup e.failed

TransientHoldsNext ==
  ~roundsTorn /\ extraction.step \in {"observations", "state"} =>
    \A r \in NextTransient(extraction) \ rounds : extraction.state.next[r[1]] <= r[2]

RoundsInv ==
  /\ RoundsTyping
  /\ BehindIsKept
  /\ BehindNextIsKept
  /\ TransientHoldsCheckpoint
  /\ TransientHoldsNext

LEMMA NoStateHolds ==
  /\ NoState \in States /\ \A p \in Phases : NoState.next[p] = 0
  /\ NoExtraction \in Extractions /\ NoExtraction.step = "idle"
  /\ NoExtraction.failed = {} /\ NoExtraction.refused = {}
<1>1. 0 \in 0 .. MaxTip /\ 0 \in 0 .. MaxRound + 1
  BY RoundsAssumed DEF RoundsAssumptions
<1>2. NoState \in States /\ \A p \in Phases : NoState.next[p] = 0
  BY <1>1 DEF NoState, States
<1> QED
  BY <1>2 DEF NoExtraction, Extractions

LEMMA RoundsInitially == RoundsInit => RoundsInv
<1> SUFFICES ASSUME RoundsInit PROVE RoundsInv
  OBVIOUS
<1>1. RoundsTyping
  <2>1. RoundsTypeOK
    BY NoStateHolds, RoundsAssumed
       DEF RoundsInit, RoundsTypeOK, NoBootstrap, Extractions, RoundsAssumptions
  <2> QED
    BY <2>1, NoStateHolds DEF RoundsInit, RoundsTyping
<1>2. BehindIsKept
  <2>1. \A r \in Rounds : ~(r[2] < checkpoints.next[r[1]])
    <3> TAKE r \in Rounds
    <3>1. checkpoints.next[r[1]] = 0 /\ 1 <= r[2] /\ r[2] \in Nat
      BY NoStateHolds, RoundIs DEF RoundsInit
    <3> QED
      BY <3>1
  <2> QED
    BY <2>1 DEF BehindIsKept
<1>3. BehindNextIsKept /\ TransientHoldsNext
  BY NoStateHolds DEF RoundsInit, BehindNextIsKept, TransientHoldsNext
<1>4. TransientHoldsCheckpoint
  BY DEF RoundsInit, TransientHoldsCheckpoint
<1> QED
  BY <1>1, <1>2, <1>3, <1>4 DEF RoundsInv

\* The answers of a plan partition it.
LEMMA AnswersPartition ==
  ASSUME NEW targets, NEW answer \in Answers(targets)
  PROVE  LET Got(kind) == {r \in targets : answer[BatchOf(targets, r)] = kind}
         IN  /\ targets = Got("ok") \cup Got("retry") \cup Got("reject")
             /\ Got("retry") \cap Got("reject") = {}
<1> DEFINE B(r) == BatchOf(targets, r)
<1>1. answer \in [{B(r) : r \in targets} -> {"ok", "retry", "reject"}]
  BY DEF Answers
<1> HIDE DEF B
<1>2. \A r \in targets : answer[B(r)] \in {"ok", "retry", "reject"}
  BY <1>1
<1>3. \A r \in targets : answer[BatchOf(targets, r)] \in {"ok", "retry", "reject"}
  BY <1>2 DEF B
<1> QED
  BY <1>3

LEMMA ExtractStep ==
  ASSUME RoundsInv, NEW to \in 1 .. MaxTip, NEW overlap \in Overlaps, Extract(to, overlap)
  PROVE  RoundsInv'
<1> DEFINE targets == Targets(to, overlap)
           end == Discovered(to)
           Next(failed) == [p \in Phases |->
                              IF end[p] = 0 THEN 0
                              ELSE NextRound(p, targets, failed, ResumeAt(p, overlap))]
<1>1. PICK answer \in Answers(targets) :
        LET Got(kind) == {r \in targets : answer[BatchOf(targets, r)] = kind}
        IN  extraction' = [step |-> "observations", read |-> Got("ok"), failed |-> Got("retry"),
                           refused |-> Got("reject"), asked |-> targets,
                           state |-> [to |-> to, next |-> Next(Got("retry"))]]
  BY DEF Extract
<1> DEFINE read == {r \in targets : answer[BatchOf(targets, r)] = "ok"}
           failed == {r \in targets : answer[BatchOf(targets, r)] = "retry"}
           refused == {r \in targets : answer[BatchOf(targets, r)] = "reject"}
           next == Next(failed)
           state == [to |-> to, next |-> next]
           e == [step |-> "observations", read |-> read, failed |-> failed,
                 refused |-> refused, asked |-> targets, state |-> state]
<1>2. extraction' = e
  BY <1>1
<1>3. targets = read \cup failed \cup refused /\ failed \cap refused = {}
  BY AnswersPartition
<1>4. PlanTyping /\ overlap \in Nat /\ rounds \subseteq Rounds /\ transient \subseteq Rounds
  BY RoundsAssumed DEF RoundsAssumptions, RoundsInv, RoundsTyping, RoundsTypeOK, PlanTyping
<1>5. targets \subseteq Rounds
  BY <1>4, AheadIs DEF Targets
<1>6. extraction.step = "idle" /\ bootstrap.step = "idle" /\ WindowKept(to)
      /\ UNCHANGED <<roundAt, rounds, batches, checkpoints, retryable, rejected, bootstrap,
                     transient, unrecorded, roundsTorn, roundKills>>
  BY DEF Extract
<1>7. ASSUME NEW p \in Phases
      PROVE  /\ next[p] \in 0 .. MaxRound + 1
             /\ \A r \in Rounds : r[1] = p /\ r[2] < next[p] =>
                  r[2] < checkpoints.next[p] \/ r \in targets
             /\ \A r \in failed \ rounds : r[1] = p => next[p] <= r[2]
  <2> DEFINE n == NextRound(p, targets, failed, ResumeAt(p, overlap))
  <2>1. /\ n \in 1 .. MaxRound + 1
        /\ \A r \in Rounds : r[1] = p /\ r[2] < n =>
             r[2] < checkpoints.next[p] \/ r \in targets
        /\ \A r \in failed \ rounds : r[1] = p => n <= r[2]
    <3>1. failed \subseteq targets
      OBVIOUS
    <3> HIDE DEF failed
    <3> QED
      BY <1>4, <3>1, NextIsSound
  <2>2. next[p] = IF end[p] = 0 THEN 0 ELSE n
    OBVIOUS
  <2>3. failed \subseteq Rounds
    BY <1>5
  <2> HIDE DEF n, next, failed, end, targets
  <2>4. MaxRound \in Nat
    BY RoundsAssumed DEF RoundsAssumptions
  <2>5. CASE end[p] = 0
    <3>1. next[p] = 0
      BY <2>2, <2>5
    <3>2. \A r \in Rounds : 0 <= r[2] /\ ~(r[2] < 0)
      BY RoundIs
    <3> QED
      BY <2>3, <2>4, <3>1, <3>2
  <2>6. CASE end[p] # 0
    <3>1. next[p] = n
      BY <2>2, <2>6
    <3> QED
      BY <2>1, <2>4, <3>1
  <2> QED
    BY <2>5, <2>6
<1>8. next \in [Phases -> 0 .. MaxRound + 1]
  <2> DEFINE V(p) == IF end[p] = 0 THEN 0
                     ELSE NextRound(p, targets, failed, ResumeAt(p, overlap))
  <2>1. next = [p \in Phases |-> V(p)]
    OBVIOUS
  <2> HIDE DEF V, next
  <2>2. \A p \in Phases : V(p) \in 0 .. MaxRound + 1
    BY <1>7, <2>1
  <2> QED
    BY <2>1, <2>2
<1>9. /\ e.step = "observations" /\ e.read = read /\ e.failed = failed /\ e.refused = refused
      /\ e.asked = targets /\ e.state = state /\ state.next = next /\ state.to = to
  OBVIOUS
<1>10. e \in Extractions
  <2>1. state \in States
    <3>1. to \in 0 .. MaxTip
      BY RoundsAssumed DEF RoundsAssumptions
    <3> HIDE DEF next
    <3> QED
      BY <1>8, <3>1 DEF States
  <2> HIDE DEF state, read, failed, refused, targets
  <2> QED
    BY <1>3, <1>5, <2>1 DEF Extractions
<1> HIDE DEF e, state, next, read, failed, refused, targets
<1>11. RoundsTyping'
  <2>1. RoundsTypeOK'
    BY <1>2, <1>6, <1>10 DEF RoundsInv, RoundsTyping, RoundsTypeOK, Extractions
  <2> QED
    BY <1>2, <1>3, <1>6, <1>9, <2>1 DEF RoundsInv, RoundsTyping
<1>12. BehindIsKept'
  BY <1>2, <1>6, <1>9 DEF RoundsInv, BehindIsKept, Kept
<1>13. TransientHoldsCheckpoint'
  BY <1>6 DEF RoundsInv, TransientHoldsCheckpoint
<1>14. BehindNextIsKept'
  <2> SUFFICES ASSUME ~roundsTorn, NEW r \in Rounds, r[2] < next[r[1]]
               PROVE  r \in Kept \cup failed \cup refused \cup read
    BY <1>2, <1>6, <1>9 DEF BehindNextIsKept, Kept
  <2>1. r[1] \in Phases
    BY RoundIs
  <2>2. r[2] < checkpoints.next[r[1]] \/ r \in targets
    BY <1>7, <2>1
  <2>3. CASE r[2] < checkpoints.next[r[1]]
    BY <1>6, <2>3 DEF RoundsInv, BehindIsKept
  <2>4. CASE r \in targets
    BY <1>3, <2>4
  <2> QED
    BY <2>2, <2>3, <2>4
<1>15. TransientHoldsNext'
  <2> SUFFICES ASSUME ~roundsTorn, NEW r \in ((transient \ targets) \cup failed) \ rounds
               PROVE  next[r[1]] <= r[2]
    BY <1>2, <1>6, <1>9 DEF TransientHoldsNext, NextTransient
  <2>1. r \in Rounds
    BY <1>3, <1>4, <1>5
  <2>2. r[1] \in Phases /\ r[2] \in Nat
    BY <2>1, RoundIs
  <2>3. next[r[1]] \in Int /\ checkpoints.next[r[1]] \in Int
    BY <1>4, <1>8, <2>2 DEF PlanTyping, States
  <2>4. CASE r \in failed
    BY <1>7, <2>2, <2>4
  <2>5. CASE r \in transient \ targets
    <3>1. checkpoints.next[r[1]] <= r[2]
      BY <2>5 DEF RoundsInv, TransientHoldsCheckpoint
    <3>2. ~(r[2] < next[r[1]])
      BY <1>7, <2>1, <2>2, <2>3, <2>5, <3>1
    <3> QED
      BY <2>2, <2>3, <3>2
  <2> QED
    BY <2>4, <2>5
<1> QED
  BY <1>11, <1>12, <1>13, <1>14, <1>15 DEF RoundsInv

LEMMA SaveRoundsStep == ASSUME RoundsInv, SaveRounds PROVE RoundsInv'
<1>1. extraction \in Extractions /\ extraction.step = "observations"
  BY DEF SaveRounds, RoundsInv, RoundsTyping, RoundsTypeOK, Extractions
<1> DEFINE e == [extraction EXCEPT !.step = "state"]
<1>2. extraction' = e /\ rounds' = rounds \cup extraction.read
      /\ UNCHANGED <<roundAt, batches, checkpoints, retryable, rejected, bootstrap, transient,
                     unrecorded, roundsTorn, roundKills>>
  BY DEF SaveRounds
<1>3. /\ e \in Extractions /\ e.step = "state" /\ e.state = extraction.state
      /\ e.failed = extraction.failed /\ e.refused = extraction.refused
      /\ e.asked = extraction.asked
  BY <1>1 DEF Extractions
<1>4. extraction.read \subseteq Rounds
  BY <1>1 DEF Extractions
<1> HIDE DEF e
<1>5. RoundsTyping'
  <2>1. RoundsTypeOK'
    BY <1>2, <1>3, <1>4 DEF RoundsInv, RoundsTyping, RoundsTypeOK, Extractions
  <2> QED
    BY <1>1, <1>2, <1>3, <2>1 DEF RoundsInv, RoundsTyping
<1>6. BehindIsKept'
  BY <1>1, <1>2, <1>3 DEF RoundsInv, BehindIsKept, Kept
<1>7. BehindNextIsKept'
  BY <1>1, <1>2, <1>3 DEF RoundsInv, BehindNextIsKept, Kept
<1>8. TransientHoldsCheckpoint'
  BY <1>2 DEF RoundsInv, TransientHoldsCheckpoint
<1>9. TransientHoldsNext'
  BY <1>1, <1>2, <1>3 DEF RoundsInv, TransientHoldsNext, NextTransient
<1> QED
  BY <1>5, <1>6, <1>7, <1>8, <1>9 DEF RoundsInv

LEMMA SaveStateStep == ASSUME RoundsInv, SaveState PROVE RoundsInv'
<1>1. extraction \in Extractions /\ extraction.step = "state"
  BY DEF SaveState, RoundsInv, RoundsTyping, RoundsTypeOK, Extractions
<1> DEFINE e == [extraction EXCEPT !.step = "issues", !.state = NoState, !.asked = {},
                                  !.read = {}]
<1>2. extraction' = e /\ checkpoints' = extraction.state
      /\ transient' = NextTransient(extraction)
      /\ UNCHANGED <<roundAt, rounds, batches, retryable, rejected, bootstrap, unrecorded,
                     roundsTorn, roundKills>>
  BY DEF SaveState, NextTransient
<1>3. /\ e \in Extractions /\ e.step = "issues"
      /\ e.failed = extraction.failed /\ e.refused = extraction.refused
  BY <1>1, NoStateHolds DEF Extractions
<1>4. extraction.state \in States /\ NextTransient(extraction) \subseteq Rounds
  BY <1>1 DEF Extractions, NextTransient, RoundsInv, RoundsTyping
<1> HIDE DEF e
<1>5. RoundsTyping'
  <2>1. RoundsTypeOK'
    BY <1>2, <1>3, <1>4 DEF RoundsInv, RoundsTyping, RoundsTypeOK, Extractions
  <2> QED
    BY <1>1, <1>2, <1>3, <1>4, <2>1 DEF RoundsInv, RoundsTyping
<1>6. BehindIsKept'
  BY <1>1, <1>2, <1>3 DEF RoundsInv, BehindNextIsKept, BehindIsKept, Kept
<1>7. BehindNextIsKept' /\ TransientHoldsNext'
  BY <1>2, <1>3 DEF BehindNextIsKept, TransientHoldsNext
<1>8. TransientHoldsCheckpoint'
  BY <1>1, <1>2 DEF RoundsInv, TransientHoldsNext, TransientHoldsCheckpoint
<1> QED
  BY <1>5, <1>6, <1>7, <1>8 DEF RoundsInv

\* Without a run in progress the invariant speaks of the datasets alone.
LEMMA IdleHolds ==
  ASSUME extraction'.step = "idle" PROVE BehindNextIsKept' /\ TransientHoldsNext'
BY DEF BehindNextIsKept, TransientHoldsNext

LEMMA SaveRoundIssuesStep == ASSUME RoundsInv, SaveRoundIssues PROVE RoundsInv'
<1>1. extraction \in Extractions /\ extraction.step = "issues"
      /\ extraction.failed \cap extraction.refused = {}
      /\ retryable \subseteq Rounds /\ rejected \in SUBSET (Rounds \ retryable)
  BY DEF SaveRoundIssues, RoundsInv, RoundsTyping, RoundsTypeOK, Extractions
<1> DEFINE failed == extraction.failed
           refused == extraction.refused
<1>2. /\ retryable' = ((retryable \ refused) \cup failed) \ rounds
      /\ rejected' = ((rejected \ failed) \cup refused) \ rounds
      /\ extraction' = NoExtraction
      /\ UNCHANGED <<roundAt, rounds, batches, checkpoints, bootstrap, transient, unrecorded,
                     roundsTorn, roundKills>>
  BY DEF SaveRoundIssues, MergedIssues
<1>3. failed \subseteq Rounds /\ refused \subseteq Rounds /\ failed \cap refused = {}
  BY <1>1 DEF Extractions
<1> HIDE DEF failed, refused
<1>4. RoundsTyping'
  <2>1. retryable' \subseteq Rounds
    BY <1>1, <1>2, <1>3
  <2>2. rejected' \in SUBSET (Rounds \ retryable')
    BY <1>1, <1>2, <1>3
  <2>3. RoundsTypeOK'
    BY <1>2, <2>1, <2>2, NoStateHolds DEF RoundsInv, RoundsTyping, RoundsTypeOK, Extractions
  <2> QED
    BY <1>2, <2>3, NoStateHolds DEF RoundsInv, RoundsTyping
<1>5. BehindIsKept'
  <2>1. Kept \cup failed \cup refused \subseteq Kept'
    BY <1>2 DEF Kept
  <2> QED
    BY <1>1, <1>2, <2>1 DEF RoundsInv, BehindIsKept, failed, refused
<1>6. TransientHoldsCheckpoint'
  BY <1>2 DEF RoundsInv, TransientHoldsCheckpoint
<1> QED
  BY <1>2, <1>4, <1>5, <1>6, NoStateHolds, IdleHolds DEF RoundsInv

\* The bootstrap moves no checkpoint and stores nothing here; clearing the quarantine is
\* counted as losing its rows.
LEMMA BootstrapStep ==
  ASSUME RoundsInv,
         \/ UNCHANGED <<retryable, rejected, unrecorded>>
         \/ /\ retryable' = {} /\ rejected' = {}
            /\ unrecorded' = unrecorded \cup ((retryable \cup rejected) \ rounds),
         extraction.step = "idle", batches' \subseteq Rounds,
         bootstrap' \in [step : {"idle", "capture"}, plan : SUBSET Frozen],
         UNCHANGED <<roundAt, rounds, checkpoints, extraction, transient, roundsTorn,
                     roundKills>>
  PROVE  RoundsInv'
<1>1. RoundsTyping'
  <2>1. RoundsTypeOK'
    BY DEF RoundsInv, RoundsTyping, RoundsTypeOK
  <2> QED
    BY <2>1 DEF RoundsInv, RoundsTyping
<1>2. Kept \subseteq Kept'
  BY DEF Kept
<1>3. BehindIsKept'
  BY <1>2 DEF RoundsInv, BehindIsKept
<1>4. TransientHoldsCheckpoint'
  BY DEF RoundsInv, TransientHoldsCheckpoint
<1> QED
  BY <1>1, <1>3, <1>4, IdleHolds DEF RoundsInv

LEMMA BootstrapSteps ==
  ASSUME RoundsInv, StartBootstrap \/ CaptureBatch \/ FailBatch \/ FinishBootstrap
  PROVE  RoundsInv'
<1>1. /\ bootstrap \in [step : {"idle", "capture"}, plan : SUBSET Frozen]
      /\ batches \subseteq Rounds /\ Frozen \subseteq Rounds
      /\ bootstrap.step = "capture" => extraction.step = "idle"
  BY RoundsAssumed DEF RoundsAssumptions, RoundsInv, RoundsTyping, RoundsTypeOK
<1>2. CASE StartBootstrap
  <2>1. Missing \subseteq Frozen
    BY DEF Missing
  <2> QED
    BY <1>1, <1>2, <2>1, BootstrapStep DEF StartBootstrap
<1>3. CASE CaptureBatch
  <2>1. FirstBatch \subseteq bootstrap.plan
    BY DEF FirstBatch
  <2>2. bootstrap.plan \subseteq Rounds
    BY <1>1
  <2>3. bootstrap' \in [step : {"idle", "capture"}, plan : SUBSET Frozen]
    BY <1>1, <1>3 DEF CaptureBatch
  <2> QED
    BY <1>1, <1>3, <2>1, <2>2, <2>3, BootstrapStep DEF CaptureBatch
<1>4. CASE FailBatch
  BY <1>1, <1>4, BootstrapStep DEF FailBatch, NoBootstrap
<1>5. CASE FinishBootstrap
  <2>1. \/ UNCHANGED <<retryable, rejected, unrecorded>>
        \/ /\ retryable' = {} /\ rejected' = {}
           /\ unrecorded' = unrecorded \cup ((retryable \cup rejected) \ rounds)
    BY <1>5 DEF FinishBootstrap
  <2> QED
    BY <1>1, <1>5, <2>1, BootstrapStep DEF FinishBootstrap, NoBootstrap
<1> QED
  BY <1>2, <1>3, <1>4, <1>5

LEMMA KillExtractionStep == ASSUME RoundsInv, KillExtraction PROVE RoundsInv'
<1>1. PICK gone \in BOOLEAN :
        /\ rounds' = IF gone /\ extraction.step = "observations" THEN {} ELSE rounds
        /\ checkpoints' = IF gone /\ extraction.step = "state" THEN NoState ELSE checkpoints
        /\ IF extraction.step = "issues"
           THEN /\ retryable' = IF gone THEN {} ELSE retryable
                /\ rejected' = IF gone THEN {} ELSE rejected
                /\ unrecorded' = unrecorded \cup extraction.failed \cup extraction.refused
                                   \cup (IF gone THEN retryable \cup rejected ELSE {})
           ELSE UNCHANGED <<retryable, rejected, unrecorded>>
  BY DEF KillExtraction
<1>2. extraction' = NoExtraction /\ UNCHANGED <<roundAt, batches, bootstrap, transient>>
      /\ roundKills' = roundKills + 1 /\ roundKills < MaxRoundKills
      /\ roundsTorn' = (roundsTorn \/ rounds' # rounds)
  BY DEF KillExtraction
<1>3. rounds' \subseteq rounds /\ checkpoints' \in {checkpoints, NoState}
  BY <1>1
<1>4. \/ retryable' = retryable /\ rejected' = rejected
      \/ retryable' = {} /\ rejected' = {}
  BY <1>1
<1>5. Kept \cap rounds \subseteq Kept' \cup (rounds \ rounds')
  BY DEF Kept
<1>6. /\ retryable \cup rejected \cup unrecorded \subseteq retryable' \cup rejected' \cup unrecorded'
      /\ extraction.step = "issues" =>
           extraction.failed \cup extraction.refused \subseteq unrecorded'
  BY <1>1
<1>7. RoundsTyping'
  <2>1. roundKills' \in 0 .. MaxRoundKills
    BY <1>2, RoundsAssumed DEF RoundsAssumptions, RoundsInv, RoundsTyping, RoundsTypeOK
  <2>2. NoExtraction \in Extractions /\ NoState \in States
    BY NoStateHolds
  <2>3. RoundsTypeOK'
    BY <1>2, <1>3, <1>4, <2>1, <2>2 DEF RoundsInv, RoundsTyping, RoundsTypeOK, Extractions
  <2> QED
    BY <1>2, <2>3, NoStateHolds DEF RoundsInv, RoundsTyping
<1>8. BehindIsKept'
  <2> SUFFICES ASSUME ~roundsTorn', NEW r \in Rounds, r[2] < checkpoints'.next[r[1]]
               PROVE  r \in Kept'
    BY <1>2, NoStateHolds DEF BehindIsKept
  <2>1. ~roundsTorn /\ rounds' = rounds
    BY <1>2
  <2>2. CASE checkpoints' = checkpoints
    <3>1. r \in Kept \cup (IF extraction.step = "issues"
                           THEN extraction.failed \cup extraction.refused ELSE {})
      BY <2>1, <2>2 DEF RoundsInv, BehindIsKept
    <3> QED
      BY <1>6, <2>1, <3>1 DEF Kept
  <2>3. CASE checkpoints' = NoState
    <3>1. checkpoints'.next[r[1]] = 0 /\ 1 <= r[2] /\ r[2] \in Nat
      BY <2>3, NoStateHolds, RoundIs
    <3> QED
      BY <3>1
  <2> QED
    BY <1>3, <2>2, <2>3
<1>9. TransientHoldsCheckpoint'
  <2> SUFFICES ASSUME ~roundsTorn', NEW r \in transient \ rounds'
               PROVE  checkpoints'.next[r[1]] <= r[2]
    BY <1>2 DEF TransientHoldsCheckpoint
  <2>1. ~roundsTorn /\ rounds' = rounds
    BY <1>2
  <2>2. CASE checkpoints' = checkpoints
    BY <2>1, <2>2 DEF RoundsInv, TransientHoldsCheckpoint
  <2>3. CASE checkpoints' = NoState
    <3>1. r \in Rounds
      BY DEF RoundsInv, RoundsTyping
    <3>2. checkpoints'.next[r[1]] = 0 /\ r[2] \in Nat
      BY <2>3, <3>1, NoStateHolds, RoundIs
    <3> QED
      BY <3>2
  <2> QED
    BY <1>3, <2>2, <2>3
<1> QED
  BY <1>2, <1>7, <1>8, <1>9, NoStateHolds, IdleHolds DEF RoundsInv

LEMMA RoundsUnchanged == ASSUME RoundsInv, UNCHANGED roundVars PROVE RoundsInv'
<1>1. RoundsTyping'
  BY DEF RoundsInv, RoundsTyping, RoundsTypeOK, roundVars
<1>2. BehindIsKept' /\ BehindNextIsKept'
  BY DEF RoundsInv, BehindIsKept, BehindNextIsKept, Kept, roundVars
<1>3. TransientHoldsCheckpoint' /\ TransientHoldsNext'
  BY DEF RoundsInv, TransientHoldsCheckpoint, TransientHoldsNext, NextTransient, roundVars
<1> QED
  BY <1>1, <1>2, <1>3 DEF RoundsInv

LEMMA RoundsInductive == RoundsInv /\ [RoundsNext]_roundVars => RoundsInv'
BY ExtractStep, SaveRoundsStep, SaveStateStep, SaveRoundIssuesStep, BootstrapSteps,
   KillExtractionStep, RoundsUnchanged DEF RoundsNext

LEMMA RoundsSafety == RoundsSpec => []RoundsInv
BY RoundsInitially, RoundsInductive, PTL DEF RoundsSpec

\* The datasets and the run have their types, and no round is in both quarantines.
THEOREM ChainlinkBackfillTyping == RoundsSpec => []RoundsTypeOK
<1>1. RoundsInv => RoundsTypeOK
  BY DEF RoundsInv, RoundsTyping
<1> QED
  BY <1>1, RoundsSafety, PTL

\* No bounded run loses a round (chainlink_storage.py load_issues): for every feed,
\* budget, batch size, overlap, failure and kill, a round behind its phase's checkpoint is
\* stored or quarantined, or its row was lost in one of the two ways named.
THEOREM SkippedRoundsAreRecorded == RoundsSpec => []SkippedIsRecorded
<1>1. RoundsInv => SkippedIsRecorded
  BY DEF RoundsInv, BehindIsKept, Kept, SkippedIsRecorded
<1> QED
  BY <1>1, RoundsSafety, PTL

\* A transient failure holds the checkpoint (is_retryable_rpc_error) at it or before it for as
\* long as it is the round's last answer, with or without its quarantine row.
THEOREM TransientFailuresHoldCheckpoints == RoundsSpec => []TransientHoldsCheckpoint
<1>1. RoundsInv => TransientHoldsCheckpoint
  BY DEF RoundsInv
<1> QED
  BY <1>1, RoundsSafety, PTL

-------------------------------------------------------------------------------
(***************************************************************************)
(* The correction replay                                                   *)
(***************************************************************************)

Audits ==
  [step : {"idle", "fetch", "load", "report"}, start : ReplayBlocks, end : ReplayBlocks,
   mode : {"historical", "correction"}, before : Nat, pending : Seq(Int \X Int),
   attempts : Nat, fresh : SUBSET Records, complete : BOOLEAN, stored : SUBSET Records,
   settled : BOOLEAN, foreign : SUBSET ReplayBlocks, omitted : SUBSET ReplayBlocks,
   gained : SUBSET ReplayBlocks]

ReplayTyping ==
  /\ tipBlock \in ReplayBlocks
  /\ canonical \in [ReplayBlocks -> Contents \cup {None}]
  /\ retained \subseteq Records
  /\ watermark \in Nat
  /\ audit \in Audits
  /\ touched \subseteq ReplayBlocks

\* A record was the chain's content of its block: it still is, or the block was touched.
Sourced(R) ==
  \A r \in R : r[1] <= tipBlock /\ (canonical[r[1]] = r[2] \/ r[1] \in touched)

\* A block of the interval that no range still to fetch holds.
StillPending(a, b) == \E i \in 1 .. Len(a.pending) : a.pending[i][1] <= b /\ b <= a.pending[i][2]

\* What a complete fetch has no event of has none, or for one of the named causes.
FetchMissesNothing ==
  audit.step # "idle" /\ audit.complete =>
    \A b \in audit.start .. audit.end :
      \/ StillPending(audit, b) \/ b \in IdentitiesOf(audit.fresh)
      \/ b \in audit.foreign \cup audit.omitted \cup audit.gained
      \/ canonical[b] = None \/ b > tipBlock

\* An interval that was settled when the run started gains no event.
GainsAreRecent ==
  audit.settled => /\ audit.end <= tipBlock - ReplayDepth
                   /\ \A b \in audit.gained : b > audit.end

\* The comparison is of a complete fetch and of records of the interval.
CompareIsInScope ==
  /\ audit.step \in {"load", "report"} => audit.pending = <<>>
  /\ audit.step = "report" => audit.complete
  /\ \A r \in audit.stored : r[1] \in audit.start .. audit.end

ReplayInv ==
  /\ ReplayTyping
  /\ Sourced(retained) /\ Sourced(audit.fresh) /\ Sourced(audit.stored)
  /\ FetchMissesNothing
  /\ GainsAreRecent
  /\ CompareIsInScope
  /\ FindingsHaveACause

LEMMA ReplayAssumed ==
  /\ MaxReplayBlock \in Nat \ {0} /\ ReplayDepth \in Nat /\ MaxAuditBlocks \in Nat \ {0}
  /\ MaxReorgs \in Nat /\ MaxAdvances \in Nat
BY MaxReplayBlockAssumption, ReplayDepthAssumption, MaxAuditBlocksAssumption,
   MaxReorgsAssumption, MaxAdvancesAssumption

LEMMA NoAuditHolds ==
  /\ NoAudit \in Audits
  /\ NoAudit.step = "idle" /\ NoAudit.fresh = {} /\ NoAudit.stored = {}
  /\ NoAudit.settled = FALSE /\ NoAudit.gained = {}
<1>1. <<>> \in Seq(Int \X Int)
  OBVIOUS
<1>2. 1 \in ReplayBlocks
  BY ReplayAssumed DEF ReplayBlocks
<1> QED
  BY <1>1, <1>2 DEF NoAudit, Audits

LEMMA ReplayInitially == ReplayInit => ReplayInv
<1> SUFFICES ASSUME ReplayInit PROVE ReplayInv
  OBVIOUS
<1>1. ReplayTyping
  <2>1. 1 \in ReplayBlocks
    BY ReplayAssumed DEF ReplayBlocks
  <2>2. [b \in ReplayBlocks |-> IF b = 1 THEN "old" ELSE None]
          \in [ReplayBlocks -> Contents \cup {None}]
    BY DEF Contents
  <2> QED
    BY <2>1, <2>2, NoAuditHolds DEF ReplayInit, ReplayTyping
<1>2. Sourced(retained) /\ Sourced(audit.fresh) /\ Sourced(audit.stored)
  BY NoAuditHolds DEF ReplayInit, Sourced
<1>3. FetchMissesNothing /\ GainsAreRecent /\ CompareIsInScope
  BY NoAuditHolds DEF ReplayInit, FetchMissesNothing, GainsAreRecent, CompareIsInScope
<1>4. FindingsHaveACause
  BY DEF ReplayInit, NoReport, FindingsHaveACause
<1> QED
  BY <1>1, <1>2, <1>3, <1>4 DEF ReplayInv

\* A step of the run alone keeps what the new run satisfies.
LEMMA AuditMoves ==
  ASSUME ReplayInv,
         UNCHANGED <<tipBlock, canonical, retained, watermark, report, touched>>,
         audit' \in Audits,
         Sourced(audit'.fresh), Sourced(audit'.stored),
         FetchMissesNothing', GainsAreRecent', CompareIsInScope'
  PROVE  ReplayInv'
<1>1. ReplayTyping'
  BY DEF ReplayInv, ReplayTyping
<1>2. Sourced(retained)' /\ Sourced(audit.fresh)' /\ Sourced(audit.stored)'
  BY DEF ReplayInv, Sourced
<1>3. FindingsHaveACause'
  BY DEF ReplayInv, FindingsHaveACause
<1> QED
  BY <1>1, <1>2, <1>3 DEF ReplayInv

LEMMA AbandonStep == ASSUME ReplayInv, AuditStep(NoAudit) PROVE ReplayInv'
<1>1. FetchMissesNothing' /\ GainsAreRecent' /\ CompareIsInScope'
  BY NoAuditHolds DEF AuditStep, FetchMissesNothing, GainsAreRecent, CompareIsInScope
<1>2. Sourced({})
  BY DEF Sourced
<1> QED
  BY <1>1, <1>2, NoAuditHolds, AuditMoves DEF AuditStep

\* Two states of a run that differ in the blocks that gained an event.
SameButGained(a, c) ==
  /\ c.step = a.step /\ c.start = a.start /\ c.end = a.end /\ c.pending = a.pending
  /\ c.fresh = a.fresh /\ c.complete = a.complete /\ c.stored = a.stored
  /\ c.settled = a.settled /\ c.foreign = a.foreign /\ c.omitted = a.omitted
  /\ a.gained \subseteq c.gained

LEMMA GainingMoves ==
  ASSUME audit \in Audits, NEW blocks \in SUBSET ReplayBlocks, Gaining(blocks)
  PROVE  /\ audit' \in Audits /\ SameButGained(audit, audit')
         /\ audit'.gained \subseteq audit.gained \cup blocks
         /\ audit.step # "idle" => blocks \subseteq audit'.gained
<1>1. audit' = [audit EXCEPT !.gained = IF audit.step = "idle" THEN audit.gained
                                                              ELSE audit.gained \cup blocks]
  BY DEF Gaining, Audits
<1> QED
  BY <1>1 DEF Audits, SameButGained

\* What the chain and the pipelines do beside a run: records stay sourced, and a block
\* without an event stays without or is noted.
LEMMA ChainMoves ==
  ASSUME ReplayInv, ReplayTyping', SameButGained(audit, audit'), UNCHANGED report,
         tipBlock <= tipBlock', touched \subseteq touched',
         \A b \in ReplayBlocks : b <= tipBlock =>
            canonical'[b] = canonical[b] \/ canonical[b] = None \/ b \in touched',
         \A b \in ReplayBlocks :
            audit.step # "idle" /\ (canonical[b] = None \/ b > tipBlock) =>
              canonical'[b] = None \/ b > tipBlock' \/ b \in audit'.gained,
         \A b \in audit'.gained \ audit.gained : b > tipBlock - ReplayDepth,
         Sourced(retained)'
  PROVE  ReplayInv'
<1>1. ASSUME NEW R, R \subseteq Records, Sourced(R)
      PROVE  Sourced(R)'
  <2> SUFFICES ASSUME NEW r \in R
               PROVE  r[1] <= tipBlock' /\ (canonical'[r[1]] = r[2] \/ r[1] \in touched')
    BY DEF Sourced
  <2>1. r[1] \in ReplayBlocks /\ r[2] \in Contents
    BY <1>1 DEF Records
  <2>2. r[1] <= tipBlock /\ (canonical[r[1]] = r[2] \/ r[1] \in touched)
    BY <1>1 DEF Sourced
  <2>3. r[2] # None
    BY <2>1 DEF Contents, None
  <2>4. r[1] \in Int /\ tipBlock \in Int /\ tipBlock' \in Int
    BY <2>1, ReplayAssumed DEF ReplayInv, ReplayTyping, ReplayBlocks
  <2> QED
    BY <2>1, <2>2, <2>3, <2>4
<1>2. Sourced(audit.fresh)' /\ Sourced(audit.stored)'
  <2>1. audit.fresh \subseteq Records /\ audit.stored \subseteq Records
    BY DEF ReplayInv, ReplayTyping, Audits
  <2> DEFINE F == audit.fresh
             S == audit.stored
  <2>2. Sourced(F) /\ Sourced(S) /\ F \subseteq Records /\ S \subseteq Records
    BY <2>1 DEF ReplayInv
  <2>3. audit'.fresh = F /\ audit'.stored = S
    BY DEF SameButGained
  <2> HIDE DEF F, S
  <2>4. \A r \in F : r[1] <= tipBlock' /\ (canonical'[r[1]] = r[2] \/ r[1] \in touched')
    BY <1>1, <2>2 DEF Sourced
  <2>5. \A r \in S : r[1] <= tipBlock' /\ (canonical'[r[1]] = r[2] \/ r[1] \in touched')
    BY <1>1, <2>2 DEF Sourced
  <2> QED
    BY <2>3, <2>4, <2>5 DEF Sourced
<1>3. FetchMissesNothing'
  <2> SUFFICES ASSUME audit.step # "idle", audit.complete, NEW b \in audit.start .. audit.end
               PROVE  \/ StillPending(audit', b) \/ b \in IdentitiesOf(audit.fresh)
                      \/ b \in audit'.foreign \cup audit'.omitted \cup audit'.gained
                      \/ canonical'[b] = None \/ b > tipBlock'
    BY DEF FetchMissesNothing, SameButGained
  <2>1. b \in ReplayBlocks
    BY ReplayAssumed DEF ReplayInv, ReplayTyping, Audits, ReplayBlocks
  <2>2. \/ StillPending(audit, b) \/ b \in IdentitiesOf(audit.fresh)
        \/ b \in audit.foreign \cup audit.omitted \cup audit.gained
        \/ canonical[b] = None \/ b > tipBlock
    BY DEF ReplayInv, FetchMissesNothing
  <2>3. StillPending(audit, b) => StillPending(audit', b)
    BY DEF StillPending, SameButGained
  <2>4. /\ audit'.foreign = audit.foreign /\ audit'.omitted = audit.omitted
        /\ audit.gained \subseteq audit'.gained
    BY DEF SameButGained
  <2> QED
    BY <2>1, <2>2, <2>3, <2>4
<1>4. GainsAreRecent'
  <2> SUFFICES ASSUME audit.settled
               PROVE  /\ audit.end <= tipBlock' - ReplayDepth
                      /\ \A b \in audit'.gained : b > audit.end
    BY DEF GainsAreRecent, SameButGained
  <2>1. /\ audit.end \in Int /\ tipBlock \in Int /\ tipBlock' \in Int
        /\ audit'.gained \subseteq Int
    BY ReplayAssumed DEF ReplayInv, ReplayTyping, Audits, ReplayBlocks
  <2>2. audit.end <= tipBlock - ReplayDepth /\ \A b \in audit.gained : b > audit.end
    BY DEF ReplayInv, GainsAreRecent
  <2> QED
    BY <2>1, <2>2, ReplayAssumed
<1>5. CompareIsInScope'
  BY DEF ReplayInv, CompareIsInScope, SameButGained
<1>6. FindingsHaveACause'
  BY DEF ReplayInv, FindingsHaveACause
<1> QED
  BY <1>2, <1>3, <1>4, <1>5, <1>6 DEF ReplayInv

LEMMA NewBlockStep == ASSUME ReplayInv, ReplayNewBlock PROVE ReplayInv'
<1>1. PICK content \in {"old", None} :
        /\ canonical' = [canonical EXCEPT ![tipBlock'] = content]
        /\ Gaining(IF content = None THEN {} ELSE {tipBlock'})
  BY DEF ReplayNewBlock
<1> DEFINE G == IF content = None THEN {} ELSE {tipBlock'}
<1>2. /\ tipBlock \in ReplayBlocks /\ tipBlock' = tipBlock + 1 /\ tipBlock' \in ReplayBlocks
      /\ canonical \in [ReplayBlocks -> Contents \cup {None}] /\ audit \in Audits
  BY ReplayAssumed DEF ReplayNewBlock, ReplayInv, ReplayTyping, ReplayBlocks
<1>3. G \subseteq ReplayBlocks /\ Gaining(G)
  BY <1>1, <1>2
<1>4. /\ audit' \in Audits /\ SameButGained(audit, audit')
      /\ audit'.gained \subseteq audit.gained \cup G
      /\ audit.step # "idle" => G \subseteq audit'.gained
  <2> HIDE DEF G
  <2> QED
    BY <1>2, <1>3, GainingMoves
<1>5. ReplayTyping'
  BY <1>1, <1>2, <1>4 DEF ReplayNewBlock, ReplayInv, ReplayTyping, Contents
<1>6. \A b \in ReplayBlocks : b # tipBlock' => canonical'[b] = canonical[b]
  BY <1>1, <1>2
<1>7. tipBlock <= tipBlock' /\ UNCHANGED <<report, retained, touched>>
  BY <1>2, ReplayAssumed DEF ReplayNewBlock, ReplayBlocks
<1>8. ASSUME NEW b \in ReplayBlocks, audit.step # "idle", canonical[b] = None \/ b > tipBlock
      PROVE  canonical'[b] = None \/ b > tipBlock' \/ b \in audit'.gained
  <2>1. CASE b = tipBlock'
    BY <1>1, <1>2, <1>4, <1>8, <2>1
  <2>2. CASE b # tipBlock'
    BY <1>2, <1>6, <1>8, <2>2, ReplayAssumed DEF ReplayBlocks
  <2> QED
    BY <2>1, <2>2
<1>9. \A b \in audit'.gained \ audit.gained : b > tipBlock - ReplayDepth
  BY <1>2, <1>4, ReplayAssumed DEF ReplayBlocks
<1>10. \A b \in ReplayBlocks : b <= tipBlock => canonical'[b] = canonical[b]
  BY <1>2, <1>6, ReplayAssumed DEF ReplayBlocks
<1>11. Sourced(retained)'
  <2> SUFFICES ASSUME NEW r \in retained
               PROVE  r[1] <= tipBlock' /\ (canonical'[r[1]] = r[2] \/ r[1] \in touched')
    BY <1>7 DEF Sourced
  <2>1. r[1] \in ReplayBlocks
    BY DEF ReplayInv, ReplayTyping, Records
  <2>2. r[1] <= tipBlock /\ (canonical[r[1]] = r[2] \/ r[1] \in touched)
    BY DEF ReplayInv, Sourced
  <2>3. r[1] \in Int /\ tipBlock \in Int
    BY <1>2, <2>1, ReplayAssumed DEF ReplayBlocks
  <2> QED
    BY <1>2, <1>10, <1>7, <2>1, <2>2, <2>3
<1> QED
  BY <1>4, <1>5, <1>7, <1>8, <1>9, <1>10, <1>11, ChainMoves

LEMMA ReorganizeStep ==
  ASSUME ReplayInv, NEW c \in ReplayBlocks, Reorganize(c)
  PROVE  ReplayInv'
<1>1. PICK content \in {"new", None} \ {canonical[c]} :
        /\ canonical[c] = None => c > tipBlock - ReplayDepth
        /\ canonical' = [canonical EXCEPT ![c] = content]
        /\ touched' = IF canonical[c] = None THEN touched ELSE touched \cup {c}
        /\ Gaining(IF canonical[c] = None THEN {c} ELSE {})
  BY DEF Reorganize
<1> DEFINE G == IF canonical[c] = None THEN {c} ELSE {}
<1>2. /\ canonical \in [ReplayBlocks -> Contents \cup {None}] /\ tipBlock \in ReplayBlocks
      /\ audit \in Audits /\ c <= tipBlock
  BY DEF ReplayInv, ReplayTyping, Reorganize
<1>3. /\ audit' \in Audits /\ SameButGained(audit, audit')
      /\ audit'.gained \subseteq audit.gained \cup G
      /\ audit.step # "idle" => G \subseteq audit'.gained
  <2>1. G \subseteq ReplayBlocks /\ Gaining(G)
    BY <1>1
  <2> HIDE DEF G
  <2> QED
    BY <1>2, <2>1, GainingMoves
<1>4. ReplayTyping'
  BY <1>1, <1>2, <1>3 DEF Reorganize, ReplayInv, ReplayTyping, Contents
<1>5. \A b \in ReplayBlocks :
        canonical'[b] = canonical[b] \/ canonical[b] = None \/ b \in touched'
  BY <1>1, <1>2
<1>6. UNCHANGED <<report, retained, tipBlock>> /\ touched \subseteq touched'
  BY <1>1 DEF Reorganize
<1>7. ASSUME NEW b \in ReplayBlocks, audit.step # "idle", canonical[b] = None \/ b > tipBlock
      PROVE  canonical'[b] = None \/ b > tipBlock' \/ b \in audit'.gained
  <2>1. CASE b = c
    BY <1>2, <1>3, <1>6, <1>7, <2>1
  <2>2. CASE b # c
    BY <1>1, <1>2, <1>6, <1>7, <2>2
  <2> QED
    BY <2>1, <2>2
<1>8. \A b \in audit'.gained \ audit.gained : b > tipBlock - ReplayDepth
  BY <1>1, <1>3
<1>9. Sourced(retained)'
  <2> SUFFICES ASSUME NEW r \in retained
               PROVE  r[1] <= tipBlock' /\ (canonical'[r[1]] = r[2] \/ r[1] \in touched')
    BY <1>6 DEF Sourced
  <2>1. r[1] \in ReplayBlocks /\ r[2] \in Contents
    BY DEF ReplayInv, ReplayTyping, Records
  <2>2. r[1] <= tipBlock /\ (canonical[r[1]] = r[2] \/ r[1] \in touched)
    BY DEF ReplayInv, Sourced
  <2>3. r[2] # None
    BY <2>1 DEF Contents, None
  <2> QED
    BY <1>5, <1>6, <2>1, <2>2, <2>3
<1>10. tipBlock <= tipBlock'
  BY <1>2, <1>6, ReplayAssumed DEF ReplayBlocks
<1> QED
  BY <1>3, <1>4, <1>5, <1>6, <1>7, <1>8, <1>9, <1>10, ChainMoves

\* A step of the environment that leaves chain and run alone.
LEMMA BesideMoves ==
  ASSUME ReplayInv, UNCHANGED <<tipBlock, canonical, audit, report, touched>>,
         watermark' \in Nat, retained' \subseteq Records, Sourced(retained')
  PROVE  ReplayInv'
<1>1. ReplayTyping'
  BY DEF ReplayInv, ReplayTyping
<1>2. tipBlock <= tipBlock' /\ Sourced(retained)'
  BY ReplayAssumed DEF ReplayInv, ReplayTyping, ReplayBlocks, Sourced
<1>3. SameButGained(audit, audit')
  BY DEF SameButGained
<1>4. \A b \in audit'.gained \ audit.gained : b > tipBlock - ReplayDepth
  OBVIOUS
<1>5. \A b \in ReplayBlocks :
        canonical[b] = None \/ b > tipBlock => canonical'[b] = None \/ b > tipBlock'
  OBVIOUS
<1> QED
  BY <1>1, <1>2, <1>3, <1>4, <1>5, ChainMoves

LEMMA RetainStep ==
  ASSUME ReplayInv, NEW b \in ReplayBlocks, Retain(b)
  PROVE  ReplayInv'
<1>1. /\ canonical \in [ReplayBlocks -> Contents \cup {None}]
      /\ b <= tipBlock /\ canonical[b] # None /\ retained \subseteq Records
  BY DEF ReplayInv, ReplayTyping, Retain
<1>2. retained' \subseteq {<<b, canonical[b]>>} \cup retained
  BY DEF Retain
<1>3. <<b, canonical[b]>> \in Records
  BY <1>1 DEF Records
<1>4. Sourced(retained')
  <2> SUFFICES ASSUME NEW r \in retained'
               PROVE  r[1] <= tipBlock /\ (canonical[r[1]] = r[2] \/ r[1] \in touched)
    BY DEF Sourced
  <2>1. CASE r = <<b, canonical[b]>>
    BY <1>1, <2>1
  <2>2. CASE r \in retained
    BY <2>2 DEF ReplayInv, Sourced
  <2> QED
    BY <1>2, <2>1, <2>2
<1>5. UNCHANGED <<tipBlock, canonical, audit, report, touched, watermark>>
  BY DEF Retain
<1> QED
  BY <1>1, <1>2, <1>3, <1>4, <1>5, BesideMoves DEF ReplayInv, ReplayTyping

LEMMA AdvanceStep == ASSUME ReplayInv, AdvanceCursor PROVE ReplayInv'
<1>1. watermark' \in Nat /\ retained' \subseteq Records /\ Sourced(retained')
  BY DEF AdvanceCursor, ReplayInv, ReplayTyping
<1>2. UNCHANGED <<tipBlock, canonical, audit, report, touched>>
  BY DEF AdvanceCursor
<1> QED
  BY <1>1, <1>2, BesideMoves

LEMMA VerifyStep ==
  ASSUME ReplayInv, NEW b \in ReplayBlocks, VerifyPool(b)
  PROVE  ReplayInv'
<1>1. watermark' \in Nat /\ retained' \subseteq Records /\ Sourced(retained')
  BY DEF VerifyPool, ReplayInv, ReplayTyping
<1>2. UNCHANGED <<tipBlock, canonical, audit, report, touched>>
  BY DEF VerifyPool
<1> QED
  BY <1>1, <1>2, BesideMoves

LEMMA StartAuditStep ==
  ASSUME ReplayInv, NEW start \in ReplayBlocks, NEW end \in ReplayBlocks,
         NEW mode \in {"historical", "correction"}, StartAudit(start, end, mode)
  PROVE  ReplayInv'
<1> DEFINE s == (end <= tipBlock - ReplayDepth)
           a == [step |-> "fetch", start |-> start, end |-> end, mode |-> mode,
                 before |-> watermark, pending |-> <<<<start, end>>>>, attempts |-> 0,
                 fresh |-> {}, complete |-> TRUE, stored |-> {}, settled |-> s,
                 foreign |-> (start .. end) \ verified, omitted |-> {}, gained |-> {}]
<1>1. audit' = a
  BY DEF StartAudit, NoAudit
<1>2. s \in BOOLEAN
  OBVIOUS
<1>3. a \in Audits
  <2> HIDE DEF s
  <2>1. <<<<start, end>>>> \in Seq(Int \X Int)
    BY DEF ReplayBlocks
  <2>2. watermark \in Nat
    BY DEF ReplayInv, ReplayTyping
  <2>3. (start .. end) \ verified \subseteq ReplayBlocks
    BY ReplayAssumed DEF ReplayBlocks
  <2> QED
    BY <1>2, <2>1, <2>2, <2>3 DEF Audits
<1>4. /\ a.step = "fetch" /\ a.fresh = {} /\ a.stored = {} /\ a.settled = s /\ a.gained = {}
      /\ a.start = start /\ a.end = end /\ a.pending = <<<<start, end>>>>
  OBVIOUS
<1>5. UNCHANGED <<tipBlock, canonical, retained, touched, watermark>> /\ report' = NoReport
  BY DEF StartAudit
<1>6. s => end <= tipBlock - ReplayDepth
  OBVIOUS
<1>7. \A b \in start .. end : StillPending(a, b)
  <2> HIDE DEF a
  <2>1. Len(a.pending) = 1 /\ a.pending[1] = <<start, end>>
    BY <1>4
  <2>2. a.pending[1][1] = start /\ a.pending[1][2] = end
    BY <2>1
  <2>3. 1 \in 1 .. Len(a.pending)
    BY <2>1
  <2> QED
    BY <2>2, <2>3 DEF StillPending, ReplayBlocks
<1> HIDE DEF a, s
<1>8. FetchMissesNothing' /\ GainsAreRecent'
  BY <1>1, <1>4, <1>5, <1>6, <1>7 DEF FetchMissesNothing, GainsAreRecent
<1>9. CompareIsInScope'
  BY <1>1, <1>4 DEF CompareIsInScope
<1>10. Sourced(retained)' /\ Sourced(audit.fresh)' /\ Sourced(audit.stored)'
  BY <1>1, <1>4, <1>5 DEF ReplayInv, Sourced
<1>11. ReplayTyping'
  BY <1>1, <1>3, <1>5 DEF ReplayInv, ReplayTyping
<1>12. FindingsHaveACause'
  BY <1>5 DEF NoReport, FindingsHaveACause
<1> QED
  BY <1>8, <1>9, <1>10, <1>11, <1>12 DEF ReplayInv

\* The range at the head of the queue, and what stays pending without it.
LEMMA CurrentRange ==
  ASSUME audit \in Audits, audit.pending # <<>>
  PROVE  /\ Current[1] \in Int /\ Current[2] \in Int
         /\ Tail(audit.pending) \in Seq(Int \X Int)
         /\ \A b \in Int : StillPending(audit, b) =>
              \/ Current[1] <= b /\ b <= Current[2]
              \/ \E i \in 1 .. Len(Tail(audit.pending)) :
                    /\ Tail(audit.pending)[i][1] <= b /\ b <= Tail(audit.pending)[i][2]
<1> DEFINE P == audit.pending
<1>1. P \in Seq(Int \X Int) /\ P # <<>>
  BY DEF Audits
<1> HIDE DEF P
<1>2. Head(P) \in Int \X Int /\ Tail(P) \in Seq(Int \X Int) /\ Head(P) = P[1]
  BY <1>1
<1>3. \A i \in 1 .. Len(P) : i = 1 \/ (i - 1 \in 1 .. Len(Tail(P)) /\ Tail(P)[i - 1] = P[i])
  BY <1>1
<1>4. ASSUME NEW b \in Int, NEW i \in 1 .. Len(P), P[i][1] <= b, b <= P[i][2]
      PROVE  \/ Head(P)[1] <= b /\ b <= Head(P)[2]
             \/ \E j \in 1 .. Len(Tail(P)) : Tail(P)[j][1] <= b /\ b <= Tail(P)[j][2]
  <2>1. CASE i = 1
    BY <1>2, <1>4, <2>1
  <2>2. CASE i # 1
    <3>1. i - 1 \in 1 .. Len(Tail(P)) /\ Tail(P)[i - 1] = P[i]
      BY <1>3, <2>2
    <3>2. PICK j \in 1 .. Len(Tail(P)) : Tail(P)[j] = P[i]
      BY <3>1
    <3> QED
      BY <1>4, <3>2
  <2> QED
    BY <2>1, <2>2
<1> QED
  BY <1>2, <1>4 DEF Current, StillPending, P

LEMMA ReadRangeStep == ASSUME ReplayInv, ReadRange PROVE ReplayInv'
<1>1. /\ audit \in Audits /\ audit.step = "fetch" /\ audit.pending # <<>>
      /\ canonical \in [ReplayBlocks -> Contents \cup {None}] /\ tipBlock \in ReplayBlocks
  BY DEF ReadRange, FetchRange, ReplayInv, ReplayTyping
<1> DEFINE answer == Answer(Current[1], Current[2])
<1>2. PICK given \in SUBSET answer :
        \E decoded \in SUBSET given : AuditStep([audit EXCEPT
           !.attempts = @ + 1, !.pending = Tail(@), !.complete = @ /\ decoded = given,
           !.omitted = @ \cup IdentitiesOf(answer \ given), !.fresh = @ \cup decoded])
  BY DEF ReadRange
<1>3. PICK decoded \in SUBSET given :
        AuditStep([audit EXCEPT !.attempts = @ + 1, !.pending = Tail(@),
                                !.complete = @ /\ decoded = given,
                                !.omitted = @ \cup IdentitiesOf(answer \ given),
                                !.fresh = @ \cup decoded])
  BY <1>2
<1> DEFINE whole == (audit.complete /\ decoded = given)
           a == [audit EXCEPT !.attempts = @ + 1, !.pending = Tail(@),
                              !.complete = @ /\ decoded = given,
                              !.omitted = @ \cup IdentitiesOf(answer \ given),
                              !.fresh = @ \cup decoded]
<1>4. /\ Current[1] \in Int /\ Current[2] \in Int /\ Tail(audit.pending) \in Seq(Int \X Int)
      /\ \A b \in Int : StillPending(audit, b) =>
           \/ Current[1] <= b /\ b <= Current[2]
           \/ \E i \in 1 .. Len(Tail(audit.pending)) :
                 /\ Tail(audit.pending)[i][1] <= b /\ b <= Tail(audit.pending)[i][2]
  BY <1>1, CurrentRange
<1>5. \A b \in Int : /\ b \in Current[1] .. Current[2] /\ b \in 1 .. tipBlock
                     /\ canonical[b] # None /\ b \notin audit.foreign
        => <<b, canonical[b]>> \in answer
  BY DEF Answer
<1>6. \A r \in answer : /\ r \in Records /\ r[1] <= tipBlock /\ canonical[r[1]] = r[2]
  <2> SUFFICES ASSUME NEW r \in answer
               PROVE  r \in Records /\ r[1] <= tipBlock /\ canonical[r[1]] = r[2]
    OBVIOUS
  <2>1. PICK b \in {c \in Current[1] .. Current[2] \cap 1 .. tipBlock :
                      canonical[c] # None /\ c \notin audit.foreign} : r = <<b, canonical[b]>>
    BY DEF Answer
  <2>2. b \in 1 .. tipBlock /\ b \in ReplayBlocks /\ canonical[b] # None
    BY <1>1, <1>4, <2>1, ReplayAssumed DEF ReplayBlocks
  <2> QED
    BY <1>1, <2>1, <2>2, ReplayAssumed DEF Records, ReplayBlocks
<1> HIDE DEF answer
<1>7. /\ whole \in BOOLEAN /\ audit.attempts + 1 \in Nat
      /\ audit.fresh \cup decoded \subseteq Records
      /\ audit.omitted \cup IdentitiesOf(answer \ given) \subseteq ReplayBlocks
  <2>1. answer \subseteq Records /\ audit.fresh \subseteq Records
        /\ audit.omitted \subseteq ReplayBlocks
    BY <1>1, <1>6 DEF Audits
  <2>2. IdentitiesOf(answer) \subseteq ReplayBlocks
    BY <2>1 DEF IdentitiesOf, Records
  <2>3. IdentitiesOf(answer \ given) \subseteq IdentitiesOf(answer)
    BY DEF IdentitiesOf
  <2>4. whole \in BOOLEAN /\ audit.attempts + 1 \in Nat
    BY <1>1 DEF Audits
  <2>5. decoded \subseteq Records
    BY <2>1
  <2> HIDE DEF whole
  <2> QED
    BY <2>1, <2>2, <2>3, <2>4, <2>5
<1>8. a = [step |-> audit.step, start |-> audit.start, end |-> audit.end, mode |-> audit.mode,
           before |-> audit.before, pending |-> Tail(audit.pending),
           attempts |-> audit.attempts + 1, fresh |-> audit.fresh \cup decoded,
           complete |-> whole, stored |-> audit.stored, settled |-> audit.settled,
           foreign |-> audit.foreign, gained |-> audit.gained,
           omitted |-> audit.omitted \cup IdentitiesOf(answer \ given)]
  <2>1. [audit EXCEPT !.attempts = @ + 1, !.pending = Tail(@)].complete = audit.complete
    BY <1>1 DEF Audits
  <2>2. a = [audit EXCEPT !.attempts = @ + 1, !.pending = Tail(@), !.complete = whole,
                          !.omitted = @ \cup IdentitiesOf(answer \ given),
                          !.fresh = @ \cup decoded]
    BY <2>1, Zenon
  <2> HIDE DEF whole, a
  <2> QED
    BY <1>1, <1>7, <2>2 DEF Audits
<1>9. a \in Audits
  <2> HIDE DEF a, whole
  <2> QED
    BY <1>1, <1>4, <1>7, <1>8 DEF Audits
<1>10. /\ a.step = "fetch" /\ a.start = audit.start /\ a.end = audit.end
      /\ a.pending = Tail(audit.pending) /\ a.fresh = audit.fresh \cup decoded
      /\ a.complete = whole /\ a.stored = audit.stored /\ a.settled = audit.settled
      /\ a.foreign = audit.foreign /\ a.gained = audit.gained
      /\ a.omitted = audit.omitted \cup IdentitiesOf(answer \ given)
  <2> HIDE DEF a
  <2> QED
    BY <1>1, <1>8
<1>11. audit' = a /\ UNCHANGED <<tipBlock, canonical, touched>>
  BY <1>3 DEF AuditStep
<1>12. whole => audit.complete /\ decoded = given
  OBVIOUS
<1> HIDE DEF a, whole
<1>13. Sourced(a.fresh) /\ Sourced(a.stored)
  BY <1>6, <1>10 DEF ReplayInv, Sourced
<1>14. ASSUME a.complete, NEW b \in a.start .. a.end
       PROVE  \/ StillPending(a, b) \/ b \in IdentitiesOf(a.fresh)
              \/ b \in a.foreign \cup a.omitted \cup a.gained
              \/ canonical[b] = None \/ b > tipBlock
  <2>1. audit.complete /\ decoded = given /\ b \in audit.start .. audit.end
    BY <1>10, <1>12, <1>14
  <2>2. \/ StillPending(audit, b) \/ b \in IdentitiesOf(audit.fresh)
        \/ b \in audit.foreign \cup audit.omitted \cup audit.gained
        \/ canonical[b] = None \/ b > tipBlock
    BY <1>1, <2>1 DEF ReplayInv, FetchMissesNothing
  <2>3. b \in ReplayBlocks /\ b \in Int
    BY <1>1, <2>1, ReplayAssumed DEF Audits, ReplayBlocks
  <2>4. CASE b \in IdentitiesOf(audit.fresh)
    BY <1>10, <2>4 DEF IdentitiesOf
  <2>5. CASE /\ StillPending(audit, b) /\ canonical[b] # None /\ b <= tipBlock
             /\ b \notin audit.foreign
    <3>1. CASE Current[1] <= b /\ b <= Current[2]
      <4>1. b \in 1 .. tipBlock /\ b \in Current[1] .. Current[2]
        BY <1>1, <1>4, <2>3, <2>5, <3>1, ReplayAssumed DEF ReplayBlocks
      <4>2. <<b, canonical[b]>> \in answer
        BY <1>5, <2>3, <2>5, <4>1
      <4>3. <<b, canonical[b]>>[1] = b
        OBVIOUS
      <4>4. <<b, canonical[b]>> \in decoded => b \in IdentitiesOf(a.fresh)
        BY <1>10, <4>3 DEF IdentitiesOf
      <4>5. <<b, canonical[b]>> \in answer \ given => b \in a.omitted
        BY <1>10, <4>3 DEF IdentitiesOf
      <4> QED
        BY <2>1, <4>2, <4>4, <4>5
    <3>2. CASE \E i \in 1 .. Len(Tail(audit.pending)) :
                 /\ Tail(audit.pending)[i][1] <= b /\ b <= Tail(audit.pending)[i][2]
      BY <1>10, <3>2 DEF StillPending
    <3> QED
      BY <1>4, <2>3, <2>5, <3>1, <3>2
  <2>6. CASE b > tipBlock \/ b \in audit.foreign \cup audit.omitted \cup audit.gained
    BY <1>10, <2>6
  <2>7. b > tipBlock \/ b <= tipBlock
    BY <1>1, <2>3 DEF ReplayBlocks
  <2> QED
    BY <2>2, <2>4, <2>5, <2>6, <2>7
<1>15. FetchMissesNothing' /\ GainsAreRecent'
  <2>1. FetchMissesNothing'
    BY <1>11, <1>14 DEF FetchMissesNothing
  <2>2. GainsAreRecent'
    BY <1>10, <1>11 DEF ReplayInv, GainsAreRecent
  <2> QED
    BY <2>1, <2>2
<1>16. CompareIsInScope'
  BY <1>1, <1>10, <1>11 DEF ReplayInv, CompareIsInScope
<1> QED
  BY <1>3, <1>9, <1>11, <1>13, <1>15, <1>16, AuditMoves DEF AuditStep

LEMMA SplitRangeStep == ASSUME ReplayInv, SplitRange PROVE ReplayInv'
<1>1. audit \in Audits /\ audit.step = "fetch" /\ audit.pending # <<>>
  BY DEF SplitRange, FetchRange, ReplayInv, ReplayTyping
<1>2. /\ Current[1] \in Int /\ Current[2] \in Int /\ Tail(audit.pending) \in Seq(Int \X Int)
      /\ \A b \in Int : StillPending(audit, b) =>
           \/ Current[1] <= b /\ b <= Current[2]
           \/ \E i \in 1 .. Len(Tail(audit.pending)) :
                 /\ Tail(audit.pending)[i][1] <= b /\ b <= Tail(audit.pending)[i][2]
  BY <1>1, CurrentRange
<1> DEFINE T == Tail(audit.pending)
           P == Halves \o T
           a == [audit EXCEPT !.attempts = @ + 1, !.pending = Halves \o Tail(@)]
<1>3. Middle \in Int
  BY <1>2 DEF Middle
<1>4. /\ Halves \in Seq(Int \X Int) /\ Len(Halves) = 2
      /\ Halves[1] = <<Current[1], Middle>> /\ Halves[2] = <<Middle + 1, Current[2]>>
  BY <1>2, <1>3 DEF Halves
<1>5. P \in Seq(Int \X Int)
  BY <1>2, <1>4
<1>6. a \in Audits
  <2>1. audit.attempts + 1 \in Nat
    BY <1>1 DEF Audits
  <2>2. a = [audit EXCEPT !.attempts = audit.attempts + 1, !.pending = P]
    BY <1>1 DEF Audits
  <2> HIDE DEF P, a
  <2> QED
    BY <1>1, <1>5, <2>1, <2>2 DEF Audits
<1>7. /\ a.step = "fetch" /\ a.start = audit.start /\ a.end = audit.end
      /\ a.pending = P /\ a.fresh = audit.fresh
      /\ a.complete = audit.complete /\ a.stored = audit.stored /\ a.settled = audit.settled
      /\ a.foreign = audit.foreign /\ a.omitted = audit.omitted /\ a.gained = audit.gained
  BY <1>1 DEF Audits
<1>8. audit' = a /\ UNCHANGED <<tipBlock, canonical, touched>>
  BY DEF SplitRange, AuditStep
<1>9. /\ Len(P) = 2 + Len(T) /\ P[1] = Halves[1] /\ P[2] = Halves[2]
      /\ \A i \in 1 .. Len(T) : i + 2 \in 1 .. Len(P) /\ P[i + 2] = T[i]
  <2> DEFINE H == Halves
             Ranges == Int \X Int
  <2>1. T \in Seq(Ranges) /\ H \in Seq(Ranges) /\ Len(H) = 2
    BY <1>2, <1>4
  <2>2. P = H \o T
    OBVIOUS
  <2> HIDE DEF T, H, P, Ranges
  <2>3. /\ Len(P) = 2 + Len(T)
        /\ \A i \in 1 .. 2 + Len(T) : P[i] = IF i <= 2 THEN H[i] ELSE T[i - 2]
    <3>1. /\ Len(H \o T) = Len(H) + Len(T)
          /\ \A i \in 1 .. Len(H) + Len(T) :
               (H \o T)[i] = IF i <= Len(H) THEN H[i] ELSE T[i - Len(H)]
      BY <2>1, ConcatProperties, Zenon
    <3> QED
      BY <2>1, <2>2, <3>1, Zenon
  <2>4. Len(T) \in Nat
    BY <2>1
  <2>5. P[1] = H[1] /\ P[2] = H[2]
    BY <2>3, <2>4
  <2>6. \A i \in 1 .. Len(T) : i + 2 \in 1 .. Len(P) /\ P[i + 2] = T[i]
    BY <2>3, <2>4
  <2> QED
    BY <2>3, <2>5, <2>6 DEF H
<1>10. Len(T) \in Nat
  BY <1>2
<1> HIDE DEF T, P, a
<1>11. ASSUME NEW b \in Int, StillPending(audit, b)
       PROVE  StillPending(a, b)
  <2>1. CASE Current[1] <= b /\ b <= Current[2]
    <3>1. CASE b <= Middle
      <4>1. 1 \in 1 .. Len(P) /\ P[1][1] = Current[1] /\ P[1][2] = Middle
        BY <1>4, <1>9, <1>10
      <4> QED
        BY <1>7, <2>1, <3>1, <4>1 DEF StillPending
    <3>2. CASE Middle + 1 <= b
      <4>1. 2 \in 1 .. Len(P) /\ P[2][1] = Middle + 1 /\ P[2][2] = Current[2]
        BY <1>4, <1>9, <1>10
      <4> QED
        BY <1>7, <2>1, <3>2, <4>1 DEF StillPending
    <3> QED
      BY <1>3, <3>1, <3>2
  <2>2. CASE \E i \in 1 .. Len(T) : T[i][1] <= b /\ b <= T[i][2]
    <3>1. PICK i \in 1 .. Len(T) : T[i][1] <= b /\ b <= T[i][2]
      BY <2>2
    <3>2. PICK j \in 1 .. Len(P) : P[j] = T[i]
      BY <1>9
    <3> QED
      BY <1>7, <3>1, <3>2 DEF StillPending
  <2> QED
    BY <1>2, <1>11, <2>1, <2>2 DEF T
<1>12. FetchMissesNothing' /\ GainsAreRecent'
  <2>1. \A b \in a.start .. a.end : b \in Int
    BY <1>1, <1>7 DEF Audits, ReplayBlocks
  <2>2. FetchMissesNothing'
    BY <1>1, <1>7, <1>8, <1>11, <2>1 DEF ReplayInv, FetchMissesNothing
  <2>3. GainsAreRecent'
    BY <1>7, <1>8 DEF ReplayInv, GainsAreRecent
  <2> QED
    BY <2>2, <2>3
<1>13. CompareIsInScope'
  BY <1>7, <1>8 DEF ReplayInv, CompareIsInScope
<1>14. Sourced(a.fresh) /\ Sourced(a.stored)
  BY <1>7 DEF ReplayInv
<1> QED
  BY <1>6, <1>8, <1>12, <1>13, <1>14, AuditMoves DEF SplitRange, AuditStep

LEMMA FinishFetchStep == ASSUME ReplayInv, FinishFetch PROVE ReplayInv'
<1>1. audit \in Audits /\ audit.pending = <<>>
  BY DEF FinishFetch, ReplayInv, ReplayTyping
<1> DEFINE a == [audit EXCEPT !.step = "load", !.attempts = 0]
<1>2. a \in Audits
  BY <1>1 DEF Audits
<1>3. /\ a.step = "load" /\ a.start = audit.start /\ a.end = audit.end
      /\ a.pending = audit.pending /\ a.fresh = audit.fresh
      /\ a.complete = audit.complete /\ a.stored = audit.stored /\ a.settled = audit.settled
      /\ a.foreign = audit.foreign /\ a.omitted = audit.omitted /\ a.gained = audit.gained
  BY <1>1 DEF Audits
<1>4. audit' = a /\ UNCHANGED <<tipBlock, canonical, touched>> /\ audit.step = "fetch"
  BY DEF FinishFetch, AuditStep
<1> HIDE DEF a
<1>5. FetchMissesNothing' /\ GainsAreRecent'
  BY <1>3, <1>4 DEF ReplayInv, FetchMissesNothing, GainsAreRecent, StillPending
<1>6. CompareIsInScope'
  BY <1>1, <1>3, <1>4 DEF ReplayInv, CompareIsInScope
<1>7. Sourced(a.fresh) /\ Sourced(a.stored)
  BY <1>3 DEF ReplayInv
<1> QED
  BY <1>2, <1>4, <1>5, <1>6, <1>7, AuditMoves DEF FinishFetch, AuditStep

LEMMA LoadStoredStep == ASSUME ReplayInv, LoadStored PROVE ReplayInv'
<1>1. audit \in Audits /\ audit.step = "load" /\ audit.complete /\ retained \subseteq Records
  BY DEF LoadStored, ReplayInv, ReplayTyping
<1> DEFINE R == {r \in retained : InScope(r)}
           a == [audit EXCEPT !.step = "report", !.stored = R]
<1>2. R \subseteq retained /\ \A r \in R : r[1] \in audit.start .. audit.end
  BY DEF InScope
<1> HIDE DEF R
<1>3. a \in Audits
  BY <1>1, <1>2 DEF Audits
<1>4. /\ a.step = "report" /\ a.start = audit.start /\ a.end = audit.end
      /\ a.pending = audit.pending /\ a.fresh = audit.fresh
      /\ a.complete = audit.complete /\ a.stored = R /\ a.settled = audit.settled
      /\ a.foreign = audit.foreign /\ a.omitted = audit.omitted /\ a.gained = audit.gained
  BY <1>1 DEF Audits
<1>5. audit' = a /\ UNCHANGED <<tipBlock, canonical, touched>>
  BY DEF LoadStored, AuditStep, R
<1> HIDE DEF a
<1>6. FetchMissesNothing' /\ GainsAreRecent'
  BY <1>1, <1>4, <1>5 DEF ReplayInv, FetchMissesNothing, GainsAreRecent, StillPending
<1>7. CompareIsInScope'
  BY <1>1, <1>2, <1>4, <1>5 DEF ReplayInv, CompareIsInScope
<1>8. Sourced(a.fresh) /\ Sourced(a.stored)
  BY <1>2, <1>4 DEF ReplayInv, Sourced
<1> QED
  BY <1>3, <1>5, <1>6, <1>7, <1>8, AuditMoves DEF LoadStored, AuditStep

\* The two records of a changed block were both the chain's; the block of a missing one has
\* no event now, which touched it, or is one of those a complete fetch may lack.
LEMMA FinishAuditStep == ASSUME ReplayInv, FinishAudit PROVE ReplayInv'
<1>1. /\ audit \in Audits /\ audit.step = "report" /\ audit.complete /\ audit.pending = <<>>
      /\ UNCHANGED <<tipBlock, canonical, retained, watermark, touched>> /\ audit' = NoAudit
  BY DEF FinishAudit, ReplayInv, ReplayTyping, CompareIsInScope
<1>2. ASSUME NEW b \in ChangedIds PROVE b \in touched
  <2>1. PICK r \in audit.stored, s \in audit.fresh : r[1] = b /\ s[1] = b /\ r # s
    BY DEF ChangedIds
  <2>2. r \in Records /\ s \in Records
    BY <1>1 DEF Audits
  <2>3. r[2] # s[2]
    BY <2>1, <2>2 DEF Records
  <2>4. (canonical[b] = r[2] \/ b \in touched) /\ (canonical[b] = s[2] \/ b \in touched)
    BY <2>1 DEF ReplayInv, Sourced
  <2> QED
    BY <2>3, <2>4
<1>3. ASSUME NEW b \in MissingIds
      PROVE  /\ b \in touched \cup audit.omitted \cup audit.foreign \cup audit.gained
             /\ b \in audit.start .. audit.end
  <2>1. PICK r \in audit.stored : r[1] = b
    BY DEF MissingIds, IdentitiesOf
  <2>2. b \in audit.start .. audit.end /\ b \notin IdentitiesOf(audit.fresh)
    BY <2>1 DEF ReplayInv, CompareIsInScope, MissingIds
  <2>3. ~StillPending(audit, b)
    BY <1>1 DEF StillPending
  <2>4. b <= tipBlock /\ (canonical[b] = r[2] \/ b \in touched)
    BY <2>1 DEF ReplayInv, Sourced
  <2>5. \/ canonical[b] = None \/ b > tipBlock
        \/ b \in audit.foreign \cup audit.omitted \cup audit.gained
    BY <1>1, <2>2, <2>3 DEF ReplayInv, FetchMissesNothing
  <2>6. r[2] # None /\ b \in Int /\ tipBlock \in Int
    BY <1>1, <2>1 DEF ReplayInv, ReplayTyping, Audits, Records, Contents, None, ReplayBlocks
  <2>7. canonical[b] = None \/ b \in audit.foreign \cup audit.omitted \cup audit.gained
    BY <2>4, <2>5, <2>6
  <2> QED
    BY <2>2, <2>4, <2>6, <2>7
<1>4. /\ report'.missing = MissingIds /\ report'.changed = ChangedIds
      /\ report'.settled = audit.settled /\ report'.foreign = audit.foreign
      /\ report'.omitted = audit.omitted /\ report'.gained = audit.gained
  BY DEF FinishAudit
<1>5. FindingsHaveACause'
  <2>1. audit.settled => MissingIds \cap audit.gained = {}
    <3>1. \A b \in MissingIds : b \in audit.start .. audit.end
      BY <1>3
    <3>2. audit.settled => \A b \in audit.gained : b > audit.end
      BY DEF ReplayInv, GainsAreRecent
    <3>3. audit.start \in Int /\ audit.end \in Int
      BY <1>1 DEF Audits, ReplayBlocks
    <3> QED
      BY <3>1, <3>2, <3>3
  <2>2. MissingIds \subseteq touched \cup audit.omitted \cup audit.foreign \cup audit.gained
    BY <1>3
  <2>3. ChangedIds \subseteq touched
    BY <1>2
  <2> QED
    BY <1>1, <1>4, <2>1, <2>2, <2>3 DEF FindingsHaveACause
<1>6. ReplayTyping'
  BY <1>1, NoAuditHolds DEF ReplayInv, ReplayTyping
<1>7. Sourced(retained)' /\ Sourced(audit.fresh)' /\ Sourced(audit.stored)'
  BY <1>1, NoAuditHolds DEF ReplayInv, Sourced
<1>8. FetchMissesNothing' /\ GainsAreRecent' /\ CompareIsInScope'
  BY <1>1, NoAuditHolds DEF FetchMissesNothing, GainsAreRecent, CompareIsInScope
<1> QED
  BY <1>5, <1>6, <1>7, <1>8 DEF ReplayInv

LEMMA ReplayUnchanged == ASSUME ReplayInv, UNCHANGED replayVars PROVE ReplayInv'
<1>1. UNCHANGED <<audit, report, tipBlock, canonical, retained, watermark, touched>>
  BY DEF replayVars
<1>2. watermark' \in Nat /\ retained' \subseteq Records /\ Sourced(retained')
  BY <1>1 DEF ReplayInv, ReplayTyping
<1> QED
  BY <1>1, <1>2, BesideMoves

LEMMA ReplayInductive == ReplayInv /\ [ReplayNext]_replayVars => ReplayInv'
<1> SUFFICES ASSUME ReplayInv, [ReplayNext]_replayVars PROVE ReplayInv'
  OBVIOUS
<1>1. CASE AbandonFetch \/ RefuseIncomplete \/ RefuseAudit
  BY <1>1, AbandonStep DEF AbandonFetch, RefuseIncomplete, RefuseAudit
<1> QED
  BY <1>1, NewBlockStep, ReorganizeStep, VerifyStep, RetainStep, AdvanceStep, StartAuditStep,
     ReadRangeStep, SplitRangeStep, FinishFetchStep, LoadStoredStep, FinishAuditStep,
     ReplayUnchanged DEF ReplayNext

\* What an audit reports missing or changed has one of its named causes, and settled blocks
\* are never missing for a late event (correction_replay.py): for every interval, range limit,
\* depth, answer, pool set and sequence of reorganizations, loads and commits.
THEOREM FindingsAreExplained == ReplaySpec => []FindingsHaveACause
<1>1. ReplayInv => FindingsHaveACause
  BY DEF ReplayInv
<1> QED
  BY <1>1, ReplayInitially, ReplayInductive, PTL DEF ReplaySpec

===============================================================================
