----------------------------- MODULE BronzeStreams -----------------------------
(***************************************************************************)
(* What follows the Kafka topics: the poller that publishes Chainlink rounds, *)
(* the two checkpointed streams that land a topic in Bronze, and the local    *)
(* job that merges new Bronze files into Silver and remembers them in a       *)
(* manifest.  The event stream appends files whose records Silver reads by    *)
(* listing the directory; the market stream appends to Bronze and to          *)
(* quarantine in one batch function.  A batch that dies is run again with the *)
(* offsets it had.                                                            *)
(***************************************************************************)
EXTENDS Integers, Sequences, FiniteSets

CONSTANTS
  Swaps,         \* identities of swaps on the event topic
  OtherEvents,   \* identities Silver filters out: other types, incomplete records
  PollFeeds,     \* the configured feeds
  RoundAt,       \* feed -> block -> its latest round there
  MaxTopic,      \* bound: records per topic
  MaxFiles,      \* bound: Bronze files written
  MaxStreamKills \* bound: kills of a stream, of the poller and of the Silver job

ASSUME EventsAssumption == Swaps \cap OtherEvents = {}
ASSUME PollFeedsAssumption == IsFiniteSet(PollFeeds)
ASSUME RoundAtAssumption == \A f \in PollFeeds : RoundAt[f] \in Seq(Nat)
ASSUME StreamBoundsAssumption == MaxTopic \in Nat /\ MaxFiles \in Nat /\ MaxStreamKills \in Nat

Topics == {"events", "market"}

Offsets == 1 .. MaxTopic

VARIABLES
  log,         \* topic -> its records; an offset is a position
  head,        \* the newest block of the chain
  poller,      \* up, and published_rounds: the round last published of each feed
  stream,      \* topic -> the stream: its step, what it starts from, committed and planned
  files,       \* the event Bronze files: their first and last offset, whole or torn
  marketBronze,     \* offsets of the observations in market Bronze
  marketQuarantine, \* offsets of the messages in quarantine
  silver,      \* swap -> the offset of the copy kept, 0 where none
  manifest,    \* indices of the files in the processed-files manifest
  build,       \* the Silver job: its step and the files it selected
  kills

streamVars == <<log, head, poller, stream, files, marketBronze, marketQuarantine, silver,
                manifest, build, kills>>

PollBlocks == 1 .. Len(RoundAt[CHOOSE f \in PollFeeds : TRUE])

NoRounds == [f \in PollFeeds |-> 0]

Idle == [step |-> "idle", selected |-> {}]

StreamsTypeOK ==
    /\ log \in [Topics -> Seq(Swaps \cup OtherEvents \cup {"observation", "malformed"})]
    /\ head \in PollBlocks
    /\ stream \in [Topics -> [step : {"new", "down", "ready", "planned", "written", "sunk"},
                              first : 0 .. MaxTopic, committed : 0 .. MaxTopic,
                              planned : 0 .. MaxTopic]]
    /\ files \in Seq([from : Offsets, to : Offsets, whole : BOOLEAN])
    /\ marketBronze \subseteq Offsets /\ marketQuarantine \subseteq Offsets
    /\ silver \in [Swaps -> 0 .. MaxTopic]
    /\ manifest \subseteq 1 .. MaxFiles
    /\ build \in [step : {"idle", "merge", "save"}, selected : SUBSET (1 .. MaxFiles)]

\* ---- The topics -----------------------------------------------------------

\* the producer's client delivered an event, perhaps one it had delivered before
PublishEvent(event) ==
    /\ Len(log["events"]) < MaxTopic
    /\ log' = [log EXCEPT !["events"] = Append(@, event)]
    /\ UNCHANGED <<head, poller, stream, files, marketBronze, marketQuarantine, silver, manifest,
                   build, kills>>

\* a message that is not a valid observation
PublishMalformed ==
    /\ Len(log["market"]) < MaxTopic
    /\ log' = [log EXCEPT !["market"] = Append(@, "malformed")]
    /\ UNCHANGED <<head, poller, stream, files, marketBronze, marketQuarantine, silver, manifest,
                   build, kills>>

NewHead ==
    /\ head + 1 \in PollBlocks
    /\ head' = head + 1
    /\ UNCHANGED <<log, poller, stream, files, marketBronze, marketQuarantine, silver, manifest,
                   build, kills>>

\* ---- The poller -----------------------------------------------------------

\* the feeds whose round at the block is not the one last published
NewRounds(block) == {f \in PollFeeds : RoundAt[f][block] # poller.rounds[f]}

\* one cycle at one block, the newest or that of a node one behind: a feed whose read or
\* send raises is left for the next cycle; a message taken may still not be delivered
Poll ==
    /\ poller.up
    /\ \E block \in {head, head - 1} \cap PollBlocks :
       \E sent \in SUBSET NewRounds(block) :
       \E landed \in SUBSET sent :
          /\ sent # {}
          /\ Len(log["market"]) + Cardinality(landed) <= MaxTopic
          /\ poller' = [poller EXCEPT !.rounds =
                          [f \in PollFeeds |-> IF f \in sent THEN RoundAt[f][block] ELSE @[f]]]
          /\ log' = [log EXCEPT !["market"] =
                       @ \o [i \in 1 .. Cardinality(landed) |-> "observation"]]
    /\ UNCHANGED <<head, stream, files, marketBronze, marketQuarantine, silver, manifest, build,
                   kills>>

StartPoller ==
    /\ ~poller.up
    /\ poller' = [up |-> TRUE, rounds |-> NoRounds]
    /\ UNCHANGED <<log, head, stream, files, marketBronze, marketQuarantine, silver, manifest,
                   build, kills>>

StopPoller ==
    /\ poller.up /\ kills < MaxStreamKills
    /\ kills' = kills + 1
    /\ poller' = [up |-> FALSE, rounds |-> NoRounds]
    /\ UNCHANGED <<log, head, stream, files, marketBronze, marketQuarantine, silver, manifest,
                   build>>

\* ---- The streams ----------------------------------------------------------

\* without a checkpoint a stream begins at the end of the topic; with one it finishes the
\* batch that was planned
StartStream(t) ==
    \/ /\ stream[t].step = "new"
       /\ LET end == Len(log[t]) IN
          stream' = [stream EXCEPT ![t] =
                       [step |-> "ready", first |-> end, committed |-> end, planned |-> end]]
       /\ UNCHANGED <<log, head, poller, files, marketBronze, marketQuarantine, silver, manifest,
                      build, kills>>
    \/ /\ stream[t].step = "down"
       /\ stream' = [stream EXCEPT ![t].step =
                       IF stream[t].planned > stream[t].committed THEN "planned" ELSE "ready"]
       /\ UNCHANGED <<log, head, poller, files, marketBronze, marketQuarantine, silver, manifest,
                      build, kills>>

\* the trigger plans a batch up to the end of the topic and logs its offsets
PlanBatch(t) ==
    /\ stream[t].step = "ready" /\ Len(log[t]) > stream[t].committed
    /\ stream' = [stream EXCEPT ![t].step = "planned", ![t].planned = Len(log[t])]
    /\ UNCHANGED <<log, head, poller, files, marketBronze, marketQuarantine, silver, manifest,
                   build, kills>>

Batch(t) == (stream[t].committed + 1) .. stream[t].planned

Unfinished == {i \in DOMAIN files : ~files[i].whole}

\* an event batch is written straight into the directory: first part of a file, then all
OpenFile ==
    /\ stream["events"].step = "planned" /\ Len(files) < MaxFiles
    /\ stream' = [stream EXCEPT !["events"].step = "written"]
    /\ files' = Append(files, [from |-> stream["events"].committed + 1,
                               to |-> stream["events"].planned, whole |-> FALSE])
    /\ UNCHANGED <<log, head, poller, marketBronze, marketQuarantine, silver, manifest, build,
                   kills>>

CloseFile ==
    /\ stream["events"].step = "written"
    /\ stream' = [stream EXCEPT !["events"].step = "sunk"]
    /\ files' = [files EXCEPT ![Len(files)].whole = TRUE]
    /\ UNCHANGED <<log, head, poller, marketBronze, marketQuarantine, silver, manifest, build,
                   kills>>

Valid(offsets) == {o \in offsets : log["market"][o] = "observation"}

\* write_market_data_batch: the valid records, then the others, neither deduplicated
AppendValid ==
    /\ stream["market"].step = "planned"
    /\ stream' = [stream EXCEPT !["market"].step = "written"]
    /\ marketBronze' = marketBronze \cup Valid(Batch("market"))
    /\ UNCHANGED <<log, head, poller, files, marketQuarantine, silver, manifest, build, kills>>

AppendInvalid ==
    /\ stream["market"].step = "written"
    /\ stream' = [stream EXCEPT !["market"].step = "sunk"]
    /\ marketQuarantine' = marketQuarantine \cup (Batch("market") \ Valid(Batch("market")))
    /\ UNCHANGED <<log, head, poller, files, marketBronze, silver, manifest, build, kills>>

\* the batch enters the log of committed batches; the event sink's own log goes with it
CommitBatch(t) ==
    /\ stream[t].step = "sunk"
    /\ stream' = [stream EXCEPT ![t].step = "ready", ![t].committed = stream[t].planned]
    /\ UNCHANGED <<log, head, poller, files, marketBronze, marketQuarantine, silver, manifest,
                   build, kills>>

\* a stream dies, or its batch raises; an append that was under way may leave a part
KillStream(t) ==
    /\ stream[t].step \notin {"new", "down"} /\ kills < MaxStreamKills
    /\ kills' = kills + 1
    /\ stream' = [stream EXCEPT ![t].step = "down"]
    /\ \/ UNCHANGED <<marketBronze, marketQuarantine>>
       \/ /\ t = "market" /\ stream[t].step = "planned"
          /\ \E part \in SUBSET Valid(Batch(t)) : marketBronze' = marketBronze \cup part
          /\ UNCHANGED marketQuarantine
       \/ /\ t = "market" /\ stream[t].step = "written"
          /\ \E part \in SUBSET (Batch(t) \ Valid(Batch(t))) :
                marketQuarantine' = marketQuarantine \cup part
          /\ UNCHANGED marketBronze
    /\ UNCHANGED <<log, head, poller, files, silver, manifest, build>>

\* ---- Local Silver ---------------------------------------------------------

\* the files in the directory, finished or not, that the manifest does not name
Unprocessed == DOMAIN files \ manifest

SelectFiles ==
    /\ build = Idle /\ Unprocessed # {}
    /\ build' = [step |-> "merge", selected |-> Unprocessed]
    /\ UNCHANGED <<log, head, poller, stream, files, marketBronze, marketQuarantine, silver,
                   manifest, kills>>

\* the offsets at which the selected files hold the swap
Copies(swap, selected) ==
    {o \in Offsets : /\ o <= Len(log["events"]) /\ log["events"][o] = swap
                     /\ \E i \in selected : o \in files[i].from .. files[i].to}

Newest(offsets) == CHOOSE o \in offsets : \A other \in offsets : other <= o

\* of the rows there are and those of the selected files the newest of an identity stays
MergeFiles ==
    /\ build.step = "merge" /\ build.selected \cap Unfinished = {}
    /\ silver' = [s \in Swaps |-> Newest({silver[s]} \cup Copies(s, build.selected))]
    /\ build' = [build EXCEPT !.step = "save"]
    /\ UNCHANGED <<log, head, poller, stream, files, marketBronze, marketQuarantine, manifest,
                   kills>>

\* a file that is not whole cannot be read: the job raises and Silver stays
FailMerge ==
    /\ build.step = "merge" /\ build.selected \cap Unfinished # {}
    /\ build' = Idle
    /\ UNCHANGED <<log, head, poller, stream, files, marketBronze, marketQuarantine, silver,
                   manifest, kills>>

\* Mutant: the directory is listed again for the manifest.
SaveListed ==
    /\ build.step = "save"
    /\ manifest' = manifest \cup DOMAIN files
    /\ build' = Idle
    /\ UNCHANGED <<log, head, poller, stream, files, marketBronze, marketQuarantine, silver,
                   kills>>

SaveManifest ==
    /\ build.step = "save"
    /\ manifest' = manifest \cup build.selected
    /\ build' = Idle
    /\ UNCHANGED <<log, head, poller, stream, files, marketBronze, marketQuarantine, silver,
                   kills>>

KillBuild ==
    /\ build # Idle /\ kills < MaxStreamKills
    /\ kills' = kills + 1
    /\ build' = Idle
    /\ UNCHANGED <<log, head, poller, stream, files, marketBronze, marketQuarantine, silver,
                   manifest>>

\* ---- Specification --------------------------------------------------------

StreamsInit ==
    /\ log = [t \in Topics |-> <<>>]
    /\ head = 1
    /\ poller = [up |-> FALSE, rounds |-> NoRounds]
    /\ stream = [t \in Topics |-> [step |-> "new", first |-> 0, committed |-> 0, planned |-> 0]]
    /\ files = <<>>
    /\ marketBronze = {} /\ marketQuarantine = {}
    /\ silver = [s \in Swaps |-> 0]
    /\ manifest = {} /\ build = Idle /\ kills = 0

EventsNext ==
    \/ \E event \in Swaps \cup OtherEvents : PublishEvent(event)
    \/ StartStream("events")
    \/ PlanBatch("events")
    \/ OpenFile
    \/ CloseFile
    \/ CommitBatch("events")
    \/ KillStream("events")
    \/ SelectFiles
    \/ MergeFiles
    \/ FailMerge
    \/ SaveManifest
    \/ KillBuild

MarketNext ==
    \/ PublishMalformed
    \/ NewHead
    \/ Poll
    \/ StartPoller
    \/ StopPoller
    \/ StartStream("market")
    \/ PlanBatch("market")
    \/ AppendValid
    \/ AppendInvalid
    \/ CommitBatch("market")
    \/ KillStream("market")

StreamsNext == EventsNext \/ MarketNext

StreamsSpec == StreamsInit /\ [][StreamsNext]_streamVars

\* ---- Properties -----------------------------------------------------------

Consumed(t) == (stream[t].first + 1) .. stream[t].committed

\* What a stream has committed past is kept: an event in a whole Bronze file, a valid
\* observation in market Bronze and any other message in quarantine, through every kill and
\* rerun; and a swap in a file the manifest names, which Silver will not read again, is in
\* Silver with that copy or a newer one (write_market_data_batch, build_silver_swaps).
CommittedIsKept ==
    /\ \A o \in Consumed("events") :
          \E i \in DOMAIN files : files[i].whole /\ o \in files[i].from .. files[i].to
    /\ \A o \in Consumed("market") :
          o \in (IF log["market"][o] = "observation" THEN marketBronze ELSE marketQuarantine)
    /\ \A s \in Swaps : \A o \in Copies(s, manifest) : silver[s] >= o
===============================================================================
