---------------------------- MODULE PriceEnrichment ----------------------------
(***************************************************************************)
(* The rebuild of the price-enriched Silver datasets.  Each event amount is   *)
(* scaled, its asset resolved, and the latest Chainlink price at or before    *)
(* the event attached unless it is too old; every event stays, with a status. *)
(* A build reads the prices once, then enriches one dataset after the other   *)
(* and overwrites its output and its quarantine; meanwhile events arrive, and *)
(* prices do, late ones from backfills among them.                            *)
(*                                                                         *)
(* Overwriting is not atomic.  On s3a the old objects are deleted and the new *)
(* ones put in their place; locally two directories are renamed.  Between the *)
(* two, and for good if the process dies there, part of the old rows are      *)
(* left, or none, or part of the new ones.                                    *)
(*                                                                         *)
(* A raw amount is the set of the integer it denotes, empty for a string that *)
(* denotes none; scaled, it counts the smallest fractions of AMOUNT_TYPE.     *)
(***************************************************************************)
EXTENDS Integers, Sequences, FiniteSets

CONSTANTS
  Datasets,       \* the models, in the order they are built
  LegsOf,         \* dataset -> how many amounts an event has
  Absolute,       \* the datasets whose USD value is of the absolute amount
  MappingRows,    \* the configured mapping: [address, asset, decimals]
  EventPool,      \* dataset -> the events that may arrive
  PricePool,      \* the observations that may arrive: [asset, at, round]
  MaxAge,         \* max_price_age_seconds
  Scale,          \* AMOUNT_SCALE, in decimal digits
  AmountLimit,    \* amounts from here do not fit AMOUNT_TYPE
  CalculationLimit, \* amounts from here do not fit CALCULATION_TYPE
  MaxEnrichmentKills \* bound: kills of a build

ASSUME ScaleAssumption == Scale \in Nat
ASSUME MaxAgeAssumption == MaxAge \in Nat \ {0}
ASSUME LimitsAssumption == CalculationLimit \in Nat /\ AmountLimit \in Nat
                           /\ CalculationLimit <= AmountLimit
ASSUME MaxEnrichmentKillsAssumption == MaxEnrichmentKills \in Nat

Unknown == -1   \* no timestamp, no identity

DatasetSet == {Datasets[i] : i \in DOMAIN Datasets}

ASSUME DatasetsAssumption == Datasets \in Seq(DatasetSet)

\* time is counted in seconds; the window's ordering tells any two prices of an asset apart
ASSUME EventPoolAssumption ==
    \A d \in DatasetSet : \A event \in EventPool[d] : event.at \in Nat \cup {Unknown}
ASSUME PricePoolAssumption ==
    /\ IsFiniteSet(PricePool)
    /\ \A p \in PricePool : p.at \in Nat /\ p.round \in Nat
    /\ \A p, q \in PricePool :
          p.asset = q.asset /\ p.at = q.at /\ p.round = q.round => p = q

\* one row per address: the loader refuses a configuration with two
MappingIsValid ==
    \A r1, r2 \in MappingRows : r1.address = r2.address => r1 = r2

ASSUME MappingAssumption == MappingIsValid

VARIABLES
  sources,      \* dataset -> the Silver events
  prices,       \* the Silver market prices
  output,       \* dataset -> the enriched rows
  rejects,      \* dataset -> the quarantined rows
  job,          \* the build: its step, the datasets left, the prices and events read
  builtFrom,    \* history: dataset -> the prices and events of its output
  jobKills

enrichmentVars == <<sources, prices, output, rejects, job, builtFrom, jobKills>>

NoJob == [step |-> "idle", left |-> <<>>, prices |-> {}, events |-> {}]

\* ---- One amount -----------------------------------------------------------

\* the row of an address, as the left join finds it
RowsOf(address) == {row \in MappingRows : row.address = address}

\* the integer string scaled exactly; none when it is no integer or does not fit
Normalized(raw, decimals) ==
    {n \in {r * 10 ^ (Scale - decimals) : r \in raw} : n < AmountLimit /\ -n < AmountLimit}

\* past the calculation type the cast of the pinned Spark raises, once time and asset are known
Raises(event, leg) ==
    /\ event.at # Unknown
    /\ \E row \in RowsOf(leg.address) : \E n \in Normalized(leg.raw, row.decimals) :
          n >= CalculationLimit \/ -n >= CalculationLimit

ValidAmount(d, leg) ==
    \E row \in RowsOf(leg.address) : \E n \in Normalized(leg.raw, row.decimals) :
       IF d \in Absolute THEN n # 0 ELSE n > 0

\* the prices of the asset at or before the event
Candidates(event, leg, observations) ==
    {p \in observations : /\ \E row \in RowsOf(leg.address) : p.asset = row.asset
                          /\ p.at <= event.at}

\* Mutant: oldest first.
RanksOldestFirst(p, q) == p.at < q.at \/ (p.at = q.at /\ p.round <= q.round)

\* latest first, then the greatest round
Ranks(p, q) == p.at > q.at \/ (p.at = q.at /\ p.round >= q.round)

Best(candidates) == {p \in candidates : \A q \in candidates : Ranks(p, q)}

Age(event, p) == event.at - p.at

\* the conditions are tried in this order
Status(d, event, leg, observations) ==
    LET best == Best(Candidates(event, leg, observations)) IN
    CASE event.at = Unknown -> "invalid_event_timestamp"
      [] event.at # Unknown /\ RowsOf(leg.address) = {} -> "no_asset_mapping"
      [] event.at # Unknown /\ RowsOf(leg.address) # {} /\ ~ValidAmount(d, leg)
           -> "invalid_amount"
      [] event.at # Unknown /\ ValidAmount(d, leg) /\ best = {} -> "no_prior_price"
      [] event.at # Unknown /\ ValidAmount(d, leg) /\ \E p \in best : Age(event, p) > MaxAge
           -> "stale_price"
      [] OTHER -> "enriched"

\* the matched price is kept only with the status "enriched"
EnrichedLeg(d, event, leg, observations) ==
    LET status == Status(d, event, leg, observations) IN
    [status |-> status,
     price  |-> IF status = "enriched" THEN Best(Candidates(event, leg, observations)) ELSE {}]

\* ---- One dataset ----------------------------------------------------------

\* the legs are enriched one after the other and joined to the event they came from
EnrichedRow(d, event, observations) ==
    [event |-> event,
     legs  |-> [i \in 1 .. LegsOf[d] |-> EnrichedLeg(d, event, event.legs[i], observations)]]

Rows(d, events, observations) == {EnrichedRow(d, event, observations) : event \in events}

\* the row-level checks after the fact
Invalid(row) ==
    \/ row.event.id = Unknown
    \/ \E i \in DOMAIN row.legs : \E p \in row.legs[i].price :
          p.at > row.event.at \/ Age(row.event, p) > MaxAge
    \/ \E i \in DOMAIN row.legs : (row.legs[i].status = "enriched") # (row.legs[i].price # {})

DuplicateIds(events) ==
    \E e1, e2 \in events : e1.id # Unknown /\ e1.id = e2.id /\ e1 # e2

\* ---- The environment ------------------------------------------------------

NewPrice ==
    /\ \E p \in PricePool \ prices : prices' = prices \cup {p}
    /\ UNCHANGED <<sources, output, rejects, job, builtFrom, jobKills>>

NewEvent(d) ==
    /\ \E event \in EventPool[d] \ sources[d] : sources' = [sources EXCEPT ![d] = @ \cup {event}]
    /\ UNCHANGED <<prices, output, rejects, job, builtFrom, jobKills>>

\* ---- The build ------------------------------------------------------------

\* without a price file the outputs stay
StartJob ==
    /\ job = NoJob /\ prices # {}
    /\ job' = [NoJob EXCEPT !.step = "read", !.prices = prices, !.left = Datasets]
    /\ UNCHANGED <<sources, prices, output, rejects, builtFrom, jobKills>>

FinishJob ==
    /\ job.step = "read" /\ job.left = <<>>
    /\ job' = NoJob
    /\ UNCHANGED <<sources, prices, output, rejects, builtFrom, jobKills>>

\* a dataset that has no source when its turn comes
SkipDataset ==
    /\ job.step = "read" /\ job.left # <<>> /\ sources[Head(job.left)] = {}
    /\ job' = [job EXCEPT !.left = Tail(@)]
    /\ UNCHANGED <<sources, prices, output, rejects, builtFrom, jobKills>>

ReadEvents ==
    /\ job.step = "read" /\ job.left # <<>> /\ sources[Head(job.left)] # {}
    /\ job' = [job EXCEPT !.step = "write", !.events = sources[Head(job.left)]]
    /\ UNCHANGED <<sources, prices, output, rejects, builtFrom, jobKills>>

DatasetFails ==
    \/ DuplicateIds(job.events)
    \/ \E event \in job.events : \E i \in DOMAIN event.legs : Raises(event, event.legs[i])

\* Mutant: a dataset that fails is left out of the build.
FailDatasetOnly ==
    /\ job.step = "write" /\ DatasetFails
    /\ job' = [job EXCEPT !.step = "read", !.left = Tail(@), !.events = {}]
    /\ UNCHANGED <<sources, prices, output, rejects, builtFrom, jobKills>>

\* the exception leaves the loop: no later dataset is built either
FailDataset ==
    /\ job.step = "write" /\ DatasetFails
    /\ job' = NoJob
    /\ UNCHANGED <<sources, prices, output, rejects, builtFrom, jobKills>>

Accepted(d) == {row \in Rows(d, job.events, job.prices) : ~Invalid(row)}

Refused(d) == {row \in Rows(d, job.events, job.prices) : Invalid(row)}

Basis == [prices |-> job.prices, events |-> job.events]

\* the output while it is overwritten: what is left of the old one, or already of the new one
OverwriteOutput ==
    /\ job.step = "write" /\ ~DatasetFails
    /\ LET d == Head(job.left) IN
          \/ /\ \E left \in SUBSET output[d] : output' = [output EXCEPT ![d] = left]
             /\ UNCHANGED builtFrom
          \/ /\ \E put \in SUBSET Accepted(d) : output' = [output EXCEPT ![d] = put]
             /\ builtFrom' = [builtFrom EXCEPT ![d] = Basis]
    /\ job' = [job EXCEPT !.step = "output"]
    /\ UNCHANGED <<sources, prices, rejects, jobKills>>

WriteOutput ==
    /\ job.step = "output"
    /\ LET d == Head(job.left) IN
          /\ output' = [output EXCEPT ![d] = Accepted(d)]
          /\ builtFrom' = [builtFrom EXCEPT ![d] = Basis]
    /\ job' = [job EXCEPT !.step = "reject"]
    /\ UNCHANGED <<sources, prices, rejects, jobKills>>

OverwriteRejected ==
    /\ job.step = "reject"
    /\ LET d == Head(job.left) IN
          \E some \in (SUBSET rejects[d]) \cup (SUBSET Refused(d)) :
              rejects' = [rejects EXCEPT ![d] = some]
    /\ job' = [job EXCEPT !.step = "quarantine"]
    /\ UNCHANGED <<sources, prices, output, builtFrom, jobKills>>

WriteRejected ==
    /\ job.step = "quarantine"
    /\ rejects' = [rejects EXCEPT ![Head(job.left)] = Refused(Head(job.left))]
    /\ job' = [job EXCEPT !.step = "read", !.left = Tail(@), !.events = {}]
    /\ UNCHANGED <<sources, prices, output, builtFrom, jobKills>>

\* also a write that fails: what it has overwritten stays as it is on s3a; locally the old
\* output is moved back, as if the failure had come before
KillJob ==
    /\ job # NoJob /\ jobKills < MaxEnrichmentKills
    /\ jobKills' = jobKills + 1
    /\ job' = NoJob
    /\ UNCHANGED <<sources, prices, output, rejects, builtFrom>>

\* ---- Specification --------------------------------------------------------

EnrichmentInit ==
    /\ sources = [d \in DatasetSet |-> {}]
    /\ prices = {}
    /\ output = [d \in DatasetSet |-> {}]
    /\ rejects = [d \in DatasetSet |-> {}]
    /\ job = NoJob
    /\ builtFrom = [d \in DatasetSet |-> [prices |-> {}, events |-> {}]]
    /\ jobKills = 0

EnrichmentNext ==
    \/ NewPrice
    \/ \E d \in DatasetSet : NewEvent(d)
    \/ StartJob
    \/ SkipDataset
    \/ ReadEvents
    \/ FailDataset
    \/ OverwriteOutput
    \/ WriteOutput
    \/ OverwriteRejected
    \/ WriteRejected
    \/ FinishJob
    \/ KillJob

EnrichmentSpec == EnrichmentInit /\ [][EnrichmentNext]_enrichmentVars

\* ---- Properties -----------------------------------------------------------

\* the prices of the asset in the window before the event
InWindow(event, leg, observations) ==
    {p \in observations : /\ \E row \in RowsOf(leg.address) : row.asset = p.asset
                          /\ p.at \in (event.at - MaxAge) .. event.at}

\* Every row of an output, also of one a kill has left torn, is of one build, of an event with
\* identity that the build read, and each of its amounts is priced exactly when it can be:
\* with a known time and a valid amount, by the newest price of the window before the event
\* among those the build read, and by none when the window holds none; late prices, events
\* and kills do not mix two builds (enrich_event_leg, _build_model).
PricedPointInTime ==
    \A d \in DatasetSet :
       /\ {row.event : row \in output[d]} \subseteq {e \in builtFrom[d].events : e.id # Unknown}
       /\ \A row \in output[d] : \A i \in DOMAIN row.legs :
             LET leg == row.event.legs[i]
                 window == InWindow(row.event, leg, builtFrom[d].prices)
             IN  IF row.event.at = Unknown \/ ~ValidAmount(d, leg) \/ window = {}
                 THEN row.legs[i].price = {}
                 ELSE \E p \in window : /\ row.legs[i].price = {p}
                                        /\ \A q \in window : q.at <= p.at

\* every event of one build is in the dataset's output or, without identity, in its quarantine
OutputIsWhole(d) ==
    {row.event : row \in output[d]} = {e \in builtFrom[d].events : e.id # Unknown}

Accounted(d) ==
    /\ OutputIsWhole(d)
    /\ {row.event : row \in rejects[d]} = {e \in builtFrom[d].events : e.id = Unknown}

\* A build that reaches its end leaves no dataset torn, whatever kills of earlier builds and
\* datasets without a source have left behind: each accounts for every event of one build
\* (build_price_enriched_silver's loop, which a failing dataset leaves).
FinishedBuildsAreWhole ==
    job.step = "read" /\ job.left = <<>> => \A d \in DatasetSet : Accounted(d)
===============================================================================
