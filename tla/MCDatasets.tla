------------------------------ MODULE MCDatasets ------------------------------
(***************************************************************************)
(* The instance TLC checks of the jobs that fill the lake and RAW: the        *)
(* bounded Aave and Chainlink backfills; the log producer, the two Bronze     *)
(* streams with their poller and local Silver; the price enrichment; and the  *)
(* load of one dataset.  Each hands the next only what it has stored, so a    *)
(* behaviour of the instance is one of them, fed by whatever its predecessor  *)
(* may hand over.                                                             *)
(***************************************************************************)
EXTENDS AaveBackfill, ChainlinkBackfill, LogProducer, BronzeStreams, PriceEnrichment, RawLoad

VARIABLE part   \* the component whose behaviour this is

\* a round the proxy never answers well, in a batch with one it does
McMalformed == {<<1, 2>>}

\* the bootstrap contract ends before the malformed round
McFrozen == {<<1, 1>>}

\* two logs of one block, one of the next, one without a block
McBlockOf == <<1, 1, 2, 1, 0>>

\* one feed starts a new round at every block, the other later
McRoundAt == [eth |-> <<1, 2, 3>>, btc |-> <<1, 1, 2>>]

McDatasetOrder == <<"swaps", "borrows">>

McLegsOf == [swaps |-> 2, borrows |-> 1]

McMappingRows == {[address |-> "weth", asset |-> "eth", decimals |-> 1],
                  [address |-> "usdc", asset |-> "usd", decimals |-> 0]}

Leg(address, amount) == [address |-> address, raw |-> amount]

Event(id, at, legs) == [id |-> id, at |-> at, legs |-> legs]

\* a swap both of whose legs can be priced, one with an amount that is no integer and an
\* unmapped token, one without identity and time; a borrow, and one past the calculation type
McEventPool ==
    [swaps |-> {Event(1, 3, <<Leg("weth", {-2}), Leg("usdc", {1})>>),
                Event(2, 4, <<Leg("weth", {}), Leg("pepe", {1})>>),
                Event(Unknown, Unknown, <<Leg("weth", {1}), Leg("usdc", {1})>>)},
     borrows |-> {Event(1, 2, <<Leg("weth", {1})>>),
                  Event(2, 4, <<Leg("weth", {90})>>)}]

\* two rounds of one timestamp among them
McPricePool == {[asset |-> "eth", at |-> 1, round |-> 1], [asset |-> "eth", at |-> 3, round |-> 2],
                [asset |-> "eth", at |-> 3, round |-> 3], [asset |-> "usd", at |-> 2, round |-> 1]}

\* keys shared by two files, a null key, and a file that cannot be read
McRowsIn == [f1 |-> {"k1"}, f2 |-> {"k1", "k2"}, f3 |-> {"k2", "null"}, bad |-> {"k1"}]

vars == <<aaveVars, roundVars, producerVars, streamVars, enrichmentVars, loadVars, part>>

\* the components that stand still start in one of their states
Init ==
    /\ part \in {"aave", "chainlink", "producer", "events", "market", "enrichment", "load"}
    /\ AaveInit /\ RoundsInit
    /\ ProducerInit /\ StreamsInit /\ EnrichmentInit /\ LoadInit
    /\ part # "aave" => aaveHead = 0
    /\ part # "chainlink" => roundAt = CHOOSE feed \in Feeds : TRUE

Next ==
    \/ /\ part = "aave" /\ AaveNext
       /\ UNCHANGED <<roundVars, producerVars, streamVars, enrichmentVars, loadVars, part>>
    \/ /\ part = "chainlink" /\ RoundsNext
       /\ UNCHANGED <<aaveVars, producerVars, streamVars, enrichmentVars, loadVars, part>>
    \/ /\ part = "producer" /\ ProducerNext
       /\ UNCHANGED <<aaveVars, roundVars, streamVars, enrichmentVars, loadVars, part>>
    \/ /\ part = "events" /\ EventsNext
       /\ UNCHANGED <<aaveVars, roundVars, producerVars, enrichmentVars, loadVars, part>>
    \/ /\ part = "market" /\ MarketNext
       /\ UNCHANGED <<aaveVars, roundVars, producerVars, enrichmentVars, loadVars, part>>
    \/ /\ part = "enrichment" /\ EnrichmentNext
       /\ UNCHANGED <<aaveVars, roundVars, producerVars, streamVars, loadVars, part>>
    \/ /\ part = "load" /\ LoadNext
       /\ UNCHANGED <<aaveVars, roundVars, producerVars, streamVars, enrichmentVars, part>>

Spec == Init /\ [][Next]_vars
===============================================================================
