--------------------------- MODULE MCPipelineLease ----------------------------
(* PipelineLease for TLC, in hours: two manual runs with the default run id, *)
(* and the scheduled recovery, whose task Airflow kills after three hours.   *)
EXTENDS PipelineLease, TLC

CONSTANTS manual1, manual2, scheduled

MCWorkers == {manual1, manual2, scheduled}
MCRuns == {"manual-uniswap-recovery", "scheduled"}
MCRunOf == (scheduled :> "scheduled") @@ [w \in MCWorkers |-> "manual-uniswap-recovery"]
MCTimeout == (scheduled :> 3) @@ [w \in MCWorkers |-> MaxTime]

\* No manual run is longer than an hour.
MCShortManualRuns == (scheduled :> 3) @@ [w \in MCWorkers |-> 1]

================================================================================
