------------------------------ MODULE MCOperations ------------------------------
(***************************************************************************)
(* The instance TLC checks of the operational side: the run history         *)
(* (PipelineRuns), the health evaluation (HealthAlerts) and the audit of    *)
(* what is retained (CorrectionReplay).  They share no state but the        *)
(* statuses that HealthAlerts takes from its environment, so a behaviour of *)
(* the instance is one of the three.                                        *)
(***************************************************************************)
EXTENDS PipelineRuns, HealthAlerts, CorrectionReplay, TLC

VARIABLE part   \* the component whose behaviour this is

\* freshness keys come first, sorted, then the failures
McOrder == <<"refresh", "position", "failure">>

\* evaluators and loads differ in nothing but their names
McSymmetry == Permutations(Evaluators) \cup Permutations(Loads)

vars == <<runVars, healthVars, replayVars, part>>

\* the block whose event may be of a pool that is not verified yet
McForeignBlocks == {2}

\* the components that stand still start in one of their states
Init ==
    /\ part \in {"runs", "health", "replay"}
    /\ RunsInit /\ HealthInit /\ ReplayInit
    /\ ReplayBlocks \ McForeignBlocks \subseteq verified
    /\ part # "replay" => source = "aave"

Next ==
    \/ part = "runs" /\ RunsNext /\ UNCHANGED <<healthVars, replayVars, part>>
    \/ part = "health" /\ HealthNext /\ UNCHANGED <<runVars, replayVars, part>>
    \/ part = "replay" /\ ReplayNext /\ UNCHANGED <<runVars, healthVars, part>>

Spec == Init /\ [][Next]_vars
===============================================================================
