------------------------------ MODULE PipelineRuns ------------------------------
(***************************************************************************)
(* The run history CONTROL.PIPELINE_RUNS (warehouse/pipeline_runs.py) and  *)
(* the processes that write it:                                            *)
(*                                                                         *)
(*   - a forward runner, observed by PipelineRunObserver: its row is       *)
(*     inserted RUNNING, its RAW child adds counters to the row, and the   *)
(*     runner finishes the row with the counters it reads back.  Airflow   *)
(*     retries a failed or killed attempt once, under the same run id;     *)
(*   - the daily warehouse DAG: a start command, parallel RAW loads that   *)
(*     each add their counters, a success command, and a failure callback  *)
(*     that a timed-out DAG run fires while its tasks are still dying.     *)
(*                                                                         *)
(* Every write of this table is best effort: its errors are swallowed.     *)
(*                                                                         *)
(* "merged" and "lossy" are not state of the program: they record what the *)
(* loads really merged into RAW and whether a counter write was lost.      *)
(***************************************************************************)
EXTENDS Naturals, FiniteSets

CONSTANTS
    Loads,        \* the RAW load tasks of the daily DAG
    MaxRuns,      \* forward runs, each with its own run id
    MaxAttempts,  \* attempts of one task: 1 + its "retries"
    MaxFaults     \* bound on store errors, failures and kills together

ASSUME HistoryAssumption ==
    /\ IsFiniteSet(Loads)
    /\ MaxRuns \in Nat \ {0}
    /\ MaxAttempts \in Nat \ {0}
    /\ MaxFaults \in Nat

VARIABLES
    rows,     \* identity -> row of PIPELINE_RUNS, or NoRow
    runner,   \* the forward runner's process
    dag,      \* the daily DAG run: its stage, its callback and success command
    load,     \* daily load task -> its state
    merged,   \* identity -> rows its loads inserted into RAW
    lossy,    \* identities one of whose counter writes was lost
    faults    \* faults so far

runVars == <<rows, runner, dag, load, merged, lossy, faults>>

NoRow == [status |-> "ABSENT", inserted |-> 0]
Terminal == {"SUCCEEDED", "FAILED", "NO_OP"}

\* run ids of the forward pipeline, and the daily pipeline's one run
Identities == 0..MaxRuns
DailyRun == 0

----------------------------------------------------------------------------
\* ---- The table ----

\* SnowflakePipelineRunStore.start: INSERT ... WHERE NOT EXISTS.  A second
\* start of an identity is a DuplicateRunError.
CanStart(id) == rows[id].status = "ABSENT"
Started(id) == [rows EXCEPT ![id] = [status |-> "RUNNING", inserted |-> 0]]

\* Mutant: the UPDATE of a terminal transition without "status = 'RUNNING'"
UnguardedFinish(id, status, inserted) ==
    [rows EXCEPT ![id] = IF @.status = "ABSENT" THEN @
                         ELSE [status |-> status, inserted |-> inserted]]

\* SnowflakePipelineRunStore.finish: it overwrites the counters, and changes
\* nothing (RunStateConflictError) unless the row is RUNNING
Finished(id, status, inserted) ==
    [rows EXCEPT ![id] = IF @.status # "RUNNING" THEN @
                         ELSE [status |-> status, inserted |-> inserted]]

\* SnowflakePipelineRunStore.increment_metrics
Incremented(id, n) ==
    [rows EXCEPT ![id].inserted = IF rows[id].status # "RUNNING" THEN @ ELSE @ + n]

\* _record_observability_metrics of one load: the addition is made, or lost
\* because the row is not RUNNING or the store failed
Count(id, n) ==
    \/ /\ rows' = Incremented(id, n)
       /\ lossy' = IF rows[id].status = "RUNNING" THEN lossy
                   ELSE lossy \cup {id}
       /\ UNCHANGED faults
    \/ /\ faults < MaxFaults
       /\ faults' = faults + 1
       /\ lossy' = lossy \cup {id}
       /\ UNCHANGED rows

----------------------------------------------------------------------------
\* ---- The forward runner ----

Idle == [pc |-> "idle", run |-> 0, attempt |-> 0, store |-> FALSE,
         fresh |-> 0, seen |-> 0, outcome |-> "SUCCEEDED"]

\* the stages in which an exception of the pipeline reaches __exit__
Working == {"source", "load", "count", "commit"}

\* PipelineRunObserver.__init__: connect and insert the RUNNING row.  A
\* failed connection or a duplicate identity leaves the run unobserved.
Observe(run, attempt) ==
    \/ /\ rows' = IF CanStart(run) THEN Started(run) ELSE rows
       /\ runner' = [Idle EXCEPT !.pc = "source", !.run = run,
                        !.attempt = attempt, !.store = CanStart(run)]
       /\ UNCHANGED faults
    \/ /\ faults < MaxFaults
       /\ faults' = faults + 1
       /\ runner' = [Idle EXCEPT !.pc = "source", !.run = run,
                        !.attempt = attempt]
       /\ UNCHANGED rows

StartRun ==
    /\ runner.pc = "idle"
    /\ runner.run < MaxRuns
    /\ Observe(runner.run + 1, 1)
    /\ UNCHANGED <<dag, load, merged, lossy>>

\* Airflow's retry: the same command with the same --run-id
RetryRun ==
    /\ runner.pc = "retry"
    /\ Observe(runner.run, runner.attempt + 1)
    /\ UNCHANGED <<dag, load, merged, lossy>>

\* the capture finds new blocks, or is a clean no-op
Capture ==
    /\ runner.pc = "source"
    /\ \/ runner' = [runner EXCEPT !.pc = "load"]
       \/ runner' = [runner EXCEPT !.pc = "combine", !.outcome = "NO_OP"]
    /\ UNCHANGED <<rows, dag, load, merged, lossy, faults>>

\* the RAW child of the runner merges the increment: one row, which a retry
\* finds already in RAW
RunLoad ==
    /\ runner.pc = "load"
    /\ LET n == IF merged[runner.run] = 0 THEN 1 ELSE 0
       IN  /\ merged' = [merged EXCEPT ![runner.run] = @ + n]
           /\ runner' = [runner EXCEPT !.pc = "count", !.fresh = n]
    /\ UNCHANGED <<rows, dag, load, lossy, faults>>

\* the child adds its counters to the row its parent's environment names
RunCount ==
    /\ runner.pc = "count"
    /\ Count(runner.run, runner.fresh)
    /\ runner' = [runner EXCEPT !.pc = "commit"]
    /\ UNCHANGED <<dag, load, merged>>

RunCommit ==
    /\ runner.pc = "commit"
    /\ runner' = [runner EXCEPT !.pc = "combine"]
    /\ UNCHANGED <<rows, dag, load, merged, lossy, faults>>

\* Mutant: the runner finishes with its own counters, and reads none back
OwnCountersOnly ==
    /\ runner.pc = "combine"
    /\ runner' = [runner EXCEPT !.pc = "finish"]
    /\ UNCHANGED <<rows, dag, load, merged, lossy, faults>>

\* aave_forward_metrics: what a runner itself knows of inserted rows
OwnInserted == 0

\* _combined_metrics: the counters the children added are read back.  The
\* runner's own are zero for inserted rows.  A failed read keeps them alone.
Combine ==
    /\ runner.pc = "combine"
    /\ \/ /\ runner' = [runner EXCEPT !.pc = "finish",
                           !.seen = IF runner.store
                                    THEN OwnInserted + rows[runner.run].inserted
                                    ELSE OwnInserted]
          /\ UNCHANGED <<lossy, faults>>
       \/ /\ runner.store
          /\ faults < MaxFaults
          /\ faults' = faults + 1
          /\ lossy' = lossy \cup {runner.run}
          /\ runner' = [runner EXCEPT !.pc = "finish"]
    /\ UNCHANGED <<rows, dag, load, merged>>

\* BestEffortRunRecorder.finish: one guarded transition, or a swallowed error
FinishRun ==
    /\ runner.pc = "finish"
    /\ runner' = [Idle EXCEPT !.run = runner.run]
    /\ \/ /\ rows' = IF runner.store
                     THEN Finished(runner.run, runner.outcome, runner.seen)
                     ELSE rows
          /\ UNCHANGED faults
       \/ /\ runner.store
          /\ faults < MaxFaults
          /\ faults' = faults + 1
          /\ UNCHANGED rows
    /\ UNCHANGED <<dag, load, merged, lossy>>

\* after an attempt that did not succeed: a retry, or the run is over
Ended == IF runner.attempt < MaxAttempts THEN [runner EXCEPT !.pc = "retry"]
         ELSE [Idle EXCEPT !.run = runner.run]

\* an exception of the pipeline: the observer's __exit__ records FAILED, with
\* the empty metrics of recorder.fail, which overwrite the children's
FailRun ==
    /\ runner.pc \in Working
    /\ faults < MaxFaults
    /\ faults' = faults + 1
    /\ rows' = IF runner.store THEN Finished(runner.run, "FAILED", 0) ELSE rows
    /\ runner' = Ended
    /\ lossy' = IF runner.pc = "count" THEN lossy \cup {runner.run} ELSE lossy
    /\ UNCHANGED <<dag, load, merged>>

\* the task is killed (execution_timeout, a lost worker): no __exit__ runs
KillRun ==
    /\ runner.pc \in Working \cup {"combine", "finish"}
    /\ faults < MaxFaults
    /\ faults' = faults + 1
    /\ runner' = Ended
    /\ lossy' = IF runner.pc = "count" THEN lossy \cup {runner.run} ELSE lossy
    /\ UNCHANGED <<rows, dag, load, merged>>

----------------------------------------------------------------------------
\* ---- The daily warehouse DAG ----

\* record_run_start, then validation
DagStart ==
    /\ dag.stage = "off"
    /\ dag' = [dag EXCEPT !.stage = "loads"]
    /\ \/ /\ rows' = IF CanStart(DailyRun) THEN Started(DailyRun) ELSE rows
          /\ UNCHANGED faults
       \/ /\ faults < MaxFaults
          /\ faults' = faults + 1
          /\ UNCHANGED rows
    /\ UNCHANGED <<runner, load, merged, lossy>>

\* a task goes on while its DAG run does, and for a while after a timeout
DagAlive == dag.stage \in {"loads", "timeout"}

\* the rows a load inserts: a retry finds what its first attempt merged
NewRows(l) == IF load[l].in THEN 0 ELSE 1

\* execute_dataset_load: COPY and MERGE commit
LoadMerge(l) ==
    /\ DagAlive
    /\ load[l].pc = "todo"
    /\ load' = [load EXCEPT ![l].pc = "merged", ![l].in = TRUE,
                            ![l].fresh = NewRows(l)]
    /\ merged' = [merged EXCEPT ![DailyRun] =
                     Cardinality({k \in Loads : load'[k].in})]
    /\ UNCHANGED <<rows, runner, dag, lossy, faults>>

LoadCount(l) ==
    /\ DagAlive
    /\ load[l].pc = "merged"
    /\ Count(DailyRun, load[l].fresh)
    /\ load' = [load EXCEPT ![l].pc = "done"]
    /\ UNCHANGED <<runner, dag, merged>>

\* a load fails or is killed, before its MERGE or between it and the counters;
\* Airflow retries it once, and the DAG run fails with it the second time
LoadFail(l) ==
    /\ DagAlive
    /\ load[l].pc \in {"todo", "merged"}
    /\ faults < MaxFaults
    /\ faults' = faults + 1
    /\ load' = [load EXCEPT
                  ![l].pc = IF dag.stage = "loads" /\ load[l].attempt < MaxAttempts
                            THEN "todo" ELSE "failed",
                  ![l].attempt = @ + 1]
    /\ lossy' = IF load[l].pc = "merged" THEN lossy \cup {DailyRun} ELSE lossy
    /\ UNCHANGED <<rows, runner, dag, merged>>

\* all loads are over: the dbt tasks run, or the DAG run has failed.  A dbt
\* task or a test may fail it too.
Transform ==
    /\ dag.stage = "loads"
    /\ \A l \in Loads : load[l].pc \in {"done", "failed"}
    /\ \/ /\ \A l \in Loads : load[l].pc = "done"
          /\ dag' = [dag EXCEPT !.stage = "success", !.success = "get"]
          /\ UNCHANGED faults
       \/ /\ \E l \in Loads : load[l].pc = "failed"
          /\ dag' = [dag EXCEPT !.stage = "failed", !.callback = "get"]
          /\ UNCHANGED faults
       \/ /\ faults < MaxFaults
          /\ faults' = faults + 1
          /\ dag' = [dag EXCEPT !.stage = "failed", !.callback = "get"]
    /\ UNCHANGED <<rows, runner, load, merged, lossy>>

\* dagrun_timeout: the run is failed and its callback fires; running tasks
\* are told to stop and stop later
DagTimeout ==
    /\ dag.stage \in {"loads", "success"}
    /\ faults < MaxFaults
    /\ faults' = faults + 1
    /\ dag' = [dag EXCEPT !.stage = "timeout", !.callback = "get"]
    /\ UNCHANGED <<rows, runner, load, merged, lossy>>

\* finish_run reads the row; it stops when there is none or it is terminal
Read(by) == IF rows[DailyRun].status = "RUNNING" THEN "finish" ELSE "done"

\* ... and then overwrites its status and counters with one guarded UPDATE
FinishDaily(status, seen) ==
    \/ /\ rows' = Finished(DailyRun, status, seen)
       /\ UNCHANGED faults
    \/ /\ faults < MaxFaults
       /\ faults' = faults + 1
       /\ UNCHANGED rows

SuccessGet ==
    /\ dag.success = "get"
    /\ dag' = [dag EXCEPT !.success = Read("success"),
                          !.successSeen = rows[DailyRun].inserted]
    /\ UNCHANGED <<rows, runner, load, merged, lossy, faults>>

SuccessFinish ==
    /\ dag.success = "finish"
    /\ dag' = [dag EXCEPT !.success = "done"]
    /\ FinishDaily("SUCCEEDED", dag.successSeen)
    /\ UNCHANGED <<runner, load, merged, lossy>>

CallbackGet ==
    /\ dag.callback = "get"
    /\ dag' = [dag EXCEPT !.callback = Read("callback"),
                          !.callbackSeen = rows[DailyRun].inserted]
    /\ UNCHANGED <<rows, runner, load, merged, lossy, faults>>

CallbackFinish ==
    /\ dag.callback = "finish"
    /\ dag' = [dag EXCEPT !.callback = "done"]
    /\ FinishDaily("FAILED", dag.callbackSeen)
    /\ UNCHANGED <<runner, load, merged, lossy>>

----------------------------------------------------------------------------
\* ---- The specification ----

RunsInit ==
    /\ rows = [id \in Identities |-> NoRow]
    /\ runner = Idle
    /\ dag = [stage |-> "off", success |-> "no", callback |-> "no",
              successSeen |-> 0, callbackSeen |-> 0]
    /\ load = [l \in Loads |-> [pc |-> "todo", in |-> FALSE, fresh |-> 0,
                                attempt |-> 1]]
    /\ merged = [id \in Identities |-> 0]
    /\ lossy = {}
    /\ faults = 0

RunsNext ==
    \/ StartRun \/ RetryRun \/ Capture \/ RunLoad \/ RunCount \/ RunCommit
    \/ Combine \/ FinishRun \/ FailRun \/ KillRun
    \/ DagStart
    \/ \E l \in Loads : LoadMerge(l) \/ LoadCount(l) \/ LoadFail(l)
    \/ Transform \/ DagTimeout
    \/ SuccessGet \/ SuccessFinish \/ CallbackGet \/ CallbackFinish

RunsSpec == RunsInit /\ [][RunsNext]_runVars

----------------------------------------------------------------------------
\* ---- Properties ----

\* "One guarded transition": a terminal row never changes again, whichever of
\* the success command, the failure callback, a late RAW load or a retry with
\* the same run id writes last.
TerminalIsFinal ==
    [][\A id \in Identities :
          rows[id].status \in Terminal => rows'[id] = rows[id]]_runVars

\* The counters of a run never claim more rows than its loads inserted, and a
\* successful run whose counter writes all reached the table claims exactly
\* them: reading the row back before it is finished loses no child's addition.
CountersMatchWork ==
    \A id \in Identities :
        /\ rows[id].inserted <= merged[id]
        /\ rows[id].status = "SUCCEEDED" /\ id \notin lossy
              => rows[id].inserted = merged[id]
===============================================================================
