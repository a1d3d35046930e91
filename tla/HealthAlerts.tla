------------------------------ MODULE HealthAlerts ------------------------------
(***************************************************************************)
(* Freshness and alerts: an evaluation (run_alert_evaluation.py) collects a *)
(* freshness report (run_freshness_checks.py, freshness.py), reads the      *)
(* latest terminal run status (alert_state.py), turns both into conditions  *)
(* and moves one durable alert row a condition with compare-and-set         *)
(* (alerts.py).  It emits the events of its transitions when all are        *)
(* persisted.                                                               *)
(*                                                                          *)
(* The airflow DAG runs one evaluation at a time, and an operator may run   *)
(* the same command beside it, so evaluations overlap.  Meanwhile blocks    *)
(* are produced, forward runs commit and finish, and the warehouse grows    *)
(* old or is refreshed: that is the environment, Produce to Refresh below.  *)
(*                                                                          *)
(* "persisted" is a history of the transitions the table made, "emitted" of *)
(* the events printed, and start, in an evaluation, of what was true when   *)
(* it began.                                                                *)
(***************************************************************************)
EXTENDS Naturals, FiniteSets, Sequences

CONSTANTS
    Evaluators,    \* processes that may run an evaluation
    Order,         \* the alert keys, in the order the code goes through them
    Depth,         \* the confirmation depth below the source head
    WarnLag, StaleLag,   \* the thresholds of the position lag
    MaxCas,        \* max_cas_attempts
    MaxHead, MaxEvals, MaxChanges   \* bounds

ASSUME HealthAssumption ==
    /\ Order \in Seq({"position", "refresh", "failure"})
    /\ Depth \in Nat
    /\ WarnLag \in Nat
    /\ StaleLag \in Nat
    /\ WarnLag < StaleLag
    /\ MaxCas \in Nat \ {0}

VARIABLES
    head,        \* the source's head
    committed,   \* the forward watermark
    latest,      \* latest terminal status of the forward pipeline, or "NONE"
    age,         \* freshness of the last successful warehouse run
    refreshes,   \* how many of those there have been
    changes,     \* environment changes so far
    alert,       \* alert key -> its row of ALERT_STATE
    ev,          \* evaluator -> the local state of its evaluation
    evals,       \* evaluations begun
    persisted, emitted

healthVars == <<head, committed, latest, age, refreshes, changes, alert, ev,
                evals, persisted, emitted>>
envVars == <<head, committed, latest, age, refreshes, changes>>

Keys == {Order[i] : i \in 1..Len(Order)}

Resolved == [state |-> "RESOLVED", severity |-> "NONE", gen |-> 0,
             count |-> 0, version |-> 0]

----------------------------------------------------------------------------
\* ---- Freshness ----

\* calculate_safe_head and position_lag: blocks that are confirmed and not
\* committed, never negative although the head was read before the watermark
Safe(h) == IF h >= Depth THEN h - Depth ELSE 0
Lag(h, c) == IF Safe(h) > c THEN Safe(h) - c ELSE 0

\* classify: inclusive boundaries
Classify(lag) ==
    IF lag >= StaleLag THEN "STALE"
    ELSE IF lag >= WarnLag THEN "WARNING" ELSE "FRESH"

Rank(state) == CASE state = "FRESH" -> 0 [] state = "WARNING" -> 1
                 [] state = "STALE" -> 2

\* Mutant: the watermark is read first and the head afterwards
WatermarkFirst(e) == Lag(head, ev[e].start.committed)

\* collect_freshness: the head is read when the collection starts, and the
\* watermark later
ReportedLag(e) == Lag(ev[e].start.head, committed)

\* pipeline_failure_conditions: no condition without a terminal run
FailureState == CASE latest = "NONE" -> "NONE" [] latest = "FAILED" -> "STALE"
                  [] OTHER -> "FRESH"

----------------------------------------------------------------------------
\* ---- One alert transition ----

Severity(state) == IF state = "STALE" THEN "CRITICAL" ELSE "WARNING"

Event(type, key, gen) == [type |-> type, key |-> key, gen |-> gen]

\* CRITICAL stays until the alert is resolved
StickySeverity(row, state) ==
    IF row.severity = "CRITICAL" THEN "CRITICAL" ELSE Severity(state)

\* decide_alert_transition: the candidate row and the event, if any; an
\* unchanged row is not written at all
Decide(key, row, state) ==
    LET resolved == [row EXCEPT !.state = "RESOLVED", !.version = @ + 1]
        opened == [state |-> "OPEN", severity |-> Severity(state),
                   gen |-> row.gen + 1, count |-> 1, version |-> row.version + 1]
        severity == StickySeverity(row, state)
        observed == [row EXCEPT !.severity = severity, !.count = @ + 1,
                                !.version = @ + 1]
    IN  IF state = "FRESH"
        THEN IF row.state = "RESOLVED"
             THEN [row |-> row, events |-> {}]
             ELSE [row |-> resolved, events |-> {Event("RESOLVED", key, row.gen)}]
        ELSE IF row.state = "RESOLVED"
        THEN [row |-> opened, events |-> {Event("OPENED", key, opened.gen)}]
        ELSE [row |-> observed,
              events |-> IF row.severity = "WARNING" /\ severity = "CRITICAL"
                         THEN {Event("ESCALATED", key, row.gen)} ELSE {}]

----------------------------------------------------------------------------
\* ---- The evaluation ----

Off == [pc |-> "off", eval |-> 0,
        start |-> [head |-> 0, committed |-> 0, refreshes |-> 0, lag |-> 0],
        conds |-> [k \in Keys |-> "NONE"], at |-> 1, tries |-> 0,
        row |-> Resolved, events |-> {}]

\* the command takes its observation time and reads the source's head
Begin(e) ==
    /\ ev[e].pc = "off"
    /\ evals < MaxEvals
    /\ evals' = evals + 1
    /\ ev' = [ev EXCEPT ![e] = [Off EXCEPT !.pc = "collect", !.eval = evals + 1,
                 !.start = [head |-> head, committed |-> committed,
                            refreshes |-> refreshes,
                            lag |-> Lag(head, committed)]]]
    /\ UNCHANGED <<envVars, alert, persisted, emitted>>

\* the watermark and the last refresh are read and classified.  A refresh that
\* finished since the observation time lies in the future of it, and
\* age_seconds refuses it: the evaluation ends without a condition.
Collect(e) ==
    /\ ev[e].pc = "collect"
    /\ IF refreshes = ev[e].start.refreshes
       THEN ev' = [ev EXCEPT ![e].pc = "status",
                      ![e].conds = [k \in Keys |->
                          CASE k = "position" -> Classify(ReportedLag(e))
                            [] k = "refresh" -> age
                            [] k = "failure" -> "NONE"]]
       ELSE ev' = [ev EXCEPT ![e] = Off]
    /\ UNCHANGED <<envVars, alert, evals, persisted, emitted>>

\* latest_pipeline_statuses
ReadStatus(e) ==
    /\ ev[e].pc = "status"
    /\ ev' = [ev EXCEPT ![e].pc = "get",
                 ![e].conds = [k \in Keys |-> IF k = "failure" THEN FailureState
                                              ELSE ev[e].conds[k]]]
    /\ UNCHANGED <<envVars, alert, evals, persisted, emitted>>

\* the next condition of evaluate_alerts, or the end of the loop
Advance(e) == [ev[e] EXCEPT !.at = @ + 1, !.tries = 0, !.row = Resolved,
                            !.pc = "get"]

Key(e) == Order[ev[e].at]
Decision(e) == Decide(Key(e), ev[e].row, ev[e].conds[Key(e)])

Get(e) ==
    /\ ev[e].pc = "get"
    /\ ev[e].at <= Len(Order)
    /\ ev[e].conds[Key(e)] # "NONE"
    /\ LET row == alert[Key(e)]
       IN  IF Decide(Key(e), row, ev[e].conds[Key(e)]).row = row
           THEN ev' = [ev EXCEPT ![e] = Advance(e)]
           ELSE ev' = [ev EXCEPT ![e].row = row, ![e].pc = "cas"]
    /\ UNCHANGED <<envVars, alert, evals, persisted, emitted>>

\* a key without a condition is passed over
SkipKey(e) ==
    /\ ev[e].pc = "get"
    /\ ev[e].at <= Len(Order)
    /\ ev[e].conds[Key(e)] = "NONE"
    /\ ev' = [ev EXCEPT ![e] = Advance(e)]
    /\ UNCHANGED <<envVars, alert, evals, persisted, emitted>>

\* Mutant: an UPDATE without "AND state_version = expected_version"
AnyVersion(e) == TRUE

\* compare_and_set: the row still has the version that was read
VersionMatches(e) == alert[Key(e)].version = ev[e].row.version

\* the transition is persisted, and its event kept for the end
CompareAndSet(e) ==
    /\ ev[e].pc = "cas"
    /\ VersionMatches(e)
    /\ alert' = [alert EXCEPT ![Key(e)] = Decision(e).row]
    /\ persisted' = persisted \cup Decision(e).events
    /\ ev' = [ev EXCEPT ![e] = [Advance(e) EXCEPT
                                  !.events = @ \cup Decision(e).events]]
    /\ UNCHANGED <<envVars, evals, emitted>>

\* Mutant: the decision is appended before the compare-and-set can refuse it
ReportedConflict(e) ==
    /\ ev[e].pc = "cas"
    /\ ~VersionMatches(e)
    /\ ev' = [ev EXCEPT ![e].pc = "get", ![e].tries = @ + 1,
                        ![e].events = @ \cup Decision(e).events]
    /\ UNCHANGED <<envVars, alert, evals, persisted, emitted>>

\* an AlertConcurrencyError: the row is read again and the same condition is
\* applied to it, or the evaluation is given up with all its events
VersionConflict(e) ==
    /\ ev[e].pc = "cas"
    /\ ~VersionMatches(e)
    /\ ev' = IF ev[e].tries + 1 = MaxCas THEN [ev EXCEPT ![e] = Off]
             ELSE [ev EXCEPT ![e].pc = "get", ![e].tries = @ + 1]
    /\ UNCHANGED <<envVars, alert, evals, persisted, emitted>>

\* the payload is printed, once, after the loop
Emit(e) ==
    /\ ev[e].pc = "get"
    /\ ev[e].at > Len(Order)
    /\ emitted' = emitted \cup {<<ev[e].eval, x>> : x \in ev[e].events}
    /\ ev' = [ev EXCEPT ![e] = Off]
    /\ UNCHANGED <<envVars, alert, evals, persisted>>

\* a failed query, a timeout or a kill: events not yet printed are lost
Abandon(e) ==
    /\ ev[e].pc \notin {"off"}
    /\ ev' = [ev EXCEPT ![e] = Off]
    /\ UNCHANGED <<envVars, alert, evals, persisted, emitted>>

----------------------------------------------------------------------------
\* ---- The environment ----

Change ==
    /\ changes < MaxChanges
    /\ changes' = changes + 1
    /\ UNCHANGED <<alert, ev, evals, persisted, emitted>>

Produce ==
    /\ Change
    /\ head < MaxHead
    /\ head' = head + 1
    /\ UNCHANGED <<committed, latest, age, refreshes>>

\* a forward run ends: it has committed the safe head, or failed
FinishForward ==
    /\ Change
    /\ \/ /\ latest' = "SUCCEEDED"
          /\ committed' = IF Safe(head) > committed THEN Safe(head) ELSE committed
       \/ /\ latest' = "FAILED"
          /\ UNCHANGED committed
    /\ UNCHANGED <<head, age, refreshes>>

\* time passes without a warehouse run
GrowOld ==
    /\ Change
    /\ age # "STALE"
    /\ age' = IF age = "FRESH" THEN "WARNING" ELSE "STALE"
    /\ UNCHANGED <<head, committed, latest, refreshes>>

\* the daily warehouse run succeeds
Refresh ==
    /\ Change
    /\ age' = "FRESH"
    /\ refreshes' = refreshes + 1
    /\ UNCHANGED <<head, committed, latest>>

----------------------------------------------------------------------------
\* ---- The specification ----

\* the backlog has already reached the warning threshold
HealthInit ==
    /\ head = Depth + WarnLag
    /\ committed = 0
    /\ latest = "NONE"
    /\ age = "FRESH"
    /\ refreshes = 0
    /\ changes = 0
    /\ alert = [k \in Keys |-> Resolved]
    /\ ev = [e \in Evaluators |-> Off]
    /\ evals = 0
    /\ persisted = {}
    /\ emitted = {}

HealthNext ==
    \/ \E e \in Evaluators :
          \/ Begin(e) \/ Collect(e) \/ ReadStatus(e) \/ Get(e) \/ SkipKey(e)
          \/ CompareAndSet(e) \/ VersionConflict(e) \/ Emit(e) \/ Abandon(e)
    \/ Produce \/ FinishForward \/ GrowOld \/ Refresh

HealthSpec == HealthInit /\ [][HealthNext]_healthVars

----------------------------------------------------------------------------
\* ---- Properties ----

\* While an alert stays open its severity only rises: an evaluation that read
\* a WARNING row before another made it CRITICAL cannot write WARNING back.
CriticalIsSticky ==
    [][\A k \in Keys :
          alert[k].state = "OPEN" /\ alert[k].severity = "CRITICAL"
             => alert'[k].severity = "CRITICAL" /\ alert'[k].gen = alert[k].gen]_healthVars

\* Of the evaluations that race for one transition of an incident, only the
\* one that persisted it reports it: no event is emitted twice, and none that
\* the table has not made.
EventsAreEmittedOnce ==
    /\ \A x \in emitted : x[2] \in persisted
    /\ \A x, y \in emitted : x[2] = y[2] => x = y

\* A report that was put together while a forward run committed does not
\* overstate the backlog: the lag it is based on had been reached already when
\* the evaluation began.
LagIsNotOverstated ==
    \A e \in Evaluators :
        ev[e].pc \in {"status", "get", "cas"} /\ "position" \in Keys
           => Rank(ev[e].conds["position"]) <= Rank(Classify(ev[e].start.lag))
===============================================================================
