------------------------------ MODULE Monitor ------------------------------
(***************************************************************************)
(* What is reported of the agents: SystemStatus (agents/status.rs), its    *)
(* reading (get_system_status of agents/orchestrator.rs) and the collector *)
(* of metrics and alerts (monitor/mod.rs), beside the orchestrator's loop, *)
(* which works on one task at a time.  A reading takes the task lists one  *)
(* after the other, under the read lock of the agents' status, which the   *)
(* loop writes at the beginning and at the end of a task.                  *)
(***************************************************************************)
EXTENDS Parts, Integers, Sequences, FiniteSets, FiniteSetsExt, Functions

CONSTANTS
  Agents,
  Jobs,        \* the tasks
  MaxAttempts, \* of a task: max_retries + 1
  MaxReadings, \* collections
  MaxClock,
  Retention    \* retention_hours, in ticks

ASSUME MonitorAssumption ==
  /\ IsFiniteSet(Agents) /\ Agents # {} /\ IsFiniteSet(Jobs) /\ Jobs # {}
  /\ MaxAttempts \in Nat \ {0} /\ MaxReadings \in Nat
  /\ MaxClock \in Nat /\ Retention \in Nat

VARIABLES
  waiting,  \* the task queue
  attempts, \* of each task
  worker,   \* the loop: where it is, its task and agent
  progress, finished, dropped, \* in_progress, completed and failed tasks
  fleet,    \* agent_statuses: status, tasks_processed, tasks_failed
  reader,   \* the collector: where it is, and the status that it reads
  samples,  \* historical_metrics, each with the number of its collection
  gauges,   \* of the exporter
  alerts,
  clock

monitorVars ==
  <<waiting, attempts, worker, progress, finished, dropped, fleet, reader,
    samples, gauges, alerts, clock>>
loopVars == <<waiting, attempts, worker, progress, finished, dropped, fleet>>
collectorVars == <<reader, samples, gauges, alerts, clock>>

AnyJob == CHOOSE j \in Jobs : TRUE
AnyAgent == CHOOSE a \in Agents : TRUE

(* SystemStatus: the agents in error, the failed and all attempts that the  *)
(* agents counted, and the three totals.                                   *)
NoStatus == [errors |-> 0, bad |-> 0, tried |-> 0,
             progress |-> 0, finished |-> 0, dropped |-> 0]

(* update_counts. *)
CountsOf(agents) ==
  LET bad == SumFunction([a \in Agents |-> agents[a].bad])
      ok == SumFunction([a \in Agents |-> agents[a].ok])
  IN [NoStatus EXCEPT !.errors = Cardinality({a \in Agents : agents[a].status = "error"}),
                      !.bad = bad, !.tried = ok + bad]

(* calculate_health_score: 1 less 0.4 of the share of agents in error less  *)
(* 0.3 of the share of failed attempts; whether it is below 1 - tenths/10. *)
ScoreBelow(s, tenths) ==
  LET n == Cardinality(Agents)
      t == Max({s.tried, 1})
  IN 4 * s.errors * t + 3 * s.bad * n > tenths * n * t

(* failure_rate > 0.1, of the totals. *)
RateHigh(f, p) == f > 0 /\ 10 * f > p + f

(* Mutant: the status of the agents is released before the lists are read. *)
HeldBriefly == reader.at = "agents"

(* While the collector holds the read lock of agent_statuses. *)
Held == reader.at \in {"progress", "finished", "dropped", "counted"}

-----------------------------------------------------------------------------
(* The loop: a task is taken, listed as in progress, and its agent is set   *)
(* busy.                                                                   *)
Take(j, a) ==
  /\ Moves("monitor")
  /\ worker.at = "free"
  /\ j \in waiting
  /\ waiting' = waiting \ {j}
  /\ progress' = progress \cup {j}
  /\ worker' = [at |-> "assign", job |-> j, agent |-> a]
  /\ UNCHANGED <<mix, attempts, finished, dropped, fleet, collectorVars>>

SetBusy ==
  /\ worker.at = "assign"
  /\ ~Held
  /\ fleet' = [fleet EXCEPT ![worker.agent].status = "busy"]
  /\ worker' = [worker EXCEPT !.at = "process"]
  /\ UNCHANGED <<mix, waiting, attempts, progress, finished, dropped, collectorVars>>

(* process_task, and the removal from the tasks in progress. *)
Process(result) ==
  /\ worker.at = "process"
  /\ progress' = progress \ {worker.job}
  /\ attempts' = [attempts EXCEPT ![worker.job] = @ + 1]
  /\ worker' = [worker EXCEPT !.at = result]
  /\ UNCHANGED <<mix, waiting, finished, dropped, fleet, collectorVars>>

ListCompleted ==
  /\ worker.at = "ok"
  /\ finished' = finished \cup {worker.job}
  /\ worker' = [worker EXCEPT !.at = "counting ok"]
  /\ UNCHANGED <<mix, waiting, attempts, progress, dropped, fleet, collectorVars>>

ListFailed ==
  /\ worker.at = "bad"
  /\ IF attempts[worker.job] < MaxAttempts
       THEN waiting' = waiting \cup {worker.job} /\ UNCHANGED dropped
       ELSE dropped' = dropped \cup {worker.job} /\ UNCHANGED waiting
  /\ worker' = [worker EXCEPT !.at = "counting bad"]
  /\ UNCHANGED <<mix, attempts, progress, finished, fleet, collectorVars>>

(* Mutant: the agent of a failed task is in error. *)
StatusInError(failed) == IF failed THEN "error" ELSE "idle"

(* update_status at the end of a task, whether it failed or not. *)
StatusAfter(failed) == "idle"

CountTask ==
  LET failed == worker.at = "counting bad" IN
  /\ worker.at \in {"counting ok", "counting bad"}
  /\ ~Held
  /\ fleet' = [fleet EXCEPT ![worker.agent] =
                 [status |-> StatusAfter(failed),
                  ok |-> @.ok + (IF failed THEN 0 ELSE 1),
                  bad |-> @.bad + (IF failed THEN 1 ELSE 0)]]
  /\ worker' = [worker EXCEPT !.at = "free"]
  /\ UNCHANGED <<mix, waiting, attempts, progress, finished, dropped, collectorVars>>

-----------------------------------------------------------------------------
(* collect_metrics reads the status twice: for the sample and the gauges    *)
(* (round 1), and for the alerts (round 2).                                *)
Collect ==
  /\ Moves("monitor")
  /\ reader.at = "idle"
  /\ reader.count < MaxReadings
  /\ reader' = [reader EXCEPT !.at = "agents", !.round = 1, !.count = @ + 1]
  /\ UNCHANGED <<mix, loopVars, samples, gauges, alerts, clock>>

ReadAgents ==
  /\ reader.at = "agents"
  /\ reader' = [reader EXCEPT !.at = "progress", !.status = CountsOf(fleet)]
  /\ UNCHANGED <<mix, loopVars, samples, gauges, alerts, clock>>

(* Mutant: the failed tasks are read before the completed ones. *)
ListsFailedFirst == <<"progress", "dropped", "finished">>

Lists == <<"progress", "finished", "dropped">>

(* The agents' total of a list is replaced by the list's length. *)
WithLength(status, list) ==
  CASE list = "progress" -> [status EXCEPT !.progress = Cardinality(progress)]
    [] list = "finished" -> [status EXCEPT !.finished = Cardinality(finished)]
    [] list = "dropped" -> [status EXCEPT !.dropped = Cardinality(dropped)]

(* The k-th list is read; `bad` is whether the lists, as the last of them   *)
(* is read, hold too many failures (history).                              *)
ReadList(k) ==
  /\ reader.at = Lists[k]
  /\ reader' = [reader EXCEPT
       !.at = IF k < Len(Lists) THEN Lists[k + 1] ELSE "counted",
       !.status = WithLength(@, Lists[k]),
       !.bad = RateHigh(Cardinality(dropped), Cardinality(finished))]
  /\ UNCHANGED <<mix, loopVars, samples, gauges, alerts, clock>>

Release ==
  /\ reader.at = "counted"
  /\ reader' = [reader EXCEPT !.at = "read"]
  /\ UNCHANGED <<mix, loopVars, samples, gauges, alerts, clock>>

(* The sample is pushed, the gauges are set, and the samples older than     *)
(* the retention are dropped.                                              *)
StoreSample ==
  /\ reader.at = "read" /\ reader.round = 1
  /\ samples' = {s \in samples \cup
                      {[at |-> clock, nth |-> reader.count, status |-> reader.status]} :
                   s.at + Retention >= clock}
  /\ gauges' = [errors |-> reader.status.errors]
  /\ reader' = [reader EXCEPT !.at = "agents", !.round = 2]
  /\ UNCHANGED <<mix, loopVars, alerts, clock>>

(* check_alerts: new alerts every time, whatever is active. *)
Raised(s) ==
  {kind \in {"critical", "degraded", "errors", "rate"} :
     \/ kind = "critical" /\ ScoreBelow(s, 5)
     \/ kind = "degraded" /\ ScoreBelow(s, 2) /\ ~ScoreBelow(s, 5)
     \/ kind = "errors" /\ s.errors > 0
     \/ kind = "rate" /\ RateHigh(s.dropped, s.finished)}

CheckAlerts ==
  /\ reader.at = "read" /\ reader.round = 2
  /\ alerts' = alerts \cup
       {[kind |-> k, nth |-> reader.count, resolved |-> FALSE] : k \in Raised(reader.status)}
  /\ reader' = [reader EXCEPT !.at = "idle"]
  /\ UNCHANGED <<mix, loopVars, samples, gauges, clock>>

ResolveAlert(a) ==
  /\ a \in alerts /\ ~a.resolved
  /\ alerts' = (alerts \ {a}) \cup {[a EXCEPT !.resolved = TRUE]}
  /\ UNCHANGED <<mix, loopVars, reader, samples, gauges, clock>>

ClockTick ==
  /\ Moves("monitor")
  /\ clock < MaxClock
  /\ clock' = clock + 1
  /\ UNCHANGED <<mix, loopVars, reader, samples, gauges, alerts>>

MonitorInit ==
  /\ waiting = Jobs
  /\ attempts = [j \in Jobs |-> 0]
  /\ worker = [at |-> "free", job |-> AnyJob, agent |-> AnyAgent]
  /\ progress = {} /\ finished = {} /\ dropped = {}
  /\ fleet = [a \in Agents |-> [status |-> "idle", ok |-> 0, bad |-> 0]]
  /\ reader = [at |-> "idle", round |-> 1, count |-> 0, status |-> NoStatus, bad |-> FALSE]
  /\ samples = {} /\ gauges = [errors |-> 0] /\ alerts = {} /\ clock = 0

MonitorNext ==
  \/ \E j \in waiting, a \in Agents : Take(j, a)
  \/ SetBusy
  \/ \E result \in {"ok", "bad"} : Process(result)
  \/ ListCompleted \/ ListFailed \/ CountTask
  \/ Collect \/ ReadAgents \/ Release \/ StoreSample \/ CheckAlerts
  \/ \E k \in 1 .. 3 : ReadList(k)
  \/ \E a \in alerts : ResolveAlert(a)
  \/ ClockTick

-----------------------------------------------------------------------------
MonitorTypeOK ==
  /\ waiting \cup progress \cup finished \cup dropped \subseteq Jobs
  /\ worker.job \in Jobs /\ worker.agent \in Agents
  /\ \A a \in Agents : fleet[a].status \in {"idle", "busy", "error"}
  /\ clock \in 0 .. MaxClock

Settled == (finished \cup dropped) \ (IF worker.at = "free" THEN {} ELSE {worker.job})

(* A status counts every task but the one in work exactly once, and that    *)
(* one at most twice: the lock on the agents' status keeps the loop from   *)
(* getting on to another task while the lists are read.                    *)
SnapshotOffByOne ==
  reader.at = "counted" =>
    LET s == reader.status
        counted == s.progress + s.finished + s.dropped - Cardinality(Settled)
    IN counted \in 0 .. 2

(* The health score deducts no agent in error, as none ever gets there: it  *)
(* stays at 0.7 or above, and neither the critical alert nor the one about *)
(* agents in error can be raised.                                          *)
NeverCritical ==
  /\ \A a \in alerts : a.kind \in {"degraded", "rate"}
  /\ \A s \in samples : ~ScoreBelow(s.status, 3)

(* Where more than a tenth of the tasks are failed when a check has read    *)
(* them, it raises the alert, although the loop moves tasks between its    *)
(* two readings: they err on the side of the alert.                        *)
FailuresAlarm ==
  reader.at = "counted" /\ reader.bad => "rate" \in Raised(reader.status)
=============================================================================
