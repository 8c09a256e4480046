---------------------------- MODULE Orchestrator ----------------------------
(***************************************************************************)
(* The agent orchestrator of agents/orchestrator.rs: a task queue, a       *)
(* registry of agents and dispatchers that run start().                    *)
(*                                                                         *)
(* A step is what a dispatcher does between two awaits at which another    *)
(* task of the runtime can interfere.  Of the locks, the RwLock around the *)
(* agent registry (tokio's: a queued writer holds back later readers) and  *)
(* the mutex of each agent are modelled, as they are held across awaits;   *)
(* the others are held for one step.                                       *)
(***************************************************************************)
EXTENDS Naturals, Sequences, FiniteSets

CONSTANTS
    Tasks,          \* the tasks that may be submitted
    Agents,         \* identities of agents, registered or to be added
    Types,          \* agent types
    TypeOf,         \* the type of each agent
    Initial,        \* the agents initialize() creates, in order
    Enabled,        \* the agents whose configuration is enabled
    NoType,         \* stands for assigned_agent_type = None
    Wants,          \* assigned_agent_type of each task
    Handlers,       \* per task, the types whose process_task accepts it
    Prio,           \* the priority of each task
    MAX_RETRIES,    \* max_retries of a task (3 in the code)
    DeadLetters,    \* whether dead_letter_path is set
    Dispatchers,    \* the callers of start()
    None,           \* no task or agent at hand
    Hazards,        \* the risky environment steps that are allowed
    MaxFaults       \* bound: failed writes of the dead letters and crashes

HazardKinds == {"add", "remove", "stop", "persist_error", "crash"}

\* The values of TaskPriority, highest first.
Critical == 10
High == 8
Normal == 5
Low == 1

ASSUME OrchestratorAssumption ==
    /\ TypeOf \in [Agents -> Types]
    /\ Initial \in Seq(Agents) /\ Enabled \subseteq Agents
    /\ NoType \notin Types
    /\ Wants \in [Tasks -> Types \cup {NoType}]
    /\ Handlers \in [Tasks -> SUBSET Types]
    /\ Prio \in [Tasks -> {Critical, High, Normal, Low}]
    /\ MAX_RETRIES \in Nat /\ MaxFaults \in Nat
    /\ DeadLetters \in BOOLEAN
    /\ None \notin Tasks \cup Agents
    /\ Hazards \subseteq HazardKinds

VARIABLES
    submitted,   \* history: the tasks submit_task has put in the queue
    pushing,     \* tasks queued by a submit_task that has yet to notify
    queue, inProgress, completed, failed,   \* the four task containers
    retries,     \* retry_count of each task
    attempts,    \* history: how often each task was handed to an agent
    deadLetters, \* the content of the dead letter file
    agents,      \* the registry
    byType,      \* agents_by_type
    status,      \* per agent: its entry in agent_statuses, or "absent"
    load,        \* tasks_in_progress of that entry
    removed,     \* agents that have been removed; identities are not reused
    admin,       \* the add_agent or remove_agent under way
    isRunning, permit,   \* is_running, and the permit task_notify stores
    pc, job, at, \* per dispatcher: its position, its task and its agent
    faults

taskVars == <<submitted, pushing, queue, inProgress, completed, failed,
              retries, attempts, deadLetters>>
agentVars == <<agents, byType, status, load, removed>>
loopVars == <<isRunning, permit>>
vars == <<taskVars, agentVars, admin, loopVars, pc, job, at, faults>>

\* Where a dispatcher is: in start() and process_next_task ("stopped" to
\* "put_back"), in assign_task_to_agent ("assign" to "process"), or in the
\* handling of the result ("persist", "report").
Pcs == {"stopped", "loop", "drain", "sort", "pop", "prefer", "fallback", "scan",
        "put_back", "assign", "lookup", "process", "persist", "report", "notified", "wait"}

\* The positions at which a guard of the registry, or of an agent, is held.
Reading == {"scan", "process", "persist", "report"}
Working == {"process", "persist", "report"}

\* The elements of q that are in S, in their order.
Keep(q, S) ==
    LET kept[i \in 0..Len(q)] ==
            IF i = 0 THEN <<>>
            ELSE IF q[i] \in S THEN Append(kept[i - 1], q[i]) ELSE kept[i - 1]
    IN kept[Len(q)]

Registered == {Initial[i] : i \in DOMAIN Initial}

\* agents_by_type after initialize().
InitialByType == [y \in Types |-> Keep(Initial, {a \in Agents : TypeOf[a] = y})]

\* After initialize() and the call of start() by each dispatcher.
Init ==
    /\ submitted = {} /\ pushing = {}
    /\ queue = <<>> /\ inProgress = {} /\ completed = <<>> /\ failed = <<>>
    /\ retries = [t \in Tasks |-> 0] /\ attempts = [t \in Tasks |-> 0]
    /\ deadLetters = <<>>
    /\ agents = Registered
    /\ byType = InitialByType
    /\ status = [a \in Agents |-> IF a \in Registered THEN "Idle" ELSE "absent"]
    /\ load = [a \in Agents |-> 0]
    /\ removed = {}
    /\ admin = [op |-> "none", agent |-> None]
    /\ isRunning = TRUE /\ permit = FALSE
    /\ pc = [d \in Dispatchers |-> "loop"]
    /\ job = [d \in Dispatchers |-> None] /\ at = [d \in Dispatchers |-> None]
    /\ faults = 0

\* RwLock::read on the registry: a writer that is queued goes first.
CanRead == admin.op \notin {"adding", "removing"}
\* The mutex of agent a is free.
Free(a) == \A d \in Dispatchers : pc[d] \in Working => at[d] # a

Goto(d, from, to) == pc[d] = from /\ pc' = [pc EXCEPT ![d] = to]

-----------------------------------------------------------------------------
(* Submission.                                                             *)

\* The push_back of submit_task.
Submit(t) ==
    /\ t \notin submitted
    /\ submitted' = submitted \cup {t}
    /\ queue' = Append(queue, t)
    /\ pushing' = pushing \cup {t}
    /\ UNCHANGED <<inProgress, completed, failed, retries, attempts, deadLetters,
                   agentVars, admin, loopVars, pc, job, at, faults>>

\* Mutated form of NotifyOne: only a dispatcher that waits now is told.
NotifyWaiters ==
    /\ UNCHANGED permit
    /\ \/ \E d \in Dispatchers : Goto(d, "wait", "loop")
       \/ (\A d \in Dispatchers : pc[d] # "wait") /\ UNCHANGED pc

\* notify_one: wakes a dispatcher that waits, or leaves a permit.
NotifyOne ==
    \/ \E d \in Dispatchers : Goto(d, "wait", "loop") /\ UNCHANGED permit
    \/ /\ \A d \in Dispatchers : pc[d] # "wait"
       /\ permit' = TRUE /\ UNCHANGED pc

Notify(t) ==
    /\ t \in pushing
    /\ pushing' = pushing \ {t}
    /\ NotifyOne
    /\ UNCHANGED <<submitted, queue, inProgress, completed, failed, retries,
                   attempts, deadLetters, agentVars, admin, isRunning, job, at,
                   faults>>

-----------------------------------------------------------------------------
(* The loop of start() and process_next_task.                              *)

\* start() is called again after it has ended.
Start(d) ==
    /\ Goto(d, "stopped", "loop")
    /\ isRunning' = TRUE
    /\ UNCHANGED <<taskVars, agentVars, admin, permit, job, at, faults>>

\* while *is_running
Loop(d) ==
    /\ Goto(d, "loop", IF isRunning THEN "drain" ELSE "stopped")
    /\ UNCHANGED <<taskVars, agentVars, admin, loopVars, job, at, faults>>

\* An empty queue ends the inner loop.
Drain(d) ==
    /\ Goto(d, "drain", IF queue = <<>> THEN "notified" ELSE "sort")
    /\ UNCHANGED <<taskVars, agentVars, admin, loopVars, job, at, faults>>

\* notified() takes a stored permit, or waits for the next notification.
Notified(d) ==
    /\ Goto(d, "notified", IF permit THEN "loop" ELSE "wait")
    /\ permit' = FALSE
    /\ UNCHANGED <<taskVars, agentVars, admin, isRunning, job, at, faults>>

\* sort_by on the priority, highest first; it is stable.
OfPrio(q, p) == Keep(q, {t \in Tasks : Prio[t] = p})
ByPriority(q) == OfPrio(q, Critical) \o OfPrio(q, High) \o OfPrio(q, Normal)
                    \o OfPrio(q, Low)

Sort(d) ==
    /\ Goto(d, "sort", "pop")
    /\ queue' = ByPriority(queue)
    /\ UNCHANGED <<submitted, pushing, inProgress, completed, failed, retries,
                   attempts, deadLetters, agentVars, admin, loopVars, job, at,
                   faults>>

\* pop_front, under a lock taken anew; another dispatcher may have emptied
\* the queue.
Pop(d) ==
    /\ \/ /\ queue # <<>>
          /\ Goto(d, "pop", "prefer")
          /\ job' = [job EXCEPT ![d] = Head(queue)]
          /\ queue' = Tail(queue)
       \/ /\ queue = <<>>
          /\ Goto(d, "pop", "drain") /\ UNCHANGED <<queue, job>>
    /\ UNCHANGED <<submitted, pushing, inProgress, completed, failed, retries,
                   attempts, deadLetters, agentVars, admin, loopVars, at, faults>>

-----------------------------------------------------------------------------
(* find_available_agent.  No agent reports a status other than Idle between *)
(* its initialization and its removal, so that is_agent_available waits for *)
(* the agent's mutex and then tells whether it is enabled.                  *)

Available == agents \cap Enabled

\* The available agents of the wanted type, in the order of registration.
Preferred(t) ==
    IF Wants[t] = NoType THEN <<>> ELSE Keep(byType[Wants[t]], Available)

Choose(d, from, a) ==
    /\ Free(a)
    /\ Goto(d, from, "assign")
    /\ at' = [at EXCEPT ![d] = a]

\* The first available agent of the wanted type, else the fallback.
Prefer(d) ==
    /\ CanRead /\ pc[d] = "prefer"
    /\ LET found == Preferred(job[d]) IN
       \/ found # <<>> /\ Choose(d, "prefer", Head(found))
       \/ found = <<>> /\ Goto(d, "prefer", "fallback") /\ UNCHANGED at
    /\ UNCHANGED <<taskVars, agentVars, admin, loopVars, job, faults>>

\* The fallback takes a read guard of the registry and keeps it.
Fallback(d) ==
    /\ CanRead
    /\ Goto(d, "fallback", "scan")
    /\ UNCHANGED <<taskVars, agentVars, admin, loopVars, job, at, faults>>

\* Under that guard, is_agent_available takes a second one for every agent;
\* the registry is a HashMap, and any available agent may come first.
Scan(d) ==
    /\ \/ /\ CanRead
          /\ \E a \in Available : Choose(d, "scan", a)
       \/ /\ agents = {} \/ CanRead
          /\ Available = {}
          /\ Goto(d, "scan", "put_back") /\ UNCHANGED at
    /\ UNCHANGED <<taskVars, agentVars, admin, loopVars, job, faults>>

\* Mutated form of PutBack: the task is dropped.
PutBackNowhere(d) ==
    /\ Goto(d, "put_back", "drain")
    /\ job' = [job EXCEPT ![d] = None]
    /\ UNCHANGED <<taskVars, agentVars, admin, loopVars, at, faults>>

\* No agent is available: push_front.
PutBack(d) ==
    /\ Goto(d, "put_back", "drain")
    /\ queue' = <<job[d]>> \o queue
    /\ job' = [job EXCEPT ![d] = None]
    /\ UNCHANGED <<submitted, pushing, inProgress, completed, failed, retries,
                   attempts, deadLetters, agentVars, admin, loopVars, at, faults>>

-----------------------------------------------------------------------------
(* assign_task_to_agent and the handling of its outcome.                   *)

Assign(d) ==
    /\ Goto(d, "assign", "lookup")
    /\ inProgress' = inProgress \cup {job[d]}
    /\ UNCHANGED <<submitted, pushing, queue, completed, failed, retries,
                   attempts, deadLetters, agentVars, admin, loopVars, job, at,
                   faults>>

\* The agent is still registered: its entry becomes Busy, and both guards
\* are held until the outcome has been handled.
Lookup(d) ==
    /\ CanRead /\ at[d] \in agents /\ Free(at[d])
    /\ Goto(d, "lookup", "process")
    /\ attempts' = [attempts EXCEPT ![job[d]] = @ + 1]
    /\ IF status[at[d]] = "absent" THEN UNCHANGED <<status, load>>
       ELSE /\ status' = [status EXCEPT ![at[d]] = "Busy"]
            /\ load' = [load EXCEPT ![at[d]] = @ + 1]
    /\ UNCHANGED <<submitted, pushing, queue, inProgress, completed, failed,
                   retries, deadLetters, agents, byType, removed, admin,
                   loopVars, job, at, faults>>

\* The agent has been removed since it was chosen: the function returns Ok
\* and the task stays in in_progress_tasks.
LookupFails(d) ==
    /\ CanRead /\ at[d] \notin agents
    /\ Goto(d, "lookup", "drain")
    /\ job' = [job EXCEPT ![d] = None] /\ at' = [at EXCEPT ![d] = None]
    /\ UNCHANGED <<taskVars, agentVars, admin, loopVars, faults>>

\* handle_completed_task, up to the status.
Complete(d) ==
    /\ Goto(d, "process", "report")
    /\ TypeOf[at[d]] \in Handlers[job[d]]
    /\ inProgress' = inProgress \ {job[d]}
    /\ completed' = Append(completed, job[d])
    /\ job' = [job EXCEPT ![d] = None]
    /\ UNCHANGED <<submitted, pushing, queue, failed, retries, attempts,
                   deadLetters, agentVars, admin, loopVars, at, faults>>

\* Mutated forms of CanRetry: one retry too many, one too few.
CanRetryOnceMore(t) == retries[t] <= MAX_RETRIES
CanRetryOnceLess(t) == retries[t] + 1 < MAX_RETRIES

CanRetry(t) == retries[t] < MAX_RETRIES

\* handle_failed_task, up to the dead letters: back to the front of the
\* queue, or to the failed tasks.
Fail(d) ==
    /\ Goto(d, "process", IF DeadLetters THEN "persist" ELSE "report")
    /\ inProgress' = inProgress \ {job[d]}
    /\ IF CanRetry(job[d])
       THEN /\ retries' = [retries EXCEPT ![job[d]] = @ + 1]
            /\ queue' = <<job[d]>> \o queue
            /\ UNCHANGED failed
       ELSE /\ failed' = Append(failed, job[d])
            /\ UNCHANGED <<retries, queue>>
    /\ job' = [job EXCEPT ![d] = None]
    /\ UNCHANGED <<submitted, pushing, completed, attempts, deadLetters,
                   agentVars, admin, loopVars, at, faults>>

\* Mutated form of Persist: only the latest failed task is written.
PersistLast(d) ==
    /\ Goto(d, "persist", "report")
    /\ deadLetters' = IF failed = <<>> THEN <<>> ELSE <<failed[Len(failed)]>>
    /\ UNCHANGED <<submitted, pushing, queue, inProgress, completed, failed,
                   retries, attempts, agentVars, admin, loopVars, job, at, faults>>

\* persist_failed_tasks writes the whole list over the file.
Persist(d) ==
    /\ Goto(d, "persist", "report")
    /\ deadLetters' = failed
    /\ UNCHANGED <<submitted, pushing, queue, inProgress, completed, failed,
                   retries, attempts, agentVars, admin, loopVars, job, at, faults>>

Fault == faults < MaxFaults /\ faults' = faults + 1

\* The file cannot be written: the error skips the status update and is
\* passed on by process_next_task and start(), which ends.
PersistFails(d) ==
    /\ "persist_error" \in Hazards /\ Fault
    /\ Goto(d, "persist", "stopped")
    /\ at' = [at EXCEPT ![d] = None]
    /\ UNCHANGED <<taskVars, agentVars, admin, loopVars, job>>

\* Mutated forms of Report: the count of tasks in progress is left as it is;
\* one task is taken per notification.
ReportWithoutCount(d) ==
    /\ Goto(d, "report", "drain")
    /\ IF status[at[d]] = "absent" THEN UNCHANGED status
       ELSE status' = [status EXCEPT ![at[d]] = "Idle"]
    /\ at' = [at EXCEPT ![d] = None]
    /\ UNCHANGED <<taskVars, agents, byType, load, removed, admin, loopVars, job,
                   faults>>

ReportThenSleep(d) ==
    /\ Goto(d, "report", "notified")
    /\ IF status[at[d]] = "absent" THEN UNCHANGED <<status, load>>
       ELSE /\ status' = [status EXCEPT ![at[d]] = "Idle"]
            /\ load' = [load EXCEPT ![at[d]] = IF @ > 0 THEN @ - 1 ELSE 0]
    /\ at' = [at EXCEPT ![d] = None]
    /\ UNCHANGED <<taskVars, agents, byType, removed, admin, loopVars, job, faults>>

\* The agent's entry becomes Idle again, and the guards are released.
Report(d) ==
    /\ Goto(d, "report", "drain")
    /\ IF status[at[d]] = "absent" THEN UNCHANGED <<status, load>>
       ELSE /\ status' = [status EXCEPT ![at[d]] = "Idle"]
            /\ load' = [load EXCEPT ![at[d]] = IF @ > 0 THEN @ - 1 ELSE 0]
    /\ at' = [at EXCEPT ![d] = None]
    /\ UNCHANGED <<taskVars, agents, byType, removed, admin, loopVars, job, faults>>

-----------------------------------------------------------------------------
(* The registry, stop() and crashes.                                       *)

Administrating == UNCHANGED <<taskVars, loopVars, pc, job, at, faults>>

\* add_agent or remove_agent queues for the write lock of the registry.
Request(op, a) ==
    /\ admin.op = "none"
    /\ \/ op = "adding" /\ "add" \in Hazards /\ a \notin agents \cup removed
       \/ op = "removing" /\ "remove" \in Hazards /\ a \in agents
    /\ admin' = [op |-> op, agent |-> a]
    /\ UNCHANGED agentVars /\ Administrating

\* It gets the lock when the readers have gone; the shutdown of a removed
\* agent happens under the lock and succeeds.
Write ==
    /\ \A d \in Dispatchers : pc[d] \notin Reading
    /\ \/ /\ admin.op = "adding"
          /\ agents' = agents \cup {admin.agent}
          /\ admin' = [admin EXCEPT !.op = "added"]
          /\ UNCHANGED removed
       \/ /\ admin.op = "removing"
          /\ agents' = agents \ {admin.agent}
          /\ removed' = removed \cup {admin.agent}
          /\ admin' = [admin EXCEPT !.op = "removed"]
    /\ UNCHANGED <<byType, status, load>> /\ Administrating

\* agents_by_type and agent_statuses follow, after the registry was unlocked.
Register ==
    /\ LET a == admin.agent IN
       \/ /\ admin.op = "added"
          /\ byType' = [byType EXCEPT ![TypeOf[a]] = Append(@, a)]
          /\ status' = [status EXCEPT ![a] = "Idle"]
          /\ load' = [load EXCEPT ![a] = 0]
       \/ /\ admin.op = "removed"
          /\ byType' = [y \in Types |-> Keep(byType[y], Agents \ {a})]
          /\ status' = [status EXCEPT ![a] = "absent"]
          /\ load' = [load EXCEPT ![a] = 0]
    /\ admin' = [op |-> "none", agent |-> None]
    /\ UNCHANGED <<agents, removed>> /\ Administrating

\* stop() clears the flag; its shutdown leaves the agents Idle, as
\* remove_agent's does, and nothing notifies the loop.
Stop ==
    /\ "stop" \in Hazards /\ isRunning
    /\ isRunning' = FALSE
    /\ UNCHANGED <<taskVars, agentVars, admin, permit, pc, job, at, faults>>

\* The process dies and starts again.  Only the dead letter file is left,
\* empty if it was being written.
Crash ==
    /\ "crash" \in Hazards /\ Fault
    /\ \/ UNCHANGED deadLetters
       \/ (\E d \in Dispatchers : pc[d] = "persist") /\ deadLetters' = <<>>
    /\ submitted' = {} /\ pushing' = {}
    /\ queue' = <<>> /\ inProgress' = {} /\ completed' = <<>> /\ failed' = <<>>
    /\ retries' = [t \in Tasks |-> 0] /\ attempts' = [t \in Tasks |-> 0]
    /\ agents' = Registered /\ removed' = {}
    /\ byType' = InitialByType
    /\ status' = [a \in Agents |-> IF a \in Registered THEN "Idle" ELSE "absent"]
    /\ load' = [a \in Agents |-> 0]
    /\ admin' = [op |-> "none", agent |-> None]
    /\ isRunning' = TRUE /\ permit' = FALSE
    /\ pc' = [d \in Dispatchers |-> "loop"]
    /\ job' = [d \in Dispatchers |-> None] /\ at' = [d \in Dispatchers |-> None]

-----------------------------------------------------------------------------
Dispatch(d) ==
    \/ Loop(d) \/ Drain(d) \/ Notified(d) \/ Sort(d) \/ Pop(d)
    \/ Prefer(d) \/ Fallback(d) \/ Scan(d) \/ PutBack(d)
    \/ Assign(d) \/ Lookup(d) \/ LookupFails(d)
    \/ Complete(d) \/ Fail(d) \/ Persist(d) \/ PersistFails(d) \/ Report(d)

Admin ==
    \/ \E op \in {"adding", "removing"}, a \in Agents : Request(op, a)
    \/ Write \/ Register

Next ==
    \/ \E t \in Tasks : Submit(t) \/ Notify(t)
    \/ \E d \in Dispatchers : Start(d) \/ Dispatch(d)
    \/ Admin \/ Stop \/ Crash

Spec == Init /\ [][Next]_vars

\* The runtime drives every started function on.  Nothing makes anybody
\* submit a task, change the registry, stop the loop or start it again.
Fairness ==
    /\ \A t \in Tasks : WF_vars(Notify(t))
    /\ \A d \in Dispatchers : WF_vars(Dispatch(d))
    /\ WF_vars(Write \/ Register)

FairSpec == Spec /\ Fairness

-----------------------------------------------------------------------------
(* Properties.                                                             *)

TasksTyped ==
    /\ submitted \subseteq Tasks /\ pushing \subseteq submitted
    /\ queue \in Seq(Tasks) /\ completed \in Seq(Tasks) /\ failed \in Seq(Tasks)
    /\ deadLetters \in Seq(Tasks) /\ inProgress \subseteq Tasks
    /\ retries \in [Tasks -> 0..MAX_RETRIES] /\ attempts \in [Tasks -> Nat]

AgentsTyped ==
    /\ agents \subseteq Agents /\ removed \subseteq Agents
    /\ byType \in [Types -> Seq(Agents)]
    /\ status \in [Agents -> {"absent", "Idle", "Busy"}]
    /\ load \in [Agents -> Nat]
    /\ admin \in [op : {"none", "adding", "added", "removing", "removed"},
                  agent : Agents \cup {None}]

DispatchersTyped ==
    /\ isRunning \in BOOLEAN /\ permit \in BOOLEAN
    /\ pc \in [Dispatchers -> Pcs]
    /\ job \in [Dispatchers -> Tasks \cup {None}]
    /\ at \in [Dispatchers -> Agents \cup {None}]
    /\ faults \in 0..MaxFaults

TypeOK == TasksTyped /\ AgentsTyped /\ DispatchersTyped

Occurrences(s, t) == Cardinality({i \in DOMAIN s : s[i] = t})
Holders(t) == {d \in Dispatchers : job[d] = t}

\* assign_task_to_agent has returned without an agent, and t is left behind.
Stranded(t) == t \in inProgress /\ Holders(t) = {}

\* A submitted task is in exactly one place: once in the queue, in the hands
\* of one dispatcher, completed once, failed once, or left behind when its
\* agent was removed.  Sorting, retrying, putting back, failing to write the
\* dead letters and stopping neither lose nor duplicate one.
AccountedFor(t) ==
    /\ Occurrences(queue, t) + Occurrences(completed, t) + Occurrences(failed, t)
          + Cardinality(Holders(t)) + (IF Stranded(t) THEN 1 ELSE 0)
             = IF t \in submitted THEN 1 ELSE 0
    /\ Stranded(t) => removed # {}

Accounted == \A t \in Tasks : AccountedFor(t)

\* A task is handed to agents at most MAX_RETRIES + 1 times, by however many
\* dispatchers, and is given up after exactly that many (task.rs can_retry).
RetriesUsedUp ==
    \A t \in Tasks :
        /\ attempts[t] <= MAX_RETRIES + 1
        /\ Occurrences(failed, t) > 0 => attempts[t] = MAX_RETRIES + 1

\* The status table tells the truth of the agents that initialize() creates,
\* unless a write of the dead letters has failed: an agent with an entry is
\* Busy, with one task in progress, exactly while a dispatcher has it at work,
\* whatever is removed or added meanwhile.  (An agent that add_agent creates
\* may be at work before its entry appears, as Idle.)
StatusTruthful ==
    faults = 0 => \A a \in Registered : status[a] # "absent" =>
        IF Free(a) THEN status[a] = "Idle" /\ load[a] = 0
                   ELSE status[a] = "Busy" /\ load[a] = 1

\* No wake-up is lost: while the orchestrator runs, tasks are queued and a
\* dispatcher sleeps, a notification is on its way, or another dispatcher has
\* yet to look.  (A failed write of the dead letters ends a dispatcher.)
NoLostWakeup ==
    faults = 0 /\ isRunning /\ queue # <<>> /\ (\E d \in Dispatchers : pc[d] = "wait")
        => \/ permit \/ pushing # {}
           \/ \E d \in Dispatchers : pc[d] \notin {"wait", "stopped"}

\* Between the writes of handle_failed_task the file holds all failed tasks.
DeadLettersComplete ==
    faults = 0 /\ DeadLetters /\ (\A d \in Dispatchers : pc[d] # "persist")
        => deadLetters = failed

\* Every submitted task ends: completed, or failed for good.
EveryTaskEnds ==
    \A t \in Tasks : t \in submitted
        ~> Occurrences(completed, t) + Occurrences(failed, t) > 0

\* A change of the registry that waits for its lock gets it.
AdminEnds == admin.op # "none" ~> admin.op = "none"

=============================================================================
