------------------------------- MODULE TaskDb -------------------------------
(***************************************************************************)
(* Bento's work queue: the PL/pgSQL procedures of taskdb under READ        *)
(* COMMITTED isolation, the agents of the workflow crate that call them,   *)
(* and the API call that starts the job.  One job; its tasks form a DAG    *)
(* that the executor, itself the task "init", creates while it runs.       *)
(*                                                                         *)
(* tasks, job and streams hold committed rows.  A procedure whose          *)
(* statements can see different snapshots takes several steps; its writes  *)
(* become visible at its commit, and the row locks it holds until then     *)
(* follow from pc.  The maint_streams trigger makes a transaction that     *)
(* moves a task into or out of ready or running lock the row of its        *)
(* stream.  A procedure whose statements read nothing that another one     *)
(* could change in between is one step.                                    *)
(*                                                                         *)
(* Left out: the KEY SHARE locks of foreign keys, which only delay other   *)
(* transactions; the order of the locks of a batch of requeued tasks (one  *)
(* task per step here).  The clock is abstract: see RequeueTask.           *)
(***************************************************************************)
EXTENDS Naturals, Sequences, FiniteSets

CONSTANTS
    Task,           \* the tasks of the job
    InitTask,       \* the executor's own task, "init"
    Plan,           \* the other tasks in the order the executor creates them
    Prereqs,        \* task -> its prerequisites
    Stream, StreamOf,
    Agent, ServedBy, \* agent -> the stream it polls (task_stream)
    MaxRetries,     \* task -> max_retries
    MaxFaults       \* bound on crashes, failed runs and premature timeouts

ASSUME TaskDbAssumption ==
    /\ IsFiniteSet(Task)
    /\ InitTask \in Task
    /\ Plan \in Seq(Task \ {InitTask})
    /\ Prereqs \in [Task -> SUBSET Task]
    /\ Prereqs[InitTask] = {}
    /\ \A i \in 1..Len(Plan) : Prereqs[Plan[i]] \subseteq {Plan[j] : j \in 1..(i - 1)}
    /\ \A t \in Task \ {InitTask} : \E i \in 1..Len(Plan) : Plan[i] = t
    /\ \A i, j \in 1..Len(Plan) : Plan[i] = Plan[j] => i = j
    /\ StreamOf \in [Task -> Stream]
    /\ ServedBy \in [Agent -> Stream]
    /\ MaxRetries \in [Task -> Nat]
    /\ MaxFaults \in Nat

VARIABLES
    api,            \* progress of the request that starts the job
    job,            \* jobs.state; "none" before create_job and after the cleanup
    tasks,          \* task -> its row; state "absent" when there is none
    streams,        \* streams with a row
    pc,             \* agent -> where it is in poll_work
    work,           \* agent -> the task request_work gave it
    created,        \* agent -> how many tasks of Plan it created as executor
    notDone,        \* agent -> not_done_count of its create_task
    children,       \* agent -> child_tasks of its update_task_done
    allDone,        \* agent -> unresolved = 0 in its update_task_done
    faults          \* faults so far

dbVars    == <<api, job, tasks, streams>>
agentVars == <<pc, work, created, notDone, children, allDone>>
vars      == <<dbVars, agentVars, faults>>

TaskState == {"pending", "ready", "running", "done", "failed"}
Absent    == [state |-> "absent", waitingOn |-> 0, retries |-> 0]

Init ==
    /\ api = "start"
    /\ job = "none"
    /\ tasks = [t \in Task |-> Absent]
    /\ streams = {}
    /\ pc = [a \in Agent |-> "poll"]
    /\ work = [a \in Agent |-> InitTask]
    /\ created = [a \in Agent |-> 0]
    /\ notDone = [a \in Agent |-> 0]
    /\ children = [a \in Agent |-> {}]
    /\ allDone = [a \in Agent |-> FALSE]
    /\ faults = 0

-----------------------------------------------------------------------------
(* Rows and locks                                                          *)

Exists(t)   == tasks[t].state # "absent"
IsDone(t)   == tasks[t].state = "done"
InFlight(t) == tasks[t].state \in {"ready", "running"}

\* What update_task_done writes to a child: there is no test of its state.
Decremented(row) ==
    [row EXCEPT !.waitingOn = @ - 1,
                !.state = IF row.waitingOn <= 1 THEN "ready" ELSE "pending"]

NextTask(a) == Plan[created[a] + 1]

RowLocks(a) ==
    CASE pc[a] = "create"              -> {NextTask(a)}
      [] pc[a] = "children"            -> {work[a]}
      [] pc[a] \in {"count", "commit"} -> {work[a]} \cup children[a]
      [] OTHER                         -> {}

StreamLocks(a) ==
    CASE pc[a] = "children"            -> {StreamOf[work[a]]}
      [] pc[a] \in {"count", "commit"} ->
            {StreamOf[work[a]]}
              \cup {StreamOf[c] : c \in {x \in children[a] : tasks[x].waitingOn <= 1}}
      [] OTHER                         -> {}

RowsFree(a, ts)    == \A b \in Agent \ {a} : RowLocks(b) \cap ts = {}
StreamsFree(a, ss) == \A b \in Agent \ {a} : StreamLocks(b) \cap ss = {}

\* A task row and, for the trigger, its stream.
Unlocked(t) ==
    \A b \in Agent : t \notin RowLocks(b) /\ StreamOf[t] \notin StreamLocks(b)

Goto(a, label) == pc' = [pc EXCEPT ![a] = label]

-----------------------------------------------------------------------------
(* The API: start_stark, get_or_create_streams                             *)

GetOrCreateStreams ==
    /\ api = "start"
    /\ api' = "streams"
    /\ streams' = Stream
    /\ UNCHANGED <<job, tasks, agentVars, faults>>

\* A foreign key to a stream that is gone: the request fails, the client tries
\* again.
CreateJob ==
    /\ api = "streams"
    /\ IF StreamOf[InitTask] \in streams
       THEN /\ api' = "accepted"
            /\ job' = "running"
            /\ tasks' = [tasks EXCEPT ![InitTask] =
                            [state |-> "ready", waitingOn |-> 0, retries |-> 0]]
       ELSE /\ api' = "start"
            /\ UNCHANGED <<job, tasks>>
    /\ UNCHANGED <<streams, agentVars, faults>>

-----------------------------------------------------------------------------
(* Polling                                                                 *)

Position(t) == IF t = InitTask THEN 0 ELSE CHOOSE i \in 1..Len(Plan) : Plan[i] = t

\* SKIP LOCKED on the stream and on the task; the oldest ready task first.
RequestWork(a, t) ==
    /\ pc[a] = "poll"
    /\ StreamOf[t] = ServedBy[a]
    /\ StreamOf[t] \in streams
    /\ tasks[t].state = "ready"
    /\ Unlocked(t)
    /\ \A u \in Task : (tasks[u].state = "ready" /\ StreamOf[u] = StreamOf[t]) =>
                          Position(t) <= Position(u)
    /\ tasks' = [tasks EXCEPT ![t].state = "running"]
    /\ work' = [work EXCEPT ![a] = t]
    /\ created' = [created EXCEPT ![a] = 0]
    /\ Goto(a, IF t = InitTask THEN "execute" ELSE "work")
    /\ UNCHANGED <<api, job, streams, notDone, children, allDone, faults>>

-----------------------------------------------------------------------------
(* The executor                                                            *)

\* executor looks all its streams up before it creates a task.
GetStreams(a) ==
    /\ pc[a] = "execute"
    /\ Goto(a, IF streams = Stream THEN "plan" ELSE "error")
    /\ UNCHANGED <<dbVars, work, created, notDone, children, allDone, faults>>

NotDoneCountMutant(t) == Cardinality({p \in Prereqs[t] : tasks[p].state = "pending"})
NotDoneCount(t) == Cardinality({p \in Prereqs[t] : ~IsDone(p)})

\* The insertions and the count; a concurrent insertion of the same key is
\* waited for, an existing one fails.
CreateTask(a) ==
    LET t == NextTask(a) IN
    /\ pc[a] = "plan"
    /\ created[a] < Len(Plan)
    /\ RowsFree(a, {t})
    /\ IF Exists(t) \/ job = "none" \/ StreamOf[t] \notin streams
       THEN Goto(a, "error") /\ UNCHANGED notDone
       ELSE Goto(a, "create") /\ notDone' = [notDone EXCEPT ![a] = NotDoneCount(t)]
    /\ UNCHANGED <<dbVars, work, created, children, allDone, faults>>

CreateTaskCommit(a) ==
    LET t == NextTask(a) IN
    /\ pc[a] = "create"
    /\ notDone[a] = 0 => StreamsFree(a, {StreamOf[t]})
    /\ tasks' = [tasks EXCEPT ![t] =
                    [state |-> IF notDone[a] = 0 THEN "ready" ELSE "pending",
                     waitingOn |-> notDone[a], retries |-> 0]]
    /\ created' = [created EXCEPT ![a] = @ + 1]
    /\ Goto(a, "plan")
    /\ UNCHANGED <<api, job, streams, work, notDone, children, allDone, faults>>

-----------------------------------------------------------------------------
(* update_task_done, one action per statement                              *)

RunFinished(a) ==
    \/ pc[a] = "work"
    \/ pc[a] = "plan" /\ created[a] = Len(Plan)

UpdateTaskDone(a) ==
    /\ RunFinished(a)
    /\ Unlocked(work[a])
    /\ Goto(a, IF InFlight(work[a]) THEN "children" ELSE "poll")
    /\ UNCHANGED <<dbVars, work, created, notDone, children, allDone, faults>>

ChildTasks(t) == {c \in Task : t \in Prereqs[c] /\ Exists(c) /\ tasks[c].state # "failed"}

\* The dependencies that are committed now; the children are locked FOR UPDATE.
UpdateChildren(a) ==
    LET cs == ChildTasks(work[a]) IN
    /\ pc[a] = "children"
    /\ RowsFree(a, cs)
    /\ StreamsFree(a, {StreamOf[c] : c \in {x \in cs : tasks[x].waitingOn <= 1}})
    /\ children' = [children EXCEPT ![a] = cs]
    /\ Goto(a, "count")
    /\ UNCHANGED <<dbVars, work, created, notDone, allDone, faults>>

NoneUnresolvedMutant(a) == \A t \in Task \ {work[a]} : ~InFlight(t) /\ t \notin children[a]
NoneUnresolved(a) ==
    \A t \in Task \ {work[a]} : Exists(t) => (IsDone(t) /\ t \notin children[a])

CountUnresolved(a) ==
    /\ pc[a] = "count"
    /\ allDone' = [allDone EXCEPT ![a] = NoneUnresolved(a)]
    /\ Goto(a, "commit")
    /\ UNCHANGED <<dbVars, work, created, notDone, children, faults>>

UpdateTaskDoneCommit(a) ==
    /\ pc[a] = "commit"
    /\ tasks' = [t \in Task |->
                    CASE t = work[a]       -> [tasks[t] EXCEPT !.state = "done"]
                      [] t \in children[a] -> Decremented(tasks[t])
                      [] OTHER             -> tasks[t]]
    /\ job' = IF allDone[a] THEN "done" ELSE job
    /\ Goto(a, "poll")
    /\ UNCHANGED <<api, streams, work, created, notDone, children, allDone, faults>>

-----------------------------------------------------------------------------
(* Failures and retries                                                    *)

\* process_work returned an error.
RunFails(a) ==
    /\ pc[a] \in {"work", "plan"}
    /\ faults < MaxFaults
    /\ faults' = faults + 1
    /\ Goto(a, "error")
    /\ UNCHANGED <<dbVars, work, created, notDone, children, allDone>>

\* The retries are read before, and outside, the transaction that uses them.
ReadRetries(a) ==
    LET t == work[a] IN
    /\ pc[a] = "error"
    /\ Goto(a, IF \/ MaxRetries[t] = 0
                  \/ tasks[t].state = "running" /\ tasks[t].retries + 1 > MaxRetries[t]
               THEN "fail" ELSE "retry")
    /\ UNCHANGED <<dbVars, work, created, notDone, children, allDone, faults>>

Failable(t) == tasks[t].state \in {"ready", "running", "pending"}

\* update_task_failed; a job that is gone has no task that could fail.
TaskFailed(t) ==
    IF Failable(t)
    THEN /\ tasks' = [tasks EXCEPT ![t].state = "failed"]
         /\ job' = "failed"
    ELSE UNCHANGED <<tasks, job>>

RetryableMutant(t) == tasks[t].state \in {"running", "done"}
Retryable(t) == tasks[t].state = "running"

\* update_task_retry, with the update_task_failed it ends in.
TaskRetry(t) ==
    LET retries == tasks[t].retries + 1
        hit     == retries > MaxRetries[t]
    IN
    IF Retryable(t)
    THEN /\ tasks' = [tasks EXCEPT ![t].retries = retries,
                                   ![t].state = IF hit THEN "failed" ELSE "ready"]
         /\ job' = IF hit THEN "failed" ELSE job
    ELSE UNCHANGED <<tasks, job>>

UpdateTaskFailed(a) ==
    /\ pc[a] = "fail"
    /\ Unlocked(work[a])
    /\ TaskFailed(work[a])
    /\ Goto(a, "poll")
    /\ UNCHANGED <<api, streams, work, created, notDone, children, allDone, faults>>

UpdateTaskRetry(a) ==
    /\ pc[a] = "retry"
    /\ Unlocked(work[a])
    /\ TaskRetry(work[a])
    /\ Goto(a, "poll")
    /\ UNCHANGED <<api, streams, work, created, notDone, children, allDone, faults>>

\* The process dies; its transaction rolls back.
Crash(a) ==
    /\ pc[a] # "poll"
    /\ faults < MaxFaults
    /\ faults' = faults + 1
    /\ Goto(a, "poll")
    /\ UNCHANGED <<dbVars, work, created, notDone, children, allDone>>

-----------------------------------------------------------------------------
(* Maintenance                                                             *)

AtWork(t) == \E a \in Agent : pc[a] # "poll" /\ work[a] = t

\* requeue_tasks, for one timed-out task.  A task nobody works on times out in
\* the end; one that is merely slow may.
RequeueTask(t) ==
    /\ Retryable(t)
    /\ Unlocked(t)
    /\ \/ ~AtWork(t) /\ UNCHANGED faults
       \/ AtWork(t) /\ faults < MaxFaults /\ faults' = faults + 1
    /\ TaskRetry(t)
    /\ UNCHANGED <<api, streams, agentVars>>

StuckMutant(t) == tasks[t].state = "pending" /\ tasks[t].waitingOn = 0
Stuck(t) == tasks[t].state = "pending" /\ \A p \in Prereqs[t] : IsDone(p)

FixStuckPendingTasks ==
    LET stuck == {t \in Task : Stuck(t)} IN
    /\ stuck # {}
    /\ \A t \in stuck : Unlocked(t)
    /\ tasks' = [t \in Task |-> IF t \in stuck
                                THEN [tasks[t] EXCEPT !.state = "ready", !.waitingOn = 0]
                                ELSE tasks[t]]
    /\ UNCHANGED <<api, job, streams, agentVars, faults>>

\* The streams no task refers to, now or in a transaction that inserts one: its
\* foreign key would make the deletion fail.
Referenced(s) ==
    \E t \in Task : StreamOf[t] = s /\ (Exists(t) \/ \E a \in Agent : t \in RowLocks(a))

ClearCompletedJobs ==
    /\ \/ /\ job = "done"
          /\ \A a \in Agent : RowLocks(a) = {}
          /\ job' = "none"
          /\ tasks' = [t \in Task |-> Absent]
          /\ streams' = {}
       \/ /\ job # "done"
          /\ \E s \in streams : ~Referenced(s)
          /\ streams' = {s \in streams : Referenced(s)}
          /\ UNCHANGED <<job, tasks>>
    /\ UNCHANGED <<api, agentVars, faults>>

-----------------------------------------------------------------------------
(* The specification                                                       *)

\* What an agent does by itself once it has a task.
AgentStep(a) ==
    \/ GetStreams(a)
    \/ CreateTask(a)
    \/ CreateTaskCommit(a)
    \/ UpdateTaskDone(a)
    \/ UpdateChildren(a)
    \/ CountUnresolved(a)
    \/ UpdateTaskDoneCommit(a)
    \/ ReadRetries(a)
    \/ UpdateTaskFailed(a)
    \/ UpdateTaskRetry(a)

Poll(a) == \E t \in Task : RequestWork(a, t)

Next ==
    \/ GetOrCreateStreams
    \/ CreateJob
    \/ \E a \in Agent : Poll(a) \/ AgentStep(a) \/ RunFails(a) \/ Crash(a)
    \/ \E t \in Task : RequeueTask(t)
    \/ FixStuckPendingTasks
    \/ ClearCompletedJobs

Spec == Init /\ [][Next]_vars

\* Agents poll and carry on with what they do, the requeue and stuck-task
\* monitors of the aux agents run for ever; nothing has to fail.
FairSpec ==
    /\ Spec
    /\ \A a \in Agent : WF_vars(Poll(a)) /\ WF_vars(AgentStep(a))
    /\ \A t \in Task : WF_vars(~AtWork(t) /\ RequeueTask(t))
    /\ WF_vars(FixStuckPendingTasks)

-----------------------------------------------------------------------------
(* Properties                                                              *)

TypeOK ==
    /\ api \in {"start", "streams", "accepted"}
    /\ job \in {"none", "running", "done", "failed"}
    /\ tasks \in [Task -> [state : TaskState \cup {"absent"},
                           waitingOn : Nat, retries : Nat]]
    /\ streams \subseteq Stream
    /\ pc \in [Agent -> {"poll", "execute", "plan", "create", "work", "children",
                         "count", "commit", "error", "retry", "fail"}]
    /\ work \in [Agent -> Task]
    /\ created \in [Agent -> 0..Len(Plan)]
    /\ notDone \in [Agent -> Nat]
    /\ children \in [Agent -> SUBSET Task]
    /\ allDone \in [Agent -> BOOLEAN]
    /\ faults \in 0..MaxFaults

\* No agent is given, and no agent has ever finished, a task whose
\* prerequisites are not all done, however the creation of the task, the
\* completion of its prerequisites and the repair of stuck tasks interleave.
PrereqsDoneFirst ==
    \A t \in Task : (InFlight(t) \/ IsDone(t)) => \A p \in Prereqs[t] : IsDone(p)

\* "No worker should ever un-done a task" (1_taskdb.sql:261): the result of a
\* task, done or failed, stands until the job is cleaned up.
ResultIsFinal ==
    [][\A t \in Task : (tasks[t].state \in {"done", "failed"} /\ job' # "none") =>
                          tasks'[t].state = tasks[t].state]_vars

\* The client of a job that is reported done finds every task of the plan done:
\* no task is created, requeued or left behind after it.
DoneJobIsComplete ==
    job = "done" => \A t \in Task : IsDone(t)

\* A job is reported failed exactly if one of its tasks failed (the API then
\* reads the error of that task).
FailedJobHasFailedTask ==
    job = "failed" <=> \E t \in Task : tasks[t].state = "failed"

\* Every task of a job that is accepted finishes, unless the job fails: a task
\* whose last prerequisite finished while it was created is not lost, and
\* neither is one whose agent died.
TasksFinish ==
    api = "accepted" ~> (job \in {"failed", "none"} \/ \A t \in Task : IsDone(t))

\* "A job is complete" when its state is done (1_taskdb.sql:8): when all its
\* tasks are done it is eventually reported done.
JobCompletes ==
    (\A t \in Task : IsDone(t)) ~> job # "running"

\* 'failed' is "max retries or explicit failure" (1_taskdb.sql:18): without a
\* fault no job fails.
NoFailureWithoutFault == faults = 0 => job # "failed"

=============================================================================
