---------------------------- MODULE TaskDbProofs ----------------------------
(***************************************************************************)
(* Safety of the work queue for every job (every DAG of tasks and every    *)
(* order in which the executor creates them), every assignment of tasks to *)
(* streams and agents, and any number of crashes, failed runs and          *)
(* premature timeouts.                                                     *)
(*                                                                         *)
(* The inductive invariant TInv has four parts.  RowsLockedOnce: two open  *)
(* transactions never hold the same row.  Waits: a pending task waits for  *)
(* at least as many tasks as it has unfinished prerequisites; at least,    *)
(* because a prerequisite that finishes while the task is created does not *)
(* see the task and is not subtracted from the count its creator took      *)
(* earlier.  AgentInv: what an open transaction has read still holds, since*)
(* it holds the rows.  JobInv: what the state of the job says about its    *)
(* tasks.                                                                  *)
(***************************************************************************)
EXTENDS TaskDb, FiniteSetTheorems, TLAPS

Undone(t) == {p \in Prereqs[t] : ~IsDone(p)}

RowsLockedOnce ==
    \A a, b \in Agent : a # b => RowLocks(a) \cap RowLocks(b) = {}

Waiting(t) == tasks[t].state = "pending" => Cardinality(Undone(t)) <= tasks[t].waitingOn
Waits == \A t \in Task : Waiting(t)

Started(t) == InFlight(t) \/ IsDone(t)

\* The states in which update_task_done holds its task.
Finishing(a) == pc[a] \in {"children", "count", "commit"}

Creating(a) ==
    /\ created[a] < Len(Plan)
    /\ job # "none"
    /\ ~Exists(NextTask(a))
    /\ Cardinality(Undone(NextTask(a))) <= notDone[a]

\* The children that update_task_done will decrement are still pending.
ChildrenWait(a) ==
    \A c \in children[a] : work[a] \in Prereqs[c] /\ tasks[c].state = "pending"

AgentInv(a) ==
    /\ pc[a] \in {"execute", "plan", "create"} => work[a] = InitTask
    /\ pc[a] = "work" => work[a] # InitTask
    /\ pc[a] = "execute" => created[a] = 0
    /\ (pc[a] \in {"plan", "create"} /\ job # "none") =>
            \A i \in 1..created[a] : Exists(Plan[i])
    /\ pc[a] = "create" => Creating(a)
    /\ Finishing(a) => InFlight(work[a])
    /\ (Finishing(a) /\ work[a] = InitTask) => \A t \in Task : Exists(t)
    /\ pc[a] \in {"count", "commit"} => ChildrenWait(a)
    /\ (pc[a] = "commit" /\ allDone[a]) => \A t \in Task \ {work[a]} : IsDone(t)

JobInv ==
    /\ api # "accepted" => job = "none" /\ \A a \in Agent : pc[a] = "poll"
    /\ job = "none" => \A t \in Task : tasks[t] = Absent
    /\ job # "none" => Exists(InitTask)
    /\ IsDone(InitTask) => \A t \in Task : Exists(t)
    /\ DoneJobIsComplete
    /\ FailedJobHasFailedTask

TInv ==
    /\ TypeOK
    /\ RowsLockedOnce
    /\ Waits
    /\ PrereqsDoneFirst
    /\ \A a \in Agent : AgentInv(a)
    /\ JobInv

-----------------------------------------------------------------------------
(* The constants and the counts                                            *)

LEMMA Constants ==
    /\ IsFiniteSet(Task) /\ InitTask \in Task
    /\ Plan \in Seq(Task \ {InitTask})
    /\ Prereqs \in [Task -> SUBSET Task] /\ Prereqs[InitTask] = {}
    /\ MaxFaults \in Nat
BY TaskDbAssumption

\* NextTask is a task of the plan as long as there is one to create.
LEMMA PlanTask ==
    /\ Len(Plan) \in Nat
    /\ \A i \in 1..Len(Plan) : Plan[i] \in Task /\ Plan[i] # InitTask
    /\ \A t \in Task : t = InitTask \/ \E i \in 1..Len(Plan) : Plan[i] = t
BY TaskDbAssumption

LEMMA CountIsNat ==
    ASSUME NEW t \in Task
    PROVE  IsFiniteSet(Undone(t)) /\ Cardinality(Undone(t)) \in Nat
<1>1. Undone(t) \in SUBSET Task
  BY Constants DEF Undone
<1>2. QED BY <1>1, Constants, FS_Subset, FS_CardinalityType

\* A step never takes back that a task exists or that it is done.
Monotone == \A t \in Task : (Exists(t) => Exists(t)') /\ (IsDone(t) => IsDone(t)')

LEMMA CountShrinks ==
    ASSUME NEW t \in Task, Monotone
    PROVE  /\ Undone(t)' \subseteq Undone(t)
           /\ Cardinality(Undone(t)') <= Cardinality(Undone(t))
           /\ Cardinality(Undone(t)') \in Nat
<1>1. Undone(t)' \subseteq Undone(t)
  BY Constants DEF Undone, Monotone
<1>2. QED
  BY <1>1, CountIsNat, FS_Subset, FS_CardinalityType

\* The prerequisite p of t finishes.
LEMMA CountDecrements ==
    ASSUME NEW t \in Task, Monotone, NEW p \in Undone(t), IsDone(p)'
    PROVE  /\ Cardinality(Undone(t)) >= 1
           /\ Cardinality(Undone(t)') <= Cardinality(Undone(t)) - 1
           /\ Cardinality(Undone(t)') \in Nat
<1>1. Undone(t)' \subseteq Undone(t) \ {p}
  BY CountShrinks DEF Undone
<1>2. IsFiniteSet(Undone(t) \ {p}) /\ Cardinality(Undone(t) \ {p}) = Cardinality(Undone(t)) - 1
  BY CountIsNat, FS_RemoveElement
<1>3. Cardinality(Undone(t) \ {p}) \in Nat
  BY <1>2, FS_CardinalityType
<1>4. QED
  BY <1>1, <1>2, <1>3, CountIsNat, FS_Subset, FS_CardinalityType

LEMMA NoneUndone ==
    ASSUME NEW t \in Task
    PROVE  Cardinality(Undone(t)) = 0 => \A p \in Prereqs[t] : IsDone(p)
<1>1. Cardinality(Undone(t)) = 0 => Undone(t) = {}
  BY CountIsNat, FS_EmptySet
<1>2. QED BY <1>1 DEF Undone

-----------------------------------------------------------------------------
(* Rows a step leaves alone                                                *)

Same(b) ==
    /\ pc'[b] = pc[b] /\ work'[b] = work[b] /\ created'[b] = created[b]
    /\ notDone'[b] = notDone[b] /\ children'[b] = children[b] /\ allDone'[b] = allDone[b]

\* An agent that does not move keeps its invariant as long as nobody writes
\* the rows it has locked.
LEMMA AgentKept ==
    ASSUME TypeOK, NEW b \in Agent, AgentInv(b), Same(b), Monotone,
           \A t \in RowLocks(b) : tasks'[t] = tasks[t],
           pc[b] # "poll" => (job' = "none" <=> job = "none")
    PROVE  AgentInv(b)' /\ RowLocks(b)' = RowLocks(b)
<1>1. RowLocks(b)' = RowLocks(b)
  BY DEF Same, RowLocks, NextTask
<1>2. pc[b] = "create" => Creating(b)'
  <2> SUFFICES ASSUME pc[b] = "create" PROVE Creating(b)'
    OBVIOUS
  <2>1. Creating(b) /\ RowLocks(b) = {NextTask(b)} /\ NextTask(b)' = NextTask(b)
    BY DEF AgentInv, RowLocks, Same, NextTask
  <2>2. NextTask(b) \in Task
    BY <2>1, PlanTask DEF Creating, NextTask, TypeOK
  <2>3. Cardinality(Undone(NextTask(b)))' <= Cardinality(Undone(NextTask(b)))
    BY <2>1, <2>2, CountShrinks DEF Undone
  <2>4. Cardinality(Undone(NextTask(b)))' \in Nat
    BY <2>1, <2>2, CountShrinks DEF Undone
  <2>5. Cardinality(Undone(NextTask(b)))' <= notDone'[b]
    BY <2>1, <2>2, <2>3, <2>4, CountIsNat DEF Creating, Same, TypeOK
  <2>6. QED
    BY <2>1, <2>2, <2>5 DEF Creating, Same, Exists
<1>3. Finishing(b) => work[b] \in RowLocks(b)
  BY DEF Finishing, RowLocks
<1>4. pc[b] \in {"count", "commit"} => children[b] \subseteq RowLocks(b)
  BY DEF RowLocks
<1>5. (Finishing(b) => InFlight(work[b]))'
  BY <1>3 DEF AgentInv, Finishing, InFlight, Same
<1>6. (pc[b] \in {"count", "commit"} => ChildrenWait(b))'
  BY <1>4 DEF AgentInv, ChildrenWait, Same
<1>7. ((pc[b] \in {"plan", "create"} /\ job # "none") => \A i \in 1..created[b] : Exists(Plan[i]))'
  BY PlanTask DEF AgentInv, Same, Monotone, TypeOK
<1>8. QED
  BY <1>1, <1>2, <1>5, <1>6, <1>7 DEF AgentInv, Same, Monotone, TypeOK, Finishing

LEMMA RowMoves ==
    ASSUME TypeOK, TypeOK', Monotone, NEW t \in Task, Waiting(t),
           tasks'[t].state = "pending" =>
               tasks[t].state = "pending" /\ tasks'[t].waitingOn = tasks[t].waitingOn,
           Started(t)' => Started(t),
           Started(t) => \A p \in Prereqs[t] : IsDone(p)
    PROVE  Waiting(t)' /\ (Started(t)' => \A p \in Prereqs[t] : IsDone(p)')
<1>1. Waiting(t)'
  <2> SUFFICES ASSUME tasks'[t].state = "pending"
               PROVE  Cardinality(Undone(t)') <= tasks'[t].waitingOn
    BY DEF Waiting
  <2>1. tasks[t].waitingOn \in Nat /\ Cardinality(Undone(t)) <= tasks[t].waitingOn
    BY DEF TypeOK, Waiting
  <2>2. QED BY <2>1, CountShrinks, CountIsNat
<1>2. QED
  BY <1>1, Constants DEF Monotone

LEMMA LocksKept ==
    ASSUME RowsLockedOnce, NEW a \in Agent,
           \A b \in Agent \ {a} : RowLocks(b)' = RowLocks(b) /\ RowLocks(b) \cap RowLocks(a)' = {}
    PROVE  RowsLockedOnce'
BY DEF RowsLockedOnce

\* The job of a step that finishes no executor and fails no task.
LEMMA JobKept ==
    ASSUME JobInv, Monotone, api' = api, job' = job, job # "none",
           \A t \in Task : tasks'[t].state = "failed" <=> tasks[t].state = "failed",
           IsDone(InitTask)' => IsDone(InitTask)
    PROVE  JobInv'
BY Constants DEF JobInv, Monotone, DoneJobIsComplete, FailedJobHasFailedTask, Exists, IsDone

-----------------------------------------------------------------------------
(* Steps of one agent that write no row                                    *)

LEMMA LocalStep ==
    ASSUME TInv, TypeOK', UNCHANGED dbVars, NEW a \in Agent, pc[a] # "poll",
           \A b \in Agent \ {a} : Same(b) /\ RowLocks(b) \cap RowLocks(a)' = {},
           AgentInv(a)'
    PROVE  TInv'
<1>1. Monotone
  BY DEF Monotone, dbVars, Exists, IsDone
<1>2. ASSUME NEW b \in Agent \ {a} PROVE AgentInv(b)' /\ RowLocks(b)' = RowLocks(b)
  BY <1>1, <1>2, AgentKept DEF TInv, dbVars
<1>3. RowsLockedOnce'
  BY <1>2, LocksKept DEF TInv
<1>4. Waits' /\ PrereqsDoneFirst'
  BY DEF TInv, dbVars, Waits, Waiting, Undone, PrereqsDoneFirst, InFlight, IsDone
<1>5. api = "accepted"
  BY DEF TInv, JobInv
<1>6. JobInv'
  BY <1>5 DEF TInv, JobInv, dbVars, DoneJobIsComplete, FailedJobHasFailedTask, Exists, IsDone
<1>7. QED
  BY <1>2, <1>3, <1>4, <1>6 DEF TInv

LEMMA GetStreamsInv ==
    ASSUME TInv, NEW a \in Agent, GetStreams(a)
    PROVE  TInv'
<1>1. TypeOK' /\ \A b \in Agent \ {a} : Same(b)
  BY DEF TInv, TypeOK, GetStreams, Goto, dbVars, Same
<1>2. pc'[a] \in {"plan", "error"} /\ work'[a] = work[a] /\ UNCHANGED dbVars
  BY DEF TInv, TypeOK, GetStreams, Goto
<1>3. RowLocks(a)' = {}
  BY <1>2 DEF RowLocks
<1>4. AgentInv(a)'
  <2>1. AgentInv(a) /\ TypeOK /\ pc[a] = "execute" /\ created'[a] = created[a]
    BY DEF TInv, GetStreams
  <2>2. QED BY <1>2, <2>1 DEF AgentInv, Finishing
<1>5. QED
  BY <1>1, <1>2, <1>3, <1>4, LocalStep DEF GetStreams

LEMMA CreateTaskInv ==
    ASSUME TInv, NEW a \in Agent, CreateTask(a)
    PROVE  TInv'
<1> DEFINE t == NextTask(a)
<1>0. t \in Task /\ AgentInv(a) /\ TypeOK /\ NotDoneCount(t) = Cardinality(Undone(t))
  BY PlanTask DEF TInv, TypeOK, CreateTask, NextTask, NotDoneCount, Undone
<1>1. TypeOK' /\ \A b \in Agent \ {a} : Same(b)
  <2>1. NotDoneCount(t) \in Nat
    BY <1>0, CountIsNat
  <2>2. CASE Goto(a, "error") /\ UNCHANGED notDone
    BY <1>0, <2>2 DEF TypeOK, CreateTask, Goto, dbVars, Same
  <2>3. CASE Goto(a, "create") /\ notDone' = [notDone EXCEPT ![a] = NotDoneCount(t)]
    BY <1>0, <2>1, <2>3 DEF TypeOK, CreateTask, Goto, dbVars, Same
  <2>4. QED BY <2>2, <2>3 DEF CreateTask
<1>2. UNCHANGED <<dbVars, work, created, children, allDone>> /\ pc[a] = "plan" /\ t' = t
  BY DEF CreateTask, NextTask
<1>3. CASE pc'[a] = "error"
  <2>1. RowLocks(a)' = {} /\ AgentInv(a)'
    BY <1>3 DEF RowLocks, AgentInv, Finishing
  <2>2. QED BY <1>1, <1>2, <2>1, LocalStep
<1>4. CASE pc'[a] = "create" /\ ~Exists(t) /\ job # "none" /\ notDone'[a] = NotDoneCount(t)
  <2>1. RowLocks(a)' = {t} /\ \A b \in Agent \ {a} : RowLocks(b) \cap RowLocks(a)' = {}
    BY <1>2, <1>4 DEF RowLocks, CreateTask, RowsFree
  <2>2. Creating(a)'
    <3>1. Cardinality(Undone(t))' = notDone'[a]
      BY <1>0, <1>2, <1>4 DEF Undone, IsDone, dbVars
    <3>2. Cardinality(Undone(t))' <= notDone'[a]
      BY <1>1, <3>1 DEF TypeOK
    <3>3. created[a] < Len(Plan)
      BY DEF CreateTask
    <3>4. QED BY <1>2, <1>4, <3>2, <3>3 DEF Creating, Exists, dbVars
  <2>3. AgentInv(a)'
    BY <1>0, <1>2, <1>4, <2>2 DEF AgentInv, Finishing, Exists, dbVars
  <2>4. QED BY <1>1, <1>2, <2>1, <2>3, LocalStep
<1>5. QED
  BY <1>0, <1>3, <1>4 DEF CreateTask, Goto, TypeOK

LEMMA UpdateTaskDoneInv ==
    ASSUME TInv, NEW a \in Agent, UpdateTaskDone(a)
    PROVE  TInv'
<1>0. TypeOK /\ AgentInv(a) /\ JobInv
  BY DEF TInv
<1>1. TypeOK' /\ \A b \in Agent \ {a} : Same(b)
  BY <1>0 DEF TypeOK, UpdateTaskDone, Goto, dbVars, Same
<1>2. /\ UNCHANGED <<dbVars, work, created, children, allDone>>
      /\ pc'[a] = IF InFlight(work[a]) THEN "children" ELSE "poll"
  BY <1>0 DEF UpdateTaskDone, Goto, TypeOK
<1>3. \A b \in Agent \ {a} : RowLocks(b) \cap RowLocks(a)' = {}
  BY <1>2 DEF RowLocks, UpdateTaskDone, Unlocked
<1>4. AgentInv(a)'
  <2>1. InFlight(work[a]) /\ work[a] = InitTask => \A t \in Task : Exists(t)
    <3> SUFFICES ASSUME InFlight(work[a]), work[a] = InitTask PROVE \A t \in Task : Exists(t)
      OBVIOUS
    <3>1. pc[a] = "plan" /\ created[a] = Len(Plan)
      BY <1>0 DEF UpdateTaskDone, RunFinished, AgentInv
    <3>2. job # "none" /\ Exists(InitTask)
      BY <1>0, Constants DEF JobInv, InFlight, Absent, Exists
    <3>3. \A i \in 1..Len(Plan) : Exists(Plan[i])
      BY <1>0, <3>1, <3>2 DEF AgentInv
    <3>4. QED BY <3>2, <3>3, PlanTask
  <2>2. QED
    BY <1>2, <2>1 DEF AgentInv, Finishing, InFlight, Exists, dbVars
<1>5. pc[a] # "poll"
  BY DEF UpdateTaskDone, RunFinished
<1>6. QED
  BY <1>1, <1>2, <1>3, <1>4, <1>5, LocalStep

\* A child of a task in flight is pending: had it started, its prerequisite
\* would be done.
LEMMA UpdateChildrenInv ==
    ASSUME TInv, NEW a \in Agent, UpdateChildren(a)
    PROVE  TInv'
<1>0. TypeOK /\ AgentInv(a) /\ PrereqsDoneFirst /\ pc[a] = "children" /\ Finishing(a)
  BY DEF TInv, UpdateChildren, Finishing
<1>1. TypeOK' /\ \A b \in Agent \ {a} : Same(b)
  BY <1>0 DEF TypeOK, UpdateChildren, Goto, dbVars, Same, ChildTasks
<1>2. /\ UNCHANGED <<dbVars, work, created, allDone>>
      /\ pc'[a] = "count" /\ children'[a] = ChildTasks(work[a])
  BY <1>0 DEF UpdateChildren, Goto, TypeOK
<1>3. \A b \in Agent \ {a} : RowLocks(b) \cap RowLocks(a)' = {}
  <2>1. RowLocks(a) = {work[a]} /\ RowLocks(a)' = {work[a]} \cup ChildTasks(work[a])
    BY <1>0, <1>2 DEF RowLocks
  <2>2. QED BY <2>1 DEF TInv, RowsLockedOnce, UpdateChildren, RowsFree
<1>4. ChildrenWait(a)'
  <2> SUFFICES ASSUME NEW c \in ChildTasks(work[a])
               PROVE  work[a] \in Prereqs[c] /\ tasks[c].state = "pending"
    BY <1>2 DEF ChildrenWait, dbVars
  <2>1. c \in Task /\ work[a] \in Prereqs[c] /\ ~IsDone(work[a])
    BY <1>0 DEF ChildTasks, AgentInv, InFlight, IsDone
  <2>2. ~InFlight(c) /\ ~IsDone(c) /\ Exists(c) /\ tasks[c].state # "failed"
    BY <1>0, <2>1 DEF PrereqsDoneFirst, ChildTasks
  <2>3. QED
    BY <1>0, <2>1, <2>2 DEF TypeOK, TaskState, InFlight, IsDone, Exists
<1>5. AgentInv(a)'
  BY <1>0, <1>2, <1>4 DEF AgentInv, Finishing, InFlight, Exists, dbVars
<1>6. QED
  BY <1>0, <1>1, <1>2, <1>3, <1>5, LocalStep

\* Every task exists: the executor created them all before it finished.
LEMMA CountUnresolvedInv ==
    ASSUME TInv, NEW a \in Agent, CountUnresolved(a)
    PROVE  TInv'
<1>0. TypeOK /\ AgentInv(a) /\ JobInv /\ pc[a] = "count" /\ Finishing(a)
  BY DEF TInv, CountUnresolved, Finishing
<1>1. TypeOK' /\ \A b \in Agent \ {a} : Same(b)
  <2>1. NoneUnresolved(a) \in BOOLEAN
    BY DEF NoneUnresolved
  <2>2. QED BY <1>0, <2>1 DEF TypeOK, CountUnresolved, Goto, dbVars, Same
<1>2. /\ UNCHANGED <<dbVars, work, created, children>>
      /\ pc'[a] = "commit" /\ allDone'[a] = NoneUnresolved(a)
  BY <1>0 DEF CountUnresolved, Goto, TypeOK
<1>3. RowLocks(a)' = RowLocks(a)
  BY <1>0, <1>2 DEF RowLocks
<1>4. NoneUnresolved(a) => \A t \in Task \ {work[a]} : IsDone(t)
  <2> SUFFICES ASSUME NoneUnresolved(a) PROVE \A t \in Task : Exists(t)
    BY DEF NoneUnresolved
  <2>1. Exists(InitTask)
    <3>1. work[a] \in Task /\ Exists(work[a])
      BY <1>0 DEF AgentInv, InFlight, Exists, TypeOK
    <3>2. QED BY <1>0, <3>1 DEF JobInv, Absent, Exists
  <2>2. CASE work[a] = InitTask
    BY <1>0, <2>2 DEF AgentInv
  <2>3. CASE work[a] # InitTask
    BY <1>0, <2>1, <2>3, Constants DEF JobInv, NoneUnresolved
  <2>4. QED BY <2>2, <2>3
<1>5. AgentInv(a)'
  BY <1>0, <1>2, <1>4 DEF AgentInv, Finishing, InFlight, Exists, IsDone, ChildrenWait, dbVars
<1>6. QED
  BY <1>0, <1>1, <1>2, <1>3, <1>5, LocalStep DEF TInv, RowsLockedOnce

\* A run fails, its retries are read, or its process dies: no row is held.
LEMMA RunEndsInv ==
    ASSUME TInv, NEW a \in Agent, RunFails(a) \/ ReadRetries(a) \/ Crash(a)
    PROVE  TInv'
<1>0. TypeOK /\ AgentInv(a) /\ pc[a] # "poll"
  BY DEF TInv, RunFails, ReadRetries, Crash
<1>1. TypeOK' /\ \A b \in Agent \ {a} : Same(b)
  <2>1. CASE RunFails(a)
    BY <1>0, <2>1, Constants DEF TypeOK, RunFails, Goto, dbVars, Same
  <2>2. CASE ReadRetries(a)
    BY <1>0, <2>2 DEF TypeOK, ReadRetries, Goto, dbVars, Same
  <2>3. CASE Crash(a)
    BY <1>0, <2>3, Constants DEF TypeOK, Crash, Goto, dbVars, Same
  <2>4. QED BY <2>1, <2>2, <2>3
<1>2. UNCHANGED dbVars /\ pc'[a] \in {"poll", "error", "fail", "retry"}
  BY <1>0 DEF RunFails, ReadRetries, Crash, Goto, TypeOK
<1>3. RowLocks(a)' = {} /\ AgentInv(a)'
  BY <1>2 DEF RowLocks, AgentInv, Finishing
<1>4. QED
  BY <1>0, <1>1, <1>2, <1>3, LocalStep

-----------------------------------------------------------------------------
(* Steps that write rows                                                   *)

Row == [state : TaskState \cup {"absent"}, waitingOn : Nat, retries : Nat]

LEMMA StateWritten ==
    ASSUME NEW row \in Row, NEW s \in TaskState
    PROVE  [row EXCEPT !.state = s] \in Row
BY DEF Row

LEMMA RetryWritten ==
    ASSUME NEW row \in Row, NEW n \in Nat, NEW s \in TaskState
    PROVE  /\ [row EXCEPT !.retries = n, !.state = s] \in Row
           /\ [row EXCEPT !.retries = n, !.state = s].state = s
BY DEF Row

RowInv(t) == Waiting(t) /\ (Started(t) => \A p \in Prereqs[t] : IsDone(p))

LEMMA Rows == (Waits /\ PrereqsDoneFirst) <=> \A t \in Task : RowInv(t)
BY DEF Waits, PrereqsDoneFirst, RowInv, Started

\* The transaction of a commits; nobody else holds the rows it wrote.
LEMMA WriteStep ==
    ASSUME TInv, TypeOK', Monotone, NEW a \in Agent,
           \A b \in Agent \ {a} : Same(b) /\ \A t \in RowLocks(b) : tasks'[t] = tasks[t],
           RowLocks(a)' = {}, AgentInv(a)', job' = "none" <=> job = "none",
           \A t \in Task : RowInv(t)', JobInv'
    PROVE  TInv'
<1>1. ASSUME NEW b \in Agent \ {a} PROVE AgentInv(b)' /\ RowLocks(b)' = RowLocks(b)
  BY <1>1, AgentKept DEF TInv
<1>2. RowsLockedOnce'
  BY <1>1, LocksKept DEF TInv
<1>3. Waits' /\ PrereqsDoneFirst'
  BY DEF Waits, PrereqsDoneFirst, RowInv, Started
<1>4. QED
  BY <1>1, <1>2, <1>3 DEF TInv

\* The same for the monitors, which hold no row between their steps.
LEMMA MonitorStep ==
    ASSUME TInv, TypeOK', Monotone, UNCHANGED agentVars,
           \A t \in Task : tasks'[t] = tasks[t] \/ \A b \in Agent : t \notin RowLocks(b),
           job' = "none" <=> job = "none",
           \A t \in Task : RowInv(t)', JobInv'
    PROVE  TInv'
<1>1. ASSUME NEW b \in Agent PROVE AgentInv(b)' /\ RowLocks(b)' = RowLocks(b)
  <2>1. Same(b)
    BY DEF agentVars, Same
  <2>2. RowLocks(b) \subseteq Task
    <3>1. pc[b] = "create" => NextTask(b) \in Task
      BY PlanTask DEF TInv, AgentInv, Creating, NextTask, TypeOK
    <3>2. QED BY <3>1 DEF TInv, TypeOK, RowLocks
  <2>3. QED BY <2>1, <2>2, AgentKept DEF TInv
<1>2. RowsLockedOnce'
  BY <1>1 DEF TInv, RowsLockedOnce
<1>3. Waits' /\ PrereqsDoneFirst'
  BY DEF Waits, PrereqsDoneFirst, RowInv, Started
<1>4. QED
  BY <1>1, <1>2, <1>3 DEF TInv

LEMMA RequestWorkInv ==
    ASSUME TInv, NEW a \in Agent, NEW t \in Task, RequestWork(a, t)
    PROVE  TInv'
<1>0. TypeOK /\ JobInv /\ \A u \in Task : RowInv(u)
  BY Rows DEF TInv
<1>1. /\ tasks' = [tasks EXCEPT ![t].state = "running"] /\ tasks[t].state = "ready"
      /\ work'[a] = t /\ created'[a] = 0 /\ UNCHANGED <<api, job>>
      /\ pc'[a] = IF t = InitTask THEN "execute" ELSE "work"
  BY <1>0 DEF RequestWork, Goto, TypeOK
<1>2. TypeOK'
  <2>1. tasks' \in [Task -> [state : TaskState \cup {"absent"}, waitingOn : Nat, retries : Nat]]
    <3>1. tasks' = [tasks EXCEPT ![t] = [tasks[t] EXCEPT !.state = "running"]]
      BY <1>1
    <3>2. [tasks[t] EXCEPT !.state = "running"] \in Row
      BY <1>0, StateWritten DEF TypeOK, Row, TaskState
    <3>3. QED BY <1>0, <3>1, <3>2 DEF TypeOK, Row
  <2>2. QED BY <1>0, <2>1, PlanTask DEF RequestWork, Goto, TypeOK
<1>3. \A u \in Task : /\ tasks'[u] = [tasks[u] EXCEPT !.state = IF u = t THEN "running" ELSE @]
                       /\ u # t => tasks'[u] = tasks[u]
  BY <1>0, <1>1 DEF TypeOK
<1>4. Monotone
  BY <1>0, <1>1, <1>3 DEF Monotone, Exists, IsDone, TypeOK
<1>5. \A b \in Agent \ {a} : Same(b)
  BY <1>0 DEF RequestWork, Goto, TypeOK, Same
<1>6. \A b \in Agent : \A u \in RowLocks(b) : tasks'[u] = tasks[u]
  BY <1>0, <1>1 DEF RequestWork, Unlocked, TypeOK
<1>7. RowLocks(a)' = {} /\ AgentInv(a)'
  BY <1>1 DEF RowLocks, AgentInv, Finishing
<1>8. ASSUME NEW u \in Task PROVE RowInv(u)'
  <2>1. Started(u)' => Started(u)
    BY <1>0, <1>1, <1>3 DEF Started, InFlight, IsDone, TypeOK
  <2>2. tasks'[u].state = "pending" =>
            tasks[u].state = "pending" /\ tasks'[u].waitingOn = tasks[u].waitingOn
    BY <1>0, <1>1, <1>3 DEF TypeOK
  <2>3. QED BY <1>0, <1>2, <1>4, <2>1, <2>2, RowMoves DEF RowInv
<1>9. JobInv'
  <2>1. job # "none"
    BY <1>0, <1>1 DEF JobInv, Absent
  <2>2. \A u \in Task : tasks'[u].state = "failed" <=> tasks[u].state = "failed"
    BY <1>0, <1>1, <1>3 DEF TypeOK
  <2>3. IsDone(InitTask)' => IsDone(InitTask)
    BY <1>0, <1>1, <1>3, Constants DEF IsDone, TypeOK
  <2>4. QED BY <1>0, <1>1, <1>4, <2>1, <2>2, <2>3, JobKept
<1>10. QED
  BY <1>1, <1>2, <1>4, <1>5, <1>6, <1>7, <1>8, <1>9, WriteStep

LEMMA CreateTaskCommitInv ==
    ASSUME TInv, NEW a \in Agent, CreateTaskCommit(a)
    PROVE  TInv'
<1> DEFINE row == [state |-> IF notDone[a] = 0 THEN "ready" ELSE "pending",
                   waitingOn |-> notDone[a], retries |-> 0]
<1>0. /\ TypeOK /\ JobInv /\ AgentInv(a) /\ Creating(a) /\ work[a] = InitTask
      /\ \A u \in Task : RowInv(u)
  BY Rows DEF TInv, AgentInv, CreateTaskCommit
<1>1. PICK t \in Task : /\ t # InitTask /\ created[a] \in Nat
                        /\ t = NextTask(a) /\ t = Plan[created[a] + 1]
  BY <1>0, PlanTask DEF Creating, NextTask, TypeOK
<1>2. /\ tasks' = [tasks EXCEPT ![t] = row] /\ UNCHANGED <<api, job>>
      /\ created'[a] = created[a] + 1 /\ pc'[a] = "plan" /\ work'[a] = work[a]
  BY <1>0, <1>1 DEF CreateTaskCommit, Goto, TypeOK
<1>3. TypeOK'
  <2>1. created[a] + 1 \in 0..Len(Plan)
    BY <1>0, <1>1, PlanTask DEF Creating
  <2>2. row \in [state : TaskState \cup {"absent"}, waitingOn : Nat, retries : Nat]
    BY <1>0 DEF TypeOK, TaskState
  <2>3. QED BY <1>0, <1>1, <2>1, <2>2 DEF CreateTaskCommit, Goto, TypeOK
<1>4. tasks'[t] = row /\ \A u \in Task : u # t => tasks'[u] = tasks[u]
  BY <1>0, <1>1, <1>2 DEF TypeOK
<1>5. Monotone
  BY <1>0, <1>1, <1>4 DEF Monotone, Exists, IsDone, Creating
<1>6. \A b \in Agent \ {a} : Same(b)
  BY <1>0 DEF CreateTaskCommit, Goto, TypeOK, Same
<1>7. \A b \in Agent \ {a} : \A u \in RowLocks(b) : tasks'[u] = tasks[u]
  <2>1. RowLocks(a) = {t}
    BY <1>1 DEF RowLocks, CreateTaskCommit
  <2>2. QED BY <1>0, <1>2, <2>1 DEF TInv, RowsLockedOnce, TypeOK
<1>8. RowLocks(a)' = {} /\ AgentInv(a)'
  <2>1. \A i \in 1..created'[a] : Exists(Plan[i])'
    <3> SUFFICES ASSUME NEW i \in 1..(created[a] + 1) PROVE Exists(Plan[i])'
      BY <1>2
    <3>1. CASE i = created[a] + 1
      BY <1>1, <1>4, <3>1 DEF Exists
    <3>2. CASE i # created[a] + 1
      <4>1. i \in 1..created[a] /\ i \in 1..Len(Plan)
        BY <1>0, <1>1, <3>2, PlanTask DEF Creating
      <4>2. Exists(Plan[i]) /\ Plan[i] \in Task
        BY <1>0, <4>1, PlanTask DEF AgentInv, CreateTaskCommit, Creating
      <4>3. QED BY <1>5, <4>2 DEF Monotone
    <3>3. QED BY <3>1, <3>2
  <2>2. QED BY <1>0, <1>2, <2>1 DEF RowLocks, AgentInv, Finishing
<1>9. ASSUME NEW u \in Task PROVE RowInv(u)'
  <2>1. CASE u = t
    <3>1. Cardinality(Undone(t)') <= notDone[a] /\ Cardinality(Undone(t)') \in Nat
      <4>1. Cardinality(Undone(t)) <= notDone[a] /\ notDone[a] \in Nat
        BY <1>0, <1>1 DEF Creating, TypeOK
      <4>2. /\ Cardinality(Undone(t)) \in Nat /\ Cardinality(Undone(t)') \in Nat
            /\ Cardinality(Undone(t)') <= Cardinality(Undone(t))
        BY <1>5, CountShrinks, CountIsNat
      <4>3. QED BY <4>1, <4>2
    <3>2. Started(t)' => notDone[a] = 0
      BY <1>4 DEF Started, InFlight, IsDone
    <3>3. notDone[a] = 0 => \A p \in Prereqs[t] : IsDone(p)
      BY <1>0, <1>1, CountIsNat, NoneUndone DEF Creating
    <3>4. \A p \in Prereqs[t] : IsDone(p) => IsDone(p)'
      BY <1>1, <1>5, Constants DEF Monotone
    <3>5. QED BY <1>4, <2>1, <3>1, <3>2, <3>3, <3>4 DEF RowInv, Waiting
  <2>2. CASE u # t
    BY <1>0, <1>3, <1>4, <1>5, <2>2, RowMoves DEF RowInv, Started, InFlight, IsDone
  <2>3. QED BY <2>1, <2>2
<1>10. JobInv'
  <2>1. \A u \in Task : tasks'[u].state = "failed" <=> tasks[u].state = "failed"
    BY <1>0, <1>1, <1>4 DEF Creating, Exists
  <2>2. QED BY <1>0, <1>1, <1>2, <1>4, <1>5, <2>1, Constants, JobKept DEF Creating, IsDone
<1>11. QED
  BY <1>2, <1>3, <1>5, <1>6, <1>7, <1>8, <1>9, <1>10, WriteStep

\* The children had counted the task that finishes, so that the last of them
\* becomes ready when none of its prerequisites is left.
LEMMA UpdateTaskDoneCommitInv ==
    ASSUME TInv, NEW a \in Agent, UpdateTaskDoneCommit(a)
    PROVE  TInv'
<1>0. /\ TypeOK /\ JobInv /\ AgentInv(a) /\ \A u \in Task : RowInv(u)
      /\ pc[a] = "commit" /\ InFlight(work[a]) /\ ChildrenWait(a)
  BY Rows DEF TInv, AgentInv, UpdateTaskDoneCommit, Finishing
<1>1. PICK w \in Task : w = work[a] /\ InFlight(w) /\ w \notin children[a]
  BY <1>0 DEF TypeOK, ChildrenWait, InFlight
<1>2. PICK cs \in SUBSET Task : /\ cs = children[a] /\ w \notin cs
                                /\ \A c \in cs : w \in Prereqs[c] /\ tasks[c].state = "pending"
  BY <1>0, <1>1 DEF TypeOK, ChildrenWait
<1>3. ASSUME NEW c \in cs
      PROVE  w \in Undone(c) /\ tasks[c].waitingOn \in Nat /\ tasks[c].waitingOn >= 1
  <2>1. w \in Undone(c) /\ c \in Task
    BY <1>1, <1>2 DEF Undone, InFlight, IsDone
  <2>2. Cardinality(Undone(c)) <= tasks[c].waitingOn
    BY <1>0, <1>2, <2>1 DEF RowInv, Waiting
  <2>3. Cardinality(Undone(c)) # 0
    BY <2>1, CountIsNat, FS_EmptySet
  <2>4. QED BY <1>0, <2>1, <2>2, <2>3, CountIsNat DEF TypeOK
<1>4. /\ tasks' \in [Task -> Row]
      /\ tasks'[w] = [tasks[w] EXCEPT !.state = "done"]
      /\ \A c \in cs : tasks'[c] = Decremented(tasks[c])
      /\ \A u \in Task : u # w /\ u \notin cs => tasks'[u] = tasks[u]
  <2>1. tasks' = [t \in Task |-> CASE t = w   -> [tasks[t] EXCEPT !.state = "done"]
                                   [] t \in cs -> Decremented(tasks[t])
                                   [] OTHER    -> tasks[t]]
    BY <1>1, <1>2 DEF UpdateTaskDoneCommit
  <2>2. [tasks[w] EXCEPT !.state = "done"] \in Row
    <3>1. tasks[w] \in Row
      BY <1>0 DEF TypeOK, Row
    <3>2. "done" \in TaskState
      BY DEF TaskState
    <3>3. QED BY <3>1, <3>2, StateWritten
  <2>3. \A c \in cs : Decremented(tasks[c]) \in Row
    <3> SUFFICES ASSUME NEW c \in cs PROVE Decremented(tasks[c]) \in Row
      OBVIOUS
    <3>1. tasks[c].waitingOn - 1 \in Nat
      BY <1>3
    <3>2. tasks[c] \in Row
      BY <1>0, <1>2 DEF TypeOK, Row
    <3>3. QED BY <3>1, <3>2 DEF Decremented, Row, TaskState
  <2>4. \A u \in Task : tasks[u] \in Row
    BY <1>0 DEF TypeOK, Row
  <2>5. QED BY <1>2, <2>1, <2>2, <2>3, <2>4
<1>5. /\ tasks'[w].state = "done"
      /\ \A c \in cs : /\ tasks'[c].waitingOn = tasks[c].waitingOn - 1
                       /\ tasks'[c].state = IF tasks[c].waitingOn <= 1 THEN "ready" ELSE "pending"
  <2>1. tasks[w] \in Row /\ \A c \in cs : tasks[c] \in Row
    BY <1>0 DEF TypeOK, Row
  <2>2. tasks'[w].state = "done"
    BY <1>4, <2>1 DEF Row
  <2>3. ASSUME NEW c \in cs
        PROVE  /\ tasks'[c].waitingOn = tasks[c].waitingOn - 1
               /\ tasks'[c].state = IF tasks[c].waitingOn <= 1 THEN "ready" ELSE "pending"
    <3>1. tasks'[c] = Decremented(tasks[c]) /\ tasks[c] \in Row
      BY <1>4, <2>1
    <3>2. QED BY <3>1 DEF Decremented, Row
  <2>4. QED BY <2>2, <2>3
<1>6. /\ api' = api /\ job' = (IF allDone[a] THEN "done" ELSE job) /\ pc'[a] = "poll"
      /\ \A b \in Agent \ {a} : Same(b)
  BY <1>0 DEF UpdateTaskDoneCommit, Goto, TypeOK, Same
<1>7. TypeOK'
  BY <1>0, <1>4, <1>6 DEF UpdateTaskDoneCommit, Goto, TypeOK, Row
<1>8. Monotone
  BY <1>2, <1>4, <1>5 DEF Monotone, Exists, IsDone
<1>9. \A b \in Agent \ {a} : \A u \in RowLocks(b) : tasks'[u] = tasks[u]
  <2> SUFFICES ASSUME NEW b \in Agent \ {a}, NEW u \in RowLocks(b) PROVE tasks'[u] = tasks[u]
    OBVIOUS
  <2>1. RowLocks(a) = {w} \cup cs
    BY <1>0, <1>1, <1>2 DEF RowLocks
  <2>2. u \in Task
    <3>1. pc[b] = "create" => NextTask(b) \in Task
      BY PlanTask DEF TInv, AgentInv, Creating, NextTask, TypeOK
    <3>2. QED BY <1>0, <3>1 DEF TypeOK, RowLocks
  <2>3. QED BY <1>4, <2>1, <2>2 DEF TInv, RowsLockedOnce
<1>10. RowLocks(a)' = {} /\ AgentInv(a)'
  BY <1>6 DEF RowLocks, AgentInv, Finishing
<1>11. ASSUME NEW u \in Task PROVE RowInv(u)'
  <2>1. CASE u \in cs
    <3>1. /\ Cardinality(Undone(u)) <= tasks[u].waitingOn /\ Cardinality(Undone(u)) \in Nat
          /\ Cardinality(Undone(u)') <= Cardinality(Undone(u)) - 1
          /\ Cardinality(Undone(u)') \in Nat
      <4>1. IsDone(w)' /\ w \in Undone(u)
        BY <1>3, <1>5, <2>1 DEF IsDone
      <4>2. Cardinality(Undone(u)) <= tasks[u].waitingOn
        BY <1>0, <1>2, <2>1 DEF RowInv, Waiting
      <4>3. QED BY <1>8, <4>1, <4>2, CountDecrements, CountIsNat
    <3>2. Waiting(u)'
      BY <1>3, <1>5, <2>1, <3>1 DEF Waiting
    <3>3. ASSUME Started(u)' PROVE \A p \in Prereqs[u] : IsDone(p)'
      <4>1. tasks[u].waitingOn <= 1
        BY <1>5, <2>1, <3>3 DEF Started, InFlight, IsDone
      <4>2. Cardinality(Undone(u)') = 0
        BY <1>3, <2>1, <3>1, <4>1
      <4>3. IsFiniteSet(Undone(u)')
        BY <1>8, CountShrinks, CountIsNat, FS_Subset
      <4>4. Undone(u)' = {}
        BY <4>2, <4>3, FS_EmptySet
      <4>5. QED BY <4>4 DEF Undone
    <3>4. QED BY <3>2, <3>3 DEF RowInv
  <2>2. CASE u \notin cs
    <3>1. Started(u)' => Started(u)
      BY <1>1, <1>4, <2>2 DEF Started, InFlight, IsDone
    <3>2. tasks'[u].state = "pending" =>
              tasks[u].state = "pending" /\ tasks'[u].waitingOn = tasks[u].waitingOn
      BY <1>4, <1>5, <2>2
    <3>3. QED BY <1>0, <1>7, <1>8, <3>1, <3>2, RowMoves DEF RowInv
  <2>3. QED BY <2>1, <2>2
<1>12. job # "none" /\ api = "accepted"
  BY <1>0, <1>1 DEF JobInv, Absent, InFlight
<1>13. \A u \in Task : tasks'[u].state = "failed" <=> tasks[u].state = "failed"
  BY <1>1, <1>2, <1>4, <1>5 DEF InFlight
<1>14. allDone[a] => \A u \in Task : IsDone(u)'
  <2>1. allDone[a] => \A u \in Task \ {w} : IsDone(u)
    BY <1>0, <1>1 DEF AgentInv
  <2>2. QED BY <1>5, <1>8, <2>1 DEF Monotone, IsDone
<1>15. IsDone(InitTask)' => \A u \in Task : Exists(u)'
  <2>1. IsDone(InitTask)' => IsDone(InitTask) \/ w = InitTask
    BY <1>2, <1>4, <1>5, Constants DEF IsDone
  <2>2. IsDone(InitTask)' => \A u \in Task : Exists(u)
    BY <1>0, <1>1, <2>1 DEF JobInv, AgentInv, Finishing
  <2>3. QED BY <1>8, <2>2 DEF Monotone
<1>16. JobInv'
  <2>1. DoneJobIsComplete'
    BY <1>0, <1>6, <1>8, <1>14 DEF DoneJobIsComplete, JobInv, Monotone
  <2>2. FailedJobHasFailedTask'
    BY <1>0, <1>6, <1>13, <1>14 DEF FailedJobHasFailedTask, JobInv, IsDone
  <2>3. QED
    BY <1>0, <1>6, <1>8, <1>12, <1>15, <2>1, <2>2, Constants DEF JobInv, Monotone
<1>17. QED
  BY <1>6, <1>7, <1>8, <1>9, <1>10, <1>11, <1>12, <1>16, WriteStep

-----------------------------------------------------------------------------
(* Failures and retries                                                    *)

\* What TaskFailed and TaskRetry write: a task that has not finished fails,
\* and the job with it, or a running one becomes ready again.
Unfinished(t) ==
    \/ UNCHANGED <<tasks, job>>
    \/ /\ tasks' \in [Task -> Row]
       /\ \A u \in Task \ {t} : tasks'[u] = tasks[u]
       /\ \/ Failable(t) /\ tasks'[t].state = "failed" /\ job' = "failed"
          \/ tasks[t].state = "running" /\ tasks'[t].state = "ready" /\ job' = job

LEMMA TaskFailedWrites ==
    ASSUME TypeOK, NEW t \in Task, TaskFailed(t)
    PROVE  Unfinished(t)
<1>1. CASE ~Failable(t)
  BY <1>1 DEF TaskFailed, Unfinished
<1>2. CASE Failable(t)
  <2>1. tasks' = [tasks EXCEPT ![t] = [tasks[t] EXCEPT !.state = "failed"]] /\ job' = "failed"
    BY <1>2 DEF TaskFailed
  <2>2. tasks \in [Task -> Row] /\ tasks[t] \in Row
    BY DEF TypeOK, Row
  <2>3. [tasks[t] EXCEPT !.state = "failed"] \in Row /\ tasks'[t].state = "failed"
    BY <2>1, <2>2, StateWritten DEF TaskState, Row
  <2>4. QED BY <1>2, <2>1, <2>2, <2>3 DEF Unfinished
<1>3. QED BY <1>1, <1>2

LEMMA TaskRetryWrites ==
    ASSUME TypeOK, NEW t \in Task, TaskRetry(t)
    PROVE  Unfinished(t)
<1>1. CASE ~Retryable(t)
  BY <1>1 DEF TaskRetry, Unfinished
<1>2. CASE Retryable(t)
  <2> DEFINE hit == tasks[t].retries + 1 > MaxRetries[t]
             n   == tasks[t].retries + 1
             s   == IF hit THEN "failed" ELSE "ready"
             row == [tasks[t] EXCEPT !.retries = n, !.state = s]
  <2>1. tasks' = [tasks EXCEPT ![t] = row] /\ job' = IF hit THEN "failed" ELSE job
    BY <1>2 DEF TaskRetry
  <2>2. tasks \in [Task -> Row] /\ tasks[t] \in Row
    BY DEF TypeOK, Row
  <2>3. row \in Row /\ row.state = IF hit THEN "failed" ELSE "ready"
    <3>1. n \in Nat
      BY <2>2 DEF Row
    <3>2. s \in TaskState
      BY DEF TaskState
    <3>3. row \in Row /\ row.state = s
      <4> HIDE DEF n, s
      <4>1. QED BY <2>2, <3>1, <3>2, RetryWritten
    <3>4. QED BY <3>3
  <2> HIDE DEF row
  <2>4. tasks' \in [Task -> Row] /\ tasks'[t] = row /\ \A u \in Task \ {t} : tasks'[u] = tasks[u]
    BY <2>1, <2>2, <2>3
  <2>5. QED BY <1>2, <2>1, <2>3, <2>4 DEF Unfinished, Retryable, Failable
<1>3. QED BY <1>1, <1>2

LEMMA UnfinishedKeeps ==
    ASSUME TInv, TypeOK', NEW t \in Task, Unfinished(t), api' = api,
           UNCHANGED <<tasks, job>> => JobInv'
    PROVE  /\ Monotone /\ JobInv' /\ (job' = "none" <=> job = "none")
           /\ \A u \in Task : RowInv(u)' /\ (u # t => tasks'[u] = tasks[u])
<1>0. TypeOK /\ JobInv /\ \A u \in Task : RowInv(u)
  BY Rows DEF TInv
<1>1. CASE UNCHANGED <<tasks, job>>
  BY <1>0, <1>1 DEF Monotone, Exists, IsDone, RowInv, Waiting, Started, InFlight, Undone
<1>2. CASE ~UNCHANGED <<tasks, job>>
  <2>1. /\ \A u \in Task \ {t} : tasks'[u] = tasks[u]
        /\ \/ Failable(t) /\ tasks'[t].state = "failed" /\ job' = "failed"
           \/ tasks[t].state = "running" /\ tasks'[t].state = "ready" /\ job' = job
    BY <1>2 DEF Unfinished
  <2>2. ~IsDone(t) /\ Exists(t) /\ Exists(t)' /\ ~IsDone(t)'
    BY <2>1 DEF Failable, IsDone, Exists
  <2>3. Monotone
    BY <2>1, <2>2 DEF Monotone, Exists, IsDone
  <2>4. job # "none" /\ job # "done"
    BY <1>0, <2>2 DEF JobInv, Absent, Exists, DoneJobIsComplete
  <2>5. ASSUME NEW u \in Task PROVE RowInv(u)'
    <3>1. (Started(u)' => Started(u)) /\
          (tasks'[u].state = "pending" =>
              tasks[u].state = "pending" /\ tasks'[u].waitingOn = tasks[u].waitingOn)
      BY <2>1 DEF Started, InFlight, IsDone, Failable
    <3>2. QED BY <1>0, <2>3, <3>1, RowMoves DEF RowInv
  <2>6. JobInv'
    <3>1. FailedJobHasFailedTask'
      BY <1>0, <2>1 DEF JobInv, FailedJobHasFailedTask, Failable
    <3>2. job' # "none" /\ job' # "done" /\ api' = "accepted"
      BY <1>0, <2>1, <2>4 DEF JobInv
    <3>3. (IsDone(InitTask) => \A u \in Task : Exists(u))'
      BY <1>0, <2>1, <2>2, <2>3, Constants DEF JobInv, Monotone, IsDone
    <3>4. QED
      BY <1>0, <2>3, <2>4, <3>1, <3>2, <3>3, Constants
      DEF JobInv, Monotone, DoneJobIsComplete
  <2>7. QED BY <2>1, <2>3, <2>4, <2>5, <2>6
<1>3. QED BY <1>1, <1>2

LEMMA UpdateFailedInv ==
    ASSUME TInv, NEW a \in Agent, UpdateTaskFailed(a) \/ UpdateTaskRetry(a)
    PROVE  TInv'
<1>0. TypeOK /\ AgentInv(a) /\ JobInv /\ pc[a] # "poll" /\ work[a] \in Task
  BY DEF TInv, TypeOK, UpdateTaskFailed, UpdateTaskRetry
<1>1. PICK t \in Task : t = work[a] /\ Unfinished(t) /\ \A b \in Agent : t \notin RowLocks(b)
  BY <1>0, TaskFailedWrites, TaskRetryWrites DEF UpdateTaskFailed, UpdateTaskRetry, Unlocked
<1>2. /\ UNCHANGED <<api, streams, work, created, notDone, children, allDone, faults>>
      /\ pc' = [pc EXCEPT ![a] = "poll"]
  BY DEF UpdateTaskFailed, UpdateTaskRetry, Goto
<1>3. TypeOK'
  BY <1>0, <1>1, <1>2 DEF TypeOK, Unfinished, Row
<1>4. api = "accepted"
  BY <1>0 DEF JobInv
<1>5. UNCHANGED <<tasks, job>> => JobInv'
  BY <1>0, <1>2, <1>4 DEF JobInv, Exists, IsDone, DoneJobIsComplete, FailedJobHasFailedTask
<1>6. /\ Monotone /\ JobInv' /\ (job' = "none" <=> job = "none")
      /\ \A u \in Task : RowInv(u)' /\ (u # t => tasks'[u] = tasks[u])
  BY <1>1, <1>2, <1>3, <1>5, UnfinishedKeeps
<1>7. ASSUME NEW b \in Agent \ {a}
      PROVE  Same(b) /\ \A u \in RowLocks(b) : tasks'[u] = tasks[u]
  <2>1. pc[b] = "create" => NextTask(b) \in Task
    BY PlanTask DEF TInv, AgentInv, Creating, NextTask, TypeOK
  <2>2. RowLocks(b) \subseteq Task
    BY <1>0, <2>1 DEF TypeOK, RowLocks
  <2>3. QED BY <1>0, <1>1, <1>2, <1>6, <2>2 DEF TypeOK, Same
<1>8. RowLocks(a)' = {} /\ AgentInv(a)'
  BY <1>0, <1>2 DEF TypeOK, RowLocks, AgentInv, Finishing
<1>9. QED
  BY <1>3, <1>6, <1>7, <1>8, WriteStep

-----------------------------------------------------------------------------
(* Maintenance and the API                                                 *)

LEMMA RequeueTaskInv ==
    ASSUME TInv, NEW t \in Task, RequeueTask(t)
    PROVE  TInv'
<1>0. TypeOK /\ JobInv /\ Unfinished(t) /\ \A b \in Agent : t \notin RowLocks(b)
  BY TaskRetryWrites DEF TInv, RequeueTask, Unlocked
<1>1. UNCHANGED <<api, streams, agentVars>> /\ faults' \in 0..MaxFaults
  BY <1>0, Constants DEF RequeueTask, TypeOK
<1>2. TypeOK'
  BY <1>0, <1>1 DEF TypeOK, Unfinished, agentVars, Row
<1>3. UNCHANGED <<tasks, job>> => JobInv'
  BY <1>0, <1>1 DEF JobInv, agentVars, Exists, IsDone, DoneJobIsComplete, FailedJobHasFailedTask
<1>4. /\ Monotone /\ JobInv' /\ (job' = "none" <=> job = "none")
      /\ \A u \in Task : RowInv(u)' /\ (u # t => tasks'[u] = tasks[u])
  BY <1>0, <1>1, <1>2, <1>3, UnfinishedKeeps
<1>5. \A u \in Task : tasks'[u] = tasks[u] \/ \A b \in Agent : u \notin RowLocks(b)
  BY <1>0, <1>4
<1>6. QED
  BY <1>1, <1>2, <1>4, <1>5, MonitorStep

LEMMA FixStuckInv ==
    ASSUME TInv, FixStuckPendingTasks
    PROVE  TInv'
<1>0. TypeOK /\ JobInv /\ \A u \in Task : RowInv(u)
  BY Rows DEF TInv
<1>1. UNCHANGED <<api, job, streams, agentVars, faults>>
  BY DEF FixStuckPendingTasks
<1>2. ASSUME NEW u \in Task
      PROVE  \/ tasks'[u] = tasks[u]
             \/ /\ Stuck(u) /\ Unlocked(u)
                /\ tasks'[u] = [tasks[u] EXCEPT !.state = "ready", !.waitingOn = 0]
  BY DEF FixStuckPendingTasks
<1>3. ASSUME NEW u \in Task
      PROVE  LET row == [tasks[u] EXCEPT !.state = "ready", !.waitingOn = 0]
             IN  row \in Row /\ row.state = "ready"
  <2>1. tasks[u] \in Row
    BY <1>0 DEF TypeOK, Row
  <2>2. QED BY <2>1 DEF Row, TaskState
<1>4. tasks' \in [Task -> Row]
  <2>1. \A u \in Task : tasks[u] \in Row
    BY <1>0 DEF TypeOK, Row
  <2>2. QED BY <1>3, <2>1 DEF FixStuckPendingTasks
<1>5. TypeOK'
  BY <1>0, <1>1, <1>4 DEF TypeOK, agentVars, Row
<1>6. Monotone
  BY <1>2, <1>3 DEF Monotone, Exists, IsDone, Stuck
<1>7. ASSUME NEW u \in Task PROVE RowInv(u)'
  <2>1. CASE tasks'[u] = tasks[u]
    BY <1>0, <1>5, <1>6, <2>1, RowMoves DEF RowInv, Started, InFlight, IsDone
  <2>2. CASE Stuck(u) /\ tasks'[u].state = "ready"
    BY <1>6, <2>2, Constants DEF Stuck, RowInv, Waiting, Started, Monotone
  <2>3. QED BY <1>2, <1>3, <2>1, <2>2
<1>8. JobInv'
  <2>1. \A u \in Task : tasks'[u].state = "failed" <=> tasks[u].state = "failed"
    BY <1>2, <1>3 DEF Stuck
  <2>2. IsDone(InitTask)' => IsDone(InitTask)
    BY <1>2, <1>3, Constants DEF IsDone
  <2>3. job # "none"
    <3>1. PICK t \in Task : tasks[t].state = "pending"
      BY DEF FixStuckPendingTasks, Stuck
    <3>2. QED BY <1>0, <3>1 DEF JobInv, Absent
  <2>4. QED BY <1>0, <1>1, <1>6, <2>1, <2>2, <2>3, JobKept
<1>9. QED
  BY <1>1, <1>2, <1>5, <1>6, <1>7, <1>8, MonitorStep DEF Unlocked

LEMMA ClearCompletedJobsInv ==
    ASSUME TInv, ClearCompletedJobs
    PROVE  TInv'
<1>0. TypeOK /\ JobInv /\ UNCHANGED <<api, agentVars, faults>>
  BY DEF TInv, ClearCompletedJobs
<1>1. CASE job # "done"
  <2>1. UNCHANGED <<job, tasks>> /\ streams' \subseteq streams
    BY <1>1 DEF ClearCompletedJobs
  <2>2. TypeOK'
    BY <1>0, <2>1 DEF TypeOK, agentVars
  <2>3. Monotone /\ JobInv' /\ \A u \in Task : RowInv(u)'
    BY <1>0, <2>1, Rows
    DEF TInv, Monotone, Exists, IsDone, JobInv, DoneJobIsComplete, FailedJobHasFailedTask,
        agentVars, RowInv, Waiting, Started, InFlight, Undone
  <2>4. QED BY <1>0, <2>1, <2>2, <2>3, MonitorStep
<1>2. CASE job = "done"
  <2>1. /\ job' = "none" /\ tasks' = [t \in Task |-> Absent] /\ streams' = {}
        /\ \A a \in Agent : RowLocks(a) = {}
    BY <1>2 DEF ClearCompletedJobs
  <2>2. Absent \in Row /\ Absent.state = "absent"
    BY DEF Absent, Row
  <2>3. TypeOK'
    BY <1>0, <2>1, <2>2 DEF TypeOK, agentVars, Row
  <2>4. \A t \in Task : tasks'[t] = Absent /\ tasks'[t].state = "absent"
    BY <2>1, <2>2
  <2>5. Waits' /\ PrereqsDoneFirst' /\ JobInv'
    <3>1. api = "accepted"
      BY <1>0, <1>2 DEF JobInv
    <3>2. QED
      BY <1>0, <2>1, <2>4, <3>1, Constants
      DEF Waits, Waiting, PrereqsDoneFirst, InFlight, IsDone, JobInv, DoneJobIsComplete,
          FailedJobHasFailedTask
  <2>6. ASSUME NEW a \in Agent PROVE AgentInv(a)' /\ RowLocks(a)' = {}
    <3>1. pc[a] \notin {"create", "children", "count", "commit"}
      BY <2>1 DEF RowLocks
    <3>2. QED BY <1>0, <2>1, <3>1 DEF TInv, AgentInv, RowLocks, Finishing, agentVars
  <2>7. QED BY <2>3, <2>5, <2>6 DEF TInv, RowsLockedOnce
<1>3. QED BY <1>1, <1>2

\* Before the job exists there is no row and no agent at work.
LEMMA ApiInv ==
    ASSUME TInv, GetOrCreateStreams \/ CreateJob
    PROVE  TInv'
<1>0. /\ TypeOK /\ job = "none" /\ UNCHANGED <<agentVars, faults>>
      /\ \A t \in Task : tasks[t] = Absent /\ tasks[t].state = "absent"
      /\ \A a \in Agent : pc[a] = "poll" /\ pc'[a] = "poll"
  BY DEF TInv, JobInv, GetOrCreateStreams, CreateJob, agentVars, Absent
<1> DEFINE first == [state |-> "ready", waitingOn |-> 0, retries |-> 0]
<1>1. /\ api' \in {"start", "streams", "accepted"} /\ streams' \in SUBSET Stream
      /\ \/ api' # "accepted" /\ UNCHANGED <<job, tasks>>
         \/ api' = "accepted" /\ job' = "running" /\ tasks' = [tasks EXCEPT ![InitTask] = first]
  BY <1>0 DEF GetOrCreateStreams, CreateJob, TypeOK
<1>2. tasks' \in [Task -> Row] /\ job' \in {"none", "running"}
  <2>1. tasks \in [Task -> Row] /\ first \in Row
    BY <1>0 DEF TypeOK, Row, TaskState
  <2>2. QED BY <1>0, <1>1, <2>1
<1>3. TypeOK'
  BY <1>0, <1>1, <1>2 DEF TypeOK, agentVars, Row
<1>4. \A a \in Agent : AgentInv(a)' /\ RowLocks(a)' = {}
  BY <1>0 DEF AgentInv, RowLocks, Finishing
<1>5. \A t \in Task : \/ tasks'[t] = Absent /\ tasks'[t].state = "absent"
                      \/ t = InitTask /\ tasks'[t].state = "ready" /\ api' = "accepted"
  BY <1>0, <1>1, Constants DEF TypeOK
<1>6. Waits' /\ PrereqsDoneFirst'
  BY <1>5, Constants DEF Waits, Waiting, PrereqsDoneFirst, InFlight, IsDone
<1>7. JobInv'
  <2>1. job' # "none" => tasks'[InitTask].state = "ready"
    BY <1>0, <1>1, Constants DEF TypeOK
  <2>2. QED
    BY <1>0, <1>1, <1>2, <1>5, <2>1, Constants
    DEF JobInv, Exists, IsDone, DoneJobIsComplete, FailedJobHasFailedTask
<1>8. QED
  BY <1>3, <1>4, <1>6, <1>7 DEF TInv, RowsLockedOnce

-----------------------------------------------------------------------------
(* The theorems                                                            *)

LEMMA InitInv == Init => TInv
<1> SUFFICES ASSUME Init PROVE TInv
  OBVIOUS
<1>1. \A t \in Task : tasks[t] = Absent /\ tasks[t].state = "absent"
  BY DEF Init, Absent
<1>2. TypeOK
  BY Constants, PlanTask DEF Init, TypeOK, Absent
<1>3. \A a \in Agent : pc[a] = "poll"
  BY DEF Init
<1>4. RowsLockedOnce /\ \A a \in Agent : AgentInv(a)
  BY <1>3 DEF RowsLockedOnce, RowLocks, AgentInv, Finishing
<1>5. Waits /\ PrereqsDoneFirst
  BY <1>1 DEF Waits, Waiting, PrereqsDoneFirst, InFlight, IsDone
<1>6. JobInv
  BY <1>1, <1>3, Constants
  DEF Init, JobInv, Exists, IsDone, DoneJobIsComplete, FailedJobHasFailedTask
<1>7. QED
  BY <1>2, <1>4, <1>5, <1>6 DEF TInv

LEMMA NextInv == TInv /\ [Next]_vars => TInv'
<1> SUFFICES ASSUME TInv, [Next]_vars PROVE TInv'
  OBVIOUS
<1>1. CASE UNCHANGED vars
  <2> USE <1>1 DEF vars, dbVars, agentVars
  <2>1. TypeOK' /\ JobInv'
    BY DEF TInv, TypeOK, JobInv, Exists, IsDone, DoneJobIsComplete, FailedJobHasFailedTask
  <2>2. Monotone /\ \A u \in Task : RowInv(u)'
    BY Rows DEF TInv, Monotone, Exists, IsDone, RowInv, Waiting, Started, InFlight, Undone
  <2>3. QED BY <2>1, <2>2, MonitorStep
<1>2. ASSUME NEW a \in Agent, Poll(a) PROVE TInv'
  BY <1>2, RequestWorkInv DEF Poll
<1>3. ASSUME NEW a \in Agent, AgentStep(a) PROVE TInv'
  BY <1>3, GetStreamsInv, CreateTaskInv, CreateTaskCommitInv, UpdateTaskDoneInv,
     UpdateChildrenInv, CountUnresolvedInv, UpdateTaskDoneCommitInv, RunEndsInv,
     UpdateFailedInv DEF AgentStep
<1>4. QED
  BY <1>1, <1>2, <1>3, RunEndsInv, RequeueTaskInv, FixStuckInv, ClearCompletedJobsInv, ApiInv
  DEF Next

LEMMA AlwaysTInv == Spec => []TInv
BY InitInv, NextInv, PTL DEF Spec

\* The rows of the queue are well formed; in particular waiting_on, which
\* update_task_done decrements without a test, never falls below zero.
THEOREM QueueTypeCorrect == Spec => []TypeOK
<1>1. TInv => TypeOK
  BY DEF TInv
<1>2. QED BY <1>1, AlwaysTInv, PTL

\* request_work never hands out a task before all its prerequisites are done,
\* for every plan and every interleaving of create_task, update_task_done and
\* fix_stuck_pending_tasks.
THEOREM PrerequisitesComeFirst == Spec => []PrereqsDoneFirst
<1>1. TInv => PrereqsDoneFirst
  BY DEF TInv
<1>2. QED BY <1>1, AlwaysTInv, PTL

\* update_task_done reports a job done only when every task of its plan is,
\* created by whichever run of the executor.
THEOREM DoneJobsAreComplete == Spec => []DoneJobIsComplete
<1>1. TInv => DoneJobIsComplete
  BY DEF TInv, JobInv
<1>2. QED BY <1>1, AlwaysTInv, PTL

\* The job and its tasks agree on failure: update_task_failed and
\* update_task_retry change both, and no later step takes either back.
THEOREM FailuresAgree == Spec => []FailedJobHasFailedTask
<1>1. TInv => FailedJobHasFailedTask
  BY DEF TInv, JobInv
<1>2. QED BY <1>1, AlwaysTInv, PTL

\* What ResultIsFinal says of one step.
ResultStays ==
    \A t \in Task : (tasks[t].state \in {"done", "failed"} /\ job' # "none") =>
                        tasks'[t].state = tasks[t].state

LEMMA WritesKeepResult ==
    ASSUME TInv, NEW a \in Agent, AgentStep(a) \/ Poll(a)
    PROVE  ResultStays
<1>0. TypeOK /\ AgentInv(a) /\ \A t \in Task : tasks[t].state \in TaskState \cup {"absent"}
  BY DEF TInv, TypeOK
<1>1. CASE UNCHANGED tasks
  BY <1>1 DEF ResultStays
<1>2. ASSUME NEW t \in Task, RequestWork(a, t) PROVE ResultStays
  BY <1>0, <1>2 DEF RequestWork, ResultStays, TypeOK
<1>3. CASE CreateTaskCommit(a)
  <2>1. tasks[NextTask(a)].state = "absent"
    BY <1>0, <1>3 DEF CreateTaskCommit, AgentInv, Creating, Exists
  <2>2. QED BY <1>0, <1>3, <2>1 DEF CreateTaskCommit, ResultStays, TypeOK
<1>4. CASE UpdateTaskDoneCommit(a)
  <2>1. InFlight(work[a]) /\ \A c \in children[a] : tasks[c].state = "pending"
    BY <1>0, <1>4 DEF UpdateTaskDoneCommit, AgentInv, Finishing, ChildrenWait
  <2>2. \A t \in Task : t # work[a] /\ t \notin children[a] => tasks'[t] = tasks[t]
    BY <1>4 DEF UpdateTaskDoneCommit
  <2>3. QED BY <2>1, <2>2 DEF ResultStays, InFlight
<1>5. CASE UpdateTaskFailed(a) \/ UpdateTaskRetry(a)
  <2>1. PICK t \in Task : Unfinished(t)
    BY <1>0, <1>5, TaskFailedWrites, TaskRetryWrites DEF UpdateTaskFailed, UpdateTaskRetry, TypeOK
  <2>2. QED BY <2>1 DEF Unfinished, ResultStays, Failable
<1>6. QED
  BY <1>1, <1>2, <1>3, <1>4, <1>5
  DEF AgentStep, Poll, GetStreams, CreateTask, UpdateTaskDone, UpdateChildren, CountUnresolved,
      ReadRetries, dbVars

LEMMA NextKeepsResult == TInv /\ [Next]_vars => [ResultStays]_vars
<1> SUFFICES ASSUME TInv, Next PROVE ResultStays
  OBVIOUS
<1>1. ASSUME NEW a \in Agent, RunFails(a) \/ Crash(a) PROVE ResultStays
  BY <1>1 DEF RunFails, Crash, dbVars, ResultStays
<1>2. ASSUME NEW t \in Task, RequeueTask(t) PROVE ResultStays
  <2>1. Unfinished(t)
    BY <1>2, TaskRetryWrites DEF TInv, RequeueTask
  <2>2. QED BY <2>1 DEF Unfinished, ResultStays, Failable
<1>3. CASE FixStuckPendingTasks
  BY <1>3 DEF FixStuckPendingTasks, ResultStays, Stuck
<1>4. CASE ClearCompletedJobs
  BY <1>4 DEF ClearCompletedJobs, ResultStays
<1>5. CASE GetOrCreateStreams \/ CreateJob
  <2>1. \A t \in Task : tasks[t].state = "absent"
    BY <1>5 DEF TInv, JobInv, GetOrCreateStreams, CreateJob, Absent
  <2>2. QED BY <2>1 DEF ResultStays
<1>6. QED
  BY <1>1, <1>2, <1>3, <1>4, <1>5, WritesKeepResult DEF Next

\* "No worker should ever un-done a task": neither a late agent, nor a retry,
\* nor a requeue, nor the unconditional update of the children changes a task
\* that is done or failed.
THEOREM ResultsAreFinal == Spec => ResultIsFinal
<1>1. TInv /\ [Next]_vars => [ResultStays]_vars
  BY NextKeepsResult
<1>2. Spec => [][ResultStays]_vars
  BY <1>1, AlwaysTInv, PTL DEF Spec
<1>3. QED BY <1>2, PTL DEF ResultIsFinal, ResultStays

=============================================================================
