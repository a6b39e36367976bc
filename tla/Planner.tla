------------------------------ MODULE Planner ------------------------------
(***************************************************************************)
(* The planner of a proving job (bento/crates/taskdb/src/planner): while   *)
(* the executor produces segments and keccak proofs, it lays out the joins *)
(* that make one proof of all the segments and the unions that make one of *)
(* all the keccak proofs.  A peak is a tree no other task consumes yet.    *)
(*                                                                         *)
(* Tasks are numbered from 1 here and from 0 in the code.  An operation    *)
(* that loops takes a step per round (pc, top), and no other operation     *)
(* starts meanwhile.  The fields first and last of a task are history: the *)
(* segments, or keccak proofs, that its proof is about.                    *)
(***************************************************************************)
EXTENDS Integers, Sequences, FiniteSets

CONSTANTS MaxSegments, MaxKeccaks   \* bounds on the operations

ASSUME PlannerAssumption == MaxSegments \in Nat /\ MaxKeccaks \in Nat

VARIABLES
    tasks,          \* sequence of tasks
    peaks,          \* segments and joins that no join depends on
    keccakPeaks,    \* keccaks and unions that no union depends on
    position,       \* consumer_position
    lastTask,       \* last_task, 0 for None
    pc,             \* the loop that is running
    top,            \* new_peak of that loop
    segments,       \* how many segments were enqueued
    keccaks         \* how many keccaks were enqueued

vars == <<tasks, peaks, keccakPeaks, position, lastTask, pc, top, segments, keccaks>>

Command == {"Segment", "Keccak", "Join", "Union", "Finalize"}

Leaf(command, n) ==
    [command |-> command, height |-> 0, deps |-> <<>>, first |-> n, last |-> n]

Higher(m, n) == IF m < n THEN n ELSE m
Lower(m, n)  == IF m < n THEN m ELSE n

\* new_join and new_union, with the height enqueue_join and enqueue_union give.
Merge(command, left, right) ==
    [command |-> command,
     height  |-> 1 + Higher(tasks[left].height, tasks[right].height),
     deps    |-> <<left, right>>,
     first   |-> Lower(tasks[left].first, tasks[right].first),
     last    |-> Higher(tasks[left].last, tasks[right].last)]

Init ==
    /\ tasks = <<>> /\ peaks = <<>> /\ keccakPeaks = <<>>
    /\ position = 0 /\ lastTask = 0
    /\ pc = "idle" /\ top = 0
    /\ segments = 0 /\ keccaks = 0

Last(s)  == s[Len(s)]
Front(s) == SubSeq(s, 1, Len(s) - 1)

-----------------------------------------------------------------------------
(* enqueue_segment and enqueue_keccak                                      *)

\* Enqueuing fails with PlanFinalized once the plan is finished.
EnqueueSegment ==
    /\ pc = "idle" /\ lastTask = 0
    /\ segments < MaxSegments
    /\ segments' = segments + 1
    /\ tasks' = Append(tasks, Leaf("Segment", segments + 1))
    /\ top' = Len(tasks) + 1
    /\ pc' = "segment"
    /\ UNCHANGED <<peaks, keccakPeaks, position, lastTask, keccaks>>

EnqueueKeccak ==
    /\ pc = "idle" /\ lastTask = 0
    /\ keccaks < MaxKeccaks
    /\ keccaks' = keccaks + 1
    /\ tasks' = Append(tasks, Leaf("Keccak", keccaks + 1))
    /\ top' = Len(tasks) + 1
    /\ pc' = "keccak"
    /\ UNCHANGED <<peaks, keccakPeaks, position, lastTask, segments>>

\* A peak of the same height as the new one is merged with it.
MergesMutant(s) == s # <<>>
Merges(s) == s # <<>> /\ tasks[Last(s)].height = tasks[top].height

JoinEqual ==
    /\ pc = "segment" /\ Merges(peaks)
    /\ tasks' = Append(tasks, Merge("Join", Last(peaks), top))
    /\ peaks' = Front(peaks)
    /\ top' = Len(tasks) + 1
    /\ UNCHANGED <<keccakPeaks, position, lastTask, pc, segments, keccaks>>

UnionEqualMutant ==
    /\ pc = "keccak" /\ Merges(keccakPeaks)
    /\ tasks' = Append(tasks, Merge("Union", Last(keccakPeaks), top))
    /\ keccakPeaks' = Tail(keccakPeaks)
    /\ top' = Len(tasks) + 1
    /\ UNCHANGED <<peaks, position, lastTask, pc, segments, keccaks>>
UnionEqual ==
    /\ pc = "keccak" /\ Merges(keccakPeaks)
    /\ tasks' = Append(tasks, Merge("Union", Last(keccakPeaks), top))
    /\ keccakPeaks' = Front(keccakPeaks)
    /\ top' = Len(tasks) + 1
    /\ UNCHANGED <<peaks, position, lastTask, pc, segments, keccaks>>

PushPeak ==
    /\ pc = "segment" /\ ~Merges(peaks)
    /\ peaks' = Append(peaks, top)
    /\ pc' = "idle" /\ top' = 0
    /\ UNCHANGED <<tasks, keccakPeaks, position, lastTask, segments, keccaks>>

PushKeccakPeak ==
    /\ pc = "keccak" /\ ~Merges(keccakPeaks)
    /\ keccakPeaks' = Append(keccakPeaks, top)
    /\ pc' = "idle" /\ top' = 0
    /\ UNCHANGED <<tasks, peaks, position, lastTask, segments, keccaks>>

-----------------------------------------------------------------------------
(* finish: without a segment it fails with PlanNotStarted                  *)

Finish ==
    /\ pc = "idle" /\ lastTask = 0 /\ peaks # <<>>
    /\ pc' = "unions"
    /\ UNCHANGED <<tasks, peaks, keccakPeaks, position, lastTask, top, segments, keccaks>>

\* finish_unions takes the peaks from the front of the deque.
FinishUnions ==
    /\ pc = "unions" /\ Len(keccakPeaks) >= 2
    /\ tasks' = Append(tasks, Merge("Union", keccakPeaks[2], keccakPeaks[1]))
    /\ keccakPeaks' = <<Len(tasks) + 1>> \o SubSeq(keccakPeaks, 3, Len(keccakPeaks))
    /\ UNCHANGED <<peaks, position, lastTask, pc, top, segments, keccaks>>

UnionsDone ==
    /\ pc = "unions" /\ Len(keccakPeaks) < 2
    /\ pc' = "joins"
    /\ UNCHANGED <<tasks, peaks, keccakPeaks, position, lastTask, top, segments, keccaks>>

\* finish takes the peaks from the back of the vector.
LastTwoMutant == <<Last(peaks), Last(Front(peaks))>>
LastTwo == <<Last(Front(peaks)), Last(peaks)>>

FinishJoins ==
    /\ pc = "joins" /\ Len(peaks) >= 2
    /\ tasks' = Append(tasks, Merge("Join", LastTwo[1], LastTwo[2]))
    /\ peaks' = Append(Front(Front(peaks)), Len(tasks) + 1)
    /\ UNCHANGED <<keccakPeaks, position, lastTask, pc, top, segments, keccaks>>

FinalizeDepsMutant == peaks
FinalizeDeps == peaks \o keccakPeaks

EnqueueFinalize ==
    /\ pc = "joins" /\ Len(peaks) < 2
    /\ tasks' = Append(tasks,
         [command |-> "Finalize",
          height  |-> 1 + IF keccakPeaks = <<>> THEN tasks[peaks[1]].height
                          ELSE Higher(tasks[peaks[1]].height, tasks[keccakPeaks[1]].height),
          deps    |-> FinalizeDeps,
          first   |-> tasks[peaks[1]].first,
          last    |-> tasks[peaks[1]].last])
    /\ lastTask' = Len(tasks) + 1
    /\ pc' = "idle"
    /\ UNCHANGED <<peaks, keccakPeaks, position, top, segments, keccaks>>

NextTask ==
    /\ pc = "idle" /\ position < Len(tasks)
    /\ position' = position + 1
    /\ UNCHANGED <<tasks, peaks, keccakPeaks, lastTask, pc, top, segments, keccaks>>

Next ==
    \/ EnqueueSegment \/ EnqueueKeccak
    \/ JoinEqual \/ UnionEqual \/ PushPeak \/ PushKeccakPeak
    \/ Finish \/ FinishUnions \/ UnionsDone \/ FinishJoins \/ EnqueueFinalize
    \/ NextTask

Spec == Init /\ [][Next]_vars

-----------------------------------------------------------------------------
(* Properties                                                              *)

PlannerTask ==
    [command : Command, height : Nat, deps : Seq(Nat), first : Nat, last : Nat]

PlannerTypeOK ==
    /\ tasks \in Seq(PlannerTask)
    /\ peaks \in Seq(DOMAIN tasks) /\ keccakPeaks \in Seq(DOMAIN tasks)
    /\ position \in 0..Len(tasks)
    /\ lastTask \in 0..Len(tasks)
    /\ pc \in {"idle", "segment", "keccak", "unions", "joins"}
    /\ top \in 0..Len(tasks)
    /\ segments \in 0..MaxSegments /\ keccaks \in 0..MaxKeccaks

\* The case Ordering::Greater of the two merge loops, marked unreachable!(), is
\* unreachable: the new peak is never higher than the smallest of the others.
GreaterIsUnreachable ==
    /\ pc = "segment" /\ peaks # <<>> =>
         tasks[top].height <= tasks[Last(peaks)].height
    /\ pc = "keccak" /\ keccakPeaks # <<>> =>
         tasks[top].height <= tasks[Last(keccakPeaks)].height

\* A join is only defined on neighbours in the right order: the left proof ends
\* with the segment before the one the right proof starts with, whatever was
\* enqueued in between and whichever loop made the join.
JoinsAreInOrder ==
    \A t \in DOMAIN tasks :
        tasks[t].command = "Join" =>
            tasks[tasks[t].deps[1]].last + 1 = tasks[tasks[t].deps[2]].first

\* A finished plan proves everything once: every other task is a dependency of
\* exactly one task, and the last one rests on a proof of all the segments, from
\* the first to the last, and on one of all the keccak proofs if there are any.
Users(t) == {u \in DOMAIN tasks : \E i \in DOMAIN tasks[u].deps : tasks[u].deps[i] = t}
Spans(t, n) == tasks[t].first = 1 /\ tasks[t].last = n

PlanIsComplete ==
    lastTask # 0 =>
        LET deps == tasks[lastTask].deps
        IN  /\ \A t \in DOMAIN tasks \ {lastTask} : Cardinality(Users(t)) = 1
            /\ Spans(deps[1], segments)
            /\ keccaks > 0 => Len(deps) = 2 /\ Spans(deps[2], keccaks)

\* The joins of a finished plan take as many rounds as a balanced tree does, for
\* any number of segments: a plan of n segments has height log2(n), rounded up.
JoinTreeIsBalanced ==
    lastTask # 0 =>
        LET h == tasks[tasks[lastTask].deps[1]].height
        IN  segments <= 2^h /\ (h > 0 => 2^(h - 1) < segments)

=============================================================================
