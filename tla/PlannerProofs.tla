--------------------------- MODULE PlannerProofs ---------------------------
(***************************************************************************)
(* For any number of segments and keccak proofs, enqueued in any order:    *)
(* the planner never reaches its unreachable!(), it joins only neighbours, *)
(* in the right order, a finished plan uses every task once and proves     *)
(* everything, and its tree of joins is as high as a balanced one.         *)
(*                                                                         *)
(* The argument is about the peaks while the plan is laid out.  Their      *)
(* heights strictly fall, so that after a merge, which makes a peak one    *)
(* higher, the next peak is at least as high; what they are about is       *)
(* contiguous, from the first segment to the last one enqueued; they are   *)
(* full binary trees; and they are exactly the tasks no task depends on.   *)
(* Inv, the first part, is about heights and order.  PlanInv adds Uses,    *)
(* Chains and Heights, from which a finished plan is complete and          *)
(* balanced.                                                               *)
(***************************************************************************)
EXTENDS Planner, SequenceTheorems, FiniteSetTheorems, TLAPS

Growing == pc \in {"idle", "segment", "keccak"} /\ lastTask = 0

\* About a sequence s of tasks of T: the heights fall, and each task starts with
\* the segment after the one the task before it ends with.
Falling(T, s) ==
    \A i \in 1..(Len(s) - 1) : T[s[i]].height > T[s[i+1]].height
Neighbours(T, s) ==
    \A i \in 1..(Len(s) - 1) : T[s[i]].last + 1 = T[s[i+1]].first
Covered(T, s) == IF s = <<>> THEN 0 ELSE T[Last(s)].last

HeightsFall == Growing => Falling(tasks, peaks) /\ Falling(tasks, keccakPeaks)

\* Every task is about a nonempty range, and a join is made of earlier tasks.
TaskOK(t) ==
    /\ tasks[t].first <= tasks[t].last
    /\ tasks[t].command = "Join" =>
          /\ tasks[t].deps[1] \in 1..(t - 1)
          /\ tasks[t].deps[2] \in 1..(t - 1)
          /\ tasks[tasks[t].deps[1]].last + 1 = tasks[tasks[t].deps[2]].first

TasksOK == \A t \in 1..Len(tasks) : TaskOK(t)

Contiguous ==
    /\ Neighbours(tasks, peaks)
    /\ pc = "segment" =>
          /\ peaks # <<>> => tasks[top].first = Covered(tasks, peaks) + 1
          /\ tasks[top].last = segments
    /\ pc # "segment" => Covered(tasks, peaks) = segments

Control ==
    /\ pc # "idle" => lastTask = 0
    /\ pc \in {"segment", "keccak"} => top \in 1..Len(tasks)
    /\ pc \in {"unions", "joins"} => peaks # <<>>

Inv ==
    /\ PlannerTypeOK
    /\ Control
    /\ HeightsFall
    /\ GreaterIsUnreachable
    /\ TasksOK
    /\ lastTask = 0 => Contiguous

-----------------------------------------------------------------------------
(* Sequences                                                               *)

\* What Front and Last of a nonempty sequence are.
LEMMA FrontFacts ==
    ASSUME NEW S, NEW s \in Seq(S), s # <<>>
    PROVE  /\ Len(s) \in Nat /\ Len(s) >= 1
           /\ Front(s) \in Seq(S)
           /\ Len(Front(s)) = Len(s) - 1
           /\ \A i \in 1..(Len(s) - 1) : Front(s)[i] = s[i]
           /\ Last(s) = s[Len(s)] /\ Last(s) \in S
<1>1. Len(s) \in Nat /\ Len(s) >= 1
  OBVIOUS
<1> DEFINE m == Len(s) - 1
<1>2. m \in Int /\ m >= 0 /\ \A i \in 1..m : s[i] \in S
  BY <1>1
<1>3. /\ SubSeq(s, 1, m) \in Seq(S)
      /\ Len(SubSeq(s, 1, m)) = IF 1 <= m THEN m - 1 + 1 ELSE 0
      /\ \A i \in 1..(m - 1 + 1) : SubSeq(s, 1, m)[i] = s[1 + i - 1]
  <2> HIDE DEF m
  <2> QED
    BY <1>2, SubSeqProperties
<1>4. s[Len(s)] \in S
  BY <1>1
<1>5. Front(s) = SubSeq(s, 1, m) /\ Last(s) = s[Len(s)]
  BY DEF Front, Last
<1>6. Len(Front(s)) = m
  <2> HIDE DEF m
  <2>1. CASE 1 <= m
    BY <1>2, <1>3, <1>5, <2>1
  <2>2. CASE ~(1 <= m)
    BY <1>2, <1>3, <1>5, <2>2
  <2> QED
    BY <2>1, <2>2
<1>7. \A i \in 1..m : Front(s)[i] = s[i]
  BY <1>2, <1>3, <1>5
<1> QED
  BY <1>1, <1>3, <1>4, <1>5, <1>6, <1>7

\* What Append does.
LEMMA AppendFacts ==
    ASSUME NEW S, NEW s \in Seq(S), NEW x \in S
    PROVE  /\ Len(s) \in Nat
           /\ Append(s, x) \in Seq(S)
           /\ Append(s, x) # <<>>
           /\ Len(Append(s, x)) = Len(s) + 1
           /\ \A i \in 1..Len(s) : Append(s, x)[i] = s[i]
           /\ Append(s, x)[Len(s) + 1] = x
           /\ Last(Append(s, x)) = x
BY DEF Last

\* A sequence of old task numbers is one of task numbers when tasks are added.
LEMMA SeqGrows ==
    ASSUME NEW m \in Nat, NEW n \in Nat, m <= n, NEW s \in Seq(1..m)
    PROVE  s \in Seq(1..n)
OBVIOUS

\* Falling and Neighbours depend on the tasks of the sequence only.
LEMMA Kept ==
    ASSUME NEW T, NEW U, NEW n \in Nat, NEW s \in Seq(1..n),
           \A t \in 1..n : U[t] = T[t]
    PROVE  /\ Falling(T, s) => Falling(U, s)
           /\ Neighbours(T, s) => Neighbours(U, s)
           /\ Covered(U, s) = Covered(T, s)
<1>1. /\ Len(s) \in Nat
      /\ \A i \in 1..(Len(s) - 1) : s[i] \in 1..n /\ s[i+1] \in 1..n
  OBVIOUS
<1>2. s # <<>> => Last(s) \in 1..n
  BY FrontFacts
<1> QED
  BY <1>1, <1>2 DEF Falling, Neighbours, Covered

\* Without its last task the sequence is as before, and the task that is last
\* then is related to the one that was.
LEMMA Shortened ==
    ASSUME NEW T, NEW n \in Nat, NEW s \in Seq(1..n), s # <<>>,
           \A t \in 1..n : T[t].first \in Nat /\ T[t].last \in Nat
    PROVE  /\ Falling(T, s) => Falling(T, Front(s))
           /\ Falling(T, s) /\ Front(s) # <<>> =>
                 T[Last(Front(s))].height > T[Last(s)].height
           /\ Neighbours(T, s) => Neighbours(T, Front(s))
           /\ Neighbours(T, s) /\ Front(s) # <<>> =>
                 T[Last(Front(s))].last + 1 = T[Last(s)].first
<1>1. /\ Len(s) \in Nat /\ Len(s) >= 1
      /\ Front(s) \in Seq(1..n) /\ Len(Front(s)) = Len(s) - 1
      /\ \A i \in 1..(Len(s) - 1) : Front(s)[i] = s[i]
      /\ Last(s) = s[Len(s)]
  BY FrontFacts
<1>2. Front(s) # <<>> =>
        /\ Len(s) - 1 \in 1..(Len(s) - 1)
        /\ Last(Front(s)) = s[Len(s) - 1]
        /\ Last(s) = s[(Len(s) - 1) + 1]
  <2> SUFFICES ASSUME Front(s) # <<>>
               PROVE  /\ Len(s) - 1 \in 1..(Len(s) - 1)
                      /\ Last(Front(s)) = s[Len(s) - 1]
                      /\ Last(s) = s[(Len(s) - 1) + 1]
    OBVIOUS
  <2>1. Len(Front(s)) >= 1 /\ Last(Front(s)) = Front(s)[Len(Front(s))]
    BY <1>1, FrontFacts
  <2>2. Len(s) - 1 \in 1..(Len(s) - 1) /\ (Len(s) - 1) + 1 = Len(s)
    BY <1>1, <2>1
  <2> QED
    BY <1>1, <2>1, <2>2
<1>3. \A i \in 1..(Len(Front(s)) - 1) :
        /\ i \in 1..(Len(s) - 1)
        /\ Front(s)[i] = s[i] /\ Front(s)[i+1] = s[i+1]
  BY <1>1
<1> QED
  BY <1>2, <1>3 DEF Falling, Neighbours

\* With a task at the end that is related to the last one.
LEMMA Lengthened ==
    ASSUME NEW T, NEW n \in Nat, NEW s \in Seq(1..n), NEW x \in 1..n
    PROVE  /\ Falling(T, s) /\ (s # <<>> => T[Last(s)].height > T[x].height) =>
                 Falling(T, Append(s, x))
           /\ Neighbours(T, s) /\ (s # <<>> => T[Last(s)].last + 1 = T[x].first) =>
                 Neighbours(T, Append(s, x))
           /\ Covered(T, Append(s, x)) = T[x].last
<1>1. /\ Len(s) \in Nat /\ Append(s, x) \in Seq(1..n)
      /\ Append(s, x) # <<>> /\ Len(Append(s, x)) = Len(s) + 1
      /\ \A i \in 1..Len(s) : Append(s, x)[i] = s[i]
      /\ Append(s, x)[Len(s) + 1] = x /\ Last(Append(s, x)) = x
  BY AppendFacts
<1>2. \A i \in 1..(Len(Append(s, x)) - 1) :
        \/ /\ i \in 1..(Len(s) - 1)
           /\ Append(s, x)[i] = s[i] /\ Append(s, x)[i+1] = s[i+1]
        \/ /\ s # <<>>
           /\ Append(s, x)[i] = Last(s) /\ Append(s, x)[i+1] = x
  <2> SUFFICES ASSUME NEW i \in 1..(Len(Append(s, x)) - 1)
               PROVE  \/ /\ i \in 1..(Len(s) - 1)
                         /\ Append(s, x)[i] = s[i] /\ Append(s, x)[i+1] = s[i+1]
                      \/ /\ s # <<>>
                         /\ Append(s, x)[i] = Last(s) /\ Append(s, x)[i+1] = x
    OBVIOUS
  <2>1. CASE i = Len(s)
    BY <1>1, <2>1 DEF Last
  <2>2. CASE i # Len(s)
    BY <1>1, <2>2
  <2> QED
    BY <2>1, <2>2
<1> QED
  BY <1>1, <1>2 DEF Falling, Neighbours, Covered

-----------------------------------------------------------------------------
(* Tasks                                                                   *)

\* What the type invariant says in the form the steps below use.
LEMMA Types ==
    ASSUME PlannerTypeOK
    PROVE  /\ tasks \in Seq(PlannerTask) /\ Len(tasks) \in Nat
           /\ DOMAIN tasks = 1..Len(tasks)
           /\ \A t \in 1..Len(tasks) :
                 /\ tasks[t] \in PlannerTask
                 /\ tasks[t].height \in Nat
                 /\ tasks[t].first \in Nat /\ tasks[t].last \in Nat
           /\ peaks \in Seq(1..Len(tasks)) /\ keccakPeaks \in Seq(1..Len(tasks))
           /\ position \in 0..Len(tasks) /\ lastTask \in 0..Len(tasks)
           /\ top \in 0..Len(tasks)
<1>1. tasks \in Seq(PlannerTask) /\ Len(tasks) \in Nat /\ DOMAIN tasks = 1..Len(tasks)
  BY DEF PlannerTypeOK
<1>2. \A t \in 1..Len(tasks) : tasks[t] \in PlannerTask
  BY <1>1
<1>3. \A t \in 1..Len(tasks) :
        tasks[t].height \in Nat /\ tasks[t].first \in Nat /\ tasks[t].last \in Nat
  BY <1>2 DEF PlannerTask
<1> QED
  BY <1>1, <1>2, <1>3 DEF PlannerTypeOK

\* The task an enqueuing adds is a task, about the number n alone.
LEMMA LeafIsTask ==
    ASSUME NEW c \in Command, NEW n \in Nat
    PROVE  /\ Leaf(c, n) \in PlannerTask
           /\ Leaf(c, n).command = c /\ Leaf(c, n).height = 0
           /\ Leaf(c, n).first = n /\ Leaf(c, n).last = n
BY DEF Leaf, PlannerTask

\* The larger and the smaller of two numbers.
LEMMA Bounds ==
    ASSUME NEW m \in Nat, NEW n \in Nat
    PROVE  /\ Higher(m, n) \in Nat /\ Lower(m, n) \in Nat
           /\ m <= Higher(m, n) /\ Lower(m, n) <= m
           /\ m <= n => Higher(m, n) = n /\ Lower(m, n) = m
BY DEF Higher, Lower

\* A merge of two tasks is a task, and one of neighbours is about both.
LEMMA MergeIsTask ==
    ASSUME PlannerTypeOK, TasksOK, NEW c \in Command,
           NEW l \in 1..Len(tasks), NEW r \in 1..Len(tasks)
    PROVE  /\ Merge(c, l, r) \in PlannerTask
           /\ Merge(c, l, r).command = c
           /\ Merge(c, l, r).first <= Merge(c, l, r).last
           /\ Merge(c, l, r).deps[1] = l /\ Merge(c, l, r).deps[2] = r
           /\ tasks[l].height = tasks[r].height =>
                 Merge(c, l, r).height = tasks[r].height + 1
           /\ tasks[l].last + 1 = tasks[r].first =>
                 /\ Merge(c, l, r).first = tasks[l].first
                 /\ Merge(c, l, r).last = tasks[r].last
<1> DEFINE h == 1 + Higher(tasks[l].height, tasks[r].height)
           f == Lower(tasks[l].first, tasks[r].first)
           b == Higher(tasks[l].last, tasks[r].last)
<1>1. /\ tasks[l].height \in Nat /\ tasks[r].height \in Nat
      /\ tasks[l].first \in Nat /\ tasks[r].first \in Nat
      /\ tasks[l].last \in Nat /\ tasks[r].last \in Nat
      /\ l \in Nat /\ r \in Nat
  BY Types
<1>2. tasks[l].first <= tasks[l].last /\ tasks[r].first <= tasks[r].last
  BY DEF TasksOK, TaskOK
<1>3. /\ h \in Nat /\ f \in Nat /\ b \in Nat /\ f <= b
      /\ tasks[l].height = tasks[r].height => h = tasks[r].height + 1
      /\ tasks[l].last + 1 = tasks[r].first => f = tasks[l].first /\ b = tasks[r].last
  <2>1. h \in Nat /\ (tasks[l].height = tasks[r].height => h = tasks[r].height + 1)
    BY <1>1, Bounds
  <2>2. f \in Nat /\ b \in Nat /\ f <= tasks[l].first /\ tasks[l].last <= b
    BY <1>1, Bounds
  <2>3. tasks[l].last + 1 = tasks[r].first =>
          tasks[l].first <= tasks[r].first /\ tasks[l].last <= tasks[r].last
    BY <1>1, <1>2
  <2>4. tasks[l].last + 1 = tasks[r].first => f = tasks[l].first /\ b = tasks[r].last
    BY <1>1, <2>3, Bounds
  <2> HIDE DEF h, f, b
  <2> QED
    BY <1>1, <1>2, <2>1, <2>2, <2>4
<1>4. Merge(c, l, r) =
        [command |-> c, height |-> h, deps |-> <<l, r>>, first |-> f, last |-> b]
  BY DEF Merge
<1>5. <<l, r>> \in Seq(Nat)
  BY <1>1
<1> HIDE DEF h, f, b
<1>6. Merge(c, l, r) \in PlannerTask
  BY <1>3, <1>4, <1>5 DEF PlannerTask
<1> QED
  BY <1>3, <1>4, <1>6

\* Adding a task changes none of the others, and keeps them all well made if
\* the new one is.
LEMMA TaskAppended ==
    ASSUME PlannerTypeOK, TasksOK, NEW x \in PlannerTask,
           x.first <= x.last,
           x.command = "Join" =>
              /\ x.deps[1] \in 1..Len(tasks) /\ x.deps[2] \in 1..Len(tasks)
              /\ tasks[x.deps[1]].last + 1 = tasks[x.deps[2]].first,
           tasks' = Append(tasks, x)
    PROVE  /\ tasks' \in Seq(PlannerTask)
           /\ Len(tasks') = Len(tasks) + 1
           /\ DOMAIN tasks' = 1..Len(tasks')
           /\ \A t \in 1..Len(tasks) : tasks'[t] = tasks[t]
           /\ tasks'[Len(tasks) + 1] = x
           /\ TasksOK'
<1>1. tasks \in Seq(PlannerTask) /\ Len(tasks) \in Nat
  BY Types
<1>2. /\ tasks' \in Seq(PlannerTask)
      /\ Len(tasks') = Len(tasks) + 1
      /\ \A t \in 1..Len(tasks) : tasks'[t] = tasks[t]
      /\ tasks'[Len(tasks) + 1] = x
  BY <1>1, AppendFacts
<1>3. ASSUME NEW t \in 1..Len(tasks')
      PROVE  TaskOK(t)'
  <2>1. CASE t = Len(tasks) + 1
    <3>1. tasks'[t] = x
      BY <1>2, <2>1
    <3>2. x.command = "Join" =>
             /\ x.deps[1] \in 1..(t - 1) /\ x.deps[2] \in 1..(t - 1)
             /\ tasks'[x.deps[1]].last + 1 = tasks'[x.deps[2]].first
      BY <1>1, <1>2, <2>1
    <3> QED
      BY <3>1, <3>2 DEF TaskOK
  <2>2. CASE t # Len(tasks) + 1
    <3>1. t \in 1..Len(tasks) /\ 1..(t - 1) \subseteq 1..Len(tasks)
      BY <1>1, <1>2, <2>2
    <3>2. TaskOK(t) /\ tasks'[t] = tasks[t]
      BY <1>2, <3>1 DEF TasksOK
    <3>3. tasks[t].command = "Join" =>
             /\ tasks'[tasks[t].deps[1]] = tasks[tasks[t].deps[1]]
             /\ tasks'[tasks[t].deps[2]] = tasks[tasks[t].deps[2]]
      BY <1>2, <3>1, <3>2 DEF TaskOK
    <3> QED
      BY <3>2, <3>3 DEF TaskOK
  <2> QED
    BY <2>1, <2>2
<1> QED
  BY <1>2, <1>3 DEF TasksOK

\* What a sequence of task numbers keeps when a task is added.
LEMMA Frame ==
    ASSUME PlannerTypeOK, tasks' \in Seq(PlannerTask), Len(tasks') = Len(tasks) + 1,
           \A t \in 1..Len(tasks) : tasks'[t] = tasks[t],
           NEW s \in Seq(1..Len(tasks))
    PROVE  /\ s \in Seq(1..Len(tasks'))
           /\ Falling(tasks, s) => Falling(tasks', s)
           /\ Neighbours(tasks, s) => Neighbours(tasks', s)
           /\ Covered(tasks', s) = Covered(tasks, s)
           /\ s # <<>> => tasks'[Last(s)] = tasks[Last(s)]
<1>1. Len(tasks) \in Nat /\ Len(tasks') \in Nat /\ Len(tasks) <= Len(tasks')
  BY Types
<1>2. s \in Seq(1..Len(tasks'))
  BY <1>1, SeqGrows
<1>3. /\ Falling(tasks, s) => Falling(tasks', s)
      /\ Neighbours(tasks, s) => Neighbours(tasks', s)
      /\ Covered(tasks', s) = Covered(tasks, s)
  <2> DEFINE n == Len(tasks)
  <2>1. n \in Nat /\ s \in Seq(1..n) /\ \A t \in 1..n : tasks'[t] = tasks[t]
    BY <1>1
  <2> HIDE DEF n
  <2> QED
    BY <2>1, Kept
<1>4. s # <<>> => tasks'[Last(s)] = tasks[Last(s)]
  BY FrontFacts
<1> QED
  BY <1>2, <1>3, <1>4

-----------------------------------------------------------------------------
(* One lemma per action                                                    *)

\* A segment starts a new peak, of height 0 and next to the last segment.
LEMMA EnqueueSegmentInv ==
    ASSUME Inv, EnqueueSegment
    PROVE  Inv'
<1> DEFINE x == Leaf("Segment", segments + 1)
           n == Len(tasks)
<1>1. /\ segments + 1 \in Nat
      /\ x \in PlannerTask /\ x.command = "Segment" /\ x.height = 0
      /\ x.first = segments + 1 /\ x.last = segments + 1
  <2>1. segments + 1 \in Nat /\ "Segment" \in Command
    BY PlannerAssumption DEF Inv, PlannerTypeOK, Command
  <2> QED
    BY <2>1, LeafIsTask
<1>2. tasks' = Append(tasks, x)
  BY DEF EnqueueSegment
<1> HIDE DEF x
<1>3. /\ tasks' \in Seq(PlannerTask) /\ Len(tasks') = n + 1
      /\ DOMAIN tasks' = 1..Len(tasks')
      /\ \A t \in 1..n : tasks'[t] = tasks[t]
      /\ tasks'[n + 1] = x
      /\ TasksOK'
  BY <1>1, <1>2, TaskAppended DEF Inv
<1>4. /\ n \in Nat /\ peaks \in Seq(1..n) /\ keccakPeaks \in Seq(1..n)
      /\ position \in 0..n
      /\ \A t \in 1..n : tasks[t].height \in Nat
  BY Types DEF Inv
<1>5. /\ peaks \in Seq(1..Len(tasks')) /\ keccakPeaks \in Seq(1..Len(tasks'))
      /\ Falling(tasks, peaks) => Falling(tasks', peaks)
      /\ Falling(tasks, keccakPeaks) => Falling(tasks', keccakPeaks)
      /\ Neighbours(tasks, peaks) => Neighbours(tasks', peaks)
      /\ Covered(tasks', peaks) = Covered(tasks, peaks)
      /\ peaks # <<>> => tasks'[Last(peaks)] = tasks[Last(peaks)]
  BY <1>3, <1>4, Frame DEF Inv
<1>6. /\ pc = "idle" /\ pc' = "segment" /\ top' = n + 1
      /\ lastTask = 0 /\ lastTask' = 0
      /\ segments < MaxSegments /\ segments' = segments + 1
      /\ peaks' = peaks /\ keccakPeaks' = keccakPeaks /\ position' = position
      /\ keccaks' = keccaks
  BY DEF EnqueueSegment
<1> HIDE DEF n
<1>7. PlannerTypeOK'
  <2>1. segments' \in 0..MaxSegments /\ keccaks' \in 0..MaxKeccaks
    BY <1>6, PlannerAssumption DEF Inv, PlannerTypeOK
  <2>2. position' \in 0..Len(tasks') /\ lastTask' \in 0..Len(tasks') /\ top' \in 0..Len(tasks')
    BY <1>3, <1>4, <1>6
  <2> QED
    BY <1>3, <1>5, <1>6, <2>1, <2>2 DEF PlannerTypeOK
<1>8. Control'
  BY <1>3, <1>4, <1>6 DEF Control
<1>9. HeightsFall'
  BY <1>5, <1>6 DEF Inv, HeightsFall, Growing
<1>10. GreaterIsUnreachable'
  <2>1. peaks # <<>> => tasks[Last(peaks)].height \in Nat
    BY <1>4, FrontFacts
  <2> QED
    BY <1>1, <1>3, <1>5, <1>6, <2>1 DEF GreaterIsUnreachable
<1>11. Contiguous'
  <2>1. Neighbours(tasks, peaks) /\ Covered(tasks, peaks) = segments
    BY <1>6 DEF Inv, Contiguous
  <2> QED
    BY <1>1, <1>3, <1>5, <1>6, <2>1 DEF Contiguous
<1> QED
  BY <1>3, <1>7, <1>8, <1>9, <1>10, <1>11 DEF Inv

\* A keccak proof starts a new peak of height 0, and no peak of the segments
\* changes.
LEMMA EnqueueKeccakInv ==
    ASSUME Inv, EnqueueKeccak
    PROVE  Inv'
<1> DEFINE x == Leaf("Keccak", keccaks + 1)
           n == Len(tasks)
<1>1. /\ x \in PlannerTask /\ x.command = "Keccak" /\ x.height = 0
      /\ x.first <= x.last
  <2>1. keccaks + 1 \in Nat /\ "Keccak" \in Command
    BY PlannerAssumption DEF Inv, PlannerTypeOK, Command
  <2> QED
    BY <2>1, LeafIsTask
<1>2. tasks' = Append(tasks, x)
  BY DEF EnqueueKeccak
<1> HIDE DEF x
<1>3. /\ tasks' \in Seq(PlannerTask) /\ Len(tasks') = n + 1
      /\ DOMAIN tasks' = 1..Len(tasks')
      /\ \A t \in 1..n : tasks'[t] = tasks[t]
      /\ tasks'[n + 1] = x
      /\ TasksOK'
  BY <1>1, <1>2, TaskAppended DEF Inv
<1>4. /\ n \in Nat /\ peaks \in Seq(1..n) /\ keccakPeaks \in Seq(1..n)
      /\ position \in 0..n
      /\ \A t \in 1..n : tasks[t].height \in Nat
  BY Types DEF Inv
<1>5. /\ peaks \in Seq(1..Len(tasks')) /\ keccakPeaks \in Seq(1..Len(tasks'))
      /\ Falling(tasks, peaks) => Falling(tasks', peaks)
      /\ Falling(tasks, keccakPeaks) => Falling(tasks', keccakPeaks)
      /\ Neighbours(tasks, peaks) => Neighbours(tasks', peaks)
      /\ Covered(tasks', peaks) = Covered(tasks, peaks)
      /\ keccakPeaks # <<>> => tasks'[Last(keccakPeaks)] = tasks[Last(keccakPeaks)]
  BY <1>3, <1>4, Frame DEF Inv
<1>6. /\ pc = "idle" /\ pc' = "keccak" /\ top' = n + 1
      /\ lastTask = 0 /\ lastTask' = 0
      /\ keccaks < MaxKeccaks /\ keccaks' = keccaks + 1
      /\ peaks' = peaks /\ keccakPeaks' = keccakPeaks /\ position' = position
      /\ segments' = segments
  BY DEF EnqueueKeccak
<1> HIDE DEF n
<1>7. PlannerTypeOK'
  <2>1. segments' \in 0..MaxSegments /\ keccaks' \in 0..MaxKeccaks
    BY <1>6, PlannerAssumption DEF Inv, PlannerTypeOK
  <2>2. position' \in 0..Len(tasks') /\ lastTask' \in 0..Len(tasks') /\ top' \in 0..Len(tasks')
    BY <1>3, <1>4, <1>6
  <2> QED
    BY <1>3, <1>5, <1>6, <2>1, <2>2 DEF PlannerTypeOK
<1>8. Control'
  BY <1>3, <1>4, <1>6 DEF Control
<1>9. HeightsFall'
  BY <1>5, <1>6 DEF Inv, HeightsFall, Growing
<1>10. GreaterIsUnreachable'
  <2>1. keccakPeaks # <<>> => tasks[Last(keccakPeaks)].height \in Nat
    BY <1>4, FrontFacts
  <2> QED
    BY <1>1, <1>3, <1>5, <1>6, <2>1 DEF GreaterIsUnreachable
<1>11. Contiguous'
  <2>1. Neighbours(tasks, peaks) /\ Covered(tasks, peaks) = segments
    BY <1>6 DEF Inv, Contiguous
  <2> QED
    BY <1>5, <1>6, <2>1 DEF Contiguous
<1> QED
  BY <1>3, <1>7, <1>8, <1>9, <1>10, <1>11 DEF Inv

\* The smallest peak and the new one are joined: the result is one higher than
\* both, so at most as high as the next peak, and next to it.
LEMMA JoinEqualInv ==
    ASSUME Inv, JoinEqual
    PROVE  Inv'
<1> DEFINE l == Last(peaks)
           x == Merge("Join", l, top)
           n == Len(tasks)
<1>1. /\ pc = "segment" /\ pc' = "segment" /\ lastTask = 0 /\ lastTask' = 0
      /\ peaks # <<>> /\ tasks[l].height = tasks[top].height
      /\ tasks' = Append(tasks, x) /\ peaks' = Front(peaks) /\ top' = n + 1
      /\ keccakPeaks' = keccakPeaks /\ position' = position
      /\ segments' = segments /\ keccaks' = keccaks
  BY DEF JoinEqual, Merges, Inv, Control
<1>2. /\ n \in Nat /\ peaks \in Seq(1..n) /\ keccakPeaks \in Seq(1..n)
      /\ position \in 0..n /\ top \in 1..n
      /\ \A t \in 1..n : /\ tasks[t].height \in Nat
                         /\ tasks[t].first \in Nat /\ tasks[t].last \in Nat
  BY <1>1, Types DEF Inv, Control
<1>3. l \in 1..n /\ Front(peaks) \in Seq(1..n)
  BY <1>1, <1>2, FrontFacts
<1>4. tasks[l].last + 1 = tasks[top].first /\ tasks[top].last = segments
  BY <1>1, <1>2, <1>3 DEF Inv, Contiguous, Covered
<1>5. /\ x \in PlannerTask /\ x.command = "Join" /\ x.first <= x.last
      /\ x.deps[1] = l /\ x.deps[2] = top
      /\ x.height = tasks[l].height + 1
      /\ x.first = tasks[l].first /\ x.last = segments
  <2>1. "Join" \in Command
    BY DEF Command
  <2>2. PlannerTypeOK /\ TasksOK
    BY DEF Inv
  <2> HIDE DEF l
  <2>3. /\ x \in PlannerTask /\ x.command = "Join" /\ x.first <= x.last
        /\ x.deps[1] = l /\ x.deps[2] = top
        /\ tasks[l].height = tasks[top].height => x.height = tasks[top].height + 1
        /\ tasks[l].last + 1 = tasks[top].first =>
              x.first = tasks[l].first /\ x.last = tasks[top].last
    BY <1>2, <1>3, <2>1, <2>2, MergeIsTask
  <2> QED
    BY <1>1, <1>4, <2>3
<1> HIDE DEF l, x
<1>6. /\ tasks' \in Seq(PlannerTask) /\ Len(tasks') = n + 1
      /\ DOMAIN tasks' = 1..Len(tasks')
      /\ \A t \in 1..n : tasks'[t] = tasks[t]
      /\ tasks'[n + 1] = x
      /\ TasksOK'
  BY <1>1, <1>2, <1>3, <1>4, <1>5, TaskAppended DEF Inv
<1>7. /\ peaks' \in Seq(1..Len(tasks')) /\ keccakPeaks \in Seq(1..Len(tasks'))
      /\ Falling(tasks, peaks') => Falling(tasks', peaks')
      /\ Falling(tasks, keccakPeaks) => Falling(tasks', keccakPeaks)
      /\ Neighbours(tasks, peaks') => Neighbours(tasks', peaks')
      /\ Covered(tasks', peaks') = Covered(tasks, peaks')
      /\ peaks' # <<>> => tasks'[Last(peaks')] = tasks[Last(peaks')]
  BY <1>1, <1>2, <1>3, <1>6, Frame DEF Inv
<1>8. /\ Falling(tasks, peaks) => Falling(tasks, peaks')
      /\ Falling(tasks, peaks) /\ peaks' # <<>> =>
            tasks[Last(peaks')].height > tasks[l].height
      /\ Neighbours(tasks, peaks) => Neighbours(tasks, peaks')
      /\ Neighbours(tasks, peaks) /\ peaks' # <<>> =>
            tasks[Last(peaks')].last + 1 = tasks[l].first
  BY <1>1, <1>2, Shortened DEF l
<1>9. Falling(tasks, peaks) /\ Falling(tasks, keccakPeaks) /\ Neighbours(tasks, peaks)
  BY <1>1 DEF Inv, HeightsFall, Growing, Contiguous
<1> HIDE DEF n
<1>10. PlannerTypeOK'
  <2>1. segments' \in 0..MaxSegments /\ keccaks' \in 0..MaxKeccaks
    BY <1>1 DEF Inv, PlannerTypeOK
  <2>2. position' \in 0..Len(tasks') /\ lastTask' \in 0..Len(tasks') /\ top' \in 0..Len(tasks')
    BY <1>1, <1>2, <1>6
  <2> QED
    BY <1>1, <1>6, <1>7, <2>1, <2>2 DEF PlannerTypeOK
<1>11. Control'
  BY <1>1, <1>2, <1>6 DEF Control
<1>12. HeightsFall'
  BY <1>1, <1>7, <1>8, <1>9 DEF HeightsFall
<1>13. GreaterIsUnreachable'
  <2>1. peaks' # <<>> => Last(peaks') \in 1..n
    BY <1>1, <1>3, FrontFacts
  <2>2. ASSUME peaks' # <<>> PROVE x.height <= tasks[Last(peaks')].height
    <3>1. tasks[Last(peaks')].height > tasks[l].height
      BY <1>8, <1>9, <2>2
    <3>2. tasks[Last(peaks')].height \in Nat /\ tasks[l].height \in Nat
      BY <1>2, <1>3, <2>1, <2>2
    <3>3. x.height = tasks[l].height + 1
      BY <1>5
    <3> QED
      BY <3>1, <3>2, <3>3
  <2> QED
    BY <1>1, <1>6, <1>7, <2>2 DEF GreaterIsUnreachable
<1>14. Contiguous'
  <2>1. Neighbours(tasks', peaks')
    BY <1>7, <1>8, <1>9
  <2>2. peaks' # <<>> => x.first = Covered(tasks', peaks') + 1
    BY <1>5, <1>7, <1>8, <1>9 DEF Covered
  <2> QED
    BY <1>1, <1>5, <1>6, <2>1, <2>2 DEF Contiguous
<1> QED
  BY <1>6, <1>10, <1>11, <1>12, <1>13, <1>14 DEF Inv

\* The same for the keccak proofs.
LEMMA UnionEqualInv ==
    ASSUME Inv, UnionEqual
    PROVE  Inv'
<1> DEFINE l == Last(keccakPeaks)
           x == Merge("Union", l, top)
           n == Len(tasks)
<1>1. /\ pc = "keccak" /\ pc' = "keccak" /\ lastTask = 0 /\ lastTask' = 0
      /\ keccakPeaks # <<>> /\ tasks[l].height = tasks[top].height
      /\ tasks' = Append(tasks, x) /\ keccakPeaks' = Front(keccakPeaks) /\ top' = n + 1
      /\ peaks' = peaks /\ position' = position
      /\ segments' = segments /\ keccaks' = keccaks
  BY DEF UnionEqual, Merges, Inv, Control
<1>2. /\ n \in Nat /\ peaks \in Seq(1..n) /\ keccakPeaks \in Seq(1..n)
      /\ position \in 0..n /\ top \in 1..n
      /\ \A t \in 1..n : /\ tasks[t].height \in Nat
                         /\ tasks[t].first \in Nat /\ tasks[t].last \in Nat
  BY <1>1, Types DEF Inv, Control
<1>3. l \in 1..n /\ Front(keccakPeaks) \in Seq(1..n)
  BY <1>1, <1>2, FrontFacts
<1>4. /\ x \in PlannerTask /\ x.command = "Union" /\ x.first <= x.last
      /\ x.height = tasks[l].height + 1
  <2>1. "Union" \in Command
    BY DEF Command
  <2>2. PlannerTypeOK /\ TasksOK
    BY DEF Inv
  <2> HIDE DEF l
  <2>3. /\ Merge("Union", l, top) \in PlannerTask
        /\ Merge("Union", l, top).command = "Union"
        /\ Merge("Union", l, top).first <= Merge("Union", l, top).last
        /\ tasks[l].height = tasks[top].height =>
              Merge("Union", l, top).height = tasks[top].height + 1
    BY <1>2, <1>3, <2>1, <2>2, MergeIsTask
  <2> QED
    BY <1>1, <2>3
<1> HIDE DEF l, x
<1>5. /\ tasks' \in Seq(PlannerTask) /\ Len(tasks') = n + 1
      /\ DOMAIN tasks' = 1..Len(tasks')
      /\ \A t \in 1..n : tasks'[t] = tasks[t]
      /\ tasks'[n + 1] = x
      /\ TasksOK'
  BY <1>1, <1>4, TaskAppended DEF Inv
<1>6. /\ peaks \in Seq(1..Len(tasks')) /\ keccakPeaks' \in Seq(1..Len(tasks'))
      /\ Falling(tasks, peaks) => Falling(tasks', peaks)
      /\ Falling(tasks, keccakPeaks') => Falling(tasks', keccakPeaks')
      /\ Neighbours(tasks, peaks) => Neighbours(tasks', peaks)
      /\ Covered(tasks', peaks) = Covered(tasks, peaks)
      /\ keccakPeaks' # <<>> => tasks'[Last(keccakPeaks')] = tasks[Last(keccakPeaks')]
  BY <1>1, <1>2, <1>3, <1>5, Frame DEF Inv
<1>7. /\ Falling(tasks, keccakPeaks) => Falling(tasks, keccakPeaks')
      /\ Falling(tasks, keccakPeaks) /\ keccakPeaks' # <<>> =>
            tasks[Last(keccakPeaks')].height > tasks[l].height
  BY <1>1, <1>2, Shortened DEF l
<1>8. /\ Falling(tasks, peaks) /\ Falling(tasks, keccakPeaks)
      /\ Neighbours(tasks, peaks) /\ Covered(tasks, peaks) = segments
  BY <1>1 DEF Inv, HeightsFall, Growing, Contiguous
<1> HIDE DEF n
<1>9. PlannerTypeOK'
  <2>1. segments' \in 0..MaxSegments /\ keccaks' \in 0..MaxKeccaks
    BY <1>1 DEF Inv, PlannerTypeOK
  <2>2. position' \in 0..Len(tasks') /\ lastTask' \in 0..Len(tasks') /\ top' \in 0..Len(tasks')
    BY <1>1, <1>2, <1>5
  <2> QED
    BY <1>1, <1>5, <1>6, <2>1, <2>2 DEF PlannerTypeOK
<1>10. Control'
  BY <1>1, <1>2, <1>5 DEF Control
<1>11. HeightsFall'
  BY <1>1, <1>6, <1>7, <1>8 DEF HeightsFall
<1>12. GreaterIsUnreachable'
  <2>1. keccakPeaks' # <<>> => Last(keccakPeaks') \in 1..n
    BY <1>1, <1>3, FrontFacts
  <2>2. keccakPeaks' # <<>> => x.height <= tasks[Last(keccakPeaks')].height
    BY <1>2, <1>3, <1>4, <1>7, <1>8, <2>1
  <2> QED
    BY <1>1, <1>5, <1>6, <2>2 DEF GreaterIsUnreachable
<1>13. Contiguous'
  BY <1>1, <1>6, <1>8 DEF Contiguous
<1> QED
  BY <1>5, <1>9, <1>10, <1>11, <1>12, <1>13 DEF Inv

\* The new peak is lower than the smallest one, and is pushed.
LEMMA PushPeakInv ==
    ASSUME Inv, PushPeak
    PROVE  Inv'
<1> DEFINE n == Len(tasks)
<1>1. /\ pc = "segment" /\ pc' = "idle" /\ lastTask = 0 /\ lastTask' = 0
      /\ peaks # <<>> => tasks[Last(peaks)].height # tasks[top].height
      /\ peaks' = Append(peaks, top) /\ top' = 0
      /\ tasks' = tasks /\ keccakPeaks' = keccakPeaks /\ position' = position
      /\ segments' = segments /\ keccaks' = keccaks
  BY DEF PushPeak, Merges, Inv, Control
<1>2. /\ n \in Nat /\ peaks \in Seq(1..n) /\ top \in 1..n /\ DOMAIN tasks = 1..n
      /\ \A t \in 1..n : tasks[t].height \in Nat
  BY <1>1, Types DEF Inv, Control
<1>3. peaks # <<>> => tasks[Last(peaks)].height > tasks[top].height
  <2>1. peaks # <<>> => Last(peaks) \in 1..n
    BY <1>2, FrontFacts
  <2>2. peaks # <<>> => tasks[top].height <= tasks[Last(peaks)].height
    BY <1>1 DEF Inv, GreaterIsUnreachable
  <2> QED
    BY <1>1, <1>2, <2>1, <2>2
<1>4. /\ Falling(tasks, peaks) /\ Falling(tasks, keccakPeaks) /\ Neighbours(tasks, peaks)
      /\ peaks # <<>> => tasks[Last(peaks)].last + 1 = tasks[top].first
      /\ tasks[top].last = segments
  BY <1>1 DEF Inv, HeightsFall, Growing, Contiguous, Covered
<1>5. /\ Falling(tasks, peaks') /\ Neighbours(tasks, peaks')
      /\ Covered(tasks, peaks') = segments
  BY <1>1, <1>2, <1>3, <1>4, Lengthened
<1>6. PlannerTypeOK'
  <2>1. peaks' \in Seq(DOMAIN tasks')
    BY <1>1, <1>2, AppendFacts
  <2>2. top' \in 0..Len(tasks')
    BY <1>1, <1>2
  <2> QED
    BY <1>1, <2>1, <2>2 DEF Inv, PlannerTypeOK
<1>7. Control' /\ HeightsFall' /\ GreaterIsUnreachable'
  BY <1>1, <1>4, <1>5 DEF Control, HeightsFall, GreaterIsUnreachable
<1>8. Contiguous'
  BY <1>1, <1>5 DEF Contiguous
<1>9. TasksOK'
  BY <1>1 DEF Inv, TasksOK, TaskOK
<1> QED
  BY <1>6, <1>7, <1>8, <1>9 DEF Inv

\* The same for the keccak proofs.
LEMMA PushKeccakPeakInv ==
    ASSUME Inv, PushKeccakPeak
    PROVE  Inv'
<1> DEFINE n == Len(tasks)
<1>1. /\ pc = "keccak" /\ pc' = "idle" /\ lastTask = 0 /\ lastTask' = 0
      /\ keccakPeaks # <<>> => tasks[Last(keccakPeaks)].height # tasks[top].height
      /\ keccakPeaks' = Append(keccakPeaks, top) /\ top' = 0
      /\ tasks' = tasks /\ peaks' = peaks /\ position' = position
      /\ segments' = segments /\ keccaks' = keccaks
  BY DEF PushKeccakPeak, Merges, Inv, Control
<1>2. /\ n \in Nat /\ keccakPeaks \in Seq(1..n) /\ top \in 1..n /\ DOMAIN tasks = 1..n
      /\ \A t \in 1..n : tasks[t].height \in Nat
  BY <1>1, Types DEF Inv, Control
<1>3. keccakPeaks # <<>> => tasks[Last(keccakPeaks)].height > tasks[top].height
  <2>1. keccakPeaks # <<>> => Last(keccakPeaks) \in 1..n
    BY <1>2, FrontFacts
  <2>2. keccakPeaks # <<>> => tasks[top].height <= tasks[Last(keccakPeaks)].height
    BY <1>1 DEF Inv, GreaterIsUnreachable
  <2> QED
    BY <1>1, <1>2, <2>1, <2>2
<1>4. /\ Falling(tasks, peaks) /\ Falling(tasks, keccakPeaks)
      /\ Neighbours(tasks, peaks) /\ Covered(tasks, peaks) = segments
  BY <1>1 DEF Inv, HeightsFall, Growing, Contiguous
<1>5. Falling(tasks, keccakPeaks')
  BY <1>1, <1>2, <1>3, <1>4, Lengthened
<1>6. PlannerTypeOK'
  <2>1. keccakPeaks' \in Seq(DOMAIN tasks')
    BY <1>1, <1>2, AppendFacts
  <2>2. top' \in 0..Len(tasks')
    BY <1>1, <1>2
  <2> QED
    BY <1>1, <2>1, <2>2 DEF Inv, PlannerTypeOK
<1>7. Control' /\ HeightsFall' /\ GreaterIsUnreachable'
  BY <1>1, <1>4, <1>5 DEF Control, HeightsFall, GreaterIsUnreachable
<1>8. Contiguous'
  BY <1>1, <1>4 DEF Contiguous
<1>9. TasksOK'
  BY <1>1 DEF Inv, TasksOK, TaskOK
<1> QED
  BY <1>6, <1>7, <1>8, <1>9 DEF Inv

\* finish and next_task add no task and change no peak.
LEMMA OtherInv ==
    ASSUME Inv, Finish \/ UnionsDone \/ NextTask \/ UNCHANGED vars
    PROVE  Inv'
<1>1. /\ tasks' = tasks /\ peaks' = peaks /\ keccakPeaks' = keccakPeaks
      /\ lastTask' = lastTask /\ top' = top
      /\ segments' = segments /\ keccaks' = keccaks
      /\ \/ pc' = pc
         \/ pc' = "unions" /\ pc = "idle" /\ lastTask = 0 /\ peaks # <<>>
         \/ pc' = "joins" /\ pc = "unions"
      /\ \/ position' = position
         \/ position < Len(tasks) /\ position' = position + 1
  BY DEF Finish, UnionsDone, NextTask, vars
<1>2. PlannerTypeOK'
  <2>1. position' \in 0..Len(tasks')
    BY <1>1, Types DEF Inv
  <2>2. pc' \in {"idle", "segment", "keccak", "unions", "joins"}
    BY <1>1 DEF Inv, PlannerTypeOK
  <2> QED
    BY <1>1, <2>1, <2>2 DEF Inv, PlannerTypeOK
<1>3. Control'
  BY <1>1 DEF Inv, Control
<1>4. HeightsFall'
  BY <1>1 DEF Inv, HeightsFall, Growing
<1>5. GreaterIsUnreachable'
  BY <1>1 DEF Inv, GreaterIsUnreachable
<1>6. TasksOK'
  BY <1>1 DEF Inv, TasksOK, TaskOK
<1>7. lastTask' = 0 => Contiguous'
  BY <1>1 DEF Inv, Contiguous
<1> QED
  BY <1>2, <1>3, <1>4, <1>5, <1>6, <1>7 DEF Inv

\* finish_unions: a union of the first two peaks of the keccak proofs.
LEMMA FinishUnionsInv ==
    ASSUME Inv, FinishUnions
    PROVE  Inv'
<1> DEFINE l == keccakPeaks[2]
           r == keccakPeaks[1]
           x == Merge("Union", l, r)
           n == Len(tasks)
           rest == SubSeq(keccakPeaks, 3, Len(keccakPeaks))
<1>1. /\ pc = "unions" /\ pc' = "unions" /\ lastTask = 0 /\ lastTask' = 0
      /\ Len(keccakPeaks) >= 2
      /\ tasks' = Append(tasks, x) /\ keccakPeaks' = <<n + 1>> \o rest
      /\ peaks # <<>> /\ peaks' = peaks /\ position' = position /\ top' = top
      /\ segments' = segments /\ keccaks' = keccaks
  BY DEF FinishUnions, Inv, Control
<1>2. /\ n \in Nat /\ peaks \in Seq(1..n) /\ keccakPeaks \in Seq(1..n)
      /\ position \in 0..n /\ top \in 0..n
  BY Types DEF Inv
<1>3. l \in 1..n /\ r \in 1..n
  <2>1. Len(keccakPeaks) \in Nat /\ \A i \in 1..Len(keccakPeaks) : keccakPeaks[i] \in 1..n
    BY <1>2
  <2>2. 1 \in 1..Len(keccakPeaks) /\ 2 \in 1..Len(keccakPeaks)
    BY <1>1, <2>1
  <2> QED
    BY <2>1, <2>2
<1>4. rest \in Seq(1..n)
  <2>1. Len(keccakPeaks) \in Int /\ 3 \in Int
    BY <1>2
  <2>2. \A i \in 3..Len(keccakPeaks) : keccakPeaks[i] \in 1..n
    BY <1>2
  <2> QED
    BY <1>2, <2>1, <2>2, SubSeqProperties
<1> HIDE DEF l, r, rest
<1>5. x \in PlannerTask /\ x.command = "Union" /\ x.first <= x.last
  <2>1. "Union" \in Command
    BY DEF Command
  <2>2. PlannerTypeOK /\ TasksOK
    BY DEF Inv
  <2>3. /\ Merge("Union", l, r) \in PlannerTask
        /\ Merge("Union", l, r).command = "Union"
        /\ Merge("Union", l, r).first <= Merge("Union", l, r).last
    BY <1>3, <2>1, <2>2, MergeIsTask
  <2> QED
    BY <2>3
<1> HIDE DEF x
<1>6. /\ tasks' \in Seq(PlannerTask) /\ Len(tasks') = n + 1
      /\ DOMAIN tasks' = 1..Len(tasks')
      /\ \A t \in 1..n : tasks'[t] = tasks[t]
      /\ TasksOK'
  BY <1>1, <1>5, TaskAppended DEF Inv
<1>7. /\ peaks \in Seq(1..Len(tasks')) /\ rest \in Seq(1..Len(tasks'))
      /\ Neighbours(tasks, peaks) => Neighbours(tasks', peaks)
      /\ Covered(tasks', peaks) = Covered(tasks, peaks)
  BY <1>2, <1>4, <1>6, Frame DEF Inv
<1>8. keccakPeaks' \in Seq(1..Len(tasks'))
  <2>1. n + 1 \in 1..Len(tasks')
    BY <1>2, <1>6
  <2>2. <<n + 1>> \in Seq(1..Len(tasks'))
    BY <2>1
  <2> QED
    BY <1>1, <1>7, <2>2, ConcatProperties
<1> HIDE DEF n
<1>9. PlannerTypeOK'
  <2>1. segments' \in 0..MaxSegments /\ keccaks' \in 0..MaxKeccaks
    BY <1>1 DEF Inv, PlannerTypeOK
  <2>2. position' \in 0..Len(tasks') /\ lastTask' \in 0..Len(tasks') /\ top' \in 0..Len(tasks')
    BY <1>1, <1>2, <1>6
  <2> QED
    BY <1>1, <1>6, <1>7, <1>8, <2>1, <2>2 DEF PlannerTypeOK
<1>10. Control' /\ HeightsFall' /\ GreaterIsUnreachable'
  BY <1>1 DEF Control, HeightsFall, Growing, GreaterIsUnreachable
<1>11. Contiguous'
  <2>1. Neighbours(tasks, peaks) /\ Covered(tasks, peaks) = segments
    BY <1>1 DEF Inv, Contiguous
  <2> QED
    BY <1>1, <1>7, <2>1 DEF Contiguous
<1> QED
  BY <1>6, <1>9, <1>10, <1>11 DEF Inv

\* finish: a join of the last two peaks of the segments, which are neighbours.
LEMMA FinishJoinsInv ==
    ASSUME Inv, FinishJoins
    PROVE  Inv'
<1> DEFINE front == Front(peaks)
           l == Last(front)
           r == Last(peaks)
           x == Merge("Join", l, r)
           n == Len(tasks)
<1>1. /\ pc = "joins" /\ pc' = "joins" /\ lastTask = 0 /\ lastTask' = 0
      /\ Len(peaks) >= 2
      /\ tasks' = Append(tasks, x) /\ peaks' = Append(Front(front), n + 1)
      /\ keccakPeaks' = keccakPeaks /\ position' = position /\ top' = top
      /\ segments' = segments /\ keccaks' = keccaks
  BY DEF FinishJoins, LastTwo, Inv, Control
<1>2. /\ n \in Nat /\ peaks \in Seq(1..n) /\ keccakPeaks \in Seq(1..n)
      /\ position \in 0..n /\ top \in 0..n
      /\ \A t \in 1..n : tasks[t].first \in Nat /\ tasks[t].last \in Nat
  BY Types DEF Inv
<1>3. /\ peaks # <<>> /\ r \in 1..n
      /\ front \in Seq(1..n) /\ front # <<>>
  <2>1. peaks # <<>>
    BY <1>1, <1>2
  <2>2. r \in 1..n /\ front \in Seq(1..n) /\ Len(front) = Len(peaks) - 1 /\ Len(peaks) \in Nat
    BY <1>2, <2>1, FrontFacts
  <2>3. Len(front) # 0
    <3>1. Len(peaks) \in Nat /\ Len(peaks) >= 2 /\ Len(front) = Len(peaks) - 1
      BY <1>1, <2>2
    <3> QED
      BY <3>1
  <2> QED
    BY <2>1, <2>2, <2>3
<1>4. l \in 1..n /\ Front(front) \in Seq(1..n)
  BY <1>3, FrontFacts
<1>5. Neighbours(tasks, peaks) /\ Covered(tasks, peaks) = segments
  BY <1>1 DEF Inv, Contiguous
<1>6. Neighbours(tasks, front) /\ tasks[l].last + 1 = tasks[r].first
  BY <1>2, <1>3, <1>5, Shortened
<1> HIDE DEF front
<1>7. /\ Neighbours(tasks, Front(front))
      /\ Front(front) # <<>> => tasks[Last(Front(front))].last + 1 = tasks[l].first
  BY <1>2, <1>3, <1>6, Shortened
<1>8. tasks[r].last = segments
  BY <1>3, <1>5 DEF Covered
<1> HIDE DEF l, r
<1>9. /\ x \in PlannerTask /\ x.command = "Join" /\ x.first <= x.last
      /\ x.deps[1] = l /\ x.deps[2] = r
      /\ x.first = tasks[l].first /\ x.last = segments
  <2>1. "Join" \in Command
    BY DEF Command
  <2>2. PlannerTypeOK /\ TasksOK
    BY DEF Inv
  <2>3. /\ Merge("Join", l, r) \in PlannerTask
        /\ Merge("Join", l, r).command = "Join"
        /\ Merge("Join", l, r).first <= Merge("Join", l, r).last
        /\ Merge("Join", l, r).deps[1] = l /\ Merge("Join", l, r).deps[2] = r
        /\ tasks[l].last + 1 = tasks[r].first =>
              /\ Merge("Join", l, r).first = tasks[l].first
              /\ Merge("Join", l, r).last = tasks[r].last
    BY <1>3, <1>4, <2>1, <2>2, MergeIsTask
  <2> QED
    BY <1>6, <1>8, <2>3
<1> HIDE DEF x
<1>10. /\ tasks' \in Seq(PlannerTask) /\ Len(tasks') = n + 1
       /\ DOMAIN tasks' = 1..Len(tasks')
       /\ \A t \in 1..n : tasks'[t] = tasks[t]
       /\ tasks'[n + 1] = x
       /\ TasksOK'
  BY <1>1, <1>3, <1>4, <1>6, <1>9, TaskAppended DEF Inv
<1>11. /\ Front(front) \in Seq(1..Len(tasks')) /\ keccakPeaks \in Seq(1..Len(tasks'))
       /\ Neighbours(tasks', Front(front))
       /\ Front(front) # <<>> => tasks'[Last(Front(front))] = tasks[Last(Front(front))]
  BY <1>2, <1>4, <1>7, <1>10, Frame DEF Inv
<1>12. n + 1 \in 1..Len(tasks') /\ Len(tasks') \in Nat
  BY <1>2, <1>10
<1>13. /\ peaks' \in Seq(1..Len(tasks')) /\ peaks' # <<>>
       /\ Neighbours(tasks', peaks')
       /\ Covered(tasks', peaks') = segments
  <2>1. Front(front) # <<>> => tasks'[Last(Front(front))].last + 1 = tasks'[n + 1].first
    BY <1>7, <1>9, <1>10, <1>11
  <2>2. peaks' \in Seq(1..Len(tasks')) /\ peaks' # <<>>
    BY <1>1, <1>11, <1>12, AppendFacts
  <2>3. /\ Neighbours(tasks', Append(Front(front), n + 1))
        /\ Covered(tasks', Append(Front(front), n + 1)) = tasks'[n + 1].last
    BY <1>11, <1>12, <2>1, Lengthened
  <2> QED
    BY <1>1, <1>9, <1>10, <2>2, <2>3
<1> HIDE DEF n
<1>14. PlannerTypeOK'
  <2>1. segments' \in 0..MaxSegments /\ keccaks' \in 0..MaxKeccaks
    BY <1>1 DEF Inv, PlannerTypeOK
  <2>2. position' \in 0..Len(tasks') /\ lastTask' \in 0..Len(tasks') /\ top' \in 0..Len(tasks')
    BY <1>1, <1>2, <1>10
  <2> QED
    BY <1>1, <1>10, <1>11, <1>13, <2>1, <2>2 DEF PlannerTypeOK
<1>15. Control' /\ HeightsFall' /\ GreaterIsUnreachable'
  BY <1>1, <1>13 DEF Control, HeightsFall, Growing, GreaterIsUnreachable
<1>16. Contiguous'
  BY <1>1, <1>13 DEF Contiguous
<1> QED
  BY <1>10, <1>14, <1>15, <1>16 DEF Inv

\* finish: the last task, after which the plan does not change any more.
LEMMA EnqueueFinalizeInv ==
    ASSUME Inv, EnqueueFinalize
    PROVE  Inv'
<1> DEFINE p == tasks[peaks[1]]
           h == 1 + IF keccakPeaks = <<>> THEN p.height
                    ELSE Higher(p.height, tasks[keccakPeaks[1]].height)
           x == [command |-> "Finalize", height |-> h, deps |-> FinalizeDeps,
                 first |-> p.first, last |-> p.last]
           n == Len(tasks)
<1>1. /\ pc = "joins" /\ pc' = "idle" /\ lastTask' = n + 1
      /\ tasks' = Append(tasks, x)
      /\ peaks # <<>> /\ peaks' = peaks /\ keccakPeaks' = keccakPeaks
      /\ position' = position /\ top' = top
      /\ segments' = segments /\ keccaks' = keccaks
  BY DEF EnqueueFinalize, Inv, Control
<1>2. /\ n \in Nat /\ peaks \in Seq(1..n) /\ keccakPeaks \in Seq(1..n)
      /\ position \in 0..n /\ top \in 0..n
      /\ \A t \in 1..n : /\ tasks[t].height \in Nat
                         /\ tasks[t].first \in Nat /\ tasks[t].last \in Nat
  BY Types DEF Inv
<1>3. peaks[1] \in 1..n /\ (keccakPeaks # <<>> => keccakPeaks[1] \in 1..n)
  <2>1. \A s \in Seq(1..n) : s # <<>> => s[1] \in 1..n
    OBVIOUS
  <2> QED
    BY <1>1, <1>2, <2>1
<1>4. /\ p.height \in Nat /\ p.first \in Nat /\ p.last \in Nat
      /\ p.first <= p.last
  BY <1>2, <1>3 DEF Inv, TasksOK, TaskOK
<1>5. keccakPeaks # <<>> => tasks[keccakPeaks[1]].height \in Nat
  BY <1>2, <1>3
<1> HIDE DEF p
<1>6. h \in Nat
  <2>1. CASE keccakPeaks = <<>>
    BY <1>4, <2>1
  <2>2. CASE keccakPeaks # <<>>
    <3>1. Higher(p.height, tasks[keccakPeaks[1]].height) \in Nat
      BY <1>4, <1>5, <2>2, Bounds
    <3> QED
      BY <2>2, <3>1
  <2> QED
    BY <2>1, <2>2
<1>7. FinalizeDeps \in Seq(Nat)
  <2>1. peaks \in Seq(Nat) /\ keccakPeaks \in Seq(Nat)
    BY <1>2
  <2> QED
    BY <2>1, ConcatProperties DEF FinalizeDeps
<1> HIDE DEF h
<1>8. x \in PlannerTask /\ x.command # "Join" /\ x.first <= x.last
  BY <1>4, <1>6, <1>7 DEF PlannerTask, Command
<1> HIDE DEF x
<1>9. /\ tasks' \in Seq(PlannerTask) /\ Len(tasks') = n + 1
      /\ DOMAIN tasks' = 1..Len(tasks')
      /\ \A t \in 1..n : tasks'[t] = tasks[t]
      /\ TasksOK'
  BY <1>1, <1>8, TaskAppended DEF Inv
<1>10. peaks \in Seq(1..Len(tasks')) /\ keccakPeaks \in Seq(1..Len(tasks'))
  BY <1>2, <1>9, Frame DEF Inv
<1> HIDE DEF n
<1>11. PlannerTypeOK'
  <2>1. segments' \in 0..MaxSegments /\ keccaks' \in 0..MaxKeccaks
    BY <1>1 DEF Inv, PlannerTypeOK
  <2>2. position' \in 0..Len(tasks') /\ lastTask' \in 0..Len(tasks') /\ top' \in 0..Len(tasks')
    BY <1>1, <1>2, <1>9
  <2> QED
    BY <1>1, <1>9, <1>10, <2>1, <2>2 DEF PlannerTypeOK
<1>12. lastTask' # 0
  BY <1>1, <1>2
<1>13. Control' /\ HeightsFall' /\ GreaterIsUnreachable'
  BY <1>1, <1>12 DEF Control, HeightsFall, Growing, GreaterIsUnreachable
<1> QED
  BY <1>9, <1>11, <1>12, <1>13 DEF Inv

-----------------------------------------------------------------------------
(* Theorems                                                                *)

\* The empty plan.
LEMMA InitInv == Init => Inv
<1> SUFFICES ASSUME Init PROVE Inv
  OBVIOUS
<1>1. PlannerTypeOK
  BY PlannerAssumption DEF Init, PlannerTypeOK
<1>2. Control /\ GreaterIsUnreachable
  BY DEF Init, Control, GreaterIsUnreachable
<1>3. HeightsFall /\ TasksOK /\ Contiguous
  BY DEF Init, HeightsFall, Falling, TasksOK, Contiguous, Neighbours, Covered
<1> QED
  BY <1>1, <1>2, <1>3 DEF Inv

\* Every step keeps the invariant.
LEMMA NextInv == Inv /\ [Next]_vars => Inv'
<1> SUFFICES ASSUME Inv, [Next]_vars PROVE Inv'
  OBVIOUS
<1> QED
  BY EnqueueSegmentInv, EnqueueKeccakInv, JoinEqualInv, UnionEqualInv, PushPeakInv,
     PushKeccakPeakInv, OtherInv, FinishUnionsInv, FinishJoinsInv, EnqueueFinalizeInv
     DEF Next

\* The invariant holds throughout.
LEMMA SpecInv == Spec => []Inv
BY InitInv, NextInv, PTL DEF Spec

\* The peaks, the consumer's position and the last task are always tasks of the
\* plan, whatever is enqueued and in which order.
THEOREM PlannerTypeCorrect == Spec => []PlannerTypeOK
<1>1. Inv => PlannerTypeOK
  BY DEF Inv
<1> QED
  BY <1>1, SpecInv, PTL

\* The unreachable!() of enqueue_segment and enqueue_keccak is unreachable for
\* every number of segments and keccak proofs.
THEOREM NeverPanics == Spec => []GreaterIsUnreachable
<1>1. Inv => GreaterIsUnreachable
  BY DEF Inv
<1> QED
  BY <1>1, SpecInv, PTL

\* Every join the planner makes is of neighbours, in the right order.
THEOREM JoinsInOrder == Spec => []JoinsAreInOrder
<1>1. Inv => JoinsAreInOrder
  BY Types DEF Inv, TasksOK, TaskOK, JoinsAreInOrder
<1> QED
  BY <1>1, SpecInv, PTL

-----------------------------------------------------------------------------
(* More about sequences, and the powers of two                             *)

\* The elements of a sequence without its last one.
LEMMA RangeFront ==
    ASSUME NEW S, NEW s \in Seq(S), s # <<>>, IsInjective(s)
    PROVE  /\ Range(Front(s)) = Range(s) \ {Last(s)}
           /\ Last(s) \in Range(s)
           /\ IsInjective(Front(s))
<1>1. /\ Len(s) \in Nat /\ Len(s) >= 1
      /\ Front(s) \in Seq(S) /\ Len(Front(s)) = Len(s) - 1
      /\ \A i \in 1..(Len(s) - 1) : Front(s)[i] = s[i]
      /\ Last(s) = s[Len(s)]
  BY FrontFacts
<1>2. /\ DOMAIN s = 1..Len(s) /\ DOMAIN Front(s) = 1..(Len(s) - 1)
      /\ Len(s) \in 1..Len(s)
      /\ \A i \in 1..Len(s) : i = Len(s) \/ i \in 1..(Len(s) - 1)
      /\ \A i \in 1..(Len(s) - 1) : i \in 1..Len(s) /\ i # Len(s)
  BY <1>1
<1>3. \A i \in 1..(Len(s) - 1) : s[i] # Last(s)
  BY <1>1, <1>2 DEF IsInjective
<1>4. Range(Front(s)) = {s[i] : i \in 1..(Len(s) - 1)} /\ Range(s) = {s[i] : i \in 1..Len(s)}
  BY <1>1, <1>2 DEF Range
<1>5. IsInjective(Front(s))
  BY <1>1, <1>2 DEF IsInjective
<1> QED
  BY <1>1, <1>2, <1>3, <1>4, <1>5

\* The elements of a sequence with one more at its end.
LEMMA RangeAppend ==
    ASSUME NEW S, NEW s \in Seq(S), NEW x \in S
    PROVE  /\ Range(Append(s, x)) = Range(s) \cup {x}
           /\ IsInjective(s) /\ x \notin Range(s) => IsInjective(Append(s, x))
<1>1. /\ Len(s) \in Nat /\ Append(s, x) \in Seq(S)
      /\ Len(Append(s, x)) = Len(s) + 1
      /\ \A i \in 1..Len(s) : Append(s, x)[i] = s[i]
      /\ Append(s, x)[Len(s) + 1] = x
  BY AppendFacts
<1>2. /\ DOMAIN s = 1..Len(s) /\ DOMAIN Append(s, x) = 1..(Len(s) + 1)
      /\ \A i \in 1..(Len(s) + 1) : i = Len(s) + 1 \/ i \in 1..Len(s)
      /\ Len(s) + 1 \in 1..(Len(s) + 1) /\ 1..Len(s) \subseteq 1..(Len(s) + 1)
  BY <1>1
<1>3. Range(Append(s, x)) = Range(s) \cup {x}
  BY <1>1, <1>2 DEF Range
<1>4. IsInjective(s) /\ x \notin Range(s) => IsInjective(Append(s, x))
  BY <1>1, <1>2 DEF IsInjective, Range
<1> QED
  BY <1>3, <1>4

\* Appending x adds x, and nothing else, to the range of s.
RangeGrows(s, x) == Range(Append(s, x)) = Range(s) \cup {x}

\* The same as a predicate, which the provers instantiate without expanding it.
LEMMA RangeOfAppend ==
    ASSUME NEW S, NEW s \in Seq(S), NEW x \in S
    PROVE  RangeGrows(s, x)
BY RangeAppend DEF RangeGrows

\* What finish_unions leaves: one element for the first two.
FirstTwoFor(s, x) == <<x>> \o SubSeq(s, 3, Len(s))

\* The sequence w over S is s with x for its first two elements.
Shifted(S, s, x, w) ==
    /\ w \in Seq(S)
    /\ Len(s) \in Nat /\ Len(w) = Len(s) - 1
    /\ w[1] = x
    /\ \A i \in 2..(Len(s) - 1) : w[i] = s[i + 1]

LEMMA FirstTwo ==
    ASSUME NEW S, NEW s \in Seq(S), Len(s) >= 2, NEW x \in S
    PROVE  Shifted(S, s, x, FirstTwoFor(s, x))
<1> DEFINE n == Len(s)
           rest == SubSeq(s, 3, n)
<1>1. n \in Nat /\ n >= 2 /\ 3 \in Int /\ n \in Int /\ \A i \in 3..n : s[i] \in S
  OBVIOUS
<1>2. /\ rest \in Seq(S)
      /\ Len(rest) = IF 3 <= n THEN n - 3 + 1 ELSE 0
      /\ \A i \in 1..(n - 3 + 1) : rest[i] = s[3 + i - 1]
  <2> HIDE DEF n
  <2> QED
    BY <1>1, SubSeqProperties
<1>3. Len(rest) = n - 2 /\ \A i \in 1..(n - 2) : rest[i] = s[i + 2]
  <2> HIDE DEF rest, n
  <2>1. Len(rest) = n - 2
    BY <1>1, <1>2
  <2>2. ASSUME NEW i \in 1..(n - 2) PROVE rest[i] = s[i + 2]
    <3>1. i \in 1..(n - 3 + 1) /\ 3 + i - 1 = i + 2
      BY <1>1
    <3> QED
      BY <1>2, <3>1
  <2> QED
    BY <2>1, <2>2
<1>4. /\ <<x>> \in Seq(S) /\ Len(<<x>>) = 1 /\ <<x>>[1] = x
  OBVIOUS
<1>5. /\ <<x>> \o rest \in Seq(S)
      /\ Len(<<x>> \o rest) = 1 + Len(rest)
      /\ \A i \in 1..(1 + Len(rest)) :
            (<<x>> \o rest)[i] = IF i <= 1 THEN <<x>>[i] ELSE rest[i - 1]
  <2> HIDE DEF rest
  <2> QED
    BY <1>2, <1>4, ConcatProperties
<1>6. FirstTwoFor(s, x) = <<x>> \o rest
  BY DEF FirstTwoFor
<1> HIDE DEF rest, n
<1>7. Len(FirstTwoFor(s, x)) = n - 1 /\ FirstTwoFor(s, x)[1] = x
  BY <1>1, <1>3, <1>4, <1>5, <1>6
<1>8. ASSUME NEW i \in 2..(n - 1) PROVE FirstTwoFor(s, x)[i] = s[i + 1]
  <2>1. i \in 1..(1 + Len(rest)) /\ ~(i <= 1) /\ i - 1 \in 1..(n - 2) /\ (i - 1) + 2 = i + 1
    BY <1>1, <1>3
  <2> QED
    BY <1>3, <1>5, <1>6, <2>1
<1> QED
  BY <1>1, <1>5, <1>6, <1>7, <1>8 DEF n, Shifted

LEMMA RangeFirstTwo ==
    ASSUME NEW S, NEW s \in Seq(S), Len(s) >= 2, NEW x \in S, x \notin Range(s), IsInjective(s)
    PROVE  /\ Range(FirstTwoFor(s, x)) = (Range(s) \ {s[1], s[2]}) \cup {x}
           /\ IsInjective(FirstTwoFor(s, x))
           /\ s[1] \in Range(s) /\ s[2] \in Range(s) /\ s[1] # s[2]
<1> DEFINE w == FirstTwoFor(s, x)
           n == Len(s)
<1>0. Shifted(S, s, x, w)
  BY FirstTwo
<1>1. /\ w \in Seq(S) /\ n \in Nat /\ n >= 2 /\ Len(w) = n - 1 /\ w[1] = x
      /\ \A i \in 2..(n - 1) : w[i] = s[i + 1]
  <2> HIDE DEF w
  <2> QED
    BY <1>0 DEF Shifted
<1> HIDE DEF w
<1>2. DOMAIN s = 1..n /\ DOMAIN w = 1..(n - 1) /\ 1 \in 1..n /\ 2 \in 1..n
  BY <1>1
<1> HIDE DEF n
<1>3. /\ \A i \in 1..(n - 1) : i = 1 \/ (i \in 2..(n - 1) /\ i + 1 \in 3..n)
      /\ \A j \in 1..n : j = 1 \/ j = 2 \/ (j \in 3..n /\ j - 1 \in 2..(n - 1) /\ (j - 1) + 1 = j)
      /\ 3..n \subseteq 1..n /\ 2..(n - 1) \subseteq 1..(n - 1) /\ 1 \in 1..(n - 1)
      /\ 1 \notin 3..n /\ 2 \notin 3..n
  BY <1>1
<1>4. s[1] \in Range(s) /\ s[2] \in Range(s) /\ s[1] # s[2]
  BY <1>2 DEF Range, IsInjective
<1>5. \A j \in 3..n : s[j] # s[1] /\ s[j] # s[2]
  BY <1>2, <1>3 DEF IsInjective
<1>6. Range(w) \subseteq (Range(s) \ {s[1], s[2]}) \cup {x}
  <2> SUFFICES ASSUME NEW i \in 1..(n - 1)
               PROVE  w[i] \in (Range(s) \ {s[1], s[2]}) \cup {x}
    BY <1>2 DEF Range
  <2>1. CASE i = 1
    BY <1>1, <2>1
  <2>2. CASE i \in 2..(n - 1) /\ i + 1 \in 3..n
    <3>1. w[i] = s[i + 1] /\ s[i + 1] \in Range(s)
      BY <1>1, <1>2, <1>3, <2>2 DEF Range
    <3> QED
      BY <1>5, <2>2, <3>1
  <2> QED
    BY <1>3, <2>1, <2>2
<1>7. (Range(s) \ {s[1], s[2]}) \cup {x} \subseteq Range(w)
  <2>1. x \in Range(w)
    BY <1>1, <1>2, <1>3 DEF Range
  <2>2. ASSUME NEW j \in 1..n, s[j] \notin {s[1], s[2]} PROVE s[j] \in Range(w)
    <3>1. j \in 3..n /\ j - 1 \in 2..(n - 1) /\ (j - 1) + 1 = j
      BY <1>3, <2>2
    <3>2. w[j - 1] = s[j] /\ j - 1 \in 1..(n - 1)
      BY <1>1, <1>3, <3>1
    <3> QED
      BY <1>2, <3>2 DEF Range
  <2>3. Range(s) = {s[j] : j \in 1..n}
    BY <1>2 DEF Range
  <2> QED
    BY <2>1, <2>2, <2>3
<1>8. IsInjective(w)
  <2> SUFFICES ASSUME NEW i \in 1..(n - 1), NEW j \in 1..(n - 1), w[i] = w[j] PROVE i = j
    BY <1>2 DEF IsInjective
  <2>1. ASSUME NEW k \in 2..(n - 1)
        PROVE  w[k] = s[k + 1] /\ w[k] \in Range(s) /\ k + 1 \in 1..n
    <3>1. k + 1 \in 1..n
      BY <1>1
    <3>2. w[k] = s[k + 1]
      BY <1>1
    <3> QED
      BY <1>2, <3>1, <3>2 DEF Range
  <2>2. \A k \in 2..(n - 1) : w[k] # w[1]
    BY <1>1, <2>1
  <2>3. CASE i \in 2..(n - 1) /\ j \in 2..(n - 1)
    <3>1. i + 1 = j + 1
      BY <1>2, <2>1, <2>3 DEF IsInjective
    <3> QED
      BY <3>1
  <2> QED
    BY <1>3, <2>2, <2>3
<1> QED
  BY <1>4, <1>6, <1>7, <1>8 DEF w

\* The powers of two, as the numbers of subsets.
LEMMA Powers ==
    ASSUME NEW n \in Nat
    PROVE  /\ IsFiniteSet(SUBSET (1..n)) /\ Cardinality(SUBSET (1..n)) = 2^n
           /\ 2^n \in Nat /\ 2^n >= 1
<1>1. IsFiniteSet(1..n) /\ Cardinality(1..n) = n
  BY FS_Interval
<1>2. IsFiniteSet(SUBSET (1..n)) /\ Cardinality(SUBSET (1..n)) = 2^n
  BY <1>1, FS_SUBSET
<1>3. Cardinality(SUBSET (1..n)) \in Nat
  BY <1>2, FS_CardinalityType
<1>4. {} \in SUBSET (1..n)
  OBVIOUS
<1>5. Cardinality(SUBSET (1..n)) # 0
  BY <1>2, <1>4, FS_EmptySet
<1> QED
  BY <1>2, <1>3, <1>5

LEMMA PowersGrow ==
    ASSUME NEW m \in Nat, NEW n \in Nat, m <= n
    PROVE  2^m <= 2^n
<1>1. SUBSET (1..m) \subseteq SUBSET (1..n)
  OBVIOUS
<1>2. Cardinality(SUBSET (1..m)) <= Cardinality(SUBSET (1..n))
  BY <1>1, Powers, FS_Subset
<1> QED
  BY <1>2, Powers

LEMMA PowersDouble ==
    ASSUME NEW n \in Nat
    PROVE  2^(n + 1) = 2^n + 2^n
<1> DEFINE A == SUBSET (1..n)
           B == {X \cup {n + 1} : X \in A}
           f == [X \in A |-> X \cup {n + 1}]
<1>1. IsFiniteSet(A) /\ Cardinality(A) = 2^n /\ 2^n \in Nat
  BY Powers
<1>2. \A X \in A : n + 1 \notin X
  OBVIOUS
<1>3. f \in Bijection(A, B)
  <2>1. f \in [A -> B] /\ \A Y \in B : \E X \in A : f[X] = Y
    OBVIOUS
  <2>2. IsInjective(f)
    <3> SUFFICES ASSUME NEW X \in A, NEW Y \in A, X \cup {n + 1} = Y \cup {n + 1} PROVE X = Y
      BY DEF IsInjective
    <3> QED
      BY <1>2
  <2> QED
    BY <2>1, <2>2 DEF Bijection, Injection, Surjection
<1>4. IsFiniteSet(B) /\ Cardinality(B) = 2^n
  <2>1. ExistsBijection(A, B)
    BY <1>3 DEF ExistsBijection
  <2> HIDE DEF A, B
  <2> QED
    BY <1>1, <2>1, FS_Bijection
<1>5. A \cap B = {}
  BY <1>2
<1>6. A \cup B = SUBSET (1..(n + 1))
  <2>1. 1..(n + 1) = 1..n \cup {n + 1}
    OBVIOUS
  <2>2. ASSUME NEW Y \in SUBSET (1..(n + 1)) PROVE Y \in A \cup B
    <3>1. CASE n + 1 \notin Y
      BY <2>1, <3>1
    <3>2. CASE n + 1 \in Y
      <4>1. Y \ {n + 1} \in A /\ Y = (Y \ {n + 1}) \cup {n + 1}
        BY <2>1, <3>2
      <4> QED
        BY <4>1
    <3> QED
      BY <3>1, <3>2
  <2>3. ASSUME NEW Y \in A \cup B PROVE Y \in SUBSET (1..(n + 1))
    BY <2>1, <2>3
  <2> QED
    BY <2>2, <2>3
<1>7. Cardinality(A \cup B) = Cardinality(A) + Cardinality(B) - Cardinality(A \cap B)
  <2> HIDE DEF A, B
  <2> QED
    BY <1>1, <1>4, FS_Union
<1>8. Cardinality({}) = 0
  BY FS_EmptySet
<1>9. Cardinality(SUBSET (1..(n + 1))) = 2^(n + 1)
  <2>1. n + 1 \in Nat
    OBVIOUS
  <2>2. \A k \in Nat : Cardinality(SUBSET (1..k)) = 2^k
    BY Powers
  <2> QED
    BY <2>1, <2>2
<1> HIDE DEF A, B
<1>10. Cardinality(A \cup B) = 2^(n + 1) /\ Cardinality(A \cap B) = 0
  BY <1>5, <1>6, <1>8, <1>9
<1>11. 2^(n + 1) = 2^n + 2^n - 0
  BY <1>1, <1>4, <1>7, <1>10
<1> QED
  BY <1>1, <1>11

\* The elements of a sequence of task numbers are task numbers.
LEMMA RangeIn ==
    ASSUME NEW S, NEW s \in Seq(S)
    PROVE  Range(s) \subseteq S
BY DEF Range

-----------------------------------------------------------------------------
(* Every task is used once.  While the plan is laid out the tasks without  *)
(* a user are the peaks and the new peak of the loop that runs: a merge    *)
(* uses two of them and becomes one.                                       *)

UsersIn(T, t) == {u \in 1..Len(T) : t \in Range(T[u].deps)}
DepsBelow(T) == \A t \in 1..Len(T) : Range(T[t].deps) \subseteq 1..(t - 1)

\* The tasks of T without a user are those of O, and each other one has one user.
Accounted(T, O) ==
    \A t \in 1..Len(T) :
        /\ t \in O => UsersIn(T, t) = {}
        /\ t \notin O => \E u \in 1..Len(T) : UsersIn(T, t) = {u}

New == IF pc \in {"segment", "keccak"} THEN {top} ELSE {}
Open == Range(peaks) \cup Range(keccakPeaks) \cup New

Separate ==
    /\ IsInjective(peaks) /\ IsInjective(keccakPeaks)
    /\ Range(peaks) \cap Range(keccakPeaks) = {}
    /\ New \cap (Range(peaks) \cup Range(keccakPeaks)) = {}

Uses ==
    /\ DepsBelow(tasks)
    /\ lastTask = 0 =>
          /\ Separate
          /\ Accounted(tasks, Open)
          /\ pc = "joins" => Len(keccakPeaks) < 2
    /\ lastTask # 0 => Accounted(tasks, {lastTask})

\* The users of the tasks when one more task is added, that depends on earlier ones.
LEMMA UsersGrow ==
    ASSUME NEW T, NEW U, NEW n \in Nat, Len(T) = n, Len(U) = n + 1,
           \A t \in 1..n : U[t] = T[t],
           DepsBelow(T), Range(U[n + 1].deps) \subseteq 1..n
    PROVE  /\ DepsBelow(U)
           /\ \A t \in 1..n :
                 UsersIn(U, t) = IF t \in Range(U[n + 1].deps)
                                 THEN UsersIn(T, t) \cup {n + 1} ELSE UsersIn(T, t)
           /\ UsersIn(U, n + 1) = {}
<1>1. /\ 1..(n + 1) = 1..n \cup {n + 1} /\ n + 1 \notin 1..n /\ 1..((n + 1) - 1) = 1..n
  OBVIOUS
<1>2. DepsBelow(U)
  BY <1>1 DEF DepsBelow
<1>3. ASSUME NEW t \in 1..n
      PROVE  UsersIn(U, t) = IF t \in Range(U[n + 1].deps)
                             THEN UsersIn(T, t) \cup {n + 1} ELSE UsersIn(T, t)
  BY <1>1 DEF UsersIn
<1>4. \A u \in 1..(n + 1) : n + 1 \notin Range(U[u].deps)
  <2> SUFFICES ASSUME NEW u \in 1..(n + 1) PROVE n + 1 \notin Range(U[u].deps)
    OBVIOUS
  <2>1. Range(U[u].deps) \subseteq 1..(u - 1)
    BY <1>2 DEF DepsBelow
  <2>2. n + 1 \notin 1..(u - 1)
    OBVIOUS
  <2> QED
    BY <2>1, <2>2
<1>5. UsersIn(U, n + 1) = {}
  BY <1>4 DEF UsersIn
<1> QED
  BY <1>2, <1>3, <1>5

\* The new task uses tasks that had no user, and has none itself.
LEMMA Consumed ==
    ASSUME NEW T, NEW U, NEW n \in Nat, Len(T) = n, Len(U) = n + 1,
           \A t \in 1..n : U[t] = T[t],
           DepsBelow(T), NEW O \in SUBSET (1..n), Accounted(T, O),
           Range(U[n + 1].deps) \subseteq O
    PROVE  /\ DepsBelow(U)
           /\ Accounted(U, (O \ Range(U[n + 1].deps)) \cup {n + 1})
<1> DEFINE D == Range(U[n + 1].deps)
           P == (O \ D) \cup {n + 1}
<1>1. /\ 1..(n + 1) = 1..n \cup {n + 1} /\ n + 1 \notin 1..n
  OBVIOUS
<1>2. /\ DepsBelow(U)
      /\ \A t \in 1..n : UsersIn(U, t) = IF t \in Range(U[n + 1].deps)
                                      THEN UsersIn(T, t) \cup {n + 1} ELSE UsersIn(T, t)
      /\ UsersIn(U, n + 1) = {}
  <2>1. Range(U[n + 1].deps) \subseteq 1..n
    OBVIOUS
  <2> QED
    BY <2>1, UsersGrow
<1> HIDE DEF D
<1>3. ASSUME NEW t \in 1..(n + 1)
      PROVE  /\ t \in P => UsersIn(U, t) = {}
             /\ t \notin P => \E u \in 1..(n + 1) : UsersIn(U, t) = {u}
  <2>1. CASE t = n + 1
    BY <1>2, <2>1
  <2>2. CASE t \in 1..n /\ t \in D
    <3>1. t \in O /\ t \notin P
      BY <1>1, <2>2 DEF D
    <3>2. UsersIn(T, t) = {}
      BY <2>2, <3>1 DEF Accounted
    <3>3. UsersIn(U, t) = {n + 1} /\ n + 1 \in 1..(n + 1)
      BY <1>2, <2>2, <3>2 DEF D
    <3> QED
      BY <3>1, <3>3
  <2>3. CASE t \in 1..n /\ t \notin D
    <3>1. UsersIn(U, t) = UsersIn(T, t) /\ (t \in P <=> t \in O)
      BY <1>1, <1>2, <2>3 DEF D
    <3>2. /\ t \in O => UsersIn(T, t) = {}
          /\ t \notin O => \E u \in 1..n : UsersIn(T, t) = {u}
      BY <2>3 DEF Accounted
    <3> QED
      BY <1>1, <3>1, <3>2
  <2> QED
    BY <1>1, <2>1, <2>2, <2>3
<1> QED
  BY <1>2, <1>3 DEF Accounted, D

\* What adding a task leaves as it was.
LEMMA Added ==
    ASSUME PlannerTypeOK, NEW x \in PlannerTask, tasks' = Append(tasks, x)
    PROVE  /\ Len(tasks) \in Nat /\ Len(tasks') = Len(tasks) + 1
           /\ \A t \in 1..Len(tasks) : tasks'[t] = tasks[t]
           /\ tasks'[Len(tasks) + 1] = x
<1>1. tasks \in Seq(PlannerTask)
  BY Types
<1> QED
  BY <1>1, AppendFacts

\* The task is a leaf.
LEMMA LeafUses ==
    ASSUME PlannerTypeOK, NEW c \in Command, NEW k \in Nat,
           tasks' = Append(tasks, Leaf(c, k)),
           DepsBelow(tasks), NEW O \in SUBSET (1..Len(tasks)), Accounted(tasks, O)
    PROVE  /\ DepsBelow(tasks')
           /\ Accounted(tasks', O \cup {Len(tasks) + 1})
<1>1. Leaf(c, k) \in PlannerTask /\ Leaf(c, k).deps = <<>>
  BY LeafIsTask DEF Leaf
<1>2. /\ Len(tasks) \in Nat /\ Len(tasks') = Len(tasks) + 1
      /\ \A t \in 1..Len(tasks) : tasks'[t] = tasks[t]
      /\ tasks'[Len(tasks) + 1] = Leaf(c, k)
  BY <1>1, Added
<1>3. Range(tasks'[Len(tasks) + 1].deps) = {}
  BY <1>1, <1>2 DEF Range
<1>4. /\ DepsBelow(tasks')
      /\ Accounted(tasks', (O \ Range(tasks'[Len(tasks) + 1].deps)) \cup {Len(tasks) + 1})
  BY <1>2, <1>3, Consumed
<1>5. (O \ Range(tasks'[Len(tasks) + 1].deps)) \cup {Len(tasks) + 1} = O \cup {Len(tasks) + 1}
  BY <1>3
<1> QED
  BY <1>4, <1>5

\* The task is a merge.
LEMMA MergeUses ==
    ASSUME PlannerTypeOK, TasksOK, NEW c \in Command,
           NEW l \in 1..Len(tasks), NEW r \in 1..Len(tasks),
           tasks' = Append(tasks, Merge(c, l, r)),
           DepsBelow(tasks), NEW O \in SUBSET (1..Len(tasks)), Accounted(tasks, O),
           l \in O, r \in O
    PROVE  /\ DepsBelow(tasks')
           /\ Accounted(tasks', (O \ {l, r}) \cup {Len(tasks) + 1})
<1>1. Merge(c, l, r) \in PlannerTask
  BY MergeIsTask
<1>2. Merge(c, l, r).deps = <<l, r>>
  BY DEF Merge
<1>3. /\ Len(tasks) \in Nat /\ Len(tasks') = Len(tasks) + 1
      /\ \A t \in 1..Len(tasks) : tasks'[t] = tasks[t]
      /\ tasks'[Len(tasks) + 1] = Merge(c, l, r)
  BY <1>1, Added
<1>4. Range(tasks'[Len(tasks) + 1].deps) = {l, r}
  <2>1. Range(<<l, r>>) = {l, r}
    BY DEF Range
  <2> QED
    BY <1>2, <1>3, <2>1
<1>5. /\ DepsBelow(tasks')
      /\ Accounted(tasks', (O \ Range(tasks'[Len(tasks) + 1].deps)) \cup {Len(tasks) + 1})
  <2>1. Range(tasks'[Len(tasks) + 1].deps) \subseteq O
    BY <1>4
  <2> QED
    BY <1>3, <2>1, Consumed
<1> QED
  BY <1>4, <1>5

\* What Uses says while the plan is laid out.
LEMMA UsesFacts ==
    ASSUME Inv, Uses, lastTask = 0
    PROVE  /\ PlannerTypeOK /\ TasksOK /\ Len(tasks) \in Nat
           /\ peaks \in Seq(1..Len(tasks)) /\ keccakPeaks \in Seq(1..Len(tasks))
           /\ Range(peaks) \subseteq 1..Len(tasks) /\ Range(keccakPeaks) \subseteq 1..Len(tasks)
           /\ Len(tasks) + 1 \notin Range(peaks) /\ Len(tasks) + 1 \notin Range(keccakPeaks)
           /\ Open \in SUBSET (1..Len(tasks))
           /\ DepsBelow(tasks) /\ Accounted(tasks, Open)
           /\ IsInjective(peaks) /\ IsInjective(keccakPeaks)
           /\ Range(peaks) \cap Range(keccakPeaks) = {}
           /\ New \cap (Range(peaks) \cup Range(keccakPeaks)) = {}
           /\ Open = Range(peaks) \cup Range(keccakPeaks) \cup New
<1>1. /\ PlannerTypeOK /\ TasksOK /\ Len(tasks) \in Nat
      /\ peaks \in Seq(1..Len(tasks)) /\ keccakPeaks \in Seq(1..Len(tasks))
  BY Types DEF Inv
<1>2. Range(peaks) \subseteq 1..Len(tasks) /\ Range(keccakPeaks) \subseteq 1..Len(tasks)
  BY <1>1, RangeIn
<1>3. Len(tasks) + 1 \notin 1..Len(tasks)
  BY <1>1
<1>4. New \subseteq 1..Len(tasks)
  BY DEF New, Inv, Control
<1> QED
  BY <1>1, <1>2, <1>3, <1>4 DEF Uses, Separate, Open

\* A new leaf is the new peak of the loop that starts.
LEMMA EnqueueUses ==
    ASSUME Inv, Uses, EnqueueSegment \/ EnqueueKeccak
    PROVE  Uses'
<1> DEFINE n == Len(tasks)
<1>1. /\ pc = "idle" /\ pc' \in {"segment", "keccak"} /\ top' = n + 1
      /\ lastTask = 0 /\ lastTask' = 0
      /\ peaks' = peaks /\ keccakPeaks' = keccakPeaks
  BY DEF EnqueueSegment, EnqueueKeccak
<1>2. \E c \in Command, k \in Nat : tasks' = Append(tasks, Leaf(c, k))
  <2>1. segments + 1 \in Nat /\ keccaks + 1 \in Nat /\ "Segment" \in Command /\ "Keccak" \in Command
    BY PlannerAssumption DEF Inv, PlannerTypeOK, Command
  <2> QED
    BY <2>1 DEF EnqueueSegment, EnqueueKeccak
<1>3. PICK c \in Command, k \in Nat : tasks' = Append(tasks, Leaf(c, k))
  BY <1>2
<1>4. /\ PlannerTypeOK
      /\ n + 1 \notin Range(peaks) /\ n + 1 \notin Range(keccakPeaks)
      /\ Open \in SUBSET (1..n)
      /\ DepsBelow(tasks) /\ Accounted(tasks, Open)
      /\ IsInjective(peaks) /\ IsInjective(keccakPeaks)
      /\ Range(peaks) \cap Range(keccakPeaks) = {}
      /\ Open = Range(peaks) \cup Range(keccakPeaks) \cup New
  BY <1>1, UsesFacts
<1>5. New = {} /\ New' = {n + 1}
  BY <1>1 DEF New
<1>6. DepsBelow(tasks') /\ Accounted(tasks', Open \cup {n + 1})
  BY <1>3, <1>4, LeafUses
<1> HIDE DEF n
<1>7. Separate'
  BY <1>1, <1>4, <1>5 DEF Separate
<1>8. Open' = Open \cup {n + 1}
  BY <1>1, <1>4, <1>5 DEF Open
<1> QED
  BY <1>1, <1>6, <1>7, <1>8 DEF Uses

\* The last peak and the new one are merged to a new one.
LEMMA MergeLoopUses ==
    ASSUME Inv, Uses, JoinEqual \/ UnionEqual
    PROVE  Uses'
<1> DEFINE n == Len(tasks)
<1>1. /\ pc \in {"segment", "keccak"} /\ pc' = pc /\ top' = n + 1
      /\ lastTask = 0 /\ lastTask' = 0 /\ top \in 1..n
  BY DEF JoinEqual, UnionEqual, Inv, Control
<1>2. /\ PlannerTypeOK /\ TasksOK
      /\ peaks \in Seq(1..n) /\ keccakPeaks \in Seq(1..n)
      /\ n + 1 \notin Range(peaks) /\ n + 1 \notin Range(keccakPeaks)
      /\ Open \in SUBSET (1..n)
      /\ DepsBelow(tasks) /\ Accounted(tasks, Open)
      /\ IsInjective(peaks) /\ IsInjective(keccakPeaks)
      /\ Range(peaks) \cap Range(keccakPeaks) = {}
      /\ New \cap (Range(peaks) \cup Range(keccakPeaks)) = {}
      /\ Open = Range(peaks) \cup Range(keccakPeaks) \cup New
  BY <1>1, UsesFacts
<1>3. New = {top} /\ New' = {n + 1} /\ "Join" \in Command /\ "Union" \in Command
  BY <1>1 DEF New, Command
<1> HIDE DEF n
<1>4. CASE JoinEqual
  <2>1. /\ peaks # <<>> /\ peaks' = Front(peaks) /\ keccakPeaks' = keccakPeaks
        /\ tasks' = Append(tasks, Merge("Join", Last(peaks), top))
    BY <1>4 DEF JoinEqual, Merges
  <2>2. /\ Range(Front(peaks)) = Range(peaks) \ {Last(peaks)}
        /\ Last(peaks) \in Range(peaks) /\ IsInjective(Front(peaks))
    BY <1>2, <2>1, RangeFront
  <2>3. Last(peaks) \in 1..n /\ Last(peaks) \in Open /\ top \in Open
    BY <1>2, <1>3, <2>2
  <2>4. DepsBelow(tasks') /\ Accounted(tasks', (Open \ {Last(peaks), top}) \cup {n + 1})
    <3> DEFINE l == Last(peaks)
    <3>1. /\ l \in 1..Len(tasks) /\ l \in Open /\ tasks' = Append(tasks, Merge("Join", l, top))
          /\ top \in 1..Len(tasks) /\ top \in Open /\ Open \in SUBSET (1..Len(tasks))
      BY <1>1, <1>2, <2>1, <2>3 DEF n
    <3> HIDE DEF l
    <3>2. DepsBelow(tasks') /\ Accounted(tasks', (Open \ {l, top}) \cup {n + 1})
      <4>1. "Join" \in Command /\ PlannerTypeOK /\ TasksOK /\ DepsBelow(tasks) /\ Accounted(tasks, Open)
        BY <1>2, <1>3
      <4> QED
        BY <3>1, <4>1, MergeUses DEF n
    <3> QED
      BY <3>2 DEF l
  <2>5. Separate'
    BY <1>2, <1>3, <2>1, <2>2 DEF Separate
  <2>6. Open' = (Open \ {Last(peaks), top}) \cup {n + 1}
    <3>1. Open' = (Range(peaks) \ {Last(peaks)}) \cup Range(keccakPeaks) \cup {n + 1}
      BY <1>3, <2>1, <2>2 DEF Open
    <3>2. /\ Open = Range(peaks) \cup Range(keccakPeaks) \cup {top}
          /\ Last(peaks) \notin Range(keccakPeaks)
          /\ top \notin Range(peaks) /\ top \notin Range(keccakPeaks)
      BY <1>2, <1>3, <2>2
    <3> QED
      BY <3>1, <3>2
  <2> QED
    BY <1>1, <2>4, <2>5, <2>6 DEF Uses
<1>5. CASE UnionEqual
  <2>1. /\ keccakPeaks # <<>> /\ keccakPeaks' = Front(keccakPeaks) /\ peaks' = peaks
        /\ tasks' = Append(tasks, Merge("Union", Last(keccakPeaks), top))
    BY <1>5 DEF UnionEqual, Merges
  <2>2. /\ Range(Front(keccakPeaks)) = Range(keccakPeaks) \ {Last(keccakPeaks)}
        /\ Last(keccakPeaks) \in Range(keccakPeaks) /\ IsInjective(Front(keccakPeaks))
    BY <1>2, <2>1, RangeFront
  <2>3. Last(keccakPeaks) \in 1..n /\ Last(keccakPeaks) \in Open /\ top \in Open
    BY <1>2, <1>3, <2>2
  <2>4. DepsBelow(tasks') /\ Accounted(tasks', (Open \ {Last(keccakPeaks), top}) \cup {n + 1})
    <3> DEFINE l == Last(keccakPeaks)
    <3>1. /\ l \in 1..Len(tasks) /\ l \in Open /\ tasks' = Append(tasks, Merge("Union", l, top))
          /\ top \in 1..Len(tasks) /\ top \in Open /\ Open \in SUBSET (1..Len(tasks))
      BY <1>1, <1>2, <2>1, <2>3 DEF n
    <3> HIDE DEF l
    <3>2. DepsBelow(tasks') /\ Accounted(tasks', (Open \ {l, top}) \cup {n + 1})
      <4>1. "Union" \in Command /\ PlannerTypeOK /\ TasksOK /\ DepsBelow(tasks) /\ Accounted(tasks, Open)
        BY <1>2, <1>3
      <4> QED
        BY <3>1, <4>1, MergeUses DEF n
    <3> QED
      BY <3>2 DEF l
  <2>5. Separate'
    BY <1>2, <1>3, <2>1, <2>2 DEF Separate
  <2>6. Open' = (Open \ {Last(keccakPeaks), top}) \cup {n + 1}
    <3>1. Open' = Range(peaks) \cup (Range(keccakPeaks) \ {Last(keccakPeaks)}) \cup {n + 1}
      BY <1>3, <2>1, <2>2 DEF Open
    <3>2. /\ Open = Range(peaks) \cup Range(keccakPeaks) \cup {top}
          /\ Last(keccakPeaks) \notin Range(peaks)
          /\ top \notin Range(peaks) /\ top \notin Range(keccakPeaks)
      BY <1>2, <1>3, <2>2
    <3> QED
      BY <3>1, <3>2
  <2> QED
    BY <1>1, <2>4, <2>5, <2>6 DEF Uses
<1> QED
  BY <1>4, <1>5

\* The new peak becomes a peak: the same tasks have no user.
LEMMA PushUses ==
    ASSUME Inv, Uses, PushPeak \/ PushKeccakPeak
    PROVE  Uses'
<1> DEFINE n == Len(tasks)
<1>1. /\ pc \in {"segment", "keccak"} /\ pc' = "idle" /\ tasks' = tasks
      /\ lastTask = 0 /\ lastTask' = 0 /\ top \in 1..n
  BY DEF PushPeak, PushKeccakPeak, Inv, Control
<1>2. /\ peaks \in Seq(1..n) /\ keccakPeaks \in Seq(1..n)
      /\ DepsBelow(tasks) /\ Accounted(tasks, Open)
      /\ IsInjective(peaks) /\ IsInjective(keccakPeaks)
      /\ Range(peaks) \cap Range(keccakPeaks) = {}
      /\ New \cap (Range(peaks) \cup Range(keccakPeaks)) = {}
      /\ Open = Range(peaks) \cup Range(keccakPeaks) \cup New
  BY <1>1, UsesFacts
<1>3. New = {top} /\ New' = {}
  BY <1>1 DEF New
<1>4. top \notin Range(peaks) /\ top \notin Range(keccakPeaks)
  BY <1>2, <1>3
<1> HIDE DEF n
<1>5. /\ Range(Append(peaks, top)) = Range(peaks) \cup {top}
      /\ IsInjective(Append(peaks, top))
      /\ Range(Append(keccakPeaks, top)) = Range(keccakPeaks) \cup {top}
      /\ IsInjective(Append(keccakPeaks, top))
  <2>0. top \in 1..n /\ peaks \in Seq(1..n) /\ keccakPeaks \in Seq(1..n)
    BY <1>1, <1>2
  <2>1. Range(Append(peaks, top)) = Range(peaks) \cup {top} /\ IsInjective(Append(peaks, top))
    <3>1. IsInjective(peaks)
      BY <1>2
    <3>2. Range(Append(peaks, top)) = Range(peaks) \cup {top}
      <4>1. RangeGrows(peaks, top)
        BY <2>0, RangeOfAppend
      <4> QED
        BY <4>1 DEF RangeGrows
    <3>3. IsInjective(Append(peaks, top))
      BY <2>0, <1>4, <3>1, RangeAppend
    <3> QED
      BY <3>2, <3>3
  <2>2. /\ Range(Append(keccakPeaks, top)) = Range(keccakPeaks) \cup {top}
        /\ IsInjective(Append(keccakPeaks, top))
    <3>1. IsInjective(keccakPeaks)
      BY <1>2
    <3>2. Range(Append(keccakPeaks, top)) = Range(keccakPeaks) \cup {top}
      <4>1. RangeGrows(keccakPeaks, top)
        BY <2>0, RangeOfAppend
      <4> QED
        BY <4>1 DEF RangeGrows
    <3>3. IsInjective(Append(keccakPeaks, top))
      BY <2>0, <1>4, <3>1, RangeAppend
    <3> QED
      BY <3>2, <3>3
  <2> QED
    BY <2>1, <2>2
<1>6. \/ peaks' = Append(peaks, top) /\ keccakPeaks' = keccakPeaks
      \/ peaks' = peaks /\ keccakPeaks' = Append(keccakPeaks, top)
  BY DEF PushPeak, PushKeccakPeak
<1>7. Separate' /\ Open' = Open
  BY <1>2, <1>3, <1>4, <1>5, <1>6 DEF Separate, Open
<1> QED
  BY <1>1, <1>2, <1>7 DEF Uses

\* finish_unions: the union takes the place of the first two peaks.
LEMMA FinishUnionsUses ==
    ASSUME Inv, Uses, FinishUnions
    PROVE  Uses'
<1> DEFINE n == Len(tasks)
           a == keccakPeaks[1]
           b == keccakPeaks[2]
<1>1. /\ pc = "unions" /\ pc' = "unions" /\ lastTask = 0 /\ lastTask' = 0
      /\ Len(keccakPeaks) >= 2 /\ peaks' = peaks
      /\ tasks' = Append(tasks, Merge("Union", b, a))
      /\ keccakPeaks' = FirstTwoFor(keccakPeaks, n + 1)
  BY DEF FinishUnions, FirstTwoFor, Inv, Control
<1>2. /\ PlannerTypeOK /\ TasksOK /\ n \in Nat
      /\ keccakPeaks \in Seq(1..n)
      /\ n + 1 \notin Range(peaks) /\ n + 1 \notin Range(keccakPeaks)
      /\ Open \in SUBSET (1..n)
      /\ DepsBelow(tasks) /\ Accounted(tasks, Open)
      /\ IsInjective(peaks) /\ IsInjective(keccakPeaks)
      /\ Range(peaks) \cap Range(keccakPeaks) = {}
      /\ Open = Range(peaks) \cup Range(keccakPeaks) \cup New
  BY <1>1, UsesFacts
<1>3. New = {} /\ New' = {} /\ "Union" \in Command
  BY <1>1 DEF New, Command
<1> HIDE DEF n
<1>4. keccakPeaks \in Seq(1..(n + 1)) /\ n + 1 \in 1..(n + 1)
  BY <1>2, SeqGrows
<1>5. /\ Range(FirstTwoFor(keccakPeaks, n + 1)) = (Range(keccakPeaks) \ {a, b}) \cup {n + 1}
      /\ IsInjective(FirstTwoFor(keccakPeaks, n + 1))
      /\ a \in Range(keccakPeaks) /\ b \in Range(keccakPeaks)
  BY <1>1, <1>2, <1>4, RangeFirstTwo
<1> HIDE DEF a, b
<1>6. a \in 1..n /\ b \in 1..n /\ a \in Open /\ b \in Open
  BY <1>2, <1>5
<1>7. DepsBelow(tasks') /\ Accounted(tasks', (Open \ {b, a}) \cup {n + 1})
  <2>1. /\ a \in 1..Len(tasks) /\ b \in 1..Len(tasks) /\ a \in Open /\ b \in Open
        /\ tasks' = Append(tasks, Merge("Union", b, a)) /\ Open \in SUBSET (1..Len(tasks))
    BY <1>1, <1>2, <1>6 DEF n
  <2>2. "Union" \in Command /\ PlannerTypeOK /\ TasksOK /\ DepsBelow(tasks) /\ Accounted(tasks, Open)
    BY <1>2, <1>3
  <2> QED
    BY <2>1, <2>2, MergeUses DEF n
<1>8. Separate'
  BY <1>1, <1>2, <1>3, <1>5 DEF Separate
<1>9. Open' = (Open \ {b, a}) \cup {n + 1}
  <2>1. a \notin Range(peaks) /\ b \notin Range(peaks)
    BY <1>2, <1>5
  <2>2. Open' = Range(peaks) \cup ((Range(keccakPeaks) \ {a, b}) \cup {n + 1})
    BY <1>1, <1>3, <1>5 DEF Open
  <2> QED
    BY <1>2, <1>3, <2>1, <2>2
<1> QED
  BY <1>1, <1>7, <1>8, <1>9 DEF Uses

\* finish: the join takes the place of the last two peaks.
LEMMA FinishJoinsUses ==
    ASSUME Inv, Uses, FinishJoins
    PROVE  Uses'
<1> DEFINE n == Len(tasks)
           front == Front(peaks)
           l == Last(front)
           r == Last(peaks)
<1>1. /\ pc = "joins" /\ pc' = "joins" /\ lastTask = 0 /\ lastTask' = 0
      /\ Len(peaks) >= 2 /\ keccakPeaks' = keccakPeaks
      /\ tasks' = Append(tasks, Merge("Join", l, r))
      /\ peaks' = Append(Front(front), n + 1)
  BY DEF FinishJoins, LastTwo, Inv, Control
<1>2. /\ PlannerTypeOK /\ TasksOK /\ n \in Nat
      /\ peaks \in Seq(1..n)
      /\ n + 1 \notin Range(peaks) /\ n + 1 \notin Range(keccakPeaks)
      /\ Open \in SUBSET (1..n)
      /\ DepsBelow(tasks) /\ Accounted(tasks, Open)
      /\ IsInjective(peaks) /\ IsInjective(keccakPeaks)
      /\ Range(peaks) \cap Range(keccakPeaks) = {}
      /\ Open = Range(peaks) \cup Range(keccakPeaks) \cup New
  BY <1>1, UsesFacts
<1>3. New = {} /\ New' = {} /\ "Join" \in Command
  BY <1>1 DEF New, Command
<1> HIDE DEF n
<1>4. /\ peaks # <<>> /\ front \in Seq(1..n) /\ front # <<>>
  <2>1. peaks # <<>>
    BY <1>1, <1>2
  <2>2. front \in Seq(1..n) /\ Len(front) = Len(peaks) - 1 /\ Len(peaks) \in Nat
    BY <1>2, <2>1, FrontFacts
  <2>3. Len(front) # 0
    <3>1. Len(peaks) \in Nat /\ Len(peaks) >= 2 /\ Len(front) = Len(peaks) - 1
      BY <1>1, <2>2
    <3> QED
      BY <3>1
  <2> QED
    BY <2>1, <2>2, <2>3
<1>5. Range(front) = Range(peaks) \ {r} /\ r \in Range(peaks) /\ IsInjective(front)
  BY <1>2, <1>4, RangeFront
<1> HIDE DEF front
<1>6. /\ Range(Front(front)) = Range(front) \ {l} /\ l \in Range(front) /\ IsInjective(Front(front))
      /\ Front(front) \in Seq(1..n)
  BY <1>4, <1>5, RangeFront, FrontFacts
<1> HIDE DEF l, r
<1>7. Front(front) \in Seq(1..(n + 1)) /\ n + 1 \in 1..(n + 1) /\ n + 1 \notin Range(Front(front))
  BY <1>2, <1>5, <1>6, SeqGrows
<1>8. /\ Range(Append(Front(front), n + 1)) = Range(Front(front)) \cup {n + 1}
      /\ IsInjective(Append(Front(front), n + 1))
  BY <1>6, <1>7, RangeAppend
<1>9. l \in 1..n /\ r \in 1..n /\ l \in Open /\ r \in Open
  BY <1>2, <1>5, <1>6
<1>10. DepsBelow(tasks') /\ Accounted(tasks', (Open \ {l, r}) \cup {n + 1})
  <2>1. /\ l \in 1..Len(tasks) /\ r \in 1..Len(tasks) /\ l \in Open /\ r \in Open
        /\ tasks' = Append(tasks, Merge("Join", l, r)) /\ Open \in SUBSET (1..Len(tasks))
    BY <1>1, <1>2, <1>9 DEF n
  <2>2. "Join" \in Command /\ PlannerTypeOK /\ TasksOK /\ DepsBelow(tasks) /\ Accounted(tasks, Open)
    BY <1>2, <1>3
  <2> QED
    BY <2>1, <2>2, MergeUses DEF n
<1>11. Range(peaks') = (Range(peaks) \ {l, r}) \cup {n + 1}
  BY <1>1, <1>5, <1>6, <1>8
<1>12. Separate'
  BY <1>1, <1>2, <1>3, <1>8, <1>11 DEF Separate
<1>13. Open' = (Open \ {l, r}) \cup {n + 1}
  <2>1. l \notin Range(keccakPeaks) /\ r \notin Range(keccakPeaks)
    BY <1>2, <1>5, <1>6
  <2>2. Open' = ((Range(peaks) \ {l, r}) \cup {n + 1}) \cup Range(keccakPeaks)
    BY <1>1, <1>3, <1>11 DEF Open
  <2> QED
    BY <1>2, <1>3, <2>1, <2>2
<1>14. Len(keccakPeaks') < 2
  BY <1>1 DEF Uses
<1> QED
  BY <1>1, <1>10, <1>12, <1>13, <1>14 DEF Uses

\* finish and next_task: no task is added; the loop of finish_unions ends with
\* at most one peak of the keccak proofs.
LEMMA OtherUses ==
    ASSUME Inv, Uses, Finish \/ UnionsDone \/ NextTask \/ UNCHANGED vars
    PROVE  Uses'
<1>1. /\ tasks' = tasks /\ peaks' = peaks /\ keccakPeaks' = keccakPeaks
      /\ lastTask' = lastTask /\ top' = top
      /\ \/ pc' = pc
         \/ pc' = "unions" /\ pc = "idle"
         \/ pc' = "joins" /\ pc = "unions" /\ Len(keccakPeaks) < 2
  BY DEF Finish, UnionsDone, NextTask, vars
<1>2. New' = New
  BY <1>1 DEF New
<1>3. Open' = Open /\ (Separate <=> Separate')
  BY <1>1, <1>2 DEF Open, Separate
<1> QED
  BY <1>1, <1>3 DEF Uses

\* A sequence of one or no element is that element, or is empty.
LEMMA OneOrNone ==
    ASSUME NEW S, NEW s \in Seq(S), Len(s) < 2
    PROVE  /\ s # <<>> => Len(s) = 1 /\ s[1] \in S /\ Last(s) = s[1] /\ Range(s) = {s[1]}
           /\ s = <<>> => Len(s) = 0 /\ Range(s) = {}
<1>1. s = <<>> => Len(s) = 0 /\ Range(s) = {}
  BY DEF Range
<1>2. ASSUME s # <<>> PROVE Len(s) = 1 /\ s[1] \in S /\ Last(s) = s[1] /\ Range(s) = {s[1]}
  <2>0. Len(s) \in Nat /\ Len(s) >= 1 /\ Last(s) = s[Len(s)]
    BY <1>2, FrontFacts
  <2>1. Len(s) = 1 /\ Last(s) = s[1]
    <3> DEFINE k == Len(s)
    <3>1. k \in Nat /\ k >= 1 /\ k < 2
      BY <2>0
    <3>2. k = 1
      <4> HIDE DEF k
      <4> QED
        BY <3>1
    <3> QED
      BY <2>0, <3>2
  <2>2. DOMAIN s = {1} /\ s[1] \in S
    BY <2>1
  <2> QED
    BY <2>1, <2>2 DEF Range
<1> QED
  BY <1>1, <1>2

\* The task finalize adds depends on the peak of the segments, and on the peak of
\* the keccak proofs if there is one.
LEMMA FinalizeFacts ==
    ASSUME Inv, Uses, EnqueueFinalize
    PROVE  /\ lastTask = 0 /\ lastTask' = Len(tasks) + 1 /\ lastTask' # 0
           /\ Len(tasks) \in Nat /\ Len(tasks') = Len(tasks) + 1
           /\ \A t \in 1..Len(tasks) : tasks'[t] = tasks[t]
           /\ tasks'[Len(tasks) + 1].deps = FinalizeDeps
           /\ peaks # <<>> /\ Len(peaks) = 1 /\ Len(keccakPeaks) < 2
           /\ peaks[1] \in 1..Len(tasks) /\ Last(peaks) = peaks[1]
           /\ keccakPeaks # <<>> =>
                 keccakPeaks[1] \in 1..Len(tasks) /\ Last(keccakPeaks) = keccakPeaks[1]
           /\ Range(FinalizeDeps) = Range(peaks) \cup Range(keccakPeaks)
           /\ FinalizeDeps[1] = peaks[1]
           /\ keccakPeaks # <<>> => Len(FinalizeDeps) = 2 /\ FinalizeDeps[2] = keccakPeaks[1]
<1> DEFINE n == Len(tasks)
<1>1. /\ pc = "joins" /\ lastTask = 0 /\ lastTask' = n + 1
      /\ peaks # <<>> /\ Len(peaks) < 2
      /\ tasks' = Append(tasks, tasks'[n + 1]) /\ tasks'[n + 1].deps = FinalizeDeps
  <2>1. PICK x : tasks' = Append(tasks, x) /\ x.deps = FinalizeDeps
    BY DEF EnqueueFinalize
  <2>2. tasks \in Seq(PlannerTask)
    BY Types DEF Inv
  <2>3. tasks'[n + 1] = x
    BY <2>1, <2>2
  <2> QED
    BY <2>1, <2>3 DEF EnqueueFinalize, Inv, Control
<1>2. /\ n \in Nat /\ tasks \in Seq(PlannerTask)
      /\ peaks \in Seq(1..n) /\ keccakPeaks \in Seq(1..n) /\ Len(keccakPeaks) < 2
  BY <1>1, Types DEF Inv, Uses
<1>3. /\ Len(tasks') = n + 1 /\ \A t \in 1..n : tasks'[t] = tasks[t]
  BY <1>1, <1>2
<1> HIDE DEF n
<1>4. Len(peaks) = 1 /\ peaks[1] \in 1..n /\ Last(peaks) = peaks[1] /\ Range(peaks) = {peaks[1]}
  BY <1>1, <1>2, OneOrNone
<1>5. /\ keccakPeaks # <<>> =>
            /\ Len(keccakPeaks) = 1 /\ keccakPeaks[1] \in 1..n /\ Last(keccakPeaks) = keccakPeaks[1]
            /\ Range(keccakPeaks) = {keccakPeaks[1]}
      /\ keccakPeaks = <<>> => Len(keccakPeaks) = 0 /\ Range(keccakPeaks) = {}
  BY <1>2, OneOrNone
<1>6. /\ FinalizeDeps \in Seq(1..n) /\ Len(FinalizeDeps) = Len(peaks) + Len(keccakPeaks)
      /\ \A i \in 1..(Len(peaks) + Len(keccakPeaks)) :
            FinalizeDeps[i] = IF i <= Len(peaks) THEN peaks[i] ELSE keccakPeaks[i - Len(peaks)]
  BY <1>2, ConcatProperties DEF FinalizeDeps
<1>7. CASE keccakPeaks = <<>>
  <2>1. FinalizeDeps \in Seq(1..n) /\ Len(FinalizeDeps) = 1 /\ FinalizeDeps[1] = peaks[1]
    BY <1>4, <1>5, <1>6, <1>7
  <2>2. FinalizeDeps # <<>> /\ Len(FinalizeDeps) < 2
    <3>1. Len(<<>>) # 1 /\ 1 < 2
      OBVIOUS
    <3>2. Len(FinalizeDeps) = 1
      BY <2>1
    <3> QED
      BY <3>1, <3>2, Zenon
  <2>3. Range(FinalizeDeps) = {peaks[1]}
    BY <2>1, <2>2, OneOrNone
  <2> QED
    BY <1>1, <1>2, <1>3, <1>4, <1>5, <1>7, <2>1, <2>3 DEF n
<1>8. CASE keccakPeaks # <<>>
  <2>0. Len(peaks) + Len(keccakPeaks) = 2 /\ 1 \in 1..2 /\ 2 \in 1..2 /\ 1..2 = {1, 2}
    <3>1. Len(peaks) = 1 /\ Len(keccakPeaks) = 1
      BY <1>4, <1>5, <1>8
    <3>2. 1 + 1 = 2 /\ 1 \in 1..2 /\ 2 \in 1..2 /\ 1..2 = {1, 2}
      OBVIOUS
    <3> QED
      BY <3>1, <3>2, Zenon
  <2>1. Len(FinalizeDeps) = 2 /\ FinalizeDeps[1] = peaks[1] /\ FinalizeDeps[2] = keccakPeaks[1]
    <3>1. /\ FinalizeDeps[1] = IF 1 <= 1 THEN peaks[1] ELSE keccakPeaks[1 - 1]
          /\ FinalizeDeps[2] = IF 2 <= 1 THEN peaks[2] ELSE keccakPeaks[2 - 1]
      BY <1>4, <1>6, <2>0
    <3> QED
      BY <1>6, <2>0, <3>1
  <2>2. DOMAIN FinalizeDeps = {1, 2}
    <3>1. DOMAIN FinalizeDeps = 1..Len(FinalizeDeps)
      BY <1>6
    <3> QED
      BY <2>0, <2>1, <3>1
  <2>3. Range(FinalizeDeps) = {peaks[1], keccakPeaks[1]}
    BY <2>1, <2>2 DEF Range
  <2>4. lastTask' # 0
    BY <1>1, <1>2
  <2> QED
    BY <1>1, <1>2, <1>3, <1>4, <1>5, <1>8, <2>1, <2>3, <2>4 DEF n
<1> QED
  BY <1>7, <1>8

\* It uses all that was left: only the last task has no user.
LEMMA EnqueueFinalizeUses ==
    ASSUME Inv, Uses, EnqueueFinalize
    PROVE  Uses'
<1> DEFINE n == Len(tasks)
<1>1. /\ lastTask = 0 /\ lastTask' = n + 1 /\ lastTask' # 0
      /\ n \in Nat /\ Len(tasks') = n + 1
      /\ \A t \in 1..n : tasks'[t] = tasks[t]
      /\ Range(tasks'[n + 1].deps) = Range(peaks) \cup Range(keccakPeaks)
  BY FinalizeFacts
<1>2. /\ Open \in SUBSET (1..n) /\ DepsBelow(tasks) /\ Accounted(tasks, Open)
      /\ Open = Range(peaks) \cup Range(keccakPeaks) \cup New
  BY <1>1, UsesFacts
<1>3. New = {}
  BY DEF New, EnqueueFinalize
<1>4. Range(tasks'[n + 1].deps) = Open
  BY <1>1, <1>2, <1>3
<1>5. DepsBelow(tasks') /\ Accounted(tasks', (Open \ Range(tasks'[n + 1].deps)) \cup {n + 1})
  BY <1>1, <1>2, <1>4, Consumed
<1>6. (Open \ Range(tasks'[n + 1].deps)) \cup {n + 1} = {lastTask'}
  BY <1>1, <1>4
<1> QED
  BY <1>1, <1>5, <1>6 DEF Uses

-----------------------------------------------------------------------------
(* What the peaks are about: all the segments, or keccak proofs, in order. *)

\* The tasks of s, and the new peak x while its loop runs, are about 1 to k, each
\* task starting after the one before it.
Chain(T, s, running, x, k) ==
    /\ Neighbours(T, s)
    /\ s # <<>> => T[s[1]].first = 1
    /\ running => T[x].first = Covered(T, s) + 1 /\ T[x].last = k
    /\ ~running => Covered(T, s) = k

Chains ==
    lastTask = 0 =>
        /\ Chain(tasks, peaks, pc = "segment", top, segments)
        /\ Chain(tasks, keccakPeaks, pc = "keccak", top, keccaks)

\* A chain depends on its tasks only.
LEMMA ChainKept ==
    ASSUME NEW T, NEW U, NEW n \in Nat, NEW s \in Seq(1..n),
           \A t \in 1..n : U[t] = T[t],
           NEW running \in BOOLEAN, NEW x, running => x \in 1..n, NEW k,
           Chain(T, s, running, x, k)
    PROVE  Chain(U, s, running, x, k)
<1>1. (Neighbours(T, s) => Neighbours(U, s)) /\ Covered(U, s) = Covered(T, s)
  BY Kept
<1>2. s # <<>> => s[1] \in 1..n
  OBVIOUS
<1> QED
  BY <1>1, <1>2 DEF Chain

\* A leaf about the next number starts the loop.
LEMMA ChainStarts ==
    ASSUME NEW T, NEW n \in Nat, NEW s \in Seq(1..n), NEW x, NEW y, NEW k,
           Chain(T, s, FALSE, x, k), T[y].first = k + 1, T[y].last = k + 1
    PROVE  Chain(T, s, TRUE, y, k + 1)
BY DEF Chain

\* The last task of a chain, taken off, is its new peak.
LEMMA ChainPopped ==
    ASSUME NEW T, NEW n \in Nat, NEW s \in Seq(1..n), s # <<>>, NEW x, NEW k,
           \A t \in 1..n : T[t].first \in Nat /\ T[t].last \in Nat,
           Neighbours(T, s), T[s[1]].first = 1, T[Last(s)].last = k
    PROVE  Chain(T, Front(s), TRUE, Last(s), k)
<1>1. /\ Len(s) \in Nat /\ Len(s) >= 1
      /\ Front(s) \in Seq(1..n) /\ Len(Front(s)) = Len(s) - 1
      /\ \A i \in 1..(Len(s) - 1) : Front(s)[i] = s[i]
      /\ Last(s) = s[Len(s)]
  BY FrontFacts
<1>2. /\ Neighbours(T, Front(s))
      /\ Front(s) # <<>> => T[Last(Front(s))].last + 1 = T[Last(s)].first
  BY Shortened
<1>3. CASE Front(s) = <<>>
  <2>1. Len(s) = 1
    <3>1. Len(Front(s)) = 0
      BY <1>3
    <3> QED
      BY <1>1, <3>1
  <2>2. Last(s) = s[1] /\ Covered(T, Front(s)) = 0 /\ T[Last(s)].first = 0 + 1
    BY <1>1, <1>3, <2>1 DEF Covered
  <2> QED
    BY <1>2, <1>3, <2>2 DEF Chain
<1>4. CASE Front(s) # <<>>
  <2>1. Len(Front(s)) >= 1
    BY <1>1, <1>4
  <2>2. 1 \in 1..(Len(s) - 1)
    BY <1>1, <2>1
  <2>3. Front(s)[1] = s[1] /\ T[Last(s)].first = Covered(T, Front(s)) + 1
    BY <1>1, <1>2, <1>4, <2>2 DEF Covered
  <2> QED
    BY <1>2, <2>3 DEF Chain
<1> QED
  BY <1>3, <1>4

\* A merge of the last task and the new peak is the new peak of the rest.
LEMMA ChainMerged ==
    ASSUME NEW T, NEW U, NEW n \in Nat, NEW s \in Seq(1..n), s # <<>>, NEW k,
           \A t \in 1..n : T[t].first \in Nat /\ T[t].last \in Nat,
           \A t \in 1..n : U[t] = T[t],
           NEW x \in 1..n, Chain(T, s, TRUE, x, k),
           U[n + 1].first = T[Last(s)].first, U[n + 1].last = T[x].last
    PROVE  Chain(U, Front(s), TRUE, n + 1, k)
<1>1. Chain(T, Front(s), TRUE, Last(s), T[Last(s)].last) /\ T[x].last = k
  BY ChainPopped DEF Chain
<1>2. Front(s) \in Seq(1..n) /\ Last(s) \in 1..n
  BY FrontFacts
<1>3. Chain(U, Front(s), TRUE, Last(s), T[Last(s)].last)
  BY <1>1, <1>2, ChainKept
<1> QED
  BY <1>1, <1>2, <1>3 DEF Chain

\* The loop ends: the new peak is the last task of the chain.
LEMMA ChainPushed ==
    ASSUME NEW T, NEW n \in Nat, NEW s \in Seq(1..n), NEW x \in 1..n, NEW y, NEW k,
           \A t \in 1..n : T[t].first \in Nat /\ T[t].last \in Nat,
           Chain(T, s, TRUE, x, k)
    PROVE  Chain(T, Append(s, x), FALSE, y, k)
<1>1. s # <<>> => T[Last(s)].last + 1 = T[x].first
  BY DEF Chain, Covered
<1>2. Neighbours(T, Append(s, x)) /\ Covered(T, Append(s, x)) = k
  BY <1>1, Lengthened DEF Chain
<1>3. T[Append(s, x)[1]].first = 1
  <2>1. /\ Len(s) \in Nat /\ \A i \in 1..Len(s) : Append(s, x)[i] = s[i]
        /\ Append(s, x)[Len(s) + 1] = x
    BY AppendFacts
  <2>2. CASE s = <<>>
    <3>1. Len(s) = 0 /\ 0 + 1 = 1
      BY <2>2
    <3>2. Append(s, x)[1] = x
      BY <2>1, <3>1
    <3>3. T[x].first = 0 + 1
      BY <2>2 DEF Chain, Covered
    <3> QED
      BY <3>1, <3>2, <3>3
  <2>3. CASE s # <<>>
    <3>1. Len(s) >= 1
      BY <2>3
    <3>2. 1 \in 1..Len(s)
      BY <2>1, <3>1
    <3> QED
      BY <2>1, <2>3, <3>2 DEF Chain
  <2> QED
    BY <2>2, <2>3
<1> QED
  BY <1>2, <1>3 DEF Chain

\* finish_unions: one task for the first two, about both.
LEMMA ChainFirstTwo ==
    ASSUME NEW T, NEW U, NEW n \in Nat, NEW s \in Seq(1..n), Len(s) >= 2, NEW x, NEW k,
           \A t \in 1..n : U[t] = T[t],
           Chain(T, s, FALSE, x, k),
           U[n + 1].first = T[s[1]].first, U[n + 1].last = T[s[2]].last
    PROVE  Chain(U, FirstTwoFor(s, n + 1), FALSE, x, k)
<1> DEFINE w == FirstTwoFor(s, n + 1)
           m == Len(s)
<1>1. s \in Seq(1..(n + 1)) /\ n + 1 \in 1..(n + 1)
  BY SeqGrows
<1>2. Shifted(1..(n + 1), s, n + 1, w)
  BY <1>1, FirstTwo
<1>3. /\ m \in Nat /\ m >= 2 /\ Len(w) = m - 1 /\ w[1] = n + 1
      /\ \A i \in 2..(m - 1) : w[i] = s[i + 1]
      /\ \A i \in 1..m : s[i] \in 1..n
      /\ \A i \in 1..(m - 1) : T[s[i]].last + 1 = T[s[i + 1]].first
      /\ s # <<>> /\ Last(s) = s[m]
  <2>1. /\ m \in Nat /\ Len(w) = m - 1 /\ w[1] = n + 1
        /\ \A i \in 2..(m - 1) : w[i] = s[i + 1]
    <3> HIDE DEF w
    <3> QED
      BY <1>2 DEF Shifted
  <2> QED
    BY <2>1 DEF Chain, Neighbours, Last
<1>4. w # <<>> /\ Last(w) = w[m - 1]
  <2>1. Len(w) # 0
    BY <1>3
  <2> QED
    BY <1>3, <2>1 DEF Last
<1> HIDE DEF w, m
<1>5. U[w[1]].first = 1
  <2>1. T[s[1]].first = 1
    BY <1>3 DEF Chain
  <2> QED
    BY <1>3, <2>1
<1>6. ASSUME NEW i \in 1..((m - 1) - 1) PROVE U[w[i]].last + 1 = U[w[i + 1]].first
  <2>1. i + 1 \in 2..(m - 1) /\ (i + 1) + 1 \in 1..m /\ i + 1 \in 1..(m - 1)
    BY <1>3
  <2>2. w[i + 1] = s[(i + 1) + 1] /\ s[(i + 1) + 1] \in 1..n
    BY <1>3, <2>1
  <2>3. U[w[i]].last = T[s[i + 1]].last
    <3>1. CASE i = 1
      BY <1>3, <3>1
    <3>2. CASE i # 1
      <4>1. i \in 2..(m - 1) /\ i + 1 \in 1..m
        BY <1>3, <3>2
      <4> QED
        BY <1>3, <4>1
    <3> QED
      BY <3>1, <3>2
  <2>4. T[s[i + 1]].last + 1 = T[s[(i + 1) + 1]].first
    BY <1>3, <2>1
  <2> QED
    BY <2>2, <2>3, <2>4
<1>7. Covered(U, w) = k
  <2>1. T[s[m]].last = k
    BY <1>3 DEF Chain, Covered
  <2>2. U[w[m - 1]].last = T[s[m]].last
    <3>1. CASE m = 2
      BY <1>3, <3>1
    <3>2. CASE m # 2
      <4>1. m - 1 \in 2..(m - 1) /\ m \in 1..m /\ (m - 1) + 1 = m
        BY <1>3, <3>2
      <4> QED
        BY <1>3, <4>1
    <3> QED
      BY <3>1, <3>2
  <2> QED
    BY <1>4, <2>1, <2>2 DEF Covered
<1>8. Neighbours(U, w)
  BY <1>3, <1>6 DEF Neighbours
<1> QED
  BY <1>5, <1>7, <1>8 DEF Chain, w

\* What Chains says of the state, in the form the steps below use.
LEMMA ChainFacts ==
    ASSUME Inv, Chains, lastTask = 0
    PROVE  /\ PlannerTypeOK /\ TasksOK /\ Len(tasks) \in Nat
           /\ peaks \in Seq(1..Len(tasks)) /\ keccakPeaks \in Seq(1..Len(tasks))
           /\ \A t \in 1..Len(tasks) : tasks[t].first \in Nat /\ tasks[t].last \in Nat
           /\ pc = "segment" => Chain(tasks, peaks, TRUE, top, segments)
           /\ pc # "segment" => Chain(tasks, peaks, FALSE, top, segments)
           /\ pc = "keccak" => Chain(tasks, keccakPeaks, TRUE, top, keccaks)
           /\ pc # "keccak" => Chain(tasks, keccakPeaks, FALSE, top, keccaks)
<1>1. /\ PlannerTypeOK /\ TasksOK /\ Len(tasks) \in Nat
      /\ peaks \in Seq(1..Len(tasks)) /\ keccakPeaks \in Seq(1..Len(tasks))
      /\ \A t \in 1..Len(tasks) : tasks[t].first \in Nat /\ tasks[t].last \in Nat
  BY Types DEF Inv
<1>2. /\ pc = "segment" => Chain(tasks, peaks, TRUE, top, segments)
      /\ pc # "segment" => Chain(tasks, peaks, FALSE, top, segments)
  BY DEF Chains, Chain
<1>3. /\ pc = "keccak" => Chain(tasks, keccakPeaks, TRUE, top, keccaks)
      /\ pc # "keccak" => Chain(tasks, keccakPeaks, FALSE, top, keccaks)
  BY DEF Chains, Chain
<1> QED
  BY <1>1, <1>2, <1>3

\* And the way back.
LEMMA ChainsFrom ==
    ASSUME /\ pc' = "segment" => Chain(tasks', peaks', TRUE, top', segments')
           /\ pc' # "segment" => Chain(tasks', peaks', FALSE, top', segments')
           /\ pc' = "keccak" => Chain(tasks', keccakPeaks', TRUE, top', keccaks')
           /\ pc' # "keccak" => Chain(tasks', keccakPeaks', FALSE, top', keccaks')
    PROVE  Chains'
<1>1. Chain(tasks', peaks', pc' = "segment", top', segments')
  BY DEF Chain
<1>2. Chain(tasks', keccakPeaks', pc' = "keccak", top', keccaks')
  BY DEF Chain
<1> QED
  BY <1>1, <1>2 DEF Chains

\* A chain that does not run is about no new peak.
LEMMA ChainAnyTop ==
    ASSUME NEW T, NEW s, NEW x, NEW y, NEW k, Chain(T, s, FALSE, x, k)
    PROVE  Chain(T, s, FALSE, y, k)
BY DEF Chain

\* A chain that does not run, when a task is added.
LEMMA ChainFrame ==
    ASSUME NEW T, NEW U, NEW n \in Nat, NEW s \in Seq(1..n),
           \A t \in 1..n : U[t] = T[t],
           NEW x, NEW y, NEW k, Chain(T, s, FALSE, x, k)
    PROVE  Chain(U, s, FALSE, y, k)
<1>1. Chain(U, s, FALSE, x, k)
  BY ChainKept
<1> QED
  BY <1>1, ChainAnyTop

\* enqueue_segment and enqueue_keccak number the leaf after the last one.
LEMMA EnqueueChains ==
    ASSUME Inv, Chains, EnqueueSegment \/ EnqueueKeccak
    PROVE  Chains'
<1> DEFINE n == Len(tasks)
<1>1. /\ pc = "idle" /\ top' = n + 1 /\ lastTask = 0 /\ lastTask' = 0
      /\ peaks' = peaks /\ keccakPeaks' = keccakPeaks
  BY DEF EnqueueSegment, EnqueueKeccak
<1>2. /\ PlannerTypeOK /\ n \in Nat
      /\ peaks \in Seq(1..n) /\ keccakPeaks \in Seq(1..n)
      /\ Chain(tasks, peaks, FALSE, top, segments)
      /\ Chain(tasks, keccakPeaks, FALSE, top, keccaks)
  BY <1>1, ChainFacts
<1>3. segments + 1 \in Nat /\ keccaks + 1 \in Nat /\ "Segment" \in Command /\ "Keccak" \in Command
  BY <1>2, PlannerAssumption DEF PlannerTypeOK, Command
<1>4. CASE EnqueueSegment
  <2>1. /\ pc' = "segment" /\ segments' = segments + 1 /\ keccaks' = keccaks
        /\ tasks' = Append(tasks, Leaf("Segment", segments + 1))
    BY <1>4 DEF EnqueueSegment
  <2>2. /\ Leaf("Segment", segments + 1) \in PlannerTask
        /\ Leaf("Segment", segments + 1).first = segments + 1
        /\ Leaf("Segment", segments + 1).last = segments + 1
    BY <1>3, LeafIsTask
  <2>3. /\ \A t \in 1..n : tasks'[t] = tasks[t]
        /\ tasks'[n + 1] = Leaf("Segment", segments + 1)
    BY <1>2, <2>1, <2>2, Added
  <2> HIDE DEF n
  <2>4. /\ Chain(tasks', peaks, FALSE, top, segments)
        /\ Chain(tasks', keccakPeaks, FALSE, top', keccaks)
    BY <1>2, <2>3, ChainFrame
  <2>5. Chain(tasks', peaks, TRUE, n + 1, segments + 1)
    BY <1>2, <2>2, <2>3, <2>4, ChainStarts
  <2> QED
    BY <1>1, <2>1, <2>4, <2>5, ChainsFrom
<1>5. CASE EnqueueKeccak
  <2>1. /\ pc' = "keccak" /\ keccaks' = keccaks + 1 /\ segments' = segments
        /\ tasks' = Append(tasks, Leaf("Keccak", keccaks + 1))
    BY <1>5 DEF EnqueueKeccak
  <2>2. /\ Leaf("Keccak", keccaks + 1) \in PlannerTask
        /\ Leaf("Keccak", keccaks + 1).first = keccaks + 1
        /\ Leaf("Keccak", keccaks + 1).last = keccaks + 1
    BY <1>3, LeafIsTask
  <2>3. /\ \A t \in 1..n : tasks'[t] = tasks[t]
        /\ tasks'[n + 1] = Leaf("Keccak", keccaks + 1)
    BY <1>2, <2>1, <2>2, Added
  <2> HIDE DEF n
  <2>4. /\ Chain(tasks', keccakPeaks, FALSE, top, keccaks)
        /\ Chain(tasks', peaks, FALSE, top', segments)
    BY <1>2, <2>3, ChainFrame
  <2>5. Chain(tasks', keccakPeaks, TRUE, n + 1, keccaks + 1)
    BY <1>2, <2>2, <2>3, <2>4, ChainStarts
  <2> QED
    BY <1>1, <2>1, <2>4, <2>5, ChainsFrom
<1> QED
  BY <1>4, <1>5

\* What a merge of neighbours is about, whichever of the two comes first in it.
LEMMA MergeEnds ==
    ASSUME PlannerTypeOK, TasksOK, NEW c \in Command,
           NEW l \in 1..Len(tasks), NEW r \in 1..Len(tasks),
           tasks[l].last + 1 = tasks[r].first
    PROVE  /\ Merge(c, l, r) \in PlannerTask /\ Merge(c, r, l) \in PlannerTask
           /\ Merge(c, l, r).first = tasks[l].first /\ Merge(c, l, r).last = tasks[r].last
           /\ Merge(c, r, l).first = tasks[l].first /\ Merge(c, r, l).last = tasks[r].last
<1>1. /\ Merge(c, l, r) \in PlannerTask /\ Merge(c, r, l) \in PlannerTask
      /\ Merge(c, l, r).first = tasks[l].first /\ Merge(c, l, r).last = tasks[r].last
  BY MergeIsTask
<1>2. /\ tasks[l].first \in Nat /\ tasks[r].first \in Nat
      /\ tasks[l].last \in Nat /\ tasks[r].last \in Nat
  BY Types
<1>3. tasks[l].first <= tasks[l].last /\ tasks[r].first <= tasks[r].last
  BY DEF TasksOK, TaskOK
<1>4. Merge(c, r, l).first = Lower(tasks[r].first, tasks[l].first)
  BY DEF Merge
<1>5. Merge(c, r, l).last = Higher(tasks[r].last, tasks[l].last)
  BY DEF Merge
<1>6. tasks[l].first < tasks[r].first /\ tasks[l].last < tasks[r].last
  BY <1>2, <1>3
<1>7. /\ Lower(tasks[r].first, tasks[l].first) = tasks[l].first
      /\ Higher(tasks[r].last, tasks[l].last) = tasks[r].last
  BY <1>2, <1>6 DEF Lower, Higher
<1> QED
  BY <1>1, <1>4, <1>5, <1>7

\* One loop merges the last peak of its own chain with the new peak.
LEMMA ChainLoop ==
    ASSUME PlannerTypeOK, TasksOK, NEW c \in Command,
           NEW s \in Seq(1..Len(tasks)), s # <<>>, NEW x \in 1..Len(tasks), NEW k,
           Chain(tasks, s, TRUE, x, k),
           tasks' = Append(tasks, Merge(c, Last(s), x))
    PROVE  /\ Chain(tasks', Front(s), TRUE, Len(tasks) + 1, k)
           /\ \A t \in 1..Len(tasks) : tasks'[t] = tasks[t]
<1> DEFINE n == Len(tasks)
           l == Last(s)
<1>1. /\ n \in Nat /\ l \in 1..n
      /\ \A t \in 1..n : tasks[t].first \in Nat /\ tasks[t].last \in Nat
  BY Types, FrontFacts
<1>2. tasks[l].last + 1 = tasks[x].first
  BY DEF Chain, Covered
<1>3. tasks' = Append(tasks, Merge(c, l, x))
  OBVIOUS
<1> HIDE DEF l
<1>4. /\ Merge(c, l, x) \in PlannerTask
      /\ Merge(c, l, x).first = tasks[l].first /\ Merge(c, l, x).last = tasks[x].last
  BY <1>1, <1>2, MergeEnds
<1>5. /\ \A t \in 1..n : tasks'[t] = tasks[t]
      /\ tasks'[n + 1] = Merge(c, l, x)
  BY <1>3, <1>4, Added
<1>6. tasks'[n + 1].first = tasks[Last(s)].first /\ tasks'[n + 1].last = tasks[x].last
  BY <1>4, <1>5 DEF l
<1> HIDE DEF n
<1>7. s \in Seq(1..n) /\ x \in 1..n
  BY DEF n
<1>8. Chain(tasks', Front(s), TRUE, n + 1, k)
  BY <1>1, <1>5, <1>6, <1>7, ChainMerged
<1> QED
  BY <1>5, <1>8 DEF n

LEMMA MergeLoopChains ==
    ASSUME Inv, Chains, JoinEqual \/ UnionEqual
    PROVE  Chains'
<1> DEFINE n == Len(tasks)
<1>1. /\ pc \in {"segment", "keccak"} /\ pc' = pc /\ top' = n + 1
      /\ lastTask = 0 /\ lastTask' = 0 /\ top \in 1..n
      /\ segments' = segments /\ keccaks' = keccaks
  BY DEF JoinEqual, UnionEqual, Inv, Control
<1>2. /\ PlannerTypeOK /\ TasksOK /\ n \in Nat
      /\ peaks \in Seq(1..n) /\ keccakPeaks \in Seq(1..n)
      /\ "Join" \in Command /\ "Union" \in Command
  BY <1>1, ChainFacts DEF Command
<1>3. CASE JoinEqual
  <2>1. /\ pc = "segment" /\ peaks # <<>> /\ peaks' = Front(peaks) /\ keccakPeaks' = keccakPeaks
        /\ tasks' = Append(tasks, Merge("Join", Last(peaks), top))
    BY <1>3 DEF JoinEqual, Merges
  <2>2. /\ Chain(tasks, peaks, TRUE, top, segments)
        /\ Chain(tasks, keccakPeaks, FALSE, top, keccaks)
    BY <1>1, <2>1, ChainFacts
  <2>3. /\ Chain(tasks', Front(peaks), TRUE, n + 1, segments)
        /\ \A t \in 1..n : tasks'[t] = tasks[t]
    BY <1>1, <1>2, <2>1, <2>2, ChainLoop
  <2> HIDE DEF n
  <2>4. Chain(tasks', keccakPeaks, FALSE, top', keccaks)
    BY <1>2, <2>2, <2>3, ChainFrame
  <2> QED
    BY <1>1, <2>1, <2>3, <2>4, ChainsFrom
<1>4. CASE UnionEqual
  <2>1. /\ pc = "keccak" /\ keccakPeaks # <<>> /\ keccakPeaks' = Front(keccakPeaks) /\ peaks' = peaks
        /\ tasks' = Append(tasks, Merge("Union", Last(keccakPeaks), top))
    BY <1>4 DEF UnionEqual, Merges
  <2>2. /\ Chain(tasks, keccakPeaks, TRUE, top, keccaks)
        /\ Chain(tasks, peaks, FALSE, top, segments)
    BY <1>1, <2>1, ChainFacts
  <2>3. /\ Chain(tasks', Front(keccakPeaks), TRUE, n + 1, keccaks)
        /\ \A t \in 1..n : tasks'[t] = tasks[t]
    BY <1>1, <1>2, <2>1, <2>2, ChainLoop
  <2> HIDE DEF n
  <2>4. Chain(tasks', peaks, FALSE, top', segments)
    BY <1>2, <2>2, <2>3, ChainFrame
  <2> QED
    BY <1>1, <2>1, <2>3, <2>4, ChainsFrom
<1> QED
  BY <1>3, <1>4

LEMMA PushChains ==
    ASSUME Inv, Chains, PushPeak \/ PushKeccakPeak
    PROVE  Chains'
<1> DEFINE n == Len(tasks)
<1>1. /\ pc \in {"segment", "keccak"} /\ pc' = "idle" /\ tasks' = tasks
      /\ lastTask = 0 /\ lastTask' = 0 /\ top \in 1..n
      /\ segments' = segments /\ keccaks' = keccaks
  BY DEF PushPeak, PushKeccakPeak, Inv, Control
<1>2. /\ n \in Nat /\ peaks \in Seq(1..n) /\ keccakPeaks \in Seq(1..n)
      /\ \A t \in 1..n : tasks[t].first \in Nat /\ tasks[t].last \in Nat
  BY <1>1, ChainFacts
<1>3. CASE PushPeak
  <2>1. pc = "segment" /\ peaks' = Append(peaks, top) /\ keccakPeaks' = keccakPeaks
    BY <1>3 DEF PushPeak
  <2>2. /\ Chain(tasks, peaks, TRUE, top, segments)
        /\ Chain(tasks, keccakPeaks, FALSE, top, keccaks)
    BY <1>1, <2>1, ChainFacts
  <2> HIDE DEF n
  <2>3. Chain(tasks, Append(peaks, top), FALSE, top', segments)
    BY <1>1, <1>2, <2>2, ChainPushed
  <2>4. Chain(tasks, keccakPeaks, FALSE, top', keccaks)
    BY <2>2, ChainAnyTop
  <2> QED
    BY <1>1, <2>1, <2>3, <2>4, ChainsFrom
<1>4. CASE PushKeccakPeak
  <2>1. pc = "keccak" /\ keccakPeaks' = Append(keccakPeaks, top) /\ peaks' = peaks
    BY <1>4 DEF PushKeccakPeak
  <2>2. /\ Chain(tasks, keccakPeaks, TRUE, top, keccaks)
        /\ Chain(tasks, peaks, FALSE, top, segments)
    BY <1>1, <2>1, ChainFacts
  <2> HIDE DEF n
  <2>3. Chain(tasks, Append(keccakPeaks, top), FALSE, top', keccaks)
    BY <1>1, <1>2, <2>2, ChainPushed
  <2>4. Chain(tasks, peaks, FALSE, top', segments)
    BY <2>2, ChainAnyTop
  <2> QED
    BY <1>1, <2>1, <2>3, <2>4, ChainsFrom
<1> QED
  BY <1>3, <1>4

LEMMA FinishUnionsChains ==
    ASSUME Inv, Chains, FinishUnions
    PROVE  Chains'
<1> DEFINE n == Len(tasks)
           a == keccakPeaks[1]
           b == keccakPeaks[2]
<1>1. /\ pc = "unions" /\ pc' = "unions" /\ lastTask = 0 /\ lastTask' = 0
      /\ Len(keccakPeaks) >= 2 /\ peaks' = peaks /\ top' = top
      /\ tasks' = Append(tasks, Merge("Union", b, a))
      /\ keccakPeaks' = FirstTwoFor(keccakPeaks, n + 1)
      /\ segments' = segments /\ keccaks' = keccaks
  BY DEF FinishUnions, FirstTwoFor, Inv, Control
<1>2. /\ PlannerTypeOK /\ TasksOK /\ n \in Nat
      /\ peaks \in Seq(1..n) /\ keccakPeaks \in Seq(1..n) /\ "Union" \in Command
      /\ Chain(tasks, peaks, FALSE, top, segments)
      /\ Chain(tasks, keccakPeaks, FALSE, top, keccaks)
  BY <1>1, ChainFacts DEF Command
<1>3. a \in 1..n /\ b \in 1..n /\ tasks[a].last + 1 = tasks[b].first
  <2>1. Len(keccakPeaks) \in Nat /\ \A i \in 1..Len(keccakPeaks) : keccakPeaks[i] \in 1..n
    BY <1>2
  <2>2. /\ 1 \in 1..Len(keccakPeaks) /\ 2 \in 1..Len(keccakPeaks)
        /\ 1 \in 1..(Len(keccakPeaks) - 1) /\ 1 + 1 = 2
    BY <1>1, <2>1
  <2>3. tasks[keccakPeaks[1]].last + 1 = tasks[keccakPeaks[1 + 1]].first
    BY <1>2, <2>2 DEF Chain, Neighbours
  <2> QED
    BY <2>1, <2>2, <2>3
<1> HIDE DEF a, b
<1>4. /\ Merge("Union", b, a) \in PlannerTask
      /\ Merge("Union", b, a).first = tasks[a].first /\ Merge("Union", b, a).last = tasks[b].last
  BY <1>2, <1>3, MergeEnds
<1>5. /\ \A t \in 1..n : tasks'[t] = tasks[t]
      /\ tasks'[n + 1] = Merge("Union", b, a)
  BY <1>1, <1>2, <1>4, Added
<1> HIDE DEF n
<1>6. Chain(tasks', peaks, FALSE, top, segments)
  BY <1>2, <1>5, ChainFrame
<1>7. /\ tasks'[n + 1].first = tasks[keccakPeaks[1]].first
      /\ tasks'[n + 1].last = tasks[keccakPeaks[2]].last
  BY <1>4, <1>5 DEF a, b
<1>8. Chain(tasks', FirstTwoFor(keccakPeaks, n + 1), FALSE, top, keccaks)
  BY <1>1, <1>2, <1>5, <1>7, ChainFirstTwo
<1> QED
  BY <1>1, <1>6, <1>8, ChainsFrom

\* finish takes the last peak off the chain, merges it with the one before it and
\* puts the join back.
LEMMA FinishJoinsChains ==
    ASSUME Inv, Chains, FinishJoins
    PROVE  Chains'
<1> DEFINE n == Len(tasks)
           front == Front(peaks)
           r == Last(peaks)
<1>1. /\ pc = "joins" /\ pc' = "joins" /\ lastTask = 0 /\ lastTask' = 0
      /\ Len(peaks) >= 2 /\ keccakPeaks' = keccakPeaks /\ top' = top
      /\ tasks' = Append(tasks, Merge("Join", Last(front), r))
      /\ peaks' = Append(Front(front), n + 1)
      /\ segments' = segments /\ keccaks' = keccaks
  BY DEF FinishJoins, LastTwo, Inv, Control
<1>2. /\ PlannerTypeOK /\ TasksOK /\ n \in Nat
      /\ peaks \in Seq(1..n) /\ keccakPeaks \in Seq(1..n) /\ "Join" \in Command
      /\ \A t \in 1..n : tasks[t].first \in Nat /\ tasks[t].last \in Nat
      /\ Chain(tasks, peaks, FALSE, top, segments)
      /\ Chain(tasks, keccakPeaks, FALSE, top, keccaks)
  BY <1>1, ChainFacts DEF Command
<1>3. peaks # <<>> /\ front \in Seq(1..n) /\ front # <<>> /\ r \in 1..n
  <2>1. peaks # <<>>
    BY <1>1, <1>2
  <2>2. front \in Seq(1..n) /\ Len(front) = Len(peaks) - 1 /\ Len(peaks) \in Nat /\ r \in 1..n
    BY <1>2, <2>1, FrontFacts
  <2>3. Len(front) # 0
    <3>1. Len(peaks) \in Nat /\ Len(peaks) >= 2 /\ Len(front) = Len(peaks) - 1
      BY <1>1, <2>2
    <3> QED
      BY <3>1
  <2> QED
    BY <2>1, <2>2, <2>3
<1>4. Chain(tasks, front, TRUE, r, segments)
  <2>1. Neighbours(tasks, peaks) /\ tasks[peaks[1]].first = 1 /\ tasks[Last(peaks)].last = segments
    BY <1>2, <1>3 DEF Chain, Covered
  <2> HIDE DEF n
  <2> QED
    BY <1>2, <1>3, <2>1, ChainPopped
<1> HIDE DEF front, r
<1>5. Last(front) \in 1..n /\ Front(front) \in Seq(1..n)
  BY <1>3, FrontFacts
<1>6. /\ Chain(tasks', Front(front), TRUE, n + 1, segments)
      /\ \A t \in 1..n : tasks'[t] = tasks[t]
  BY <1>1, <1>2, <1>3, <1>4, ChainLoop
<1>7. \A t \in 1..(n + 1) : tasks'[t].first \in Nat /\ tasks'[t].last \in Nat
  <2> DEFINE l == Last(front)
  <2> HIDE DEF l
  <2>1. Merge("Join", l, r) \in PlannerTask
    BY <1>2, <1>3, <1>5, MergeIsTask DEF l
  <2>2. tasks' = Append(tasks, Merge("Join", l, r))
    BY <1>1 DEF l
  <2>3. tasks'[n + 1] = Merge("Join", l, r)
    BY <1>2, <2>1, <2>2, Added
  <2>4. tasks'[n + 1].first \in Nat /\ tasks'[n + 1].last \in Nat
    BY <2>1, <2>3 DEF PlannerTask
  <2>5. \A t \in 1..(n + 1) : t = n + 1 \/ t \in 1..n
    BY <1>2
  <2> QED
    BY <1>2, <1>6, <2>4, <2>5
<1> HIDE DEF n
<1>8. Front(front) \in Seq(1..(n + 1)) /\ n + 1 \in 1..(n + 1) /\ n + 1 \in Nat
  BY <1>2, <1>5, SeqGrows
<1>9. Chain(tasks', Append(Front(front), n + 1), FALSE, top', segments)
  BY <1>6, <1>7, <1>8, ChainPushed
<1>10. Chain(tasks', keccakPeaks, FALSE, top', keccaks)
  BY <1>2, <1>6, ChainFrame
<1> QED
  BY <1>1, <1>9, <1>10, ChainsFrom

LEMMA OtherChains ==
    ASSUME Inv, Chains, Finish \/ UnionsDone \/ NextTask \/ UNCHANGED vars
    PROVE  Chains'
<1>1. /\ tasks' = tasks /\ peaks' = peaks /\ keccakPeaks' = keccakPeaks
      /\ lastTask' = lastTask /\ top' = top
      /\ segments' = segments /\ keccaks' = keccaks
      /\ \/ pc' = pc
         \/ pc' \notin {"segment", "keccak"} /\ pc \notin {"segment", "keccak"}
  BY DEF Finish, UnionsDone, NextTask, vars
<1>2. CASE lastTask = 0
  BY <1>1, <1>2, ChainFacts, ChainsFrom
<1>3. CASE lastTask # 0
  BY <1>1, <1>3 DEF Chains
<1> QED
  BY <1>2, <1>3

-----------------------------------------------------------------------------
(* Heights.  A peak is a full binary tree, and the trees get smaller; the  *)
(* joins of finish start with the smallest two, so that what they make     *)
(* stays at most as high as the next peak.                                 *)

Size(T, t) == T[t].last - T[t].first + 1
Full(T, t) == Size(T, t) = 2^(T[t].height)
Balanced(T, t) ==
    /\ Size(T, t) <= 2^(T[t].height)
    /\ T[t].height > 0 => 2^(T[t].height - 1) < Size(T, t)

AllFull(T, s) == Falling(T, s) /\ \A i \in 1..Len(s) : Full(T, s[i])

Heights ==
    lastTask = 0 =>
        /\ pc # "joins" => AllFull(tasks, peaks)
        /\ pc = "segment" => Full(tasks, top)
        /\ pc = "joins" =>
              /\ AllFull(tasks, Front(peaks))
              /\ Balanced(tasks, Last(peaks))
              /\ Front(peaks) # <<>> =>
                    tasks[Last(Front(peaks))].height >= tasks[Last(peaks)].height

LEMMA PowerZero == 2^0 = 1
<1>1. SUBSET (1..0) = {{}}
  OBVIOUS
<1>2. Cardinality({{}}) = 1
  BY FS_Singleton
<1>3. 0 \in Nat
  OBVIOUS
<1>4. Cardinality(SUBSET (1..0)) = 2^0
  BY <1>3, Powers
<1> QED
  BY <1>1, <1>2, <1>4

LEMMA AllFullKept ==
    ASSUME NEW T, NEW U, NEW n \in Nat, NEW s \in Seq(1..n),
           \A t \in 1..n : U[t] = T[t], AllFull(T, s)
    PROVE  AllFull(U, s)
<1>1. Falling(T, s) => Falling(U, s)
  BY Kept
<1>2. \A i \in 1..Len(s) : s[i] \in 1..n
  OBVIOUS
<1> QED
  BY <1>1, <1>2 DEF AllFull, Full, Size

\* Without the last tree, which is full and smaller than the one before it.
LEMMA AllFullFront ==
    ASSUME NEW T, NEW n \in Nat, NEW s \in Seq(1..n), s # <<>>,
           \A t \in 1..n : T[t].first \in Nat /\ T[t].last \in Nat, AllFull(T, s)
    PROVE  /\ AllFull(T, Front(s)) /\ Full(T, Last(s))
           /\ Front(s) # <<>> => T[Last(Front(s))].height > T[Last(s)].height
<1>1. /\ Len(s) \in Nat /\ Len(s) >= 1 /\ Len(Front(s)) = Len(s) - 1
      /\ \A i \in 1..(Len(s) - 1) : Front(s)[i] = s[i]
      /\ Last(s) = s[Len(s)]
  BY FrontFacts
<1>2. Falling(T, Front(s)) /\ (Front(s) # <<>> => T[Last(Front(s))].height > T[Last(s)].height)
  BY Shortened DEF AllFull
<1>3. Len(s) \in 1..Len(s) /\ 1..(Len(s) - 1) \subseteq 1..Len(s)
  BY <1>1
<1>4. Full(T, s[Len(s)]) /\ \A i \in 1..(Len(s) - 1) : Full(T, s[i])
  BY <1>3 DEF AllFull
<1> QED
  BY <1>1, <1>2, <1>4 DEF AllFull

LEMMA AllFullPushed ==
    ASSUME NEW T, NEW n \in Nat, NEW s \in Seq(1..n), NEW x \in 1..n,
           AllFull(T, s), Full(T, x), Falling(T, Append(s, x))
    PROVE  AllFull(T, Append(s, x))
<1>1. /\ Len(s) \in Nat /\ Len(Append(s, x)) = Len(s) + 1
      /\ \A i \in 1..Len(s) : Append(s, x)[i] = s[i]
      /\ Append(s, x)[Len(s) + 1] = x
  BY AppendFacts
<1>2. \A i \in 1..(Len(s) + 1) : i = Len(s) + 1 \/ i \in 1..Len(s)
  BY <1>1
<1> QED
  BY <1>1, <1>2 DEF AllFull

\* A full tree is balanced.
LEMMA FullBalanced ==
    ASSUME NEW T, NEW t, T[t].height \in Nat, Full(T, t)
    PROVE  Balanced(T, t)
<1> DEFINE h == T[t].height
<1>1. Size(T, t) = 2^h /\ 2^h \in Nat
  BY Powers DEF Full
<1>2. ASSUME h > 0 PROVE 2^(h - 1) < 2^h
  <2> DEFINE g == h - 1
  <2>1. g \in Nat /\ g + 1 = h
    BY <1>2
  <2> HIDE DEF g
  <2>2. 2^(g + 1) = 2^g + 2^g /\ 2^g \in Nat /\ 2^g >= 1
    BY <2>1, Powers, PowersDouble
  <2>3. 2^g < 2^h
    <3> HIDE DEF h
    <3> QED
      BY <2>1, <2>2
  <2> QED
    BY <2>3 DEF g
<1> QED
  BY <1>1, <1>2 DEF Balanced

\* A task is added that is not for the segments, or is a new leaf of them.
LEMMA EnqueueHeights ==
    ASSUME Inv, Heights, EnqueueSegment \/ EnqueueKeccak
    PROVE  Heights'
<1> DEFINE n == Len(tasks)
<1>1. /\ pc = "idle" /\ pc' \in {"segment", "keccak"} /\ top' = n + 1
      /\ lastTask = 0 /\ lastTask' = 0 /\ peaks' = peaks
  BY DEF EnqueueSegment, EnqueueKeccak
<1>2. PlannerTypeOK /\ n \in Nat /\ peaks \in Seq(1..n) /\ AllFull(tasks, peaks)
  BY <1>1, Types DEF Inv, Heights
<1>3. \E c \in Command, k \in Nat : tasks' = Append(tasks, Leaf(c, k))
  <2>1. segments + 1 \in Nat /\ keccaks + 1 \in Nat /\ "Segment" \in Command /\ "Keccak" \in Command
    BY <1>2, PlannerAssumption DEF PlannerTypeOK, Command
  <2> QED
    BY <2>1 DEF EnqueueSegment, EnqueueKeccak
<1>4. PICK c \in Command, k \in Nat : tasks' = Append(tasks, Leaf(c, k))
  BY <1>3
<1>5. /\ Leaf(c, k) \in PlannerTask /\ Leaf(c, k).height = 0
      /\ Leaf(c, k).first = k /\ Leaf(c, k).last = k
  BY LeafIsTask
<1>6. /\ \A t \in 1..n : tasks'[t] = tasks[t]
      /\ tasks'[n + 1] = Leaf(c, k)
  BY <1>2, <1>4, <1>5, Added
<1> HIDE DEF n
<1>7. AllFull(tasks', peaks)
  BY <1>2, <1>6, AllFullKept
<1>8. Full(tasks', n + 1)
  <2>1. tasks'[n + 1].last - tasks'[n + 1].first + 1 = 1
    BY <1>5, <1>6
  <2> QED
    BY <1>5, <1>6, <2>1, PowerZero DEF Full, Size
<1> QED
  BY <1>1, <1>7, <1>8 DEF Heights

\* Two full trees of one height make a full tree.
LEMMA JoinEqualHeights ==
    ASSUME Inv, Chains, Heights, JoinEqual
    PROVE  Heights'
<1> DEFINE n == Len(tasks)
           l == Last(peaks)
           x == Merge("Join", l, top)
<1>1. /\ pc = "segment" /\ pc' = pc /\ top' = n + 1 /\ lastTask = 0 /\ lastTask' = 0
      /\ top \in 1..n /\ peaks # <<>> /\ peaks' = Front(peaks)
      /\ tasks[l].height = tasks[top].height
      /\ tasks' = Append(tasks, x)
  BY DEF JoinEqual, Merges, Inv, Control
<1>2. /\ PlannerTypeOK /\ TasksOK /\ n \in Nat /\ peaks \in Seq(1..n) /\ "Join" \in Command
      /\ \A t \in 1..n : /\ tasks[t].height \in Nat
                         /\ tasks[t].first \in Nat /\ tasks[t].last \in Nat
      /\ AllFull(tasks, peaks) /\ Full(tasks, top)
  BY <1>1, Types DEF Inv, Heights, Command
<1>3. Chain(tasks, peaks, TRUE, top, segments)
  BY <1>1, ChainFacts
<1>4. l \in 1..n /\ Front(peaks) \in Seq(1..n)
  BY <1>1, <1>2, FrontFacts
<1>5. tasks[l].last + 1 = tasks[top].first
  BY <1>1, <1>3 DEF Chain, Covered
<1>6. AllFull(tasks, Front(peaks)) /\ Full(tasks, l)
  <2> HIDE DEF n
  <2> QED
    BY <1>1, <1>2, AllFullFront
<1> HIDE DEF l
<1>7. /\ x \in PlannerTask /\ x.height = tasks[top].height + 1
      /\ x.first = tasks[l].first /\ x.last = tasks[top].last
  BY <1>1, <1>2, <1>4, <1>5, MergeIsTask
<1> HIDE DEF x
<1>8. /\ \A t \in 1..n : tasks'[t] = tasks[t]
      /\ tasks'[n + 1] = x
  BY <1>1, <1>2, <1>7, Added
<1> HIDE DEF n
<1>9. AllFull(tasks', Front(peaks))
  BY <1>2, <1>4, <1>6, <1>8, AllFullKept
<1>10. Full(tasks', n + 1)
  <2>1. /\ tasks[l].last - tasks[l].first + 1 = 2^(tasks[top].height)
        /\ tasks[top].last - tasks[top].first + 1 = 2^(tasks[top].height)
    BY <1>1, <1>2, <1>6 DEF Full, Size
  <2>2. tasks[top].last - tasks[l].first + 1 = 2^(tasks[top].height + 1)
    <3>1. /\ tasks[l].first \in Nat /\ tasks[l].last \in Nat
          /\ tasks[top].first \in Nat /\ tasks[top].last \in Nat /\ tasks[top].height \in Nat
      BY <1>1, <1>2, <1>4
    <3> DEFINE a == tasks[l].first
               b == tasks[l].last
               c == tasks[top].first
               d == tasks[top].last
               h == tasks[top].height
    <3>2. /\ a \in Nat /\ b \in Nat /\ c \in Nat /\ d \in Nat /\ h \in Nat
          /\ b + 1 = c /\ b - a + 1 = 2^h /\ d - c + 1 = 2^h
      BY <1>5, <2>1, <3>1
    <3>3. d - a + 1 = 2^(h + 1)
      <4> HIDE DEF a, b, c, d, h
      <4>1. 2^h \in Nat /\ 2^(h + 1) = 2^h + 2^h
        BY <3>2, Powers, PowersDouble
      <4> QED
        BY <3>2, <4>1
    <3> QED
      BY <3>3
  <2> QED
    BY <1>7, <1>8, <2>2 DEF Full, Size
<1> QED
  BY <1>1, <1>9, <1>10 DEF Heights

\* The unions add tasks that no peak of the segments is.
LEMMA UnionHeights ==
    ASSUME Inv, Heights, UnionEqual \/ FinishUnions
    PROVE  Heights'
<1> DEFINE n == Len(tasks)
<1>1. /\ pc \in {"keccak", "unions"} /\ pc' = pc /\ lastTask = 0 /\ lastTask' = 0 /\ peaks' = peaks
  BY DEF UnionEqual, FinishUnions, Inv, Control
<1>2. /\ PlannerTypeOK /\ TasksOK /\ n \in Nat
      /\ peaks \in Seq(1..n) /\ keccakPeaks \in Seq(1..n)
      /\ AllFull(tasks, peaks) /\ "Union" \in Command
  BY <1>1, Types DEF Inv, Heights, Command
<1>3. \E l \in 1..n, r \in 1..n : tasks' = Append(tasks, Merge("Union", l, r))
  <2>1. CASE UnionEqual
    <3>1. keccakPeaks # <<>> /\ top \in 1..n
      BY <2>1 DEF UnionEqual, Merges, Inv, Control
    <3>2. Last(keccakPeaks) \in 1..n
      BY <1>2, <3>1, FrontFacts
    <3>3. tasks' = Append(tasks, Merge("Union", Last(keccakPeaks), top))
      BY <2>1 DEF UnionEqual
    <3> QED
      BY <3>1, <3>2, <3>3
  <2>2. CASE FinishUnions
    <3>1. Len(keccakPeaks) >= 2 /\ tasks' = Append(tasks, Merge("Union", keccakPeaks[2], keccakPeaks[1]))
      BY <2>2 DEF FinishUnions
    <3>2. Len(keccakPeaks) \in Nat /\ \A i \in 1..Len(keccakPeaks) : keccakPeaks[i] \in 1..n
      BY <1>2
    <3>3. 1 \in 1..Len(keccakPeaks) /\ 2 \in 1..Len(keccakPeaks)
      BY <3>1, <3>2
    <3> QED
      BY <3>1, <3>2, <3>3
  <2> QED
    BY <2>1, <2>2
<1>4. PICK l \in 1..n, r \in 1..n : tasks' = Append(tasks, Merge("Union", l, r))
  BY <1>3
<1>5. Merge("Union", l, r) \in PlannerTask
  BY <1>2, MergeIsTask
<1>6. \A t \in 1..n : tasks'[t] = tasks[t]
  BY <1>2, <1>4, <1>5, Added
<1> HIDE DEF n
<1>7. AllFull(tasks', peaks)
  BY <1>2, <1>6, AllFullKept
<1> QED
  BY <1>1, <1>7 DEF Heights

LEMMA PushHeights ==
    ASSUME Inv, Heights, PushPeak \/ PushKeccakPeak
    PROVE  Heights'
<1> DEFINE n == Len(tasks)
<1>1. /\ pc \in {"segment", "keccak"} /\ pc' = "idle" /\ tasks' = tasks
      /\ lastTask = 0 /\ lastTask' = 0 /\ top \in 1..n
  BY DEF PushPeak, PushKeccakPeak, Inv, Control
<1>2. n \in Nat /\ peaks \in Seq(1..n) /\ AllFull(tasks, peaks)
  BY <1>1, Types DEF Inv, Heights
<1>3. CASE PushPeak
  <2>1. pc = "segment" /\ peaks' = Append(peaks, top) /\ Full(tasks, top)
    BY <1>1, <1>3 DEF PushPeak, Heights
  <2>2. Inv'
    BY <1>3, PushPeakInv
  <2>3. Falling(tasks, Append(peaks, top))
    BY <1>1, <2>1, <2>2 DEF Inv, HeightsFall, Growing
  <2> HIDE DEF n
  <2>4. AllFull(tasks, Append(peaks, top))
    BY <1>1, <1>2, <2>1, <2>3, AllFullPushed
  <2> QED
    BY <1>1, <2>1, <2>4 DEF Heights
<1>4. CASE PushKeccakPeak
  <2>1. peaks' = peaks
    BY <1>4 DEF PushKeccakPeak
  <2> QED
    BY <1>1, <1>2, <2>1 DEF Heights
<1> QED
  BY <1>3, <1>4

\* When the joins of finish start, the last peak is full as the others are.
LEMMA OtherHeights ==
    ASSUME Inv, Heights, Finish \/ UnionsDone \/ NextTask \/ UNCHANGED vars
    PROVE  Heights'
<1>1. /\ tasks' = tasks /\ peaks' = peaks /\ lastTask' = lastTask /\ top' = top
  BY DEF Finish, UnionsDone, NextTask, vars
<1>2. CASE UnionsDone
  <2>1. pc = "unions" /\ pc' = "joins" /\ lastTask = 0 /\ peaks # <<>>
    BY <1>2 DEF UnionsDone, Inv, Control
  <2>2. /\ Len(tasks) \in Nat /\ peaks \in Seq(1..Len(tasks))
        /\ \A t \in 1..Len(tasks) : /\ tasks[t].height \in Nat
                                    /\ tasks[t].first \in Nat /\ tasks[t].last \in Nat
        /\ AllFull(tasks, peaks)
    BY <2>1, Types DEF Inv, Heights
  <2>3. /\ AllFull(tasks, Front(peaks)) /\ Full(tasks, Last(peaks))
        /\ Front(peaks) # <<>> => tasks[Last(Front(peaks))].height > tasks[Last(peaks)].height
    BY <2>1, <2>2, AllFullFront
  <2>4. Last(peaks) \in 1..Len(tasks) /\ Front(peaks) \in Seq(1..Len(tasks))
    BY <2>1, <2>2, FrontFacts
  <2>5. Balanced(tasks, Last(peaks))
    BY <2>2, <2>3, <2>4, FullBalanced
  <2>6. Front(peaks) # <<>> => tasks[Last(Front(peaks))].height >= tasks[Last(peaks)].height
    <3> SUFFICES ASSUME Front(peaks) # <<>>
                 PROVE  tasks[Last(Front(peaks))].height >= tasks[Last(peaks)].height
      OBVIOUS
    <3>1. Last(Front(peaks)) \in 1..Len(tasks)
      BY <2>4, FrontFacts
    <3> QED
      BY <2>2, <2>3, <2>4, <3>1
  <2> QED
    BY <1>1, <2>1, <2>3, <2>5, <2>6 DEF Heights
<1>3. CASE ~UnionsDone
  <2>1. pc' = pc \/ (pc = "idle" /\ pc' = "unions")
    BY <1>3 DEF Finish, NextTask, vars
  <2> QED
    BY <1>1, <2>1 DEF Heights
<1> QED
  BY <1>2, <1>3

\* A full tree and a balanced one that is at most as high make a balanced one.
LEMMA JoinBalanced ==
    ASSUME NEW a \in Nat, NEW b \in Nat, NEW c \in Nat, NEW d \in Nat,
           NEW g \in Nat, NEW h \in Nat, g <= h,
           b + 1 = c, c <= d, b - a + 1 = 2^h, d - c + 1 <= 2^g
    PROVE  d - a + 1 <= 2^(h + 1) /\ 2^h < d - a + 1
<1>1. 2^h \in Nat /\ 2^(h + 1) = 2^h + 2^h /\ 2^g \in Nat /\ 2^g <= 2^h
  BY Powers, PowersDouble, PowersGrow
<1> QED
  BY <1>1

\* A sequence with an element added at its end and taken off again.
LEMMA FrontAppend ==
    ASSUME NEW S, NEW s \in Seq(S), NEW x \in S
    PROVE  Front(Append(s, x)) = s /\ Last(Append(s, x)) = x
<1> DEFINE w == Append(s, x)
<1>1. /\ Len(s) \in Nat /\ w \in Seq(S) /\ w # <<>> /\ Len(w) = Len(s) + 1
      /\ \A i \in 1..Len(s) : w[i] = s[i]
      /\ Last(w) = x
  BY AppendFacts
<1> HIDE DEF w
<1>2. /\ Front(w) \in Seq(S) /\ Len(Front(w)) = Len(w) - 1
      /\ \A i \in 1..(Len(w) - 1) : Front(w)[i] = w[i]
  BY <1>1, FrontFacts
<1>3. Len(Front(w)) = Len(s) /\ \A i \in 1..Len(s) : Front(w)[i] = s[i]
  BY <1>1, <1>2
<1>4. Front(w) = s
  BY <1>2, <1>3, SeqEqual
<1> QED
  BY <1>1, <1>4 DEF w

\* finish: the join of the last two peaks is one higher than the full tree it is
\* made of, and about more than half of what a full tree of its height is about.
LEMMA FinishJoinsHeights ==
    ASSUME Inv, Chains, Heights, FinishJoins
    PROVE  Heights'
<1> DEFINE n == Len(tasks)
           front == Front(peaks)
           l == Last(front)
           r == Last(peaks)
           x == Merge("Join", l, r)
<1>1. /\ pc = "joins" /\ pc' = "joins" /\ lastTask = 0 /\ lastTask' = 0
      /\ Len(peaks) >= 2
      /\ tasks' = Append(tasks, x) /\ peaks' = Append(Front(front), n + 1)
  BY DEF FinishJoins, LastTwo, Inv, Control
<1>2. /\ PlannerTypeOK /\ TasksOK /\ n \in Nat /\ peaks \in Seq(1..n) /\ "Join" \in Command
      /\ \A t \in 1..n : /\ tasks[t].height \in Nat
                         /\ tasks[t].first \in Nat /\ tasks[t].last \in Nat
      /\ Chain(tasks, peaks, FALSE, top, segments)
  BY <1>1, Types, ChainFacts DEF Inv, Command
<1>3. peaks # <<>> /\ front \in Seq(1..n) /\ front # <<>> /\ r \in 1..n
  <2>1. peaks # <<>>
    BY <1>1, <1>2
  <2>2. front \in Seq(1..n) /\ Len(front) = Len(peaks) - 1 /\ Len(peaks) \in Nat /\ r \in 1..n
    BY <1>2, <2>1, FrontFacts
  <2>3. Len(front) # 0
    <3>1. Len(peaks) \in Nat /\ Len(peaks) >= 2 /\ Len(front) = Len(peaks) - 1
      BY <1>1, <2>2
    <3> QED
      BY <3>1
  <2> QED
    BY <2>1, <2>2, <2>3
<1>4. AllFull(tasks, front) /\ Balanced(tasks, r) /\ tasks[l].height >= tasks[r].height
  BY <1>1, <1>3 DEF Heights
<1>5. tasks[l].last + 1 = tasks[r].first
  <2>1. Neighbours(tasks, peaks)
    BY <1>2 DEF Chain
  <2> HIDE DEF n
  <2> QED
    BY <1>2, <1>3, <2>1, Shortened
<1> HIDE DEF front
<1>6. l \in 1..n /\ Front(front) \in Seq(1..n)
  BY <1>3, FrontFacts
<1>7. /\ AllFull(tasks, Front(front)) /\ Full(tasks, l)
      /\ Front(front) # <<>> => tasks[Last(Front(front))].height > tasks[l].height
  <2> HIDE DEF n
  <2> QED
    BY <1>2, <1>3, <1>4, AllFullFront
<1>8. Front(front) # <<>> => Last(Front(front)) \in 1..n
  BY <1>6, FrontFacts
<1> HIDE DEF l, r
<1>9. /\ tasks[l].height \in Nat /\ tasks[l].first \in Nat /\ tasks[l].last \in Nat
      /\ tasks[r].height \in Nat /\ tasks[r].first \in Nat /\ tasks[r].last \in Nat
      /\ tasks[r].first <= tasks[r].last
  BY <1>2, <1>3, <1>6 DEF TasksOK, TaskOK
<1>10. /\ x \in PlannerTask /\ x.first = tasks[l].first /\ x.last = tasks[r].last
  BY <1>2, <1>3, <1>5, <1>6, MergeEnds
<1>11. x.height = tasks[l].height + 1
  <2>1. x.height = 1 + Higher(tasks[l].height, tasks[r].height)
    BY DEF Merge
  <2>2. Higher(tasks[l].height, tasks[r].height) = tasks[l].height
    BY <1>4, <1>9 DEF Higher
  <2> QED
    BY <1>9, <2>1, <2>2
<1> HIDE DEF x
<1>12. /\ \A t \in 1..n : tasks'[t] = tasks[t]
       /\ tasks'[n + 1] = x
  BY <1>1, <1>2, <1>10, Added
<1> HIDE DEF n
<1>13. AllFull(tasks', Front(front))
  BY <1>2, <1>6, <1>7, <1>12, AllFullKept
<1>14. Balanced(tasks', n + 1)
  <2>1. /\ tasks[l].last - tasks[l].first + 1 = 2^(tasks[l].height)
        /\ tasks[r].last - tasks[r].first + 1 <= 2^(tasks[r].height)
    BY <1>4, <1>7 DEF Full, Balanced, Size
  <2>2. /\ tasks[r].last - tasks[l].first + 1 <= 2^(tasks[l].height + 1)
        /\ 2^(tasks[l].height) < tasks[r].last - tasks[l].first + 1
    <3>1. tasks[r].height <= tasks[l].height
      BY <1>4, <1>9
    <3> QED
      BY <1>5, <1>9, <2>1, <3>1, JoinBalanced
  <2>3. (tasks[l].height + 1) - 1 = tasks[l].height
    BY <1>9
  <2> QED
    BY <1>10, <1>11, <1>12, <2>2, <2>3 DEF Balanced, Size
<1>15. Front(peaks') = Front(front) /\ Last(peaks') = n + 1
  <2>1. Front(front) \in Seq(1..(n + 1)) /\ n + 1 \in 1..(n + 1)
    BY <1>2, <1>6, SeqGrows
  <2> QED
    BY <1>1, <2>1, FrontAppend
<1>16. Front(front) # <<>> => tasks'[Last(Front(front))].height >= tasks'[n + 1].height
  <2> SUFFICES ASSUME Front(front) # <<>>
               PROVE  tasks'[Last(Front(front))].height >= tasks'[n + 1].height
    OBVIOUS
  <2>1. tasks'[Last(Front(front))] = tasks[Last(Front(front))] /\ tasks[Last(Front(front))].height \in Nat
    BY <1>2, <1>8, <1>12
  <2>2. tasks[Last(Front(front))].height >= tasks[l].height + 1
    BY <1>7, <1>9, <2>1
  <2> QED
    BY <1>11, <1>12, <2>1, <2>2
<1> QED
  BY <1>1, <1>13, <1>14, <1>15, <1>16 DEF Heights

-----------------------------------------------------------------------------
(* A finished plan                                                         *)

\* What the last task rests on.
Spanned ==
    lastTask # 0 =>
        LET deps == tasks[lastTask].deps
        IN  /\ Spans(deps[1], segments)
            /\ keccaks > 0 => Len(deps) = 2 /\ Spans(deps[2], keccaks)

PlanInv == Inv /\ Uses /\ Chains /\ Heights /\ Spanned /\ JoinTreeIsBalanced

\* What finalize finds: one peak about all the segments, of the least height,
\* and one about all the keccak proofs if there are any.
LEMMA FinalizePlan ==
    ASSUME PlanInv, EnqueueFinalize
    PROVE  PlanInv'
<1> DEFINE n == Len(tasks)
           p == peaks[1]
           q == keccakPeaks[1]
<1>1. /\ lastTask = 0 /\ lastTask' = n + 1 /\ lastTask' # 0
      /\ n \in Nat
      /\ \A t \in 1..n : tasks'[t] = tasks[t]
      /\ tasks'[n + 1].deps = FinalizeDeps
      /\ peaks # <<>>
      /\ p \in 1..n /\ Last(peaks) = p
      /\ keccakPeaks # <<>> => q \in 1..n /\ Last(keccakPeaks) = q
      /\ FinalizeDeps[1] = p
      /\ keccakPeaks # <<>> => Len(FinalizeDeps) = 2 /\ FinalizeDeps[2] = q
  BY FinalizeFacts DEF PlanInv
<1>2. pc = "joins" /\ segments' = segments /\ keccaks' = keccaks
  BY DEF EnqueueFinalize
<1>3. /\ Chain(tasks, peaks, FALSE, top, segments)
      /\ Chain(tasks, keccakPeaks, FALSE, top, keccaks)
  BY <1>1, <1>2, ChainFacts DEF PlanInv
<1>4. tasks[p].first = 1 /\ tasks[p].last = segments
  BY <1>1, <1>3 DEF Chain, Covered
<1>5. keccakPeaks # <<>> => tasks[q].first = 1 /\ tasks[q].last = keccaks
  BY <1>1, <1>3 DEF Chain, Covered
<1>6. keccakPeaks = <<>> => keccaks = 0
  BY <1>3 DEF Chain, Covered
<1>7. Balanced(tasks, p)
  BY <1>1, <1>2 DEF PlanInv, Heights
<1>8. segments \in Nat /\ keccaks \in Nat
  BY PlannerAssumption DEF PlanInv, Inv, PlannerTypeOK
<1> HIDE DEF n, p, q
<1>9. tasks'[p] = tasks[p] /\ tasks'[lastTask'].deps = FinalizeDeps
  BY <1>1
<1>10. Spanned'
  <2>1. tasks'[lastTask'].deps[1] = p /\ tasks'[p].first = 1 /\ tasks'[p].last = segments'
    BY <1>1, <1>2, <1>4, <1>9
  <2>2. keccaks' > 0 =>
          /\ Len(tasks'[lastTask'].deps) = 2
          /\ tasks'[lastTask'].deps[2] = q
          /\ tasks'[q].first = 1 /\ tasks'[q].last = keccaks'
    <3> SUFFICES ASSUME keccaks' > 0
                 PROVE  /\ Len(tasks'[lastTask'].deps) = 2
                        /\ tasks'[lastTask'].deps[2] = q
                        /\ tasks'[q].first = 1 /\ tasks'[q].last = keccaks'
      OBVIOUS
    <3>1. keccakPeaks # <<>>
      BY <1>2, <1>6, <1>8
    <3> QED
      BY <1>1, <1>2, <1>5, <1>9, <3>1
  <2> QED
    BY <2>1, <2>2 DEF Spanned, Spans
<1>11. JoinTreeIsBalanced'
  <2> DEFINE h == tasks[p].height
  <2>1. Size(tasks, p) = segments
    BY <1>4, <1>8 DEF Size
  <2>2. segments <= 2^h /\ (h > 0 => 2^(h - 1) < segments)
    BY <1>7, <2>1 DEF Balanced
  <2>3. tasks'[tasks'[lastTask'].deps[1]].height = h
    BY <1>1, <1>9
  <2> QED
    BY <1>2, <2>2, <2>3 DEF JoinTreeIsBalanced
<1>12. Inv' /\ Uses'
  BY EnqueueFinalizeInv, EnqueueFinalizeUses DEF PlanInv
<1>13. Chains' /\ Heights'
  BY <1>1 DEF Chains, Heights
<1> QED
  BY <1>10, <1>11, <1>12, <1>13 DEF PlanInv

\* While the plan is laid out nothing is said of the last task.
LEMMA NotYet ==
    ASSUME lastTask' = 0
    PROVE  Spanned' /\ JoinTreeIsBalanced'
BY DEF Spanned, JoinTreeIsBalanced

LEMMA InitPlan == Init => PlanInv
<1> SUFFICES ASSUME Init PROVE PlanInv
  OBVIOUS
<1>1. Inv
  BY InitInv
<1>2. tasks = <<>> /\ peaks = <<>> /\ keccakPeaks = <<>> /\ lastTask = 0 /\ pc = "idle"
      /\ segments = 0 /\ keccaks = 0
  BY DEF Init
<1>3. Len(tasks) = 0 /\ 1..0 = {} /\ Len(peaks) = 0 /\ Len(keccakPeaks) = 0
  BY <1>2
<1>4. Uses
  <2>1. Range(peaks) = {} /\ Range(keccakPeaks) = {} /\ IsInjective(peaks) /\ IsInjective(keccakPeaks)
    BY <1>2 DEF Range, IsInjective
  <2>2. DepsBelow(tasks) /\ Accounted(tasks, Open)
    BY <1>3 DEF DepsBelow, Accounted
  <2> QED
    BY <1>2, <2>1, <2>2 DEF Uses, Separate, New
<1>5. Chains
  BY <1>2, <1>3 DEF Chains, Chain, Neighbours, Covered
<1>6. Heights
  BY <1>2, <1>3 DEF Heights, AllFull, Falling
<1> QED
  BY <1>1, <1>2, <1>4, <1>5, <1>6 DEF PlanInv, Spanned, JoinTreeIsBalanced

\* Every step keeps the invariant.
LEMMA NextPlan == PlanInv /\ [Next]_vars => PlanInv'
<1> SUFFICES ASSUME PlanInv, [Next]_vars PROVE PlanInv'
  OBVIOUS
<1>1. Inv /\ Uses /\ Chains /\ Heights /\ Inv'
  BY NextInv DEF PlanInv
<1>2. CASE EnqueueSegment \/ EnqueueKeccak
  <2>1. lastTask' = 0
    BY <1>2 DEF EnqueueSegment, EnqueueKeccak
  <2> QED
    BY <1>1, <1>2, <2>1, EnqueueUses, EnqueueChains, EnqueueHeights, NotYet DEF PlanInv
<1>3. CASE JoinEqual \/ UnionEqual
  <2>1. lastTask' = 0
    BY <1>1, <1>3 DEF JoinEqual, UnionEqual, Inv, Control
  <2>2. Heights'
    BY <1>1, <1>3, JoinEqualHeights, UnionHeights
  <2> QED
    BY <1>1, <1>3, <2>1, <2>2, MergeLoopUses, MergeLoopChains, NotYet DEF PlanInv
<1>4. CASE PushPeak \/ PushKeccakPeak
  <2>1. lastTask' = 0
    BY <1>1, <1>4 DEF PushPeak, PushKeccakPeak, Inv, Control
  <2> QED
    BY <1>1, <1>4, <2>1, PushUses, PushChains, PushHeights, NotYet DEF PlanInv
<1>5. CASE FinishUnions
  <2>1. lastTask' = 0
    BY <1>1, <1>5 DEF FinishUnions, Inv, Control
  <2> QED
    BY <1>1, <1>5, <2>1, FinishUnionsUses, FinishUnionsChains, UnionHeights, NotYet DEF PlanInv
<1>6. CASE FinishJoins
  <2>1. lastTask' = 0
    BY <1>1, <1>6 DEF FinishJoins, Inv, Control
  <2> QED
    BY <1>1, <1>6, <2>1, FinishJoinsUses, FinishJoinsChains, FinishJoinsHeights, NotYet DEF PlanInv
<1>7. CASE EnqueueFinalize
  BY <1>7, FinalizePlan
<1>8. CASE Finish \/ UnionsDone \/ NextTask \/ UNCHANGED vars
  <2>1. /\ tasks' = tasks /\ lastTask' = lastTask
        /\ segments' = segments /\ keccaks' = keccaks
    BY <1>8 DEF Finish, UnionsDone, NextTask, vars
  <2>2. Spanned' /\ JoinTreeIsBalanced'
    BY <2>1 DEF PlanInv, Spanned, Spans, JoinTreeIsBalanced
  <2> QED
    BY <1>1, <1>8, <2>2, OtherUses, OtherChains, OtherHeights DEF PlanInv
<1> QED
  BY <1>2, <1>3, <1>4, <1>5, <1>6, <1>7, <1>8 DEF Next

\* The invariant of the whole plan holds throughout.
LEMMA SpecPlan == Spec => []PlanInv
BY InitPlan, NextPlan, PTL DEF Spec

\* A finished plan proves everything once, for any number of segments and keccak
\* proofs: every other task is a dependency of exactly one task, and the last one
\* rests on a proof of all the segments and on one of all the keccak proofs.
THEOREM PlansAreComplete == Spec => []PlanIsComplete
<1>1. PlanInv => PlanIsComplete
  <2> SUFFICES ASSUME PlanInv, lastTask # 0
               PROVE  \A t \in DOMAIN tasks \ {lastTask} : Cardinality(Users(t)) = 1
    BY DEF PlanInv, Spanned, PlanIsComplete
  <2> TAKE t \in DOMAIN tasks \ {lastTask}
  <2>1. tasks \in Seq(PlannerTask) /\ DOMAIN tasks = 1..Len(tasks)
    BY Types DEF PlanInv, Inv
  <2>2. Users(t) = UsersIn(tasks, t)
    BY <2>1 DEF Users, UsersIn, Range
  <2>3. PICK u \in 1..Len(tasks) : UsersIn(tasks, t) = {u}
    BY <2>1 DEF PlanInv, Uses, Accounted
  <2>4. Cardinality({u}) = 1
    BY FS_Singleton
  <2> QED
    BY <2>2, <2>3, <2>4
<1> QED
  BY <1>1, SpecPlan, PTL

\* The tree of joins of a finished plan is as high as a balanced one, for any
\* number of segments.
THEOREM JoinTreesAreBalanced == Spec => []JoinTreeIsBalanced
<1>1. PlanInv => JoinTreeIsBalanced
  BY DEF PlanInv
<1> QED
  BY <1>1, SpecPlan, PTL

=============================================================================
