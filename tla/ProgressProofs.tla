--------------------------- MODULE ProgressProofs ---------------------------
(***************************************************************************)
(* For every depth of nesting and all widths: what a task remembers is     *)
(* what the tasks below it show, pop brings that back, and what is done    *)
(* from a push on moves the whole by at most a step of the task below.     *)
(***************************************************************************)
EXTENDS Progress, SequenceTheorems, TLAPS

(* Induction over the numbers; no fold is used.                             *)
Numbers == INSTANCE FoldProofs WITH Step <- \o

Tasks == [pos : Nat, width : Int, num : Int, den : Int]
Inv == tasks \in Seq(Tasks) /\ Remembered

(* What is shown is a number, and depends on the top task and on whether it *)
(* is the only one.                                                         *)
LEMMA ShownType ==
  ASSUME NEW s \in Seq(Tasks) PROVE PosOf(s) \in Int /\ WidthOf(s) \in Int
<1>1. CASE s = <<>> BY <1>1 DEF PosOf, WidthOf
<1>2. CASE s # <<>>
  <2>1. s[Len(s)] \in Tasks BY <1>2
  <2>2. Scale(s[Len(s)]) \in Int BY <2>1 DEF Scale, Tasks
  <2> QED BY <1>2, <2>1, <2>2 DEF PosOf, WidthOf, Tasks
<1> QED BY <1>1, <1>2

(* A stack that agrees with tasks up to a task, whose place it keeps, has   *)
(* the same tasks below it.                                                 *)
LEMMA SameBelow ==
  ASSUME NEW s \in Seq(Tasks), NEW t \in Seq(Tasks), NEW i \in Int,
         i - 1 <= Len(s), i - 1 <= Len(t), \A j \in 1 .. i - 1 : s[j] = t[j]
  PROVE  SubSeq(s, 1, i - 1) = SubSeq(t, 1, i - 1)
<1>1. SubSeq(s, 1, i - 1) = [j \in 1 .. i - 1 |-> s[j]]
  BY SubSeqProperties
<1>2. SubSeq(t, 1, i - 1) = [j \in 1 .. i - 1 |-> t[j]]
  BY SubSeqProperties
<1> QED BY <1>1, <1>2

(* The invariant, of one task.                                              *)
LEMMA Recalls ==
  ASSUME Inv, NEW i \in 2..Len(tasks)
  PROVE  /\ tasks[i].num = PosOf(SubSeq(tasks, 1, i - 1))
         /\ tasks[i].den = WidthOf(SubSeq(tasks, 1, i - 1))
BY DEF Inv, Remembered

(* A new width or position of the top task is nothing to those below it.    *)
LEMMA TopOnly ==
  ASSUME Inv, tasks # <<>>, tasks' \in Seq(Tasks), Len(tasks') = Len(tasks),
         \A j \in 1 .. Len(tasks) - 1 : tasks'[j] = tasks[j],
         tasks'[Len(tasks)].num = tasks[Len(tasks)].num,
         tasks'[Len(tasks)].den = tasks[Len(tasks)].den
  PROVE  Inv'
<1> SUFFICES ASSUME NEW i \in 2..Len(tasks)
             PROVE  /\ tasks'[i].num = PosOf(SubSeq(tasks', 1, i - 1))
                    /\ tasks'[i].den = WidthOf(SubSeq(tasks', 1, i - 1))
  BY DEF Inv, Remembered
<1>1. SubSeq(tasks', 1, i - 1) = SubSeq(tasks, 1, i - 1) BY SameBelow DEF Inv
<1>2. tasks'[i].num = tasks[i].num /\ tasks'[i].den = tasks[i].den
  BY DEF Inv
<1> QED BY <1>1, <1>2 DEF Inv, Remembered

LEMMA PushKeeps == ASSUME Inv, push PROVE Inv'
<1> DEFINE new == Task(0, 0, PosOf(tasks), WidthOf(tasks))
<1>1. tasks \in Seq(Tasks) BY DEF Inv
<1>2. new \in Tasks BY <1>1, ShownType DEF Task, Tasks
<1>3. tasks' = Append(tasks, new) BY DEF push, Pushed
<1>4. /\ tasks' \in Seq(Tasks) /\ Len(tasks') = Len(tasks) + 1
      /\ \A j \in 1..Len(tasks) : tasks'[j] = tasks[j]
      /\ tasks'[Len(tasks) + 1] = new
  <2> HIDE DEF new
  <2> QED BY <1>1, <1>2, <1>3, AppendProperties
<1> SUFFICES ASSUME NEW i \in 2 .. Len(tasks) + 1
             PROVE  /\ tasks'[i].num = PosOf(SubSeq(tasks', 1, i - 1))
                    /\ tasks'[i].den = WidthOf(SubSeq(tasks', 1, i - 1))
  BY <1>4 DEF Inv, Remembered
<1>5. SubSeq(tasks', 1, i - 1) = SubSeq(tasks, 1, i - 1)
  BY <1>1, <1>4, SameBelow
<1>6. CASE i = Len(tasks) + 1
  <2>1. SubSeq(tasks, 1, i - 1) = tasks BY <1>1, <1>6, SubSeqProperties
  <2>2. new.num = PosOf(tasks) /\ new.den = WidthOf(tasks) BY DEF Task
  <2> QED BY <1>4, <1>5, <1>6, <2>1, <2>2
<1>7. CASE i \in 2..Len(tasks)
  <2>1. i \in 1..Len(tasks) BY <1>7
  <2>2. tasks'[i] = tasks[i] BY <1>4, <2>1
  <2> QED BY <1>5, <1>7, <2>2, Recalls
<1> QED BY <1>1, <1>6, <1>7

(* What pop leaves.                                                         *)
LEMMA AllButLast ==
  ASSUME NEW s \in Seq(Tasks), Len(s) > 0
  PROVE  /\ SubSeq(s, 1, Len(s) - 1) \in Seq(Tasks)
         /\ Len(SubSeq(s, 1, Len(s) - 1)) = Len(s) - 1
         /\ \A j \in 1 .. Len(s) - 1 : SubSeq(s, 1, Len(s) - 1)[j] = s[j]
<1> DEFINE n == Len(s) - 1
<1>1. n \in Nat /\ \A j \in 1..n : s[j] \in Tasks OBVIOUS
<1> HIDE DEF n
<1>2. /\ SubSeq(s, 1, n) \in Seq(Tasks)
      /\ Len(SubSeq(s, 1, n)) = IF 1 <= n THEN n - 1 + 1 ELSE 0
      /\ \A j \in 1 .. n - 1 + 1 : SubSeq(s, 1, n)[j] = s[1 + j - 1]
  BY <1>1, SubSeqProperties
<1>3. (IF 1 <= n THEN n - 1 + 1 ELSE 0) = n /\ n - 1 + 1 = n BY <1>1
<1>4. \A j \in 1..n : 1 + j - 1 = j BY <1>1
<1>5. /\ SubSeq(s, 1, n) \in Seq(Tasks) /\ Len(SubSeq(s, 1, n)) = n
      /\ \A j \in 1..n : SubSeq(s, 1, n)[j] = s[j]
  BY <1>2, <1>3, <1>4, Zenon
<1> QED BY <1>5 DEF n

LEMMA PopKeeps == ASSUME Inv, pop PROVE Inv'
<1>1. tasks \in Seq(Tasks) /\ Len(tasks) \in Nat /\ Len(tasks) > 0 BY DEF Inv, pop
<1>2. /\ tasks' \in Seq(Tasks) /\ Len(tasks') = Len(tasks) - 1
      /\ \A j \in 1 .. Len(tasks) - 1 : tasks'[j] = tasks[j]
  BY <1>1, AllButLast DEF pop
<1> SUFFICES ASSUME NEW i \in 2 .. Len(tasks) - 1
             PROVE  /\ tasks'[i].num = PosOf(SubSeq(tasks', 1, i - 1))
                    /\ tasks'[i].den = WidthOf(SubSeq(tasks', 1, i - 1))
  BY <1>2 DEF Inv, Remembered
<1>3. SubSeq(tasks', 1, i - 1) = SubSeq(tasks, 1, i - 1)
  BY <1>1, <1>2, SameBelow
<1>4. i \in 1 .. Len(tasks) - 1 /\ i \in 2..Len(tasks) BY <1>1
<1>5. tasks'[i] = tasks[i] BY <1>2, <1>4
<1> QED BY <1>3, <1>4, <1>5, Recalls

LEMMA TopReplaced ==
  ASSUME NEW s \in Seq(Tasks), NEW n \in 1..Len(s), NEW top \in Tasks
  PROVE  /\ [s EXCEPT ![n] = top] \in Seq(Tasks)
         /\ Len([s EXCEPT ![n] = top]) = Len(s)
         /\ [s EXCEPT ![n] = top][n] = top
         /\ \A j \in 1 .. n - 1 : [s EXCEPT ![n] = top][j] = s[j]
<1>1. /\ [s EXCEPT ![n] = top] \in Seq(Tasks)
      /\ Len([s EXCEPT ![n] = top]) = Len(s)
  BY ExceptSeq
<1>2. [s EXCEPT ![n] = top][n] = top OBVIOUS
<1>3. ASSUME NEW j \in 1 .. n - 1 PROVE [s EXCEPT ![n] = top][j] = s[j]
  OBVIOUS
<1> QED BY <1>1, <1>2, <1>3

(* advance, set_width and adjust_width change the top task only.            *)
LEMMA TopKeeps ==
  ASSUME Inv, tasks # <<>>, NEW pos \in Nat, NEW width \in Int,
         tasks' = [tasks EXCEPT ![Len(tasks)] = [@ EXCEPT !.pos = pos, !.width = width]]
  PROVE  Inv'
<1>1. tasks \in Seq(Tasks) /\ Len(tasks) \in 1..Len(tasks) BY DEF Inv
<1>2. tasks[Len(tasks)] \in Tasks BY <1>1
<1> DEFINE top == [tasks[Len(tasks)] EXCEPT !.pos = pos, !.width = width]
<1>3. top \in Tasks /\ top.num = tasks[Len(tasks)].num /\ top.den = tasks[Len(tasks)].den
  BY <1>2 DEF Tasks
<1>4. tasks' = [tasks EXCEPT ![Len(tasks)] = top] OBVIOUS
<1> HIDE DEF top
<1>5. /\ tasks' \in Seq(Tasks) /\ Len(tasks') = Len(tasks) /\ tasks'[Len(tasks)] = top
      /\ \A j \in 1 .. Len(tasks) - 1 : tasks'[j] = tasks[j]
  <2> DEFINE n == Len(tasks)
             new == [tasks EXCEPT ![n] = top]
  <2>1. n \in 1..Len(tasks) BY <1>1
  <2>2. top \in Tasks BY <1>3
  <2> HIDE DEF n
  <2>3. /\ new \in Seq(Tasks) /\ Len(new) = Len(tasks) /\ new[n] = top
        /\ \A j \in 1 .. n - 1 : new[j] = tasks[j]
    BY <1>1, <2>1, <2>2, TopReplaced
  <2> HIDE DEF new
  <2>4. tasks' = new BY <1>4 DEF new, n
  <2> QED BY <2>3, <2>4 DEF n
<1> QED BY <1>3, <1>5, TopOnly

LEMMA StepKeeps == ASSUME Inv, [Next]_vars PROVE Inv'
<1>1. tasks \in Seq(Tasks) BY DEF Inv
<1>2. CASE push BY <1>2, PushKeeps
<1>3. CASE pop BY <1>3, PopKeeps
<1>4. CASE advance
  <2> DEFINE top == tasks[Len(tasks)]
  <2>1. top \in Tasks BY <1>1, <1>4 DEF advance
  <2>2. [top EXCEPT !.pos = @ + 1] = [top EXCEPT !.pos = top.pos + 1, !.width = top.width]
    BY <2>1 DEF Tasks
  <2>3. top.pos + 1 \in Nat /\ top.width \in Int BY <2>1 DEF Tasks
  <2> QED BY <1>4, <2>2, <2>3, TopKeeps DEF advance
<1>5. ASSUME NEW offset \in {-1, 1}, adjust_width(offset) PROVE Inv'
  <2> DEFINE top == tasks[Len(tasks)]
  <2>1. top \in Tasks BY <1>1, <1>5 DEF adjust_width
  <2>2. [top EXCEPT !.width = @ + offset] = [top EXCEPT !.pos = top.pos, !.width = top.width + offset]
    BY <2>1 DEF Tasks
  <2>3. top.pos \in Nat /\ top.width + offset \in Int BY <2>1 DEF Tasks
  <2> QED BY <1>5, <2>2, <2>3, TopKeeps DEF adjust_width
<1>6. ASSUME NEW width \in 0..MaxWidth, set_width(width) PROVE Inv'
  <2> DEFINE top == tasks[Len(tasks)]
  <2>1. top \in Tasks BY <1>1, <1>6 DEF set_width
  <2>2. [top EXCEPT !.width = width] = [top EXCEPT !.pos = top.pos, !.width = width]
    BY <2>1 DEF Tasks
  <2>3. top.pos \in Nat /\ width \in Int BY <2>1 DEF Tasks
  <2> QED BY <1>6, <2>2, <2>3, TopKeeps DEF set_width
<1>7. CASE Fail BY <1>7 DEF Fail, Inv, Remembered
<1>8. CASE UNCHANGED vars BY <1>8 DEF vars, Inv, Remembered
<1> QED BY <1>2, <1>3, <1>4, <1>5, <1>6, <1>7, <1>8 DEF Next

LEMMA StartHolds == Init => Inv
<1> SUFFICES ASSUME Init PROVE Inv OBVIOUS
<1>1. Task(0, 0, 0, 0) \in Tasks BY DEF Task, Tasks
<1> QED BY <1>1 DEF Init, Inv, Remembered

(* Whatever is pushed, popped, advanced and widened, what a task remembers  *)
(* is what the tasks below it show.                                         *)
THEOREM SummaryIsRemembered == Spec => []Remembered
<1>1. Init => Inv BY StartHolds
<1>2. Inv /\ [Next]_vars => Inv' BY StepKeeps
<1>3. Inv => Remembered BY DEF Inv
<1> QED BY <1>1, <1>2, <1>3, PTL DEF Spec

(* A push leaves what is shown as it is, and a pop brings back what was     *)
(* shown at the push that made the task.                                    *)
THEOREM PopRestores == Spec => PushAndPopRestore
<1> DEFINE Restored ==
      /\ Len(tasks') > Len(tasks) => Shown(tasks') = Shown(tasks)
      /\ Len(tasks') < Len(tasks) /\ Len(tasks) > 1 =>
           Shown(tasks') = <<tasks[Len(tasks)].num, tasks[Len(tasks)].den>>
<1>1. ASSUME Inv, [Next]_vars PROVE [Restored]_vars
  <2>1. tasks \in Seq(Tasks) /\ Len(tasks) \in Nat BY <1>1 DEF Inv
  <2>2. CASE push
    <3> DEFINE new == Task(0, 0, PosOf(tasks), WidthOf(tasks))
    <3>1. new \in Tasks BY <2>1, ShownType DEF Task, Tasks
    <3>2. tasks' = Append(tasks, new) BY <2>2 DEF push, Pushed
    <3>3. /\ new.pos = 0 /\ new.num = PosOf(tasks) /\ new.den = WidthOf(tasks)
          /\ Scale(new) = 1
      BY DEF Task, Scale
    <3> HIDE DEF new
    <3>4. Len(tasks') = Len(tasks) + 1 /\ tasks'[Len(tasks')] = new /\ tasks' # <<>>
      BY <2>1, <3>1, <3>2, AppendProperties
    <3>5. PosOf(tasks) \in Int /\ WidthOf(tasks) \in Int BY <2>1, ShownType
    <3>6. CASE tasks = <<>>
      <4>1. PosOf(tasks) = 0 /\ WidthOf(tasks) = 0 BY <3>6 DEF PosOf, WidthOf
      <4>2. new.width = 0
        BY DEF new, Task
      <4> QED BY <2>1, <3>3, <3>4, <3>6, <4>1, <4>2 DEF PosOf, WidthOf, Shown
    <3>7. CASE Len(tasks) > 0
      BY <2>1, <3>3, <3>4, <3>5, <3>7 DEF PosOf, WidthOf, Shown
    <3> QED BY <2>1, <3>4, <3>6, <3>7
  <2>3. CASE pop
    <3>1. tasks' = SubSeq(tasks, 1, Len(tasks) - 1) BY <2>3 DEF pop
    <3>2. Len(tasks) > 0 /\ Len(tasks') = Len(tasks) - 1
      BY <2>1, <2>3, <3>1, AllButLast DEF pop
    <3>3. Len(tasks) > 1 => Len(tasks) \in 2..Len(tasks) BY <2>1
    <3> QED BY <1>1, <2>1, <3>1, <3>2, <3>3 DEF Inv, Remembered, Shown
  <2>4. CASE advance BY <2>1, <2>4 DEF advance
  <2>5. ASSUME NEW offset \in {-1, 1}, adjust_width(offset) PROVE Restored
    BY <2>1, <2>5 DEF adjust_width
  <2>6. ASSUME NEW width \in 0..MaxWidth, set_width(width) PROVE Restored
    BY <2>1, <2>6 DEF set_width
  <2>7. CASE Fail BY <2>1, <2>7 DEF Fail
  <2> QED BY <1>1, <2>2, <2>3, <2>4, <2>5, <2>6, <2>7 DEF Next
<1>2. Spec => []Inv BY StartHolds, StepKeeps, PTL DEF Spec
<1>3. Spec => [][Restored]_vars BY <1>1, <1>2, PTL DEF Spec
<1> QED BY <1>3 DEF PushAndPopRestore

-----------------------------------------------------------------------------
(* The range a task works in. By induction on the tasks from it to the top. *)

(* Multiplication by a number that is not negative keeps the order.         *)
LEMMA Scaled ==
  ASSUME NEW a \in Int, NEW b \in Int, NEW c \in Nat, a <= b
  PROVE  a * c <= b * c
<1>1. (b - a) * c >= 0 OBVIOUS
<1>2. (b - a) * c = b * c - a * c OBVIOUS
<1>3. a * c \in Int /\ b * c \in Int OBVIOUS
<1> QED BY <1>1, <1>2, <1>3

(* A task of `scale` steps, `pos` of which are done, in the place of one    *)
(* step: with the whole at p of w before, and p/w not behind n/d, it is not *)
(* after.                                                                   *)
LEMMA NotBehind ==
  ASSUME NEW n \in Int, NEW d \in Nat, NEW p \in Int, NEW w \in Int,
         NEW scale \in Nat, NEW pos \in Nat,
         n * w <= p * d
  PROVE  n * (w * scale) <= (p * scale + pos) * d
<1>1. n * w \in Int /\ p * d \in Int /\ pos * d \in Nat /\ p * scale \in Int OBVIOUS
<1>2. (n * w) * scale <= (p * d) * scale BY <1>1, Scaled
<1>3. (n * w) * scale = n * (w * scale) OBVIOUS
<1>4. (p * d) * scale = (p * scale) * d OBVIOUS
<1>5. (p * scale + pos) * d = (p * scale) * d + pos * d BY <1>1
<1>6. (p * scale) * d \in Int /\ n * (w * scale) \in Int OBVIOUS
<1> QED BY <1>1, <1>2, <1>3, <1>4, <1>5, <1>6

(* And if a whole step from p is not beyond (n + 1)/d, neither is any of    *)
(* the task's: `more` is the step that a task on top of it is given.        *)
LEMMA NotBeyond ==
  ASSUME NEW n \in Int, NEW d \in Nat, NEW p \in Int, NEW w \in Int,
         NEW scale \in Nat, NEW pos \in Nat, NEW more \in Nat,
         pos + more <= scale,
         (p + 1) * d <= (n + 1) * w
  PROVE  (p * scale + pos + more) * d <= (n + 1) * (w * scale)
<1>1. p * scale \in Int /\ p * scale + pos + more \in Int /\ (p + 1) * scale \in Int
      /\ (p + 1) * d \in Int /\ (n + 1) * w \in Int OBVIOUS
<1>2. (p + 1) * scale = p * scale + scale OBVIOUS
<1>3. p * scale + pos + more <= (p + 1) * scale BY <1>1, <1>2
<1>4. (p * scale + pos + more) * d <= ((p + 1) * scale) * d BY <1>1, <1>3, Scaled
<1>5. ((p + 1) * d) * scale <= ((n + 1) * w) * scale BY <1>1, Scaled
<1>6. ((p + 1) * scale) * d = ((p + 1) * d) * scale OBVIOUS
<1>7. ((n + 1) * w) * scale = (n + 1) * (w * scale) OBVIOUS
<1>8. (p * scale + pos + more) * d \in Int /\ ((p + 1) * scale) * d \in Int
      /\ (n + 1) * (w * scale) \in Int
  BY <1>1
<1> QED BY <1>4, <1>5, <1>6, <1>7, <1>8

(* What is shown with the tasks up to the k-th, and the step it gives to    *)
(* the one above.                                                           *)
P(k) == PosOf(SubSeq(tasks, 1, k))
W(k) == WidthOf(SubSeq(tasks, 1, k))
Given(k) == IF k < Len(tasks) THEN 1 ELSE 0

LEMMA ShownAt ==
  ASSUME tasks \in Seq(Tasks), NEW k \in 2..Len(tasks)
  PROVE  /\ P(k) = tasks[k].num * Scale(tasks[k]) + tasks[k].pos
         /\ W(k) = tasks[k].den * Scale(tasks[k])
         /\ P(k) \in Int /\ W(k) \in Int
<1>1. k \in 1..Len(tasks) /\ k \in Nat /\ k > 1 OBVIOUS
<1>2. \A j \in 1..k : tasks[j] \in Tasks OBVIOUS
<1> DEFINE s == SubSeq(tasks, 1, k)
<1>3. s \in Seq(Tasks) /\ Len(s) = k /\ s[k] = tasks[k]
  <2>1. s = [j \in 1..k |-> tasks[j]] BY <1>1, SubSeqProperties
  <2>2. /\ s \in Seq(Tasks)
        /\ Len(s) = IF 1 <= k THEN k - 1 + 1 ELSE 0
    BY <1>1, <1>2, SubSeqProperties
  <2>3. Len(s) = k
    <3>1. (IF 1 <= k THEN k - 1 + 1 ELSE 0) = k BY <1>1
    <3>2. Len(s) = IF 1 <= k THEN k - 1 + 1 ELSE 0 BY <2>2
    <3> HIDE DEF s
    <3> QED BY <3>1, <3>2
  <2>4. k \in 1..k BY <1>1
  <2> QED BY <2>1, <2>2, <2>3, <2>4, Zenon
<1> HIDE DEF s
<1>4. s # <<>> BY <1>1, <1>3
<1>5. /\ PosOf(s) = tasks[k].num * Scale(tasks[k]) + tasks[k].pos
      /\ WidthOf(s) = tasks[k].den * Scale(tasks[k])
  BY <1>1, <1>3, <1>4 DEF PosOf, WidthOf
<1>6. PosOf(s) \in Int /\ WidthOf(s) \in Int BY <1>3, ShownType
<1> QED BY <1>5, <1>6 DEF P, W, s

(* A task within its width: its scale, and what it leaves to the one above. *)
LEMMA ScaleOf ==
  ASSUME tasks \in Seq(Tasks), NEW k \in 2..Len(tasks), InWidth(k)
  PROVE  /\ Scale(tasks[k]) \in Nat
         /\ Given(k) \in Nat
         /\ tasks[k].pos + Given(k) <= Scale(tasks[k])
<1>1. tasks[k] \in Tasks OBVIOUS
<1>2. tasks[k].pos \in Nat /\ tasks[k].width \in Int BY <1>1 DEF Tasks
<1> QED BY <1>2 DEF InWidth, Scale, Given

(* The whole at the k-th task is within the step that the i-th was given.   *)
Within(i, k) ==
    /\ tasks[i].num * W(k) <= P(k) * tasks[i].den
    /\ (P(k) + Given(k)) * tasks[i].den <= (tasks[i].num + 1) * W(k)

LEMMA WithinFirst ==
  ASSUME Inv, NEW i \in 2..Len(tasks), InWidth(i), tasks[i].den > 0
  PROVE  Within(i, i)
<1> DEFINE n == tasks[i].num
           d == tasks[i].den
           scale == Scale(tasks[i])
           pos == tasks[i].pos
<1>1. tasks \in Seq(Tasks) BY DEF Inv
<1>2. tasks[i] \in Tasks BY <1>1
<1>3. n \in Int /\ d \in Nat /\ pos \in Nat BY <1>2 DEF Tasks
<1>4. scale \in Nat /\ Given(i) \in Nat /\ pos + Given(i) <= scale BY <1>1, ScaleOf
<1>5. P(i) = n * scale + pos /\ W(i) = d * scale BY <1>1, ShownAt
<1> HIDE DEF n, d, scale, pos
<1>6. n * d <= n * d /\ (n + 1) * d <= (n + 1) * d BY <1>3
<1>7. n * (d * scale) <= (n * scale + pos) * d BY <1>3, <1>4, <1>6, NotBehind
<1>8. (n * scale + pos + Given(i)) * d <= (n + 1) * (d * scale)
  BY <1>3, <1>4, <1>6, NotBeyond
<1> QED BY <1>5, <1>7, <1>8 DEF Within, n, d

LEMMA WithinNext ==
  ASSUME Inv, NEW i \in 2..Len(tasks), NEW k \in i .. Len(tasks) - 1,
         InWidth(k + 1), tasks[i].den > 0, Within(i, k)
  PROVE  Within(i, k + 1)
<1> DEFINE n == tasks[i].num
           d == tasks[i].den
           scale == Scale(tasks[k + 1])
           pos == tasks[k + 1].pos
<1>1. tasks \in Seq(Tasks) BY DEF Inv
<1>2. k \in 2..Len(tasks) /\ k + 1 \in 2..Len(tasks) /\ k < Len(tasks) BY <1>1
<1>3. tasks[i] \in Tasks /\ tasks[k + 1] \in Tasks BY <1>1, <1>2
<1>4. n \in Int /\ d \in Nat /\ pos \in Nat BY <1>3 DEF Tasks
<1>5. scale \in Nat /\ Given(k + 1) \in Nat /\ pos + Given(k + 1) <= scale
  BY <1>1, <1>2, ScaleOf
<1>6. P(k) \in Int /\ W(k) \in Int BY <1>1, <1>2, ShownAt
<1>7. P(k + 1) = P(k) * scale + pos /\ W(k + 1) = W(k) * scale
  <2>1. k + 1 - 1 = k BY <1>2
  <2>2. tasks[k + 1].num = P(k) /\ tasks[k + 1].den = W(k)
    BY <1>2, <2>1, Recalls DEF P, W
  <2>3. /\ P(k + 1) = tasks[k + 1].num * scale + pos
        /\ W(k + 1) = tasks[k + 1].den * scale
    BY <1>1, <1>2, ShownAt
  <2> QED BY <2>2, <2>3
<1>8. n * W(k) <= P(k) * d /\ (P(k) + 1) * d <= (n + 1) * W(k)
  <2>1. Given(k) = 1 BY <1>2 DEF Given
  <2> QED BY <2>1 DEF Within
<1> HIDE DEF n, d, scale, pos
<1>9. n * (W(k) * scale) <= (P(k) * scale + pos) * d
  BY <1>4, <1>5, <1>6, <1>8, NotBehind
<1>10. (P(k) * scale + pos + Given(k + 1)) * d <= (n + 1) * (W(k) * scale)
  BY <1>4, <1>5, <1>6, <1>8, NotBeyond
<1> QED BY <1>7, <1>9, <1>10 DEF Within, n, d

LEMMA WithinAll == Inv => WithinTheStep
<1> SUFFICES ASSUME Inv, NEW i \in 2..Len(tasks),
                    \A j \in i..Len(tasks) : InWidth(j), tasks[i].den > 0
             PROVE  /\ tasks[i].num * WidthOf(tasks) <= PosOf(tasks) * tasks[i].den
                    /\ PosOf(tasks) * tasks[i].den <= (tasks[i].num + 1) * WidthOf(tasks)
  BY DEF WithinTheStep
<1>1. tasks \in Seq(Tasks) /\ Len(tasks) \in Nat /\ i \in Nat /\ i <= Len(tasks) BY DEF Inv
<1> DEFINE A == {m \in Nat : i + m <= Len(tasks) => Within(i, i + m)}
<1>2. A = Nat
  <2>1. 0 \in A
    <3>1. InWidth(i) BY <1>1
    <3>2. Within(i, i) BY <3>1, WithinFirst
    <3>3. i + 0 = i BY <1>1
    <3> QED BY <3>2, <3>3
  <2>2. ASSUME NEW m \in A PROVE m + 1 \in A
    <3> SUFFICES ASSUME i + (m + 1) <= Len(tasks) PROVE Within(i, i + (m + 1))
      OBVIOUS
    <3>1. m \in Nat /\ i + m \in i .. Len(tasks) - 1 /\ (i + m) + 1 \in i..Len(tasks)
      BY <1>1
    <3>2. Within(i, i + m) BY <1>1, <3>1
    <3>3. i + (m + 1) = (i + m) + 1 BY <1>1, <3>1
    <3>4. InWidth((i + m) + 1) BY <3>1
    <3>5. Within(i, (i + m) + 1) BY <3>1, <3>2, <3>4, WithinNext
    <3> QED BY <3>3, <3>5
  <2>3. A \in SUBSET Nat OBVIOUS
  <2> HIDE DEF A
  <2> QED BY <2>1, <2>2, <2>3, Numbers!Inductive
<1>3. Within(i, Len(tasks))
  <2>1. Len(tasks) - i \in A
    <3>1. Len(tasks) - i \in Nat BY <1>1
    <3> HIDE DEF A
    <3> QED BY <1>2, <3>1
  <2>2. i + (Len(tasks) - i) = Len(tasks) BY <1>1
  <2> QED BY <1>1, <2>1, <2>2
<1>4. SubSeq(tasks, 1, Len(tasks)) = tasks BY <1>1, SubSeqProperties
<1>5. P(Len(tasks)) = PosOf(tasks) /\ W(Len(tasks)) = WidthOf(tasks) BY <1>4 DEF P, W
<1>6. PosOf(tasks) + Given(Len(tasks)) = PosOf(tasks)
  <2>1. PosOf(tasks) \in Int BY <1>1, ShownType
  <2> QED BY <1>1, <2>1 DEF Given
<1> QED BY <1>3, <1>5, <1>6 DEF Within

(* From a push on, and however deep others are on top of it, the whole is   *)
(* never behind where it was and at most one step of the width it had then  *)
(* ahead.                                                                   *)
THEOREM SpecWithinTheStep == Spec => []WithinTheStep
<1>1. Spec => []Inv BY StartHolds, StepKeeps, PTL DEF Spec
<1> QED BY <1>1, WithinAll, PTL
=============================================================================
