------------------------------ MODULE Progress ------------------------------
(***************************************************************************)
(* ProgressModel: nested progress. A step of an operation may be one with  *)
(* steps of its own; what is shown is the progress of the whole, of which  *)
(* every task remembers how far it was when the task was pushed.           *)
(***************************************************************************)
EXTENDS Integers, Sequences, SequencesExt

CONSTANTS
    MaxTasks,       \* how many tasks there may be at a time
    MaxPos,         \* how often a task is advanced
    MaxWidth        \* how wide it is, or, adjusted below zero, less than none

ASSUME ProgressAssumption == MaxTasks \in Nat /\ MaxPos \in Nat /\ MaxWidth \in Nat

VARIABLES
    tasks,          \* _tasks
    raised          \* whether a call raised IndexError
vars == <<tasks, raised>>

Task(pos, width, num, den) == [pos |-> pos, width |-> width, num |-> num, den |-> den]

-----------------------------------------------------------------------------
(* What is shown for a stack of tasks: how far the whole is, and how wide.  *)

(* `task[1] or 1`                                                           *)
Scale(task) == IF task.width = 0 THEN 1 ELSE task.width

(* Mutant of PosOf: the progress of the whole is not scaled up.             *)
PosOfUnscaled(stack) ==
    IF stack = <<>> THEN 0 ELSE
    LET task == stack[Len(stack)]
    IN  (IF Len(stack) > 1 THEN task.num ELSE 0) + task.pos

PosOf(stack) ==
    IF stack = <<>> THEN 0 ELSE
    LET task == stack[Len(stack)]
    IN  (IF Len(stack) > 1 THEN task.num * Scale(task) ELSE 0) + task.pos

WidthOf(stack) ==
    IF stack = <<>> THEN 0 ELSE
    LET task == stack[Len(stack)]
    IN  IF Len(stack) > 1 THEN task.den * Scale(task) ELSE task.width

Init == tasks = <<Task(0, 0, 0, 0)>> /\ raised = FALSE

(* Mutant of Pushed: the width is taken for that of the task alone.         *)
PushedOwn(stack) ==
    Append(stack, Task(0, 0, PosOf(stack), IF stack = <<>> THEN 0 ELSE stack[Len(stack)].width))

Pushed(stack) == Append(stack, Task(0, 0, PosOf(stack), WidthOf(stack)))

push ==
    /\ ~raised /\ Len(tasks) < MaxTasks
    /\ tasks' = Pushed(tasks)
    /\ UNCHANGED raised

(* Mutant of pop: a task that is done counts as a step.                     *)
popAndAdvance ==
    /\ ~raised /\ tasks # <<>>
    /\ tasks' = IF Len(tasks) = 1 THEN <<>>
                ELSE [SubSeq(tasks, 1, Len(tasks) - 1) EXCEPT ![Len(tasks) - 1].pos = @ + 1]
    /\ UNCHANGED raised

pop ==
    /\ ~raised /\ tasks # <<>>
    /\ tasks' = SubSeq(tasks, 1, Len(tasks) - 1)
    /\ UNCHANGED raised

advance ==
    /\ ~raised /\ tasks # <<>> /\ tasks[Len(tasks)].pos < MaxPos
    /\ tasks' = [tasks EXCEPT ![Len(tasks)].pos = @ + 1]
    /\ UNCHANGED raised

adjust_width(offset) ==
    /\ ~raised /\ tasks # <<>>
    /\ tasks[Len(tasks)].width + offset \in -MaxWidth..MaxWidth
    /\ tasks' = [tasks EXCEPT ![Len(tasks)].width = @ + offset]
    /\ UNCHANGED raised

set_width(width) ==
    /\ ~raised /\ tasks # <<>>
    /\ tasks' = [tasks EXCEPT ![Len(tasks)].width = width]
    /\ UNCHANGED raised

(* Any of them but push, with no task left. The base task may be popped.    *)
Fail ==
    /\ ~raised /\ tasks = <<>>
    /\ raised' = TRUE
    /\ UNCHANGED tasks

Next ==
    \/ push \/ pop \/ advance \/ Fail
    \/ \E offset \in {-1, 1} : adjust_width(offset)
    \/ \E width \in 0..MaxWidth : set_width(width)

Spec == Init /\ [][Next]_vars

-----------------------------------------------------------------------------
(* Properties.                                                              *)

(* What a task remembers is what the tasks below it show, and goes on to be *)
(* so: those do not change under it, and the sum over the whole stack can   *)
(* be had from the top alone.                                               *)
Remembered ==
    \A i \in 2..Len(tasks) :
      LET below == SubSeq(tasks, 1, i - 1)
      IN  tasks[i].num = PosOf(below) /\ tasks[i].den = WidthOf(below)

(* "Calls to adjust_width, advance, set_width will only alter the progress  *)
(* within the range that calling 'advance' would have before": from when a  *)
(* task is pushed, and however deep others are on top of it, the whole is   *)
(* never behind where it was and at most one step of the width it had then  *)
(* ahead. Unless a task has gone beyond its width (or has no steps left for *)
(* the task pushed on it), or its width is negative.                        *)
InWidth(i) ==
    /\ tasks[i].width >= 0
    /\ tasks[i].pos <= Scale(tasks[i]) - (IF i < Len(tasks) THEN 1 ELSE 0)
WithinTheStep ==
    \A i \in 2..Len(tasks) :
      (\A j \in i..Len(tasks) : InWidth(j)) /\ tasks[i].den > 0 =>
        /\ tasks[i].num * WidthOf(tasks) <= PosOf(tasks) * tasks[i].den
        /\ PosOf(tasks) * tasks[i].den <= (tasks[i].num + 1) * WidthOf(tasks)

(* push does not change the progress of the whole, and pop brings back what *)
(* it was at the push that made the task, whatever has been done since.     *)
Shown(stack) == <<PosOf(stack), WidthOf(stack)>>
PushAndPopRestore ==
    [][/\ Len(tasks') > Len(tasks) => Shown(tasks') = Shown(tasks)
       /\ Len(tasks') < Len(tasks) /\ Len(tasks) > 1 =>
            Shown(tasks') = <<tasks[Len(tasks)].num, tasks[Len(tasks)].den>>]_vars
=============================================================================
