-------------------------------- MODULE Tap ---------------------------------
(***************************************************************************)
(* TAP2SubUnit: a filter from the output of a TAP script to status() calls.*)
(* A test is held until the next one begins, so that the comments after it *)
(* can be sent with it; tests the script has not run are made up from the  *)
(* numbers of the others and from the plan. Lines are known by their place *)
(* in the script's output, wording and descriptions are left out.          *)
(***************************************************************************)
EXTENDS Sequences, Naturals, FiniteSets

CONSTANTS
    MaxLines,       \* how much the script prints
    MaxTest         \* the largest number it gives to a test

None == 0

(* What a script may print. `number` is None when there is none, `directive`*)
(* is "none", "todo" or "skip", `comment` is whether one follows the plan   *)
(* or the directive. The last line may have no newline.                     *)
Plans ==
    [kind : {"plan"}, ok : {TRUE}, number : 0..MaxTest, directive : {"none"}, comment : BOOLEAN]
Tests ==
    [kind : {"test"}, ok : BOOLEAN, number : 0..MaxTest, directive : {"none"}, comment : {FALSE}]
      \cup [kind : {"test"}, ok : {FALSE}, number : {None}, directive : {"todo", "skip"},
            comment : BOOLEAN]
Others ==
    [kind : {"bail", "comment", "other"}, ok : {TRUE}, number : {None}, directive : {"none"},
     comment : {FALSE}]
Lines == Plans \cup Tests \cup Others

VARIABLES
    lines,          \* history: the lines read
    pc,             \* "reading", "done" or "raised"
    state,          \* "before_plan", "after_plan" or "skip_stream"
    plan_start, plan_stop,
    test,           \* test_name and result, in a sequence: empty when there is none
    log,            \* the comments held, by line
    events          \* the status() calls
vars == <<lines, pc, state, plan_start, plan_stop, test, log, events>>

ASSUME BoundsAssumption == MaxLines \in Nat /\ MaxTest \in Nat

Init ==
    /\ lines = <<>> /\ pc = "reading" /\ state = "before_plan"
    /\ plan_start = 1 /\ plan_stop = 0
    /\ test = <<>> /\ log = <<>> /\ events = <<>>

Number == Len(lines) + 1

(* A line without a newline matches no pattern: it is an "other" one.       *)
Read(line) ==
    /\ pc = "reading" /\ Len(lines) < MaxLines
    /\ lines' = Append(lines, line)

Event(kind, number, result, line, comments) ==
    [kind |-> kind, number |-> number, result |-> result, line |-> line, log |-> comments]

(* missing_test, for the tests from plan_start on that come before `to`.    *)
Missing(to) ==
    [i \in 1..IF to > plan_start THEN to - plan_start ELSE 0 |->
       Event("missing", plan_start + i - 1, "fail", 0, <<>>)]

(* _emit_test: what it sends, and what it leaves of the log.                *)
Emitted == IF test = <<>> THEN <<>> ELSE <<[test[1] EXCEPT !.log = log]>>
LogLeft == IF test = <<>> THEN log ELSE <<>>

(* `1..0` skips the file; a plan that does so without a comment raises.     *)
ReadPlan(line) ==
    /\ line.kind = "plan" /\ state = "before_plan"
    /\ Read(line)
    /\ plan_stop' = line.number
    /\ IF line.number # 0 THEN state' = "after_plan" /\ UNCHANGED <<pc, events>>
       ELSE /\ state' = "skip_stream"
            /\ IF line.comment
                 THEN /\ events' = Append(events, Event("file skip", 0, "skip", Number, <<Number>>))
                      /\ UNCHANGED pc
                 ELSE pc' = "raised" /\ UNCHANGED events
    /\ UNCHANGED <<plan_start, test, log>>

Result(line) ==
    CASE line.directive = "todo" -> "xfail"
      [] line.directive = "skip" -> "skip"
      [] OTHER -> IF line.ok THEN "success" ELSE "fail"

Later(line) == IF line.number > plan_start THEN line.number ELSE plan_start

(* Mutant of ReadTest: the comment of a directive is logged before the test *)
(* before it is sent.                                                       *)
ReadTestComment(line) ==
    /\ line.kind = "test"
    /\ Read(line)
    /\ LET said == IF line.comment THEN <<Number>> ELSE <<>>
       IN  /\ events' = (IF test = <<>> THEN events
                         ELSE Append(events, [test[1] EXCEPT !.log = log \o said]))
                          \o Missing(line.number)
           /\ log' = IF test = <<>> THEN log \o said ELSE <<>>
    /\ test' = <<Event("test", Later(line), Result(line), Number, <<>>)>>
    /\ plan_start' = Later(line) + 1
    /\ UNCHANGED <<pc, state, plan_stop>>

(* Mutant of ReadTest: the test has the number of the one before it.        *)
ReadTestEarly(line) ==
    /\ line.kind = "test"
    /\ Read(line)
    /\ events' = events \o Emitted \o Missing(line.number)
    /\ log' = LogLeft \o (IF line.comment THEN <<Number>> ELSE <<>>)
    /\ test' = <<Event("test", plan_start, Result(line), Number, <<>>)>>
    /\ plan_start' = Later(line) + 1
    /\ UNCHANGED <<pc, state, plan_stop>>

(* The test before is sent, then those that are missing before this one,    *)
(* whose own number counts only when it is larger than what it should be.   *)
ReadTest(line) ==
    /\ line.kind = "test"
    /\ Read(line)
    /\ events' = events \o Emitted \o Missing(line.number)
    /\ log' = LogLeft \o (IF line.comment THEN <<Number>> ELSE <<>>)
    /\ test' = <<Event("test", Later(line), Result(line), Number, <<>>)>>
    /\ plan_start' = Later(line) + 1
    /\ UNCHANGED <<pc, state, plan_stop>>

(* A test of its own; what follows is read all the same.                    *)
ReadBail(line) ==
    /\ line.kind = "bail"
    /\ Read(line)
    /\ events' = events \o Emitted /\ log' = LogLeft
    /\ test' = <<Event("bail", 0, "fail", Number, <<>>)>>
    /\ state' = "skip_stream"
    /\ UNCHANGED <<pc, plan_start, plan_stop>>

ReadComment(line) ==
    /\ line.kind = "comment"
    /\ Read(line)
    /\ log' = Append(log, Number)
    /\ UNCHANGED <<pc, state, plan_start, plan_stop, test, events>>

(* Anything else, a second plan as well, is sent at once.                   *)
ReadOther(line) ==
    /\ line.kind = "plan" => state # "before_plan"
    /\ line.kind \in {"other", "plan"}
    /\ Read(line)
    /\ events' = Append(events, Event("stdout", 0, "none", Number, <<>>))
    /\ UNCHANGED <<pc, state, plan_start, plan_stop, test, log>>

(* Mutant of End: the last test of the plan is left out.                    *)
EndEarly ==
    /\ pc = "reading" /\ pc' = "done"
    /\ events' = events \o Emitted \o Missing(plan_stop)
    /\ log' = LogLeft
    /\ plan_start' = IF plan_start > plan_stop THEN plan_start ELSE plan_stop
    /\ UNCHANGED <<lines, state, plan_stop, test>>

End ==
    /\ pc = "reading" /\ pc' = "done"
    /\ events' = events \o Emitted \o Missing(plan_stop + 1)
    /\ log' = LogLeft
    /\ plan_start' = IF plan_start > plan_stop THEN plan_start ELSE plan_stop + 1
    /\ UNCHANGED <<lines, state, plan_stop, test>>

ReadLine(line) ==
    \/ ReadPlan(line) \/ ReadTest(line) \/ ReadBail(line)
    \/ ReadComment(line) \/ ReadOther(line)

Next == End \/ \E line \in Lines : ReadLine(line)

Spec == Init /\ [][Next]_vars

-----------------------------------------------------------------------------
(* Properties.                                                              *)

(* The calls made, and the test that is held as the call it will be.        *)
Calls == events \o (IF pc = "done" \/ test = <<>> THEN <<>> ELSE <<[test[1] EXCEPT !.log = log]>>)
CallsOf(kinds) == {i \in DOMAIN Calls : Calls[i].kind \in kinds}
LinesOf(kinds) == {n \in DOMAIN lines : lines[n].kind \in kinds}

(* The tests are numbered from 1 on with none left out, those the script    *)
(* has not run are failures in their place, and at the end of the script    *)
(* all that were planned are there.                                         *)
NumberedInOrder ==
    LET numbered == CallsOf({"test", "missing"})
    IN  /\ \A i, j \in numbered : i < j => Calls[i].number < Calls[j].number
        /\ {Calls[i].number : i \in numbered} = 1 .. plan_start - 1
        /\ pc = "done" => plan_start > plan_stop

(* The tests the script gives a number, and how far it has counted before   *)
(* test n: each goes on from the one before it, and from the number that    *)
(* one was given.                                                           *)
Numbered == {n \in LinesOf({"test"}) : lines[n].number # None}
TestsBetween(m, n) == Cardinality({t \in LinesOf({"test"}) : m < t /\ t < n})
CountedFrom(m, n) == (IF m = 0 THEN 0 ELSE lines[m].number) + TestsBetween(m, n)
GoesUp ==
    \A n \in Numbered : \A m \in Numbered \cup {0} :
      m < n => lines[n].number > CountedFrom(m, n)

(* A test has the number the script gives it, as long as the script's       *)
(* numbers go up, however many it leaves out or does not write.             *)
NumbersAsGiven ==
    GoesUp => \A i \in CallsOf({"test"}) :
      Calls[i].line \in Numbered => Calls[i].number = lines[Calls[i].line].number

(* The comments, and the test a comment is about: the last one that has     *)
(* begun, and for those before the first test the first.                    *)
Said(n) == lines[n].kind = "comment" \/ (lines[n].kind = "test" /\ lines[n].comment)
About(n, line) ==
    LET begun == LinesOf({"test", "bail"})
    IN  \/ line <= n /\ \A m \in begun : m <= n => m <= line
        \/ n < line /\ \A m \in begun : line <= m

(* Every test is sent once, in its turn, with its own result and all of the *)
(* comments about it, in their order.                                       *)
SentWithItsComments ==
    LET tests == CallsOf({"test", "bail"})
    IN  /\ {Calls[i].line : i \in tests} = LinesOf({"test", "bail"})
        /\ \A i, j \in tests : i < j => Calls[i].line < Calls[j].line
        /\ \A i \in tests :
             LET call == Calls[i]
             IN  /\ call.kind = "test" => call.result = Result(lines[call.line])
                 /\ \A a, b \in DOMAIN call.log : a < b => call.log[a] < call.log[b]
                 /\ {call.log[a] : a \in DOMAIN call.log} =
                      {n \in DOMAIN lines : Said(n) /\ About(n, call.line)}
=============================================================================
