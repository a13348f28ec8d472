------------------------------- MODULE Filter -------------------------------
(***************************************************************************)
(* TestResultFilter: a TestResult that passes on the tests that are wanted *)
(* and drops the others. Whether a test is wanted is known at its outcome, *)
(* so _PredicateFilter holds the calls of a test back until it stops; tags *)
(* outside tests, times and progress go on at once. Below it two more      *)
(* decorators collapse runs of times and of tags before the client is told.*)
(***************************************************************************)
EXTENDS Sequences, Naturals, SequencesExt

CONSTANTS
    Tests, Tags,
    Outcomes,       \* the outcomes the tests report
    Updates,        \* what one tags() call may add and remove
    Times,          \* what time() may be called with
    Options,        \* how the filter may be set up
    MaxTests,       \* how many tests there are
    MaxOther        \* and how many calls of tags, time and progress

None == 0
Update(new, gone) == [new |-> new, gone |-> gone]
NoUpdate == Update({}, {})

VARIABLES
    options,            \* the outcomes and tags left out, and the tests expected to fail
    calls,              \* history: the calls of the filter
    global_tags, test_tags,     \* of _PredicateFilter; test_tags is <<>> for None
    current_test,       \* the number of its startTest() call, or None
    filtered,           \* _current_test_filtered
    buffered_calls,
    down                \* the decorators below, and the client: see Below
vars == <<options, calls, global_tags, test_tags, current_test, filtered, buffered_calls, down>>

(* `received` and `sent` are the times of TimeCollapsingDecorator, `tags`   *)
(* what TagCollapsingDecorator holds, `events` the client's calls.          *)
Below == [received |-> None, sent |-> None, tags |-> NoUpdate, events |-> <<>>]

ASSUME BoundsAssumption ==
    /\ MaxTests \in Nat /\ MaxOther \in Nat
    /\ Times \subseteq Nat \ {None}
    /\ \A u \in Updates : u.new \cap u.gone = {} /\ u.new \cup u.gone \subseteq Tags

Init ==
    /\ options \in Options /\ calls = <<>>
    /\ global_tags = NoUpdate /\ test_tags = <<>>
    /\ current_test = None /\ filtered = FALSE /\ buffered_calls = <<>>
    /\ down = Below

(* A call, with the number of the startTest() of the test it is about.      *)
Call(kind, test, arg) == [kind |-> kind, test |-> test, arg |-> arg]
Number == Len(calls) + 1
Note(call) == calls' = Append(calls, call)

-----------------------------------------------------------------------------
(* Tags.                                                                    *)

(* TagsMixin.tags, of the scope that is current                             *)
Add(scope, u) ==
    Update((scope.new \cup u.new) \ u.gone, (scope.gone \cup u.gone) \ u.new)

ActiveTags ==
    IF test_tags = <<>> THEN global_tags.new
    ELSE (global_tags.new \ test_tags[1].gone) \cup test_tags[1].new

-----------------------------------------------------------------------------
(* The decorators below. TagCollapsingDecorator has one scope of tags: the  *)
(* startTest it inherits is not the one of TagsMixin.                       *)

Flush(d) ==
    IF d.tags = NoUpdate THEN d
    ELSE [d EXCEPT !.events = Append(@, Call("tags", None, d.tags)), !.tags = NoUpdate]
Tell(d, call) == [Flush(d) EXCEPT !.events = Append(@, call)]

TellTime(d, time) == [Tell(d, Call("time", None, time)) EXCEPT !.sent = time]

(* Mutant of CatchUp: the last of several times is forgotten.               *)
CatchUpNever(d) == [d EXCEPT !.received = None]

(* TimeCollapsingDecorator, before an event that is not a time              *)
CatchUp(d) ==
    IF d.received = None THEN d
    ELSE [(IF d.received = d.sent THEN d ELSE TellTime(d, d.received))
            EXCEPT !.received = None]

(* Any call of the decorators.                                              *)
Down(d, call) ==
    CASE call.kind = "tags" -> [d EXCEPT !.tags = Add(@, call.arg)]
      [] call.kind = "time" ->
           [(IF d.received = None THEN TellTime(d, call.arg) ELSE d) EXCEPT !.received = call.arg]
      [] OTHER -> Tell(CatchUp(d), call)

DownAll(d, held) == FoldLeft(Down, d, held)

-----------------------------------------------------------------------------
(* The filter.                                                              *)

Others == Len(SelectSeq(calls, LAMBDA c : c.kind \in {"tags", "time", "progress"}))

StartTest(test) ==
    /\ current_test = None
    /\ Len(SelectSeq(calls, LAMBDA c : c.kind = "startTest")) < MaxTests
    /\ Note(Call("startTest", Number, test))
    /\ test_tags' = <<NoUpdate>>
    /\ current_test' = Number /\ filtered' = FALSE
    /\ buffered_calls' = Append(buffered_calls, Call("startTest", Number, test))
    /\ UNCHANGED <<options, global_tags, down>>

(* TestResultFilter.addError, addFailure, addSuccess: what becomes of the   *)
(* outcome of a test that is expected to fail.                              *)
Fixed(test, outcome) ==
    IF test \notin options.expected THEN outcome
    ELSE IF outcome \in {"error", "failure"} THEN "expectedfailure"
    ELSE IF outcome = "success" THEN "unexpectedsuccess"
    ELSE outcome

(* filter_predicate: an unexpected success is always wanted.                *)
Wanted(outcome, tags) ==
    \/ outcome = "unexpectedsuccess"
    \/ /\ outcome \notin options.outcomes
       /\ options.with_tags \subseteq tags
       /\ options.without_tags \cap tags = {}

AddOutcome(outcome) ==
    /\ current_test # None
    /\ \A i \in current_test..Len(calls) : calls[i].kind # "outcome"
    /\ Note(Call("outcome", current_test, outcome))
    /\ LET fixed == Fixed(calls[current_test].arg, outcome)
       IN  IF Wanted(fixed, ActiveTags)
             THEN /\ buffered_calls' =
                       Append(buffered_calls, Call("outcome", current_test, fixed))
                  /\ UNCHANGED filtered
             ELSE filtered' = TRUE /\ UNCHANGED buffered_calls
    /\ UNCHANGED <<options, global_tags, test_tags, current_test, down>>

(* Mutant of StopTest: the calls of a test that is dropped stay.            *)
StopTestKeep ==
    /\ current_test # None
    /\ \E i \in current_test..Len(calls) : calls[i].kind = "outcome"
    /\ Note(Call("stopTest", current_test, None))
    /\ IF filtered THEN UNCHANGED <<down, buffered_calls>>
       ELSE /\ down' = DownAll(down, Append(buffered_calls, Call("stopTest", current_test, None)))
            /\ buffered_calls' = <<>>
    /\ current_test' = None /\ filtered' = FALSE
    /\ test_tags' = <<>>
    /\ UNCHANGED <<options, global_tags>>

StopTest ==
    /\ current_test # None
    /\ \E i \in current_test..Len(calls) : calls[i].kind = "outcome"
    /\ Note(Call("stopTest", current_test, None))
    /\ down' = IF filtered THEN down
               ELSE DownAll(down, Append(buffered_calls, Call("stopTest", current_test, None)))
    /\ current_test' = None /\ filtered' = FALSE /\ buffered_calls' = <<>>
    /\ test_tags' = <<>>
    /\ UNCHANGED <<options, global_tags>>

(* Mutant of TellTags: the tags of a test are not held back.                *)
TellTagsAtOnce(u) ==
    /\ Others < MaxOther
    /\ Note(Call("tags", None, u))
    /\ IF test_tags = <<>>
         THEN global_tags' = Add(global_tags, u) /\ UNCHANGED test_tags
         ELSE test_tags' = <<Add(test_tags[1], u)>> /\ UNCHANGED global_tags
    /\ down' = Down(down, Call("tags", None, u))
    /\ UNCHANGED <<options, current_test, filtered, buffered_calls>>

TellTags(u) ==
    /\ Others < MaxOther
    /\ Note(Call("tags", None, u))
    /\ IF test_tags = <<>>
         THEN global_tags' = Add(global_tags, u) /\ UNCHANGED test_tags
         ELSE test_tags' = <<Add(test_tags[1], u)>> /\ UNCHANGED global_tags
    /\ IF current_test # None
         THEN buffered_calls' = Append(buffered_calls, Call("tags", None, u)) /\ UNCHANGED down
         ELSE down' = Down(down, Call("tags", None, u)) /\ UNCHANGED buffered_calls
    /\ UNCHANGED <<options, current_test, filtered>>

(* Times and progress go past the calls held back.                          *)
PassOn(call) ==
    /\ Others < MaxOther
    /\ Note(call)
    /\ down' = Down(down, call)
    /\ UNCHANGED <<options, global_tags, test_tags, current_test, filtered, buffered_calls>>

Next ==
    \/ \E test \in Tests : StartTest(test)
    \/ \E outcome \in Outcomes : AddOutcome(outcome)
    \/ StopTest
    \/ \E u \in Updates : TellTags(u)
    \/ \E time \in Times : PassOn(Call("time", None, time))
    \/ PassOn(Call("progress", None, None))

Spec == Init /\ [][Next]_vars

-----------------------------------------------------------------------------
(* Properties.                                                              *)

(* The tags that are on after a sequence of calls, as README tells: those   *)
(* given in a test are on until it stops.                                   *)
NoTags == [all |-> {}, here |-> {}, inside |-> FALSE]
Applied(tags, u) == (tags \ u.gone) \cup u.new
Turn(on, call) ==
    CASE call.kind = "startTest" -> [on EXCEPT !.inside = TRUE, !.here = on.all]
      [] call.kind = "stopTest" -> [on EXCEPT !.inside = FALSE]
      [] call.kind = "tags" ->
           IF on.inside THEN [on EXCEPT !.here = Applied(@, call.arg)]
           ELSE [on EXCEPT !.all = Applied(@, call.arg)]
      [] OTHER -> on
TagsOf(on) == IF on.inside THEN on.here ELSE on.all
TurnAll(on, s) == FoldLeft(Turn, on, s)
TagsOn(s) == TagsOf(TurnAll(NoTags, s))

Before(s, n) == SubSeq(s, 1, n)

(* The calls of a sequence that are about a test, and its last time.        *)
Keep(kept, call) ==
    IF call.kind \in {"startTest", "outcome", "stopTest"} THEN Append(kept, call) ELSE kept
OfTests(s) == FoldLeft(Keep, <<>>, s)
Later(time, call) == IF call.kind = "time" THEN call.arg ELSE time
LastTime(s) == FoldLeft(Later, None, s)

PlaceOf(s, kind, test) == CHOOSE i \in DOMAIN s : s[i].kind = kind /\ s[i].test = test
OutcomeOf(test) == Fixed(calls[test].arg, calls[PlaceOf(calls, "outcome", test)].arg)
TagsAtOutcome(test) == TagsOn(Before(calls, PlaceOf(calls, "outcome", test)))

(* What becomes of the calls of a test that has stopped.                    *)
Passed(test) ==
    IF Wanted(OutcomeOf(test), TagsAtOutcome(test))
      THEN <<Call("startTest", test, calls[test].arg), Call("outcome", test, OutcomeOf(test)),
             Call("stopTest", test, None)>>
    ELSE <<>>

(* The client has every test that has stopped and is wanted, each as one    *)
(* start, outcome and stop, in the order of the run, and nothing of any     *)
(* other test: a test is judged by the tags that are on at its outcome, its *)
(* own and those of the whole run.                                          *)
WantedTestsPass ==
    OfTests(down.events) =
      FlattenSeq([i \in DOMAIN calls |->
                    IF calls[i].kind = "stopTest" THEN Passed(calls[i].test) ELSE <<>>])

Reports == {i \in DOMAIN down.events : down.events[i].kind = "outcome"}

(* A test the client is told of has the tags it had in the run, although    *)
(* tags are collapsed and some are held back with a test: none comes late,  *)
(* and none of a dropped test stays on.                                     *)
TagsArrive ==
    \A i \in Reports :
      TagsOn(Before(down.events, i)) = TagsAtOutcome(down.events[i].test)

(* Times are collapsed, yet when the client is told of an outcome the last  *)
(* time it has is the last one there was when the test stopped.             *)
OutcomesAreTimed ==
    \A i \in Reports :
      LastTime(Before(down.events, i)) =
        LastTime(Before(calls, PlaceOf(calls, "stopTest", down.events[i].test)))
=============================================================================
