----------------------------- MODULE V1TestRun ------------------------------
(***************************************************************************)
(* What a TestResult may expect of the stream that drives it: tests run    *)
(* one after the other, each is started, then has one outcome, of that     *)
(* very test, then is stopped.                                             *)
(***************************************************************************)
EXTENDS Naturals, Sequences

CONSTANTS Tests, Outcomes

VARIABLES
    started,    \* the tests startTest() was called with
    reported,   \* the outcomes, each with its test
    stopped     \* the tests stopTest() was called with
vars == <<started, reported, stopped>>

Init == started = <<>> /\ reported = <<>> /\ stopped = <<>>

StartTest(test) ==
    /\ started = stopped
    /\ started' = Append(started, test)
    /\ UNCHANGED <<reported, stopped>>

Finish(outcome) ==
    /\ started # stopped
    /\ LET test == started[Len(started)]
       IN  /\ started = Append(stopped, test)
           /\ reported' = Append(reported, <<test, outcome>>)
    /\ stopped' = started
    /\ UNCHANGED started

Next ==
    \/ \E test \in Tests : StartTest(test)
    \/ \E outcome \in Outcomes : Finish(outcome)

Spec == Init /\ [][Next]_vars
=============================================================================
