------------------------------ MODULE Results -------------------------------
(***************************************************************************)
(* The results behind the commands that look at a stream: subunit-ls       *)
(* (TestIdPrintingResult), subunit-stats (TestResultStats) and subunit2csv *)
(* (CsvResult). The last two are told tests one after the other by         *)
(* StreamToExtendedDecorator of testtools.                                 *)
(***************************************************************************)
EXTENDS TestDict, Naturals

VARIABLES
    listing,        \* of TestIdPrintingResult
    cases,          \* the tests StreamToExtendedDecorator gathers
    tally           \* of TestResultStats and CsvResult
resultVars == <<listing, cases, tally>>

ResultsInit ==
    /\ listing = [time |-> 0, active |-> NoItems, lines |-> <<>>, raised |-> FALSE]
    /\ cases = NoItems
    /\ tally = [total |-> 0, failed |-> 0, skipped |-> 0, seen |-> {}, now |-> 0, rows |-> <<>>]

-----------------------------------------------------------------------------
(* TestIdPrintingResult. A duration nobody can tell is the number 0, which  *)
(* has no `seconds`: asked for times, reportTest raises.                    *)

ReportTest(list, id, timed, times) ==
    IF times /\ ~timed THEN [list EXCEPT !.raised = TRUE]
    ELSE [list EXCEPT !.lines = Append(@, id)]

(* Mutant of EndTest: the test stays active.                                *)
EndTestActive(list, id, times) ==
    ReportTest(list, id, Has(list.active, id) /\ list.active.value[id] # 0, times)

EndTest(list, id, times) ==
    ReportTest([list EXCEPT !.active = Drop(@, id)], id,
               Has(list.active, id) /\ list.active.value[id] # 0, times)

(* Mutant of Status: a packet without a time makes the start unknown.       *)
StatusOwnTime(list, e, options) ==
    LET now == [list EXCEPT !.time = IF e.time # 0 THEN e.time ELSE @] IN
    IF list.raised \/ e.id = <<>> THEN list
    ELSE IF e.status = "exists" THEN
        IF options.exists THEN ReportTest(now, e.id, FALSE, options.times) ELSE now
    ELSE IF e.status \in Interim THEN [now EXCEPT !.active = Put(@, e.id, e.time)]
    ELSE EndTest(now, e.id, options.times)

Status(list, e, options) ==
    LET now == [list EXCEPT !.time = IF e.time # 0 THEN e.time ELSE @] IN
    IF list.raised \/ e.id = <<>> THEN list
    ELSE IF e.status = "exists" THEN
        IF options.exists THEN ReportTest(now, e.id, FALSE, options.times) ELSE now
    ELSE IF e.status \in Interim THEN [now EXCEPT !.active = Put(@, e.id, now.time)]
    ELSE EndTest(now, e.id, options.times)

(* stopTestRun                                                              *)
EndAll(list, options) ==
    FoldLeft(LAMBDA l, id : IF l.raised THEN l ELSE EndTest(l, id, options.times),
             list, list.active.keys)

-----------------------------------------------------------------------------
(* One test told to TestResultStats and CsvResult: the time of its start,   *)
(* its tags, startTest, the time of its end, the outcome, stopTest. A time  *)
(* that is missing is not told, and the last one told is used.              *)

Outcome(status) ==
    CASE status \in {"fail", "unknown", "inprogress"} -> "failure"
      [] status = "uxsuccess" -> "success"
      [] OTHER -> status

Told(t, test) ==
    LET start == IF test.start # 0 THEN test.start ELSE t.now
        stop  == IF test.stop # 0 THEN test.stop ELSE start
        is    == Outcome(test.status)
    IN  [total   |-> t.total + 1,
         failed  |-> t.failed + (IF is = "failure" THEN 1 ELSE 0),
         skipped |-> t.skipped + (IF is = "skip" THEN 1 ELSE 0),
         seen    |-> t.seen \cup test.tags,
         now     |-> stop,
         rows    |-> Append(t.rows, [id |-> test.id, status |-> is, start |-> start, stop |-> stop])]

passed_tests == tally.total - tally.failed - tally.skipped

-----------------------------------------------------------------------------
(* A packet, and the end of the run, at all three.                          *)

ReadResult(e, options) ==
    /\ listing' = Status(listing, e, options)
    /\ IF e.status = "exists" THEN UNCHANGED <<cases, tally>>
       ELSE /\ cases' = Gather(cases, e)
            /\ tally' = FoldLeft(Told, tally, HandOut(cases, e))

StopResult(options) ==
    /\ listing' = IF listing.raised THEN listing ELSE EndAll(listing, options)
    /\ cases' = NoItems
    /\ tally' = FoldLeft(Told, tally, Leftovers(cases))
=============================================================================
