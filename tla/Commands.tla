------------------------------ MODULE Commands ------------------------------
(***************************************************************************)
(* A stream written with subunit-output (Output) and read by the commands: *)
(* through subunit-tags to subunit2disk (Disk), to subunit-ls and to the   *)
(* commands made with run_filter_script (Results), each of which gets the  *)
(* whole stream. None looks at when a packet comes, so that they read when *)
(* all is written.                                                         *)
(***************************************************************************)
EXTENDS Output, Disk, Results

CONSTANT Setups     \* the options the commands are given

ASSUME SetupsAssumption ==
    \A o \in Setups : {o.times, o.exists, o.passthrough, o.forward, o.unwrap} \subseteq BOOLEAN

VARIABLES
    options,
    at,             \* how many packets are read
    tests,          \* the tests StreamToDict gathers for subunit2disk
    stdout,         \* what the filter script writes: packets, and text unwrapped
    stopped         \* stopTestRun() was called
vars == <<outputVars, diskVars, resultVars, options, at, tests, stdout, stopped>>

Init ==
    /\ OutputInit /\ DiskInit /\ ResultsInit
    /\ options \in Setups
    /\ at = 0 /\ tests = NoItems /\ stdout = <<>> /\ stopped = FALSE

-----------------------------------------------------------------------------
(* Mutant of Tagged: packets without tags go on as they are.                *)
TaggedOnly(e) ==
    IF e.tags = <<>> THEN e
    ELSE [e EXCEPT !.tags = <<(e.tags[1] \cup options.new) \ options.gone>>]

(* Tagger.status, for every packet and every text.                          *)
Tagged(e) ==
    LET tags == ((UNION ToSet(e.tags)) \cup options.new) \ options.gone
    IN  [e EXCEPT !.tags = IF tags = {} THEN <<>> ELSE <<tags>>]

(* Mutant of Routed: with --no-passthrough nothing is split off.            *)
RoutedAll(n, e) ==
    IF options.forward THEN <<[packet |-> n]>>
    ELSE IF ~options.passthrough \/ e.id # <<>> THEN <<>>
    ELSE IF ~options.unwrap THEN <<[packet |-> n]>>
    ELSE IF e.file = <<>> THEN <<>> ELSE <<[bytes |-> n]>>

(* What run_tests_from_stream sends to the standard output of an event:     *)
(* forwarded with or without the events that have no test, or those alone,  *)
(* as packets or, by CatFiles, as the bytes of their files. The result gets *)
(* every event of a test; one without it passes over.                       *)
Routed(n, e) ==
    CASE options.forward ->
           IF options.passthrough \/ e.id # <<>> THEN <<[packet |-> n]>> ELSE <<>>
      [] ~options.forward /\ options.passthrough /\ e.id = <<>> ->
           IF ~options.unwrap THEN <<[packet |-> n]>>
           ELSE IF e.file = <<>> THEN <<>> ELSE <<[bytes |-> n]>>
      [] OTHER -> <<>>

Program == OutputNext /\ UNCHANGED <<diskVars, resultVars, options, at, tests, stdout, stopped>>

Read ==
    /\ Written /\ at < Len(stream)
    /\ at' = at + 1
    /\ LET e == Tagged(stream[at'])
       IN  /\ stdout' = stdout \o Routed(at', e)
           /\ ReadResult(e, options)
           /\ tests' = Gather(tests, e) /\ Export(HandOut(tests, e))
    /\ UNCHANGED <<outputVars, options, stopped>>

(* stopTestRun() of all of them                                             *)
Stop ==
    /\ Written /\ at = Len(stream) /\ ~stopped
    /\ stopped' = TRUE
    /\ StopResult(options)
    /\ tests' = NoItems /\ Export(Leftovers(tests))
    /\ UNCHANGED <<outputVars, options, at, stdout>>

Next == Program \/ Read \/ Stop

Spec == Init /\ [][Next]_vars

-----------------------------------------------------------------------------
(* Properties.                                                              *)

PacketsOf(i) == {n \in DOMAIN stream : stream[n].from = i}

(* Between the packets of a run another program ended its test, or wrote to *)
(* the same file.                                                           *)
Disturbed(i) ==
    \E n \in Min(PacketsOf(i))..Max(PacketsOf(i)) \ PacketsOf(i) :
      /\ stream[n].id = TestId(begun[i])
      /\ \/ stream[n].status \in Final
         \/ \E file \in ToSet(stream[n].file) : file.name = FileName(begun[i])

Holds(bytes, part) ==
    \E k \in 0..Len(bytes) - Len(part) : SubSeq(bytes, k + 1, k + Len(part)) = part

(* A file that subunit-output has split into packets is on disk in one      *)
(* piece, with its test and under the status it was attached with, whatever *)
(* other programs reported in between, short of ending that test or adding  *)
(* to that file; and the test has its summary.                              *)
AttachmentsWhole ==
    stopped /\ ~broken =>
      \A i \in DOMAIN begun :
        /\ TestId(begun[i]) # <<>> /\ begun[i].attach # None
        /\ \E n \in PacketsOf(i) : stream[n].eof
        /\ ~Disturbed(i)
        => \E x \in ToSet(exported) :
             /\ i \in x.test.from /\ x.test.id = TestId(begun[i])
             /\ Holds(files[x.paths[FileName(begun[i])]].bytes, begun[i].content)
             /\ Action(begun[i]) \in Final => x.test.status = Action(begun[i])
             /\ \E f \in DOMAIN files : files[f] = Summary(x.test)

(* An export leaves what is on disk as it is: neither another test's files  *)
(* nor those of an earlier run of subunit2disk are written over.            *)
NothingOverwritten ==
    [][\A f \in DOMAIN files : f \in DOMAIN files' /\ files'[f] = files[f]]_vars

(* The values of s at the indices I are those of t, each as often.          *)
Occurs(s, I, x) == Cardinality({i \in I : s[i] = x})
SameBag(s, I, t) ==
    \A x \in {s[i] : i \in I} \cup ToSet(t) : Occurs(s, I, x) = Occurs(t, DOMAIN t, x)

(* A test under way was reported to exist, which ends it for StreamToDict   *)
(* and means nothing to the others.                                         *)
ExistsUnderWay ==
    \E m, n \in DOMAIN stream :
      /\ m < n /\ stream[n].status = "exists" /\ stream[m].id = stream[n].id
      /\ \A k \in m..n - 1 : stream[k].id = stream[n].id => stream[k].status \in Interim

(* The commands agree on which tests a stream holds, how often each, and    *)
(* how they ended, although each keeps its own account of what is under way:*)
(* the tests exported, the rows of the CSV, the lines of the listing and    *)
(* the count of those that passed.                                          *)
SameTests ==
    stopped /\ ~broken /\ ~ExistsUnderWay =>
      LET Ran    == {i \in DOMAIN exported : exported[i].test.status # "exists"}
          Listed == IF options.exists THEN DOMAIN exported ELSE Ran
          ids    == [i \in DOMAIN exported |-> exported[i].test.id]
          ends   == [i \in DOMAIN exported |-> <<ids[i], Outcome(exported[i].test.status)>>]
          rows   == [j \in DOMAIN tally.rows |-> <<tally.rows[j].id, tally.rows[j].status>>]
      IN  /\ SameBag(ends, Ran, rows)
          /\ ~listing.raised => SameBag(ids, Listed, listing.lines)
          /\ passed_tests =
               Cardinality({i \in Ran : exported[i].test.status \in {"success", "xfail", "uxsuccess"}})

(* subunit-ls --times gives up only over a test whose beginning it was never*)
(* told, or one that exists only: a test that was in progress is listed with*)
(* its time, whatever packets without a time came for it.                   *)
Begun(n) ==
    \E m \in 1 .. n - 1 :
      /\ stream[m].id = stream[n].id /\ stream[m].status \in Interim
      /\ \A k \in m..n - 1 :
           stream[k].id = stream[n].id => stream[k].status \in Interim \cup {"exists"}
BegunTestsAreTimed ==
    listing.raised =>
      \E n \in 1..at : stream[n].id # <<>> /\ stream[n].status \in Final
                         /\ (stream[n].status = "exists" \/ ~Begun(n))

(* The standard output of a filter script has, in order and once each, what *)
(* was asked for: with --forward the packets of the tests, without          *)
(* --no-passthrough the text, as packets or as it was.                      *)
RoutedAsAsked ==
    LET of(item) == IF "packet" \in DOMAIN item THEN item.packet ELSE item.bytes
    IN  /\ \A i, j \in DOMAIN stdout : i < j => of(stdout[i]) < of(stdout[j])
        /\ \A n \in 1..at :
             LET shown == \E i \in DOMAIN stdout : of(stdout[i]) = n
             IN  /\ stream[n].id # <<>> => (shown <=> options.forward)
                 /\ stream[n].from = 0 => (shown <=> options.passthrough)
        /\ \A i \in DOMAIN stdout : "bytes" \in DOMAIN stdout[i] =>
             options.unwrap /\ ~options.forward

(* Every test that went through subunit-tags has the tags that were asked   *)
(* for and none that was to go, although the tags of a later packet replace *)
(* those of an earlier one. (They replace the test's own tags as well.)     *)
AddedTagsStay ==
    \A x \in ToSet(exported) :
      (options.new \ options.gone) \subseteq x.test.tags /\ options.gone \cap x.test.tags = {}
=============================================================================
