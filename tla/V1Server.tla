------------------------------ MODULE V1Server ------------------------------
(***************************************************************************)
(* TestProtocolServer, the parser of v1 streams: a state machine over the  *)
(* lines of a stream, outside a test, in one, or reading the details of    *)
(* its outcome. A line is a directive, acted on and written to the forward *)
(* stream, or output of the program under test, written to the passthrough *)
(* stream. A handler that raises ends the run: no caller of lineReceived   *)
(* catches anything.                                                       *)
(***************************************************************************)
EXTENDS V1Line

CONSTANT Inputs     \* the streams: sequences of sets, the n-th line is in the n-th

Lines == [word : STRING, rest : Seq(STRING), newline : BOOLEAN]
ASSUME InputsAssumption == Inputs \subseteq Seq(SUBSET Lines)

None == "none"

VARIABLES
    input,          \* the stream that is read
    received,       \* history: the lines received
    pc,             \* "reading", "lost" when the stream has ended, or "raised"
    state,          \* "outside", "test" or "details"
    current_test,   \* the label of _current_test
    current_test_description,
    reading,        \* the outcome whose details are read: which of the six states
    stage,          \* the details parser: "simple", or where the multipart one is
    message,        \* what the simple parser, or the chunk decoder, has been given
    name,           \* the name of the content being read
    contents,       \* _details of the multipart parser: names and what is in them
    started, results, stopped, informed,    \* the calls the client has had
    passed,         \* the lines written to the passthrough stream, by number
    forwarded,      \* the lines written to the forward stream
    began, opened   \* history: the lines that started the test and its details
inputVars == <<input, received>>
testVars == <<current_test, current_test_description, began>>
parserVars == <<reading, stage, message, name, contents, opened>>
clientVars == <<started, results, stopped, informed>>
streamVars == <<passed, forwarded>>
vars == <<inputVars, pc, state, testVars, parserVars, clientVars, streamVars>>

Empty == [n \in {} |-> <<>>]

Init ==
    /\ input \in Inputs /\ received = <<>> /\ pc = "reading"
    /\ state = "outside"
    /\ current_test = <<>> /\ current_test_description = <<>> /\ began = 0
    /\ reading = None /\ stage = None /\ message = <<>> /\ opened = 0
    /\ name = Line(None, <<>>) /\ contents = Empty
    /\ started = <<>> /\ results = <<>> /\ stopped = <<>> /\ informed = <<>>
    /\ passed = <<>> /\ forwarded = <<>>

Number == Len(received) + 1

(* The next line comes; a torn line is the last.                            *)
Receive(line) ==
    /\ pc = "reading"
    /\ \A n \in DOMAIN received : received[n].newline
    /\ received' = Append(received, line)
    /\ UNCHANGED input

Pass == passed' = Append(passed, Number) /\ UNCHANGED forwarded
Forward == forwarded' = Append(forwarded, Number) /\ UNCHANGED passed

(* addError and the like, then stopTest, of the client.                     *)
Finish(outcome, how, said, at) ==
    /\ results' = Append(results, [test |-> current_test, outcome |-> outcome,
                                   how |-> how, details |-> said,
                                   began |-> began, opened |-> at, ended |-> Len(received')])
    /\ stopped' = Append(stopped, current_test)
    /\ UNCHANGED <<started, informed>>

-----------------------------------------------------------------------------
(* _ParserState.lineReceived, outside the details.                          *)

(* Mutant of StartTest: a test may start inside another.                    *)
StartTestAnywhere(line) ==
    /\ Directive(line) = "test" /\ Readable(Name(line)) /\ state # "details"
    /\ Receive(line) /\ Forward
    /\ state' = "test"
    /\ current_test' = Name(line) /\ current_test_description' = Name(line)
    /\ began' = Number
    /\ started' = Append(started, Name(line))
    /\ UNCHANGED <<pc, parserVars, results, stopped, informed>>

StartTest(line) ==
    /\ state = "outside" /\ Directive(line) = "test" /\ Readable(Name(line))
    /\ Receive(line) /\ Forward
    /\ state' = "test"
    /\ current_test' = Name(line) /\ current_test_description' = Name(line)
    /\ began' = Number
    /\ started' = Append(started, Name(line))
    /\ UNCHANGED <<pc, parserVars, results, stopped, informed>>

(* Mutant of Names: any test's outcome is taken for the one that is running.*)
NamesAny(line, tail) == Directive(line) \in Outcomes /\ tail = <<>>

(* An outcome directive for the test that is running.                       *)
Names(line, tail) ==
    Directive(line) \in Outcomes /\ Name(line) = current_test_description \o tail

AddOutcome(line) ==
    /\ state = "test" /\ Names(line, <<>>)
    /\ Receive(line) /\ Forward
    /\ state' = "outside" /\ current_test_description' = <<>> /\ current_test' = <<>>
    /\ opened' = Number
    /\ Finish(Directive(line), "plain", <<>>, Number)
    /\ UNCHANGED <<pc, began, reading, stage, message, name, contents>>

(* Mutant of OpenDetails: the state for the outcome is not chosen.          *)
OpenNoDetails(line) ==
    /\ state = "test"
    /\ Names(line, Simple) \/ Names(line, Multipart)
    /\ Receive(line) /\ Forward
    /\ state' = "details"
    /\ opened' = Number
    /\ stage' = IF Names(line, Simple) THEN "simple" ELSE "content"
    /\ message' = <<>> /\ contents' = Empty
    /\ UNCHANGED <<pc, testVars, reading, name, clientVars>>

OpenDetails(line) ==
    /\ state = "test"
    /\ Names(line, Simple) \/ Names(line, Multipart)
    /\ Receive(line) /\ Forward
    /\ state' = "details"
    /\ reading' = Directive(line) /\ opened' = Number
    /\ stage' = IF Names(line, Simple) THEN "simple" ELSE "content"
    /\ message' = <<>> /\ contents' = Empty
    /\ UNCHANGED <<pc, testVars, name, clientVars>>

(* Not a directive, or one that means nothing here: a start inside a test,  *)
(* an outcome outside one or for a test that is not running.                *)
PassOn(line) ==
    /\ \/ state \in {"outside", "test"} /\ Directive(line) = "none"
       \/ state = "outside" /\ Directive(line) \in Outcomes \ {"uxsuccess"}
       \/ state = "test" /\ Directive(line) = "test"
       \/ /\ state = "test" /\ Directive(line) \in Outcomes /\ Readable(Name(line))
          /\ \A tail \in {<<>>, Simple, Multipart} : ~Names(line, tail)
    /\ Receive(line) /\ Pass
    /\ UNCHANGED <<pc, state, testVars, parserVars, clientVars>>

(* Mutant of Inform: tags and times are told to the client only.            *)
InformOnly(line) ==
    /\ state \in {"outside", "test"}
    /\ Directive(line) \in {"progress", "tags", "time"} /\ Readable(Argument(line))
    /\ Receive(line)
    /\ informed' = Append(informed, Number)
    /\ UNCHANGED <<pc, state, testVars, parserVars, streamVars, started, results, stopped>>

(* The client is told; tags and times go on to the forward stream as well.  *)
Inform(line) ==
    /\ state \in {"outside", "test"}
    /\ Directive(line) \in {"progress", "tags", "time"} /\ Readable(Argument(line))
    /\ Receive(line)
    /\ informed' = Append(informed, Number)
    /\ IF Directive(line) = "progress" THEN UNCHANGED streamVars ELSE Forward
    /\ UNCHANGED <<pc, state, testVars, parserVars, started, results, stopped>>

(* A label, a tag, a number or a time that cannot be read; and uxsuccess    *)
(* outside a test, for which _ParserState has no handler. startTest goes    *)
(* into the test before it reads its label.                                 *)
Raise(line) ==
    /\ \/ /\ state = "outside" /\ Directive(line) \in {"test", "progress", "tags", "time"}
          /\ ~Readable(Argument(line))
       \/ state = "outside" /\ Directive(line) = "uxsuccess"
       \/ /\ state = "test" /\ Directive(line) \in Outcomes \cup {"progress", "tags", "time"}
          /\ ~Readable(Argument(line))
    /\ Receive(line)
    /\ pc' = "raised"
    /\ state' = IF Directive(line) = "test" THEN "test" ELSE state
    /\ UNCHANGED <<testVars, parserVars, clientVars, streamVars>>

-----------------------------------------------------------------------------
(* _ReadingDetails.lineReceived: every line goes to the details parser.     *)

(* Mutant of ReadSimple: a line in the details with a test's outcome in it  *)
(* is not kept.                                                             *)
ReadSimpleText(line) ==
    /\ state = "details" /\ stage = "simple" /\ line # EndMarker
    /\ Receive(line) /\ Forward
    /\ message' = IF Directive(line) = "none" THEN Append(message, Unquoted(line)) ELSE message
    /\ UNCHANGED <<pc, state, testVars, reading, stage, name, contents, opened, clientVars>>

ReadSimple(line) ==
    /\ state = "details" /\ stage = "simple" /\ line # EndMarker
    /\ Receive(line) /\ Forward
    /\ message' = Append(message, Unquoted(line))
    /\ UNCHANGED <<pc, state, testVars, reading, stage, name, contents, opened, clientVars>>

ReadContentType(line) ==
    /\ state = "details" /\ stage = "content" /\ line # EndMarker
    /\ Readable(Name(line)) /\ IsContentType(line)
    /\ Receive(line) /\ Forward
    /\ stage' = "name"
    /\ UNCHANGED <<pc, state, testVars, reading, message, name, contents, opened, clientVars>>

ReadName(line) ==
    /\ state = "details" /\ stage = "name" /\ Readable(Name(line))
    /\ Receive(line) /\ Forward
    /\ stage' = "chunks" /\ name' = Line(line.word, Name(line)) /\ message' = <<>>
    /\ UNCHANGED <<pc, state, testVars, reading, contents, opened, clientVars>>

(* The chunk decoder takes the line, and says whether it was the last chunk.*)
ReadChunk(line) ==
    /\ state = "details" /\ stage = "chunks"
    /\ Receive(line) /\ Forward
    /\ message' = Append(message, line)
    /\ \/ UNCHANGED <<stage, contents>>
       \/ /\ stage' = "content"
          /\ contents' = [n \in DOMAIN contents \cup {name} |->
                            IF n = name THEN message' ELSE contents[n]]
    /\ UNCHANGED <<pc, state, testVars, reading, name, opened, clientVars>>

(* endDetails: _current_test is left as it is.                              *)
EndDetails(line) ==
    /\ state = "details" /\ stage \in {"simple", "content"} /\ line = EndMarker
    /\ Receive(line) /\ Forward
    /\ state' = "outside" /\ current_test_description' = <<>>
    /\ Finish(reading, stage, IF stage = "simple" THEN message ELSE contents, opened)
    /\ UNCHANGED <<pc, current_test, began, parserVars>>

(* No content type, a name or chunk that cannot be read: the line goes      *)
(* nowhere, and the test is never finished.                                 *)
RaiseInDetails(line) ==
    /\ state = "details"
    /\ \/ /\ stage = "content" /\ line # EndMarker
          /\ ~(Readable(Name(line)) /\ IsContentType(line))
       \/ stage = "name" /\ ~Readable(Name(line))
       \/ stage = "chunks"
    /\ Receive(line)
    /\ pc' = "raised"
    /\ UNCHANGED <<state, testVars, parserVars, clientVars, streamVars>>

-----------------------------------------------------------------------------
(* Mutant of LostConnection: only a test without details is reported.       *)
LostConnectionInTest ==
    /\ pc = "reading" /\ pc' = "lost"
    /\ UNCHANGED <<inputVars, state, testVars, parserVars, streamVars>>
    /\ IF state = "test" THEN Finish("error", "lost", <<>>, opened) ELSE UNCHANGED clientVars

(* The stream has ended, or was cut off. The state is left as it is.        *)
LostConnection ==
    /\ pc = "reading" /\ pc' = "lost"
    /\ UNCHANGED <<inputVars, state, testVars, parserVars, streamVars>>
    /\ IF state # "outside" THEN Finish("error", "lost", <<>>, opened) ELSE UNCHANGED clientVars

lineReceived(line) ==
    \/ StartTest(line) \/ AddOutcome(line) \/ OpenDetails(line) \/ PassOn(line)
    \/ Inform(line) \/ Raise(line)
    \/ ReadSimple(line) \/ ReadContentType(line) \/ ReadName(line) \/ ReadChunk(line)
    \/ EndDetails(line) \/ RaiseInDetails(line)

Next ==
    \/ Number <= Len(input) /\ \E line \in input[Number] : lineReceived(line)
    \/ LostConnection

Spec == Init /\ [][Next]_vars

-----------------------------------------------------------------------------
(* Properties.                                                              *)

(* The types of the parser's state: in details there is an outcome to       *)
(* report and a parser at work.                                             *)
TypeOK ==
    /\ input \in Inputs /\ received \in Seq(Lines)
    /\ pc \in {"reading", "lost", "raised"} /\ state \in {"outside", "test", "details"}
    /\ current_test \in Seq(STRING) /\ current_test_description \in Seq(STRING)
    /\ reading \in Outcomes \cup {None}
    /\ stage \in {None, "simple", "content", "name", "chunks"}
    /\ state = "details" => reading # None /\ stage # None
    /\ passed \in Seq(Nat) /\ forwarded \in Seq(Nat) /\ informed \in Seq(Nat)

Increasing(s) == \A i, j \in DOMAIN s : i < j => s[i] < s[j]
At(s, n) == \E i \in DOMAIN s : s[i] = n

(* The lines that have been dealt with: all, but for one that raised.       *)
Handled == IF pc = "raised" THEN Len(received) - 1 ELSE Len(received)

(* Nothing is lost or doubled between the two streams: every line is        *)
(* written to one of them, in the order of the stream, but for a progress   *)
(* directive, which is only told to the client.                             *)
RoutedOnce ==
    /\ Increasing(passed) /\ Increasing(forwarded)
    /\ \A i \in DOMAIN passed : passed[i] \in 1..Handled
    /\ \A i \in DOMAIN forwarded : forwarded[i] \in 1..Handled
    /\ \A n \in 1..Handled :
         /\ ~(At(passed, n) /\ At(forwarded, n))
         /\ \/ At(passed, n) \/ At(forwarded, n)
            \/ At(informed, n) /\ Directive(received[n]) = "progress"

(* Each result is what the stream says: the test is the one of the last     *)
(* test directive taken, its outcome that of a directive with that test's   *)
(* label, and the text of its details is every line between, and only       *)
(* those, whatever directives these look like.                              *)
AsWritten(r) ==
    LET tail == IF r.how = "plain" THEN <<>> ELSE IF r.how = "simple" THEN Simple ELSE Multipart
    IN  /\ r.began < r.opened /\ r.opened <= r.ended
        /\ Directive(received[r.opened]) = r.outcome
        /\ Name(received[r.opened]) = r.test \o tail
        /\ r.how # "plain" => received[r.ended] = EndMarker
        /\ r.how = "simple" =>
             /\ Len(r.details) = r.ended - r.opened - 1
             /\ \A i \in DOMAIN r.details :
                  r.details[i] = Unquoted(received[r.opened + i]) /\ received[r.opened + i] # EndMarker
        /\ r.how = "content" =>
             \A n \in DOMAIN r.details : \E from \in r.opened + 3 .. r.ended - Len(r.details[n]) :
               /\ received[from - 1].word = n.word
               /\ \A i \in DOMAIN r.details[n] : r.details[n][i] = received[from + i - 1]
ResultsAsWritten ==
    \A i \in DOMAIN results :
      /\ Directive(received[results[i].began]) = "test"
      /\ Name(received[results[i].began]) = results[i].test
      /\ results[i].how # "lost" => AsWritten(results[i])
      /\ i > 1 => results[i].began > results[i - 1].ended

(* The parser and its client agree on which test is open, and a program     *)
(* that dies in a test, or in the middle of a line of its output, leaves no *)
(* test without an outcome.                                                 *)
NoneLeftOpen ==
    /\ Len(results) = Len(stopped)
    /\ pc = "reading" =>
         started = IF state = "outside" THEN stopped ELSE Append(stopped, current_test)
    /\ pc = "lost" => started = stopped

Labels == {Name(line) : line \in UNION UNION {{i[n] : n \in DOMAIN i} : i \in Inputs}}
Reported == [i \in DOMAIN results |-> <<results[i].test, results[i].outcome>>]
TestRun == INSTANCE V1TestRun WITH Tests <- Labels, reported <- Reported

(* Whatever the lines, the client sees tests one after the other, each      *)
(* started, reported on once, as itself, and stopped.                       *)
IsTestRun == TestRun!Spec
=============================================================================
