----------------------------- MODULE V1Session ------------------------------
(***************************************************************************)
(* A v1 stream from end to end, as in run_isolated: a test runner in a     *)
(* forked child reports to TestProtocolClient, which writes to a buffered  *)
(* stream over a pipe; the program under test may print to the pipe, or    *)
(* kill the process; the parent reads the lines when the pipe is closed    *)
(* and drives its own result with them (V1Server, whose variables the      *)
(* parent is; its `input` is not used).                                    *)
(***************************************************************************)
EXTENDS V1Server, SequencesExt

CONSTANTS
    Suite,          \* the labels of the tests that are run
    Reports,        \* the outcomes a test may have
    Events,         \* lines of other calls: progress, tags, time
    Outputs,        \* what the program under test may print to the pipe
    MaxOther        \* how many such lines and such calls there are

VARIABLES
    todo,           \* the tests not begun
    phase,          \* of the test: "idle", "starting", "running", "reported"
    buffer,         \* the lines in the buffer of the client's stream
    pipe,           \* the lines in the pipe; the last may be unfinished
    other,          \* how many lines of Events and Outputs there were
    spilled,        \* whether some lines of the buffer are in the pipe
    mixed,          \* history: whether output stands inside what the client wrote
    closed, died,   \* whether the child is gone, and whether it was killed
    returned,       \* history: the tests startTest() returned for
    reported        \* history: the outcomes the client was told
childVars == <<todo, phase, buffer, pipe, other, spilled, mixed, closed, died, returned, reported>>
sessionVars == <<vars, childVars>>

SessionInit ==
    /\ Init
    /\ todo = Suite /\ phase = "idle" /\ buffer = <<>> /\ pipe = <<>> /\ other = 0
    /\ spilled = FALSE /\ mixed = FALSE /\ closed = FALSE /\ died = FALSE
    /\ returned = <<>> /\ reported = <<>>

-----------------------------------------------------------------------------
(* The client.                                                              *)

ContentType == Line("Content-Type:", <<"t", "/", "p">>)

(* A content: the two lines before its chunks, which end with a line of     *)
(* their own as far as the parser is concerned.                             *)
ContentLines(content) == <<ContentType, Line(content.name, <<>>)>> \o content.chunks

(* What _addOutcome and addSkip write: with nothing to say, with a traceback*)
(* or a reason, or with details.                                            *)
ReportLines(test, report) ==
    CASE report.how = "plain" -> <<Line(report.word, test)>>
      [] report.how = "simple" ->
           <<Line(report.word, test \o Simple)>> \o report.message \o <<EndMarker>>
      [] report.how = "content" ->
           <<Line(report.word, test \o Multipart)>>
             \o FlattenSeq([i \in DOMAIN report.contents |-> ContentLines(report.contents[i])])
             \o <<EndMarker>>

Running == Suite[Len(Suite) - Len(todo)]

(* Mutant of RunTest: the start of a test is not flushed.                   *)
RunTestUnflushed ==
    /\ ~closed /\ phase = "idle" /\ todo # <<>>
    /\ todo' = Tail(todo) /\ phase' = "running"
    /\ returned' = Append(returned, Head(todo))
    /\ buffer' = Append(buffer, Line("test", Head(todo)))
    /\ UNCHANGED <<vars, pipe, other, spilled, mixed, closed, died, reported>>

(* startTest, up to its flush.                                              *)
RunTest ==
    /\ ~closed /\ phase = "idle" /\ todo # <<>>
    /\ todo' = Tail(todo) /\ phase' = "starting"
    /\ buffer' = Append(buffer, Line("test", Head(todo)))
    /\ UNCHANGED <<vars, pipe, other, spilled, mixed, closed, died, returned, reported>>

Report(report) ==
    /\ ~closed /\ phase = "running"
    /\ phase' = "reported"
    /\ buffer' = buffer \o ReportLines(Running, report)
    /\ reported' = Append(reported, [test |-> Running, report |-> report])
    /\ UNCHANGED <<vars, todo, pipe, other, spilled, mixed, closed, died, returned>>

(* progress, tags or time: a line each, without a flush.                    *)
Tell(line) ==
    /\ ~closed /\ phase \in {"idle", "running"} /\ other < MaxOther
    /\ other' = other + 1
    /\ buffer' = Append(buffer, line)
    /\ UNCHANGED <<vars, todo, phase, pipe, spilled, mixed, closed, died, returned, reported>>

(* What is in the pipe after a write. A line the program under test has not *)
(* finished goes on with the first line written.                            *)
Written(lines) ==
    IF pipe = <<>> \/ lines = <<>> \/ pipe[Len(pipe)].newline THEN pipe \o lines
    ELSE Front(pipe) \o <<Line("glued", lines[1].rest)>> \o Tail(lines)

(* The flush at the end of startTest and in stopTest.                       *)
Flush ==
    /\ ~closed /\ phase \in {"starting", "reported"}
    /\ pipe' = Written(buffer) /\ buffer' = <<>> /\ spilled' = FALSE
    /\ phase' = IF phase = "starting" THEN "running" ELSE "idle"
    /\ returned' = IF phase = "starting" THEN Append(returned, Running) ELSE returned
    /\ UNCHANGED <<vars, todo, other, mixed, closed, died, reported>>

(* The buffer is full before it is flushed.                                 *)
Spill ==
    /\ ~closed /\ \E n \in 1..Len(buffer) - 1 :
         /\ pipe' = Written(SubSeq(buffer, 1, n))
         /\ buffer' = SubSeq(buffer, n + 1, Len(buffer))
    /\ spilled' = TRUE
    /\ UNCHANGED <<vars, todo, phase, other, mixed, closed, died, returned, reported>>

-----------------------------------------------------------------------------
(* The program under test, and the end of the child.                        *)

Output(line) ==
    /\ ~closed /\ phase # "idle" /\ other < MaxOther
    /\ other' = other + 1
    /\ pipe' = Written(<<line>>)
    /\ mixed' = (mixed \/ spilled \/ ~line.newline)
    /\ UNCHANGED <<vars, todo, phase, buffer, spilled, closed, died, returned, reported>>

(* Killed: what is in the buffer is lost, but for some of it that has just  *)
(* been written, up to the middle of a line.                                *)
Die ==
    /\ ~closed /\ phase # "idle" /\ closed' = TRUE /\ died' = TRUE
    /\ \/ UNCHANGED pipe
       \/ \E n \in DOMAIN buffer : \E last \in Torn(buffer[n]) :
            pipe' = Written(Append(SubSeq(buffer, 1, n - 1), last))
    /\ UNCHANGED <<vars, todo, phase, buffer, other, spilled, mixed, returned, reported>>

Exit ==
    /\ ~closed /\ phase = "idle" /\ todo = <<>> /\ closed' = TRUE
    /\ pipe' = Written(buffer) /\ buffer' = <<>>
    /\ UNCHANGED <<vars, todo, phase, other, spilled, mixed, died, returned, reported>>

-----------------------------------------------------------------------------
(* The parent: readlines() returns when the pipe is closed. As long as      *)
(* nothing is mixed in, the decoder is done with the last line of the       *)
(* chunks (Chunked).                                                        *)

LastChunk == "0"
Decoded(line) ==
    stage = "chunks" /\ ~mixed /\ line.newline =>
      pc' = "reading" /\ (stage' = "content" <=> line.word = LastChunk)

ReadLine ==
    /\ closed /\ Number <= Len(pipe)
    /\ lineReceived(pipe[Number])
    /\ Decoded(pipe[Number])
    /\ UNCHANGED childVars

ReadEnd ==
    /\ closed /\ Number > Len(pipe)
    /\ LostConnection
    /\ UNCHANGED childVars

Child ==
    \/ RunTest \/ Flush \/ Spill \/ Die \/ Exit
    \/ (\E report \in Reports : Report(report))
    \/ (\E line \in Events : Tell(line)) \/ (\E line \in Outputs : Output(line))

SessionNext == Child \/ ReadLine \/ ReadEnd

SessionSpec == SessionInit /\ [][SessionNext]_sessionVars

-----------------------------------------------------------------------------
(* Properties.                                                              *)

OutcomeOf(report) == Means(report.word)
Details(report) ==
    CASE report.how = "plain" -> <<>>
      [] report.how = "simple" -> report.message
      [] report.how = "content" ->
           [n \in {Line(c.name, <<>>) : c \in ToSet(report.contents)} |->
              (CHOOSE c \in ToSet(report.contents) : c.name = n.word).chunks]

(* A result of the parent is that of the i-th outcome of the child.         *)
Same(result, i) ==
    /\ i \in DOMAIN reported
    /\ result.test = reported[i].test
    /\ result.outcome = OutcomeOf(reported[i].report)
Whole(result, i) ==
    /\ Same(result, i)
    /\ result.how = reported[i].report.how
    /\ result.details = Details(reported[i].report)

(* Isolation: every test the child has begun has a result in the parent, in *)
(* its place: the outcome and the details the child reported, or, for the   *)
(* one the child died in, an error. A child that did not die makes the      *)
(* parent raise nothing. All of it unless the program's output got into the *)
(* middle of what the client wrote.                                         *)
Isolated ==
    /\ ~mixed /\ ~died => pc # "raised"
    /\ pc = "lost" /\ ~mixed =>
         /\ \A i \in DOMAIN returned :
              /\ i \in DOMAIN results /\ results[i].test = returned[i]
              /\ \/ Whole(results[i], i)
                 \/ /\ died /\ i = Len(results)
                    /\ Same(results[i], i) \/ results[i].how = "lost"
         /\ \A i \in DOMAIN results \ DOMAIN returned : died /\ results[i].how = "lost"

(* Output without a newline has hidden a line of the client. Then the text  *)
(* of a report, which may read like an outcome, is read as directives, and  *)
(* an outcome of a later test may be tried on the one before it.            *)
Hidden == \E n \in DOMAIN pipe : pipe[n].word = "glued"
Exposed ==
    Hidden /\ \E i \in DOMAIN reported :
      /\ reported[i].report.how = "simple"
      /\ \E line \in ToSet(reported[i].report.message) : Directive(line) \in Outcomes

(* Whatever the output tears or the crash cuts off, no outcome is invented: *)
(* one the parent does not make up itself for a lost connection is one the  *)
(* child reported of that very test, and they come in the child's order.    *)
(* Two things together can break that: a hidden line, and a report's text   *)
(* that reads like an outcome or a label cut off by the crash.              *)
Sure(i) == results[i].how # "lost" /\ (Hidden => received[results[i].opened].newline)
NoneInvented ==
    ~Exposed => \A i, j \in DOMAIN results : i <= j /\ Sure(i) /\ Sure(j) =>
      \E m, n \in DOMAIN reported :
        /\ Same(results[i], m) /\ Same(results[j], n)
        /\ i = j <=> m = n
        /\ m <= n
=============================================================================
