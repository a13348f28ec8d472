---------------------------- MODULE V1SessionMC -----------------------------
(***************************************************************************)
(* Two tests, the label of one a prefix of the other's.                    *)
(***************************************************************************)
EXTENDS V1Session

A == <<"A">>
AB == <<"A", "B">>
Tests == <<A, AB>>

Plain(word) == [word |-> word, how |-> "plain"]
Text(word, said) == [word |-> word, how |-> "simple", message |-> said]
Full(word, said) == [word |-> word, how |-> "content", contents |-> said]
Content(n, chunks) == [name |-> n, chunks |-> Append(chunks, Line(LastChunk, <<>>))]

(* The text of a traceback and the chunks of a content look like directives.*)
SuiteReports == {
    Plain("successful"), Plain("uxsuccess"),
    Text("skip", <<Line("test", AB)>>),
    Text("error", <<Line("success", A), Line("line", A)>>),
    Full("failure", <<Content("log", <<Line("]", <<>>)>>), Content("test", <<>>)>>),
    Full("successful", <<>>)}

Calls == {Line("tags", A), Line("progress", A)}
Printed == {Line("out", A), [Line("out", <<>>) EXCEPT !.newline = FALSE]}
Nothing == {<<>>}
=============================================================================
