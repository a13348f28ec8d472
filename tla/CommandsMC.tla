----------------------------- MODULE CommandsMC -----------------------------
(***************************************************************************)
(* What two programs report, and how the commands are set up.              *)
(***************************************************************************)
EXTENDS Commands

a == "a"
b == "b"
t == <<"t">>
log == <<"log">>

Text(bytes) == [text |-> bytes]
Nothing ==
    [statuses |-> <<>>, attach |-> None, path |-> <<>>, content |-> <<>>,
     file_name |-> <<>>, mimetype |-> <<>>, tags |-> {}]
Say(action, id) == [Nothing EXCEPT !.statuses = <<[action |-> action, id |-> id]>>]
With(run, path, content) == [run EXCEPT !.attach = "file", !.path = path, !.content = content]
Both(p, q) == [x \in {a, b} |-> IF x = a THEN p ELSE q]

Programs == {
    \* two programs attach to one test, one of them ends it; text and a file of the run
    Both(<<Say("inprogress", t), With([Say("fail", t) EXCEPT !.tags = {"x"}], log, <<1, 2, 3, 4>>)>>,
         <<Text(<<9>>), With(Say("inprogress", t), <<"out">>, <<5, 6, 7>>), With(Nothing, log, <<8>>)>>),
    \* a test that exists and runs, ends twice, and an attachment after its end
    Both(<<Say("exists", t), Say("uxsuccess", t), With([Nothing EXCEPT !.statuses = <<>>], log, <<>>)>>,
         <<[Say("inprogress", t) EXCEPT !.tags = {"old"}], Say("skip", t), Say("inprogress", <<"u">>)>>),
    \* ids and names that are paths, in and out of the directory of the test
    Both(<<With(Say("success", t), <<"test.json">>, <<1>>),
           With(Say("inprogress", <<"t", "log">>), <<"", "tmp", "log">>, <<2>>),
           With(Say("xfail", <<"t", "log">>), <<"..", "up">>, <<3>>)>>,
         <<With(Say("success", t), log, <<4>>), Say("success", <<"..", "t">>)>>),
    \* a file where a directory should be, an id that is the parent
    Both(<<With(Say("inprogress", t), log, <<1>>), With(Say("success", t), <<"log", "x">>, <<2>>)>>,
         <<Say("success", <<"t-1">>), Say("fail", <<"..">>)>>),
    \* runs that are refused, the standard input, and one killed half way
    Both(<<[Nothing EXCEPT !.mimetype = <<"text">>], [Nothing EXCEPT !.attach = "missing"],
           With(Say("success", t), log, <<1, 2, 3>>)>>,
         <<[Say("fail", t) EXCEPT !.statuses = @ \o @], [Say("fail", t) EXCEPT !.attach = "-", !.file_name = <<log>>],
           [Say("skip", t) EXCEPT !.attach = "-", !.content = <<4, 5>>]>>)}

Setup(new, gone, times, exists, passthrough, forward, unwrap) ==
    [new |-> new, gone |-> gone, times |-> times, exists |-> exists,
     passthrough |-> passthrough, forward |-> forward, unwrap |-> unwrap]
Options == {
    Setup({}, {}, FALSE, TRUE, TRUE, FALSE, TRUE),
    Setup({"new"}, {"x"}, FALSE, FALSE, FALSE, TRUE, FALSE),
    Setup({"new"}, {"old"}, TRUE, TRUE, TRUE, TRUE, TRUE),
    Setup({}, {"x"}, TRUE, FALSE, TRUE, FALSE, FALSE),
    Setup({}, {}, FALSE, FALSE, FALSE, FALSE, TRUE)}

Out == <<"out">>
OnDisk == {[f \in {} |-> [bytes |-> <<0>>]],
           [f \in {<<"out", "t", "test.json">>, <<"out", "t-1", "test.json">>} |-> [bytes |-> <<0>>]]}
=============================================================================
