----------------------------- MODULE V1ServerMC -----------------------------
(***************************************************************************)
(* Streams for the v1 parser.                                              *)
(***************************************************************************)
EXTENDS V1Server

A == <<"A">>
AB == <<"A", "B">>

Heads == {Line("test", A), Line("testing", AB)}
Bare == {Line("success", A), Line("failure", AB), Line("xfail", A \o <<" ">>), Line("uxsuccess", A),
         Line("", A), Line("error", <<Bad>>)}
Opening == {Line("error", A \o Simple), Line("skip", AB \o Simple), Line("successful", A \o Multipart)}
Other == {Line("progress", <<"1">>), Line("time", <<Bad>>), Line("tags", A),
          Line(" ]", A), EndMarker, Line("success", <<>>), Line("test", <<Bad>>)}
Any == Heads \cup Bare \cup Opening \cup Other
Last == UNION {Torn(line) : line \in Heads \cup Bare \cup Opening \cup Other}

(* Parts of details: the type, the name and the chunks of a content.        *)
Type == {Line("Content-Type:", <<"t", "/", "p">>), Line("Content-Type:", <<"t">>)}
Part == {Line("log", <<>>), Line("test", A), EndMarker, Line("", <<Bad>>)}

Streams == {
    \* lines of every kind, in any order, the last torn
    <<Any, Any, Any, Any \cup Last>>,
    \* details, two contents with the same name or not
    <<{Line("test", A)}, {Line("failure", A \o Multipart)}, Type, Part, Part, Part \cup Type,
      Part \cup Type, Part, Part, {EndMarker}>>,
    \* text details, then another test
    <<{Line("test", A)}, {Line("failure", A \o Simple)}, Other \cup Bare, Other \cup Bare,
      Other, Heads, Bare \cup Last>>}
=============================================================================
