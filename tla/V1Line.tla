------------------------------- MODULE V1Line -------------------------------
(***************************************************************************)
(* A line of a subunit v1 stream, as the parser tells lines apart: its     *)
(* first word without the colons, what comes after the word and one space, *)
(* and whether it ends in a newline, as every line but the last of a       *)
(* stream does. What comes after is a sequence of letters and marks, so    *)
(* that a line may be cut off anywhere.                                    *)
(***************************************************************************)
EXTENDS Sequences, Naturals

Line(word, rest) == [word |-> word, rest |-> rest, newline |-> TRUE]

(* A letter an argument may not have: a byte that is no UTF-8 in a name, a  *)
(* tag or a label, anything but a number or a time where one belongs.       *)
Bad == "bad"
Readable(text) == \A i \in DOMAIN text : text[i] # Bad

Outcomes == {"error", "failure", "skip", "success", "xfail", "uxsuccess"}

(* `cmd in self._skip_sym` looks for a part of b'skip': unlike the other    *)
(* symbols, that one is not a tuple.                                        *)
SkipWords == {"skip", "", "s", "k", "i", "p", "sk", "ki", "ip", "ski", "kip"}

Means(word) ==
    CASE word \in {"test", "testing"} -> "test"
      [] word \in {"error", "failure", "progress", "tags", "time", "xfail", "uxsuccess"} -> word
      [] word \in SkipWords -> "skip"
      [] word \in {"success", "successful"} -> "success"
      [] OTHER -> "none"

(* A directive has an argument and is not indented.                         *)
Indented == {" ]", " "}
Directive(line) ==
    IF line.word \in Indented \/ \A i \in DOMAIN line.rest : line.rest[i] = " "
      THEN "none" ELSE Means(line.word)

(* line[offset:-1]: what precedes the last byte, newline or not.            *)
Name(line) ==
    IF line.newline \/ line.rest = <<>> THEN line.rest
    ELSE SubSeq(line.rest, 1, Len(line.rest) - 1)

(* Numbers and tags are read to the end, times and labels are not.          *)
Argument(line) ==
    IF Directive(line) \in {"progress", "tags"} THEN line.rest ELSE Name(line)

(* What follows the name of a test whose outcome comes with details.        *)
Simple == <<" ", "[">>
Multipart == <<" ", "[", " ", "multipart">>

EndMarker == Line("]", <<>>)
Unquoted(line) == IF line.word = " ]" THEN [line EXCEPT !.word = "]"] ELSE line

(* A field, a space and a type with a single slash.                         *)
IsContentType(line) ==
    \E i \in DOMAIN Name(line) :
      /\ Name(line)[i] = "/"
      /\ \A j \in DOMAIN Name(line) : Name(line)[j] = "/" => j = i

(* The stream ended inside the line.                                        *)
Torn(line) ==
    {[line EXCEPT !.rest = SubSeq(@, 1, n), !.newline = FALSE] : n \in 0..Len(line.rest)}
=============================================================================
