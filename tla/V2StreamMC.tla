----------------------------- MODULE V2StreamMC -----------------------------
(***************************************************************************)
(* Instances of V2Stream for TLC: the programs and what they write.        *)
(***************************************************************************)
EXTENDS V2Stream, Checksum

a == "a"
b == "b"

Plain == [timestamp |-> None, test_id |-> None, test_tags |-> {},
          runnable |-> FALSE, mime_type |-> None, file |-> None,
          eof |-> FALSE, route_code |-> None, test_status |-> 0]
Started == [Plain EXCEPT !.test_id = <<<<97>>>>, !.runnable = TRUE, !.test_status = 2]
Passed == [Started EXCEPT !.test_status = 3]
Attached == [Plain EXCEPT !.file = <<[name |-> <<98>>, bytes |-> <<179>>]>>]

(* Text and packets of two programs, none of it damaged. The text has       *)
(* characters of one, two and three bytes, the last with a signature byte   *)
(* in its middle, as in test_signature_middle_utf8_char.                    *)
MixedScript ==
    [w \in {a, b} |->
      IF w = a THEN <<TextItem(<<227, 179, 138>>), PacketItem(Started), PacketItem(Passed)>>
      ELSE <<PacketItem(Attached), TextItem(<<10, 195, 169>>)>>]

(* Programs without a common lock: packets and text tear each other, a      *)
(* program may die inside its packet, and a control character may come to   *)
(* stand where the length of a packet belongs.                              *)
TornScript ==
    [w \in {a, b} |->
      IF w = a THEN <<PacketItem(Started)>>
      ELSE <<TextItem(<<5, 10>>), PacketItem(Attached)>>]

(* A character whose last byte is the signature (U+00F3), then a packet.    *)
LetterScript ==
    [w \in {a} |-> <<TextItem(<<195, 179>>), PacketItem(Passed)>>]
=============================================================================
