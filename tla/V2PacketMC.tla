----------------------------- MODULE V2PacketMC -----------------------------
(***************************************************************************)
(* The empty string, one of two bytes and one with a NUL; files on either  *)
(* side of the 62 bytes where the length of a packet takes a byte more.    *)
(***************************************************************************)
EXTENDS V2Exchange, Checksum

Letter == <<195, 179>>                           \* U+00F3
Texts  == {<<>>, Letter, <<0>>}
Files  == {<<>>, [i \in 1..46 |-> 179]}
Moment == {[seconds |-> 1, microseconds |-> 999999]}

(* Strings with a NUL are in the tags and the names of files.               *)
Made ==
    {c \in Calls({<<>>, Letter}, Files, Moment) :
       c.test_status \in {0, 6} /\ c.eof = ~c.runnable}
      \cup {c \in Calls({Letter, <<0>>}, {<<>>}, Moment) :
              /\ c.test_status = 6 /\ c.eof /\ ~c.runnable
              /\ c.test_id = None /\ c.mime_type = None /\ c.route_code = None}
(* Short packets are enough to have lengths that are within what is left of *)
(* the body, at its end, in the checksum and beyond.                        *)
ChangedCalls ==
    {c \in Made : /\ c.timestamp = None /\ c.test_status = 6 /\ c.test_tags # {}
                  /\ c.file = None \/ c.file[1].bytes = <<>>}
Foreign == {0, 1, 3, 63, 128, 255}
=============================================================================
