----------------------------- MODULE V2Exchange -----------------------------
(***************************************************************************)
(* One packet from a status() call to the call the reader makes of it. The *)
(* packet is read as it was written, or after one byte of its flags or     *)
(* fields was changed and the checksum computed anew: what another         *)
(* implementation could send, and what the tests of v2 send by hand.       *)
(***************************************************************************)
EXTENDS V2Packet, FiniteSets

CONSTANTS
    Strings, Bodies, Times,     \* what the arguments of a call are made of
    Given,          \* the calls
    Altered,        \* those whose packets may be changed
    ForeignBytes    \* what a byte may be changed to

(* The text of a Python string is UTF-8, and a time is one that FMT_32 can  *)
(* pack, in seconds and microseconds.                                       *)
ASSUME ExchangeAssumption ==
    /\ \A s \in Strings : s \in Seq(Byte) /\ WellFormed(s)
    /\ Bodies \subseteq Seq(Byte)
    /\ \A t \in Times :
         /\ t = [seconds |-> t.seconds, microseconds |-> t.microseconds]
         /\ t.seconds \in Nat /\ t.seconds \div 65536 < 65536
         /\ t.microseconds \in Nat /\ t.microseconds < 1000000
    /\ \A c \in Given : c \in Calls(Strings, Bodies, Times) /\ IsFiniteSet(c.test_tags)
    /\ ForeignBytes \subseteq Byte

VARIABLES call,      \* the arguments of status()
          wire,      \* the packet, or <<>>
          changed,   \* whether a byte of it was changed
          answer     \* what the reader made of it, or <<>>
exchangeVars == <<call, wire, changed, answer>>

ExchangeInit == call \in Given /\ wire = <<>> /\ changed = FALSE /\ answer = <<>>

(* A call too long for a packet raises ValueError.                          *)
WriteCall ==
    /\ wire = <<>>
    /\ Len(Fields(call)) + 7 <= MaxBaseLength
    /\ wire' = Packet(call)
    /\ UNCHANGED <<call, changed, answer>>

FieldsOf(packet) ==
    SubSeq(packet, ReadLength(SubSeq(packet, 1, 6)).pos + 1, Len(packet) - 4)

(* The two bytes of flags, or any field: the length stays right.            *)
ChangePacket ==
    /\ wire # <<>> /\ ~changed /\ answer = <<>>
    /\ call \in Altered
    /\ LET flags == FlagsOf(wire)
           fields == FieldsOf(wire)
       IN  \/ \E flag \in {FLAG_TIMESTAMP, FLAG_ROUTE_CODE, FLAG_FILE_CONTENT} :
                /\ ~Has(flags, flag)
                /\ wire' = Seal(flags + flag, fields)
           \/ \E i \in 1..Len(fields), b \in ForeignBytes :
                /\ fields[i] # SIGNATURE
                /\ wire' = Seal(flags, [fields EXCEPT ![i] = b])
    /\ changed' = TRUE
    /\ UNCHANGED <<call, answer>>

ReadCall ==
    /\ wire # <<>> /\ answer = <<>>
    /\ answer' = <<ReadPacket(wire, ReadLength(SubSeq(wire, 1, 6)))>>
    /\ UNCHANGED <<call, wire, changed>>

ExchangeNext == WriteCall \/ ChangePacket \/ ReadCall
ExchangeSpec == ExchangeInit /\ [][ExchangeNext]_exchangeVars

-----------------------------------------------------------------------------
(* Properties.                                                              *)

(* A string with a NUL is written, and refused by the reader.               *)
StringsOf(c) ==
    UNION {ToSet(c.test_id), c.test_tags, ToSet(c.mime_type),
           {f.name : f \in ToSet(c.file)}, ToSet(c.route_code)}
WithNul(c) == \E s \in StringsOf(c) : Contains(s, 0)

(* What status() was given comes out of the reader again, every field with  *)
(* its own value and nothing left over: _write_packet and _parse agree on   *)
(* the order, the presence and the length of the fields.                    *)
RoundTrip ==
    answer # <<>> /\ ~changed /\ ~WithNul(call) =>
        answer[1] = Found(Understood(call), Len(wire) - 4)

(* Whatever the flags and the fields of a packet with a good checksum say,  *)
(* no field of a call that is passed on reaches into the checksum.          *)
FieldsStayInBody ==
    answer # <<>> /\ answer[1].err = "none" => answer[1].pos <= Len(wire) - 4

(* The length a packet carries is its length, its own bytes and the         *)
(* checksum included, on both sides of the 62 bytes where it grows a byte.  *)
LengthIsThePackets ==
    wire # <<>> => ReadLength(SubSeq(wire, 1, 6)).value = Len(wire)
=============================================================================
