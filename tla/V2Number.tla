------------------------------ MODULE V2Number ------------------------------
(***************************************************************************)
(* The variable-length numbers of subunit v2: _encode_number and           *)
(* _parse_varint of v2.py, and the choice of the length of a packet's own  *)
(* length field in _write_packet. The two top bits of the first byte say   *)
(* how many bytes the number has.                                          *)
(***************************************************************************)
EXTENDS Integers, Sequences

MaxNumber == (16384 * 65536) - 1  \* 2^30 - 1: above it _encode_number raises
MaxBaseLength == (64 * 65536) - 4 \* above it _write_packet raises ValueError

EncodeNumber(v) ==
    IF v < 64 THEN <<v>>
    ELSE IF v < 16384 THEN <<64 + v \div 256, v % 256>>
    ELSE IF v < (64 * 65536)
      THEN <<128 + v \div 65536, (v \div 256) % 256, v % 256>>
    ELSE <<192 + v \div (256 * 65536), (v \div 65536) % 256,
           (v \div 256) % 256, v % 256>>

(* What the parser can answer: a value with the position after it, a        *)
(* ParseError, or the struct.error of unpacking fewer bytes than it needs.  *)
Found(value, pos) == [err |-> "none", value |-> value, pos |-> pos]
ParseError == [err |-> "ParseError", value |-> 0, pos |-> 0]
StructError == [err |-> "struct.error", value |-> 0, pos |-> 0]

(* The number at position pos (counted from 0, as in Python) that has       *)
(* extra bytes after its first one.                                         *)
NumberValue(data, pos, extra) ==
    LET high == data[pos + 1] % 64
    IN  IF extra = 0 THEN high
        ELSE IF extra = 1 THEN high * 256 + data[pos + 2]
        ELSE IF extra = 2
          THEN high * 65536 + data[pos + 2] * 256 + data[pos + 3]
        ELSE high * (256 * 65536) + data[pos + 2] * 65536
               + data[pos + 3] * 256 + data[pos + 4]

ParseNumber(data, pos, max3Bytes) ==
    IF pos >= Len(data) THEN StructError
    ELSE LET extra == data[pos + 1] \div 64
         IN  IF extra = 3 /\ max3Bytes THEN ParseError
             ELSE IF pos + 1 + extra > Len(data) THEN StructError
             ELSE Found(NumberValue(data, pos, extra), pos + 1 + extra)

(* Mutant of LengthLength: the field takes as many bytes as base alone.     *)
LengthLengthOfBase(base) ==
    IF base < 64 THEN 1 ELSE IF base < 16384 THEN 2 ELSE 3

(* How many bytes the length field of a packet takes, when everything else  *)
(* in the packet takes base bytes.                                          *)
LengthLength(base) ==
    IF base <= 62 THEN 1 ELSE IF base <= 16381 THEN 2 ELSE 3

(* The length field itself: it counts its own bytes.                        *)
LengthField(base) == EncodeNumber(base + LengthLength(base))
=============================================================================
