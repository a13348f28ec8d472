------------------------------ MODULE V2Proofs ------------------------------
(***************************************************************************)
(* Version 2. One packet, for all strings, bodies, times and tags: it reads*)
(* as what was written, carries its own length, and no field is read out of*)
(* its checksum. The stream, whatever the programs write, however their    *)
(* writes tear each other and whenever they die, and whatever Crc and the  *)
(* codec answer: the reader loses no byte and reads none twice, but for the*)
(* signature it may take again.                                            *)
(***************************************************************************)
EXTENDS V2Exchange, V2Stream, FiniteSetTheorems, SequenceTheorems, FunctionTheorems, TLAPS

(* Induction over the numbers, and FlattenSeq.                              *)
Numbers == INSTANCE FoldProofs WITH Step <- \o

-----------------------------------------------------------------------------
(* Numbers.                                                                 *)

(* The encoding of a number, by the number of bytes it takes.               *)
LEMMA Encodings ==
    ASSUME NEW v \in Nat, v <= MaxNumber
    PROVE  /\ v < 64 => EncodeNumber(v) = <<v>>
           /\ v >= 64 /\ v < 16384 =>
                EncodeNumber(v) = <<64 + v \div 256, v % 256>>
           /\ v >= 16384 /\ v < 64 * 65536 =>
                EncodeNumber(v) = <<128 + v \div 65536,
                                    (v \div 256) % 256, v % 256>>
           /\ v >= 64 * 65536 =>
                EncodeNumber(v) = <<192 + v \div (256 * 65536),
                                    (v \div 65536) % 256,
                                    (v \div 256) % 256, v % 256>>
BY Z3 DEF EncodeNumber

(* The digits of a number, base 256, give the number back.                  *)
LEMMA Digits ==
    ASSUME NEW v \in Nat
    PROVE  /\ (v \div 256) * 256 + (v % 256) = v
           /\ (v \div 65536) * 65536 + ((v \div 256) % 256) * 256
                + (v % 256) = v
           /\ (v \div (256 * 65536)) * (256 * 65536)
                + ((v \div 65536) % 256) * 65536
                + ((v \div 256) % 256) * 256 + (v % 256) = v
           /\ v % 256 \in 0..255
           /\ (v \div 256) % 256 \in 0..255
           /\ (v \div 65536) % 256 \in 0..255
OBVIOUS

(* The two type bits of a first byte and the six bits of the number it      *)
(* holds can be told apart again.                                           *)
LEMMA FirstByte ==
    ASSUME NEW high \in 0..63
    PROVE  /\ high \div 64 = 0 /\ high % 64 = high
           /\ (64 + high) \div 64 = 1 /\ (64 + high) % 64 = high
           /\ (128 + high) \div 64 = 2 /\ (128 + high) % 64 = high
           /\ (192 + high) \div 64 = 3 /\ (192 + high) % 64 = high
OBVIOUS

(* The bound of each case of the encoding is what keeps the number's top    *)
(* digit out of the two type bits.                                          *)
LEMMA TopDigit ==
    ASSUME NEW v \in Nat, v <= MaxNumber
    PROVE  /\ v < 16384 => v \div 256 \in 0..63
           /\ v < 64 * 65536 => v \div 65536 \in 0..63
           /\ v \div (256 * 65536) \in 0..63
BY DEF MaxNumber

(* Bytes at a place of a body, counted from 0.                              *)
At(body, at, bytes) ==
    /\ at + Len(bytes) <= Len(body)
    /\ \A i \in 1..Len(bytes) : body[at + i] = bytes[i]

(* _parse_varint reads back every number _encode_number writes and consumes *)
(* exactly its bytes, wherever they stand and whatever follows them; the    *)
(* length field of a packet (max_3_bytes) is refused exactly when it needs  *)
(* four bytes.                                                              *)
THEOREM NumberRoundTrip ==
    ASSUME NEW body, Len(body) \in Nat, NEW at \in Nat, NEW v \in Nat, v <= MaxNumber,
           At(body, at, EncodeNumber(v)), NEW max3Bytes \in BOOLEAN
    PROVE  ParseNumber(body, at, max3Bytes) =
             IF max3Bytes /\ v >= 64 * 65536 THEN ParseError
             ELSE Found(v, at + Len(EncodeNumber(v)))
<1> DEFINE code == EncodeNumber(v)
<1>1. /\ at + Len(code) <= Len(body)
      /\ \A i \in 1..Len(code) : body[at + i] = code[i]
  BY DEF At
<1>2. CASE v < 64
  <2>1. code = <<v>>
    BY <1>2, Encodings
  <2> HIDE DEF code
  <2>2. body[at + 1] = v /\ Len(code) = 1
    BY <1>1, <2>1
  <2>3. body[at + 1] \div 64 = 0 /\ body[at + 1] % 64 = v
    BY <1>2, <2>2
  <2>4. NumberValue(body, at, 0) = v
    BY <2>3 DEF NumberValue
  <2>5. ParseNumber(body, at, max3Bytes) = Found(v, at + 1)
    BY <1>1, <2>2, <2>3, <2>4 DEF ParseNumber
  <2> QED BY <1>2, <2>2, <2>5 DEF code
<1>3. CASE v >= 64 /\ v < 16384
  <2>1. code = <<64 + v \div 256, v % 256>>
    BY <1>3, Encodings
  <2> HIDE DEF code
  <2>2. PICK h \in 0..63, z \in Int : h = v \div 256 /\ z = v % 256
    BY <1>3, TopDigit
  <2>3. body[at + 1] = 64 + h /\ body[at + 2] = z /\ Len(code) = 2
    BY <1>1, <2>1, <2>2
  <2>4. body[at + 1] \div 64 = 1 /\ body[at + 1] % 64 = h
    BY <2>3, FirstByte
  <2>5. NumberValue(body, at, 1) = v
    <3>1. NumberValue(body, at, 1) = h * 256 + z
      BY <2>3, <2>4 DEF NumberValue
    <3> QED BY <2>2, <3>1, Digits
  <2>6. ParseNumber(body, at, max3Bytes) = Found(v, at + 2)
    BY <1>1, <2>3, <2>4, <2>5 DEF ParseNumber
  <2> QED BY <1>3, <2>3, <2>6 DEF code
<1>4. CASE v >= 16384 /\ v < 64 * 65536
  <2>1. code = <<128 + v \div 65536, (v \div 256) % 256, v % 256>>
    BY <1>4, Encodings
  <2> HIDE DEF code
  <2>2. PICK h \in 0..63, y \in Int, z \in Int :
          h = v \div 65536 /\ y = (v \div 256) % 256 /\ z = v % 256
    BY <1>4, TopDigit
  <2>3. body[at + 1] = 128 + h /\ body[at + 2] = y /\ body[at + 3] = z /\ Len(code) = 3
    <3>1. code = <<128 + h, y, z>> BY <2>1, <2>2
    <3> QED BY <1>1, <3>1
  <2>4. body[at + 1] \div 64 = 2 /\ body[at + 1] % 64 = h
    BY <2>3, FirstByte
  <2>5. NumberValue(body, at, 2) = v
    <3>1. NumberValue(body, at, 2) = h * 65536 + y * 256 + z
      BY <2>3, <2>4 DEF NumberValue
    <3>2. h * 65536 + y * 256 + z = v
      BY <2>2, Digits
    <3> QED BY <3>1, <3>2
  <2>6. ParseNumber(body, at, max3Bytes) = Found(v, at + 3)
    BY <1>1, <2>3, <2>4, <2>5 DEF ParseNumber
  <2> QED BY <1>4, <2>3, <2>6 DEF code
<1>5. CASE v >= 64 * 65536
  <2>1. code = <<192 + v \div (256 * 65536), (v \div 65536) % 256,
                 (v \div 256) % 256, v % 256>>
    BY <1>5, Encodings
  <2> HIDE DEF code
  <2>2. PICK h \in 0..63, x \in Int, y \in Int, z \in Int :
          /\ h = v \div (256 * 65536) /\ x = (v \div 65536) % 256
          /\ y = (v \div 256) % 256 /\ z = v % 256
    BY TopDigit
  <2>3. /\ body[at + 1] = 192 + h /\ body[at + 2] = x
        /\ body[at + 3] = y /\ body[at + 4] = z /\ Len(code) = 4
    <3>1. code = <<192 + h, x, y, z>> BY <2>1, <2>2
    <3> QED BY <1>1, <3>1
  <2>4. body[at + 1] \div 64 = 3 /\ body[at + 1] % 64 = h
    BY <2>3, FirstByte
  <2>5. NumberValue(body, at, 3) = v
    <3>1. NumberValue(body, at, 3) =
            (body[at + 1] % 64) * (256 * 65536) + body[at + 2] * 65536
              + body[at + 3] * 256 + body[at + 4]
      BY DEF NumberValue
    <3>2. NumberValue(body, at, 3) = h * (256 * 65536) + x * 65536 + y * 256 + z
      BY <2>3, <2>4, <3>1
    <3>3. h * (256 * 65536) + x * 65536 + y * 256 + z = v
      BY <2>2, Digits
    <3> QED BY <3>2, <3>3
  <2>6. ParseNumber(body, at, max3Bytes) =
          IF max3Bytes THEN ParseError ELSE Found(v, at + 4)
    BY <1>1, <2>3, <2>4, <2>5 DEF ParseNumber
  <2> QED BY <1>5, <2>3, <2>6 DEF code
<1> QED BY <1>2, <1>3, <1>4, <1>5

(* The length field of every packet _write_packet does not refuse has the   *)
(* number of bytes it counted for itself, so that the length it holds is    *)
(* the length of the packet, and never more than the three bytes the reader *)
(* accepts: the boundaries 62, 16381 and 4194300 are right.                 *)
THEOREM LengthCountsItself ==
    ASSUME NEW base \in Nat, base <= MaxBaseLength
    PROVE  /\ Len(LengthField(base)) = LengthLength(base)
           /\ base + LengthLength(base) < 64 * 65536
<1> DEFINE total == base + LengthLength(base)
<1>1. base <= 64 * 65536 - 4
  BY DEF MaxBaseLength
<1>2. /\ base <= 62 => LengthLength(base) = 1
      /\ base > 62 /\ base <= 16381 => LengthLength(base) = 2
      /\ base > 16381 => LengthLength(base) = 3
  BY <1>1 DEF LengthLength
<1>3. total \in Nat /\ total < 64 * 65536
  BY <1>1, <1>2
<1>4. total <= MaxNumber
  BY <1>3 DEF MaxNumber
<1>5. LengthField(base) = EncodeNumber(total)
  BY DEF LengthField
<1> HIDE DEF total
<1>6. CASE base <= 62
  <2>1. total < 64
    BY <1>1, <1>2, <1>6 DEF total
  <2>2. EncodeNumber(total) = <<total>>
    BY <2>1, <1>3, <1>4, Encodings
  <2>3. Len(LengthField(base)) = 1
    BY <2>2, <1>5
  <2>4. QED BY <2>3, <1>2, <1>3, <1>6 DEF total
<1>7. CASE base > 62 /\ base <= 16381
  <2>1. total >= 64 /\ total < 16384
    BY <1>1, <1>2, <1>7 DEF total
  <2>2. EncodeNumber(total) = <<64 + total \div 256, total % 256>>
    BY <2>1, <1>3, <1>4, Encodings
  <2>3. Len(LengthField(base)) = 2
    BY <2>2, <1>5
  <2>4. QED BY <2>3, <1>2, <1>3, <1>7 DEF total
<1>8. CASE base > 16381
  <2>1. total >= 16384 /\ total < 64 * 65536
    BY <1>1, <1>2, <1>3, <1>8 DEF total
  <2>2. EncodeNumber(total) = <<128 + total \div 65536,
                                (total \div 256) % 256, total % 256>>
    BY <2>1, <1>3, <1>4, Encodings
  <2>3. Len(LengthField(base)) = 3
    BY <2>2, <1>5
  <2>4. QED BY <2>3, <1>2, <1>3, <1>8 DEF total
<1>9. QED BY <1>1, <1>6, <1>7, <1>8

-----------------------------------------------------------------------------
(* What the readers answer.                                                 *)

Failures == [err : {"ParseError", "struct.error"}, value : {0}, pos : {0}]
Answers(V) == [err : {"none"}, value : V, pos : Nat] \cup Failures

(* The reader has kept to the bytes it was given.                           *)
Ends(body, read) == read.err = "none" => read.pos \in 0..Len(body)

LEMMA BytesAt ==
  ASSUME NEW body \in Seq(Byte), NEW i \in 1..Len(body)
  PROVE  body[i] \in 0..255
<1>1. body[i] \in Byte OBVIOUS
<1> QED BY <1>1 DEF Byte

LEMMA NumberIs ==
  ASSUME NEW body \in Seq(Byte), NEW at \in Nat, NEW max3Bytes \in BOOLEAN
  PROVE  /\ ParseNumber(body, at, max3Bytes) \in Answers(Nat)
         /\ Ends(body, ParseNumber(body, at, max3Bytes))
<1> DEFINE extra == body[at + 1] \div 64
<1>0. Len(body) \in Nat OBVIOUS
<1>1. StructError \in Failures /\ ParseError \in Failures
  BY DEF StructError, ParseError, Failures
<1>2. CASE at >= Len(body)
  BY <1>0, <1>1, <1>2 DEF ParseNumber, Answers, Ends, StructError
<1>3. CASE at < Len(body)
  <2>1. body[at + 1] \in 0..255 BY <1>0, <1>3, BytesAt
  <2>2. extra \in 0..3 /\ body[at + 1] % 64 \in Nat
    <3>1. \A byte \in 0..255 : byte \div 64 \in 0..3 /\ byte % 64 \in Nat OBVIOUS
    <3> QED BY <2>1, <3>1
  <2>3. CASE extra = 3 /\ max3Bytes
    BY <1>0, <1>1, <1>3, <2>3 DEF ParseNumber, Answers, Ends, ParseError
  <2>4. CASE ~(extra = 3 /\ max3Bytes) /\ at + 1 + extra > Len(body)
    <3>1. ParseNumber(body, at, max3Bytes) = StructError
      BY <1>0, <1>3, <2>4 DEF ParseNumber
    <3> QED BY <1>1, <3>1 DEF Answers, Ends, StructError
  <2>5. CASE ~(extra = 3 /\ max3Bytes) /\ at + 1 + extra <= Len(body)
    <3>1. ParseNumber(body, at, max3Bytes) = Found(NumberValue(body, at, extra), at + 1 + extra)
      BY <1>0, <1>3, <2>2, <2>5 DEF ParseNumber
    <3>2. ASSUME NEW i \in 1 .. extra + 1 PROVE body[at + i] \in Nat
      <4>1. at + i \in 1..Len(body) BY <1>0, <2>2, <2>5
      <4>2. body[at + i] \in 0..255 BY <4>1, BytesAt
      <4>3. \A byte \in 0..255 : byte \in Nat OBVIOUS
      <4> QED BY <4>2, <4>3
    <3> HIDE DEF extra
    <3>3. NumberValue(body, at, extra) \in Nat
      <4>1. CASE extra = 0 BY <2>2, <4>1 DEF NumberValue
      <4>2. CASE extra = 1
        <5>1. body[at + 2] \in Nat BY <3>2, <4>2
        <5>2. NumberValue(body, at, 1) = (body[at + 1] % 64) * 256 + body[at + 2]
          BY DEF NumberValue
        <5>3. PICK h \in Nat, x \in Nat : h = body[at + 1] % 64 /\ x = body[at + 2]
          BY <2>2, <5>1
        <5>4. NumberValue(body, at, 1) = h * 256 + x BY <5>2, <5>3
        <5>5. h * 256 + x \in Nat OBVIOUS
        <5> QED BY <4>2, <5>4, <5>5
      <4>3. CASE extra = 2
        <5>1. body[at + 2] \in Nat /\ body[at + 3] \in Nat BY <3>2, <4>3
        <5>2. NumberValue(body, at, 2) =
                (body[at + 1] % 64) * 65536 + body[at + 2] * 256 + body[at + 3]
          BY DEF NumberValue
        <5>3. PICK h \in Nat : h = body[at + 1] % 64 BY <2>2
        <5>4. PICK x \in Nat, y \in Nat : x = body[at + 2] /\ y = body[at + 3] BY <5>1
        <5>5. NumberValue(body, at, 2) = h * 65536 + x * 256 + y BY <5>2, <5>3, <5>4
        <5>6. h * 65536 + x * 256 + y \in Nat OBVIOUS
        <5> QED BY <4>3, <5>5, <5>6
      <4>4. CASE extra = 3
        <5>1. body[at + 2] \in Nat /\ body[at + 3] \in Nat /\ body[at + 4] \in Nat
          BY <3>2, <4>4
        <5>2. NumberValue(body, at, 3) =
                (body[at + 1] % 64) * (256 * 65536) + body[at + 2] * 65536
                  + body[at + 3] * 256 + body[at + 4]
          BY DEF NumberValue
        <5>3. PICK h \in Nat : h = body[at + 1] % 64 BY <2>2
        <5>4. PICK x \in Nat, y \in Nat, z \in Nat :
                x = body[at + 2] /\ y = body[at + 3] /\ z = body[at + 4]
          BY <5>1
        <5>5. NumberValue(body, at, 3) = h * (256 * 65536) + x * 65536 + y * 256 + z
          BY <5>2, <5>3, <5>4
        <5>6. h * (256 * 65536) + x * 65536 + y * 256 + z \in Nat OBVIOUS
        <5> QED BY <4>4, <5>5, <5>6
      <4> QED BY <2>2, <4>1, <4>2, <4>3, <4>4
    <3>4. at + 1 + extra \in 0..Len(body) BY <1>0, <2>2, <2>5
    <3> QED BY <1>0, <3>1, <3>3, <3>4 DEF Found, Answers, Ends
  <2> QED BY <1>0, <2>2, <2>3, <2>4, <2>5
<1> QED BY <1>0, <1>2, <1>3

LEMMA ReadNumberIs ==
  ASSUME NEW body \in Seq(Byte), NEW at \in Nat
  PROVE  ReadNumber(body, at) \in Answers(Nat) /\ Ends(body, ReadNumber(body, at))
BY NumberIs DEF ReadNumber

LEMMA BytesAre ==
  ASSUME NEW body \in Seq(Byte), NEW at \in Nat, NEW length \in Nat
  PROVE  /\ ReadBytes(body, at, length) \in Answers(Seq(Byte))
         /\ Ends(body, ReadBytes(body, at, length))
<1>0. Len(body) \in Nat OBVIOUS
<1>1. CASE at + length > Len(body)
  BY <1>1 DEF ReadBytes, ParseError, Answers, Failures, Ends
<1>2. CASE at + length <= Len(body)
  <2>1. \A i \in at + 1 .. at + length : body[i] \in Byte BY <1>0, <1>2
  <2>2. SubSeq(body, at + 1, at + length) \in Seq(Byte) BY <2>1, SubSeqProperties
  <2>3. ReadBytes(body, at, length) =
          Found(SubSeq(body, at + 1, at + length), at + length)
    BY <1>0, <1>2 DEF ReadBytes
  <2>4. at + length \in 0..Len(body) BY <1>0, <1>2
  <2> QED BY <2>2, <2>3, <2>4 DEF Found, Answers, Ends
<1> QED BY <1>0, <1>1, <1>2

LEMMA SizedBy ==
  ASSUME NEW body, NEW at, NEW length, length = ReadNumber(body, at),
         NEW bytes, bytes = ReadBytes(body, length.pos, length.value)
  PROVE  ReadSized(body, at) = IF length.err # "none" THEN length ELSE bytes
BY DEF ReadSized, Then

LEMMA SizedIs ==
  ASSUME NEW body \in Seq(Byte), NEW at \in Nat
  PROVE  /\ ReadSized(body, at) \in Answers(Seq(Byte))
         /\ Ends(body, ReadSized(body, at))
<1>1. PICK length : length = ReadNumber(body, at) OBVIOUS
<1>2. PICK bytes : bytes = ReadBytes(body, length.pos, length.value) OBVIOUS
<1>3. ReadSized(body, at) = IF length.err # "none" THEN length ELSE bytes
  BY <1>1, <1>2, SizedBy
<1>4. length \in Answers(Nat) /\ Ends(body, length) BY <1>1, ReadNumberIs
<1>5. CASE length.err = "none"
  <2>1. length.pos \in Nat /\ length.value \in Nat BY <1>4, <1>5 DEF Answers, Failures
  <2> QED BY <1>2, <1>3, <1>5, <2>1, BytesAre
<1>6. CASE length.err # "none"
  <2>1. length \in Failures BY <1>4, <1>6 DEF Answers
  <2> QED BY <1>3, <1>4, <1>6, <2>1 DEF Answers
<1> QED BY <1>5, <1>6

Refused(text) == Contains(text, 0) \/ ~WellFormed(text)

LEMMA Utf8By ==
  ASSUME NEW body, NEW at, NEW text, text = ReadSized(body, at)
  PROVE  ReadUtf8(body, at) =
           IF text.err # "none" THEN text
           ELSE IF Refused(text.value) THEN ParseError ELSE text
BY DEF ReadUtf8, Then, Refused

LEMMA Utf8Is ==
  ASSUME NEW body \in Seq(Byte), NEW at \in Nat
  PROVE  /\ ReadUtf8(body, at) \in Answers(Seq(Byte))
         /\ Ends(body, ReadUtf8(body, at))
<1>1. PICK text : text = ReadSized(body, at) OBVIOUS
<1>2. text \in Answers(Seq(Byte)) /\ Ends(body, text) BY <1>1, SizedIs
<1>3. ParseError \in Answers(Seq(Byte)) /\ Ends(body, ParseError)
  BY DEF ParseError, Answers, Failures, Ends
<1> QED BY <1>1, <1>2, <1>3, Utf8By

LEMMA FileEnds ==
  ASSUME NEW body \in Seq(Byte), NEW at \in Nat
  PROVE  Ends(body, ReadFile(body, at))
<1>1. PICK name : name = ReadUtf8(body, at) OBVIOUS
<1>2. PICK inner : inner = ReadSized(body, name.pos) OBVIOUS
<1>3. ReadFile(body, at) = IF name.err = "none" THEN ReadContent(body, name) ELSE name
  BY <1>1 DEF ReadFile, Then
<1>4. ReadContent(body, name) =
        IF inner.err = "none"
          THEN Found([name |-> name.value, bytes |-> inner.value], inner.pos)
        ELSE inner
  BY <1>2 DEF ReadContent, Then
<1>5. name \in Answers(Seq(Byte)) /\ Ends(body, name) BY <1>1, Utf8Is
<1>6. CASE name.err = "none"
  <2>1. name.pos \in Nat BY <1>5, <1>6 DEF Answers, Failures
  <2>2. Ends(body, inner) BY <1>2, <2>1, SizedIs
  <2> QED BY <1>3, <1>4, <1>6, <2>2 DEF Ends, Found
<1>7. CASE name.err # "none" BY <1>3, <1>5, <1>7
<1> QED BY <1>6, <1>7

LEMMA TimestampEnds ==
  ASSUME NEW body \in Seq(Byte), NEW at \in Nat
  PROVE  Ends(body, ReadTimestamp(body, at))
<1>1. PICK nano : nano = ReadNumber(body, at + 4) OBVIOUS
<1>2. Ends(body, nano)
  <2>1. at + 4 \in Nat OBVIOUS
  <2> QED BY <1>1, <2>1, ReadNumberIs
<1>3. PICK t : t = Instant(((body[at + 1] * 256 + body[at + 2]) * 256
                              + body[at + 3]) * 256 + body[at + 4], nano.value)
  OBVIOUS
<1>4. \/ ReadTimestamp(body, at) = StructError
      \/ ReadTimestamp(body, at) = IF nano.err = "none" THEN Found(t, nano.pos) ELSE nano
  BY <1>1, <1>3 DEF ReadTimestamp, Then
<1>5. Ends(body, StructError) BY DEF Ends, StructError
<1>6. Ends(body, IF nano.err = "none" THEN Found(t, nano.pos) ELSE nano)
  BY <1>2 DEF Ends, Found
<1> QED BY <1>4, <1>5, <1>6

-----------------------------------------------------------------------------
(* The loop over the tags.                                                  *)

TagSets == SUBSET Seq(Byte)

LEMMA AddTagBy ==
  ASSUME NEW body, NEW before, NEW tag, tag = ReadUtf8(body, before.pos)
  PROVE  AddTag(body, before) =
           IF tag.err # "none" THEN tag ELSE Found(before.value \cup {tag.value}, tag.pos)
BY DEF AddTag, Then

LEMMA NextTagBy ==
  ASSUME NEW body, NEW before, NEW next, next = AddTag(body, before)
  PROVE  NextTag(body, before) = IF before.err # "none" THEN before ELSE next
BY DEF NextTag, Then

LEMMA NextTagIs ==
  ASSUME NEW body \in Seq(Byte), NEW before \in Answers(TagSets)
  PROVE  /\ NextTag(body, before) \in Answers(TagSets)
         /\ Ends(body, before) => Ends(body, NextTag(body, before))
<1>1. PICK tag : tag = ReadUtf8(body, before.pos) OBVIOUS
<1>2. PICK next : next = AddTag(body, before) OBVIOUS
<1>3. NextTag(body, before) = IF before.err # "none" THEN before ELSE next
  BY <1>2, NextTagBy
<1>4. next = IF tag.err # "none" THEN tag ELSE Found(before.value \cup {tag.value}, tag.pos)
  BY <1>1, <1>2, AddTagBy
<1>5. CASE before.err = "none"
  <2>1. before.pos \in Nat /\ before.value \in TagSets BY <1>5 DEF Answers, Failures
  <2>2. tag \in Answers(Seq(Byte)) /\ Ends(body, tag) BY <1>1, <2>1, Utf8Is
  <2>3. CASE tag.err # "none"
    <3>1. tag \in Failures BY <2>2, <2>3 DEF Answers
    <3> QED BY <1>3, <1>4, <1>5, <2>2, <2>3, <3>1 DEF Answers
  <2>4. CASE tag.err = "none"
    <3>1. tag.pos \in Nat /\ tag.value \in Seq(Byte) BY <2>2, <2>4 DEF Answers, Failures
    <3>2. before.value \cup {tag.value} \in TagSets BY <2>1, <3>1 DEF TagSets
    <3>3. Ends(body, Found(before.value \cup {tag.value}, tag.pos))
      BY <2>2, <2>4 DEF Ends, Found
    <3>4. Found(before.value \cup {tag.value}, tag.pos) \in Answers(TagSets)
      BY <3>1, <3>2 DEF Found, Answers
    <3> QED BY <1>3, <1>4, <1>5, <2>4, <3>3, <3>4
  <2> QED BY <2>3, <2>4
<1>6. CASE before.err # "none" BY <1>3, <1>6
<1> QED BY <1>5, <1>6

(* The loop, turn by turn.                                                  *)
Turns(body, count) == IF count.value > Len(body) THEN Len(body) + 1 ELSE count.value
IsLoop(body, count, after) ==
    /\ after \in [0..Turns(body, count) -> Answers(TagSets)]
    /\ after[0] = Found({}, count.pos)
    /\ \A i \in 1..Turns(body, count) : after[i] = NextTag(body, after[i - 1])

LEMMA TagLoop ==
  ASSUME NEW body \in Seq(Byte), NEW count, count.value \in Nat, count.pos \in Nat
  PROVE  \E after : IsLoop(body, count, after)
                      /\ TagsAfter(body, count) = after[Turns(body, count)]
<1> DEFINE n == Turns(body, count)
           X == Answers(TagSets)
           first == Found({}, count.pos)
           step == [i \in 1..n |-> [before \in X |-> NextTag(body, before)]]
           loop == CHOOSE after : after = [i \in 0..n |->
                     IF i = 0 THEN first ELSE NextTag(body, after[i - 1])]
<1>1. n \in Nat BY DEF Turns
<1>2. first \in X
  <2>1. {} \in TagSets BY DEF TagSets
  <2> QED BY <2>1 DEF Found, Answers
<1>3. \A before \in X : NextTag(body, before) \in X BY NextTagIs
<1> HIDE DEF X, n, first
<1>4. step \in Numbers!Steps(X, n) BY <1>3 DEF Numbers!Steps
<1>5. PICK f \in [0..n -> X] : f[0] = first /\ \A i \in 1..n : f[i] = step[i][f[i - 1]]
  <2>1. \E f : Numbers!Recurs(f, X, first, n, step)
    <3> HIDE DEF step
    <3> QED BY <1>1, <1>2, <1>4, Numbers!Recursion
  <2> QED BY <2>1 DEF Numbers!Recurs
<1>6. \A i \in 1..n : f[i] = NextTag(body, f[i - 1])
  <2> SUFFICES ASSUME NEW i \in 1..n PROVE f[i] = NextTag(body, f[i - 1]) OBVIOUS
  <2>1. i - 1 \in 0..n BY <1>1
  <2>2. f[i - 1] \in X BY <2>1
  <2> QED BY <1>5, <2>2
<1>7. f = [i \in 0..n |-> IF i = 0 THEN first ELSE NextTag(body, f[i - 1])]
  <2>1. \A i \in 0..n : f[i] = IF i = 0 THEN first ELSE NextTag(body, f[i - 1])
    BY <1>1, <1>5, <1>6
  <2> QED BY <2>1
<1>8. loop = [i \in 0..n |-> IF i = 0 THEN first ELSE NextTag(body, loop[i - 1])]
  BY <1>7, Zenon
<1> HIDE DEF loop
<1>9. loop[0] = first /\ \A i \in 1..n : loop[i] = NextTag(body, loop[i - 1])
  <2>1. 0 \in 0..n /\ \A i \in 1..n : i \in 0..n /\ i # 0 BY <1>1
  <2> QED BY <1>8, <2>1
<1>10. \A i \in 0..n : loop[i] = f[i]
  <2> DEFINE A == {i \in Nat : i <= n => loop[i] = f[i]}
  <2>1. 0 \in A BY <1>5, <1>9
  <2>2. ASSUME NEW i \in A PROVE i + 1 \in A
    <3> SUFFICES ASSUME i + 1 <= n PROVE loop[i + 1] = f[i + 1] OBVIOUS
    <3>1. i \in Nat /\ i <= n /\ i + 1 \in 1..n /\ (i + 1) - 1 = i BY <1>1
    <3>2. loop[i] = f[i] BY <3>1
    <3> QED BY <1>6, <1>9, <3>1, <3>2
  <2>3. A \in SUBSET Nat OBVIOUS
  <2>4. A = Nat
    <3> HIDE DEF A
    <3> QED BY <2>1, <2>2, <2>3, Numbers!Inductive
  <2>5. \A i \in 0..n : i \in A BY <1>1, <2>4
  <2> QED BY <1>1, <2>5
<1>11. TagsAfter(body, count) = loop[n] BY Zenon DEF TagsAfter, loop, n, first, Turns
<1>12. TagsAfter(body, count) = f[n] BY <1>1, <1>10, <1>11
<1> QED BY <1>5, <1>6, <1>12 DEF IsLoop, X, n, first

LEMMA TagsBy ==
  ASSUME NEW body, NEW at, NEW count, count = ReadNumber(body, at),
         NEW last, last = TagsAfter(body, count)
  PROVE  ReadTags(body, at) = IF count.err # "none" THEN count ELSE last
BY DEF ReadTags, Then

LEMMA TagsEnd ==
  ASSUME NEW body \in Seq(Byte), NEW at \in Nat
  PROVE  Ends(body, ReadTags(body, at))
<1>1. PICK count : count = ReadNumber(body, at) OBVIOUS
<1>2. PICK last : last = TagsAfter(body, count) OBVIOUS
<1>3. ReadTags(body, at) = IF count.err # "none" THEN count ELSE last BY <1>1, <1>2, TagsBy
<1>4. count \in Answers(Nat) /\ Ends(body, count) BY <1>1, ReadNumberIs
<1>5. CASE count.err # "none" BY <1>3, <1>4, <1>5
<1>6. CASE count.err = "none"
  <2>1. count.pos \in Nat /\ count.value \in Nat BY <1>4, <1>6 DEF Answers, Failures
  <2>2. PICK after : IsLoop(body, count, after) /\ last = after[Turns(body, count)]
    BY <1>2, <2>1, TagLoop
  <2> DEFINE n == Turns(body, count)
             A == {i \in Nat : i <= n => Ends(body, after[i])}
  <2>3. n \in Nat BY <2>1 DEF Turns
  <2>4. /\ after[0] = Found({}, count.pos)
        /\ \A i \in 0..n : after[i] \in Answers(TagSets)
        /\ \A i \in 1..n : after[i] = NextTag(body, after[i - 1])
    BY <2>2 DEF IsLoop
  <2> HIDE DEF n
  <2>5. 0 \in A
    <3>1. Ends(body, Found({}, count.pos)) BY <1>4, <1>6 DEF Ends, Found
    <3> QED BY <2>4, <3>1
  <2>6. ASSUME NEW i \in A PROVE i + 1 \in A
    <3> SUFFICES ASSUME i + 1 <= n PROVE Ends(body, after[i + 1]) OBVIOUS
    <3>1. i \in 0..n /\ i + 1 \in 1..n /\ (i + 1) - 1 = i /\ i <= n BY <2>3
    <3>2. Ends(body, after[i]) BY <3>1
    <3>3. after[i + 1] = NextTag(body, after[i]) BY <2>4, <3>1
    <3> QED BY <2>4, <3>1, <3>2, <3>3, NextTagIs
  <2>7. A \in SUBSET Nat OBVIOUS
  <2>8. A = Nat
    <3> HIDE DEF A
    <3> QED BY <2>5, <2>6, <2>7, Numbers!Inductive
  <2>9. n \in A BY <2>3, <2>8
  <2>10. Ends(body, last) BY <2>2, <2>3, <2>9 DEF n
  <2> QED BY <1>3, <1>6, <2>10
<1> QED BY <1>5, <1>6

-----------------------------------------------------------------------------
(* The fields of a packet.                                                  *)

FieldAs(before, present, field) ==
    IF before.err # "none" THEN before
    ELSE IF ~present THEN Found(None, before.pos)
    ELSE IF field.err # "none" THEN field
    ELSE Found(<<field.value>>, field.pos)

LEMMA TimeFieldBy ==
  ASSUME NEW before, NEW present \in BOOLEAN, NEW body, NEW field, field = ReadTimestamp(body, before.pos)
  PROVE  TimeField(before, present, body) = FieldAs(before, present, field)
BY DEF TimeField, Field, Then, FieldAs

LEMMA TextFieldBy ==
  ASSUME NEW before, NEW present \in BOOLEAN, NEW body, NEW field, field = ReadUtf8(body, before.pos)
  PROVE  TextField(before, present, body) = FieldAs(before, present, field)
BY DEF TextField, Field, Then, FieldAs

LEMMA TagsFieldBy ==
  ASSUME NEW before, NEW present \in BOOLEAN, NEW body, NEW field, field = ReadTags(body, before.pos)
  PROVE  TagsField(before, present, body) = FieldAs(before, present, field)
BY DEF TagsField, Field, Then, FieldAs

LEMMA FileFieldBy ==
  ASSUME NEW before, NEW present \in BOOLEAN, NEW body, NEW field, field = ReadFile(body, before.pos)
  PROVE  FileField(before, present, body) = FieldAs(before, present, field)
BY DEF FileField, Field, Then, FieldAs

LEMMA FieldAsEnds ==
  ASSUME NEW body, NEW before, Ends(body, before), NEW present \in BOOLEAN,
         NEW field, before.err = "none" => Ends(body, field)
  PROVE  Ends(body, FieldAs(before, present, field))
BY DEF Ends, FieldAs, Found

LEMMA TimeFieldEnds ==
  ASSUME NEW body \in Seq(Byte), NEW before, Ends(body, before), NEW present \in BOOLEAN
  PROVE  Ends(body, TimeField(before, present, body))
<1>1. PICK field : field = ReadTimestamp(body, before.pos) OBVIOUS
<1>2. before.err = "none" => Ends(body, field) BY <1>1, TimestampEnds DEF Ends
<1> QED BY <1>1, <1>2, FieldAsEnds, TimeFieldBy

LEMMA TextFieldEnds ==
  ASSUME NEW body \in Seq(Byte), NEW before, Ends(body, before), NEW present \in BOOLEAN
  PROVE  Ends(body, TextField(before, present, body))
<1>1. PICK field : field = ReadUtf8(body, before.pos) OBVIOUS
<1>2. before.err = "none" => Ends(body, field) BY <1>1, Utf8Is DEF Ends
<1> QED BY <1>1, <1>2, FieldAsEnds, TextFieldBy

LEMMA TagsFieldEnds ==
  ASSUME NEW body \in Seq(Byte), NEW before, Ends(body, before), NEW present \in BOOLEAN
  PROVE  Ends(body, TagsField(before, present, body))
<1>1. PICK field : field = ReadTags(body, before.pos) OBVIOUS
<1>2. before.err = "none" => Ends(body, field) BY <1>1, TagsEnd DEF Ends
<1> QED BY <1>1, <1>2, FieldAsEnds, TagsFieldBy

LEMMA FileFieldEnds ==
  ASSUME NEW body \in Seq(Byte), NEW before, Ends(body, before), NEW present \in BOOLEAN
  PROVE  Ends(body, FileField(before, present, body))
<1>1. PICK field : field = ReadFile(body, before.pos) OBVIOUS
<1>2. before.err = "none" => Ends(body, field) BY <1>1, FileEnds DEF Ends
<1> QED BY <1>1, <1>2, FieldAsEnds, FileFieldBy

(* The call that is made of the fields.                                     *)
CallOf(flags, time, id, tags, mime, file, route) ==
    [timestamp |-> time.value, test_id |-> id.value,
     test_tags |-> IF tags.value = None THEN {} ELSE tags.value[1],
     runnable |-> Has(flags, FLAG_RUNNABLE),
     mime_type |-> mime.value, file |-> file.value,
     eof |-> Has(flags, FLAG_EOF), route_code |-> route.value,
     test_status |-> flags % 8]

LEMMA FieldsBy ==
  ASSUME NEW flags, NEW body, NEW at,
         NEW time, time = TimeField(Found(None, at), Has(flags, FLAG_TIMESTAMP), body),
         NEW id, id = TextField(time, Has(flags, FLAG_TEST_ID), body),
         NEW tags, tags = TagsField(id, Has(flags, FLAG_TAGS), body),
         NEW mime, mime = TextField(tags, Has(flags, FLAG_MIME_TYPE), body),
         NEW file, file = FileField(mime, Has(flags, FLAG_FILE_CONTENT), body),
         NEW route, route = TextField(file, Has(flags, FLAG_ROUTE_CODE), body)
  PROVE  ReadFields(flags, body, at) =
           IF route.err # "none" THEN route
           ELSE Found(CallOf(flags, time, id, tags, mime, file, route), route.pos)
BY DEF ReadFields, Then, CallOf

LEMMA FieldsEnd ==
  ASSUME NEW flags, NEW body \in Seq(Byte), NEW at \in 0..Len(body)
  PROVE  Ends(body, ReadFields(flags, body, at))
<1>1. PICK time : time = TimeField(Found(None, at), Has(flags, FLAG_TIMESTAMP), body) OBVIOUS
<1>2. PICK id : id = TextField(time, Has(flags, FLAG_TEST_ID), body) OBVIOUS
<1>3. PICK tags : tags = TagsField(id, Has(flags, FLAG_TAGS), body) OBVIOUS
<1>4. PICK mime : mime = TextField(tags, Has(flags, FLAG_MIME_TYPE), body) OBVIOUS
<1>5. PICK file : file = FileField(mime, Has(flags, FLAG_FILE_CONTENT), body) OBVIOUS
<1>6. PICK route : route = TextField(file, Has(flags, FLAG_ROUTE_CODE), body) OBVIOUS
<1>7. \A flag : Has(flags, flag) \in BOOLEAN BY DEF Has
<1>8. Ends(body, Found(None, at)) BY DEF Ends, Found
<1>9. Ends(body, time) BY <1>1, <1>7, <1>8, TimeFieldEnds
<1>10. Ends(body, id) BY <1>2, <1>7, <1>9, TextFieldEnds
<1>11. Ends(body, tags) BY <1>3, <1>7, <1>10, TagsFieldEnds
<1>12. Ends(body, mime) BY <1>4, <1>7, <1>11, TextFieldEnds
<1>13. Ends(body, file) BY <1>5, <1>7, <1>12, FileFieldEnds
<1>14. Ends(body, route) BY <1>6, <1>7, <1>13, TextFieldEnds
<1>15. ReadFields(flags, body, at) =
         IF route.err # "none" THEN route
         ELSE Found(CallOf(flags, time, id, tags, mime, file, route), route.pos)
  BY <1>1, <1>2, <1>3, <1>4, <1>5, <1>6, FieldsBy
<1> QED BY <1>14, <1>15 DEF Ends, Found

-----------------------------------------------------------------------------
LEMMA AtBoth ==
  ASSUME NEW body \in Seq(Byte), NEW at \in Nat,
         NEW first \in Seq(Byte), NEW second \in Seq(Byte), At(body, at, first \o second)
  PROVE  At(body, at, first) /\ At(body, at + Len(first), second)
<1> DEFINE both == first \o second
<1>1. Len(first) \in Nat /\ Len(second) \in Nat /\ Len(body) \in Nat OBVIOUS
<1>2. /\ Len(both) = Len(first) + Len(second)
      /\ \A i \in 1 .. Len(first) + Len(second) :
           both[i] = IF i <= Len(first) THEN first[i] ELSE second[i - Len(first)]
  BY ConcatProperties
<1>3. /\ at + Len(both) <= Len(body)
      /\ \A i \in 1..Len(both) : body[at + i] = both[i]
  BY DEF At
<1> HIDE DEF both
<1>4. At(body, at, first)
  <2>1. ASSUME NEW i \in 1..Len(first) PROVE body[at + i] = first[i]
    <3>1. i \in 1..Len(both) /\ i <= Len(first) BY <1>1, <1>2
    <3> QED BY <1>2, <1>3, <3>1
  <2> QED BY <1>1, <1>2, <1>3, <2>1 DEF At
<1>5. At(body, at + Len(first), second)
  <2>1. ASSUME NEW i \in 1..Len(second) PROVE body[at + Len(first) + i] = second[i]
    <3>1. /\ Len(first) + i \in 1..Len(both) /\ ~(Len(first) + i <= Len(first))
          /\ Len(first) + i - Len(first) = i
          /\ at + (Len(first) + i) = at + Len(first) + i
      BY <1>1, <1>2
    <3>2. both[Len(first) + i] = second[i] BY <1>2, <3>1
    <3> QED BY <1>3, <3>1, <3>2
  <2> QED BY <1>1, <1>2, <1>3, <2>1 DEF At
<1> QED BY <1>4, <1>5

LEMMA AtSlice ==
  ASSUME NEW body \in Seq(Byte), NEW at \in Nat, NEW bytes \in Seq(Byte), At(body, at, bytes)
  PROVE  SubSeq(body, at + 1, at + Len(bytes)) = bytes
<1>1. Len(bytes) \in Nat /\ Len(body) \in Nat OBVIOUS
<1>2. PICK slice : slice = SubSeq(body, at + 1, at + Len(bytes)) OBVIOUS
<1>3. \A i \in at + 1 .. at + Len(bytes) : body[i] \in Byte BY <1>1 DEF At
<1>4. /\ slice \in Seq(Byte)
      /\ Len(slice) = IF at + 1 <= at + Len(bytes) THEN at + Len(bytes) - (at + 1) + 1 ELSE 0
      /\ \A i \in 1 .. at + Len(bytes) - (at + 1) + 1 : slice[i] = body[at + 1 + i - 1]
  BY <1>1, <1>2, <1>3, SubSeqProperties
<1>5. Len(slice) = Len(bytes) BY <1>1, <1>4
<1>6. ASSUME NEW i \in 1..Len(slice) PROVE slice[i] = bytes[i]
  <2>1. i \in 1 .. at + Len(bytes) - (at + 1) + 1 /\ at + 1 + i - 1 = at + i BY <1>1, <1>5
  <2>2. slice[i] = body[at + i] BY <1>4, <2>1
  <2> QED BY <1>5, <2>2 DEF At
<1>7. slice = bytes BY <1>4, <1>5, <1>6, SeqEqual
<1> QED BY <1>2, <1>7

(* The bytes of a number.                                                   *)
LEMMA NumberBytes ==
  ASSUME NEW v \in Nat
  PROVE  /\ Len(EncodeNumber(v)) \in 1..4
         /\ EncodeNumber(v) \in Seq(Nat)
         /\ v <= MaxNumber => EncodeNumber(v) \in Seq(Byte)
<1>1. EncodeNumber(v) \in Seq(Nat) /\ Len(EncodeNumber(v)) \in 1..4
  <2>1. \A n \in Nat : n % 256 \in Nat /\ n \div 256 \in Nat /\ n \div 65536 \in Nat
                      /\ n \div (256 * 65536) \in Nat
    OBVIOUS
  <2>2. CASE v < 64 BY <2>2 DEF EncodeNumber
  <2>3. CASE v >= 64 /\ v < 16384
    <3>1. EncodeNumber(v) = <<64 + v \div 256, v % 256>> BY <2>3 DEF EncodeNumber
    <3> QED BY <2>1, <3>1
  <2>4. CASE v >= 16384 /\ v < 64 * 65536
    <3>1. EncodeNumber(v) = <<128 + v \div 65536, (v \div 256) % 256, v % 256>>
      BY <2>4 DEF EncodeNumber
    <3> QED BY <2>1, <3>1
  <2>5. CASE v >= 64 * 65536
    <3>1. EncodeNumber(v) = <<192 + v \div (256 * 65536), (v \div 65536) % 256,
                              (v \div 256) % 256, v % 256>>
      BY <2>5 DEF EncodeNumber
    <3> QED BY <2>1, <3>1
  <2> QED BY <2>2, <2>3, <2>4, <2>5
<1>2. ASSUME v <= MaxNumber PROVE EncodeNumber(v) \in Seq(Byte)
  <2>1. \A high \in 0..63 : 64 + high \in Byte /\ 128 + high \in Byte /\ 192 + high \in Byte
    BY DEF Byte
  <2>2. v % 256 \in Byte /\ (v \div 256) % 256 \in Byte /\ (v \div 65536) % 256 \in Byte
    BY Digits DEF Byte
  <2>3. CASE v < 64
    <3>1. v \in Byte BY <2>3 DEF Byte
    <3>2. EncodeNumber(v) = <<v>> BY <1>2, <2>3, Encodings
    <3> QED BY <3>1, <3>2
  <2>4. CASE v >= 64 /\ v < 16384
    <3>1. 64 + v \div 256 \in Byte BY <1>2, <2>1, <2>4, TopDigit
    <3>2. EncodeNumber(v) = <<64 + v \div 256, v % 256>>
      BY <1>2, <2>4, Encodings
    <3> QED BY <2>2, <3>1, <3>2
  <2>5. CASE v >= 16384 /\ v < 64 * 65536
    <3>1. 128 + v \div 65536 \in Byte BY <1>2, <2>1, <2>5, TopDigit
    <3>2. EncodeNumber(v) = <<128 + v \div 65536, (v \div 256) % 256, v % 256>>
      BY <1>2, <2>5, Encodings
    <3> QED BY <2>2, <3>1, <3>2
  <2>6. CASE v >= 64 * 65536
    <3>1. 192 + v \div (256 * 65536) \in Byte BY <1>2, <2>1, <2>6, TopDigit
    <3>2. EncodeNumber(v) = <<192 + v \div (256 * 65536), (v \div 65536) % 256,
                              (v \div 256) % 256, v % 256>>
      BY <1>2, <2>6, Encodings
    <3> QED BY <2>2, <3>1, <3>2
  <2> QED BY <2>3, <2>4, <2>5, <2>6
<1> QED BY <1>1, <1>2

(* What was written is read where it was written.                           *)
LEMMA ReadNumberAt ==
  ASSUME NEW body \in Seq(Byte), NEW at \in Nat, NEW v \in Nat, v <= MaxNumber,
         At(body, at, EncodeNumber(v))
  PROVE  ReadNumber(body, at) = Found(v, at + Len(EncodeNumber(v)))
<1>1. PICK longer \in BOOLEAN : longer = FALSE OBVIOUS
<1>2. ParseNumber(body, at, longer) = Found(v, at + Len(EncodeNumber(v)))
  BY <1>1, NumberRoundTrip, LenProperties
<1> QED BY <1>1, <1>2, Zenon DEF ReadNumber

(* A length and its bytes are read where they were written.                 *)
Short(bytes) == bytes \in Seq(Byte) /\ Len(bytes) <= MaxNumber

LEMMA SizedBytes ==
  ASSUME NEW bytes, Short(bytes)
  PROVE  /\ Len(bytes) \in Nat
         /\ EncodeNumber(Len(bytes)) \in Seq(Byte)
         /\ WriteUtf8(bytes) \in Seq(Byte)
         /\ Len(WriteUtf8(bytes)) = Len(EncodeNumber(Len(bytes))) + Len(bytes)
<1>1. bytes \in Seq(Byte) /\ Len(bytes) \in Nat /\ Len(bytes) <= MaxNumber BY DEF Short
<1>2. EncodeNumber(Len(bytes)) \in Seq(Byte) BY <1>1, NumberBytes
<1>3. WriteUtf8(bytes) = EncodeNumber(Len(bytes)) \o bytes BY DEF WriteUtf8
<1> HIDE DEF WriteUtf8
<1> QED BY <1>1, <1>2, <1>3, ConcatProperties

LEMMA SizedAt ==
  ASSUME NEW body \in Seq(Byte), NEW at \in Nat, NEW bytes, Short(bytes),
         At(body, at, WriteUtf8(bytes))
  PROVE  ReadSized(body, at) = Found(bytes, at + Len(WriteUtf8(bytes)))
<1> DEFINE code == EncodeNumber(Len(bytes))
<1>1. bytes \in Seq(Byte) /\ Len(bytes) \in Nat /\ Len(bytes) <= MaxNumber
  BY SizedBytes DEF Short
<1>2. code \in Seq(Byte) /\ Len(code) \in Nat BY <1>1, NumberBytes
<1>3. At(body, at, code) /\ At(body, at + Len(code), bytes)
  <2>1. At(body, at, code \o bytes) BY DEF WriteUtf8
  <2> HIDE DEF code
  <2> QED BY <1>1, <1>2, <2>1, AtBoth
<1>4. ReadNumber(body, at) = Found(Len(bytes), at + Len(code))
  BY <1>1, <1>3, ReadNumberAt
<1>5. Len(WriteUtf8(bytes)) = Len(code) + Len(bytes) BY SizedBytes
<1> HIDE DEF code
<1>6. PICK start \in Nat : start = at + Len(code) BY <1>2
<1>7. ReadBytes(body, start, Len(bytes)) = Found(bytes, start + Len(bytes))
  <2>1. SubSeq(body, start + 1, start + Len(bytes)) = bytes BY <1>1, <1>3, <1>6, AtSlice
  <2>2. ~(start + Len(bytes) > Len(body)) BY <1>1, <1>3, <1>6 DEF At
  <2> QED BY <2>1, <2>2 DEF ReadBytes
<1>8. PICK length : length = ReadNumber(body, at) OBVIOUS
<1>9. length.err = "none" /\ length.value = Len(bytes) /\ length.pos = start
  BY <1>4, <1>6, <1>8 DEF Found
<1>10. PICK read : read = ReadBytes(body, length.pos, length.value) OBVIOUS
<1>11. ReadSized(body, at) = read BY <1>8, <1>9, <1>10, SizedBy
<1>12. start + Len(bytes) = at + Len(WriteUtf8(bytes)) BY <1>1, <1>2, <1>5, <1>6
<1> QED BY <1>7, <1>9, <1>10, <1>11, <1>12

(* A string is read where it was written, when it has no NUL.               *)
Text(s) == Short(s) /\ WellFormed(s) /\ ~Contains(s, 0)

LEMMA Utf8At ==
  ASSUME NEW body \in Seq(Byte), NEW at \in Nat, NEW s, Text(s), At(body, at, WriteUtf8(s))
  PROVE  ReadUtf8(body, at) = Found(s, at + Len(WriteUtf8(s)))
<1>1. PICK text : text = ReadSized(body, at) OBVIOUS
<1>2. text = Found(s, at + Len(WriteUtf8(s))) BY <1>1, SizedAt DEF Text
<1>3. text.err = "none" /\ text.value = s BY <1>2 DEF Found
<1>4. ~Refused(s) BY DEF Text, Refused
<1> QED BY <1>1, <1>2, <1>3, <1>4, Utf8By

LEMMA FileBytes ==
  ASSUME NEW f, Short(f.name), Short(f.bytes)
  PROVE  /\ WriteFile(f) = WriteUtf8(f.name) \o WriteUtf8(f.bytes)
         /\ WriteFile(f) \in Seq(Byte)
         /\ Len(WriteFile(f)) = Len(WriteUtf8(f.name)) + Len(WriteUtf8(f.bytes))
<1>1. /\ WriteUtf8(f.name) \in Seq(Byte) /\ WriteUtf8(f.bytes) \in Seq(Byte)
      /\ EncodeNumber(Len(f.bytes)) \in Seq(Byte) /\ f.bytes \in Seq(Byte)
  BY SizedBytes DEF Short
<1>2. WriteFile(f) = WriteUtf8(f.name) \o WriteUtf8(f.bytes)
  <2>1. PICK a \in Seq(Byte), b \in Seq(Byte), c \in Seq(Byte) :
          a = WriteUtf8(f.name) /\ b = EncodeNumber(Len(f.bytes)) /\ c = f.bytes
    BY <1>1
  <2>2. (a \o b) \o c = a \o (b \o c) BY ConcatAssociative
  <2>3. WriteUtf8(f.bytes) = b \o c BY <2>1, Zenon DEF WriteUtf8
  <2>4. WriteFile(f) = (a \o b) \o c BY <2>1, Zenon DEF WriteFile
  <2> QED BY <2>1, <2>2, <2>3, <2>4
<1> QED BY <1>1, <1>2, ConcatProperties

LEMMA FileAt ==
  ASSUME NEW body \in Seq(Byte), NEW at \in Nat, NEW f,
         f = [name |-> f.name, bytes |-> f.bytes],
         Text(f.name), Short(f.bytes), At(body, at, WriteFile(f))
  PROVE  ReadFile(body, at) = Found(f, at + Len(WriteFile(f)))
<1>1. PICK first \in Seq(Byte), second \in Seq(Byte) :
        first = WriteUtf8(f.name) /\ second = WriteUtf8(f.bytes)
  BY SizedBytes DEF Text
<1>2. WriteFile(f) = first \o second /\ Len(WriteFile(f)) = Len(first) + Len(second)
  BY <1>1, FileBytes DEF Text
<1>3. At(body, at, first) /\ At(body, at + Len(first), second)
  BY <1>2, AtBoth
<1>4. Len(first) \in Nat /\ Len(second) \in Nat OBVIOUS
<1>5. PICK middle \in Nat : middle = at + Len(first) BY <1>4
<1>6. PICK name : name = ReadUtf8(body, at) OBVIOUS
<1>7. name = Found(f.name, middle) BY <1>1, <1>3, <1>5, <1>6, Utf8At
<1>8. PICK inner : inner = ReadSized(body, name.pos) OBVIOUS
<1>9. name.err = "none" /\ name.pos = middle /\ name.value = f.name BY <1>7 DEF Found
<1>10. inner = Found(f.bytes, middle + Len(second)) BY <1>1, <1>3, <1>5, <1>8, <1>9, SizedAt
<1>11. inner.err = "none" /\ inner.value = f.bytes /\ inner.pos = middle + Len(second)
  BY <1>10 DEF Found
<1>12. ReadFile(body, at) = ReadContent(body, name)
  BY <1>6, <1>9 DEF ReadFile, Then
<1>13. ReadContent(body, name) = Found([name |-> name.value, bytes |-> inner.value], inner.pos)
  BY <1>8, <1>11 DEF ReadContent, Then
<1>14. middle + Len(second) = at + Len(WriteFile(f)) BY <1>2, <1>4, <1>5
<1> QED BY <1>9, <1>11, <1>12, <1>13, <1>14

(* The numbers FMT_32 can pack, and those FMT_16 can.                       *)
Packs32(n) == n \div 65536 < 65536
Packs16(n) == n < 65536
IsHalved(n, high, low) == n = (high * 65536) + low /\ Packs16(high) /\ Packs16(low)

(* A time is read where it was written.                                     *)
IsMicro(m) == m \in Nat /\ m < 1000000
IsTime(t) ==
    /\ t = [seconds |-> t.seconds, microseconds |-> t.microseconds]
    /\ t.seconds \in Nat /\ Packs32(t.seconds) /\ IsMicro(t.microseconds)
Nano(t) == t.microseconds * 1000

LEMMA ByteIsNat == \A b \in Byte : b \in Nat /\ b < 256
BY DEF Byte

LEMMA TwoBytesAre ==
  ASSUME NEW n \in Nat, Packs16(n)
  PROVE  \E a \in Byte, b \in Byte : TwoBytes(n) = <<a, b>> /\ (a * 256) + b = n
<1>1. PICK a \in Nat, b \in Nat : a = n \div 256 /\ b = n % 256 OBVIOUS
<1>2. a < 256 /\ b < 256 /\ (a * 256) + b = n BY <1>1, SMT DEF Packs16
<1>3. TwoBytes(n) = <<n \div 256, n % 256>> BY DEF TwoBytes
<1>4. TwoBytes(n) = <<a, b>> BY <1>1, <1>3
<1>5. a \in Byte /\ b \in Byte BY <1>2 DEF Byte
<1> QED BY <1>2, <1>4, <1>5

LEMMA TwoAndTwo ==
  ASSUME NEW a \in Byte, NEW b \in Byte, NEW c \in Byte, NEW d \in Byte
  PROVE  <<a, b>> \o <<c, d>> = <<a, b, c, d>>
<1>1. PICK first \in Seq(Byte), second \in Seq(Byte), both \in Seq(Byte) :
        first = <<a, b>> /\ second = <<c, d>> /\ both = <<a, b, c, d>>
  <2>1. <<a, b>> \in Seq(Byte) /\ <<c, d>> \in Seq(Byte) /\ <<a, b, c, d>> \in Seq(Byte)
    OBVIOUS
  <2> QED BY <2>1, Zenon
<1>2. PICK joined : joined = first \o second OBVIOUS
<1>3. Len(first) = 2 /\ Len(second) = 2 /\ Len(both) = 4 BY <1>1
<1>4. /\ joined \in Seq(Byte) /\ Len(joined) = 4
      /\ \A i \in 1..4 : joined[i] = IF i <= 2 THEN first[i] ELSE second[i - 2]
  <2>1. /\ joined \in Seq(Byte) /\ Len(joined) = Len(first) + Len(second)
        /\ \A i \in 1 .. Len(first) + Len(second) :
             joined[i] = IF i <= Len(first) THEN first[i] ELSE second[i - Len(first)]
    BY <1>2, ConcatProperties
  <2> QED BY <1>3, <2>1
<1>5. \A i \in 1..4 : joined[i] = both[i] BY <1>1, <1>4
<1>6. joined = both BY <1>3, <1>4, <1>5, SeqEqual
<1> QED BY <1>1, <1>2, <1>6

LEMMA Halves ==
  ASSUME NEW n \in Nat, Packs32(n)
  PROVE  \E high \in Nat, low \in Nat :
           FourBytes(n) = TwoBytes(high) \o TwoBytes(low) /\ IsHalved(n, high, low)
<1>1. PICK high \in Nat, low \in Nat : high = n \div 65536 /\ low = n % 65536 OBVIOUS
<1>2. IsHalved(n, high, low) BY <1>1, SMT DEF IsHalved, Packs16, Packs32
<1>3. FourBytes(n) = TwoBytes(n \div 65536) \o TwoBytes(n % 65536) BY DEF FourBytes
<1>4. FourBytes(n) = TwoBytes(high) \o TwoBytes(low) BY <1>1, <1>3
<1> QED BY <1>2, <1>4

LEMMA FourBytesAre ==
  ASSUME NEW n \in Nat, Packs32(n)
  PROVE  \E a \in Byte, b \in Byte, c \in Byte, d \in Byte :
           FourBytes(n) = <<a, b, c, d>> /\ ((a * 256 + b) * 256 + c) * 256 + d = n
<1>1. PICK high \in Nat, low \in Nat :
        FourBytes(n) = TwoBytes(high) \o TwoBytes(low) /\ IsHalved(n, high, low)
  BY Halves
<1>2. Packs16(high) /\ Packs16(low) BY <1>1 DEF IsHalved
<1>3. PICK a \in Byte, b \in Byte : TwoBytes(high) = <<a, b>> /\ (a * 256) + b = high
  BY <1>2, TwoBytesAre
<1>4. PICK c \in Byte, d \in Byte : TwoBytes(low) = <<c, d>> /\ (c * 256) + d = low
  BY <1>2, TwoBytesAre
<1>5. FourBytes(n) = <<a, b, c, d>> BY <1>1, <1>3, <1>4, TwoAndTwo
<1>6. ((a * 256 + b) * 256 + c) * 256 + d = n
  <2>1. a \in Nat /\ b \in Nat /\ c \in Nat /\ d \in Nat BY ByteIsNat
  <2>2. n = (high * 65536) + low BY <1>1 DEF IsHalved
  <2> QED BY <1>3, <1>4, <2>1, <2>2, SMT
<1> QED BY <1>5, <1>6

LEMMA NanoIs ==
  ASSUME NEW m, IsMicro(m)
  PROVE  m * 1000 \in Nat /\ m * 1000 <= MaxNumber
BY SMT DEF IsMicro, MaxNumber

LEMMA TimeBytes ==
  ASSUME NEW t, IsTime(t)
  PROVE  /\ FourBytes(t.seconds) \in Seq(Byte) /\ Len(FourBytes(t.seconds)) = 4
         /\ Nano(t) \in Nat /\ Nano(t) <= MaxNumber
         /\ EncodeNumber(Nano(t)) \in Seq(Byte)
         /\ WriteTimestamp(t) = FourBytes(t.seconds) \o EncodeNumber(Nano(t))
         /\ WriteTimestamp(t) \in Seq(Byte)
         /\ Len(WriteTimestamp(t)) = 4 + Len(EncodeNumber(Nano(t)))
<1>1. PICK a \in Byte, b \in Byte, c \in Byte, d \in Byte : FourBytes(t.seconds) = <<a, b, c, d>>
  BY FourBytesAre DEF IsTime
<1>2. FourBytes(t.seconds) \in Seq(Byte) /\ Len(FourBytes(t.seconds)) = 4 BY <1>1
<1>3. Nano(t) \in Nat /\ Nano(t) <= MaxNumber BY NanoIs DEF IsTime, Nano
<1>4. EncodeNumber(Nano(t)) \in Seq(Byte) BY <1>3, NumberBytes
<1>5. WriteTimestamp(t) = FourBytes(t.seconds) \o EncodeNumber(Nano(t))
  BY DEF WriteTimestamp, Nano
<1>6. WriteTimestamp(t) \in Seq(Byte) /\ Len(WriteTimestamp(t)) = 4 + Len(EncodeNumber(Nano(t)))
  <2>1. PICK x \in Seq(Byte), y \in Seq(Byte) :
          x = FourBytes(t.seconds) /\ y = EncodeNumber(Nano(t))
    BY <1>2, <1>4
  <2>2. x \o y \in Seq(Byte) /\ Len(x \o y) = Len(x) + Len(y) BY ConcatProperties
  <2>3. WriteTimestamp(t) = x \o y BY <1>5, <2>1
  <2> QED BY <1>2, <2>1, <2>2, <2>3
<1> QED BY <1>2, <1>3, <1>4, <1>5, <1>6

LEMMA InstantOf ==
  ASSUME NEW s \in Nat, NEW m, IsMicro(m)
  PROVE  Instant(s, m * 1000) = [seconds |-> s, microseconds |-> m]
<1>0. m \in Nat /\ m < 1000000 BY DEF IsMicro
<1>1. (m * 1000) \div 1000 = m /\ (m * 1000) % 1000 = 0 BY <1>0, SMT
<1>2. m \div 1000000 = 0 /\ m % 1000000 = m /\ s + 0 = s BY <1>0, SMT
<1> QED BY <1>1, <1>2, SMT DEF Instant

LEMMA InstantIs ==
  ASSUME NEW t, IsTime(t)
  PROVE  Instant(t.seconds, Nano(t)) = t
<1>1. Instant(t.seconds, Nano(t)) = [seconds |-> t.seconds, microseconds |-> t.microseconds]
  BY InstantOf DEF IsTime, Nano
<1> QED BY <1>1 DEF IsTime

LEMMA TimestampBy ==
  ASSUME NEW body, NEW at, NEW nano, nano = ReadNumber(body, at + 4),
         NEW seconds, seconds = ((body[at + 1] * 256 + body[at + 2]) * 256
                                   + body[at + 3]) * 256 + body[at + 4]
  PROVE  ReadTimestamp(body, at) =
           IF at + 4 > Len(body) THEN StructError
           ELSE IF nano.err # "none" THEN nano
           ELSE Found(Instant(seconds, nano.value), nano.pos)
BY DEF ReadTimestamp, Then

LEMMA TimestampAt ==
  ASSUME NEW body \in Seq(Byte), NEW at \in Nat, NEW t, IsTime(t),
         At(body, at, WriteTimestamp(t))
  PROVE  ReadTimestamp(body, at) = Found(t, at + Len(WriteTimestamp(t)))
<1>1. PICK first \in Seq(Byte), second \in Seq(Byte) :
        first = FourBytes(t.seconds) /\ second = EncodeNumber(Nano(t))
  BY TimeBytes
<1>2. Len(first) = 4 /\ Len(WriteTimestamp(t)) = 4 + Len(second) /\ Len(second) \in Nat
  BY <1>1, TimeBytes
<1>3. WriteTimestamp(t) = first \o second BY <1>1, TimeBytes
<1>4. At(body, at, first) /\ At(body, at + 4, second) BY <1>2, <1>3, AtBoth
<1>5. PICK a \in Byte, b \in Byte, c \in Byte, d \in Byte :
        first = <<a, b, c, d>> /\ ((a * 256 + b) * 256 + c) * 256 + d = t.seconds
  BY <1>1, FourBytesAre DEF IsTime
<1>6. body[at + 1] = a /\ body[at + 2] = b /\ body[at + 3] = c /\ body[at + 4] = d
  BY <1>2, <1>4, <1>5 DEF At
<1>7. PICK seconds : seconds = ((body[at + 1] * 256 + body[at + 2]) * 256
                                  + body[at + 3]) * 256 + body[at + 4]
  OBVIOUS
<1>8. seconds = t.seconds BY <1>5, <1>6, <1>7
<1>9. PICK nano : nano = ReadNumber(body, at + 4) OBVIOUS
<1>10. PICK middle \in Nat : middle = at + 4 OBVIOUS
<1>11. nano = Found(Nano(t), middle + Len(second))
  <2>1. Nano(t) \in Nat /\ Nano(t) <= MaxNumber BY TimeBytes
  <2>2. At(body, middle, EncodeNumber(Nano(t))) BY <1>1, <1>4, <1>10
  <2>3. ReadNumber(body, middle) = Found(Nano(t), middle + Len(EncodeNumber(Nano(t))))
    BY <2>1, <2>2, ReadNumberAt
  <2> QED BY <1>1, <1>9, <1>10, <2>3
<1>12. /\ nano.err = "none" /\ nano.value = Nano(t)
       /\ nano.pos = middle + Len(second)
  BY <1>11 DEF Found
<1>13. ~(at + 4 > Len(body)) BY <1>2, <1>4 DEF At
<1>14. ReadTimestamp(body, at) = Found(Instant(seconds, nano.value), nano.pos)
  BY <1>7, <1>9, <1>12, <1>13, TimestampBy
<1>15. Instant(seconds, nano.value) = t BY <1>8, <1>12, InstantIs
<1>16. nano.pos = at + Len(WriteTimestamp(t)) BY <1>2, <1>10, <1>12
<1> QED BY <1>14, <1>15, <1>16

-----------------------------------------------------------------------------
(* The tags: a sequence of a set, and the bytes of every member in a row.   *)

LEMMA SeqOfSet ==
  ASSUME NEW S, IsFiniteSet(S)
  PROVE  /\ SetToSeq(S) \in Seq(S)
         /\ S = {SetToSeq(S)[i] : i \in 1..Len(SetToSeq(S))}
<1> DEFINE n == Cardinality(S)
           f == SetToSeq(S)
<1>1. n \in Nat /\ ExistsBijection(1..n, S) BY FS_CardinalityType
<1>2. \E g \in [1..n -> S] : IsInjective(g)
  BY <1>1 DEF ExistsBijection, Bijection, Injection
<1>3. f \in [1..n -> S] /\ IsInjective(f) BY <1>2, Zenon DEF SetToSeq
<1> HIDE DEF f
<1>4. f \in Injection(1..n, S) BY <1>3 DEF Injection
<1>5. Cardinality(1..n) = n BY <1>1, FS_Interval
<1>6. f \in Surjection(1..n, S) BY <1>4, <1>5, FS_Injection
<1>7. \A x \in S : \E i \in 1..n : f[i] = x BY <1>6 DEF Surjection
<1>8. f \in Seq(S) /\ Len(f) = n BY <1>1, <1>3
<1>9. S = {f[i] : i \in 1..n} BY <1>3, <1>7
<1> QED BY <1>8, <1>9 DEF f

LEMMA FlattenSeqIs == ASSUME NEW parts PROVE FlattenSeq(parts) = Numbers!FlattenSeq(parts)
BY Zenon DEF FlattenSeq, Numbers!FlattenSeq

(* What is joined is at least as long as every member of it, and when none  *)
(* is empty, as their number.                                               *)
LEMMA JoinIsLong ==
  ASSUME NEW S, NEW parts \in Seq(Seq(S)), NEW joined, Numbers!IsJoin(S, parts, joined)
  PROVE  /\ \A i \in 1..Len(parts) : Len(parts[i]) <= Len(joined[Len(parts)])
         /\ (\A i \in 1..Len(parts) : parts[i] # <<>>) => Len(parts) <= Len(joined[Len(parts)])
<1> DEFINE n == Len(parts)
           A == {i \in Nat : i <= n =>
                   /\ \A j \in 1..i : Len(parts[j]) <= Len(joined[i])
                   /\ (\A j \in 1..n : parts[j] # <<>>) => i <= Len(joined[i])}
<1>1. n \in Nat /\ \A i \in 1..n : parts[i] \in Seq(S) OBVIOUS
<1>2. /\ joined \in [0..n -> Seq(S)] /\ joined[0] = <<>>
      /\ \A i \in 1..n : joined[i] = joined[i - 1] \o parts[i]
  BY DEF Numbers!IsJoin
<1> HIDE DEF n
<1>3. 0 \in A BY <1>2
<1>4. ASSUME NEW i \in A PROVE i + 1 \in A
  <2>1. i \in Nat OBVIOUS
  <2> SUFFICES ASSUME i + 1 <= n
               PROVE  /\ \A j \in 1 .. i + 1 : Len(parts[j]) <= Len(joined[i + 1])
                      /\ (\A j \in 1..n : parts[j] # <<>>) => i + 1 <= Len(joined[i + 1])
    BY <2>1
  <2>2. i \in 0..n /\ i + 1 \in 1..n /\ (i + 1) - 1 = i /\ i <= n BY <1>1, <2>1
  <2>3. PICK x \in Seq(S), y \in Seq(S) : x = joined[i] /\ y = parts[i + 1]
    BY <1>1, <1>2, <2>2
  <2>4. joined[i + 1] = x \o y BY <1>2, <2>2, <2>3
  <2>5. Len(joined[i + 1]) = Len(x) + Len(y) BY <2>4, ConcatProperties
  <2>6. Len(x) \in Nat /\ Len(y) \in Nat /\ (y # <<>> => Len(y) >= 1) BY EmptySeq, LenProperties
  <2>7. /\ \A j \in 1..i : Len(parts[j]) <= Len(x)
        /\ (\A j \in 1..n : parts[j] # <<>>) => i <= Len(x)
    BY <2>2, <2>3
  <2>8. ASSUME NEW j \in 1 .. i + 1 PROVE Len(parts[j]) <= Len(joined[i + 1])
    <3>1. CASE j = i + 1
      <4>1. parts[j] = y BY <2>3, <3>1
      <4> QED BY <2>5, <2>6, <4>1
    <3>2. CASE j # i + 1
      <4>1. j \in 1..i BY <2>1, <3>2
      <4>2. Len(parts[j]) <= Len(x) /\ Len(parts[j]) \in Nat BY <1>1, <2>2, <2>7, <4>1
      <4> QED BY <2>5, <2>6, <4>2
    <3> QED BY <3>1, <3>2
  <2>9. ASSUME \A j \in 1..n : parts[j] # <<>> PROVE i + 1 <= Len(joined[i + 1])
    <3>1. y # <<>> BY <2>2, <2>3, <2>9
    <3>2. i <= Len(x) BY <2>7, <2>9
    <3> QED BY <2>1, <2>5, <2>6, <3>1, <3>2
  <2> QED BY <2>8, <2>9
<1>5. A \in SUBSET Nat OBVIOUS
<1>6. A = Nat
  <2> HIDE DEF A
  <2> QED BY <1>3, <1>4, <1>5, Numbers!Inductive
<1>7. n \in A
  <2> HIDE DEF A
  <2> QED BY <1>1, <1>6
<1> QED BY <1>1, <1>7 DEF n

(* A member stands where those before it end.                               *)
LEMMA JoinAt ==
  ASSUME NEW body \in Seq(Byte), NEW at \in Nat, NEW parts \in Seq(Seq(Byte)),
         NEW joined, Numbers!IsJoin(Byte, parts, joined), At(body, at, joined[Len(parts)])
  PROVE  \A i \in 1..Len(parts) : At(body, at + Len(joined[i - 1]), parts[i])
<1> DEFINE n == Len(parts)
           A == {k \in Nat : k <= n => At(body, at, joined[n - k])}
<1>1. n \in Nat /\ \A i \in 1..n : parts[i] \in Seq(Byte) OBVIOUS
<1>2. /\ joined \in [0..n -> Seq(Byte)] /\ joined[0] = <<>>
      /\ \A i \in 1..n : joined[i] = joined[i - 1] \o parts[i]
  BY DEF Numbers!IsJoin
<1>3. At(body, at, joined[n]) OBVIOUS
<1> HIDE DEF n
<1>4. ASSUME NEW i \in 1..n, At(body, at, joined[i])
      PROVE  At(body, at, joined[i - 1]) /\ At(body, at + Len(joined[i - 1]), parts[i])
  <2>1. i - 1 \in 0..n BY <1>1
  <2>2. PICK x \in Seq(Byte), y \in Seq(Byte) : x = joined[i - 1] /\ y = parts[i]
    BY <1>1, <1>2, <2>1
  <2>3. At(body, at, x \o y) BY <1>2, <1>4, <2>2
  <2> QED BY <2>2, <2>3, AtBoth
<1>5. 0 \in A
  <2>1. n - 0 = n BY <1>1
  <2> QED BY <1>3, <2>1
<1>6. ASSUME NEW k \in A PROVE k + 1 \in A
  <2>1. k \in Nat OBVIOUS
  <2> SUFFICES ASSUME k + 1 <= n PROVE At(body, at, joined[n - (k + 1)]) BY <2>1
  <2>2. n - k \in 1..n /\ (n - k) - 1 = n - (k + 1) /\ k <= n BY <1>1, <2>1
  <2>3. At(body, at, joined[n - k]) BY <2>2
  <2>4. PICK i \in 1..n : i = n - k BY <2>2
  <2>5. At(body, at, joined[i - 1]) BY <1>4, <2>3, <2>4
  <2> QED BY <2>2, <2>4, <2>5
<1>7. A \in SUBSET Nat OBVIOUS
<1>8. A = Nat
  <2> HIDE DEF A
  <2> QED BY <1>5, <1>6, <1>7, Numbers!Inductive
<1>9. ASSUME NEW i \in 1..n PROVE At(body, at, joined[i])
  <2>1. n - i \in A
    <3> HIDE DEF A
    <3> QED BY <1>1, <1>8
  <2>2. n - i <= n /\ n - (n - i) = i BY <1>1
  <2> QED BY <2>1, <2>2
<1> QED BY <1>4, <1>9 DEF n

(* The tags are read where they were written, in the order they were, and   *)
(* make the set they were.                                                  *)
TagsTo(tags, i) == {tags[j] : j \in 1..i}
TagParts(tags) == [i \in 1..Len(tags) |-> WriteUtf8(tags[i])]

LEMMA NextTagAt ==
  ASSUME NEW body \in Seq(Byte), NEW set, NEW at \in Nat,
         NEW s, Text(s), At(body, at, WriteUtf8(s))
  PROVE  NextTag(body, Found(set, at)) = Found(set \cup {s}, at + Len(WriteUtf8(s)))
<1>0. PICK before : before = Found(set, at) OBVIOUS
<1>1. PICK tag : tag = ReadUtf8(body, before.pos) OBVIOUS
<1>2. PICK next : next = AddTag(body, before) OBVIOUS
<1>3. before.err = "none" /\ before.value = set /\ before.pos = at BY <1>0 DEF Found
<1>4. tag = Found(s, at + Len(WriteUtf8(s))) BY <1>1, <1>3, Utf8At
<1>5. tag.err = "none" /\ tag.value = s /\ tag.pos = at + Len(WriteUtf8(s)) BY <1>4 DEF Found
<1>6. NextTag(body, before) = next BY <1>2, <1>3, NextTagBy
<1>7. next = Found(before.value \cup {tag.value}, tag.pos) BY <1>1, <1>2, <1>5, AddTagBy
<1> QED BY <1>0, <1>3, <1>5, <1>6, <1>7

LEMMA TagBytes ==
  ASSUME NEW tags \in Seq(Seq(Byte)), \A i \in 1..Len(tags) : Short(tags[i]), Len(tags) <= MaxNumber
  PROVE  /\ TagParts(tags) \in Seq(Seq(Byte)) /\ Len(TagParts(tags)) = Len(tags)
         /\ \A i \in 1..Len(tags) : TagParts(tags)[i] = WriteUtf8(tags[i])
         /\ FlattenSeq(TagParts(tags)) \in Seq(Byte)
         /\ EncodeNumber(Len(tags)) \in Seq(Byte)
         /\ WriteTags(tags) = EncodeNumber(Len(tags)) \o FlattenSeq(TagParts(tags))
         /\ WriteTags(tags) \in Seq(Byte)
<1> DEFINE parts == TagParts(tags)
<1>1. Len(tags) \in Nat OBVIOUS
<1>2. \A i \in 1..Len(tags) : WriteUtf8(tags[i]) \in Seq(Byte) BY SizedBytes
<1>3. /\ parts \in Seq(Seq(Byte)) /\ Len(parts) = Len(tags)
      /\ \A i \in 1..Len(tags) : parts[i] = WriteUtf8(tags[i])
  <2> DEFINE X == Seq(Byte)
  <2> HIDE DEF X
  <2>1. \A i \in 1..Len(tags) : WriteUtf8(tags[i]) \in X BY <1>2 DEF X
  <2>2. /\ parts \in Seq(X) /\ Len(parts) = Len(tags)
        /\ \A i \in 1..Len(tags) : parts[i] = WriteUtf8(tags[i])
    BY <1>1, <2>1 DEF TagParts
  <2> QED BY <2>2 DEF X
<1> HIDE DEF parts
<1>4. PICK joined : Numbers!IsJoin(Byte, parts, joined) /\ FlattenSeq(parts) = joined[Len(parts)]
  BY <1>3, FlattenSeqIs, Numbers!Flattened
<1>5. joined[Len(parts)] \in Seq(Byte) BY <1>1, <1>3, <1>4 DEF Numbers!IsJoin
<1>6. EncodeNumber(Len(tags)) \in Seq(Byte) BY <1>1, NumberBytes
<1>7. WriteTags(tags) = EncodeNumber(Len(tags)) \o FlattenSeq(parts) BY DEF WriteTags, parts, TagParts
<1>8. WriteTags(tags) \in Seq(Byte)
  <2>1. PICK x \in Seq(Byte), y \in Seq(Byte) : x = EncodeNumber(Len(tags)) /\ y = FlattenSeq(parts)
    BY <1>4, <1>5, <1>6
  <2>2. x \o y \in Seq(Byte) BY ConcatProperties
  <2> QED BY <1>7, <2>1, <2>2
<1> QED BY <1>3, <1>4, <1>5, <1>6, <1>7, <1>8 DEF parts

LEMMA TagsAt ==
  ASSUME NEW body \in Seq(Byte), NEW at \in Nat,
         NEW tags \in Seq(Seq(Byte)), \A i \in 1..Len(tags) : Text(tags[i]), Len(tags) <= MaxNumber,
         At(body, at, WriteTags(tags))
  PROVE  ReadTags(body, at) = Found(TagsTo(tags, Len(tags)), at + Len(WriteTags(tags)))
<1>0. \A i \in 1..Len(tags) : Short(tags[i]) BY DEF Text
<1>1. PICK n \in Nat : n = Len(tags) OBVIOUS
<1>2. PICK parts \in Seq(Seq(Byte)) :
        /\ parts = TagParts(tags) /\ Len(parts) = n
        /\ \A i \in 1..n : parts[i] = WriteUtf8(tags[i])
  BY <1>0, <1>1, TagBytes
<1>3. PICK joined : Numbers!IsJoin(Byte, parts, joined) /\ FlattenSeq(parts) = joined[n]
  BY <1>2, FlattenSeqIs, Numbers!Flattened
<1>4. /\ joined \in [0..n -> Seq(Byte)] /\ joined[0] = <<>>
      /\ \A i \in 1..n : joined[i] = joined[i - 1] \o parts[i]
  BY <1>2, <1>3 DEF Numbers!IsJoin
<1>5. PICK code \in Seq(Byte), others \in Seq(Byte) :
        code = EncodeNumber(n) /\ others = joined[n] /\ WriteTags(tags) = code \o others
  <2>1. /\ EncodeNumber(Len(tags)) \in Seq(Byte) /\ FlattenSeq(TagParts(tags)) \in Seq(Byte)
        /\ WriteTags(tags) = EncodeNumber(Len(tags)) \o FlattenSeq(TagParts(tags))
    BY <1>0, TagBytes
  <2>2. FlattenSeq(TagParts(tags)) = joined[n] BY <1>2, <1>3
  <2> QED BY <1>1, <2>1, <2>2
<1>6. At(body, at, code) /\ At(body, at + Len(code), others) BY <1>5, AtBoth
<1>7. PICK start \in Nat : start = at + Len(code)
  <2>1. Len(code) \in Nat OBVIOUS
  <2> QED BY <2>1
<1>8. PICK count : count = ReadNumber(body, at) OBVIOUS
<1>9. count = Found(n, start) BY <1>1, <1>5, <1>6, <1>7, <1>8, ReadNumberAt
<1>10. count.err = "none" /\ count.value = n /\ count.pos = start BY <1>9 DEF Found
<1>11. PICK last : last = TagsAfter(body, count) OBVIOUS
<1>12. ReadTags(body, at) = last BY <1>8, <1>10, <1>11, TagsBy
<1>13. PICK after : IsLoop(body, count, after) /\ last = after[Turns(body, count)]
  BY <1>10, <1>11, TagLoop
<1>14. \A i \in 1..n : Len(parts[i]) >= 1
  <2>1. ASSUME NEW i \in 1..n PROVE Len(parts[i]) >= 1
    <3>1. Short(tags[i]) /\ parts[i] = WriteUtf8(tags[i]) BY <1>0, <1>1, <1>2
    <3>2. Len(tags[i]) \in Nat /\ Len(parts[i]) = Len(EncodeNumber(Len(tags[i]))) + Len(tags[i])
      BY <3>1, SizedBytes
    <3>3. PICK a \in 1..4, b \in Nat : a = Len(EncodeNumber(Len(tags[i]))) /\ b = Len(tags[i])
      BY <3>2, NumberBytes
    <3>4. Len(parts[i]) = a + b BY <3>2, <3>3
    <3> QED BY <3>4
  <2> QED BY <2>1
<1>15. Turns(body, count) = n
  <2>1. \A i \in 1..n : parts[i] # <<>> BY <1>14, EmptySeq
  <2>2. n <= Len(others)
    <3>1. Len(parts) <= Len(joined[Len(parts)]) BY <1>2, <1>3, <2>1, JoinIsLong
    <3> QED BY <1>2, <1>5, <3>1
  <2>3. Len(body) \in Nat /\ Len(others) \in Nat /\ start + Len(others) <= Len(body)
    BY <1>6, <1>7 DEF At
  <2>4. ~(n > Len(body)) BY <2>2, <2>3
  <2> QED BY <1>10, <2>4 DEF Turns
<1>16. after[0] = Found({}, start) /\ \A i \in 1..n : after[i] = NextTag(body, after[i - 1])
  BY <1>10, <1>13, <1>15 DEF IsLoop
<1>17. \A i \in 1..n : At(body, start + Len(joined[i - 1]), WriteUtf8(tags[i]))
  <2>1. At(body, start, joined[Len(parts)]) BY <1>2, <1>5, <1>6, <1>7
  <2>2. \A i \in 1..n : At(body, start + Len(joined[i - 1]), parts[i])
    BY <1>2, <1>3, <2>1, JoinAt
  <2> QED BY <1>2, <2>2
<1> DEFINE A == {i \in Nat : i <= n => after[i] = Found(TagsTo(tags, i), start + Len(joined[i]))}
<1>18. 0 \in A
  <2>1. TagsTo(tags, 0) = {} BY DEF TagsTo
  <2>2. start + Len(joined[0]) = start BY <1>4
  <2> QED BY <1>16, <2>1, <2>2
<1>19. ASSUME NEW i \in A PROVE i + 1 \in A
  <2>1. i \in Nat OBVIOUS
  <2> SUFFICES ASSUME i + 1 <= n
               PROVE  after[i + 1] = Found(TagsTo(tags, i + 1), start + Len(joined[i + 1]))
    BY <2>1
  <2>2. PICK k \in 1..n : k = i + 1 BY <1>1, <2>1
  <2>3. k - 1 = i /\ i <= n /\ i \in 0..n BY <2>1, <2>2
  <2>4. after[i] = Found(TagsTo(tags, i), start + Len(joined[i])) BY <2>3
  <2>5. PICK x \in Seq(Byte), y \in Seq(Byte) : x = joined[i] /\ y = parts[k]
    <3>1. joined[i] \in Seq(Byte) BY <1>4, <2>3
    <3>2. parts[k] \in Seq(Byte) BY <1>2
    <3> QED BY <3>1, <3>2
  <2>6. PICK p \in Nat : p = start + Len(x)
    <3>1. Len(x) \in Nat OBVIOUS
    <3> QED BY <3>1
  <2>7. Text(tags[k]) /\ y = WriteUtf8(tags[k]) BY <1>1, <1>2, <2>5
  <2>8. At(body, p, WriteUtf8(tags[k])) BY <1>17, <2>3, <2>5, <2>6
  <2>9. NextTag(body, after[i]) = Found(TagsTo(tags, i) \cup {tags[k]}, p + Len(y))
    <3>1. PICK set : set = TagsTo(tags, i) OBVIOUS
    <3>2. NextTag(body, Found(set, p)) = Found(set \cup {tags[k]}, p + Len(WriteUtf8(tags[k])))
      <4>1. PICK tag : tag = tags[k] OBVIOUS
      <4>2. Text(tag) /\ At(body, p, WriteUtf8(tag)) BY <2>7, <2>8, <4>1
      <4> HIDE DEF A
      <4>3. NextTag(body, Found(set, p)) = Found(set \cup {tag}, p + Len(WriteUtf8(tag)))
        BY <4>2, NextTagAt
      <4> QED BY <4>1, <4>3
    <3>3. after[i] = Found(set, p) BY <2>4, <2>5, <2>6, <3>1
    <3> QED BY <2>7, <3>1, <3>2, <3>3
  <2>10. TagsTo(tags, i + 1) = TagsTo(tags, i) \cup {tags[k]}
    <3>1. \A j : j \in 1 .. i + 1 <=> j \in 1..i \/ j = k BY <2>1, <2>2
    <3> QED BY <3>1 DEF TagsTo
  <2>11. Len(joined[k]) = Len(x) + Len(y)
    <3>1. joined[k] = x \o y BY <1>4, <2>3, <2>5
    <3> QED BY <3>1, ConcatProperties
  <2>12. p + Len(y) = start + Len(joined[k])
    <3>1. Len(x) \in Nat /\ Len(y) \in Nat OBVIOUS
    <3> QED BY <2>6, <2>11, <3>1
  <2>13. after[k] = NextTag(body, after[i]) BY <1>16, <2>3
  <2> QED BY <2>2, <2>9, <2>10, <2>12, <2>13
<1>20. A \in SUBSET Nat OBVIOUS
<1>21. A = Nat
  <2> HIDE DEF A
  <2> QED BY <1>18, <1>19, <1>20, Numbers!Inductive
<1>22. n \in A
  <2> HIDE DEF A
  <2> QED BY <1>21
<1>23. last = Found(TagsTo(tags, n), start + Len(others)) BY <1>1, <1>5, <1>13, <1>15, <1>22
<1>24. start + Len(others) = at + Len(WriteTags(tags))
  <2>1. Len(code \o others) = Len(code) + Len(others) BY ConcatProperties
  <2>2. PICK a \in Nat, b \in Nat : a = Len(code) /\ b = Len(others)
    <3>1. Len(code) \in Nat /\ Len(others) \in Nat OBVIOUS
    <3> QED BY <3>1
  <2>3. Len(WriteTags(tags)) = a + b BY <1>5, <2>1, <2>2
  <2>4. start = at + a BY <1>7, <2>2
  <2>5. at + a + b = at + (a + b) OBVIOUS
  <2> QED BY <2>2, <2>3, <2>4, <2>5
<1> QED BY <1>1, <1>12, <1>23, <1>24

-----------------------------------------------------------------------------
(* The flags.                                                               *)

BitSum(a, b, c, d, e, f, g, h, s) ==
    8192 + 2048 * a + 1024 * b + 512 * c + 256 * d + 128 * e + 64 * f + 32 * g + 16 * h + s

AreBits(n, a, b, c, d, e, f, g, h, s) ==
    /\ n \in Nat /\ n < 65536 /\ n % 8 = s
    /\ (n \div 2048) % 2 = a /\ (n \div 1024) % 2 = b /\ (n \div 512) % 2 = c
    /\ (n \div 256) % 2 = d /\ (n \div 128) % 2 = e /\ (n \div 64) % 2 = f
    /\ (n \div 32) % 2 = g /\ (n \div 16) % 2 = h

LEMMA Bits ==
  ASSUME NEW a \in 0..1, NEW b \in 0..1, NEW c \in 0..1, NEW d \in 0..1,
         NEW e \in 0..1, NEW f \in 0..1, NEW g \in 0..1, NEW h \in 0..1, NEW s \in 0..7
  PROVE  AreBits(BitSum(a, b, c, d, e, f, g, h, s), a, b, c, d, e, f, g, h, s)
<1> DEFINE n == BitSum(a, b, c, d, e, f, g, h, s)
<1>0. n = 8192 + 2048 * a + 1024 * b + 512 * c + 256 * d + 128 * e + 64 * f + 32 * g + 16 * h + s
  BY DEF BitSum
<1> HIDE DEF n
<1>1. n \in Nat /\ n < 65536 BY <1>0, SMT
<1>2. n % 8 = s BY <1>0, SMT
<1>3. (n \div 2048) % 2 = a BY <1>0, SMT
<1>4. (n \div 1024) % 2 = b BY <1>0, SMT
<1>5. (n \div 512) % 2 = c BY <1>0, SMT
<1>6. (n \div 256) % 2 = d BY <1>0, SMT
<1>7. (n \div 128) % 2 = e BY <1>0, SMT
<1>8. (n \div 64) % 2 = f BY <1>0, SMT
<1>9. (n \div 32) % 2 = g BY <1>0, SMT
<1>10. (n \div 16) % 2 = h BY <1>0, SMT
<1> QED BY <1>1, <1>2, <1>3, <1>4, <1>5, <1>6, <1>7, <1>8, <1>9, <1>10 DEF AreBits, n

Bit(condition) == IF condition THEN 1 ELSE 0

LEMMA BitIs ==
  ASSUME NEW condition \in BOOLEAN
  PROVE  Bit(condition) \in 0..1 /\ (Bit(condition) = 1 <=> condition)
BY DEF Bit

(* Every flag is set when and only when its argument was given.             *)
LEMMA FlagsAre ==
  ASSUME NEW c, c.runnable \in BOOLEAN, c.eof \in BOOLEAN, c.test_status \in 0..7
  PROVE  /\ Flags(c) \in Nat /\ Packs16(Flags(c)) /\ Flags(c) % 8 = c.test_status
         /\ Has(Flags(c), FLAG_TIMESTAMP) <=> c.timestamp # None
         /\ Has(Flags(c), FLAG_TEST_ID) <=> c.test_id # None
         /\ Has(Flags(c), FLAG_TAGS) <=> c.test_tags # {}
         /\ Has(Flags(c), FLAG_RUNNABLE) <=> c.runnable
         /\ Has(Flags(c), FLAG_MIME_TYPE) <=> HasMime(c)
         /\ Has(Flags(c), FLAG_FILE_CONTENT) <=> c.file # None
         /\ Has(Flags(c), FLAG_EOF) <=> c.eof
         /\ Has(Flags(c), FLAG_ROUTE_CODE) <=> c.route_code # None
<1> DEFINE id == c.test_id # None
           route == c.route_code # None
           time == c.timestamp # None
           tags == c.test_tags # {}
           file == c.file # None
           mime == HasMime(c)
<1>1. Flags(c) = VERSION + FlagIf(time, FLAG_TIMESTAMP) + FlagIf(id, FLAG_TEST_ID)
                   + FlagIf(tags, FLAG_TAGS) + FlagIf(c.runnable, FLAG_RUNNABLE)
                   + FlagIf(mime, FLAG_MIME_TYPE) + FlagIf(file, FLAG_FILE_CONTENT)
                   + FlagIf(c.eof, FLAG_EOF) + FlagIf(route, FLAG_ROUTE_CODE) + c.test_status
  BY DEF Flags
<1>2. /\ id \in BOOLEAN /\ route \in BOOLEAN /\ time \in BOOLEAN /\ tags \in BOOLEAN
      /\ file \in BOOLEAN /\ mime \in BOOLEAN
  BY DEF HasMime
<1> HIDE DEF id, route, time, tags, file, mime
<1>3. PICK b1 \in 0..1, b2 \in 0..1, b3 \in 0..1, b4 \in 0..1,
           b5 \in 0..1, b6 \in 0..1, b7 \in 0..1, b8 \in 0..1 :
        /\ b1 = Bit(id) /\ b2 = Bit(route) /\ b3 = Bit(time) /\ b4 = Bit(c.runnable)
        /\ b5 = Bit(tags) /\ b6 = Bit(file) /\ b7 = Bit(mime) /\ b8 = Bit(c.eof)
  BY <1>2, BitIs
<1>4. PICK s \in 0..7 : s = c.test_status OBVIOUS
<1>5. /\ FlagIf(id, 2048) = 2048 * b1 /\ FlagIf(route, 1024) = 1024 * b2
      /\ FlagIf(time, 512) = 512 * b3 /\ FlagIf(c.runnable, 256) = 256 * b4
      /\ FlagIf(tags, 128) = 128 * b5 /\ FlagIf(file, 64) = 64 * b6
      /\ FlagIf(mime, 32) = 32 * b7 /\ FlagIf(c.eof, 16) = 16 * b8
  BY <1>2, <1>3, SMT DEF FlagIf, Bit
<1>6. PICK n : n = Flags(c) OBVIOUS
<1>7. n = BitSum(b1, b2, b3, b4, b5, b6, b7, b8, s)
  BY <1>1, <1>4, <1>5, <1>6, SMT
     DEF BitSum, VERSION, FLAG_TIMESTAMP, FLAG_TEST_ID, FLAG_TAGS, FLAG_RUNNABLE, FLAG_MIME_TYPE,
         FLAG_FILE_CONTENT, FLAG_EOF, FLAG_ROUTE_CODE
<1>8. /\ n \in Nat /\ n < 65536 /\ n % 8 = s
      /\ (n \div 2048) % 2 = b1 /\ (n \div 1024) % 2 = b2 /\ (n \div 512) % 2 = b3
      /\ (n \div 256) % 2 = b4 /\ (n \div 128) % 2 = b5 /\ (n \div 64) % 2 = b6
      /\ (n \div 32) % 2 = b7 /\ (n \div 16) % 2 = b8
  <2>1. AreBits(n, b1, b2, b3, b4, b5, b6, b7, b8, s) BY <1>7, Bits, Zenon
  <2> QED BY <2>1, SMT DEF AreBits
<1>9. /\ Has(n, 2048) <=> b1 = 1
      /\ Has(n, 1024) <=> b2 = 1
      /\ Has(n, 512) <=> b3 = 1
      /\ Has(n, 256) <=> b4 = 1
      /\ Has(n, 128) <=> b5 = 1
      /\ Has(n, 64) <=> b6 = 1
      /\ Has(n, 32) <=> b7 = 1
      /\ Has(n, 16) <=> b8 = 1
  BY <1>8, SMT DEF Has
<1>10. /\ (b1 = 1 <=> id) /\ (b2 = 1 <=> route) /\ (b3 = 1 <=> time) /\ (b4 = 1 <=> c.runnable)
       /\ (b5 = 1 <=> tags) /\ (b6 = 1 <=> file) /\ (b7 = 1 <=> mime) /\ (b8 = 1 <=> c.eof)
  BY <1>2, <1>3, BitIs
<1>11. Packs16(n) BY <1>8 DEF Packs16
<1> QED
  BY <1>4, <1>6, <1>8, <1>9, <1>10, <1>11
     DEF VERSION, FLAG_TIMESTAMP, FLAG_TEST_ID, FLAG_TAGS, FLAG_RUNNABLE, FLAG_MIME_TYPE,
         FLAG_FILE_CONTENT, FLAG_EOF, FLAG_ROUTE_CODE, id, route, time, tags, file, mime

-----------------------------------------------------------------------------
(* The bytes of a call, field by field.                                     *)

(* The arguments of a call, as the assumption has them.                     *)
Utf8Text(s) == s \in Seq(Byte) /\ WellFormed(s)
Given1(option) == option = None \/ option = <<option[1]>>

IsCall(c) ==
    /\ c = [timestamp |-> c.timestamp, test_id |-> c.test_id, test_tags |-> c.test_tags,
            runnable |-> c.runnable, mime_type |-> c.mime_type, file |-> c.file,
            eof |-> c.eof, route_code |-> c.route_code, test_status |-> c.test_status]
    /\ Given1(c.timestamp) /\ (c.timestamp # None => IsTime(c.timestamp[1]))
    /\ Given1(c.test_id) /\ (c.test_id # None => Utf8Text(c.test_id[1]))
    /\ IsFiniteSet(c.test_tags) /\ \A s \in c.test_tags : Utf8Text(s)
    /\ c.runnable \in BOOLEAN
    /\ Given1(c.mime_type) /\ (c.mime_type # None => Utf8Text(c.mime_type[1]))
    /\ Given1(c.file)
    /\ c.file # None => /\ c.file[1] = [name |-> c.file[1].name, bytes |-> c.file[1].bytes]
                        /\ Utf8Text(c.file[1].name) /\ c.file[1].bytes \in Seq(Byte)
    /\ c.eof \in BOOLEAN
    /\ Given1(c.route_code) /\ (c.route_code # None => Utf8Text(c.route_code[1]))
    /\ c.test_status \in 0..7

LEMMA OptionIs ==
  ASSUME NEW S, NEW option \in Optional(S)
  PROVE  Given1(option) /\ (option # None => option[1] \in S)
BY DEF Optional, None, Given1

LEMMA CallsAre ==
  ASSUME NEW c \in Given
  PROVE  IsCall(c)
<1>1. c \in Calls(Strings, Bodies, Times) /\ IsFiniteSet(c.test_tags) BY ExchangeAssumption
<1>2. /\ \A s \in Strings : Utf8Text(s)
      /\ Bodies \subseteq Seq(Byte)
      /\ \A t \in Times : IsTime(t)
  BY ExchangeAssumption DEF Utf8Text, IsTime, Packs32, IsMicro
<1> DEFINE Files == [name : Strings, bytes : Bodies]
<1>3. \A f \in Files : /\ f = [name |-> f.name, bytes |-> f.bytes]
                       /\ Utf8Text(f.name) /\ f.bytes \in Seq(Byte)
  BY <1>2
<1>4. c \in [timestamp : Optional(Times), test_id : Optional(Strings),
             test_tags : SUBSET Strings, runnable : BOOLEAN,
             mime_type : Optional(Strings),
             file      : Optional(Files),
             eof       : BOOLEAN, route_code : Optional(Strings),
             test_status : Status]
  BY <1>1 DEF Calls
<1> HIDE DEF Files
<1>5. /\ c = [timestamp |-> c.timestamp, test_id |-> c.test_id, test_tags |-> c.test_tags,
            runnable |-> c.runnable, mime_type |-> c.mime_type, file |-> c.file,
            eof |-> c.eof, route_code |-> c.route_code, test_status |-> c.test_status]
      /\ c.timestamp \in Optional(Times) /\ c.test_id \in Optional(Strings)
      /\ c.test_tags \in SUBSET Strings /\ c.runnable \in BOOLEAN
      /\ c.mime_type \in Optional(Strings) /\ c.file \in Optional(Files)
      /\ c.eof \in BOOLEAN /\ c.route_code \in Optional(Strings) /\ c.test_status \in Status
  BY <1>4
<1>6. Given1(c.timestamp) /\ (c.timestamp # None => IsTime(c.timestamp[1]))
  BY <1>2, <1>5, OptionIs
<1>7. Given1(c.test_id) /\ (c.test_id # None => Utf8Text(c.test_id[1]))
  BY <1>2, <1>5, OptionIs
<1>8. Given1(c.mime_type) /\ (c.mime_type # None => Utf8Text(c.mime_type[1]))
  BY <1>2, <1>5, OptionIs
<1>9. Given1(c.route_code) /\ (c.route_code # None => Utf8Text(c.route_code[1]))
  BY <1>2, <1>5, OptionIs
<1>10. Given1(c.file) /\ (c.file # None => c.file[1] \in Files) BY <1>5, OptionIs
<1>11. c.test_status \in 0..7 BY <1>5 DEF Status
<1> QED BY <1>1, <1>2, <1>3, <1>5, <1>6, <1>7, <1>8, <1>9, <1>10, <1>11 DEF IsCall

TimePart(c) == IF c.timestamp # None THEN WriteTimestamp(c.timestamp[1]) ELSE <<>>
IdPart(c) == IF c.test_id # None THEN WriteUtf8(c.test_id[1]) ELSE <<>>
TagsPart(c) == IF c.test_tags # {} THEN WriteTags(SetToSeq(c.test_tags)) ELSE <<>>
MimePart(c) == IF HasMime(c) THEN WriteUtf8(c.mime_type[1]) ELSE <<>>
FilePart(c) == IF c.file # None THEN WriteFile(c.file[1]) ELSE <<>>
RoutePart(c) == IF c.route_code # None THEN WriteUtf8(c.route_code[1]) ELSE <<>>

LEMMA FieldsAre ==
  ASSUME NEW c
  PROVE  Fields(c) = TimePart(c) \o IdPart(c) \o TagsPart(c) \o MimePart(c) \o FilePart(c)
                       \o RoutePart(c)
BY DEF Fields, IfGiven, TimePart, IdPart, TagsPart, MimePart, FilePart, RoutePart

LEMMA SixInARow ==
  ASSUME NEW S, NEW a \in Seq(S), NEW b \in Seq(S), NEW c \in Seq(S), NEW d \in Seq(S),
         NEW e \in Seq(S), NEW f \in Seq(S)
  PROVE  /\ a \o b \o c \o d \o e \o f \in Seq(S)
         /\ Len(a \o b \o c \o d \o e \o f)
              = Len(a) + Len(b) + Len(c) + Len(d) + Len(e) + Len(f)
<1> DEFINE ab == a \o b
           ac == ab \o c
           ad == ac \o d
           ae == ad \o e
           af == ae \o f
<1>1. ab \in Seq(S) /\ Len(ab) = Len(a) + Len(b) BY ConcatProperties
<1> HIDE DEF ab
<1>2. ac \in Seq(S) /\ Len(ac) = Len(ab) + Len(c) BY <1>1, ConcatProperties
<1> HIDE DEF ac
<1>3. ad \in Seq(S) /\ Len(ad) = Len(ac) + Len(d) BY <1>2, ConcatProperties
<1> HIDE DEF ad
<1>4. ae \in Seq(S) /\ Len(ae) = Len(ad) + Len(e) BY <1>3, ConcatProperties
<1> HIDE DEF ae
<1>5. af \in Seq(S) /\ Len(af) = Len(ae) + Len(f) BY <1>4, ConcatProperties
<1> HIDE DEF af
<1>6. Len(af) = Len(a) + Len(b) + Len(c) + Len(d) + Len(e) + Len(f)
  BY <1>1, <1>2, <1>3, <1>4, <1>5
<1> QED BY <1>5, <1>6 DEF ab, ac, ad, ae, af

(* What each part takes at least, whether or not the call fits a packet.    *)
LEMMA BytesAreNumbers ==
  ASSUME NEW s \in Seq(Byte)
  PROVE  s \in Seq(Nat)
<1>1. Byte \subseteq Nat BY ByteIsNat
<1> QED BY <1>1, SeqMonotonic

LEMMA SizedLength ==
  ASSUME NEW s \in Seq(Byte)
  PROVE  WriteUtf8(s) \in Seq(Nat) /\ Len(s) <= Len(WriteUtf8(s)) /\ WriteUtf8(s) # <<>>
<1>1. PICK x \in Seq(Nat), y \in Seq(Nat) : x = EncodeNumber(Len(s)) /\ y = s
  <2>1. Len(s) \in Nat OBVIOUS
  <2> QED BY <2>1, NumberBytes, BytesAreNumbers
<1>2. Len(x) \in 1..4 /\ Len(y) \in Nat
  <2>1. Len(s) \in Nat OBVIOUS
  <2> QED BY <1>1, <2>1, NumberBytes
<1>3. x \o y \in Seq(Nat) /\ Len(x \o y) = Len(x) + Len(y) BY ConcatProperties
<1>4. WriteUtf8(s) = x \o y BY <1>1 DEF WriteUtf8
<1>5. Len(s) <= Len(x \o y) /\ Len(x \o y) # 0 BY <1>1, <1>2, <1>3
<1> QED BY <1>3, <1>4, <1>5, EmptySeq

LEMMA FileLength ==
  ASSUME NEW f, f.name \in Seq(Byte), f.bytes \in Seq(Byte)
  PROVE  /\ WriteFile(f) \in Seq(Nat)
         /\ Len(f.name) <= Len(WriteFile(f)) /\ Len(f.bytes) <= Len(WriteFile(f))
<1>1. PICK x \in Seq(Nat), y \in Seq(Nat), z \in Seq(Nat) :
        x = WriteUtf8(f.name) /\ y = EncodeNumber(Len(f.bytes)) /\ z = f.bytes
  <2>1. Len(f.bytes) \in Nat OBVIOUS
  <2> QED BY <2>1, NumberBytes, BytesAreNumbers, SizedLength
<1>2. x \o y \in Seq(Nat) /\ Len(x \o y) = Len(x) + Len(y) BY ConcatProperties
<1>3. PICK w \in Seq(Nat) : w = x \o y BY <1>2
<1>4. w \o z \in Seq(Nat) /\ Len(w \o z) = Len(w) + Len(z) BY ConcatProperties
<1>5. WriteFile(f) = w \o z BY <1>1, <1>3 DEF WriteFile
<1>6. Len(x) \in Nat /\ Len(y) \in Nat /\ Len(z) \in Nat /\ Len(w) \in Nat OBVIOUS
<1>7. Len(f.name) <= Len(x) /\ Len(f.name) \in Nat BY <1>1, SizedLength
<1>8. Len(f.name) <= Len(w \o z) /\ Len(f.bytes) <= Len(w \o z)
  <2>1. Len(w) = Len(x) + Len(y) BY <1>2, <1>3
  <2>2. Len(f.bytes) = Len(z) BY <1>1
  <2>3. Len(w \o z) = Len(x) + Len(y) + Len(z) BY <1>4, <2>1
  <2>4. Len(f.name) <= Len(w \o z) BY <1>6, <1>7, <2>3
  <2>5. Len(z) <= Len(w \o z) BY <1>6, <2>3
  <2> QED BY <2>2, <2>4, <2>5
<1> QED BY <1>4, <1>5, <1>8

LEMMA TagsLength ==
  ASSUME NEW tags \in Seq(Seq(Byte))
  PROVE  /\ WriteTags(tags) \in Seq(Nat) /\ Len(tags) <= Len(WriteTags(tags))
         /\ \A i \in 1..Len(tags) : Len(tags[i]) <= Len(WriteTags(tags))
<1> DEFINE parts == TagParts(tags)
<1>1. Len(tags) \in Nat /\ \A i \in 1..Len(tags) : tags[i] \in Seq(Byte) OBVIOUS
<1>2. \A i \in 1..Len(tags) :
        /\ WriteUtf8(tags[i]) \in Seq(Nat) /\ WriteUtf8(tags[i]) # <<>>
        /\ Len(tags[i]) <= Len(WriteUtf8(tags[i]))
  BY <1>1, SizedLength
<1>3. /\ parts \in Seq(Seq(Nat)) /\ Len(parts) = Len(tags)
      /\ \A i \in 1..Len(tags) : parts[i] = WriteUtf8(tags[i])
  <2> DEFINE X == Seq(Nat)
  <2> HIDE DEF X
  <2>1. \A i \in 1..Len(tags) : WriteUtf8(tags[i]) \in X BY <1>2 DEF X
  <2>2. /\ parts \in Seq(X) /\ Len(parts) = Len(tags)
        /\ \A i \in 1..Len(tags) : parts[i] = WriteUtf8(tags[i])
    BY <1>1, <2>1 DEF TagParts
  <2> QED BY <2>2 DEF X
<1>4. WriteTags(tags) = EncodeNumber(Len(tags)) \o FlattenSeq(parts) BY DEF WriteTags, TagParts
<1> HIDE DEF parts
<1>5. PICK joined : Numbers!IsJoin(Nat, parts, joined) /\ FlattenSeq(parts) = joined[Len(parts)]
  BY <1>3, FlattenSeqIs, Numbers!Flattened
<1>6. PICK x \in Seq(Nat), y \in Seq(Nat) :
        x = EncodeNumber(Len(tags)) /\ y = FlattenSeq(parts)
  <2>1. joined[Len(parts)] \in Seq(Nat) BY <1>1, <1>3, <1>5 DEF Numbers!IsJoin
  <2>2. EncodeNumber(Len(tags)) \in Seq(Nat) BY <1>1, NumberBytes
  <2> QED BY <1>5, <2>1, <2>2
<1>7. x \o y \in Seq(Nat) /\ Len(x \o y) = Len(x) + Len(y) BY ConcatProperties
<1>8. Len(x) \in Nat /\ Len(y) \in Nat OBVIOUS
<1>9. Len(tags) <= Len(y)
  <2>1. \A i \in 1..Len(parts) : parts[i] # <<>> BY <1>2, <1>3
  <2>2. Len(parts) <= Len(joined[Len(parts)]) BY <1>3, <1>5, <2>1, JoinIsLong
  <2> QED BY <1>3, <1>5, <1>6, <2>2
<1>10. ASSUME NEW i \in 1..Len(tags) PROVE Len(tags[i]) <= Len(y)
  <2>1. \A j \in 1..Len(parts) : Len(parts[j]) <= Len(joined[Len(parts)])
    BY <1>3, <1>5, JoinIsLong
  <2>2. Len(parts[i]) <= Len(y) BY <1>3, <1>5, <1>6, <2>1
  <2>3. Len(tags[i]) <= Len(parts[i]) BY <1>2, <1>3
  <2>4. Len(tags[i]) \in Nat BY <1>1
  <2>5. Len(parts[i]) \in Nat
    <3>1. parts[i] \in Seq(Nat) BY <1>2, <1>3
    <3> QED BY <3>1
  <2> QED BY <1>8, <2>2, <2>3, <2>4, <2>5
<1>11. WriteTags(tags) = x \o y BY <1>4, <1>6
<1>12. \A i \in 1..Len(tags) : Len(tags[i]) \in Nat BY <1>1
<1> QED
  <2>1. Len(tags) <= Len(x \o y) BY <1>1, <1>7, <1>8, <1>9
  <2>2. \A i \in 1..Len(tags) : Len(tags[i]) <= Len(x \o y) BY <1>7, <1>8, <1>10, <1>12
  <2> QED BY <1>7, <1>11, <2>1, <2>2

LEMMA TagSeqIs ==
  ASSUME NEW c, IsCall(c)
  PROVE  /\ SetToSeq(c.test_tags) \in Seq(Seq(Byte))
         /\ \A i \in 1..Len(SetToSeq(c.test_tags)) : Utf8Text(SetToSeq(c.test_tags)[i])
                                                     /\ SetToSeq(c.test_tags)[i] \in c.test_tags
         /\ TagsTo(SetToSeq(c.test_tags), Len(SetToSeq(c.test_tags))) = c.test_tags
<1>1. IsFiniteSet(c.test_tags) /\ \A s \in c.test_tags : Utf8Text(s) BY DEF IsCall
<1>2. PICK tags : tags = SetToSeq(c.test_tags) OBVIOUS
<1>3. tags \in Seq(c.test_tags) /\ c.test_tags = {tags[i] : i \in 1..Len(tags)}
  BY <1>1, <1>2, SeqOfSet
<1>4. c.test_tags \subseteq Seq(Byte) BY <1>1 DEF Utf8Text
<1>5. tags \in Seq(Seq(Byte)) BY <1>3, <1>4, SeqMonotonic
<1>6. \A i \in 1..Len(tags) : tags[i] \in c.test_tags BY <1>3
<1> QED BY <1>1, <1>2, <1>3, <1>5, <1>6 DEF TagsTo

(* The strings of a call that fits a packet, and the bytes of its parts.    *)
Fits(c) == Len(Fields(c)) <= MaxNumber

LEMMA PartsAreNumbers ==
  ASSUME NEW c, IsCall(c)
  PROVE  /\ TimePart(c) \in Seq(Nat) /\ IdPart(c) \in Seq(Nat) /\ TagsPart(c) \in Seq(Nat)
         /\ MimePart(c) \in Seq(Nat) /\ FilePart(c) \in Seq(Nat) /\ RoutePart(c) \in Seq(Nat)
<1>1. <<>> \in Seq(Nat) BY EmptySeq
<1>2. TimePart(c) \in Seq(Nat)
  <2>1. c.timestamp # None => WriteTimestamp(c.timestamp[1]) \in Seq(Byte)
    BY TimeBytes DEF IsCall
  <2> QED BY <1>1, <2>1, BytesAreNumbers DEF TimePart
<1>3. IdPart(c) \in Seq(Nat) BY <1>1, SizedLength DEF IsCall, Utf8Text, IdPart
<1>4. TagsPart(c) \in Seq(Nat)
  <2>1. WriteTags(SetToSeq(c.test_tags)) \in Seq(Nat) BY TagSeqIs, TagsLength
  <2> QED BY <1>1, <2>1 DEF TagsPart
<1>5. MimePart(c) \in Seq(Nat)
  <2>1. HasMime(c) => c.mime_type # None BY DEF HasMime
  <2> QED BY <1>1, <2>1, SizedLength DEF IsCall, Utf8Text, MimePart
<1>6. FilePart(c) \in Seq(Nat)
  BY <1>1, FileLength DEF IsCall, Utf8Text, FilePart
<1>7. RoutePart(c) \in Seq(Nat) BY <1>1, SizedLength DEF IsCall, Utf8Text, RoutePart
<1> QED BY <1>2, <1>3, <1>4, <1>5, <1>6, <1>7

LEMMA FieldsLength ==
  ASSUME NEW c, IsCall(c)
  PROVE  /\ Fields(c) \in Seq(Nat) /\ Len(Fields(c)) \in Nat
         /\ Len(Fields(c)) = Len(TimePart(c)) + Len(IdPart(c)) + Len(TagsPart(c))
                               + Len(MimePart(c)) + Len(FilePart(c)) + Len(RoutePart(c))
         /\ Len(IdPart(c)) <= Len(Fields(c)) /\ Len(TagsPart(c)) <= Len(Fields(c))
         /\ Len(MimePart(c)) <= Len(Fields(c)) /\ Len(FilePart(c)) <= Len(Fields(c))
         /\ Len(RoutePart(c)) <= Len(Fields(c))
<1>1. PICK x1 \in Seq(Nat), x2 \in Seq(Nat), x3 \in Seq(Nat), x4 \in Seq(Nat),
           x5 \in Seq(Nat), x6 \in Seq(Nat) :
        /\ x1 = TimePart(c) /\ x2 = IdPart(c) /\ x3 = TagsPart(c)
        /\ x4 = MimePart(c) /\ x5 = FilePart(c) /\ x6 = RoutePart(c)
  BY PartsAreNumbers
<1>2. /\ x1 \o x2 \o x3 \o x4 \o x5 \o x6 \in Seq(Nat)
      /\ Len(x1 \o x2 \o x3 \o x4 \o x5 \o x6)
           = Len(x1) + Len(x2) + Len(x3) + Len(x4) + Len(x5) + Len(x6)
  BY SixInARow
<1>3. Fields(c) = x1 \o x2 \o x3 \o x4 \o x5 \o x6 BY <1>1, FieldsAre
<1>4. PICK fields \in Seq(Nat) : fields = Fields(c) BY <1>2, <1>3
<1>5. PICK n1 \in Nat, n2 \in Nat, n3 \in Nat, n4 \in Nat, n5 \in Nat, n6 \in Nat :
        /\ n1 = Len(x1) /\ n2 = Len(x2) /\ n3 = Len(x3)
        /\ n4 = Len(x4) /\ n5 = Len(x5) /\ n6 = Len(x6)
  <2>1. /\ Len(x1) \in Nat /\ Len(x2) \in Nat /\ Len(x3) \in Nat
        /\ Len(x4) \in Nat /\ Len(x5) \in Nat /\ Len(x6) \in Nat
    OBVIOUS
  <2> QED BY <2>1
<1>6. Len(fields) = n1 + n2 + n3 + n4 + n5 + n6 BY <1>2, <1>3, <1>4, <1>5
<1>7. /\ n2 <= Len(fields) /\ n3 <= Len(fields) /\ n4 <= Len(fields)
      /\ n5 <= Len(fields) /\ n6 <= Len(fields) /\ Len(fields) \in Nat
  BY <1>6
<1> QED BY <1>1, <1>4, <1>5, <1>6, <1>7

LEMMA FittingIsShort ==
  ASSUME NEW c, IsCall(c), Fits(c)
  PROVE  /\ c.test_id # None => Short(c.test_id[1])
         /\ c.test_tags # {} =>
              /\ Len(SetToSeq(c.test_tags)) <= MaxNumber
              /\ \A i \in 1..Len(SetToSeq(c.test_tags)) : Short(SetToSeq(c.test_tags)[i])
         /\ HasMime(c) => Short(c.mime_type[1])
         /\ c.file # None => Short(c.file[1].name) /\ Short(c.file[1].bytes)
         /\ c.route_code # None => Short(c.route_code[1])
<1>1. PICK n \in Nat : n = Len(Fields(c)) /\ n <= MaxNumber BY FieldsLength DEF Fits
<1>2. MaxNumber \in Nat BY DEF MaxNumber
<1>3. ASSUME NEW s \in Seq(Byte), NEW part, part = WriteUtf8(s), Len(part) <= n
      PROVE  Short(s)
  <2>1. part \in Seq(Nat) /\ Len(s) <= Len(part) BY <1>3, SizedLength
  <2>2. Len(s) \in Nat /\ Len(part) \in Nat BY <2>1
  <2>3. Len(s) <= MaxNumber BY <1>1, <1>2, <1>3, <2>1, <2>2
  <2> QED BY <2>3 DEF Short
<1>4. c.test_id # None => Short(c.test_id[1])
  <2> SUFFICES ASSUME c.test_id # None PROVE Short(c.test_id[1]) OBVIOUS
  <2>1. c.test_id[1] \in Seq(Byte) BY DEF IsCall, Utf8Text
  <2>2. IdPart(c) = WriteUtf8(c.test_id[1]) BY DEF IdPart
  <2>3. Len(IdPart(c)) <= n BY <1>1, FieldsLength
  <2> QED BY <1>3, <2>1, <2>2, <2>3
<1>5. HasMime(c) => Short(c.mime_type[1])
  <2> SUFFICES ASSUME HasMime(c) PROVE Short(c.mime_type[1]) OBVIOUS
  <2>1. c.mime_type[1] \in Seq(Byte) BY DEF IsCall, Utf8Text, HasMime
  <2>2. MimePart(c) = WriteUtf8(c.mime_type[1]) BY DEF MimePart
  <2>3. Len(MimePart(c)) <= n BY <1>1, FieldsLength
  <2> QED BY <1>3, <2>1, <2>2, <2>3
<1>6. c.route_code # None => Short(c.route_code[1])
  <2> SUFFICES ASSUME c.route_code # None PROVE Short(c.route_code[1]) OBVIOUS
  <2>1. c.route_code[1] \in Seq(Byte) BY DEF IsCall, Utf8Text
  <2>2. RoutePart(c) = WriteUtf8(c.route_code[1]) BY DEF RoutePart
  <2>3. Len(RoutePart(c)) <= n BY <1>1, FieldsLength
  <2> QED BY <1>3, <2>1, <2>2, <2>3
<1>7. c.file # None => Short(c.file[1].name) /\ Short(c.file[1].bytes)
  <2> SUFFICES ASSUME c.file # None PROVE Short(c.file[1].name) /\ Short(c.file[1].bytes) OBVIOUS
  <2>1. PICK f : f = c.file[1] OBVIOUS
  <2>2. f.name \in Seq(Byte) /\ f.bytes \in Seq(Byte) BY <2>1 DEF IsCall, Utf8Text
  <2>3. FilePart(c) = WriteFile(f) BY <2>1 DEF FilePart
  <2>4. PICK m : m = Len(WriteFile(f)) OBVIOUS
  <2>5. m <= n BY <1>1, <2>3, <2>4, FieldsLength
  <2>6. m \in Nat /\ Len(f.name) <= m /\ Len(f.bytes) <= m
    <3>1. WriteFile(f) \in Seq(Nat) /\ Len(f.name) <= m /\ Len(f.bytes) <= m
      BY <2>2, <2>4, FileLength
    <3> QED BY <2>4, <3>1
  <2>7. Len(f.name) \in Nat /\ Len(f.bytes) \in Nat BY <2>2
  <2>8. Len(f.name) <= MaxNumber /\ Len(f.bytes) <= MaxNumber
    BY <1>1, <1>2, <2>5, <2>6, <2>7
  <2> QED BY <2>1, <2>2, <2>8 DEF Short
<1>8. ASSUME c.test_tags # {}
      PROVE  /\ Len(SetToSeq(c.test_tags)) <= MaxNumber
             /\ \A i \in 1..Len(SetToSeq(c.test_tags)) : Short(SetToSeq(c.test_tags)[i])
  <2>1. PICK tags \in Seq(Seq(Byte)) : tags = SetToSeq(c.test_tags) BY TagSeqIs
  <2>2. TagsPart(c) = WriteTags(tags) BY <1>8, <2>1 DEF TagsPart
  <2>3. PICK m : m = Len(WriteTags(tags)) OBVIOUS
  <2>4. m <= n BY <1>1, <2>2, <2>3, FieldsLength
  <2>5. /\ m \in Nat /\ Len(tags) <= m
        /\ \A i \in 1..Len(tags) : Len(tags[i]) <= m
    <3>1. /\ WriteTags(tags) \in Seq(Nat) /\ Len(tags) <= m
          /\ \A i \in 1..Len(tags) : Len(tags[i]) <= m
      BY <2>3, TagsLength
    <3> QED BY <2>3, <3>1
  <2>6. Len(tags) \in Nat OBVIOUS
  <2>7. Len(tags) <= MaxNumber BY <1>1, <1>2, <2>4, <2>5, <2>6
  <2>8. ASSUME NEW i \in 1..Len(tags) PROVE Short(tags[i])
    <3>1. tags[i] \in Seq(Byte) OBVIOUS
    <3>2. PICK k \in Nat : k = Len(tags[i]) BY <3>1
    <3>3. k <= m BY <2>5, <3>2
    <3>4. k <= MaxNumber BY <1>1, <1>2, <2>4, <2>5, <3>3
    <3> QED BY <3>1, <3>2, <3>4 DEF Short
  <2> QED BY <2>1, <2>7, <2>8
<1> QED BY <1>4, <1>5, <1>6, <1>7, <1>8

LEMMA PartsAreBytes ==
  ASSUME NEW c, IsCall(c), Fits(c)
  PROVE  /\ TimePart(c) \in Seq(Byte) /\ IdPart(c) \in Seq(Byte) /\ TagsPart(c) \in Seq(Byte)
         /\ MimePart(c) \in Seq(Byte) /\ FilePart(c) \in Seq(Byte) /\ RoutePart(c) \in Seq(Byte)
<1>1. <<>> \in Seq(Byte) BY EmptySeq
<1>2. TimePart(c) \in Seq(Byte) BY <1>1, TimeBytes DEF IsCall, TimePart
<1>3. IdPart(c) \in Seq(Byte) BY <1>1, FittingIsShort, SizedBytes DEF IdPart
<1>4. TagsPart(c) \in Seq(Byte)
  <2>1. CASE c.test_tags # {}
    <3>1. PICK tags \in Seq(Seq(Byte)) : tags = SetToSeq(c.test_tags) BY TagSeqIs
    <3>2. Len(tags) <= MaxNumber /\ \A i \in 1..Len(tags) : Short(tags[i])
      BY <2>1, <3>1, FittingIsShort
    <3>3. WriteTags(tags) \in Seq(Byte) BY <3>2, TagBytes
    <3> QED BY <2>1, <3>1, <3>3 DEF TagsPart
  <2>2. CASE c.test_tags = {} BY <1>1, <2>2 DEF TagsPart
  <2> QED BY <2>1, <2>2
<1>5. MimePart(c) \in Seq(Byte) BY <1>1, FittingIsShort, SizedBytes DEF MimePart
<1>6. FilePart(c) \in Seq(Byte) BY <1>1, FittingIsShort, FileBytes DEF FilePart
<1>7. RoutePart(c) \in Seq(Byte) BY <1>1, FittingIsShort, SizedBytes DEF RoutePart
<1> QED BY <1>2, <1>3, <1>4, <1>5, <1>6, <1>7

LEMMA FieldsAreBytes ==
  ASSUME NEW c, IsCall(c), Fits(c)
  PROVE  Fields(c) \in Seq(Byte)
<1>1. PICK x1 \in Seq(Byte), x2 \in Seq(Byte), x3 \in Seq(Byte), x4 \in Seq(Byte),
           x5 \in Seq(Byte), x6 \in Seq(Byte) :
        /\ x1 = TimePart(c) /\ x2 = IdPart(c) /\ x3 = TagsPart(c)
        /\ x4 = MimePart(c) /\ x5 = FilePart(c) /\ x6 = RoutePart(c)
  BY PartsAreBytes
<1>2. x1 \o x2 \o x3 \o x4 \o x5 \o x6 \in Seq(Byte) BY SixInARow
<1> QED BY <1>1, <1>2, FieldsAre

-----------------------------------------------------------------------------
(* Every field is read where it was written, as what it was.                *)

Bytes(present, bytes) == IF present THEN bytes ELSE <<>>
OptionOf(present, value) == IF present THEN <<value>> ELSE None

IsFile(f) ==
    f = [name |-> f.name, bytes |-> f.bytes] /\ Text(f.name) /\ Short(f.bytes)
AreTags(tags) == Len(tags) <= MaxNumber /\ \A i \in 1..Len(tags) : Text(tags[i])

LEMMA FieldAt ==
  ASSUME NEW before, NEW x, NEW at \in Nat, before = Found(x, at),
         NEW present \in BOOLEAN, NEW field, NEW v, NEW bytes,
         present => field = Found(v, at + Len(bytes))
  PROVE  FieldAs(before, present, field)
           = Found(OptionOf(present, v), at + Len(Bytes(present, bytes)))
<1>1. before.err = "none" /\ before.pos = at BY DEF Found
<1>2. CASE present
  <2>1. field.err = "none" /\ field.value = v /\ field.pos = at + Len(bytes) BY <1>2 DEF Found
  <2> QED BY <1>1, <1>2, <2>1 DEF FieldAs, Bytes, OptionOf
<1>3. CASE ~present
  <2>1. Len(Bytes(present, bytes)) = 0 BY <1>3, EmptySeq DEF Bytes
  <2>2. at + Len(Bytes(present, bytes)) = at BY <2>1
  <2> QED BY <1>1, <1>3, <2>2 DEF FieldAs, OptionOf
<1> QED BY <1>2, <1>3

LEMMA TimeFieldAt ==
  ASSUME NEW body \in Seq(Byte), NEW x, NEW at \in Nat, NEW present \in BOOLEAN, NEW t,
         present => IsTime(t),
         At(body, at, Bytes(present, WriteTimestamp(t)))
  PROVE  TimeField(Found(x, at), present, body)
           = Found(OptionOf(present, t), at + Len(Bytes(present, WriteTimestamp(t))))
<1>1. PICK before : before = Found(x, at) OBVIOUS
<1>2. PICK field : field = ReadTimestamp(body, before.pos) OBVIOUS
<1>3. PICK bytes, v : bytes = WriteTimestamp(t) /\ v = t OBVIOUS
<1>4. before.pos = at BY <1>1 DEF Found
<1>5. present => At(body, at, bytes) BY <1>3 DEF Bytes
<1>6. present => field = Found(v, at + Len(bytes)) BY <1>2, <1>3, <1>4, <1>5, TimestampAt
<1>7. FieldAs(before, present, field) = Found(OptionOf(present, v), at + Len(Bytes(present, bytes)))
  BY <1>1, <1>6, FieldAt
<1> QED BY <1>1, <1>2, <1>3, <1>7, TimeFieldBy

LEMMA TextFieldAt ==
  ASSUME NEW body \in Seq(Byte), NEW x, NEW at \in Nat, NEW present \in BOOLEAN, NEW s,
         present => Text(s),
         At(body, at, Bytes(present, WriteUtf8(s)))
  PROVE  TextField(Found(x, at), present, body)
           = Found(OptionOf(present, s), at + Len(Bytes(present, WriteUtf8(s))))
<1>1. PICK before : before = Found(x, at) OBVIOUS
<1>2. PICK field : field = ReadUtf8(body, before.pos) OBVIOUS
<1>3. PICK bytes, v : bytes = WriteUtf8(s) /\ v = s OBVIOUS
<1>4. before.pos = at BY <1>1 DEF Found
<1>5. present => At(body, at, bytes) BY <1>3 DEF Bytes
<1>6. present => field = Found(v, at + Len(bytes)) BY <1>2, <1>3, <1>4, <1>5, Utf8At
<1>7. FieldAs(before, present, field) = Found(OptionOf(present, v), at + Len(Bytes(present, bytes)))
  BY <1>1, <1>6, FieldAt
<1> QED BY <1>1, <1>2, <1>3, <1>7, TextFieldBy

LEMMA FileFieldAt ==
  ASSUME NEW body \in Seq(Byte), NEW x, NEW at \in Nat, NEW present \in BOOLEAN, NEW f,
         present => IsFile(f),
         At(body, at, Bytes(present, WriteFile(f)))
  PROVE  FileField(Found(x, at), present, body)
           = Found(OptionOf(present, f), at + Len(Bytes(present, WriteFile(f))))
<1>1. PICK before : before = Found(x, at) OBVIOUS
<1>2. PICK field : field = ReadFile(body, before.pos) OBVIOUS
<1>3. PICK bytes, v : bytes = WriteFile(f) /\ v = f OBVIOUS
<1>4. before.pos = at BY <1>1 DEF Found
<1>5. present => At(body, at, bytes) BY <1>3 DEF Bytes
<1>6. present => field = Found(v, at + Len(bytes)) BY <1>2, <1>3, <1>4, <1>5, FileAt DEF IsFile
<1>7. FieldAs(before, present, field) = Found(OptionOf(present, v), at + Len(Bytes(present, bytes)))
  BY <1>1, <1>6, FieldAt
<1> QED BY <1>1, <1>2, <1>3, <1>7, FileFieldBy

LEMMA TagsFieldAt ==
  ASSUME NEW body \in Seq(Byte), NEW x, NEW at \in Nat, NEW present \in BOOLEAN, NEW tags \in Seq(Seq(Byte)),
         present => AreTags(tags),
         At(body, at, Bytes(present, WriteTags(tags)))
  PROVE  TagsField(Found(x, at), present, body)
           = Found(OptionOf(present, TagsTo(tags, Len(tags))), at + Len(Bytes(present, WriteTags(tags))))
<1>1. PICK before : before = Found(x, at) OBVIOUS
<1>2. PICK field : field = ReadTags(body, before.pos) OBVIOUS
<1>3. PICK bytes, v : bytes = WriteTags(tags) /\ v = TagsTo(tags, Len(tags)) OBVIOUS
<1>4. before.pos = at BY <1>1 DEF Found
<1>5. present => At(body, at, bytes) BY <1>3 DEF Bytes
<1>6. present => field = Found(v, at + Len(bytes)) BY <1>2, <1>3, <1>4, <1>5, TagsAt DEF AreTags
<1>7. FieldAs(before, present, field) = Found(OptionOf(present, v), at + Len(Bytes(present, bytes)))
  BY <1>1, <1>6, FieldAt
<1> QED BY <1>1, <1>2, <1>3, <1>7, TagsFieldBy

StandInARow(body, at, a, b, c, d, e, f) ==
    \E p2 \in Nat, p3 \in Nat, p4 \in Nat, p5 \in Nat, p6 \in Nat :
      /\ p2 = at + Len(a) /\ p3 = p2 + Len(b) /\ p4 = p3 + Len(c)
      /\ p5 = p4 + Len(d) /\ p6 = p5 + Len(e)
      /\ p6 + Len(f) = at + Len(a \o b \o c \o d \o e \o f)
      /\ At(body, at, a) /\ At(body, p2, b) /\ At(body, p3, c)
      /\ At(body, p4, d) /\ At(body, p5, e) /\ At(body, p6, f)

LEMMA SixAt ==
  ASSUME NEW body \in Seq(Byte), NEW at \in Nat,
         NEW a \in Seq(Byte), NEW b \in Seq(Byte), NEW c \in Seq(Byte), NEW d \in Seq(Byte),
         NEW e \in Seq(Byte), NEW f \in Seq(Byte), At(body, at, a \o b \o c \o d \o e \o f)
  PROVE  StandInARow(body, at, a, b, c, d, e, f)
<1>0. /\ Len(a) \in Nat /\ Len(b) \in Nat /\ Len(c) \in Nat
      /\ Len(d) \in Nat /\ Len(e) \in Nat /\ Len(f) \in Nat
  OBVIOUS
<1> DEFINE ab == a \o b
           ac == ab \o c
           ad == ac \o d
           ae == ad \o e
           af == ae \o f
<1>1. ab \in Seq(Byte) /\ Len(ab) = Len(a) + Len(b) BY ConcatProperties
<1> HIDE DEF ab
<1>2. ac \in Seq(Byte) /\ Len(ac) = Len(ab) + Len(c) BY <1>1, ConcatProperties
<1> HIDE DEF ac
<1>3. ad \in Seq(Byte) /\ Len(ad) = Len(ac) + Len(d) BY <1>2, ConcatProperties
<1> HIDE DEF ad
<1>4. ae \in Seq(Byte) /\ Len(ae) = Len(ad) + Len(e) BY <1>3, ConcatProperties
<1> HIDE DEF ae
<1>5. Len(af) = Len(ae) + Len(f) BY <1>4, ConcatProperties
<1> HIDE DEF af
<1>6. At(body, at, af) BY DEF af, ae, ad, ac, ab
<1>7. At(body, at, ae) /\ At(body, at + Len(ae), f) BY <1>4, <1>6, AtBoth DEF af
<1>8. At(body, at, ad) /\ At(body, at + Len(ad), e) BY <1>3, <1>7, AtBoth DEF ae
<1>9. At(body, at, ac) /\ At(body, at + Len(ac), d) BY <1>2, <1>8, AtBoth DEF ad
<1>10. At(body, at, ab) /\ At(body, at + Len(ab), c) BY <1>1, <1>9, AtBoth DEF ac
<1>11. At(body, at, a) /\ At(body, at + Len(a), b) BY <1>10, AtBoth DEF ab
<1>12. PICK p2 \in Nat, p3 \in Nat, p4 \in Nat, p5 \in Nat, p6 \in Nat :
         /\ p2 = at + Len(a) /\ p3 = p2 + Len(b) /\ p4 = p3 + Len(c)
         /\ p5 = p4 + Len(d) /\ p6 = p5 + Len(e)
  <2>1. PICK p2 \in Nat : p2 = at + Len(a) BY <1>0
  <2>2. PICK p3 \in Nat : p3 = p2 + Len(b) BY <1>0
  <2>3. PICK p4 \in Nat : p4 = p3 + Len(c) BY <1>0
  <2>4. PICK p5 \in Nat : p5 = p4 + Len(d) BY <1>0
  <2>5. PICK p6 \in Nat : p6 = p5 + Len(e) BY <1>0
  <2> QED BY <2>1, <2>2, <2>3, <2>4, <2>5, Zenon
<1>13. /\ p3 = at + Len(ab) /\ p4 = at + Len(ac) /\ p5 = at + Len(ad) /\ p6 = at + Len(ae)
       /\ p6 + Len(f) = at + Len(af)
  BY <1>0, <1>1, <1>2, <1>3, <1>4, <1>5, <1>12
<1>14. Len(af) = Len(a \o b \o c \o d \o e \o f) BY DEF af, ae, ad, ac, ab
<1> QED BY <1>7, <1>8, <1>9, <1>10, <1>11, <1>12, <1>13, <1>14 DEF StandInARow

LEMMA MemberOfOption ==
  ASSUME NEW option, Given1(option), option # None
  PROVE  option[1] \in ToSet(option)
<1>1. option = <<option[1]>> BY DEF Given1
<1>2. PICK x : x = option[1] OBVIOUS
<1>3. option = <<x>> BY <1>1, <1>2
<1>4. 1 \in DOMAIN option BY <1>3
<1> QED BY <1>4 DEF ToSet

LEMMA StringsAre ==
  ASSUME NEW c, IsCall(c)
  PROVE  /\ c.test_id # None => c.test_id[1] \in StringsOf(c)
         /\ \A s \in c.test_tags : s \in StringsOf(c)
         /\ c.mime_type # None => c.mime_type[1] \in StringsOf(c)
         /\ c.file # None => c.file[1].name \in StringsOf(c)
         /\ c.route_code # None => c.route_code[1] \in StringsOf(c)
<1>1. /\ Given1(c.test_id) /\ Given1(c.mime_type) /\ Given1(c.file) /\ Given1(c.route_code)
  BY DEF IsCall
<1>2. c.test_id # None => c.test_id[1] \in ToSet(c.test_id) BY <1>1, MemberOfOption
<1>3. c.mime_type # None => c.mime_type[1] \in ToSet(c.mime_type) BY <1>1, MemberOfOption
<1>4. c.file # None => c.file[1] \in ToSet(c.file) BY <1>1, MemberOfOption
<1>5. c.route_code # None => c.route_code[1] \in ToSet(c.route_code) BY <1>1, MemberOfOption
<1> QED BY <1>2, <1>3, <1>4, <1>5, Zenon DEF StringsOf

LEMMA TextsAre ==
  ASSUME NEW c, IsCall(c), Fits(c), ~WithNul(c)
  PROVE  /\ c.test_id # None => Text(c.test_id[1])
         /\ c.test_tags # {} =>
              \A i \in 1..Len(SetToSeq(c.test_tags)) : Text(SetToSeq(c.test_tags)[i])
         /\ HasMime(c) => Text(c.mime_type[1])
         /\ c.file # None => Text(c.file[1].name)
         /\ c.route_code # None => Text(c.route_code[1])
<1>1. \A s \in StringsOf(c) : ~Contains(s, 0) BY DEF WithNul
<1>2. HasMime(c) => c.mime_type # None BY DEF HasMime
<1>3. /\ c.test_id # None => Utf8Text(c.test_id[1])
      /\ c.mime_type # None => Utf8Text(c.mime_type[1])
      /\ c.file # None => Utf8Text(c.file[1].name)
      /\ c.route_code # None => Utf8Text(c.route_code[1])
  BY DEF IsCall
<1>4. c.test_id # None => Text(c.test_id[1])
  BY <1>1, <1>3, StringsAre, FittingIsShort DEF Text, Utf8Text
<1>5. HasMime(c) => Text(c.mime_type[1])
  BY <1>1, <1>2, <1>3, StringsAre, FittingIsShort DEF Text, Utf8Text
<1>6. c.file # None => Text(c.file[1].name)
  BY <1>1, <1>3, StringsAre, FittingIsShort DEF Text, Utf8Text
<1>7. c.route_code # None => Text(c.route_code[1])
  BY <1>1, <1>3, StringsAre, FittingIsShort DEF Text, Utf8Text
<1>8. ASSUME c.test_tags # {}, NEW i \in 1..Len(SetToSeq(c.test_tags))
      PROVE  Text(SetToSeq(c.test_tags)[i])
  <2>1. PICK tags : tags = SetToSeq(c.test_tags) OBVIOUS
  <2>2. Utf8Text(tags[i]) /\ tags[i] \in c.test_tags BY <2>1, TagSeqIs
  <2>3. ~Contains(tags[i], 0) BY <1>1, <2>2, StringsAre
  <2>4. Short(tags[i]) BY <1>8, <2>1, FittingIsShort
  <2> QED BY <2>1, <2>2, <2>3, <2>4 DEF Text, Utf8Text
<1> QED BY <1>4, <1>5, <1>6, <1>7, <1>8

LEMMA WithMimeType ==
  ASSUME NEW a, NEW b, NEW d, NEW e, NEW f, NEW g, NEW h, NEW i, NEW j, NEW v
  PROVE  [[timestamp |-> a, test_id |-> b, test_tags |-> d, runnable |-> e, mime_type |-> f,
           file |-> g, eof |-> h, route_code |-> i, test_status |-> j]
             EXCEPT !.mime_type = v] =
           [timestamp |-> a, test_id |-> b, test_tags |-> d, runnable |-> e,
            mime_type |-> v, file |-> g, eof |-> h, route_code |-> i, test_status |-> j]
OBVIOUS

(* What _parse makes of the fields _write_packet wrote: the call.           *)
LEMMA FieldsRoundTrip ==
  ASSUME NEW c, IsCall(c), Fits(c), ~WithNul(c),
         NEW body \in Seq(Byte), NEW at \in Nat, At(body, at, Fields(c))
  PROVE  ReadFields(Flags(c), body, at) = Found(Understood(c), at + Len(Fields(c)))
<1>1. PICK x1 \in Seq(Byte), x2 \in Seq(Byte), x3 \in Seq(Byte), x4 \in Seq(Byte),
           x5 \in Seq(Byte), x6 \in Seq(Byte) :
        /\ x1 = TimePart(c) /\ x2 = IdPart(c) /\ x3 = TagsPart(c)
        /\ x4 = MimePart(c) /\ x5 = FilePart(c) /\ x6 = RoutePart(c)
  BY PartsAreBytes
<1>2. Fields(c) = x1 \o x2 \o x3 \o x4 \o x5 \o x6 BY <1>1, FieldsAre
<1>3. PICK p2 \in Nat, p3 \in Nat, p4 \in Nat, p5 \in Nat, p6 \in Nat :
        /\ p2 = at + Len(x1) /\ p3 = p2 + Len(x2) /\ p4 = p3 + Len(x3)
        /\ p5 = p4 + Len(x4) /\ p6 = p5 + Len(x5)
        /\ p6 + Len(x6) = at + Len(x1 \o x2 \o x3 \o x4 \o x5 \o x6)
        /\ At(body, at, x1) /\ At(body, p2, x2) /\ At(body, p3, x3)
        /\ At(body, p4, x4) /\ At(body, p5, x5) /\ At(body, p6, x6)
  <2>1. At(body, at, x1 \o x2 \o x3 \o x4 \o x5 \o x6) BY <1>2
  <2>2. StandInARow(body, at, x1, x2, x3, x4, x5, x6) BY <2>1, SixAt
  <2> QED BY <2>2, Zenon DEF StandInARow
<1>15. PICK hasTime \in BOOLEAN, hasId \in BOOLEAN, hasTags \in BOOLEAN,
             hasMime \in BOOLEAN, hasFile \in BOOLEAN, hasRoute \in BOOLEAN :
         /\ hasTime = (c.timestamp # None) /\ hasId = (c.test_id # None)
         /\ hasTags = (c.test_tags # {}) /\ hasMime = HasMime(c)
         /\ hasFile = (c.file # None) /\ hasRoute = (c.route_code # None)
  <2>1. HasMime(c) \in BOOLEAN BY DEF HasMime
  <2> QED BY <2>1, Zenon
<1>4. PICK flags : flags = Flags(c) OBVIOUS
<1>5. /\ Has(flags, FLAG_TIMESTAMP) = hasTime /\ Has(flags, FLAG_TEST_ID) = hasId
      /\ Has(flags, FLAG_TAGS) = hasTags /\ Has(flags, FLAG_MIME_TYPE) = hasMime
      /\ Has(flags, FLAG_FILE_CONTENT) = hasFile /\ Has(flags, FLAG_ROUTE_CODE) = hasRoute
      /\ Has(flags, FLAG_RUNNABLE) = c.runnable /\ Has(flags, FLAG_EOF) = c.eof
      /\ flags % 8 = c.test_status
  <2>1. c.runnable \in BOOLEAN /\ c.eof \in BOOLEAN /\ c.test_status \in 0..7 BY DEF IsCall
  <2>2. \A flag : Has(flags, flag) \in BOOLEAN BY DEF Has
  <2>3. HasMime(c) \in BOOLEAN BY DEF HasMime
  <2>4. /\ Has(flags, FLAG_TIMESTAMP) <=> hasTime
        /\ Has(flags, FLAG_TEST_ID) <=> hasId
        /\ Has(flags, FLAG_TAGS) <=> hasTags
        /\ Has(flags, FLAG_MIME_TYPE) <=> hasMime
        /\ Has(flags, FLAG_FILE_CONTENT) <=> hasFile
        /\ Has(flags, FLAG_ROUTE_CODE) <=> hasRoute
        /\ Has(flags, FLAG_RUNNABLE) <=> c.runnable
        /\ Has(flags, FLAG_EOF) <=> c.eof
        /\ flags % 8 = c.test_status
    <3>1. /\ Has(Flags(c), FLAG_TIMESTAMP) <=> c.timestamp # None
          /\ Has(Flags(c), FLAG_TEST_ID) <=> c.test_id # None
          /\ Has(Flags(c), FLAG_TAGS) <=> c.test_tags # {}
          /\ Has(Flags(c), FLAG_MIME_TYPE) <=> HasMime(c)
          /\ Has(Flags(c), FLAG_FILE_CONTENT) <=> c.file # None
          /\ Has(Flags(c), FLAG_ROUTE_CODE) <=> c.route_code # None
          /\ Has(Flags(c), FLAG_RUNNABLE) <=> c.runnable
          /\ Has(Flags(c), FLAG_EOF) <=> c.eof
          /\ Flags(c) % 8 = c.test_status
      BY <2>1, FlagsAre
    <3> QED BY <1>4, <1>15, <3>1, Zenon
  <2> QED BY <2>1, <2>2, <2>3, <2>4, Zenon
<1>6. PICK first : first = Found(None, at) OBVIOUS
<1>7. PICK time : time = TimeField(first, hasTime, body) OBVIOUS
<1>8. PICK id : id = TextField(time, hasId, body) OBVIOUS
<1>9. PICK tags : tags = TagsField(id, hasTags, body) OBVIOUS
<1>10. PICK mime : mime = TextField(tags, hasMime, body) OBVIOUS
<1>11. PICK file : file = FileField(mime, hasFile, body) OBVIOUS
<1>12. PICK route : route = TextField(file, hasRoute, body) OBVIOUS
<1>13. ReadFields(flags, body, at) =
         IF route.err # "none" THEN route
         ELSE Found(CallOf(flags, time, id, tags, mime, file, route), route.pos)
  BY <1>5, <1>6, <1>7, <1>8, <1>9, <1>10, <1>11, <1>12, FieldsBy
<1>14. /\ x1 = Bytes(hasTime, WriteTimestamp(c.timestamp[1]))
       /\ x2 = Bytes(hasId, WriteUtf8(c.test_id[1]))
       /\ x3 = Bytes(hasTags, WriteTags(SetToSeq(c.test_tags)))
       /\ x4 = Bytes(hasMime, WriteUtf8(c.mime_type[1]))
       /\ x5 = Bytes(hasFile, WriteFile(c.file[1]))
       /\ x6 = Bytes(hasRoute, WriteUtf8(c.route_code[1]))
  BY <1>1, <1>15 DEF TimePart, IdPart, TagsPart, MimePart, FilePart, RoutePart, Bytes
<1>16. PICK seq \in Seq(Seq(Byte)) :
         seq = SetToSeq(c.test_tags) /\ TagsTo(seq, Len(seq)) = c.test_tags
  BY TagSeqIs
<1>17. /\ hasTime => IsTime(c.timestamp[1])
       /\ hasId => Text(c.test_id[1])
       /\ hasTags => AreTags(seq)
       /\ hasMime => Text(c.mime_type[1])
       /\ hasFile => IsFile(c.file[1])
       /\ hasRoute => Text(c.route_code[1])
  BY <1>15, <1>16, TextsAre, FittingIsShort DEF IsCall, AreTags, IsFile
<1>18. time = Found(OptionOf(hasTime, c.timestamp[1]), p2)
  <2>1. PICK v : v = None OBVIOUS
  <2>2. PICK s : s = c.timestamp[1] OBVIOUS
  <2>3. first = Found(v, at) BY <1>6, <2>1
  <2>4. hasTime => IsTime(s) BY <1>17, <2>2
  <2>5. x1 = Bytes(hasTime, WriteTimestamp(s)) BY <1>14, <2>2
  <2>6. At(body, at, Bytes(hasTime, WriteTimestamp(s))) BY <1>3, <2>5
  <2>7. TimeField(Found(v, at), hasTime, body)
          = Found(OptionOf(hasTime, s), at + Len(Bytes(hasTime, WriteTimestamp(s))))
    BY <2>4, <2>6, TimeFieldAt
  <2> QED BY <1>3, <1>7, <2>2, <2>3, <2>5, <2>7
<1>19. id = Found(OptionOf(hasId, c.test_id[1]), p3)
  <2>1. PICK v : v = OptionOf(hasTime, c.timestamp[1]) OBVIOUS
  <2>2. PICK s : s = c.test_id[1] OBVIOUS
  <2>3. time = Found(v, p2) BY <1>18, <2>1
  <2>4. hasId => Text(s) BY <1>17, <2>2
  <2>5. x2 = Bytes(hasId, WriteUtf8(s)) BY <1>14, <2>2
  <2>6. At(body, p2, Bytes(hasId, WriteUtf8(s))) BY <1>3, <2>5
  <2>7. TextField(Found(v, p2), hasId, body)
          = Found(OptionOf(hasId, s), p2 + Len(Bytes(hasId, WriteUtf8(s))))
    BY <2>4, <2>6, TextFieldAt
  <2> QED BY <1>3, <1>8, <2>2, <2>3, <2>5, <2>7
<1>20. tags = Found(OptionOf(hasTags, c.test_tags), p4)
  <2>1. PICK v : v = OptionOf(hasId, c.test_id[1]) OBVIOUS
  <2>2. PICK s \in Seq(Seq(Byte)) : s = seq OBVIOUS
  <2>3. id = Found(v, p3) BY <1>19, <2>1
  <2>4. hasTags => AreTags(s) BY <1>17, <2>2
  <2>5. x3 = Bytes(hasTags, WriteTags(s)) BY <1>14, <1>16, <2>2
  <2>6. At(body, p3, Bytes(hasTags, WriteTags(s))) BY <1>3, <2>5
  <2>7. TagsField(Found(v, p3), hasTags, body)
          = Found(OptionOf(hasTags, TagsTo(s, Len(s))), p3 + Len(Bytes(hasTags, WriteTags(s))))
    BY <2>4, <2>6, TagsFieldAt
  <2> QED BY <1>3, <1>9, <1>16, <2>2, <2>3, <2>5, <2>7
<1>21. mime = Found(OptionOf(hasMime, c.mime_type[1]), p5)
  <2>1. PICK v : v = OptionOf(hasTags, c.test_tags) OBVIOUS
  <2>2. PICK s : s = c.mime_type[1] OBVIOUS
  <2>3. tags = Found(v, p4) BY <1>20, <2>1
  <2>4. hasMime => Text(s) BY <1>17, <2>2
  <2>5. x4 = Bytes(hasMime, WriteUtf8(s)) BY <1>14, <2>2
  <2>6. At(body, p4, Bytes(hasMime, WriteUtf8(s))) BY <1>3, <2>5
  <2>7. TextField(Found(v, p4), hasMime, body)
          = Found(OptionOf(hasMime, s), p4 + Len(Bytes(hasMime, WriteUtf8(s))))
    BY <2>4, <2>6, TextFieldAt
  <2> QED BY <1>3, <1>10, <2>2, <2>3, <2>5, <2>7
<1>22. file = Found(OptionOf(hasFile, c.file[1]), p6)
  <2>1. PICK v : v = OptionOf(hasMime, c.mime_type[1]) OBVIOUS
  <2>2. PICK s : s = c.file[1] OBVIOUS
  <2>3. mime = Found(v, p5) BY <1>21, <2>1
  <2>4. hasFile => IsFile(s) BY <1>17, <2>2
  <2>5. x5 = Bytes(hasFile, WriteFile(s)) BY <1>14, <2>2
  <2>6. At(body, p5, Bytes(hasFile, WriteFile(s))) BY <1>3, <2>5
  <2>7. FileField(Found(v, p5), hasFile, body)
          = Found(OptionOf(hasFile, s), p5 + Len(Bytes(hasFile, WriteFile(s))))
    BY <2>4, <2>6, FileFieldAt
  <2> QED BY <1>3, <1>11, <2>2, <2>3, <2>5, <2>7
<1>23. route = Found(OptionOf(hasRoute, c.route_code[1]), p6 + Len(x6))
  <2>1. PICK v : v = OptionOf(hasFile, c.file[1]) OBVIOUS
  <2>2. PICK s : s = c.route_code[1] OBVIOUS
  <2>3. file = Found(v, p6) BY <1>22, <2>1
  <2>4. hasRoute => Text(s) BY <1>17, <2>2
  <2>5. x6 = Bytes(hasRoute, WriteUtf8(s)) BY <1>14, <2>2
  <2>6. At(body, p6, Bytes(hasRoute, WriteUtf8(s))) BY <1>3, <2>5
  <2>7. TextField(Found(v, p6), hasRoute, body)
          = Found(OptionOf(hasRoute, s), p6 + Len(Bytes(hasRoute, WriteUtf8(s))))
    BY <2>4, <2>6, TextFieldAt
  <2> QED BY <1>3, <1>12, <2>2, <2>3, <2>5, <2>7
<1>24. CallOf(flags, time, id, tags, mime, file, route) = Understood(c)
  <2>0. ASSUME NEW present \in BOOLEAN, NEW option, present = (option # None), Given1(option)
        PROVE  OptionOf(present, option[1]) = option
    BY <2>0 DEF OptionOf, Given1
  <2>1. /\ time.value = c.timestamp /\ id.value = c.test_id /\ file.value = c.file
        /\ route.value = c.route_code
    BY <1>15, <1>18, <1>19, <1>22, <1>23, <2>0 DEF Found, IsCall
  <2>2. (IF tags.value = None THEN {} ELSE tags.value[1]) = c.test_tags
    BY <1>15, <1>20 DEF Found, None, OptionOf
  <2>3. mime.value = IF HasMime(c) THEN c.mime_type ELSE None
    BY <1>15, <1>21 DEF Found, IsCall, Given1, HasMime, OptionOf
  <2>4. /\ Has(flags, FLAG_RUNNABLE) = c.runnable /\ Has(flags, FLAG_EOF) = c.eof
        /\ flags % 8 = c.test_status
    BY <1>5
  <2>5. CallOf(flags, time, id, tags, mime, file, route) =
          [timestamp |-> c.timestamp, test_id |-> c.test_id, test_tags |-> c.test_tags,
           runnable |-> c.runnable, mime_type |-> IF HasMime(c) THEN c.mime_type ELSE None,
           file |-> c.file, eof |-> c.eof, route_code |-> c.route_code,
           test_status |-> c.test_status]
    BY <2>1, <2>2, <2>3, <2>4, Zenon DEF CallOf
  <2>6. c = [timestamp |-> c.timestamp, test_id |-> c.test_id, test_tags |-> c.test_tags,
            runnable |-> c.runnable, mime_type |-> c.mime_type, file |-> c.file,
            eof |-> c.eof, route_code |-> c.route_code, test_status |-> c.test_status]
    BY DEF IsCall
  <2>7. Understood(c) =
          [timestamp |-> c.timestamp, test_id |-> c.test_id, test_tags |-> c.test_tags,
           runnable |-> c.runnable, mime_type |-> IF HasMime(c) THEN c.mime_type ELSE None,
           file |-> c.file, eof |-> c.eof, route_code |-> c.route_code,
           test_status |-> c.test_status]
    <3>1. PICK v : v = (IF HasMime(c) THEN c.mime_type ELSE None) OBVIOUS
    <3>2. Understood(c) = [c EXCEPT !.mime_type = v] BY <3>1, Zenon DEF Understood
    <3>3. [c EXCEPT !.mime_type = v] =
            [timestamp |-> c.timestamp, test_id |-> c.test_id, test_tags |-> c.test_tags,
             runnable |-> c.runnable, mime_type |-> v, file |-> c.file, eof |-> c.eof,
             route_code |-> c.route_code, test_status |-> c.test_status]
      <4>1. PICK a, b, d, e, g, h, i, j, m :
              /\ a = c.timestamp /\ b = c.test_id /\ d = c.test_tags /\ e = c.runnable
              /\ g = c.file /\ h = c.eof /\ i = c.route_code /\ j = c.test_status
              /\ m = c.mime_type
        OBVIOUS
      <4>2. c = [timestamp |-> a, test_id |-> b, test_tags |-> d, runnable |-> e,
                 mime_type |-> m, file |-> g, eof |-> h, route_code |-> i, test_status |-> j]
        BY <2>6, <4>1, Zenon
      <4>3. [c EXCEPT !.mime_type = v] =
              [timestamp |-> a, test_id |-> b, test_tags |-> d, runnable |-> e,
               mime_type |-> v, file |-> g, eof |-> h, route_code |-> i, test_status |-> j]
        <5>1. [[timestamp |-> a, test_id |-> b, test_tags |-> d, runnable |-> e, mime_type |-> m,
                file |-> g, eof |-> h, route_code |-> i, test_status |-> j]
                  EXCEPT !.mime_type = v] =
                [timestamp |-> a, test_id |-> b, test_tags |-> d, runnable |-> e,
                 mime_type |-> v, file |-> g, eof |-> h, route_code |-> i, test_status |-> j]
          BY WithMimeType
        <5> QED BY <4>2, <5>1, Zenon
      <4> QED BY <4>1, <4>3, Zenon
    <3> QED BY <3>1, <3>2, <3>3, Zenon
  <2> QED BY <2>5, <2>7
<1>25. route.err = "none" /\ route.pos = at + Len(Fields(c)) BY <1>2, <1>3, <1>23 DEF Found
<1> QED BY <1>4, <1>13, <1>24, <1>25

-----------------------------------------------------------------------------
(* A sealed packet. zlib.crc32 packed with '>I' takes four bytes.           *)
CrcIsFourBytes == \A s \in Seq(Byte) : Crc(s) \in Seq(Byte) /\ Len(Crc(s)) = 4

LEMMA AtStart ==
  ASSUME NEW body \in Seq(Byte)
  PROVE  At(body, 0, body)
BY DEF At

Small(base) == base <= MaxBaseLength

(* What a packet holds up to its checksum: code is its length field.        *)
IsContent(inner, flags, fields, code) ==
    /\ inner \in Seq(Byte) /\ code \in Seq(Byte)
    /\ Len(inner) = 3 + Len(code) + Len(fields)
    /\ inner[2] * 256 + inner[3] = flags
    /\ At(inner, 3, code)
    /\ At(inner, 3 + Len(code), fields)

LEMMA CodeIs ==
  ASSUME NEW base \in Nat, Small(base)
  PROVE  /\ LengthField(base) \in Seq(Byte)
         /\ Len(LengthField(base)) = LengthLength(base)
         /\ LengthLength(base) \in 1..3
         /\ base + LengthLength(base) <= MaxNumber
         /\ base + LengthLength(base) < 64 * 65536
         /\ LengthField(base) = EncodeNumber(base + LengthLength(base))
<1>1. LengthLength(base) \in 1..3 BY DEF LengthLength
<1>2. /\ Len(LengthField(base)) = LengthLength(base)
      /\ base + LengthLength(base) < 64 * 65536
  BY LengthCountsItself DEF Small
<1>3. PICK v \in Nat : v = base + LengthLength(base) BY <1>1
<1>4. v <= MaxNumber BY <1>2, <1>3, SMT DEF MaxNumber
<1>5. EncodeNumber(v) \in Seq(Byte) BY <1>4, NumberBytes
<1> QED BY <1>1, <1>2, <1>3, <1>4, <1>5 DEF LengthField

LEMMA ContentIs ==
  ASSUME NEW flags \in Nat, Packs16(flags), NEW fields \in Seq(Byte), NEW code \in Seq(Byte)
  PROVE  IsContent(<<SIGNATURE>> \o TwoBytes(flags) \o code \o fields, flags, fields, code)
<1>1. PICK a \in Byte, b \in Byte : TwoBytes(flags) = <<a, b>> /\ (a * 256) + b = flags
  BY TwoBytesAre
<1>2. PICK x : x = <<SIGNATURE>> OBVIOUS
<1>3. x \in Seq(Byte) /\ Len(x) = 1 BY <1>2 DEF SIGNATURE, Byte
<1>4. PICK y : y = <<a, b>> OBVIOUS
<1>5. y \in Seq(Byte) /\ Len(y) = 2 /\ y[1] = a /\ y[2] = b BY <1>4
<1>6. PICK xy \in Seq(Byte) : xy = x \o y /\ Len(xy) = Len(x) + Len(y)
  BY <1>3, <1>5, ConcatProperties
<1>7. PICK xyz \in Seq(Byte) : xyz = xy \o code /\ Len(xyz) = Len(xy) + Len(code)
  BY ConcatProperties
<1>8. PICK inner \in Seq(Byte) : inner = xyz \o fields /\ Len(inner) = Len(xyz) + Len(fields)
  BY ConcatProperties
<1>9. At(inner, 0, xyz) /\ At(inner, 0 + Len(xyz), fields) BY <1>8, AtStart, AtBoth
<1>10. At(inner, 0, xy) /\ At(inner, 0 + Len(xy), code) BY <1>7, <1>9, AtBoth
<1>11. At(inner, 0 + Len(x), y) BY <1>3, <1>5, <1>6, <1>10, AtBoth
<1>12. inner[2] = a /\ inner[3] = b
  <2>1. \A i \in 1..2 : inner[1 + i] = y[i] BY <1>3, <1>5, <1>11 DEF At
  <2>2. inner[1 + 1] = y[1] /\ inner[1 + 2] = y[2] BY <2>1
  <2> QED BY <1>5, <2>2
<1>13. Len(xyz) = 3 + Len(code) BY <1>3, <1>5, <1>6, <1>7
<1>14. inner[2] * 256 + inner[3] = flags BY <1>1, <1>12
<1>15. At(inner, 3, code) BY <1>3, <1>5, <1>6, <1>10
<1>16. At(inner, 3 + Len(code), fields) BY <1>9, <1>13
<1>17. Len(inner) = 3 + Len(code) + Len(fields) BY <1>8, <1>13
<1>18. IsContent(inner, flags, fields, code) BY <1>14, <1>15, <1>16, <1>17 DEF IsContent
<1>19. inner = <<SIGNATURE>> \o TwoBytes(flags) \o code \o fields
  BY <1>1, <1>2, <1>4, <1>6, <1>7, <1>8
<1> QED BY <1>18, <1>19

(* Where the bytes of a longer body are, its slice has them too.            *)
LEMMA AtFront ==
  ASSUME NEW body \in Seq(Byte), NEW at \in Nat, NEW bytes \in Seq(Byte), At(body, at, bytes),
         NEW length \in Nat, length <= Len(body), at + Len(bytes) <= length
  PROVE  /\ SubSeq(body, 1, length) \in Seq(Byte) /\ Len(SubSeq(body, 1, length)) = length
         /\ At(SubSeq(body, 1, length), at, bytes)
<1>1. PICK front : front = SubSeq(body, 1, length) OBVIOUS
<1>2. front \in Seq(Byte) /\ Len(front) = length /\ \A i \in 1..length : front[i] = body[i]
  BY <1>1, SubSeqProperties
<1>3. ASSUME NEW i \in 1..Len(bytes) PROVE front[at + i] = bytes[i]
  <2>1. body[at + i] = bytes[i] BY DEF At
  <2>2. at + i \in 1..length OBVIOUS
  <2> QED BY <1>2, <2>1, <2>2
<1> QED BY <1>1, <1>2, <1>3 DEF At

LEMMA AtInner ==
  ASSUME NEW body \in Seq(Byte), NEW inner \in Seq(Byte), At(body, 0, inner),
         NEW at \in Nat, NEW bytes \in Seq(Byte), At(inner, at, bytes)
  PROVE  At(body, at, bytes)
<1>1. \A i \in 1..Len(inner) : body[0 + i] = inner[i] BY DEF At
<1>2. ASSUME NEW i \in 1..Len(bytes) PROVE body[at + i] = bytes[i]
  <2>1. inner[at + i] = bytes[i] BY DEF At
  <2>2. at + i \in 1..Len(inner) BY DEF At
  <2> QED BY <1>1, <2>1, <2>2
<1>3. at + Len(bytes) <= Len(body) BY DEF At
<1> QED BY <1>2, <1>3 DEF At

(* What a reader finds in a packet that was sealed: its length, its flags   *)
(* and its fields, and under a good checksum the fields are what it reads.  *)
IsSealed(packet, flags, fields, inner, at) ==
    /\ inner \in Seq(Byte) /\ at \in Nat /\ at + Len(fields) = Len(inner)
    /\ Len(packet) = Len(inner) + 4
    /\ At(inner, at, fields)
    /\ ReadLength(SubSeq(packet, 1, 6)) = Found(Len(packet), at)
    /\ FlagsOf(packet) = flags
    /\ FieldsOf(packet) = fields
    /\ ReadPacket(packet, ReadLength(SubSeq(packet, 1, 6))) = ReadFields(flags, inner, at)

LEMMA SealedIs ==
  ASSUME CrcIsFourBytes, NEW flags \in Nat, Packs16(flags),
         NEW fields \in Seq(Byte), Small(Len(fields) + 7)
  PROVE  \E inner, at : IsSealed(Seal(flags, fields), flags, fields, inner, at)
<1>1. PICK size \in Nat : size = Len(fields) OBVIOUS
<1>2. PICK n \in 1..3 : n = LengthLength(size + 7) BY DEF LengthLength
<1>3. PICK code \in Seq(Byte) :
        /\ code = LengthField(size + 7) /\ Len(code) = n
        /\ code = EncodeNumber(size + 7 + n)
        /\ size + 7 + n <= MaxNumber /\ size + 7 + n < 64 * 65536
  BY <1>1, <1>2, CodeIs
<1>4. PICK inner : inner = <<SIGNATURE>> \o TwoBytes(flags) \o code \o fields OBVIOUS
<1>5. IsContent(inner, flags, fields, code) BY <1>4, ContentIs
<1>6. /\ inner \in Seq(Byte) /\ Len(inner) = 3 + n + size
      /\ inner[2] * 256 + inner[3] = flags
      /\ At(inner, 3, code) /\ At(inner, 3 + n, fields)
  BY <1>1, <1>3, <1>5 DEF IsContent
<1>7. PICK crc \in Seq(Byte) : crc = Crc(inner) /\ Len(crc) = 4 BY <1>6 DEF CrcIsFourBytes
<1>8. PICK packet \in Seq(Byte) : packet = inner \o crc /\ Len(packet) = Len(inner) + 4
  <2>1. inner \in Seq(Byte) BY <1>6
  <2>2. inner \o crc \in Seq(Byte) /\ Len(inner \o crc) = Len(inner) + Len(crc)
    BY <2>1, ConcatProperties
  <2> QED BY <1>7, <2>2
<1>9. packet = Seal(flags, fields)
  <2>1. code = LengthField(Len(fields) + 7) BY <1>1, <1>3
  <2> QED BY <1>4, <1>7, <1>8, <2>1, Zenon DEF Seal
<1>10. At(packet, 0, inner) /\ At(packet, Len(inner), crc)
  <2>1. At(packet, 0, inner) /\ At(packet, 0 + Len(inner), crc)
    BY <1>6, <1>8, AtStart, AtBoth
  <2> QED BY <1>6, <2>1
<1>11. At(packet, 3, code) /\ At(packet, 3 + n, fields) BY <1>6, <1>10, AtInner
<1>12. PICK length \in Nat : length = Len(packet) /\ length = size + 7 + n BY <1>6, <1>8
<1>13. ReadLength(SubSeq(packet, 1, 6)) = Found(length, 3 + n)
  <2>1. PICK start : start = SubSeq(packet, 1, 6) OBVIOUS
  <2>2. Len(start) \in Nat /\ At(start, 3, code)
    <3>1. PICK at \in Nat, six \in Nat : at = 3 /\ six = 6 OBVIOUS
    <3>2. six <= Len(packet) /\ at + Len(code) <= six BY <1>3, <1>12, <3>1
    <3>3. At(packet, at, code) BY <1>11, <3>1
    <3>4. /\ SubSeq(packet, 1, six) \in Seq(Byte) /\ Len(SubSeq(packet, 1, six)) = six
          /\ At(SubSeq(packet, 1, six), at, code)
      BY <3>2, <3>3, AtFront
    <3> QED BY <2>1, <3>1, <3>4
  <2>3. At(start, 3, EncodeNumber(length)) BY <1>3, <1>12, <2>2
  <2>4. length <= MaxNumber /\ ~(length >= 64 * 65536) BY <1>3, <1>12
  <2>5. PICK three \in BOOLEAN : three = TRUE OBVIOUS
  <2>6. ParseNumber(start, 3, three) = Found(length, 3 + Len(EncodeNumber(length)))
    BY <2>2, <2>3, <2>4, NumberRoundTrip
  <2>7. Len(EncodeNumber(length)) = n BY <1>3, <1>12
  <2> QED BY <2>1, <2>5, <2>6, <2>7 DEF ReadLength
<1>14. FlagsOf(packet) = flags
  <2>1. packet[0 + 2] = inner[2] /\ packet[0 + 3] = inner[3] BY <1>6, <1>10 DEF At
  <2> QED BY <1>6, <2>1 DEF FlagsOf
<1>15. SubSeq(packet, 1, Len(packet) - 4) = inner
  <2>1. SubSeq(packet, 0 + 1, 0 + Len(inner)) = inner BY <1>6, <1>10, AtSlice
  <2>2. Len(packet) - 4 = 0 + Len(inner) BY <1>6, <1>8
  <2> QED BY <2>1, <2>2
<1>16. SubSeq(packet, Len(packet) - 3, Len(packet)) = crc
  <2>1. SubSeq(packet, Len(inner) + 1, Len(inner) + Len(crc)) = crc
    BY <1>6, <1>10, AtSlice
  <2>2. Len(packet) - 3 = Len(inner) + 1 /\ Len(packet) = Len(inner) + Len(crc)
    BY <1>6, <1>7, <1>8
  <2> QED BY <2>1, <2>2
<1>17. FieldsOf(packet) = fields
  <2>1. PICK at \in Nat : at = 3 + n OBVIOUS
  <2>2. SubSeq(packet, at + 1, at + Len(fields)) = fields BY <1>11, <2>1, AtSlice
  <2>3. Len(packet) - 4 = at + Len(fields) BY <1>1, <1>6, <1>8, <2>1
  <2>4. Found(length, 3 + n).pos = at BY <2>1 DEF Found
  <2>5. SubSeq(packet, at + 1, Len(packet) - 4) = fields BY <2>2, <2>3
  <2> QED BY <1>13, <2>4, <2>5 DEF FieldsOf
<1>18. ReadPacket(packet, Found(length, 3 + n)) = ReadFields(flags, inner, 3 + n)
  <2>1. Found(length, 3 + n).pos = 3 + n BY DEF Found
  <2>2. n = 3 => size + 7 > 16381 BY <1>2, SMT DEF LengthLength
  <2>3. ~(3 + n = 6 /\ Len(packet) - 6 < 4) BY <1>12, <2>2
  <2> QED BY <1>7, <1>14, <1>15, <1>16, <2>1, <2>3 DEF ReadPacket
<1>19. 3 + n \in Nat /\ 3 + n + Len(fields) = Len(inner) BY <1>1, <1>6
<1>20. IsSealed(packet, flags, fields, inner, 3 + n)
  BY <1>6, <1>8, <1>12, <1>13, <1>14, <1>17, <1>18, <1>19 DEF IsSealed
<1> QED BY <1>9, <1>20

(* A flag that is not set can be: the flags still fit in their two bytes.   *)
LEMMA FlagAdded ==
  ASSUME NEW flags \in Nat, Packs16(flags),
         NEW flag \in {FLAG_TIMESTAMP, FLAG_ROUTE_CODE, FLAG_FILE_CONTENT}, ~Has(flags, flag)
  PROVE  flags + flag \in Nat /\ Packs16(flags + flag)
<1>1. flags < 65536 BY DEF Packs16
<1>2. CASE flag = FLAG_TIMESTAMP
  <2>1. PICK q \in Nat : q = flags \div 512 OBVIOUS
  <2>2. q % 2 # 1 BY <1>2, <2>1 DEF Has, FLAG_TIMESTAMP
  <2>3. 512 * q <= flags /\ flags < 512 * q + 512 BY <2>1
  <2>4. q <= 127 BY <1>1, <2>3
  <2>5. q <= 126 BY <2>2, <2>4
  <2>6. flags + 512 < 65536 BY <2>3, <2>5, SMT
  <2> QED BY <1>2, <2>6, SMT DEF FLAG_TIMESTAMP, Packs16
<1>3. CASE flag = FLAG_ROUTE_CODE
  <2>1. PICK q \in Nat : q = flags \div 1024 OBVIOUS
  <2>2. q % 2 # 1 BY <1>3, <2>1 DEF Has, FLAG_ROUTE_CODE
  <2>3. 1024 * q <= flags /\ flags < 1024 * q + 1024 BY <2>1
  <2>4. q <= 63 BY <1>1, <2>3
  <2>5. q <= 62 BY <2>2, <2>4
  <2>6. flags + 1024 < 65536 BY <2>3, <2>5, SMT
  <2> QED BY <1>3, <2>6, SMT DEF FLAG_ROUTE_CODE, Packs16
<1>4. CASE flag = FLAG_FILE_CONTENT
  <2>1. PICK q \in Nat : q = flags \div 64 OBVIOUS
  <2>2. q % 2 # 1 BY <1>4, <2>1 DEF Has, FLAG_FILE_CONTENT
  <2>3. 64 * q <= flags /\ flags < 64 * q + 64 BY <2>1
  <2>4. q <= 1023 BY <1>1, <2>3
  <2>5. q <= 1022 BY <2>2, <2>4
  <2>6. flags + 64 < 65536 BY <2>3, <2>5, SMT
  <2> QED BY <1>4, <2>6, SMT DEF FLAG_FILE_CONTENT, Packs16
<1> QED BY <1>2, <1>3, <1>4

(* A fitting call is short enough for every number in it.                   *)
LEMMA SmallFits ==
  ASSUME NEW c, IsCall(c), Small(Len(Fields(c)) + 7)
  PROVE  Fits(c) /\ Fields(c) \in Seq(Byte)
<1>1. PICK n \in Nat : n = Len(Fields(c)) BY FieldsLength
<1>2. n <= MaxNumber BY <1>1, SMT DEF Small, MaxBaseLength, MaxNumber
<1>3. Fits(c) BY <1>1, <1>2 DEF Fits
<1> QED BY <1>3, FieldsAreBytes

-----------------------------------------------------------------------------
(* The exchange.                                                            *)

(* What is on the wire was sealed around bytes that fit.                    *)
SealedInv ==
    wire # <<>> =>
        \E flags \in Nat, fields \in Seq(Byte) :
          Packs16(flags) /\ Small(Len(fields) + 7) /\ wire = Seal(flags, fields)

(* Unchanged, it is the packet of the call.                                 *)
PacketInv ==
    wire # <<>> /\ ~changed => wire = Packet(call) /\ Small(Len(Fields(call)) + 7)

(* The answer is the reader's, of what is on the wire.                      *)
AnswerInv ==
    answer # <<>> =>
        wire # <<>> /\ answer = <<ReadPacket(wire, ReadLength(SubSeq(wire, 1, 6)))>>

ExchangeInv == call \in Given /\ SealedInv /\ PacketInv /\ AnswerInv

LEMMA WriteKeeps ==
  ASSUME CrcIsFourBytes, ExchangeInv, WriteCall
  PROVE  ExchangeInv'
<1>1. wire = <<>> /\ wire' = Packet(call) /\ call' = call /\ answer' = answer /\ changed' = changed
  BY DEF WriteCall
<1>2. PICK c : c = call OBVIOUS
<1>3. c \in Given BY <1>2 DEF ExchangeInv
<1>4. IsCall(c) BY <1>3, CallsAre
<1>5. Small(Len(Fields(c)) + 7) BY <1>2 DEF WriteCall, Small
<1>6. Fields(c) \in Seq(Byte) BY <1>4, <1>5, SmallFits
<1>7. Flags(c) \in Nat /\ Packs16(Flags(c)) BY <1>4, FlagsAre DEF IsCall
<1>8. answer = <<>> BY <1>1 DEF ExchangeInv, AnswerInv
<1>9. SealedInv' BY <1>1, <1>2, <1>5, <1>6, <1>7 DEF SealedInv, Packet
<1>10. PacketInv' BY <1>1, <1>2, <1>5 DEF PacketInv
<1>11. AnswerInv' BY <1>1, <1>8 DEF AnswerInv
<1> QED BY <1>1, <1>2, <1>3, <1>9, <1>10, <1>11 DEF ExchangeInv

LEMMA ChangeKeeps ==
  ASSUME CrcIsFourBytes, ExchangeInv, ChangePacket
  PROVE  ExchangeInv'
<1>1. wire # <<>> /\ answer = <<>> /\ call' = call /\ answer' = answer /\ changed' = TRUE
  BY DEF ChangePacket
<1>2. PICK packet : packet = wire OBVIOUS
<1>3. PICK flags \in Nat, fields \in Seq(Byte) :
        Packs16(flags) /\ Small(Len(fields) + 7) /\ packet = Seal(flags, fields)
  BY <1>1, <1>2 DEF ExchangeInv, SealedInv
<1>4. FlagsOf(packet) = flags /\ FieldsOf(packet) = fields
  BY <1>3, SealedIs DEF IsSealed
<1>5. \/ \E flag \in {FLAG_TIMESTAMP, FLAG_ROUTE_CODE, FLAG_FILE_CONTENT} :
           ~Has(flags, flag) /\ wire' = Seal(flags + flag, fields)
      \/ \E i \in 1..Len(fields), b \in ForeignBytes :
           wire' = Seal(flags, [fields EXCEPT ![i] = b])
  BY <1>2, <1>4, Zenon DEF ChangePacket
<1>6. \E f \in Nat, g \in Seq(Byte) : Packs16(f) /\ Small(Len(g) + 7) /\ wire' = Seal(f, g)
  <2>1. CASE \E flag \in {FLAG_TIMESTAMP, FLAG_ROUTE_CODE, FLAG_FILE_CONTENT} :
               ~Has(flags, flag) /\ wire' = Seal(flags + flag, fields)
    <3>1. PICK flag \in {FLAG_TIMESTAMP, FLAG_ROUTE_CODE, FLAG_FILE_CONTENT} :
            ~Has(flags, flag) /\ wire' = Seal(flags + flag, fields)
      BY <2>1
    <3>2. PICK f \in Nat : f = flags + flag /\ Packs16(f) BY <1>3, <3>1, FlagAdded
    <3>3. wire' = Seal(f, fields) BY <3>1, <3>2
    <3> QED BY <1>3, <3>2, <3>3
  <2>2. CASE \E i \in 1..Len(fields), b \in ForeignBytes :
               wire' = Seal(flags, [fields EXCEPT ![i] = b])
    <3>1. PICK i \in 1..Len(fields), b \in ForeignBytes :
            wire' = Seal(flags, [fields EXCEPT ![i] = b])
      BY <2>2
    <3>2. b \in Byte BY ExchangeAssumption
    <3>3. PICK g \in Seq(Byte) : g = [fields EXCEPT ![i] = b] /\ Len(g) = Len(fields)
      <4>1. [fields EXCEPT ![i] = b] \in Seq(Byte) /\ Len([fields EXCEPT ![i] = b]) = Len(fields)
        BY <3>2, ExceptSeq
      <4> QED BY <4>1, Zenon
    <3>4. Small(Len(g) + 7) /\ wire' = Seal(flags, g) BY <1>3, <3>1, <3>3
    <3> QED BY <1>3, <3>4
  <2> QED BY <1>5, <2>1, <2>2
<1>7. SealedInv' BY <1>6 DEF SealedInv
<1>8. PacketInv' BY <1>1 DEF PacketInv
<1>9. AnswerInv' BY <1>1 DEF AnswerInv
<1> QED BY <1>1, <1>7, <1>8, <1>9 DEF ExchangeInv

LEMMA ReadKeeps ==
  ASSUME ExchangeInv, ReadCall
  PROVE  ExchangeInv'
<1>1. /\ wire # <<>> /\ call' = call /\ wire' = wire /\ changed' = changed
      /\ answer' = <<ReadPacket(wire, ReadLength(SubSeq(wire, 1, 6)))>>
  BY DEF ReadCall
<1>2. SealedInv' BY <1>1 DEF ExchangeInv, SealedInv
<1>3. PacketInv' BY <1>1 DEF ExchangeInv, PacketInv
<1>4. AnswerInv' BY <1>1 DEF AnswerInv
<1> QED BY <1>1, <1>2, <1>3, <1>4 DEF ExchangeInv

LEMMA SpecInvariant ==
  ASSUME CrcIsFourBytes
  PROVE  ExchangeSpec => []ExchangeInv
<1>1. ExchangeInit => ExchangeInv BY DEF ExchangeInit, ExchangeInv, SealedInv, PacketInv, AnswerInv
<1>2. ExchangeInv /\ [ExchangeNext]_exchangeVars => ExchangeInv'
  <2> SUFFICES ASSUME ExchangeInv, [ExchangeNext]_exchangeVars PROVE ExchangeInv' OBVIOUS
  <2>1. CASE WriteCall BY <2>1, WriteKeeps
  <2>2. CASE ChangePacket BY <2>2, ChangeKeeps
  <2>3. CASE ReadCall BY <2>3, ReadKeeps
  <2>4. CASE UNCHANGED exchangeVars
    BY <2>4 DEF exchangeVars, ExchangeInv, SealedInv, PacketInv, AnswerInv
  <2> QED BY <2>1, <2>2, <2>3, <2>4 DEF ExchangeNext
<1> QED BY <1>1, <1>2, PTL DEF ExchangeSpec

(* The length a packet carries is its length: the field counts itself, on   *)
(* both sides of the 62 and the 16381 bytes where it grows, for every call  *)
(* that fits and after every change.                                        *)
THEOREM SpecLengthIsThePackets ==
  ASSUME CrcIsFourBytes
  PROVE  ExchangeSpec => []LengthIsThePackets
<1>1. ExchangeInv => LengthIsThePackets
  <2> SUFFICES ASSUME ExchangeInv, wire # <<>>
      PROVE  ReadLength(SubSeq(wire, 1, 6)).value = Len(wire)
    BY DEF LengthIsThePackets
  <2>1. PICK packet : packet = wire OBVIOUS
  <2>2. PICK flags \in Nat, fields \in Seq(Byte) :
          Packs16(flags) /\ Small(Len(fields) + 7) /\ packet = Seal(flags, fields)
    BY <2>1 DEF ExchangeInv, SealedInv
  <2>3. PICK at : ReadLength(SubSeq(packet, 1, 6)) = Found(Len(packet), at)
    BY <2>2, SealedIs DEF IsSealed
  <2> QED BY <2>1, <2>3 DEF Found
<1> QED BY <1>1, SpecInvariant, PTL

(* Whatever the flags and the fields of a packet with a good checksum say,  *)
(* no field that is read reaches into the checksum.                         *)
THEOREM SpecFieldsStayInBody ==
  ASSUME CrcIsFourBytes
  PROVE  ExchangeSpec => []FieldsStayInBody
<1>1. ExchangeInv => FieldsStayInBody
  <2> SUFFICES ASSUME ExchangeInv, answer # <<>>, answer[1].err = "none"
      PROVE  answer[1].pos <= Len(wire) - 4
    BY DEF FieldsStayInBody
  <2>1. PICK packet : packet = wire OBVIOUS
  <2>2. PICK flags \in Nat, fields \in Seq(Byte) :
          Packs16(flags) /\ Small(Len(fields) + 7) /\ packet = Seal(flags, fields)
    BY <2>1 DEF ExchangeInv, SealedInv, AnswerInv
  <2>3. PICK inner, at : IsSealed(packet, flags, fields, inner, at) BY <2>2, SealedIs
  <2>4. PICK found : found = ReadFields(flags, inner, at) OBVIOUS
  <2>5. answer[1] = found BY <2>1, <2>3, <2>4 DEF ExchangeInv, AnswerInv, IsSealed
  <2>6. inner \in Seq(Byte) /\ at \in 0..Len(inner) /\ Len(packet) = Len(inner) + 4
    BY <2>3 DEF IsSealed
  <2>7. Ends(inner, found) BY <2>4, <2>6, FieldsEnd
  <2>8. found.pos <= Len(inner) BY <2>5, <2>7 DEF Ends
  <2> QED BY <2>1, <2>5, <2>6, <2>8
<1> QED BY <1>1, SpecInvariant, PTL

(* What status() was given comes out of the reader again, every field with  *)
(* its own value and nothing left over, whatever the call and its strings.  *)
THEOREM SpecRoundTrip ==
  ASSUME CrcIsFourBytes
  PROVE  ExchangeSpec => []RoundTrip
<1>1. ExchangeInv => RoundTrip
  <2> SUFFICES ASSUME ExchangeInv, answer # <<>>, ~changed, ~WithNul(call)
      PROVE  answer[1] = Found(Understood(call), Len(wire) - 4)
    BY DEF RoundTrip
  <2>1. PICK packet, c : packet = wire /\ c = call OBVIOUS
  <2>2. c \in Given /\ packet = Packet(c) /\ Small(Len(Fields(c)) + 7)
    BY <2>1 DEF ExchangeInv, PacketInv, AnswerInv
  <2>3. IsCall(c) BY <2>2, CallsAre
  <2>4. PICK fields : fields = Fields(c) OBVIOUS
  <2>5. Fits(c) /\ fields \in Seq(Byte) /\ Small(Len(fields) + 7) BY <2>2, <2>3, <2>4, SmallFits
  <2>6. PICK flags : flags = Flags(c) OBVIOUS
  <2>7. flags \in Nat /\ Packs16(flags) BY <2>3, <2>6, FlagsAre DEF IsCall
  <2>8. packet = Seal(flags, fields) BY <2>2, <2>4, <2>6 DEF Packet
  <2>9. PICK inner, at : IsSealed(packet, flags, fields, inner, at)
    BY <2>5, <2>7, <2>8, SealedIs
  <2>10. /\ inner \in Seq(Byte) /\ at \in Nat /\ at + Len(fields) = Len(inner)
         /\ Len(packet) = Len(inner) + 4 /\ At(inner, at, fields)
    BY <2>9 DEF IsSealed
  <2>11. At(inner, at, Fields(c)) BY <2>4, <2>10
  <2>12. ~WithNul(c) BY <2>1
  <2>13. ReadFields(flags, inner, at) = Found(Understood(c), at + Len(fields))
    BY <2>3, <2>4, <2>5, <2>6, <2>10, <2>11, <2>12, FieldsRoundTrip
  <2>14. answer[1] = ReadFields(flags, inner, at)
    BY <2>1, <2>9 DEF ExchangeInv, AnswerInv, IsSealed
  <2>15. at + Len(fields) = Len(packet) - 4 BY <2>10
  <2> QED BY <2>1, <2>13, <2>14, <2>15
<1> QED BY <1>1, SpecInvariant, PTL

-----------------------------------------------------------------------------
(* The stream.                                                              *)

(* A sequence, whatever its elements are, and one element more.             *)
IsSeq(s) == \E S : s \in Seq(S)

LEMMA AppendShape ==
  ASSUME NEW s, IsSeq(s), NEW e
  PROVE  /\ Len(s) \in Nat /\ DOMAIN s = 1..Len(s)
         /\ IsSeq(Append(s, e)) /\ Len(Append(s, e)) = Len(s) + 1
         /\ DOMAIN Append(s, e) = 1 .. Len(s) + 1
         /\ \A n \in 1..Len(s) : Append(s, e)[n] = s[n]
         /\ Append(s, e)[Len(s) + 1] = e
<1>1. PICK S : s \in Seq(S) BY DEF IsSeq
<1> DEFINE T == S \cup {e}
<1>2. s \in Seq(T) /\ e \in T BY <1>1
<1> HIDE DEF T
<1>3. Append(s, e) \in Seq(T) BY <1>2, AppendProperties
<1>4. /\ Len(Append(s, e)) = Len(s) + 1
      /\ \A n \in 1..Len(s) : Append(s, e)[n] = s[n]
      /\ Append(s, e)[Len(s) + 1] = e
  BY <1>2, AppendProperties
<1>5. DOMAIN Append(s, e) = 1 .. Len(s) + 1 BY <1>3, <1>4
<1>6. Len(s) \in Nat /\ DOMAIN s = 1..Len(s) BY <1>1
<1> QED BY <1>3, <1>4, <1>5, <1>6 DEF IsSeq

-----------------------------------------------------------------------------
(* The inductive invariant.                                                 *)

(* What a writer has in hand is bytes, of an item it has still to end, and  *)
(* a stream that has ended has no writer left.                              *)
WritersOK ==
    /\ todo \in [Writers -> Seq(Items)] /\ rest \in [Writers -> Seq(Byte)]
    /\ \A w \in Writers : rest[w] # <<>> => todo[w] # <<>>
    /\ closed => \A w \in Writers : rest[w] = <<>> /\ todo[w] = <<>>

(* Where the text or the packet in hand stands. A text that is told ends    *)
(* where the reader is, or the signature that ended it has been read.       *)
InHand ==
    /\ pc = "aggregate" => from < pos /\ upto = pos /\ content = <<stream[pos]>>
    /\ pc = "emit" =>
         /\ from < upto
         /\ \/ upto = pos /\ (content = <<SIGNATURE>> => stream[pos] = SIGNATURE)
            \/ pos = upto + 1 /\ content = <<SIGNATURE>> /\ ~mid_character
    /\ pc = "header" => pos = from + 1

EventsOK == IsSeq(events) /\ \A i \in DOMAIN events : events[i].from \in Nat

IInv == TypeOK /\ WritersOK /\ InHand /\ EventsOK /\ NothingSkipped

LEMMA InitIInv == Init => IInv
<1> SUFFICES ASSUME Init PROVE IInv OBVIOUS
<1>1. stream = <<>> /\ events = <<>> /\ pos = 0 /\ from = 0 /\ upto = 0 /\ pc = "top"
  BY DEF Init
<1>2. /\ <<>> \in Seq(Byte) /\ Len(<<>>) = 0 /\ DOMAIN <<>> = {} /\ IsSeq(<<>>)
  <2>1. <<>> \in Seq(Byte) BY EmptySeq
  <2> QED BY <2>1 DEF IsSeq
<1>3. TypeOK
  <2>1. header.value \in Nat BY DEF Init, Found
  <2>2. closed \in BOOLEAN /\ mid_character \in BOOLEAN BY DEF Init
  <2>3. pc \in Stages BY <1>1 DEF Stages
  <2>4. pos \in 0..Len(stream) /\ from \in 0..pos /\ upto \in 0..pos BY <1>1, <1>2
  <2> QED BY <1>1, <1>2, <2>1, <2>2, <2>3, <2>4 DEF TypeOK
<1>4. WritersOK BY <1>2, ScriptAssumption DEF Init, WritersOK
<1>5. InHand BY <1>1 DEF InHand
<1>6. EventsOK BY <1>1, <1>2 DEF EventsOK
<1>7. NothingSkipped
  BY <1>1, <1>2 DEF NothingSkipped, Adjoins, Settled, EndBefore
<1> QED BY <1>3, <1>4, <1>5, <1>6, <1>7 DEF IInv

-----------------------------------------------------------------------------
(* The writers.                                                             *)

(* A writer only puts bytes after those that are there, and none after the  *)
(* end of the stream.                                                       *)
OnlyAppends ==
    /\ UNCHANGED readerVars /\ WritersOK' /\ closed' \in BOOLEAN
    /\ \E more \in Seq(Byte) : stream' = stream \o more
    /\ closed => closed' /\ stream' = stream

LEMMA WriterStep ==
  ASSUME IInv, Writing \/ Close \/ \E w \in Writers : Die(w)
  PROVE  OnlyAppends
<1>0. /\ closed \in BOOLEAN /\ stream \in Seq(Byte)
      /\ todo \in [Writers -> Seq(Items)] /\ rest \in [Writers -> Seq(Byte)]
      /\ \A w \in Writers : rest[w] # <<>> => todo[w] # <<>>
      /\ closed => \A w \in Writers : rest[w] = <<>> /\ todo[w] = <<>>
  BY DEF IInv, TypeOK, WritersOK
<1>1. <<>> \in Seq(Byte) /\ <<>> \in Seq(Items) /\ stream = stream \o <<>>
  BY <1>0, EmptySeq, ConcatEmptySeq
<1>2. ASSUME NEW w \in Writers, Begin(w) PROVE OnlyAppends
  <2>1. /\ rest' = [rest EXCEPT ![w] = Data(Head(todo[w]))]
        /\ todo[w] # <<>> /\ UNCHANGED <<stream, closed, todo, readerVars>>
    BY <1>2 DEF Begin
  <2>2. Head(todo[w]) \in Items BY <1>0, <2>1, HeadTailProperties
  <2>3. Data(Head(todo[w])) \in Seq(Byte) BY <2>2, ScriptAssumption
  <2>4. WritersOK' BY <1>0, <2>1, <2>3 DEF WritersOK
  <2> QED BY <1>0, <1>1, <2>1, <2>4 DEF OnlyAppends
<1>3. ASSUME NEW w \in Writers, Write(w) PROVE OnlyAppends
  <2>1. PICK n \in WriteSizes :
          LET written == IF n < Len(rest[w]) THEN n ELSE Len(rest[w])
          IN  /\ stream' = stream \o SubSeq(rest[w], 1, written)
              /\ rest' = [rest EXCEPT ![w] = SubSeq(@, written + 1, Len(@))]
    BY <1>3 DEF Write
  <2> DEFINE written == IF n < Len(rest[w]) THEN n ELSE Len(rest[w])
             more == SubSeq(rest[w], 1, written)
             left == SubSeq(rest[w], written + 1, Len(rest[w]))
  <2>2. rest[w] # <<>> /\ UNCHANGED <<closed, readerVars>> BY <1>3 DEF Write, Idle
  <2>3. n \in Nat /\ Len(rest[w]) \in Nat /\ rest[w] \in Seq(Byte)
    BY <1>0, BoundsAssumption
  <2>4. written \in 0..Len(rest[w]) BY <2>3
  <2>5. stream' = stream \o more /\ rest' = [rest EXCEPT ![w] = left] BY <2>1
  <2> HIDE DEF written
  <2>6. \A i \in 1..Len(rest[w]) : rest[w][i] \in Byte BY <2>3, ElementOfSeq
  <2>7. more \in Seq(Byte) BY <2>3, <2>4, <2>6, SubSeqProperties
  <2>8. left \in Seq(Byte)
    <3>1. \A i \in written + 1 .. Len(rest[w]) : rest[w][i] \in Byte BY <2>4, <2>6
    <3> QED BY <2>3, <2>4, <3>1, SubSeqProperties
  <2> HIDE DEF more, left
  <2>9. todo[w] # <<>> /\ Tail(todo[w]) \in Seq(Items)
    BY <1>0, <2>2, HeadTailProperties
  <2>10. \/ rest'[w] = <<>> /\ todo' = [todo EXCEPT ![w] = Tail(@)]
         \/ rest'[w] # <<>> /\ todo' = todo
    BY <1>3 DEF Write
  <2>11. /\ todo' \in [Writers -> Seq(Items)]
         /\ \A v \in Writers : rest'[v] # <<>> => todo'[v] # <<>>
    BY <1>0, <2>5, <2>9, <2>10
  <2> QED BY <1>0, <2>2, <2>5, <2>7, <2>8, <2>11 DEF OnlyAppends, WritersOK
<1>4. ASSUME NEW w \in Writers, Die(w) PROVE OnlyAppends
  <2>1. /\ rest' = [rest EXCEPT ![w] = <<>>] /\ todo' = [todo EXCEPT ![w] = <<>>]
        /\ UNCHANGED <<stream, closed, readerVars>>
    BY <1>4 DEF Die
  <2>2. WritersOK' BY <1>0, <1>1, <2>1 DEF WritersOK
  <2> QED BY <1>0, <1>1, <2>1, <2>2 DEF OnlyAppends
<1>5. CASE Close
  <2>1. /\ closed' = TRUE /\ UNCHANGED <<stream, todo, rest, readerVars>>
        /\ \A w \in Writers : rest[w] = <<>> /\ todo[w] = <<>>
    BY <1>5 DEF Close, Idle
  <2>2. WritersOK' BY <1>0, <2>1 DEF WritersOK
  <2> QED BY <1>0, <1>1, <2>1, <2>2 DEF OnlyAppends
<1> QED BY <1>2, <1>3, <1>4, <1>5 DEF Writing

LEMMA StreamGrows ==
  ASSUME IInv, OnlyAppends
  PROVE  /\ stream' \in Seq(Byte) /\ Len(stream) \in Nat /\ Len(stream') \in Nat
         /\ Len(stream) <= Len(stream')
         /\ \A i \in 1..Len(stream) : stream'[i] = stream[i]
<1>1. stream \in Seq(Byte) BY DEF IInv, TypeOK
<1>2. PICK more \in Seq(Byte) : stream' = stream \o more BY DEF OnlyAppends
<1>3. Len(stream) \in Nat /\ Len(more) \in Nat BY <1>1, <1>2
<1> QED BY <1>1, <1>2, <1>3, ConcatProperties

(* What was told stays told, of bytes that stay where they are.             *)
LEMMA WritersKeep ==
  ASSUME IInv, OnlyAppends
  PROVE  IInv'
<1>1. /\ UNCHANGED <<pc, pos, from, upto, content, mid_character, header, events>>
      /\ WritersOK' /\ closed' \in BOOLEAN
      /\ closed => closed' /\ stream' = stream
  BY DEF OnlyAppends, readerVars
<1>2. /\ pos \in 0..Len(stream) /\ from \in 0..pos /\ upto \in 0..pos
      /\ \A i \in DOMAIN events : events[i].end \in 0..pos /\ events[i].from \in Nat
      /\ Len(events) \in Nat /\ DOMAIN events = 1..Len(events)
  BY AppendShape DEF IInv, TypeOK, EventsOK
<1>3. TypeOK'
  BY <1>1, <1>2, StreamGrows DEF IInv, TypeOK
<1>4. InHand'
  <2>1. pc = "aggregate" \/ pc = "emit" => stream'[pos] = stream[pos]
    <3>1. pc = "aggregate" \/ pc = "emit" => pos \in 1..Len(stream)
      BY <1>2 DEF IInv, InHand
    <3> QED BY <3>1, StreamGrows
  <2> QED BY <1>1, <2>1 DEF IInv, InHand
<1>5. EventsOK' BY <1>1 DEF IInv, EventsOK
<1>6. NothingSkipped'
  <2>1. \A i \in 1 .. Len(events) + 1 : EndBefore(i) \in 0..pos
    BY <1>2 DEF EndBefore
  <2>2. \A i \in 1 .. Len(events) + 1 : EndBefore(i)' = EndBefore(i)
    BY <1>1 DEF EndBefore
  <2>3. Settled' = Settled /\ Settled \in Nat BY <1>1, <1>2 DEF Settled
  <2>4. \A end \in 0..pos : \A start \in Nat :
          Adjoins(start, end) =>
            start = end \/ (start = end - 1 /\ stream'[end] = SIGNATURE)
    BY <1>2, StreamGrows DEF Adjoins
  <2>5. Adjoins(Settled, EndBefore(Len(events) + 1))'
    <3>1. Adjoins(Settled, EndBefore(Len(events) + 1)) BY DEF IInv, NothingSkipped
    <3> QED BY <1>1, <1>2, <2>1, <2>2, <2>3, <2>4, <3>1 DEF Adjoins
  <2>6. ASSUME NEW i \in DOMAIN events
        PROVE  /\ Adjoins(events[i].from, EndBefore(i))'
               /\ events[i].from <= events[i].to /\ events[i].to <= events[i].end
               /\ events[i].to < events[i].end =>
                    \/ events[i].kind = "raised" /\ pc = "raised"
                    \/ events[i].kind = "error" /\ closed /\ events[i].end = Len(stream)
    <3>1. /\ Adjoins(events[i].from, EndBefore(i))
          /\ events[i].from <= events[i].to /\ events[i].to <= events[i].end
          /\ events[i].to < events[i].end =>
               \/ events[i].kind = "raised" /\ pc = "raised"
               \/ events[i].kind = "error" /\ closed /\ events[i].end = Len(stream)
      BY <2>6 DEF IInv, NothingSkipped
    <3>2. EndBefore(i) \in 0..pos /\ EndBefore(i)' = EndBefore(i) BY <1>2, <2>1, <2>2
    <3>3. events'[i].from = events[i].from /\ events[i].from \in Nat BY <1>1, <1>2
    <3>4. Adjoins(events[i].from, EndBefore(i))'
      BY <2>4, <3>1, <3>2, <3>3 DEF Adjoins
    <3> QED BY <3>1, <3>4
  <2> QED BY <1>1, <2>5, <2>6 DEF NothingSkipped
<1> QED BY <1>1, <1>3, <1>4, <1>5, <1>6 DEF IInv

-----------------------------------------------------------------------------
(* The reader. It tells nothing new, or one event that begins where what is *)
(* settled ends.                                                            *)
LEMMA NothingTold ==
  ASSUME IInv, UNCHANGED <<stream, closed, events>>, Settled' = Settled, pc # "raised"
  PROVE  NothingSkipped' /\ EventsOK'
<1>1. ASSUME NEW i PROVE EndBefore(i)' = EndBefore(i)
  BY DEF EndBefore
<1>2. Adjoins(Settled, EndBefore(Len(events) + 1))'
  BY <1>1 DEF IInv, NothingSkipped, Adjoins
<1>3. ASSUME NEW i \in DOMAIN events
      PROVE  /\ Adjoins(events[i].from, EndBefore(i))'
             /\ events[i].from <= events[i].to /\ events[i].to <= events[i].end
             /\ events[i].to < events[i].end =>
                  events[i].kind = "error" /\ closed /\ events[i].end = Len(stream)
  <2>1. EndBefore(i)' = EndBefore(i) /\ events'[i] = events[i] BY <1>1
  <2> QED BY <2>1 DEF IInv, NothingSkipped, Adjoins
<1> QED BY <1>2, <1>3 DEF IInv, EventsOK, NothingSkipped

LEMMA OneTold ==
  ASSUME IInv, UNCHANGED <<stream, closed>>, pc # "raised",
         NEW e, events' = Append(events, e),
         e.from = Settled, e.from <= e.to, e.to <= e.end,
         e.to < e.end => \/ e.kind = "raised" /\ pc' = "raised"
                         \/ e.kind = "error" /\ closed /\ e.end = Len(stream),
         Adjoins(Settled', e.end)
  PROVE  NothingSkipped' /\ EventsOK'
<1>0. PICK n : n = Len(events) OBVIOUS
<1>1. /\ n \in Nat /\ DOMAIN events = 1..n /\ DOMAIN events' = 1 .. n + 1
      /\ Len(events') = n + 1 /\ IsSeq(events')
      /\ \A i \in 1..n : events'[i] = events[i]
      /\ events'[n + 1] = e
  BY <1>0, AppendShape DEF IInv, EventsOK
<1>2. Settled \in Nat BY DEF IInv, TypeOK, Settled
<1>3. EventsOK'
  BY <1>1, <1>2 DEF IInv, EventsOK
<1>4. ASSUME NEW i \in 1 .. n + 1 PROVE EndBefore(i)' = EndBefore(i)
  <2>1. i = 1 \/ events'[i - 1] = events[i - 1] BY <1>1
  <2> QED BY <2>1 DEF EndBefore
<1>5. EndBefore(Len(events) + 1)' = e.end
  BY <1>1 DEF EndBefore
<1>6. Adjoins(Settled, EndBefore(Len(events) + 1))'
  BY <1>5 DEF Adjoins
<1>7. ASSUME NEW i \in 1..n
      PROVE  /\ Adjoins(events[i].from, EndBefore(i))'
             /\ events[i].from <= events[i].to /\ events[i].to <= events[i].end
             /\ events[i].to < events[i].end =>
                  events[i].kind = "error" /\ closed /\ events[i].end = Len(stream)
  <2>1. EndBefore(i)' = EndBefore(i) /\ events'[i] = events[i] BY <1>1, <1>4
  <2>2. i \in DOMAIN events BY <1>1
  <2> QED BY <2>1, <2>2 DEF IInv, NothingSkipped, Adjoins
<1>8. Adjoins(events[n + 1].from, EndBefore(n + 1))'
  <2>1. Adjoins(Settled, EndBefore(n + 1)) BY <1>0 DEF IInv, NothingSkipped
  <2>2. n + 1 \in 1 .. n + 1 BY <1>1
  <2>3. EndBefore(n + 1)' = EndBefore(n + 1) BY <1>4, <2>2
  <2> QED BY <1>1, <2>1, <2>3 DEF Adjoins
<1>9. ASSUME NEW i \in DOMAIN events'
      PROVE  /\ Adjoins(events[i].from, EndBefore(i))'
             /\ events'[i].from <= events'[i].to /\ events'[i].to <= events'[i].end
             /\ events'[i].to < events'[i].end =>
                  \/ events'[i].kind = "raised" /\ pc' = "raised"
                  \/ events'[i].kind = "error" /\ closed /\ events'[i].end = Len(stream)
  <2>1. CASE i \in 1..n
    <3>1. events'[i] = events[i] BY <1>1, <2>1
    <3>2. Adjoins(events[i].from, EndBefore(i))' BY <1>7, <2>1
    <3> QED BY <1>7, <2>1, <3>1, <3>2
  <2>2. CASE i = n + 1
    <3>1. events'[i] = e BY <1>1, <2>2
    <3>2. Adjoins(events[i].from, EndBefore(i))' BY <1>8, <2>2
    <3> QED BY <3>1, <3>2
  <2> QED BY <1>1, <2>1, <2>2
<1> QED BY <1>3, <1>6, <1>9 DEF NothingSkipped

LEMMA TypeKept ==
  ASSUME IInv, UNCHANGED writerVars, pc' \in Stages,
         pos' \in pos .. Len(stream), from' \in 0..pos', upto' \in 0..pos',
         mid_character' \in BOOLEAN, header'.value \in Nat,
         \/ events' = events
         \/ \E e : events' = Append(events, e) /\ e.kind \in Kinds /\ e.end \in 0..pos'
  PROVE  TypeOK' /\ WritersOK'
<1>1. /\ stream' = stream /\ closed' = closed /\ WritersOK'
      /\ pos \in Nat /\ Len(stream) \in Nat
  BY DEF IInv, TypeOK, WritersOK, writerVars
<1>2. ASSUME NEW i \in DOMAIN events'
      PROVE  events'[i].kind \in Kinds /\ events'[i].end \in 0..pos'
  <2>1. \A j \in DOMAIN events : events[j].kind \in Kinds /\ events[j].end \in 0..pos'
    BY <1>1 DEF IInv, TypeOK
  <2>2. CASE events' = events BY <2>1, <2>2
  <2>3. ASSUME NEW e, events' = Append(events, e), e.kind \in Kinds, e.end \in 0..pos'
        PROVE  events'[i].kind \in Kinds /\ events'[i].end \in 0..pos'
    <3>1. /\ Len(events) \in Nat /\ DOMAIN events = 1..Len(events)
          /\ DOMAIN events' = 1 .. Len(events) + 1
          /\ \A j \in 1..Len(events) : events'[j] = events[j]
          /\ events'[Len(events) + 1] = e
      BY <2>3, AppendShape DEF IInv, EventsOK
    <3>2. i \in DOMAIN events \/ i = Len(events) + 1 BY <3>1
    <3> QED BY <2>1, <2>3, <3>1, <3>2
  <2> QED BY <2>2, <2>3
<1> QED BY <1>1, <1>2 DEF IInv, TypeOK

LEMMA ByteDigits ==
  ASSUME NEW b \in Int, b >= 0, b <= 255
  PROVE  b % 64 \in Nat /\ b \div 64 \in 0..3
OBVIOUS

BigEndian(h, x, y, z) == h * (256 * 65536) + x * 65536 + y * 256 + z

LEMMA BigEndianNat ==
  ASSUME NEW h \in Nat, NEW x \in Nat, NEW y \in Nat, NEW z \in Nat
  PROVE  BigEndian(h, x, y, z) \in Nat
BY DEF BigEndian

(* A number that was read is a number, and zero when nothing could be read. *)
LEMMA ParsedNumber ==
  ASSUME NEW data \in Seq(Byte), NEW at \in Nat, NEW max \in BOOLEAN
  PROVE  ParseNumber(data, at, max).value \in Nat
<1>1. ParseError.value \in Nat /\ StructError.value \in Nat
  BY DEF ParseError, StructError
<1>2. CASE at >= Len(data) BY <1>1, <1>2 DEF ParseNumber
<1>3. CASE at < Len(data)
  <2>1. \A i \in 1..Len(data) : data[i] \in Nat /\ data[i] <= 255
    <3>1. \A i \in 1..Len(data) : data[i] \in Byte BY ElementOfSeq
    <3>2. \A b \in Byte : b \in Nat /\ b <= 255 BY DEF Byte
    <3> QED BY <3>1, <3>2
  <2>2. Len(data) \in Nat OBVIOUS
  <2>3. data[at + 1] \in Int /\ data[at + 1] >= 0 /\ data[at + 1] <= 255
    BY <1>3, <2>1, <2>2
  <2>4. PICK extra \in 0..3 : extra = data[at + 1] \div 64 BY <2>3, ByteDigits
  <2>5. ASSUME at + 1 + extra <= Len(data)
        PROVE  NumberValue(data, at, extra) \in Nat
    <3>1. data[at + 1] % 64 \in Nat BY <2>3, ByteDigits
    <3>2. extra >= 1 => data[at + 2] \in Nat BY <2>1, <2>2, <2>5
    <3>3. extra >= 2 => data[at + 3] \in Nat BY <2>1, <2>2, <2>5
    <3>4. extra >= 3 => data[at + 4] \in Nat BY <2>1, <2>2, <2>5
    <3>5. PICK high \in Nat : high = data[at + 1] % 64 BY <3>1
    <3>6. CASE extra = 0 BY <3>5, <3>6 DEF NumberValue
    <3>7. CASE extra = 1 BY <3>2, <3>5, <3>7 DEF NumberValue
    <3>8. CASE extra = 2 BY <3>2, <3>3, <3>5, <3>8 DEF NumberValue
    <3>9. CASE extra = 3
      <4>1. NumberValue(data, at, extra) =
              BigEndian(high, data[at + 2], data[at + 3], data[at + 4])
        BY <3>5, <3>9 DEF NumberValue, BigEndian
      <4>2. data[at + 2] \in Nat /\ data[at + 3] \in Nat /\ data[at + 4] \in Nat
        BY <3>2, <3>3, <3>4, <3>9
      <4>3. BigEndian(high, data[at + 2], data[at + 3], data[at + 4]) \in Nat
        BY <4>2, BigEndianNat
      <4> QED BY <4>1, <4>3
    <3> QED BY <3>6, <3>7, <3>8, <3>9
  <2>6. \A value, p : Found(value, p).value = value BY DEF Found
  <2>7. \/ ParseNumber(data, at, max).value = 0
        \/ /\ at + 1 + extra <= Len(data)
           /\ ParseNumber(data, at, max).value = NumberValue(data, at, extra)
    <3>1. \/ ParseNumber(data, at, max) = ParseError
          \/ ParseNumber(data, at, max) = StructError
          \/ /\ at + 1 + extra <= Len(data)
             /\ ParseNumber(data, at, max) =
                  Found(NumberValue(data, at, extra), at + 1 + extra)
      BY <1>3, <2>2, <2>4 DEF ParseNumber
    <3> QED BY <2>6, <3>1 DEF ParseError, StructError
  <2> QED BY <2>5, <2>7
<1> QED BY <1>2, <1>3

(* The state the reader starts a step from.                                 *)
LEMMA ReaderState ==
  ASSUME IInv
  PROVE  /\ stream \in Seq(Byte) /\ Len(stream) \in Nat /\ closed \in BOOLEAN
         /\ pos \in Nat /\ pos <= Len(stream)
         /\ from \in Nat /\ from <= pos /\ upto \in Nat /\ upto <= pos
         /\ mid_character \in BOOLEAN /\ header.value \in Nat
BY DEF IInv, TypeOK

Kept == TypeOK' /\ WritersOK' /\ InHand' /\ EventsOK' /\ NothingSkipped'

(* The steps that begin with nothing in hand.                               *)
LEMMA TopSteps ==
  ASSUME IInv, TopEOF \/ TopPacket \/ TopRaise \/ TopText
  PROVE  Kept
<1> USE ReaderState
<1>0. pc = "top" /\ UNCHANGED writerVars /\ UNCHANGED <<stream, closed>> /\ Settled = pos
  BY DEF TopEOF, TopPacket, TopRaise, TopText, writerVars, Settled
<1>1. CASE TopEOF
  <2>1. TypeOK' /\ WritersOK' BY <1>0, <1>1, TypeKept DEF TopEOF, Stages
  <2>2. InHand' BY <1>1 DEF TopEOF, InHand
  <2>3. NothingSkipped' /\ EventsOK'
    BY <1>0, <1>1, NothingTold DEF TopEOF, Settled
  <2> QED BY <2>1, <2>2, <2>3 DEF Kept
<1>2. CASE TopPacket
  <2>0. pos + 1 <= Len(stream) BY <1>2 DEF TopPacket, SignatureNext, Available
  <2>1. TypeOK' /\ WritersOK' BY <1>0, <1>2, <2>0, TypeKept DEF TopPacket, Stages
  <2>2. InHand' BY <1>2 DEF TopPacket, InHand
  <2>3. NothingSkipped' /\ EventsOK'
    BY <1>0, <1>2, NothingTold DEF TopPacket, Settled
  <2> QED BY <2>1, <2>2, <2>3 DEF Kept
<1>3. CASE TopRaise
  <2> DEFINE e == [kind |-> "raised", from |-> pos, to |-> pos + 1,
                   end |-> pos + 1, call |-> <<>>]
  <2>0. /\ pos + 1 <= Len(stream) /\ events' = Append(events, e)
        /\ pc' = "raised" /\ from' = pos /\ pos' = pos + 1
        /\ UNCHANGED <<mid_character, upto, header>>
    BY <1>3 DEF TopRaise, Available
  <2>1. TypeOK' /\ WritersOK'
    <3>1. e.kind \in Kinds /\ e.end \in 0..pos' BY <2>0 DEF Kinds
    <3> HIDE DEF e
    <3> QED BY <1>0, <2>0, <3>1, TypeKept DEF Stages
  <2>2. InHand' BY <2>0 DEF InHand
  <2>3. NothingSkipped' /\ EventsOK'
    <3>1. /\ e.from = Settled /\ e.from <= e.to /\ e.to <= e.end /\ ~(e.to < e.end)
          /\ Settled' = e.end
      BY <1>0, <2>0 DEF Settled
    <3>2. Adjoins(Settled', e.end) BY <3>1 DEF Adjoins
    <3> HIDE DEF e
    <3> QED BY <1>0, <2>0, <3>1, <3>2, OneTold
  <2> QED BY <2>1, <2>2, <2>3 DEF Kept
<1>4. CASE TopText
  <2>0. pos + 1 <= Len(stream) /\ mid_character' \in BOOLEAN
    BY <1>4 DEF TopText, Available, Decode
  <2>1. TypeOK' /\ WritersOK' BY <1>0, <1>4, <2>0, TypeKept DEF TopText, Stages
  <2>2. InHand' BY <1>0, <1>4 DEF TopText, InHand
  <2>3. NothingSkipped' /\ EventsOK'
    BY <1>0, <1>4, NothingTold DEF TopText, Settled
  <2> QED BY <2>1, <2>2, <2>3 DEF Kept
<1> QED BY <1>1, <1>2, <1>3, <1>4

(* The aggregation loop: nothing is told, and the text in hand grows to     *)
(* where the reader is.                                                     *)
LEMMA AggregateSteps ==
  ASSUME IInv, AggregateText \/ AggregateSignature \/ AggregateEOF \/ AggregateStop
  PROVE  Kept
<1> USE ReaderState
<1>0. /\ pc = "aggregate" /\ pc' \in {"aggregate", "emit"} /\ UNCHANGED writerVars
      /\ UNCHANGED <<stream, closed, events, from, header>>
  BY DEF AggregateText, AggregateSignature, AggregateEOF, AggregateStop, writerVars
<1>1. NothingSkipped' /\ EventsOK' BY <1>0, NothingTold DEF Settled
<1>2. from < pos /\ upto = pos /\ content = <<stream[pos]>>
  BY <1>0 DEF IInv, InHand
<1>3. <<stream[pos]>> = <<SIGNATURE>> => stream[pos] = SIGNATURE OBVIOUS
<1>4. CASE AggregateText
  <2>1. pos + 1 <= Len(stream) /\ mid_character' \in BOOLEAN
    BY <1>4 DEF AggregateText, Available, Decode
  <2>2. TypeOK' /\ WritersOK' BY <1>0, <1>4, <2>1, TypeKept DEF AggregateText, Stages
  <2>3. content' = <<stream'[pos']>> /\ pos' = pos + 1 /\ upto' = pos + 1
    BY <1>0, <1>4 DEF AggregateText
  <2>4. content' = <<SIGNATURE>> => stream'[pos'] = SIGNATURE BY <2>3
  <2>5. InHand' BY <1>0, <1>2, <2>3, <2>4 DEF InHand
  <2> QED BY <1>1, <2>2, <2>5 DEF Kept
<1>5. CASE AggregateSignature
  <2>1. pos + 1 <= Len(stream) /\ ~mid_character
    BY <1>5 DEF AggregateSignature, SignatureNext, Available
  <2>2. TypeOK' /\ WritersOK' BY <1>0, <1>5, <2>1, TypeKept DEF AggregateSignature, Stages
  <2>3. InHand' BY <1>0, <1>2, <1>5, <2>1 DEF AggregateSignature, InHand
  <2> QED BY <1>1, <2>2, <2>3 DEF Kept
<1>6. CASE AggregateEOF
  <2>1. TypeOK' /\ WritersOK' BY <1>0, <1>6, TypeKept DEF AggregateEOF, Stages
  <2>2. InHand' BY <1>0, <1>2, <1>6 DEF AggregateEOF, InHand
  <2> QED BY <1>1, <2>1, <2>2 DEF Kept
<1>7. CASE AggregateStop
  <2>1. TypeOK' /\ WritersOK' BY <1>0, <1>7, TypeKept DEF AggregateStop, Stages
  <2>2. InHand' BY <1>0, <1>2, <1>3, <1>7 DEF AggregateStop, InHand
  <2> QED BY <1>1, <2>1, <2>2 DEF Kept
<1> QED BY <1>4, <1>5, <1>6, <1>7

(* The text is told whole, and the signature that ended it begins a packet: *)
(* or the last byte of the text, when it looks like one.                    *)
LEMMA EmitStep ==
  ASSUME IInv, EmitText
  PROVE  Kept
<1> USE ReaderState
<1> DEFINE e == [kind |-> "text", from |-> from, to |-> upto, end |-> upto, call |-> <<>>]
<1>1. /\ pc = "emit" /\ events' = Append(events, e) /\ UNCHANGED writerVars
      /\ UNCHANGED <<stream, closed, pos, mid_character, upto, header>>
      /\ \/ (mid_character \/ content # <<SIGNATURE>>) /\ pc' = "top" /\ from' = from
         \/ ~mid_character /\ content = <<SIGNATURE>> /\ pc' = "header" /\ from' = pos - 1
  BY DEF EmitText, Emit, writerVars
<1>2. /\ from < upto
      /\ \/ upto = pos /\ (content = <<SIGNATURE>> => stream[pos] = SIGNATURE)
         \/ pos = upto + 1 /\ content = <<SIGNATURE>> /\ ~mid_character
  BY <1>1 DEF IInv, InHand
<1>3. /\ e.kind \in Kinds /\ e.end \in 0..pos' /\ e.end = upto /\ e.from = from
      /\ e.from <= e.to /\ e.to <= e.end /\ ~(e.to < e.end)
  BY <1>1, <1>2 DEF Kinds
<1> HIDE DEF e
<1>4. TypeOK' /\ WritersOK' BY <1>1, <1>2, <1>3, TypeKept DEF Stages
<1>5. InHand' BY <1>1, <1>2 DEF InHand
<1>6. Adjoins(Settled', e.end)
  <2>1. CASE pc' = "top" BY <1>1, <1>2, <1>3, <2>1 DEF Settled, Adjoins
  <2>2. CASE pc' = "header"
    <3>1. Settled' = pos - 1 BY <1>1, <2>2 DEF Settled
    <3> QED BY <1>1, <1>2, <1>3, <2>2, <3>1 DEF Adjoins
  <2> QED BY <1>1, <2>1, <2>2
<1>7. e.from = Settled BY <1>1, <1>3 DEF Settled
<1>8. NothingSkipped' /\ EventsOK' BY <1>1, <1>3, <1>6, <1>7, OneTold
<1> QED BY <1>4, <1>5, <1>8 DEF Kept

(* A step that ends the packet in hand, with what it says of it.            *)
LEMMA PacketEnds ==
  ASSUME IInv, pc \in {"header", "remainder"}, pc' \in {"top", "raised"},
         UNCHANGED <<writerVars, mid_character, from, upto>>, header'.value \in Nat,
         pos' \in pos .. Len(stream),
         NEW kind \in Kinds, NEW to, NEW told, from <= to, to <= pos',
         events' = Append(events, Event(kind, to, told)),
         to < pos' => \/ kind = "raised" /\ pc' = "raised"
                      \/ kind = "error" /\ closed /\ pos' = Len(stream)
  PROVE  Kept
<1> USE ReaderState
<1> DEFINE e == Event(kind, to, told)
<1>1. e.kind = kind /\ e.from = from /\ e.to = to /\ e.end = pos' BY DEF Event
<1> HIDE DEF e
<1>2. UNCHANGED writerVars /\ UNCHANGED <<stream, closed>> BY DEF writerVars
<1>3. events' = Append(events, e) BY DEF e
<1>4. e.kind \in Kinds /\ e.end \in 0..pos' BY <1>1
<1>5. TypeOK' /\ WritersOK' BY <1>2, <1>3, <1>4, TypeKept DEF Stages
<1>6. InHand' BY DEF InHand
<1>7. e.from = Settled /\ Settled' = e.end BY <1>1 DEF Settled
<1>8. Adjoins(Settled', e.end) BY <1>7 DEF Adjoins
<1>9. NothingSkipped' /\ EventsOK' BY <1>1, <1>2, <1>3, <1>7, <1>8, OneTold
<1> QED BY <1>5, <1>6, <1>9 DEF Kept

(* The two reads of a packet take no more than there is, and less than they *)
(* asked for only at the end of the stream.                                 *)
LEMMA GotBounds ==
  ASSUME IInv, NEW n \in Nat, Returns(n)
  PROVE  /\ Got(n) \in 0..n /\ pos + Got(n) \in pos .. Len(stream)
         /\ Len(stream) - pos < n => closed /\ pos + Got(n) = Len(stream)
         /\ ~(Len(stream) - pos < n) => Got(n) = n
BY ReaderState DEF Got, Returns

LEMMA HeaderStep ==
  ASSUME IInv, ReadHeader
  PROVE  Kept
<1> USE ReaderState
<1> DEFINE length == ReadLength(SubSeq(stream, from + 1, from + 6))
<1>1. /\ pc = "header" /\ Returns(5) /\ pos' = pos + Got(5)
      /\ UNCHANGED <<writerVars, mid_character, from, upto>> /\ UNCHANGED <<stream, closed>>
      /\ \/ /\ events' = Append(events, Event("error", pos', <<>>))
            /\ pc' = "top" /\ header' = header
         \/ /\ Got(5) = 5 /\ header' = length
            /\ pc' = "remainder" /\ events' = events
  <2>1. Got(5) \in 0..5 BY GotBounds DEF ReadHeader
  <2>2. /\ pc = "header" /\ Returns(5) /\ pos' = pos + Got(5)
        /\ UNCHANGED <<writerVars, mid_character, from, upto>>
        /\ IF Got(5) < 5 \/ length.err # "none"
             THEN /\ Emit(Event("error", pos', <<>>))
                  /\ pc' = "top" /\ UNCHANGED header
             ELSE /\ header' = length
                  /\ pc' = "remainder" /\ UNCHANGED events
    BY DEF ReadHeader
  <2>3. UNCHANGED <<stream, closed>> BY <2>2 DEF writerVars
  <2> HIDE DEF length
  <2>4. CASE Got(5) < 5 \/ length.err # "none" BY <2>2, <2>3, <2>4 DEF Emit
  <2>5. CASE ~(Got(5) < 5) /\ length.err = "none"
    <3>1. Got(5) = 5 BY <2>1, <2>5
    <3> QED BY <2>2, <2>3, <2>5, <3>1
  <2> QED BY <2>4, <2>5
<1>2. pos' \in pos .. Len(stream) /\ from <= pos' BY <1>1, GotBounds
<1>3. CASE events' = Append(events, Event("error", pos', <<>>)) /\ pc' = "top" /\ header' = header
  <2>1. "error" \in Kinds BY DEF Kinds
  <2> HIDE DEF length
  <2>2. ~(pos' < pos') BY <1>2
  <2> QED BY <1>1, <1>2, <1>3, <2>1, <2>2, PacketEnds
<1>4. CASE Got(5) = 5 /\ header' = length /\ pc' = "remainder" /\ events' = events
  <2>1. pos = from + 1 BY <1>1 DEF IInv, InHand
  <2>2. from + 6 <= Len(stream) BY <1>1, <1>2, <1>4, <2>1
  <2>3. \A i \in from + 1 .. from + 6 : stream[i] \in Byte BY <2>2, ElementOfSeq
  <2>4. SubSeq(stream, from + 1, from + 6) \in Seq(Byte) BY <2>3, SubSeqProperties
  <2>5. length.value \in Nat BY <2>4, ParsedNumber DEF ReadLength
  <2> HIDE DEF length
  <2>6. TypeOK' /\ WritersOK' BY <1>1, <1>2, <1>4, <2>5, TypeKept DEF Stages
  <2>7. InHand' BY <1>4 DEF InHand
  <2>8. NothingSkipped' /\ EventsOK' BY <1>1, <1>4, NothingTold DEF Settled
  <2> QED BY <2>6, <2>7, <2>8 DEF Kept
<1> QED BY <1>1, <1>3, <1>4

LEMMA RemainderStep ==
  ASSUME IInv, ReadRemainder
  PROVE  Kept
<1> USE ReaderState
<1> DEFINE n == header.value - 6
           short == Len(stream) - pos < n
           packet == SubSeq(stream, from + 1, from + header.value)
<1>1. /\ pc = "remainder" /\ n \in Nat /\ Returns(n) /\ pos' = pos + Got(n)
      /\ UNCHANGED <<writerVars, mid_character, from, upto, header>>
  BY DEF ReadRemainder
<1>2. PICK outcome \in {IF short THEN ParseError ELSE ReadPacket(packet, header)} :
        /\ pc' = IF outcome.err = "struct.error" THEN "raised" ELSE "top"
        /\ Emit(IF outcome.err = "none" THEN Event("packet", pos', outcome.value)
                ELSE IF outcome.err = "struct.error" THEN Event("raised", from, <<>>)
                ELSE Event("error", IF short THEN pos ELSE pos', <<>>))
  BY DEF ReadRemainder
<1>3. short => outcome.err = "ParseError" BY <1>2 DEF ParseError
<1> HIDE DEF packet
<1>4. pos' \in pos .. Len(stream) /\ from <= pos' /\ from <= pos
  BY <1>1, GotBounds
<1>5. short => closed /\ pos' = Len(stream) BY <1>1, GotBounds
<1>6. pc' \in {"top", "raised"} BY <1>2
<1> HIDE DEF n, short
<1>7. "packet" \in Kinds /\ "raised" \in Kinds /\ "error" \in Kinds BY DEF Kinds
<1>8. CASE outcome.err = "none"
  <2>1. events' = Append(events, Event("packet", pos', outcome.value))
    BY <1>2, <1>8 DEF Emit
  <2>2. ~(pos' < pos') BY <1>4
  <2> QED BY <1>1, <1>4, <1>6, <1>7, <2>1, <2>2, PacketEnds
<1>9. CASE outcome.err = "struct.error"
  <2>1. events' = Append(events, Event("raised", from, <<>>)) /\ pc' = "raised"
    BY <1>2, <1>9 DEF Emit
  <2> QED BY <1>1, <1>4, <1>7, <2>1, PacketEnds
<1>10. CASE outcome.err # "none" /\ outcome.err # "struct.error"
  <2>1. events' = Append(events, Event("error", IF short THEN pos ELSE pos', <<>>))
    BY <1>2, <1>10 DEF Emit
  <2>2. CASE short
    <3>1. events' = Append(events, Event("error", pos, <<>>)) BY <2>1, <2>2
    <3>2. pos <= pos' BY <1>4
    <3> QED BY <1>1, <1>4, <1>5, <1>6, <1>7, <2>2, <3>1, <3>2, PacketEnds
  <2>3. CASE ~short
    <3>1. events' = Append(events, Event("error", pos', <<>>)) BY <2>1, <2>3
    <3>2. ~(pos' < pos') BY <1>4
    <3> QED BY <1>1, <1>4, <1>6, <1>7, <3>1, <3>2, PacketEnds
  <2> QED BY <2>2, <2>3
<1> QED BY <1>8, <1>9, <1>10

LEMMA NegativeStep ==
  ASSUME IInv, ReadNegative
  PROVE  Kept
<1> USE ReaderState
<1>1. /\ pc = "remainder" /\ UNCHANGED <<writerVars, mid_character, from, upto, header>>
      /\ \/ /\ pos' = pos /\ pc' = "raised"
            /\ events' = Append(events, Event("raised", from, <<>>))
         \/ /\ closed /\ pos' = Len(stream) /\ pc' = "top"
            /\ events' = Append(events, Event("error", pos, <<>>))
  BY DEF ReadNegative, Emit
<1>2. "raised" \in Kinds /\ "error" \in Kinds BY DEF Kinds
<1>3. pos' \in pos .. Len(stream) /\ from <= pos /\ pos <= pos' BY <1>1
<1> QED BY <1>1, <1>2, <1>3, PacketEnds

-----------------------------------------------------------------------------
LEMMA NextIInv == IInv /\ [Next]_vars => IInv'
<1> SUFFICES ASSUME IInv, [Next]_vars PROVE IInv' OBVIOUS
<1>1. CASE Reading
  <2>1. Kept
    BY <1>1, TopSteps, AggregateSteps, EmitStep, HeaderStep, RemainderStep, NegativeStep
    DEF Reading
  <2> QED BY <2>1 DEF Kept, IInv
<1>2. CASE Writing \/ Close \/ \E w \in Writers : Die(w)
  BY <1>2, WriterStep, WritersKeep
<1>3. CASE UNCHANGED vars
  <2>1. UNCHANGED <<stream, closed, todo, rest, pc, pos, mid_character, from, upto,
                    content, header, events>>
    BY <1>3 DEF vars, writerVars, readerVars
  <2>2. TypeOK' BY <2>1 DEF IInv, TypeOK
  <2>3. WritersOK' BY <2>1 DEF IInv, WritersOK
  <2>4. InHand' BY <2>1 DEF IInv, InHand
  <2>5. EventsOK' BY <2>1 DEF IInv, EventsOK
  <2>6. NothingSkipped' BY <2>1 DEF IInv, NothingSkipped, Adjoins, Settled, EndBefore
  <2> QED BY <2>2, <2>3, <2>4, <2>5, <2>6 DEF IInv
<1> QED BY <1>1, <1>2, <1>3 DEF Next

LEMMA Invariance == Spec => []IInv
BY InitIInv, NextIInv, PTL DEF Spec

(* Every position of the reader lies in the stream, whatever was written to *)
(* it: the reads of a packet never run past the bytes there are.            *)
THEOREM SpecTypeOK == Spec => []TypeOK
<1>1. IInv => TypeOK BY DEF IInv
<1> QED BY <1>1, Invariance, PTL

(* ByteStreamToStreamResult.run tells its result of every byte it has read, *)
(* in the order of the stream and none twice: text, packet, parse error and *)
(* exception adjoin each other. Only the remainder of a packet cut off by   *)
(* the end of the stream is dropped, and only a byte that looks like a      *)
(* signature is taken again.                                                *)
THEOREM SpecNothingSkipped == Spec => []NothingSkipped
<1>1. IInv => NothingSkipped BY DEF IInv
<1> QED BY <1>1, Invariance, PTL
=============================================================================
