------------------------------ MODULE V2Packet ------------------------------
(***************************************************************************)
(* The packets of subunit v2: what StreamResultToBytes._write_packet makes *)
(* of the arguments of status(), and what                                  *)
(* ByteStreamToStreamResult._parse makes of the bytes of a packet. Bytes   *)
(* are numbers, strings are sequences of UTF-8 bytes, and an argument that *)
(* may be None is <<>> (None) or <<x>>. The checksum is a parameter:       *)
(* zlib.crc32 with struct's '>I' gives four bytes.                         *)
(***************************************************************************)
EXTENDS V2Number, Utf8, SequencesExt

CONSTANT Crc(_)          \* the four checksum bytes of a sequence of bytes

SIGNATURE == 179         \* 0xB3
FLAG_TEST_ID == 2048
FLAG_ROUTE_CODE == 1024
FLAG_TIMESTAMP == 512
FLAG_RUNNABLE == 256
FLAG_TAGS == 128
FLAG_FILE_CONTENT == 64
FLAG_MIME_TYPE == 32
FLAG_EOF == 16
VERSION == 8192          \* 0x2000

(* status_mask and status_lookup: a status is the number it has on the wire *)
(* (0 is None, 2 'inprogress', 6 'fail'...).                                *)
Status == 0..7

None == <<>>
Optional(S) == {None} \cup {<<x>> : x \in S}

(* The arguments of one status() call, from the strings, file bodies and    *)
(* timestamps it may use. Python's own test is `if test_tags` and           *)
(* `if mime_type`: an empty set and an empty string are the same as None.   *)
Calls(strings, bodies, times) ==
    [timestamp : Optional(times), test_id : Optional(strings),
     test_tags : SUBSET strings, runnable : BOOLEAN,
     mime_type : Optional(strings),
     file      : Optional([name : strings, bytes : bodies]),
     eof       : BOOLEAN, route_code : Optional(strings),
     test_status : Status]

-----------------------------------------------------------------------------
(* Writing.                                                                 *)

TwoBytes(n) == <<n \div 256, n % 256>>
FourBytes(n) == TwoBytes(n \div 65536) \o TwoBytes(n % 65536)

WriteUtf8(s) == EncodeNumber(Len(s)) \o s

(* A timestamp is its seconds since the epoch and its microseconds; the     *)
(* wire has nanoseconds.                                                    *)
WriteTimestamp(t) ==
    FourBytes(t.seconds) \o EncodeNumber(t.microseconds * 1000)

WriteTags(tags) ==
    EncodeNumber(Len(tags)) \o FlattenSeq([i \in 1..Len(tags) |-> WriteUtf8(tags[i])])

(* Mutant of WriteFile: the length of the name where the content's belongs. *)
WriteFileWithNameLength(f) ==
    WriteUtf8(f.name) \o EncodeNumber(Len(f.name)) \o f.bytes

WriteFile(f) ==
    WriteUtf8(f.name) \o EncodeNumber(Len(f.bytes)) \o f.bytes

IfGiven(option, Write(_)) == IF option = None THEN <<>> ELSE Write(option[1])
FlagIf(condition, flag) == IF condition THEN flag ELSE 0
HasMime(call) == call.mime_type # None /\ call.mime_type # <<<<>>>>

(* The call a reader can make of a packet: an empty mime type is None.      *)
Understood(call) ==
    [call EXCEPT !.mime_type = IF HasMime(call) THEN @ ELSE None]

Flags(call) ==
    VERSION + FlagIf(call.timestamp # None, FLAG_TIMESTAMP)
      + FlagIf(call.test_id # None, FLAG_TEST_ID)
      + FlagIf(call.test_tags # {}, FLAG_TAGS)
      + FlagIf(call.runnable, FLAG_RUNNABLE)
      + FlagIf(HasMime(call), FLAG_MIME_TYPE)
      + FlagIf(call.file # None, FLAG_FILE_CONTENT)
      + FlagIf(call.eof, FLAG_EOF)
      + FlagIf(call.route_code # None, FLAG_ROUTE_CODE)
      + call.test_status

Fields(call) ==
    IfGiven(call.timestamp, WriteTimestamp)
      \o IfGiven(call.test_id, WriteUtf8)
      \o (IF call.test_tags # {} THEN WriteTags(SetToSeq(call.test_tags))
          ELSE <<>>)
      \o (IF HasMime(call) THEN WriteUtf8(call.mime_type[1]) ELSE <<>>)
      \o IfGiven(call.file, WriteFile)
      \o IfGiven(call.route_code, WriteUtf8)

(* Length field and checksum around flags and fields: base_length counts    *)
(* the signature, the flags, the fields and the checksum.                   *)
Seal(flags, fields) ==
    LET content == <<SIGNATURE>> \o TwoBytes(flags)
                     \o LengthField(Len(fields) + 7) \o fields
    IN  content \o Crc(content)

Packet(call) == Seal(Flags(call), Fields(call))

-----------------------------------------------------------------------------
(* Reading. Every reader takes the body and a position counted from 0 and   *)
(* answers as ParseNumber does.                                             *)

Has(flags, flag) == (flags \div flag) % 2 = 1

(* Mutant of ReadBytes: Python's slice without the check of its length.     *)
UncheckedReadBytes(body, pos, length) ==
    Found(SubSeq(body, pos + 1,
                 IF pos + length > Len(body) THEN Len(body) ELSE pos + length),
          pos + length)

ReadBytes(body, pos, length) ==
    IF pos + length > Len(body) THEN ParseError
    ELSE Found(SubSeq(body, pos + 1, pos + length), pos + length)

(* What follows a read that may raise. (The sets hold TLC to evaluating the *)
(* read once.)                                                              *)
Then(read, Rest(_)) ==
    CHOOSE answer \in {IF found.err = "none" THEN Rest(found) ELSE found :
                         found \in {read}} : TRUE

(* _parse_varint as it is called for all but the length of a packet.        *)
ReadNumber(body, pos) == ParseNumber(body, pos, FALSE)

(* A length, and as many bytes.                                             *)
ReadSized(body, pos) ==
    Then(ReadNumber(body, pos), LAMBDA length :
      ReadBytes(body, length.pos, length.value))

ReadUtf8(body, pos) ==
    Then(ReadSized(body, pos), LAMBDA text :
      IF Contains(text.value, 0) \/ ~WellFormed(text.value) THEN ParseError ELSE text)

(* EPOCH + timedelta(seconds, microseconds=nanoseconds / 1000): timedelta   *)
(* rounds to whole microseconds, half to even, and carries into seconds.    *)
Instant(seconds, nanoseconds) ==
    LET micro == nanoseconds \div 1000
        rest == nanoseconds % 1000
        rounded == IF rest > 500 \/ (rest = 500 /\ micro % 2 = 1)
                     THEN micro + 1 ELSE micro
    IN  [seconds |-> seconds + rounded \div 1000000,
         microseconds |-> rounded % 1000000]

ReadTimestamp(body, pos) ==
    LET Digit(i) == body[pos + i]
    IN  IF pos + 4 > Len(body) THEN StructError
        ELSE Then(ReadNumber(body, pos + 4), LAMBDA nanoseconds :
               Found(Instant(((Digit(1) * 256 + Digit(2)) * 256 + Digit(3)) * 256
                               + Digit(4), nanoseconds.value),
                     nanoseconds.pos))

(* One turn of the loop over the tags, after what was read before.          *)
AddTag(body, before) ==
    Then(ReadUtf8(body, before.pos), LAMBDA tag :
      Found(before.value \cup {tag.value}, tag.pos))
NextTag(body, before) == Then(before, LAMBDA tags : AddTag(body, tags))

(* A tag takes at least one byte: the loop over a count larger than the     *)
(* body has failed by its Len(body) + 1st turn.                             *)
TagsAfter(body, count) ==
    LET turns == IF count.value > Len(body) THEN Len(body) + 1 ELSE count.value
        after[i \in 0..turns] ==
          IF i = 0 THEN Found({}, count.pos) ELSE NextTag(body, after[i - 1])
    IN  after[turns]

ReadTags(body, pos) ==
    Then(ReadNumber(body, pos), LAMBDA count : TagsAfter(body, count))

ReadContent(body, name) ==
    Then(ReadSized(body, name.pos), LAMBDA content :
      Found([name |-> name.value, bytes |-> content.value], content.pos))

ReadFile(body, pos) ==
    Then(ReadUtf8(body, pos), LAMBDA name : ReadContent(body, name))

(* One optional field: read it after the one before it when its flag is set. *)
Field(before, present, body, Read(_, _)) ==
    Then(before, LAMBDA done :
      IF ~present THEN Found(None, done.pos)
      ELSE Then(Read(body, done.pos), LAMBDA field :
             Found(<<field.value>>, field.pos)))

TimeField(before, present, body) == Field(before, present, body, ReadTimestamp)
TextField(before, present, body) == Field(before, present, body, ReadUtf8)
TagsField(before, present, body) == Field(before, present, body, ReadTags)
FileField(before, present, body) == Field(before, present, body, ReadFile)

(* The fields of a body that starts at pos, as the status() call they make. *)
ReadFields(flags, body, pos) ==
    LET time  == TimeField(Found(None, pos), Has(flags, FLAG_TIMESTAMP), body)
        id    == TextField(time, Has(flags, FLAG_TEST_ID), body)
        tags  == TagsField(id, Has(flags, FLAG_TAGS), body)
        mime  == TextField(tags, Has(flags, FLAG_MIME_TYPE), body)
        file  == FileField(mime, Has(flags, FLAG_FILE_CONTENT), body)
        route == TextField(file, Has(flags, FLAG_ROUTE_CODE), body)
    IN  Then(route, LAMBDA last :
          Found([timestamp |-> time.value, test_id |-> id.value,
                 test_tags |-> IF tags.value = None THEN {} ELSE tags.value[1],
                 runnable |-> Has(flags, FLAG_RUNNABLE),
                 mime_type |-> mime.value, file |-> file.value,
                 eof |-> Has(flags, FLAG_EOF), route_code |-> last.value,
                 test_status |-> flags % 8],
                last.pos))

(* The two bytes after the signature.                                       *)
FlagsOf(packet) == packet[2] * 256 + packet[3]

(* Mutant of ReadPacket: the checksum is not compared.                      *)
ReadUncheckedPacket(packet, header) ==
    ReadFields(FlagsOf(packet),
               SubSeq(packet, 1, Len(packet) - 4), header.pos)

(* What _parse does after its second read: packet is everything it has      *)
(* read, the signature included, and header the number it found as length.  *)
(* A length field of three bytes leaves the remainder a fragment of its     *)
(* own, so that a checksum of fewer than four bytes is a struct.error.      *)
ReadPacket(packet, header) ==
    LET body == SubSeq(packet, 1, Len(packet) - 4)
        checksum == SubSeq(packet, Len(packet) - 3, Len(packet))
    IN  IF header.pos = 6 /\ Len(packet) - 6 < 4 THEN StructError
        ELSE IF Crc(body) # checksum THEN ParseError
        ELSE ReadFields(FlagsOf(packet), body, header.pos)

(* The length field, from the signature and the five bytes after it.        *)
ReadLength(start) == ParseNumber(start, 3, TRUE)
=============================================================================
