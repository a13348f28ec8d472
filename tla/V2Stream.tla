------------------------------ MODULE V2Stream ------------------------------
(***************************************************************************)
(* A subunit v2 byte stream: programs that write packets                   *)
(* (StreamResultToBytes) and plain text into one pipe or file, and         *)
(* ByteStreamToStreamResult.run reading it. A packet is written by a loop  *)
(* of partial writes, so that writers may tear each other's packets and a  *)
(* writer may die inside one. The reader blocks in read(n) until it has n  *)
(* bytes or the stream has ended.                                          *)
(***************************************************************************)
EXTENDS V2Packet

CONSTANTS
    Writers,        \* the writing programs
    Script,         \* what each writes: a sequence of Packet and Text items
    WriteSizes,     \* how many bytes one write() of the loop may take
    MayTear,        \* whether a writer may write inside another's packet
    MayDie,         \* the writers that may die inside a packet
    Sources,        \* the kinds of source a reader may be given: "buffered", a
                    \* BufferedReader on a descriptor select() takes, or "bytes",
                    \* a BytesIO
    Names,          \* whether it may be given a non_subunit_name or not
    MaxBuffered     \* how much text the reader holds back, 1048576 in run

PacketItem(call) == [kind |-> "packet", call |-> call]
TextItem(bytes) == [kind |-> "text", bytes |-> bytes]
Data(item) == IF item.kind = "packet" THEN Packet(item.call) ELSE item.bytes

Items == UNION {{Script[w][i] : i \in DOMAIN Script[w]} : w \in Writers}

(* What a program writes is bytes.                                          *)
ASSUME ScriptAssumption ==
    /\ Script \in [Writers -> Seq(Items)]
    /\ \A item \in Items : Data(item) \in Seq(Byte)

ASSUME BoundsAssumption ==
    /\ WriteSizes \subseteq Nat \ {0}
    /\ MayTear \in BOOLEAN /\ MayDie \subseteq Writers
    /\ Sources \subseteq {"buffered", "bytes"} /\ Names \subseteq BOOLEAN
    /\ MaxBuffered \in Nat \ {0}

VARIABLES
    stream,         \* every byte written so far
    closed,         \* whether the writers are gone and the stream ends
    todo,           \* what each writer has still to begin
    rest,           \* the bytes of its item a writer has not written: view[offset:]
    begun,          \* history: where in the stream its item began
    sent,           \* history: the items written to their end, with their place
    source,         \* the kind of the reader's source
    named,          \* whether non_subunit_name is set
    pc,             \* where in run() and _parse_packet() the reader is
    pos,            \* how many bytes it has read
    codec,          \* the bytes the incremental decoder holds
    mid_character,
    from,           \* where the text or packet in hand begins
    upto,           \* where the text in hand ends: from..upto is `buffered`
    content,        \* the last byte read by the aggregation loop, as a sequence
    header,         \* the length of the packet in hand, as _parse_varint found it
    events          \* what the reader has told its result
writerVars == <<stream, closed, todo, rest, begun, sent>>
argVars == <<source, named>>
readerVars == <<argVars, pc, pos, codec, mid_character, from, upto, content, header, events>>
vars == <<writerVars, readerVars>>

Init ==
    /\ stream = <<>> /\ closed = FALSE
    /\ todo = Script
    /\ rest = [w \in Writers |-> <<>>]
    /\ begun = [w \in Writers |-> 0]
    /\ sent = <<>>
    /\ source \in Sources /\ named \in Names
    /\ pc = "top" /\ pos = 0
    /\ codec = <<>> /\ mid_character = FALSE
    /\ from = 0 /\ upto = 0 /\ content = <<>>
    /\ header = Found(0, 0)
    /\ events = <<>>

-----------------------------------------------------------------------------
(* The writers.                                                             *)

Idle(w) == rest[w] = <<>>

(* status() has made a packet, or the program prints something else.        *)
Begin(w) ==
    /\ Idle(w) /\ todo[w] # <<>>
    /\ MayTear \/ \A other \in Writers : Idle(other)
    /\ rest' = [rest EXCEPT ![w] = Data(Head(todo[w]))]
    /\ UNCHANGED <<stream, closed, todo, begun, sent, readerVars>>

(* One turn of the loop of _write_packet: output_stream.write takes some of *)
(* view[offset:]. The turn that takes the last of it ends the item.         *)
Write(w) ==
    /\ ~Idle(w)
    /\ \E n \in WriteSizes :
         LET written == IF n < Len(rest[w]) THEN n ELSE Len(rest[w])
         IN  /\ stream' = stream \o SubSeq(rest[w], 1, written)
             /\ rest' = [rest EXCEPT ![w] = SubSeq(@, written + 1, Len(@))]
    /\ begun' = IF rest[w] = Data(Head(todo[w]))
                  THEN [begun EXCEPT ![w] = Len(stream)] ELSE begun
    /\ IF rest'[w] = <<>>
         THEN /\ todo' = [todo EXCEPT ![w] = Tail(@)]
              /\ sent' = Append(sent, [item |-> Head(todo[w]), from |-> begun'[w],
                                       to |-> Len(stream')])
         ELSE UNCHANGED <<todo, sent>>
    /\ UNCHANGED <<closed, readerVars>>

(* The program dies inside a packet: the rest of it is never written.       *)
Die(w) ==
    /\ w \in MayDie /\ ~Idle(w)
    /\ rest' = [rest EXCEPT ![w] = <<>>]
    /\ todo' = [todo EXCEPT ![w] = <<>>]
    /\ UNCHANGED <<stream, closed, begun, sent, readerVars>>

Close ==
    /\ ~closed /\ \A w \in Writers : Idle(w) /\ todo[w] = <<>>
    /\ closed' = TRUE
    /\ UNCHANGED <<stream, todo, rest, begun, sent, readerVars>>

Writing == \E w \in Writers : Begin(w) \/ Write(w)

-----------------------------------------------------------------------------
(* The reader.                                                              *)

Event(kind, to, call) ==
    [kind |-> kind, from |-> from, to |-> to, end |-> pos', call |-> call]
Emit(event) == events' = Append(events, event)

Available == pos < Len(stream)
AtEnd == closed /\ pos = Len(stream)
(* Mutants of Returns: waiting for one byte more than is asked for, as a    *)
(* reader that looks ahead does; waiting for all of it at the end, too.     *)
ReturnsLate(n) == Len(stream) - pos >= n + 1 \/ closed
ReturnsWhenFull(n) == Len(stream) - pos >= n
(* Mutant of Got: the count asked for is taken for the count read.          *)
GotAsked(n) == n

(* read(n) returns: all of it is there, or the stream has ended.            *)
Returns(n) == Len(stream) - pos >= n \/ closed
Got(n) == IF Len(stream) - pos < n THEN Len(stream) - pos ELSE n

(* Mutant of SignatureNext: the byte alone decides.                         *)
SignatureByteNext == Available /\ stream[pos + 1] = SIGNATURE

(* not mid_character and content[0] == SIGNATURE[0], of the next byte       *)
SignatureNext == Available /\ ~mid_character /\ stream[pos + 1] = SIGNATURE

(* Feeding the byte just read to the codec. A UnicodeDecodeError ends the   *)
(* character.                                                               *)
Decode ==
    LET fed == Feed(codec, stream[pos + 1])
    IN  /\ codec' = fed.pending
        /\ mid_character' = (fed.answer = "more")

TopEOF ==
    /\ pc = "top" /\ AtEnd
    /\ pc' = "done"
    /\ UNCHANGED <<pos, codec, mid_character, from, upto, content, header, events, argVars, writerVars>>

TopPacket ==
    /\ pc = "top" /\ SignatureNext
    /\ pc' = "header" /\ from' = pos /\ pos' = pos + 1
    /\ UNCHANGED <<codec, mid_character, upto, content, header, events, argVars, writerVars>>

(* Without a non_subunit_name the byte is in the exception's arguments.     *)
TopRaise ==
    /\ pc = "top" /\ Available /\ ~SignatureNext /\ ~named
    /\ pc' = "raised" /\ from' = pos /\ pos' = pos + 1
    /\ events' = Append(events, [kind |-> "raised", from |-> pos, to |-> pos + 1,
                                 end |-> pos + 1, call |-> <<>>])
    /\ UNCHANGED <<codec, mid_character, upto, content, header, argVars, writerVars>>

TopText ==
    /\ pc = "top" /\ Available /\ ~SignatureNext /\ named
    /\ Decode
    /\ pc' = "aggregate" /\ from' = pos /\ pos' = pos + 1 /\ upto' = pos + 1
    /\ content' = <<stream[pos + 1]>>
    /\ UNCHANGED <<header, events, argVars, writerVars>>

AggregateText ==
    /\ pc = "aggregate" /\ source = "buffered" /\ Available /\ ~SignatureNext
    /\ Decode
    /\ pos' = pos + 1 /\ upto' = pos + 1 /\ content' = <<stream[pos + 1]>>
    /\ pc' = IF pos + 1 - from >= MaxBuffered THEN "emit" ELSE "aggregate"
    /\ UNCHANGED <<from, header, events, argVars, writerVars>>

AggregateSignature ==
    /\ pc = "aggregate" /\ source = "buffered" /\ SignatureNext
    /\ pc' = "emit" /\ pos' = pos + 1 /\ content' = <<SIGNATURE>>
    /\ UNCHANGED <<codec, mid_character, from, upto, header, events, argVars, writerVars>>

AggregateEOF ==
    /\ pc = "aggregate" /\ source = "buffered" /\ AtEnd
    /\ pc' = "emit" /\ content' = <<>>
    /\ UNCHANGED <<pos, codec, mid_character, from, upto, header, events, argVars, writerVars>>

(* select() timed out, which it may do with bytes waiting in the buffer of  *)
(* the source, or the source has no descriptor for it.                      *)
AggregateStop ==
    /\ pc = "aggregate"
    /\ pc' = "emit"
    /\ UNCHANGED <<pos, codec, mid_character, from, upto, content, header, events, argVars, writerVars>>

(* Mutant of EmitText: the signature that ended the text is forgotten.      *)
EmitTextAndForget ==
    /\ pc = "emit" /\ pc' = "top"
    /\ Emit([kind |-> "text", from |-> from, to |-> upto, end |-> upto, call |-> <<>>])
    /\ UNCHANGED <<pos, codec, mid_character, from, upto, content, header, argVars, writerVars>>

(* Tell the text, then go on as the last byte read says: `content` is still *)
(* the last byte of the text when the loop ended for another reason than a  *)
(* signature.                                                               *)
EmitText ==
    /\ pc = "emit"
    /\ Emit([kind |-> "text", from |-> from, to |-> upto, end |-> upto, call |-> <<>>])
    /\ IF mid_character \/ content # <<SIGNATURE>>
         THEN pc' = "top" /\ UNCHANGED from
         ELSE pc' = "header" /\ from' = pos - 1
    /\ UNCHANGED <<pos, codec, mid_character, upto, content, header, argVars, writerVars>>

(* The first read of _parse: flags and at most three bytes of length.       *)
ReadHeader ==
    /\ pc = "header" /\ Returns(5)
    /\ pos' = pos + Got(5)
    /\ LET length == ReadLength(SubSeq(stream, from + 1, from + 6))
       IN  IF Got(5) < 5 \/ length.err # "none"
             THEN /\ Emit(Event("error", pos', <<>>))
                  /\ pc' = "top" /\ UNCHANGED header
             ELSE /\ header' = length
                  /\ pc' = "remainder" /\ UNCHANGED events
    /\ UNCHANGED <<codec, mid_character, from, upto, content, argVars, writerVars>>

(* The second read of _parse, of `length - 6` bytes, and what it makes of   *)
(* the packet. What a short read did return is not in the packet that is    *)
(* reported.                                                                *)
ReadRemainder ==
    /\ pc = "remainder" /\ header.value >= 6 /\ Returns(header.value - 6)
    /\ pos' = pos + Got(header.value - 6)
    /\ LET short == Len(stream) - pos < header.value - 6
           packet == SubSeq(stream, from + 1, from + header.value)
       IN  \E answer \in {IF short THEN ParseError ELSE ReadPacket(packet, header)} :
             /\ pc' = IF answer.err = "struct.error" THEN "raised" ELSE "top"
             /\ Emit(IF answer.err = "none" THEN Event("packet", pos', answer.value)
                     ELSE IF answer.err = "struct.error" THEN Event("raised", from, <<>>)
                     ELSE Event("error", IF short THEN pos ELSE pos', <<>>))
    /\ UNCHANGED <<codec, mid_character, from, upto, content, header, argVars, writerVars>>

(* The second read with a length below six, a negative count: a             *)
(* BufferedReader refuses it with ValueError, unless it is -1, which reads  *)
(* all there will be; a BytesIO reads all for every negative count. Neither *)
(* is as long as was asked for.                                             *)
ReadNegative ==
    /\ pc = "remainder" /\ header.value < 6
    /\ IF source = "buffered" /\ header.value < 5
         THEN /\ pos' = pos
              /\ Emit(Event("raised", from, <<>>)) /\ pc' = "raised"
         ELSE /\ closed
              /\ pos' = Len(stream)
              /\ Emit(Event("error", pos, <<>>)) /\ pc' = "top"
    /\ UNCHANGED <<codec, mid_character, from, upto, content, header, argVars, writerVars>>

Reading ==
    \/ TopEOF \/ TopPacket \/ TopRaise \/ TopText
    \/ AggregateText \/ AggregateSignature \/ AggregateEOF \/ AggregateStop
    \/ EmitText \/ ReadHeader \/ ReadRemainder \/ ReadNegative

Next == Reading \/ Writing \/ Close \/ \E w \in Writers : Die(w)

(* Every program that has not died goes on writing, and the reader, a loop  *)
(* of blocking reads, goes on whenever its read returns.                    *)
(* That the stream ever ends is not assumed.                                *)
Fairness == WF_vars(Reading) /\ WF_vars(Writing)

Spec == Init /\ [][Next]_vars /\ Fairness

-----------------------------------------------------------------------------
(* Properties.                                                              *)

Kinds == {"text", "packet", "error", "raised"}
Stages == {"top", "aggregate", "emit", "header", "remainder", "done", "raised"}

(* The types of the reader's state and of what it has told: positions never *)
(* run past the stream.                                                     *)
TypeOK ==
    /\ stream \in Seq(Byte) /\ closed \in BOOLEAN
    /\ pc \in Stages
    /\ pos \in 0..Len(stream) /\ from \in 0..pos /\ upto \in 0..pos
    /\ mid_character \in BOOLEAN
    /\ header.value \in Nat
    /\ \A i \in DOMAIN events :
         /\ events[i].kind \in Kinds
         /\ events[i].end \in 0..pos

(* Up to where the bytes read have been told or given up: the rest of them  *)
(* is the text or the packet in hand.                                       *)
Settled == IF pc \in {"top", "done", "raised"} THEN pos ELSE from
EndBefore(i) == IF i = 1 THEN 0 ELSE events[i - 1].end

(* What begins at start goes on where the reader was at end; or a byte that *)
(* was told as text is taken for a signature once more.                     *)
Adjoins(start, end) ==
    \/ start = end
    \/ start = end - 1 /\ stream[end] = SIGNATURE

(* Nothing is skipped: what the reader tells, and what it holds, goes on    *)
(* where what it told before ended, and the bytes of an event are all in    *)
(* it, but for a packet cut off by the end of the stream (whose remainder   *)
(* is dropped) and one that made run() raise. Aggregation, the signature    *)
(* that ends it and the two reads of a packet must hand over exactly.       *)
NothingSkipped ==
    /\ \A i \in DOMAIN events :
         /\ Adjoins(events[i].from, EndBefore(i))
         /\ events[i].from <= events[i].to /\ events[i].to <= events[i].end
         /\ events[i].to < events[i].end =>
              \/ events[i].kind = "raised" /\ pc = "raised"
              \/ events[i].kind = "error" /\ closed /\ events[i].end = Len(stream)
    /\ Adjoins(Settled, EndBefore(Len(events) + 1))

IsPacket(entry) == entry.item.kind = "packet"
Intact(entry) == entry.to - entry.from = Len(Data(entry.item))
Packets == {sent[i] : i \in {j \in DOMAIN sent : IsPacket(sent[j])}}
Told == {events[i] : i \in DOMAIN events}

(* As long as packets are whole and text is UTF-8, text and packets never   *)
(* mix: no packet byte is told as text, and there is no parse error.        *)
PacketsAndTextApart ==
    \A e \in Told :
      /\ e.kind \in {"text", "packet"}
      /\ e.kind = "text" => \A p \in Packets : e.to <= p.from \/ e.from >= p.to

(* Whatever was torn or cut off, a packet the reader passes on is one some  *)
(* program wrote, read from the very place it was written to.               *)
NoForgery ==
    \A e \in Told : e.kind = "packet" =>
      \E p \in Packets : /\ Intact(p) /\ p.from = e.from /\ p.to = e.end
                         /\ e.call = Understood(p.item.call)

(* Damage does not spread: a whole packet the reader has passed is passed   *)
(* on, unless something that began before it, a damaged packet claiming     *)
(* more bytes than it has, swallowed its first byte.                        *)
LostOnlyToEarlierDamage ==
    \A p \in Packets : Intact(p) /\ p.to <= Settled =>
      \E e \in Told :
        \/ e.kind = "packet" /\ e.from = p.from /\ e.end = p.to
        \/ e.kind # "packet" /\ e.from < p.from /\ p.from < e.end

(* Every byte of a character is text. README: the signature is "never legal *)
(* in a UTF-8 stream as the first byte of a character", and the test        *)
(* test_signature_middle_utf8_char wants one character's bytes as text: in  *)
(* a stream of whole packets and UTF-8 text no byte of the text is parsed   *)
(* as a packet.                                                             *)
CharacterStaysText ==
    \A i \in DOMAIN sent : sent[i].item.kind = "text" =>
      \A e \in Told : e.kind # "text" =>
        e.end <= sent[i].from \/ e.from >= sent[i].to

(* Once the stream has ended run() returns or raises: no claimed length     *)
(* leaves the reader waiting.                                               *)
Stops == closed ~> pc \in {"done", "raised"}

(* The calls written to the end, and the calls made of the result.          *)
SentCalls ==
    LET packets == SelectSeq(sent, IsPacket)
    IN  [i \in DOMAIN packets |-> Understood(packets[i].item.call)]
ReceivedCalls ==
    LET packets == SelectSeq(events, LAMBDA e : e.kind = "packet")
    IN  [i \in DOMAIN packets |-> packets[i].call]

ScriptCalls ==
    UNION {{Understood(Script[w][i].call) :
              i \in {j \in DOMAIN Script[w] : Script[w][j].kind = "packet"}}
           : w \in Writers}

Channel == INSTANCE V2Channel WITH
    Call <- ScriptCalls, sent <- SentCalls, received <- ReceivedCalls

(* A stream of whole packets and UTF-8 text is a channel of status() calls: *)
(* each arrives once, in the order of the stream, and arrives though        *)
(* nothing follows it, whatever text is around it and however the bytes     *)
(* come.                                                                    *)
IsChannel == Channel!Spec
=============================================================================
