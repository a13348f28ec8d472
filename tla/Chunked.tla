------------------------------ MODULE Chunked -------------------------------
(***************************************************************************)
(* The HTTP chunked coding of chunked.py, which carries the contents of    *)
(* multipart details: an Encoder that writes a content to a stream, into   *)
(* which the program under test may print as well, and a Decoder that is   *)
(* given the stream in pieces, or line by line as details.py does it. The  *)
(* bytes are the characters that matter: hex digits, CR, LF, and others.   *)
(***************************************************************************)
EXTENDS Sequences, Integers, SequencesExt

CONSTANTS
    Texts,          \* what one write to the encoder may write
    MaxWrites,      \* how many of them there are
    MaxBuffered,    \* where the encoder stops buffering, 65536 in write
    Rest,           \* what follows the chunks in the stream
    Interruptions,  \* what the program under test may print once
    PieceSizes      \* how many bytes the decoder may be given at a time

CR == "\r"
LF == "\n"
Digits == <<"0", "1", "2", "3", "4", "5", "6", "7", "8", "9", "A", "B", "C", "D", "E", "F">>
Lower == <<"a", "b", "c", "d", "e", "f">>

Match == ToSet(Digits) \cup ToSet(Lower) \cup {CR, LF}
Streams == Texts \cup Interruptions \cup {Rest}
Char == Match \cup UNION {ToSet(text) : text \in Streams}

VARIABLES
    written, writes,    \* history: the content, and in how many writes it came
    encoding,           \* the encoder's buffered_bytes; buffer_size is its length
    closed,             \* whether the encoder was closed
    mixed,              \* whether the program under test has printed
    wire, end,          \* the stream, and where in it the chunks end
    given,              \* how much of it the decoder was given
    by,                 \* "piece" or "line": how it is given
    strict,
    pc,                 \* whether write() of the decoder is "idle", "running" or has "raised"
    state, buffered_bytes, body_length,
    output, residue     \* what the decoder wrote, and what it returned
encoderVars == <<written, writes, encoding, closed, mixed, wire, end>>
decoderVars == <<pc, state, buffered_bytes, body_length, output, residue>>
vars == <<encoderVars, decoderVars, given, by, strict>>

ASSUME BoundsAssumption ==
    /\ MaxWrites \in Nat /\ MaxBuffered \in Nat \ {0}
    /\ PieceSizes \subseteq Nat \ {0}
    /\ Streams \subseteq Seq(Char)

Init ==
    /\ written = <<>> /\ writes = 0 /\ encoding = <<>> /\ closed = FALSE /\ mixed = FALSE
    /\ wire = <<>> /\ end = 0 /\ given = 0
    /\ by \in {"piece", "line"} /\ strict \in BOOLEAN
    /\ pc = "idle" /\ state = "length" /\ buffered_bytes = <<>> /\ body_length = 0
    /\ output = <<>> /\ residue = <<>>

-----------------------------------------------------------------------------
(* The encoder.                                                             *)

(* "%X\r\n" % n                                                             *)
ChunkHeader(n) ==
    LET hex[i \in 0..n] == (IF i < 16 THEN <<>> ELSE hex[i \div 16]) \o <<Digits[(i % 16) + 1]>>
    IN  hex[n] \o <<CR, LF>>

(* Mutant of Flush: the chunk is as long as the buffer alone.               *)
FlushShort(extra_len) ==
    IF encoding = <<>> /\ extra_len = 0 THEN <<>>
    ELSE ChunkHeader(Len(encoding)) \o encoding

(* What flush writes: the header of a chunk and all of it but its last      *)
(* extra_len bytes.                                                         *)
Flush(extra_len) ==
    IF encoding = <<>> /\ extra_len = 0 THEN <<>>
    ELSE ChunkHeader(Len(encoding) + extra_len) \o encoding

Write(text) ==
    /\ ~closed /\ writes < MaxWrites
    /\ writes' = writes + 1 /\ written' = written \o text
    /\ IF Len(encoding) + Len(text) >= MaxBuffered
         THEN /\ wire' = wire \o Flush(Len(text)) \o text
              /\ encoding' = <<>>
         ELSE encoding' = encoding \o text /\ UNCHANGED wire
    /\ UNCHANGED <<closed, mixed, end, decoderVars, given, by, strict>>

(* The writer goes on with what follows.                                    *)
Close ==
    /\ ~closed /\ closed' = TRUE
    /\ encoding' = <<>>
    /\ LET chunks == wire \o Flush(0) \o <<"0", CR, LF>>
       IN  wire' = chunks \o Rest /\ end' = Len(chunks)
    /\ UNCHANGED <<written, writes, mixed, decoderVars, given, by, strict>>

Interrupt(text) ==
    /\ ~closed /\ ~mixed /\ mixed' = TRUE
    /\ wire' = wire \o text
    /\ UNCHANGED <<written, writes, encoding, closed, end, decoderVars, given, by, strict>>

-----------------------------------------------------------------------------
(* The decoder. A call of write is a chain of calls of self.state().        *)

(* The next n bytes: a piece of the stream, or the line that is there.      *)
Piece(n) == SubSeq(wire, given + 1, given + n)
IsPiece(n) ==
    /\ given + n <= Len(wire)
    /\ IF by = "piece" THEN n \in PieceSizes
       ELSE /\ state # "finished"
            /\ Piece(n)[n] = LF /\ \A i \in 1..n - 1 : Piece(n)[i] # LF

(* The decoder's write. details.py gives a decoder nothing once it has      *)
(* returned something.                                                      *)
Feed(n) ==
    /\ pc = "idle" /\ IsPiece(n)
    /\ pc' = "running"
    /\ buffered_bytes' = Append(buffered_bytes, Piece(n)) /\ given' = given + n
    /\ UNCHANGED <<encoderVars, state, body_length, output, residue, by, strict>>

(* The characters of a piece up to the first that is none of a header's, or *)
(* up to the first LF. The two `break`s leave the loop over one piece only. *)
Counted(piece) ==
    LET ends == {i \in DOMAIN piece : piece[i] \notin Match \/ piece[i] = LF}
        first == CHOOSE i \in ends : \A j \in ends : i <= j
    IN  IF ends = {} THEN piece
        ELSE SubSeq(piece, 1, IF piece[first] = LF THEN first ELSE first - 1)

(* Mutant of Drop: the piece the header ends in goes as a whole.            *)
DropPieces(pieces, n) ==
    LET upto(i) == Len(FlattenSeq(SubSeq(pieces, 1, i)))
        left == {i \in DOMAIN pieces : upto(i - 1) >= n}
    IN  IF left = {} THEN <<>> ELSE SubSeq(pieces, Min(left), Len(pieces))

(* The pieces without their first n bytes.                                  *)
Drop(pieces, n) ==
    LET upto(i) == Len(FlattenSeq(SubSeq(pieces, 1, i)))
        left == {i \in DOMAIN pieces : upto(i) > n}
        first == Min(left)
    IN  IF left = {} THEN <<>>
        ELSE <<SubSeq(pieces[first], n - upto(first - 1) + 1, Len(pieces[first]))>>
               \o SubSeq(pieces, first + 1, Len(pieces))

(* int(char, 16)                                                            *)
Worth(char) == CHOOSE d \in 0..15 : char = Digits[d + 1] \/ (d > 9 /\ char = Lower[d - 9])

(* int(s.rstrip('\n\r'), 16), which strips the CRs and LFs in front as      *)
(* well; -1 when it raises ValueError.                                      *)
Hex(s) ==
    LET digits == {i \in DOMAIN s : s[i] \notin {CR, LF}}
        value[i \in 0..Len(s)] ==
          IF i = 0 THEN 0 ELSE IF i \notin digits THEN value[i - 1]
          ELSE value[i - 1] * 16 + Worth(s[i])
        inside == \E i \in DOMAIN s \ digits : \E j, k \in digits : j < i /\ i < k
    IN  IF digits = {} \/ inside THEN -1 ELSE value[Len(s)]

(* The length in a header; -1 when it raises.                               *)
HeaderLength(header) ==
    LET n == Len(header)
    IN  IF strict /\ (n < 2 \/ header[n - 1] # CR \/ CR \in {header[i] : i \in 1..n - 2})
          THEN -1 ELSE Hex(header)

ReadLength ==
    /\ pc = "running" /\ state = "length"
    /\ \E header \in {FlattenSeq([i \in DOMAIN buffered_bytes |-> Counted(buffered_bytes[i])])} :
         IF header = <<>> \/ header[Len(header)] # LF
           THEN pc' = "idle" /\ UNCHANGED <<state, buffered_bytes, body_length>>
         ELSE \E length \in {HeaderLength(header)} :
           IF length = -1
             THEN pc' = "raised" /\ UNCHANGED <<state, buffered_bytes, body_length>>
           ELSE /\ body_length' = length
                /\ buffered_bytes' = Drop(buffered_bytes, Len(header))
                /\ state' = IF length = 0 THEN "finished" ELSE "body"
                /\ pc' = IF length = 0 /\ buffered_bytes' = <<>> THEN "idle" ELSE "running"
    /\ UNCHANGED <<encoderVars, output, residue, given, by, strict>>

(* Mutant of ReadBody: after a chunk that ends inside a piece the length    *)
(* left to read is kept.                                                    *)
ReadBodyKeepLength ==
    /\ pc = "running" /\ state = "body"
    /\ IF buffered_bytes = <<>>
         THEN pc' = "idle" /\ UNCHANGED <<state, buffered_bytes, body_length, output>>
       ELSE LET piece == Head(buffered_bytes)
            IN  IF body_length >= Len(piece)
                  THEN /\ output' = output \o piece
                       /\ body_length' = body_length - Len(piece)
                       /\ buffered_bytes' = Tail(buffered_bytes)
                       /\ UNCHANGED <<state, pc>>
                ELSE /\ output' = output \o SubSeq(piece, 1, body_length)
                     /\ buffered_bytes' =
                          <<SubSeq(piece, body_length + 1, Len(piece))>> \o Tail(buffered_bytes)
                     /\ body_length' = 0
                     /\ state' = "length" /\ pc' = "running"
    /\ UNCHANGED <<encoderVars, residue, given, by, strict>>

(* One turn of the loop of _read_body. When a chunk ends with a piece, the  *)
(* pieces after it wait for the next write.                                 *)
ReadBody ==
    /\ pc = "running" /\ state = "body"
    /\ IF buffered_bytes = <<>>
         THEN pc' = "idle" /\ UNCHANGED <<state, buffered_bytes, body_length, output>>
       ELSE LET piece == Head(buffered_bytes)
            IN  IF body_length >= Len(piece)
                  THEN /\ output' = output \o piece
                       /\ body_length' = body_length - Len(piece)
                       /\ buffered_bytes' = Tail(buffered_bytes)
                       /\ IF body_length' = 0 THEN state' = "length" /\ pc' = "idle"
                          ELSE UNCHANGED <<state, pc>>
                ELSE /\ output' = output \o SubSeq(piece, 1, body_length)
                     /\ buffered_bytes' =
                          <<SubSeq(piece, body_length + 1, Len(piece))>> \o Tail(buffered_bytes)
                     /\ body_length' = 0
                     /\ state' = "length" /\ UNCHANGED pc
    /\ UNCHANGED <<encoderVars, residue, given, by, strict>>

Finished ==
    /\ pc = "running" /\ state = "finished"
    /\ residue' = residue \o FlattenSeq(buffered_bytes) /\ buffered_bytes' = <<>>
    /\ pc' = "idle"
    /\ UNCHANGED <<encoderVars, state, body_length, output, given, by, strict>>

Encoding == (\E text \in Texts : Write(text)) \/ Close
Decoding ==
    \/ \E n \in 1..Len(wire) - given : Feed(n)
    \/ ReadLength \/ ReadBody \/ Finished

Next == Encoding \/ Decoding \/ \E text \in Interruptions : Interrupt(text)

(* What is in the stream is read.                                           *)
Spec == Init /\ [][Next]_vars /\ WF_vars(Decoding)

-----------------------------------------------------------------------------
(* Properties.                                                              *)

(* The types of the decoder's state: in a body there is something to read,  *)
(* and no empty piece is kept.                                              *)
TypeOK ==
    /\ pc \in {"idle", "running", "raised"} /\ state \in {"length", "body", "finished"}
    /\ body_length \in Nat /\ given \in 0..Len(wire)
    /\ state = "body" => body_length > 0
    /\ state = "finished" => body_length = 0
    /\ \A i \in DOMAIN buffered_bytes : buffered_bytes[i] # <<>>

(* The decoder returns what follows the content, all of it that it was      *)
(* given and nothing else, however the pieces fall.                         *)
RestIsReturned ==
    ~mixed /\ pc = "idle" /\ state = "finished" =>
      residue = SubSeq(wire, end + 1, given)

(* Unless something is printed in between, the chunks are a pipe for the    *)
(* content, whatever bytes are in it and however the writes and the pieces  *)
(* fall.                                                                    *)
Ended == state = "finished"
Content == INSTANCE Pipe WITH ended <- Ended
IsPipe == Content!Init /\ [][Content!Next \/ mixed']_(Content!vars)

(* And it ends once all of the stream is read.                              *)
EndIsRead == closed ~> Ended \/ mixed

(* details.py: "Line based use always ends on no residue".                  *)
LinesLeaveNothing == by = "line" => residue = <<>>
=============================================================================
