-------------------------------- MODULE Utf8 --------------------------------
(***************************************************************************)
(* The UTF-8 codecs of Python's standard library as v2.py uses them:       *)
(* codecs.lookup('utf8').incrementaldecoder(), fed one byte at a time by   *)
(* ByteStreamToStreamResult.run, and codecs.utf_8_decode, given a whole    *)
(* field by _read_utf8.                                                    *)
(***************************************************************************)
EXTENDS Integers, Sequences

Byte == 0..255

(* How many bytes the character that starts with byte b has; 0 when no     *)
(* character starts with b.                                                *)
CharLength(b) ==
    CASE b < 128         -> 1
      [] b \in 194..223  -> 2
      [] b \in 224..239  -> 3
      [] b \in 240..244  -> 4
      [] OTHER           -> 0

Continuation == 128..191

(* The bytes that may follow the first byte of a character: overlong forms  *)
(* and code points above 10FFFF are refused at the second byte, surrogates  *)
(* only at the third.                                                       *)
SecondByte(lead) ==
    CASE lead = 224 -> 160..191
      [] lead = 240 -> 144..191
      [] lead = 244 -> 128..143
      [] OTHER      -> Continuation

Surrogate(pending) == pending[1] = 237 /\ pending[2] >= 160

(* The bytes that may follow the bytes of an unfinished character.          *)
Follows(pending) ==
    CASE pending = <<>>     -> (0..127) \cup (194..244)
      [] Len(pending) = 1   -> SecondByte(pending[1])
      [] Surrogate(pending) -> {}
      [] OTHER              -> Continuation

(* One call of the incremental decoder with a single byte: the bytes it     *)
(* holds afterwards and what it answered. A byte that cannot follow raises  *)
(* UnicodeDecodeError and leaves the decoder's buffer as it was.            *)
Feed(pending, b) ==
    LET held == Append(pending, b)
    IN  IF b \notin Follows(pending)
          THEN [pending |-> pending, answer |-> "error"]
        ELSE IF Len(held) < CharLength(held[1])
          THEN [pending |-> held, answer |-> "more"]
        ELSE [pending |-> <<>>, answer |-> "char"]

(* Whether utf_8_decode accepts the whole of s and decodes all of it.       *)
WellFormed(s) ==
    LET state[i \in 0..Len(s)] ==
          IF i = 0 THEN [pending |-> <<>>, answer |-> "char"]
          ELSE LET before == state[i - 1]
               IN  IF before.answer = "error" THEN before
                   ELSE Feed(before.pending, s[i])
    IN  state[Len(s)].answer = "char"
=============================================================================
