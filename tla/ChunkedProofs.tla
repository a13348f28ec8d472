--------------------------- MODULE ChunkedProofs ----------------------------
(***************************************************************************)
(* For all contents, whatever bytes are in them, all sizes of the writes,  *)
(* of the encoder's buffer and of the pieces: the chunked coding is a pipe *)
(* for the content, and what follows it in the stream is returned.         *)
(***************************************************************************)
EXTENDS Chunked, SequenceTheorems, TLAPS

(* Induction over the numbers, and FlattenSeq.                              *)
Numbers == INSTANCE FoldProofs WITH Step <- \o

-----------------------------------------------------------------------------
(* The length in a header.                                                  *)

Digit == ToSet(Digits) \cup ToSet(Lower)

LEMMA DigitsDiffer ==
    /\ \A i, j \in 1..16 : Digits[i] = Digits[j] => i = j
    /\ \A i, j \in 1..6 : Lower[i] = Lower[j] => i = j
    /\ \A i \in 1..16, j \in 1..6 : Digits[i] # Lower[j]
<1>1. \A i, j \in 1..16 : Digits[i] = Digits[j] => i = j BY DEF Digits
<1>2. \A i, j \in 1..6 : Lower[i] = Lower[j] => i = j BY DEF Lower
<1>3. \A i \in 1..16, j \in 1..6 : Digits[i] # Lower[j] BY DEF Digits, Lower
<1> QED BY <1>1, <1>2, <1>3

LEMMA DigitsAre ==
    /\ Match = Digit \cup {CR, LF} /\ CR \notin Digit /\ LF \notin Digit /\ CR # LF
    /\ Match \subseteq Char
<1>1. ToSet(Digits) = {Digits[i] : i \in 1..16} BY DEF Digits, ToSet
<1>2. ToSet(Lower) = {Lower[i] : i \in 1..6} BY DEF Lower, ToSet
<1>3. \A i \in 1..16 : Digits[i] # CR /\ Digits[i] # LF BY DEF Digits, CR, LF
<1>4. \A i \in 1..6 : Lower[i] # CR /\ Lower[i] # LF BY DEF Lower, CR, LF
<1>5. CR # LF BY DEF CR, LF
<1>6. CR \notin Digit /\ LF \notin Digit BY <1>1, <1>2, <1>3, <1>4 DEF Digit
<1>7. Match = Digit \cup {CR, LF} BY DEF Match, Digit
<1>8. Match \subseteq Char BY DEF Char
<1> QED BY <1>5, <1>6, <1>7, <1>8

LEMMA WorthIs ==
    /\ \A d \in 0..15 : Digits[d + 1] \in Digit /\ Worth(Digits[d + 1]) = d
    /\ \A char \in Digit : Worth(char) \in 0..15
<1> DEFINE Is(char, d) == char = Digits[d + 1] \/ (d > 9 /\ char = Lower[d - 9])
<1>1. ToSet(Digits) = {Digits[i] : i \in 1..16} BY DEF Digits, ToSet
<1>2. ToSet(Lower) = {Lower[i] : i \in 1..6} BY DEF Lower, ToSet
<1>3. ASSUME NEW char, NEW d \in 0..15, Is(char, d)
      PROVE  Worth(char) \in 0..15 /\ Is(char, Worth(char))
  BY <1>3 DEF Worth
<1>4. ASSUME NEW d \in 0..15 PROVE Digits[d + 1] \in Digit /\ Worth(Digits[d + 1]) = d
  <2>1. d + 1 \in 1..16 OBVIOUS
  <2>2. Digits[d + 1] \in Digit BY <1>1, <2>1 DEF Digit
  <2>3. \A e \in 0..15 : Is(Digits[d + 1], e) => e = d
    <3> SUFFICES ASSUME NEW e \in 0..15, Is(Digits[d + 1], e) PROVE e = d OBVIOUS
    <3>1. e + 1 \in 1..16 /\ (e > 9 => e - 9 \in 1..6) OBVIOUS
    <3>2. ~(e > 9 /\ Digits[d + 1] = Lower[e - 9]) BY <2>1, <3>1, DigitsDiffer
    <3>3. e + 1 = d + 1 BY <2>1, <3>1, <3>2, DigitsDiffer
    <3> QED BY <3>3
  <2>4. Is(Digits[d + 1], d) OBVIOUS
  <2> HIDE DEF Is
  <2> QED BY <1>3, <2>2, <2>3, <2>4
<1>5. ASSUME NEW char \in Digit PROVE Worth(char) \in 0..15
  <2>1. CASE char \in ToSet(Digits)
    <3>1. PICK i \in 1..16 : char = Digits[i] BY <1>1, <2>1
    <3>2. i - 1 \in 0..15 /\ (i - 1) + 1 = i OBVIOUS
    <3> QED BY <1>4, <3>1, <3>2
  <2>2. CASE char \in ToSet(Lower)
    <3>1. PICK i \in 1..6 : char = Lower[i] BY <1>2, <2>2
    <3>2. i + 9 \in 0..15 /\ (i + 9) - 9 = i /\ i + 9 > 9 OBVIOUS
    <3>3. Is(char, i + 9) BY <3>1, <3>2
    <3> HIDE DEF Is
    <3> QED BY <1>3, <3>2, <3>3
  <2> QED BY <2>1, <2>2 DEF Digit
<1> QED BY <1>4, <1>5

(* The digits of the numbers up to n.                                       *)
IsHex(hex, n) ==
    hex = [i \in 0..n |-> (IF i < 16 THEN <<>> ELSE hex[i \div 16]) \o <<Digits[(i % 16) + 1]>>]

LEMMA Shorter == \A i \in Nat : /\ i \div 16 \in Nat /\ i % 16 \in 0..15
                               /\ i = (i \div 16) * 16 + (i % 16)
                               /\ (i >= 16 => i \div 16 < i)
                               /\ (i < 16 => i \div 16 = 0)
BY SMT

LEMMA HexExists == ASSUME NEW n \in Nat PROVE \E hex : IsHex(hex, n)
<1> DEFINE A == {m \in Nat : \E hex : IsHex(hex, m)}
           Next16(hex, i) == (IF i < 16 THEN <<>> ELSE hex[i \div 16]) \o <<Digits[(i % 16) + 1]>>
<1>1. 0 \in A
  <2>1. PICK hex : hex = [i \in 0..0 |-> <<>> \o <<Digits[(i % 16) + 1]>>] OBVIOUS
  <2>2. \A i \in 0..0 : i < 16 OBVIOUS
  <2>3. IsHex(hex, 0) BY <2>1, <2>2 DEF IsHex
  <2> QED BY <2>3
<1>2. ASSUME NEW m \in A PROVE m + 1 \in A
  <2>1. m \in Nat OBVIOUS
  <2>2. PICK g : IsHex(g, m) OBVIOUS
  <2> DEFINE h == [i \in 0 .. m + 1 |-> IF i = m + 1 THEN Next16(g, m + 1) ELSE g[i]]
  <2>3. ASSUME NEW i \in 0 .. m + 1 PROVE h[i] = Next16(h, i)
    <3>1. i \in Nat BY <2>1
    <3>2. i >= 16 => i \div 16 \in 0..m /\ i \div 16 # m + 1 /\ i \div 16 \in 0 .. m + 1
      <4>1. PICK k \in Nat : k = i \div 16 /\ (i >= 16 => k < i) BY <3>1, Shorter
      <4> QED BY <2>1, <4>1
    <3>3. i >= 16 => h[i \div 16] = g[i \div 16] BY <3>2
    <3>4. h[i] = Next16(g, i)
      <4>1. CASE i = m + 1 BY <4>1
      <4>2. CASE i # m + 1
        <5>1. i \in 0..m BY <2>1, <4>2
        <5>2. h[i] = g[i] BY <4>2
        <5>3. g[i] = Next16(g, i) BY <2>2, <5>1 DEF IsHex
        <5> QED BY <5>2, <5>3
      <4> QED BY <4>1, <4>2
    <3> HIDE DEF h
    <3>5. CASE i < 16 BY <3>4, <3>5
    <3>6. CASE ~(i < 16)
      <4>1. i >= 16 BY <3>1, <3>6
      <4> QED BY <3>3, <3>4, <4>1
    <3> QED BY <3>5, <3>6
  <2>4. h = [i \in 0 .. m + 1 |-> h[i]] OBVIOUS
  <2> HIDE DEF h
  <2>5. h = [i \in 0 .. m + 1 |-> Next16(h, i)] BY <2>3, <2>4, Zenon
  <2>6. IsHex(h, m + 1) BY <2>5, Zenon DEF IsHex
  <2> QED BY <2>1, <2>6
<1>3. A \in SUBSET Nat OBVIOUS
<1>4. A = Nat
  <2> HIDE DEF A
  <2> QED BY <1>1, <1>2, <1>3, Numbers!Inductive
<1> QED BY <1>4

LEMMA HeaderIs ==
  ASSUME NEW n \in Nat
  PROVE  \E hex : IsHex(hex, n) /\ ChunkHeader(n) = hex[n] \o <<CR, LF>>
<1>1. PICK hex : hex = CHOOSE h : h = [i \in 0..n |->
          (IF i < 16 THEN <<>> ELSE h[i \div 16]) \o <<Digits[(i % 16) + 1]>>]
  OBVIOUS
<1>2. ChunkHeader(n) = hex[n] \o <<CR, LF>> BY <1>1, Zenon DEF ChunkHeader
<1>3. IsHex(hex, n)
  <2>1. \E h : h = [i \in 0..n |->
          (IF i < 16 THEN <<>> ELSE h[i \div 16]) \o <<Digits[(i % 16) + 1]>>]
    BY HexExists, Zenon DEF IsHex
  <2> QED BY <1>1, <2>1, Zenon DEF IsHex
<1> QED BY <1>2, <1>3

(* What a sequence of digits is worth, up to each of them.                  *)
Values(value, s, n) ==
    value[0] = 0 /\ \A i \in 1..n : value[i] = value[i - 1] * 16 + Worth(s[i])

(* The digits of a number are worth the number.                             *)
LEMMA HexIs ==
  ASSUME NEW n \in Nat, NEW hex, IsHex(hex, n)
  PROVE  /\ hex[n] \in Seq(Digit) /\ hex[n] # <<>>
         /\ \A value : Values(value, hex[n], Len(hex[n])) => value[Len(hex[n])] = n
<1> DEFINE Good(i) ==
             /\ hex[i] \in Seq(Digit) /\ Len(hex[i]) >= 1
             /\ \A value : Values(value, hex[i], Len(hex[i])) => value[Len(hex[i])] = i
           A == {m \in Nat : \A i \in 0..n : i <= m => Good(i)}
<1>1. ASSUME NEW i \in 0..n, i >= 16 => Good(i \div 16) PROVE Good(i)
  <2>1. i \in Nat OBVIOUS
  <2>2. PICK r \in 0..15 : r = i % 16 BY <2>1, Shorter
  <2>3. PICK q \in Nat : q = i \div 16 /\ i = q * 16 + r BY <2>1, <2>2, Shorter
  <2>4. PICK c \in Digit : c = Digits[r + 1] /\ Worth(c) = r BY WorthIs
  <2>5. PICK before : before = IF i < 16 THEN <<>> ELSE hex[q] OBVIOUS
  <2>6. hex[i] = before \o <<c>>
    <3>1. hex[i] = (IF i < 16 THEN <<>> ELSE hex[i \div 16]) \o <<Digits[(i % 16) + 1]>>
      BY DEF IsHex
    <3> QED BY <2>2, <2>3, <2>4, <2>5, <3>1
  <2>7. before \in Seq(Digit)
    <3>1. CASE i < 16 BY <2>5, <3>1
    <3>2. CASE ~(i < 16)
      <4>1. Good(q) BY <1>1, <2>1, <2>3, <3>2
      <4> QED BY <2>5, <3>2, <4>1
    <3> QED BY <3>1, <3>2
  <2>8. PICK l \in Nat : l = Len(before) BY <2>7
  <2>9. PICK s : s = hex[i] OBVIOUS
  <2>10. /\ s \in Seq(Digit) /\ Len(s) = l + 1 /\ s[l + 1] = c
         /\ \A j \in 1..l : s[j] = before[j]
    BY <2>6, <2>7, <2>8, <2>9
  <2>11. ASSUME NEW value, Values(value, s, l + 1) PROVE value[l + 1] = i
    <3>1. Values(value, before, l)
      <4>1. value[0] = 0 BY <2>11 DEF Values
      <4>2. ASSUME NEW j \in 1..l PROVE value[j] = value[j - 1] * 16 + Worth(before[j])
        <5>1. j \in 1 .. l + 1 OBVIOUS
        <5>2. value[j] = value[j - 1] * 16 + Worth(s[j]) BY <2>11, <5>1 DEF Values
        <5> QED BY <2>10, <5>2
      <4> QED BY <4>1, <4>2 DEF Values
    <3>2. value[l] = q
      <4>1. CASE i < 16
        <5>1. l = 0 BY <2>5, <2>8, <4>1
        <5>2. q = 0 BY <2>2, <2>3, <4>1
        <5> QED BY <3>1, <5>1, <5>2 DEF Values
      <4>2. CASE ~(i < 16)
        <5>1. before = hex[q] /\ Good(q) BY <1>1, <2>1, <2>3, <2>5, <4>2
        <5> QED BY <2>8, <3>1, <5>1
      <4> QED BY <4>1, <4>2
    <3>3. l + 1 \in 1 .. l + 1 /\ (l + 1) - 1 = l OBVIOUS
    <3>4. value[l + 1] = value[l] * 16 + Worth(c)
      <4>1. PICK k \in 1 .. l + 1 : k = l + 1 BY <3>3
      <4>2. value[k] = value[k - 1] * 16 + Worth(s[k]) BY <2>11 DEF Values
      <4> QED BY <2>10, <3>3, <4>1, <4>2
    <3> QED BY <2>3, <2>4, <3>2, <3>4
  <2> QED BY <2>9, <2>10, <2>11
<1> HIDE DEF Good
<1>2. 0 \in A
  <2>1. Good(0) BY <1>1
  <2> QED BY <2>1
<1>3. ASSUME NEW m \in A PROVE m + 1 \in A
  <2> SUFFICES ASSUME NEW i \in 0..n, i <= m + 1 PROVE Good(i) OBVIOUS
  <2>1. m \in Nat /\ i \in Nat OBVIOUS
  <2>2. PICK q \in Nat : q = i \div 16 /\ (i >= 16 => q < i) BY <2>1, Shorter
  <2>3. ASSUME i >= 16 PROVE Good(q)
    <3>1. q \in 0..n /\ q <= m BY <2>1, <2>2, <2>3
    <3> QED BY <3>1
  <2> QED BY <1>1, <2>2, <2>3
<1>4. A \in SUBSET Nat OBVIOUS
<1>5. A = Nat
  <2> HIDE DEF A
  <2> QED BY <1>2, <1>3, <1>4, Numbers!Inductive
<1>6. Good(n)
  <2>1. n \in A BY <1>5
  <2> QED BY <2>1
<1> QED BY <1>6 DEF Good

(* int(s.rstrip('\n\r'), 16), one digit after the other.                    *)
Counts(s) == {i \in DOMAIN s : s[i] \notin {CR, LF}}
Between(s) == \E i \in DOMAIN s \ Counts(s) : \E j, k \in Counts(s) : j < i /\ i < k
Sums(value, s) ==
    /\ value[0] = 0
    /\ \A i \in 1..Len(s) :
         value[i] = IF i \notin Counts(s) THEN value[i - 1] ELSE value[i - 1] * 16 + Worth(s[i])

LEMMA HexBy ==
  ASSUME NEW s \in Seq(Match)
  PROVE  \E value : /\ Sums(value, s) /\ \A i \in 0..Len(s) : value[i] \in Nat
                    /\ Hex(s) = IF Counts(s) = {} \/ Between(s) THEN -1 ELSE value[Len(s)]
<1> DEFINE n == Len(s)
           step == [i \in 1..n |-> [v \in Nat |->
                      IF i \notin Counts(s) THEN v ELSE v * 16 + Worth(s[i])]]
           Sums16(v) == [i \in 0..n |->
                        IF i = 0 THEN 0 ELSE IF i \notin Counts(s) THEN v[i - 1]
                        ELSE v[i - 1] * 16 + Worth(s[i])]
<1>1. n \in Nat /\ DOMAIN s = 1..n OBVIOUS
<1>2. \A i \in 1..n : i \in Counts(s) => Worth(s[i]) \in Nat
  <2> SUFFICES ASSUME NEW i \in 1..n, i \in Counts(s) PROVE Worth(s[i]) \in Nat OBVIOUS
  <2>1. s[i] \in Match /\ s[i] \notin {CR, LF} BY DEF Counts
  <2>2. s[i] \in Digit BY <2>1, DigitsAre
  <2>3. Worth(s[i]) \in 0..15 BY <2>2, WorthIs
  <2> QED BY <2>3
<1>3. step \in Numbers!Steps(Nat, n)
  <2>1. \A i \in 1..n : \A v \in Nat :
          (IF i \notin Counts(s) THEN v ELSE v * 16 + Worth(s[i])) \in Nat
    BY <1>2
  <2> QED BY <2>1 DEF Numbers!Steps
<1> HIDE DEF n
<1>4. PICK f : f \in [0..n -> Nat] /\ f[0] = 0 /\ \A i \in 1..n : f[i] = step[i][f[i - 1]]
  <2>1. \E f : Numbers!Recurs(f, Nat, 0, n, step)
    <3> HIDE DEF step
    <3> QED BY <1>1, <1>3, Numbers!Recursion
  <2> QED BY <2>1 DEF Numbers!Recurs
<1>5. f = Sums16(f)
  <2>1. ASSUME NEW i \in 0..n
        PROVE  f[i] = IF i = 0 THEN 0 ELSE IF i \notin Counts(s) THEN f[i - 1]
                      ELSE f[i - 1] * 16 + Worth(s[i])
    <3>1. CASE i = 0 BY <1>4, <3>1
    <3>2. CASE i # 0
      <4>1. i \in 1..n /\ i - 1 \in 0..n BY <1>1, <3>2
      <4>2. f[i - 1] \in Nat BY <1>4, <4>1
      <4>3. f[i] = step[i][f[i - 1]] BY <1>4, <4>1
      <4> QED BY <3>2, <4>1, <4>2, <4>3
    <3> QED BY <3>1, <3>2
  <2>2. f = [i \in 0..n |-> f[i]] BY <1>4
  <2> HIDE DEF step
  <2> QED BY <2>1, <2>2
<1>6. PICK value : value = CHOOSE v : v = Sums16(v) OBVIOUS
<1>7. value = Sums16(value)
  <2> HIDE DEF Sums16
  <2> QED BY <1>5, <1>6, Zenon
<1>8. Hex(s) = IF Counts(s) = {} \/ Between(s) THEN -1 ELSE value[n]
  <2>1. Hex(s) = IF Counts(s) = {} \/ Between(s) THEN -1 ELSE (CHOOSE v : v = Sums16(v))[n]
    BY Zenon DEF Hex, Counts, Between, n
  <2> QED BY <1>6, <2>1
<1>9. Sums(value, s)
  <2>1. value[0] = 0
    <3>1. 0 \in 0..n BY <1>1
    <3> QED BY <1>7, <3>1, Zenon
  <2>2. ASSUME NEW i \in 1..n
        PROVE  value[i] = IF i \notin Counts(s) THEN value[i - 1]
                          ELSE value[i - 1] * 16 + Worth(s[i])
    <3>1. i \in 0..n /\ i # 0 BY <1>1
    <3> QED BY <1>7, <3>1, Zenon
  <2> QED BY <2>1, <2>2 DEF Sums, n
<1>10. ASSUME NEW k \in 0..n PROVE value[k] \in Nat
  <2> DEFINE A == {i \in Nat : value[i] \in Nat}
  <2>1. 0 \in A BY <1>9 DEF Sums
  <2>2. ASSUME NEW i \in 1..k, i - 1 \in A PROVE i \in A
    <3>1. i \in 1..n /\ value[i - 1] \in Nat BY <1>1, <2>2
    <3>2. value[i] \in Nat BY <1>2, <1>9, <3>1 DEF Sums, n
    <3> QED BY <3>2
  <2>3. k \in Nat BY <1>1
  <2>4. k \in A
    <3> HIDE DEF A
    <3> QED BY <2>1, <2>2, <2>3, Numbers!Upto
  <2> QED BY <2>4
<1> QED BY <1>8, <1>9, <1>10 DEF n

LEMMA HexType == ASSUME NEW s \in Seq(Match) PROVE Hex(s) = -1 \/ Hex(s) \in Nat
<1>1. Len(s) \in 0..Len(s) OBVIOUS
<1> QED BY <1>1, HexBy

(* The header of a chunk: digits, CR and LF; and its length is read back,   *)
(* strict or not.                                                           *)
LEMMA HeaderReads ==
  ASSUME NEW n \in Nat
  PROVE  \E l \in Nat \ {0} :
           /\ ChunkHeader(n) \in Seq(Match) /\ Len(ChunkHeader(n)) = l + 2
           /\ \A i \in 1 .. l + 1 : ChunkHeader(n)[i] \in Match \ {LF}
           /\ ChunkHeader(n)[l + 2] = LF
           /\ HeaderLength(ChunkHeader(n)) = n
<1>1. PICK hex : IsHex(hex, n) /\ ChunkHeader(n) = hex[n] \o <<CR, LF>> BY HeaderIs
<1>2. PICK h : h = hex[n] OBVIOUS
<1>3. /\ h \in Seq(Digit) /\ h # <<>>
      /\ \A value : Values(value, h, Len(h)) => value[Len(h)] = n
  BY <1>1, <1>2, HexIs
<1>4. PICK l \in Nat \ {0} : l = Len(h) BY <1>3
<1>5. PICK s : s = ChunkHeader(n) OBVIOUS
<1>6. /\ \A c \in Digit : c \in Match /\ c \notin {CR, LF}
      /\ CR \in Match /\ LF \in Match /\ CR # LF
  BY DigitsAre
<1>7. \A i \in 1..l : h[i] \in Digit BY <1>3, <1>4
<1>8. /\ s \in Seq(Match) /\ Len(s) = l + 2 /\ \A i \in 1..l : s[i] = h[i]
      /\ s[l + 1] = CR /\ s[l + 2] = LF
  <2>1. PICK e : e = <<CR, LF>> OBVIOUS
  <2>2. e \in Seq(Match) /\ Len(e) = 2 /\ e[1] = CR /\ e[2] = LF BY <1>6, <2>1
  <2>3. h \in Seq(Match) BY <1>3, <1>6
  <2>4. s = h \o e BY <1>1, <1>2, <1>5, <2>1
  <2>5. /\ s \in Seq(Match) /\ Len(s) = l + 2
        /\ \A i \in 1 .. l + 2 : s[i] = IF i <= l THEN h[i] ELSE e[i - l]
    <3>1. /\ h \o e \in Seq(Match) /\ Len(h \o e) = Len(h) + Len(e)
          /\ \A i \in 1 .. Len(h) + Len(e) :
               (h \o e)[i] = IF i <= Len(h) THEN h[i] ELSE e[i - Len(h)]
      BY <2>2, <2>3, ConcatProperties
    <3> QED BY <1>4, <2>2, <2>4, <3>1
  <2>6. l + 1 \in 1 .. l + 2 /\ l + 2 \in 1 .. l + 2 /\ (l + 1) - l = 1 /\ (l + 2) - l = 2
    OBVIOUS
  <2>7. s[l + 1] = CR /\ s[l + 2] = LF
    <3>1. ~(l + 1 <= l) /\ ~(l + 2 <= l) OBVIOUS
    <3>2. s[l + 1] = e[(l + 1) - l] /\ s[l + 2] = e[(l + 2) - l] BY <2>5, <2>6, <3>1
    <3> QED BY <2>2, <2>6, <3>2
  <2>8. \A i \in 1..l : s[i] = h[i] BY <2>5
  <2> QED BY <2>5, <2>7, <2>8
<1>9. DOMAIN s = 1 .. l + 2 BY <1>8
<1>10. \A i \in 1..l : s[i] \in Digit BY <1>7, <1>8
<1>11. Counts(s) = 1..l
  <2>1. \A i \in 1..l : i \in DOMAIN s /\ s[i] \notin {CR, LF} BY <1>6, <1>9, <1>10
  <2>2. ASSUME NEW i \in DOMAIN s, i \notin 1..l PROVE s[i] \in {CR, LF}
    <3>1. i = l + 1 \/ i = l + 2 BY <1>9, <2>2
    <3> QED BY <1>8, <3>1
  <2> QED BY <2>1, <2>2 DEF Counts
<1>12. ~Between(s)
  <2> SUFFICES ASSUME NEW i \in DOMAIN s \ Counts(s), NEW k \in Counts(s), i < k PROVE FALSE
    BY DEF Between
  <2> QED BY <1>9, <1>11
<1>13. PICK value : Sums(value, s) /\ Hex(s) = value[Len(s)]
  <2>1. Counts(s) # {}
    <3>1. l \in 1..l OBVIOUS
    <3> QED BY <1>11, <3>1
  <2> QED BY <1>8, <1>12, <2>1, HexBy
<1>14. value[l + 2] = value[l]
  <2>1. /\ \A i \in 1 .. l + 2 : i \notin Counts(s) => value[i] = value[i - 1]
    BY <1>8, <1>13 DEF Sums
  <2>2. /\ l + 2 \in 1 .. l + 2 /\ l + 2 \notin Counts(s) /\ (l + 2) - 1 = l + 1
        /\ l + 1 \in 1 .. l + 2 /\ l + 1 \notin Counts(s) /\ (l + 1) - 1 = l
    BY <1>11
  <2>3. value[l + 2] = value[(l + 2) - 1] BY <2>1, <2>2
  <2>4. value[l + 1] = value[(l + 1) - 1] BY <2>1, <2>2
  <2> QED BY <2>2, <2>3, <2>4
<1>15. Values(value, h, l)
  <2>1. ASSUME NEW i \in 1..l PROVE value[i] = value[i - 1] * 16 + Worth(h[i])
    <3>1. i \in 1..Len(s) /\ i \in Counts(s) /\ s[i] = h[i] BY <1>8, <1>11
    <3> QED BY <1>13, <3>1 DEF Sums
  <2> QED BY <1>13, <2>1 DEF Sums, Values
<1>16. Hex(s) = n BY <1>3, <1>4, <1>8, <1>13, <1>14, <1>15
<1>17. HeaderLength(s) = Hex(s)
  <2>1. Len(s) >= 2 /\ s[Len(s) - 1] = CR
    <3>1. Len(s) - 1 = l + 1 BY <1>8
    <3> QED BY <1>8, <3>1
  <2>2. CR \notin {s[i] : i \in 1 .. Len(s) - 2}
    <3>1. Len(s) - 2 = l BY <1>8
    <3> QED BY <1>6, <1>10, <3>1
  <2> QED BY <1>8, <2>1, <2>2 DEF HeaderLength
<1>18. \A i \in 1 .. l + 1 : s[i] \in Match \ {LF}
  <2> SUFFICES ASSUME NEW i \in 1 .. l + 1 PROVE s[i] \in Match \ {LF} OBVIOUS
  <2>1. i \in 1..l \/ i = l + 1 OBVIOUS
  <2> QED BY <1>6, <1>8, <1>10, <2>1
<1> QED BY <1>5, <1>8, <1>16, <1>17, <1>18

-----------------------------------------------------------------------------
(* Pieces.                                                                  *)

LEMMA FlattenSeqIs == ASSUME NEW parts PROVE FlattenSeq(parts) = Numbers!FlattenSeq(parts)
BY Zenon DEF FlattenSeq, Numbers!FlattenSeq

(* What the first pieces are together, for any number of them.              *)
LEMMA Together ==
  ASSUME NEW S, NEW parts \in Seq(Seq(S))
  PROVE  \E joined \in [0..Len(parts) -> Seq(S)] :
           /\ joined[0] = <<>>
           /\ \A i \in 1..Len(parts) : joined[i] = joined[i - 1] \o parts[i]
           /\ \A k \in 0..Len(parts) : FlattenSeq(SubSeq(parts, 1, k)) = joined[k]
<1> DEFINE X == Seq(S)
           n == Len(parts)
<1>1. n \in Nat /\ parts \in Seq(X) OBVIOUS
<1> HIDE DEF X, n
<1>2. PICK joined : /\ joined \in [0..n -> X] /\ joined[0] = <<>>
                    /\ \A i \in 1..n : joined[i] = joined[i - 1] \o parts[i]
  <2>1. \E joined : Numbers!IsJoin(S, parts, joined) BY Numbers!Flattened
  <2> QED BY <2>1 DEF Numbers!IsJoin, X, n
<1>3. ASSUME NEW k \in 0..n PROVE FlattenSeq(SubSeq(parts, 1, k)) = joined[k]
  <2>1. PICK some : some = SubSeq(parts, 1, k) OBVIOUS
  <2>2. /\ some \in Seq(X) /\ Len(some) = k
        /\ \A i \in 1..k : some[i] = parts[i] /\ i \in 1..n
    <3>1. 1 \in Int /\ k \in Int /\ k \in Nat /\ Len(parts) = n BY <1>1 DEF n
    <3>2. \A i \in 1..k : i \in 1..n BY <1>1
    <3>3. \A i \in 1..k : parts[i] \in X BY <1>1, <3>2 DEF n
    <3>4. some \in Seq(X) /\ Len(some) = k /\ \A i \in 1..k : some[i] = parts[1 + i - 1]
      BY <2>1, <1>1, <3>1, <3>3, SubSeqProperties
    <3>5. \A i \in 1..k : 1 + i - 1 = i OBVIOUS
    <3> QED BY <3>2, <3>4, <3>5
  <2>3. PICK f : Numbers!IsJoin(S, some, f) /\ Numbers!FlattenSeq(some) = f[k]
    BY <2>2, Numbers!Flattened DEF X
  <2>4. f[0] = <<>> /\ \A i \in 1..k : f[i] = f[i - 1] \o some[i]
    BY <2>2, <2>3 DEF Numbers!IsJoin
  <2> DEFINE A == {i \in Nat : f[i] = joined[i]}
  <2>5. 0 \in A BY <1>2, <2>4
  <2>6. ASSUME NEW i \in 1..k, i - 1 \in A PROVE i \in A
    <3>1. f[i - 1] = joined[i - 1] BY <2>6
    <3>2. f[i] = f[i - 1] \o some[i] /\ joined[i] = joined[i - 1] \o parts[i]
      BY <1>2, <2>2, <2>4
    <3>3. some[i] = parts[i] BY <2>2
    <3>4. f[i] = joined[i] BY <3>1, <3>2, <3>3, Zenon
    <3> QED BY <3>4
  <2>7. k \in Nat BY <1>1
  <2>8. k \in A
    <3> HIDE DEF A
    <3> QED BY <2>5, <2>6, <2>7, Numbers!Upto
  <2> QED BY <2>1, <2>3, <2>8, FlattenSeqIs
<1> QED BY <1>2, <1>3 DEF X, n

LEMMA AllOfThem ==
  ASSUME NEW S, NEW s \in Seq(S) PROVE SubSeq(s, 1, Len(s)) = s
BY SubSeqProperties

LEMMA FlattenType ==
  ASSUME NEW S, NEW parts \in Seq(Seq(S)) PROVE FlattenSeq(parts) \in Seq(S)
<1>1. PICK joined \in [0..Len(parts) -> Seq(S)] :
        \A k \in 0..Len(parts) : FlattenSeq(SubSeq(parts, 1, k)) = joined[k]
  BY Together
<1>2. Len(parts) \in 0..Len(parts) OBVIOUS
<1>3. SubSeq(parts, 1, Len(parts)) = parts BY AllOfThem
<1> QED BY <1>1, <1>2, <1>3

LEMMA FlattenNone == FlattenSeq(<<>>) = <<>>
<1>1. <<>> \in Seq(Seq({})) /\ Len(<<>>) = 0 OBVIOUS
<1>2. SubSeq(<<>>, 1, 0) = <<>> BY <1>1, AllOfThem
<1>3. PICK joined \in [0..0 -> Seq({})] :
        joined[0] = <<>> /\ \A k \in 0..0 : FlattenSeq(SubSeq(<<>>, 1, k)) = joined[k]
  <2>1. PICK parts \in Seq(Seq({})) : parts = <<>> /\ Len(parts) = 0 BY <1>1
  <2>2. \E joined \in [0..Len(parts) -> Seq({})] :
          joined[0] = <<>> /\ \A k \in 0..Len(parts) : FlattenSeq(SubSeq(parts, 1, k)) = joined[k]
    BY Together
  <2> QED BY <2>1, <2>2
<1>4. 0 \in 0..0 OBVIOUS
<1> QED BY <1>2, <1>3, <1>4

LEMMA FlattenAppend ==
  ASSUME NEW S, NEW parts \in Seq(Seq(S)), NEW last \in Seq(S)
  PROVE  FlattenSeq(Append(parts, last)) = FlattenSeq(parts) \o last
<1>1. PICK n \in Nat : n = Len(parts) OBVIOUS
<1>2. PICK all : all = Append(parts, last) OBVIOUS
<1>3. /\ all \in Seq(Seq(S)) /\ Len(all) = n + 1 /\ all[n + 1] = last
      /\ \A i \in 1..n : all[i] = parts[i]
  BY <1>1, <1>2, AppendProperties
<1>4. PICK joined \in [0 .. n + 1 -> Seq(S)] :
        /\ \A i \in 1 .. n + 1 : joined[i] = joined[i - 1] \o all[i]
        /\ \A k \in 0 .. n + 1 : FlattenSeq(SubSeq(all, 1, k)) = joined[k]
  <2>1. \E joined \in [0..Len(all) -> Seq(S)] :
          /\ joined[0] = <<>>
          /\ \A i \in 1..Len(all) : joined[i] = joined[i - 1] \o all[i]
          /\ \A k \in 0..Len(all) : FlattenSeq(SubSeq(all, 1, k)) = joined[k]
    <3>1. all \in Seq(Seq(S)) BY <1>3
    <3> QED BY <3>1, Together, Zenon
  <2> QED BY <1>3, <2>1
<1>5. SubSeq(all, 1, n) = parts
  <2>1. PICK some : some = SubSeq(all, 1, n) OBVIOUS
  <2>2. some \in Seq(Seq(S)) /\ Len(some) = n /\ \A i \in 1..n : some[i] = all[i]
    <3>1. \A i \in 1..n : all[i] \in Seq(S) BY <1>1, <1>3
    <3>2. /\ some \in Seq(Seq(S)) /\ Len(some) = n
          /\ \A i \in 1..n : some[i] = all[1 + i - 1]
      BY <1>1, <1>3, <2>1, <3>1, SubSeqProperties
    <3>3. \A i \in 1..n : 1 + i - 1 = i OBVIOUS
    <3> QED BY <3>2, <3>3
  <2>3. \A i \in 1..n : some[i] = parts[i] BY <1>3, <2>2
  <2>4. some = parts BY <1>1, <2>2, <2>3, SeqEqual
  <2> QED BY <2>1, <2>4
<1>6. SubSeq(all, 1, n + 1) = all BY <1>3, AllOfThem
<1>7. n \in 0 .. n + 1 /\ n + 1 \in 0 .. n + 1 /\ n + 1 \in 1 .. n + 1 /\ (n + 1) - 1 = n
  OBVIOUS
<1>8. FlattenSeq(parts) = joined[n] BY <1>4, <1>5, <1>7
<1>9. FlattenSeq(all) = joined[n + 1] BY <1>4, <1>6, <1>7
<1>10. joined[n + 1] = joined[(n + 1) - 1] \o all[n + 1] BY <1>4, <1>7
<1> QED BY <1>2, <1>3, <1>7, <1>8, <1>9, <1>10

LEMMA FlattenOne ==
  ASSUME NEW S, NEW piece \in Seq(S) PROVE FlattenSeq(<<piece>>) = piece
<1>1. <<>> \in Seq(Seq(S)) /\ Append(<<>>, piece) = <<piece>> OBVIOUS
<1>2. FlattenSeq(<<piece>>) = FlattenSeq(<<>>) \o piece BY <1>1, FlattenAppend
<1>3. <<>> \o piece = piece BY ConcatEmptySeq
<1> QED BY <1>2, <1>3, FlattenNone

(* How many bytes the first k pieces are.                                   *)
Size(pieces, k) == Len(FlattenSeq(SubSeq(pieces, 1, k)))

LEMMA Sizes ==
  ASSUME NEW S, NEW parts \in Seq(Seq(S))
  PROVE  /\ Size(parts, 0) = 0 /\ \A k \in 0..Len(parts) : Size(parts, k) \in Nat
         /\ \A k \in 1..Len(parts) : Size(parts, k) = Size(parts, k - 1) + Len(parts[k])
         /\ \A k \in 0..Len(parts) : \A m \in 0..k : Size(parts, m) <= Size(parts, k)
<1>1. PICK n \in Nat : n = Len(parts) OBVIOUS
<1>2. PICK joined \in [0..n -> Seq(S)] :
        /\ joined[0] = <<>>
        /\ \A i \in 1..n : joined[i] = joined[i - 1] \o parts[i]
        /\ \A k \in 0..n : FlattenSeq(SubSeq(parts, 1, k)) = joined[k]
  <2>1. \E joined \in [0..Len(parts) -> Seq(S)] :
          /\ joined[0] = <<>>
          /\ \A i \in 1..Len(parts) : joined[i] = joined[i - 1] \o parts[i]
          /\ \A k \in 0..Len(parts) : FlattenSeq(SubSeq(parts, 1, k)) = joined[k]
    BY Together, Zenon
  <2> QED BY <1>1, <2>1, Zenon
<1>3. \A k \in 0..n : Size(parts, k) = Len(joined[k]) BY <1>2 DEF Size
<1>4. \A k \in 0..n : Size(parts, k) \in Nat BY <1>2, <1>3
<1>5. Size(parts, 0) = 0 BY <1>2, <1>3
<1>6. ASSUME NEW k \in 1..n PROVE Size(parts, k) = Size(parts, k - 1) + Len(parts[k])
  <2>1. k - 1 \in 0..n /\ k \in 0..n OBVIOUS
  <2>2. joined[k - 1] \in Seq(S) /\ parts[k] \in Seq(S)
    <3>1. PICK X : X = Seq(S) OBVIOUS
    <3>2. parts[k] \in X BY <1>1, <3>1
    <3>3. joined[k - 1] \in X BY <1>2, <2>1, <3>1
    <3> QED BY <3>1, <3>2, <3>3
  <2>3. joined[k] = joined[k - 1] \o parts[k] BY <1>2
  <2>4. Len(joined[k - 1] \o parts[k]) = Len(joined[k - 1]) + Len(parts[k])
    BY <2>2, ConcatProperties
  <2> QED BY <1>3, <2>1, <2>3, <2>4
<1>7. ASSUME NEW k \in 0..n, NEW m \in 0..k PROVE Size(parts, m) <= Size(parts, k)
  <2> DEFINE A == {i \in Nat : m + i <= n => Size(parts, m) <= Size(parts, m + i)}
  <2>1. 0 \in A BY <1>4
  <2>2. ASSUME NEW i \in A PROVE i + 1 \in A
    <3> SUFFICES ASSUME m + (i + 1) <= n PROVE Size(parts, m) <= Size(parts, m + (i + 1))
      OBVIOUS
    <3>1. i \in Nat /\ m + i <= n /\ m + i \in 0..n /\ m \in 0..n OBVIOUS
    <3>2. PICK l \in 1..n : l = m + (i + 1) /\ l - 1 = m + i BY <3>1
    <3>3. Size(parts, l) = Size(parts, m + i) + Len(parts[l]) BY <1>6, <3>2
    <3>4. Len(parts[l]) \in Nat BY <1>1
    <3>5. Size(parts, m) <= Size(parts, m + i) BY <3>1
    <3>6. PICK a \in Nat, b \in Nat, c \in Nat :
            a = Size(parts, m) /\ b = Size(parts, m + i) /\ c = Len(parts[l])
      BY <1>4, <3>1, <3>4
    <3>7. Size(parts, m + (i + 1)) = b + c /\ a <= b BY <3>2, <3>3, <3>5, <3>6, Zenon
    <3>8. a <= b + c BY <3>7
    <3> QED BY <3>6, <3>7, <3>8, Zenon
  <2>3. A \in SUBSET Nat OBVIOUS
  <2>4. A = Nat
    <3> HIDE DEF A
    <3> QED BY <2>1, <2>2, <2>3, Numbers!Inductive
  <2>5. k - m \in Nat /\ m + (k - m) = k OBVIOUS
  <2>6. k - m \in A
    <3> HIDE DEF A
    <3> QED BY <2>4, <2>5
  <2> QED BY <2>5, <2>6
<1> QED BY <1>1, <1>4, <1>5, <1>6, <1>7

LEMMA Slice ==
  ASSUME NEW S, NEW s \in Seq(S), NEW m \in Nat \ {0}, NEW n \in 0..Len(s), m <= n + 1
  PROVE  /\ SubSeq(s, m, n) \in Seq(S) /\ Len(SubSeq(s, m, n)) = n - m + 1
         /\ \A i \in 1 .. n - m + 1 : SubSeq(s, m, n)[i] = s[m + i - 1]
<1>1. m \in Int /\ n \in Int /\ \A i \in m..n : s[i] \in S OBVIOUS
<1>2. /\ SubSeq(s, m, n) \in Seq(S)
      /\ Len(SubSeq(s, m, n)) = IF m <= n THEN n - m + 1 ELSE 0
      /\ \A i \in 1 .. n - m + 1 : SubSeq(s, m, n)[i] = s[m + i - 1]
  BY <1>1, SubSeqProperties
<1>3. Len(SubSeq(s, m, n)) = n - m + 1
  <2>1. CASE m <= n BY <1>2, <2>1
  <2>2. CASE ~(m <= n)
    <3>1. n - m + 1 = 0 BY <2>2
    <3> QED BY <1>2, <2>2, <3>1
  <2> QED BY <2>1, <2>2
<1> QED BY <1>2, <1>3

LEMMA MinIs ==
  ASSUME NEW T \in SUBSET Nat, T # {}
  PROVE  Min(T) \in T /\ \A t \in T : Min(T) <= t
<1>1. \E m \in T : \A t \in T : m <= t BY Numbers!LeastNumber
<1> QED BY <1>1, Zenon DEF Min

LEMMA DropBy ==
  ASSUME NEW pieces, NEW n
  PROVE  Drop(pieces, n) =
           LET left == {i \in DOMAIN pieces : Size(pieces, i) > n}
               first == Min(left)
           IN  IF left = {} THEN <<>>
               ELSE <<SubSeq(pieces[first], n - Size(pieces, first - 1) + 1, Len(pieces[first]))>>
                      \o SubSeq(pieces, first + 1, Len(pieces))
BY Zenon DEF Drop, Size

(* No piece is left empty.                                                  *)
LEMMA DropType ==
  ASSUME NEW S, NEW pieces \in Seq(Seq(S)), NEW n \in Nat,
         \A i \in 1..Len(pieces) : pieces[i] # <<>>
  PROVE  /\ Drop(pieces, n) \in Seq(Seq(S))
         /\ \A i \in 1..Len(Drop(pieces, n)) : Drop(pieces, n)[i] # <<>>
<1>1. PICK X : X = Seq(S) OBVIOUS
<1>2. PICK m \in Nat : m = Len(pieces) /\ DOMAIN pieces = 1..m OBVIOUS
<1>3. PICK left : left = {i \in 1..m : Size(pieces, i) > n} OBVIOUS
<1>4. CASE left = {}
  <2>1. Drop(pieces, n) = <<>> BY <1>2, <1>3, <1>4, DropBy
  <2> QED BY <2>1
<1>5. CASE left # {}
  <2>1. PICK f : f = Min(left) OBVIOUS
  <2>2. f \in left /\ \A i \in left : f <= i
    <3>1. left \in SUBSET Nat BY <1>3
    <3> QED BY <1>5, <2>1, <3>1, MinIs
  <2>3. f \in 1..m /\ Size(pieces, f) > n BY <1>3, <2>2
  <2>4. PICK before \in Nat : before = Size(pieces, f - 1) /\ before <= n
    <3>1. f - 1 \in 0..m BY <2>3
    <3>2. Size(pieces, f - 1) \in Nat BY <1>2, <3>1, Sizes
    <3>3. CASE f = 1
      <4>1. Size(pieces, f - 1) = 0 BY <3>3, Sizes
      <4> QED BY <4>1
    <3>4. CASE f # 1
      <4>1. f - 1 \in 1..m /\ f - 1 \notin left BY <2>2, <2>3, <3>4
      <4>2. ~(Size(pieces, f - 1) > n) BY <1>3, <4>1
      <4> QED BY <3>2, <4>2
    <3> QED BY <3>3, <3>4
  <2>5. PICK piece \in Seq(S) : piece = pieces[f] BY <1>2, <2>3
  <2>6. Size(pieces, f) = before + Len(piece) BY <1>2, <2>3, <2>4, <2>5, Sizes
  <2>7. PICK k \in Nat \ {0} : k = n - before + 1 /\ k <= Len(piece)
    BY <2>3, <2>4, <2>5, <2>6
  <2>8. PICK rest \in Seq(S) : rest = SubSeq(piece, k, Len(piece)) /\ rest # <<>>
    <3>1. Len(piece) \in 0..Len(piece) /\ k <= Len(piece) + 1 BY <2>5, <2>7
    <3>2. /\ SubSeq(piece, k, Len(piece)) \in Seq(S)
          /\ Len(SubSeq(piece, k, Len(piece))) = Len(piece) - k + 1
      BY <2>5, <2>7, <3>1, Slice
    <3>3. Len(SubSeq(piece, k, Len(piece))) > 0 BY <2>5, <2>7, <3>2
    <3>4. PICK rest : rest = SubSeq(piece, k, Len(piece)) OBVIOUS
    <3>5. rest \in Seq(S) /\ Len(rest) > 0 BY <3>2, <3>3, <3>4
    <3>6. rest # <<>> BY <3>5
    <3> QED BY <3>4, <3>5, <3>6
  <2>9. PICK after : after = SubSeq(pieces, f + 1, m) OBVIOUS
  <2>10. /\ after \in Seq(X) /\ Len(after) = m - f
         /\ \A i \in 1 .. m - f : after[i] # <<>>
    <3>1. pieces \in Seq(X) /\ f + 1 \in Nat \ {0} /\ m \in 0..Len(pieces) /\ f + 1 <= m + 1
      BY <1>1, <1>2, <2>3
    <3>2. /\ after \in Seq(X) /\ Len(after) = m - (f + 1) + 1
          /\ \A i \in 1 .. m - (f + 1) + 1 : after[i] = pieces[(f + 1) + i - 1]
      BY <2>9, <3>1, Slice
    <3>3. ASSUME NEW i \in 1 .. m - f PROVE after[i] # <<>>
      <4>1. (f + 1) + i - 1 = f + i /\ f + i \in 1..m /\ i \in 1 .. m - (f + 1) + 1 BY <1>2, <2>3
      <4>2. after[i] = pieces[f + i] BY <3>2, <4>1
      <4> QED BY <1>2, <4>1, <4>2
    <3>4. m - (f + 1) + 1 = m - f BY <1>2, <2>3
    <3> QED BY <3>2, <3>3, <3>4
  <2>11. Drop(pieces, n) = <<rest>> \o after
    <3>1. Drop(pieces, n) = <<SubSeq(pieces[f], n - Size(pieces, f - 1) + 1, Len(pieces[f]))>>
                              \o SubSeq(pieces, f + 1, Len(pieces))
      BY <1>2, <1>3, <1>5, <2>1, DropBy
    <3> QED BY <1>2, <2>4, <2>5, <2>7, <2>8, <2>9, <3>1
  <2>12. PICK one : one = <<rest>> OBVIOUS
  <2>13. one \in Seq(X) /\ Len(one) = 1 /\ one[1] = rest BY <1>1, <2>8, <2>12
  <2>14. PICK d : d = one \o after OBVIOUS
  <2>15. /\ d \in Seq(X) /\ Len(d) = 1 + (m - f)
         /\ \A i \in 1 .. 1 + (m - f) : d[i] = IF i <= 1 THEN one[i] ELSE after[i - 1]
    <3>1. /\ one \o after \in Seq(X) /\ Len(one \o after) = Len(one) + Len(after)
          /\ \A i \in 1 .. Len(one) + Len(after) :
               (one \o after)[i] = IF i <= Len(one) THEN one[i] ELSE after[i - Len(one)]
      BY <2>10, <2>13, ConcatProperties
    <3> QED BY <2>10, <2>13, <2>14, <3>1
  <2>16. ASSUME NEW i \in 1 .. 1 + (m - f) PROVE d[i] # <<>>
    <3>1. CASE i = 1
      <4>1. d[1] = one[1] BY <2>15, <3>1
      <4> QED BY <2>8, <2>13, <3>1, <4>1
    <3>2. CASE i # 1
      <4>1. i - 1 \in 1 .. m - f /\ ~(i <= 1) BY <1>2, <2>3, <3>2
      <4> QED BY <2>10, <2>15, <4>1
    <3> QED BY <3>1, <3>2
  <2> QED BY <1>1, <2>11, <2>12, <2>14, <2>15, <2>16
<1> QED BY <1>4, <1>5

(* A piece at the end, and how it is dropped when only bytes of it stay.    *)
LEMMA DropLast ==
  ASSUME NEW S, NEW front \in Seq(Seq(S)), NEW last \in Seq(S), NEW n \in Nat,
         Len(FlattenSeq(front)) < n, n <= Len(FlattenSeq(front)) + Len(last)
  PROVE  Drop(Append(front, last), n) =
           IF n = Len(FlattenSeq(front)) + Len(last) THEN <<>>
           ELSE <<SubSeq(last, n - Len(FlattenSeq(front)) + 1, Len(last))>>
<1>1. PICK m \in Nat : m = Len(front) + 1 OBVIOUS
<1>2. PICK all : all = Append(front, last) OBVIOUS
<1>3. /\ all \in Seq(Seq(S)) /\ Len(all) = m /\ DOMAIN all = 1..m /\ all[m] = last
      /\ \A i \in 1 .. m - 1 : all[i] = front[i]
  <2>1. PICK X : X = Seq(S) OBVIOUS
  <2>2. /\ all \in Seq(X) /\ Len(all) = Len(front) + 1 /\ all[Len(front) + 1] = last
        /\ \A i \in 1..Len(front) : all[i] = front[i]
    BY <1>2, <2>1, AppendProperties
  <2> QED BY <1>1, <2>1, <2>2
<1>4. PICK f \in Nat : f = Len(FlattenSeq(front))
  <2>1. FlattenSeq(front) \in Seq(S) BY FlattenType
  <2> QED BY <2>1
<1>5. Size(all, m - 1) = f
  <2>1. SubSeq(all, 1, m - 1) = front
    <3>1. PICK X : X = Seq(S) OBVIOUS
    <3>2. PICK some : some = SubSeq(all, 1, m - 1) OBVIOUS
    <3>3. /\ some \in Seq(X) /\ Len(some) = m - 1 - 1 + 1
          /\ \A i \in 1 .. m - 1 - 1 + 1 : some[i] = all[1 + i - 1]
      <4>1. all \in Seq(X) /\ 1 \in Nat \ {0} /\ m - 1 \in 0..Len(all) /\ 1 <= m - 1 + 1
        BY <1>1, <1>3, <3>1
      <4> QED BY <3>2, <4>1, Slice
    <3>4. \A i \in 1 .. m - 1 : some[i] = front[i]
      <4> TAKE i \in 1 .. m - 1
      <4>1. i \in 1 .. m - 1 - 1 + 1 /\ 1 + i - 1 = i BY <1>1
      <4>2. some[i] = all[i] BY <3>3, <4>1
      <4> QED BY <1>3, <4>2
    <3>5. m - 1 - 1 + 1 = m - 1 /\ front \in Seq(X) /\ Len(front) = m - 1 BY <1>1, <3>1
    <3>6. some = front BY <3>3, <3>4, <3>5, SeqEqual
    <3> QED BY <3>2, <3>6
  <2> QED BY <1>4, <2>1 DEF Size
<1>6. Size(all, m) = f + Len(last)
  <2>1. m \in 1..Len(all) BY <1>1, <1>3
  <2>2. Size(all, m) = Size(all, m - 1) + Len(all[m]) BY <1>3, <2>1, Sizes
  <2> QED BY <1>3, <1>5, <2>2
<1>7. \A i \in 1 .. m - 1 : Size(all, i) \in Nat /\ ~(Size(all, i) > n)
  <2> TAKE i \in 1 .. m - 1
  <2>1. m - 1 \in 0..Len(all) /\ i \in 0 .. m - 1 /\ i \in 0..Len(all) BY <1>1, <1>3
  <2>2. Size(all, i) <= Size(all, m - 1) /\ Size(all, i) \in Nat BY <1>3, <2>1, Sizes
  <2> QED BY <1>4, <1>5, <2>2
<1>8. PICK left : left = {i \in 1..m : Size(all, i) > n} OBVIOUS
<1>9. Len(last) \in Nat OBVIOUS
<1>10. CASE n = f + Len(last)
  <2>1. left = {}
    <3> SUFFICES ASSUME NEW i \in 1..m, Size(all, i) > n PROVE FALSE BY <1>8
    <3>1. i = m BY <1>7
    <3> QED BY <1>4, <1>6, <1>9, <1>10, <3>1
  <2>2. Drop(all, n) = <<>> BY <1>3, <1>8, <2>1, DropBy
  <2> QED BY <1>2, <1>4, <1>10, <2>2
<1>11. CASE n # f + Len(last)
  <2>1. Size(all, m) > n
    <3>1. n <= f + Len(last) BY <1>4
    <3>2. PICK g \in Nat : g = Len(last) BY <1>9
    <3>3. n <= f + g /\ n # f + g BY <1>11, <3>1, <3>2
    <3>4. n < f + g BY <3>3
    <3> QED BY <1>6, <3>2, <3>4
  <2>2. left = {m}
    <3>1. m \in left BY <1>1, <1>8, <2>1
    <3>2. ASSUME NEW i \in left PROVE i = m
      <4>1. i \in 1..m /\ Size(all, i) > n BY <1>8
      <4> QED BY <1>7, <4>1
    <3> QED BY <3>1, <3>2
  <2>3. Min(left) = m
    <3>1. Min(left) \in left BY <2>2, MinIs
    <3> QED BY <2>2, <3>1
  <2>4. Drop(all, n) = <<SubSeq(all[m], n - Size(all, m - 1) + 1, Len(all[m]))>>
                         \o SubSeq(all, m + 1, m)
    <3>1. left # {} BY <2>2
    <3> QED BY <1>3, <1>8, <2>3, <3>1, DropBy
  <2>5. PICK rest : rest = SubSeq(last, n - f + 1, Len(last)) OBVIOUS
  <2>6. rest \in Seq(S)
    <3>1. n - f + 1 \in Nat \ {0} /\ Len(last) \in 0..Len(last) /\ n - f + 1 <= Len(last) + 1
      BY <1>4, <1>9
    <3> QED BY <2>5, <3>1, Slice
  <2>7. SubSeq(all, m + 1, m) = <<>>
    <3>1. m + 1 \in Nat \ {0} /\ m \in 0..Len(all) /\ m + 1 <= m + 1 /\ m - (m + 1) + 1 = 0
      BY <1>3
    <3>2. SubSeq(all, m + 1, m) \in Seq(Seq(S)) /\ Len(SubSeq(all, m + 1, m)) = 0
      BY <1>3, <3>1, Slice
    <3> QED BY <3>2
  <2>8. <<rest>> \o <<>> = <<rest>>
    <3>1. <<rest>> \in Seq(Seq(S)) BY <2>6
    <3> QED BY <3>1, ConcatEmptySeq
  <2> QED BY <1>2, <1>3, <1>4, <1>5, <1>11, <2>4, <2>5, <2>7, <2>8
<1> QED BY <1>10, <1>11

LEMMA Retyped ==
  ASSUME NEW S, NEW T, NEW s \in Seq(S), \A i \in 1..Len(s) : s[i] \in T
  PROVE  s \in Seq(T)
<1>1. PICK n \in Nat : n = Len(s) OBVIOUS
<1>2. s \in [1..n -> T] BY <1>1
<1> QED BY <1>2, SeqDef

LEMMA Tabled ==
  ASSUME NEW S, NEW n \in Nat, NEW s, s = [i \in 1..n |-> s[i]], \A i \in 1..n : s[i] \in S
  PROVE  s \in Seq(S) /\ Len(s) = n
<1>1. s \in [1..n -> S] OBVIOUS
<1> QED BY <1>1, SeqDef

-----------------------------------------------------------------------------
(* Headers in the pieces.                                                   *)

HeaderIn(pieces) == FlattenSeq([i \in DOMAIN pieces |-> Counted(pieces[i])])
Ends(piece) == {i \in DOMAIN piece : piece[i] \notin Match \/ piece[i] = LF}

LEMMA CountedBy ==
  ASSUME NEW piece
  PROVE  Counted(piece) =
           LET first == CHOOSE i \in Ends(piece) : \A j \in Ends(piece) : i <= j
           IN  IF Ends(piece) = {} THEN piece
               ELSE SubSeq(piece, 1, IF piece[first] = LF THEN first ELSE first - 1)
BY Zenon DEF Counted, Ends

LEMMA CountedFirst ==
  ASSUME NEW S, NEW piece \in Seq(S), NEW first \in Ends(piece), \A j \in Ends(piece) : first <= j
  PROVE  Counted(piece) = SubSeq(piece, 1, IF piece[first] = LF THEN first ELSE first - 1)
<1>1. \A i \in Ends(piece) : i \in Nat BY DEF Ends
<1>2. PICK f : f = CHOOSE i \in Ends(piece) : \A j \in Ends(piece) : i <= j OBVIOUS
<1>3. f \in Ends(piece) /\ \A j \in Ends(piece) : f <= j BY <1>2, Zenon
<1>4. f = first BY <1>1, <1>3
<1> QED BY <1>2, <1>4, CountedBy, Zenon

LEMMA CountedWhole ==
  ASSUME NEW piece \in Seq(Match \ {LF}) PROVE Counted(piece) = piece
<1>1. \A i \in DOMAIN piece : piece[i] \in Match \ {LF} OBVIOUS
<1>2. Ends(piece) = {} BY <1>1 DEF Ends
<1> QED BY <1>2, CountedBy, Zenon

LEMMA CountedUpto ==
  ASSUME NEW S, NEW piece \in Seq(S), NEW k \in 1..Len(piece), piece[k] = LF,
         \A j \in 1 .. k - 1 : piece[j] \in Match \ {LF}
  PROVE  Counted(piece) = SubSeq(piece, 1, k)
<1>1. DOMAIN piece = 1..Len(piece) OBVIOUS
<1>2. k \in Ends(piece) BY <1>1 DEF Ends
<1>3. ASSUME NEW j \in Ends(piece) PROVE k <= j
  <2>1. j \in 1..Len(piece) /\ (piece[j] \notin Match \/ piece[j] = LF) BY <1>1 DEF Ends
  <2>2. j \notin 1 .. k - 1 BY <2>1
  <2> QED BY <2>1, <2>2
<1> QED BY <1>2, <1>3, CountedFirst

LEMMA CountedType == ASSUME NEW piece \in Seq(Char) PROVE Counted(piece) \in Seq(Match)
<1>1. DOMAIN piece = 1..Len(piece) /\ Len(piece) \in Nat OBVIOUS
<1>2. CASE Ends(piece) = {}
  <2>1. Counted(piece) = piece BY <1>2, CountedBy, Zenon
  <2>2. \A i \in 1..Len(piece) : piece[i] \in Match BY <1>1, <1>2 DEF Ends
  <2>3. piece \in Seq(Match) BY <1>1, <2>2
  <2> QED BY <2>1, <2>3
<1>3. CASE Ends(piece) # {}
  <2>1. Ends(piece) \in SUBSET Nat BY DEF Ends
  <2>2. PICK first \in Ends(piece) : \A j \in Ends(piece) : first <= j
    BY <1>3, <2>1, Numbers!LeastNumber
  <2>3. first \in 1..Len(piece) BY <1>1 DEF Ends
  <2>4. \A j \in 1 .. first - 1 : piece[j] \in Match
    <3> TAKE j \in 1 .. first - 1
    <3>1. j \in 1..Len(piece) /\ j \notin Ends(piece) BY <2>2, <2>3
    <3> QED BY <1>1, <3>1 DEF Ends
  <2>5. PICK n : n = IF piece[first] = LF THEN first ELSE first - 1 OBVIOUS
  <2>6. Counted(piece) = SubSeq(piece, 1, n) BY <2>2, <2>5, CountedFirst
  <2>7. n \in 0..Len(piece) /\ 1 <= n + 1 BY <2>3, <2>5
  <2>8. \A j \in 1..n : piece[j] \in Match
    <3> TAKE j \in 1..n
    <3>1. CASE j = first
      <4>1. piece[first] = LF BY <2>3, <2>5, <3>1
      <4> QED BY <3>1, <4>1, DigitsAre
    <3>2. CASE j # first
      <4>1. j \in 1 .. first - 1 BY <2>3, <2>5, <3>2
      <4> QED BY <2>4, <4>1
    <3> QED BY <3>1, <3>2
  <2>9. PICK c : c = SubSeq(piece, 1, n) OBVIOUS
  <2>10. c \in Seq(Char) /\ Len(c) = n - 1 + 1 /\ \A j \in 1 .. n - 1 + 1 : c[j] = piece[1 + j - 1]
    BY <2>7, <2>9, Slice
  <2>11. \A j \in 1..n : c[j] \in Match
    <3> TAKE j \in 1..n
    <3>1. j \in 1 .. n - 1 + 1 /\ 1 + j - 1 = j BY <2>7
    <3> QED BY <2>8, <2>10, <3>1
  <2>12. Len(c) = n BY <2>7, <2>10
  <2>13. c \in Seq(Match) BY <2>10, <2>11, <2>12
  <2> QED BY <2>6, <2>9, <2>13
<1> QED BY <1>2, <1>3

LEMMA HeaderType ==
  ASSUME NEW pieces \in Seq(Seq(Char)) PROVE HeaderIn(pieces) \in Seq(Match)
<1>1. PICK c : c = [i \in DOMAIN pieces |-> Counted(pieces[i])] OBVIOUS
<1>2. DOMAIN pieces = 1..Len(pieces) /\ Len(pieces) \in Nat OBVIOUS
<1>3. \A i \in 1..Len(pieces) : pieces[i] \in Seq(Char) OBVIOUS
<1>4. \A i \in 1..Len(pieces) : Counted(pieces[i]) \in Seq(Match) BY <1>3, CountedType
<1>5. c \in Seq(Seq(Match))
  <2>1. PICK X : X = Seq(Match) OBVIOUS
  <2>2. c \in Seq(X) BY <1>1, <1>2, <1>4, <2>1
  <2> QED BY <2>1, <2>2
<1> QED BY <1>1, <1>5, FlattenType DEF HeaderIn

(* What is read of a header that begins with the first piece and may go on  *)
(* after the last one.                                                      *)
IsHeader(h) ==
    /\ Len(h) >= 1 /\ \A i \in 1 .. Len(h) - 1 : h[i] \in Match \ {LF}
    /\ h[Len(h)] = LF

Begins(x, h) == \A i \in 1..Len(x) : i <= Len(h) => x[i] = h[i]

ReadAs(front, last, x, h) ==
    /\ Len(x) < Len(h) =>
         HeaderIn(Append(front, last)) = x /\ last \in Seq(Match \ {LF})
    /\ Len(x) >= Len(h) =>
         HeaderIn(Append(front, last)) = h /\ Len(FlattenSeq(front)) < Len(h)

LEMMA HeaderRead ==
  ASSUME NEW front \in Seq(Seq(Match \ {LF})), NEW last \in Seq(Char),
         NEW h \in Seq(Char), IsHeader(h), Begins(FlattenSeq(front) \o last, h)
  PROVE  ReadAs(front, last, FlattenSeq(front) \o last, h)
<1> SUFFICES ASSUME Len(h) >= 1,
                    \A i \in 1 .. Len(h) - 1 : h[i] \in Match \ {LF}, h[Len(h)] = LF,
                    NEW x, x = FlattenSeq(front) \o last,
                    \A i \in 1..Len(x) : i <= Len(h) => x[i] = h[i]
             PROVE  /\ Len(x) < Len(h) =>
                         HeaderIn(Append(front, last)) = x /\ last \in Seq(Match \ {LF})
                    /\ Len(x) >= Len(h) =>
                         HeaderIn(Append(front, last)) = h /\ Len(FlattenSeq(front)) < Len(h)
  BY Zenon DEF IsHeader, Begins, ReadAs
<1> DEFINE Inner == Match \ {LF}
<1>1. PICK X : X = Seq(Inner) OBVIOUS
<1>2. PICK f : f = FlattenSeq(front) OBVIOUS
<1>3. f \in Seq(Inner) BY <1>2, FlattenType
<1>4. Inner \subseteq Char /\ LF \notin Inner BY DigitsAre
<1> HIDE DEF Inner
<1>5. PICK n \in Nat, m \in Nat, l \in Nat : n = Len(f) /\ m = Len(last) /\ l = Len(h) BY <1>3
<1>6. /\ x \in Seq(Char) /\ Len(x) = n + m
      /\ \A i \in 1 .. n + m : x[i] = IF i <= n THEN f[i] ELSE last[i - n]
  <2>1. f \in Seq(Char) BY <1>3, <1>4
  <2>2. /\ f \o last \in Seq(Char) /\ Len(f \o last) = Len(f) + Len(last)
        /\ \A i \in 1 .. Len(f) + Len(last) :
             (f \o last)[i] = IF i <= Len(f) THEN f[i] ELSE last[i - Len(f)]
    BY <2>1, ConcatProperties
  <2> QED BY <1>2, <1>5, <2>2
<1>7. \A i \in 1..l - 1 : h[i] \in Inner BY <1>5 DEF Inner
<1>8. \A j \in 1..m : n + j <= l => last[j] = h[n + j]
  <2> TAKE j \in 1..m
  <2>1. n + j \in 1 .. n + m /\ ~(n + j <= n) /\ (n + j) - n = j BY <1>5
  <2>2. x[n + j] = last[j] BY <1>6, <2>1
  <2> QED BY <1>5, <1>6, <2>1, <2>2
<1>9. HeaderIn(Append(front, last)) = f \o Counted(last)
  <2>1. PICK all : all = Append(front, last) OBVIOUS
  <2>2. /\ Len(all) = Len(front) + 1 /\ all[Len(front) + 1] = last
        /\ DOMAIN all = 1 .. Len(front) + 1
        /\ \A i \in 1..Len(front) : all[i] = front[i]
    <3>1. PICK Y : Y = Seq(Char) OBVIOUS
    <3>2. front \in Seq(Y)
      <4>1. \A i \in 1..Len(front) : front[i] \in Seq(Inner) BY DEF Inner
      <4>2. \A i \in 1..Len(front) : front[i] \in Y BY <1>4, <3>1, <4>1
      <4>3. PICK Z : Z = Seq(Match \ {LF}) OBVIOUS
      <4>4. front \in Seq(Z) BY <4>3
      <4> QED BY <4>2, <4>4, Retyped
    <3>3. /\ all \in Seq(Y) /\ Len(all) = Len(front) + 1 /\ all[Len(front) + 1] = last
          /\ \A i \in 1..Len(front) : all[i] = front[i]
      BY <2>1, <3>1, <3>2, AppendProperties
    <3> QED BY <3>3
  <2>3. PICK c : c = [i \in DOMAIN all |-> Counted(all[i])] OBVIOUS
  <2>4. \A i \in 1..Len(front) : Counted(front[i]) = front[i]
    <3>1. \A i \in 1..Len(front) : front[i] \in Seq(Match \ {LF}) OBVIOUS
    <3> QED BY <3>1, CountedWhole
  <2>5. c = Append(front, Counted(last))
    <3>1. PICK Y : Y = Seq(Match) OBVIOUS
    <3>2. front \in Seq(Y)
      <4>1. \A i \in 1..Len(front) : front[i] \in Seq(Inner) BY DEF Inner
      <4>2. Inner \subseteq Match BY DEF Inner
      <4>3. \A i \in 1..Len(front) : front[i] \in Y BY <3>1, <4>1, <4>2
      <4>4. PICK Z : Z = Seq(Match \ {LF}) OBVIOUS
      <4>5. front \in Seq(Z) BY <4>4
      <4> QED BY <4>3, <4>5, Retyped
    <3>3. Counted(last) \in Y BY <3>1, CountedType
    <3>4. PICK k \in Nat : k = Len(front) OBVIOUS
    <3>5. PICK a : a = Append(front, Counted(last)) OBVIOUS
    <3>6. /\ a \in Seq(Y) /\ Len(a) = k + 1 /\ a[k + 1] = Counted(last)
          /\ \A i \in 1..k : a[i] = front[i]
      BY <3>2, <3>3, <3>4, <3>5, AppendProperties
    <3>7. DOMAIN c = 1 .. k + 1 /\ \A i \in 1 .. k + 1 : c[i] = Counted(all[i])
      BY <2>2, <2>3, <3>4
    <3>8. \A i \in 1 .. k + 1 : c[i] = a[i]
      <4> TAKE i \in 1 .. k + 1
      <4>1. CASE i = k + 1 BY <2>2, <3>4, <3>6, <3>7, <4>1
      <4>2. CASE i # k + 1
        <5>1. i \in 1..k BY <4>2
        <5> QED BY <2>2, <2>4, <3>4, <3>6, <3>7, <5>1
      <4> QED BY <4>1, <4>2
    <3>9. \A i \in 1 .. k + 1 : c[i] \in Y BY <3>6, <3>8
    <3>10. c \in Seq(Y) /\ Len(c) = k + 1
      <4>1. c = [i \in 1 .. k + 1 |-> c[i]] BY <2>3, <3>7
      <4> QED BY <3>4, <3>9, <4>1, Tabled
    <3>11. c = a BY <3>6, <3>8, <3>10, SeqEqual
    <3> QED BY <3>5, <3>11
  <2>6. FlattenSeq(Append(front, Counted(last))) = FlattenSeq(front) \o Counted(last)
    <3>1. front \in Seq(Seq(Match))
      <4>1. \A i \in 1..Len(front) : front[i] \in Seq(Inner) BY DEF Inner
      <4>2. Inner \subseteq Match BY DEF Inner
      <4>3. \A i \in 1..Len(front) : front[i] \in Seq(Match) BY <4>1, <4>2
      <4> QED BY <4>3
    <3>2. Counted(last) \in Seq(Match) BY CountedType
    <3> QED BY <3>1, <3>2, FlattenAppend
  <2> QED BY <1>2, <2>1, <2>3, <2>5, <2>6 DEF HeaderIn
<1>10. CASE n + m < l
  <2>1. \A j \in 1..m : last[j] \in Inner
    <3> TAKE j \in 1..m
    <3>1. n + j \in 1 .. l - 1 /\ n + j <= l BY <1>5, <1>10
    <3> QED BY <1>7, <1>8, <3>1
  <2>2. last \in Seq(Inner) BY <1>5, <2>1, Retyped
  <2>3. Counted(last) = last BY <2>2, CountedWhole DEF Inner
  <2> QED BY <1>2, <1>5, <1>6, <1>9, <1>10, <2>2, <2>3 DEF Inner
<1>11. CASE ~(n + m < l)
  <2>1. n < l
    <3> SUFFICES ASSUME l <= n PROVE FALSE BY <1>5
    <3>1. l \in 1..n /\ l \in 1 .. n + m /\ l <= l BY <1>5
    <3>2. x[l] = h[l] BY <1>5, <1>6, <3>1
    <3>3. x[l] = f[l] BY <1>6, <3>1
    <3>4. f[l] \in Inner BY <1>3, <1>5, <3>1
    <3> QED BY <1>4, <1>5, <3>2, <3>3, <3>4
  <2>2. PICK k \in 1..m : k = l - n
    <3>1. l - n \in 1..m BY <1>5, <1>11, <2>1
    <3> QED BY <3>1
  <2>3. last[k] = LF
    <3>1. n + k = l /\ n + k <= l BY <1>5, <2>2
    <3> QED BY <1>5, <1>8, <3>1
  <2>4. \A j \in 1 .. k - 1 : last[j] \in Inner
    <3> TAKE j \in 1 .. k - 1
    <3>1. j \in 1..m /\ n + j \in 1 .. l - 1 /\ n + j <= l BY <1>5, <2>2
    <3> QED BY <1>7, <1>8, <3>1
  <2>5. Counted(last) = SubSeq(last, 1, k) BY <1>5, <2>3, <2>4, CountedUpto DEF Inner
  <2>6. PICK c : c = SubSeq(last, 1, k) OBVIOUS
  <2>7. c \in Seq(Char) /\ Len(c) = k - 1 + 1 /\ \A j \in 1 .. k - 1 + 1 : c[j] = last[1 + j - 1]
    <3>1. k \in 0..Len(last) /\ 1 <= k + 1 BY <1>5
    <3> QED BY <2>6, <3>1, Slice
  <2>8. PICK y : y = f \o c OBVIOUS
  <2>9. /\ y \in Seq(Char) /\ Len(y) = n + k
        /\ \A i \in 1 .. n + k : y[i] = IF i <= n THEN f[i] ELSE c[i - n]
    <3>1. f \in Seq(Char) BY <1>3, <1>4
    <3>2. Len(c) = k BY <2>7
    <3>3. /\ f \o c \in Seq(Char) /\ Len(f \o c) = Len(f) + Len(c)
          /\ \A i \in 1 .. Len(f) + Len(c) :
               (f \o c)[i] = IF i <= Len(f) THEN f[i] ELSE c[i - Len(f)]
      <4>1. c \in Seq(Char) BY <2>7
      <4> QED BY <3>1, <4>1, ConcatProperties
    <3> QED BY <1>5, <2>8, <3>2, <3>3
  <2>10. \A i \in 1..l : y[i] = h[i]
    <3> TAKE i \in 1..l
    <3>1. i \in 1 .. n + k /\ i \in 1 .. n + m BY <1>5, <2>2
    <3>2. x[i] = h[i] BY <1>5, <1>6, <3>1
    <3>3. CASE i <= n BY <1>6, <2>9, <3>1, <3>2, <3>3
    <3>4. CASE ~(i <= n)
      <4>1. i - n \in 1 .. k - 1 + 1 /\ 1 + (i - n) - 1 = i - n BY <1>5, <2>2, <3>1, <3>4
      <4>2. y[i] = c[i - n] /\ x[i] = last[i - n] BY <1>6, <2>9, <3>1, <3>4
      <4>3. c[i - n] = last[1 + (i - n) - 1] BY <2>7, <4>1
      <4> QED BY <3>2, <4>1, <4>2, <4>3
    <3> QED BY <3>3, <3>4
  <2>11. y = h
    <3>1. n + k = l BY <1>5, <2>2
    <3> QED BY <1>5, <2>9, <2>10, <3>1, SeqEqual
  <2> QED BY <1>2, <1>5, <1>6, <1>9, <1>11, <2>1, <2>5, <2>6, <2>8, <2>11
<1> QED BY <1>10, <1>11

-----------------------------------------------------------------------------
(* The types.                                                               *)

LEMMA HeaderZero == ChunkHeader(0) = <<"0", CR, LF>>
<1>1. PICK hex : IsHex(hex, 0) /\ ChunkHeader(0) = hex[0] \o <<CR, LF>> BY HeaderIs
<1>2. hex[0] = <<>> \o <<Digits[(0 % 16) + 1]>>
  <2>1. 0 \in 0..0 /\ 0 < 16 OBVIOUS
  <2> QED BY <1>1, <2>1 DEF IsHex
<1>3. Digits[(0 % 16) + 1] = "0"
  <2>1. (0 % 16) + 1 = 1 BY SMT
  <2>2. Digits[1] = "0" BY DEF Digits
  <2> QED BY <2>1, <2>2
<1>4. <<>> \o <<"0">> = <<"0">> OBVIOUS
<1>5. hex[0] = <<"0">> BY <1>2, <1>3, <1>4, Zenon
<1>6. <<"0">> \o <<CR, LF>> = <<"0", CR, LF>>
  <2>1. PICK S : S = {"0", CR, LF} OBVIOUS
  <2>2. PICK a, b, c : a = <<"0">> /\ b = <<CR, LF>> /\ c = <<"0", CR, LF>> OBVIOUS
  <2>3. /\ a \in Seq(S) /\ b \in Seq(S) /\ c \in Seq(S)
        /\ Len(a) = 1 /\ Len(b) = 2 /\ Len(c) = 3
        /\ a[1] = "0" /\ b[1] = CR /\ b[2] = LF /\ c[1] = "0" /\ c[2] = CR /\ c[3] = LF
    BY <2>1, <2>2
  <2>4. a \o b \in Seq(S) /\ Len(a \o b) = Len(a) + Len(b)
        /\ \A i \in 1 .. Len(a) + Len(b) :
             (a \o b)[i] = IF i <= Len(a) THEN a[i] ELSE b[i - Len(a)]
    BY <2>3, ConcatProperties
  <2>5. \A i \in 1..3 : (a \o b)[i] = c[i]
    <3>1. (a \o b)[1] = c[1] /\ (a \o b)[2] = c[2] /\ (a \o b)[3] = c[3] BY <2>3, <2>4
    <3>2. \A i \in 1..3 : i = 1 \/ i = 2 \/ i = 3 OBVIOUS
    <3> QED BY <3>1, <3>2
  <2>6. a \o b = c BY <2>3, <2>4, <2>5, SeqEqual
  <2> QED BY <2>2, <2>6
<1> QED BY <1>1, <1>5, <1>6

LEMMA HeaderChars ==
  ASSUME NEW n \in Nat
  PROVE  ChunkHeader(n) \in Seq(Char) /\ Len(ChunkHeader(n)) \in Nat \ {0}
<1>1. PICK l \in Nat \ {0} : ChunkHeader(n) \in Seq(Match) /\ Len(ChunkHeader(n)) = l + 2
  BY HeaderReads
<1>2. PICK h : h = ChunkHeader(n) OBVIOUS
<1>3. h \in Seq(Char) BY <1>1, <1>2, DigitsAre
<1> QED BY <1>1, <1>2, <1>3

LEMMA ZeroChars == <<"0", CR, LF>> \in Seq(Char) /\ Len(<<"0", CR, LF>>) = 3
<1>1. ChunkHeader(0) \in Seq(Char) BY HeaderChars
<1>2. Len(<<"0", CR, LF>>) = 3 OBVIOUS
<1> QED BY <1>1, <1>2, HeaderZero

Typed ==
    /\ written \in Seq(Char) /\ encoding \in Seq(Char) /\ wire \in Seq(Char)
    /\ output \in Seq(Char) /\ residue \in Seq(Char) /\ buffered_bytes \in Seq(Seq(Char))
    /\ end \in Nat /\ Len(encoding) <= Len(written)
    /\ TypeOK

(* One sequence after the other.                                            *)
LEMMA Joined ==
  ASSUME NEW S, NEW s \in Seq(S), NEW t \in Seq(S)
  PROVE  /\ s \o t \in Seq(S) /\ Len(s) \in Nat /\ Len(t) \in Nat
         /\ Len(s \o t) = Len(s) + Len(t)
         /\ \A i \in 1..Len(s) : (s \o t)[i] = s[i]
         /\ \A i \in 1..Len(t) : (s \o t)[Len(s) + i] = t[i]
<1>1. PICK m \in Nat, n \in Nat : m = Len(s) /\ n = Len(t) OBVIOUS
<1>2. PICK u : u = s \o t OBVIOUS
<1>3. u \in Seq(S) /\ Len(u) = m + n
      /\ \A i \in 1 .. m + n : u[i] = IF i <= m THEN s[i] ELSE t[i - m]
  <2>1. /\ s \o t \in Seq(S) /\ Len(s \o t) = Len(s) + Len(t)
        /\ \A i \in 1 .. Len(s) + Len(t) :
             (s \o t)[i] = IF i <= Len(s) THEN s[i] ELSE t[i - Len(s)]
    BY ConcatProperties
  <2> QED BY <1>1, <1>2, <2>1
<1>4. \A i \in 1..m : u[i] = s[i] BY <1>3
<1>5. \A i \in 1..n : u[m + i] = t[i]
  <2> TAKE i \in 1..n
  <2>1. m + i \in 1 .. m + n /\ ~(m + i <= m) /\ (m + i) - m = i OBVIOUS
  <2> QED BY <1>3, <2>1
<1> QED BY <1>1, <1>2, <1>3, <1>4, <1>5

(* What flush writes, and the chunks of a stream that ends.                 *)
LEMMA FlushIs ==
  ASSUME NEW extra \in Nat, encoding \in Seq(Char)
  PROVE  /\ Flush(extra) \in Seq(Char)
         /\ Flush(extra) = IF encoding = <<>> /\ extra = 0 THEN <<>>
                           ELSE ChunkHeader(Len(encoding) + extra) \o encoding
<1>1. Len(encoding) + extra \in Nat OBVIOUS
<1>2. ChunkHeader(Len(encoding) + extra) \in Seq(Char) BY <1>1, HeaderChars
<1>3. ChunkHeader(Len(encoding) + extra) \o encoding \in Seq(Char) BY <1>2, Joined
<1>4. <<>> \in Seq(Char) OBVIOUS
<1> QED BY <1>3, <1>4, Zenon DEF Flush

LEMMA TypedInit == Init => Typed
<1> SUFFICES ASSUME Init PROVE Typed OBVIOUS
<1>1. Len(<<>>) = 0 /\ DOMAIN <<>> = {} OBVIOUS
<1>2. <<>> \in Seq(Char) /\ <<>> \in Seq(Seq(Char)) OBVIOUS
<1> QED BY <1>1, <1>2 DEF Init, Typed, TypeOK

LEMMA TypedWrite ==
  ASSUME Typed, NEW text \in Texts, Write(text)
  PROVE  Typed' /\ Len(text) \in Nat /\ text \in Seq(Char)
<1>1. text \in Seq(Char) /\ Len(text) \in Nat
  <2>1. text \in Seq(Char) BY BoundsAssumption DEF Streams
  <2> QED BY <2>1
<1>2. written' = written \o text /\ Len(written') = Len(written) + Len(text)
      /\ written' \in Seq(Char)
  <2>1. written' = written \o text BY DEF Write
  <2> QED BY <1>1, <2>1, Joined DEF Typed
<1>3. /\ wire' \in Seq(Char) /\ Len(wire') >= Len(wire)
      /\ encoding' \in Seq(Char) /\ Len(encoding') <= Len(written')
  <2>1. CASE Len(encoding) + Len(text) >= MaxBuffered
    <3>1. wire' = wire \o Flush(Len(text)) \o text /\ encoding' = <<>> BY <2>1 DEF Write
    <3>2. Flush(Len(text)) \in Seq(Char) BY <1>1, FlushIs DEF Typed
    <3>3. PICK a : a = wire \o Flush(Len(text)) OBVIOUS
    <3>4. a \in Seq(Char) /\ Len(a) = Len(wire) + Len(Flush(Len(text)))
      BY <3>2, <3>3, Joined DEF Typed
    <3>5. a \o text \in Seq(Char) /\ Len(a \o text) = Len(a) + Len(text) BY <1>1, <3>4, Joined
    <3>6. Len(wire) \in Nat /\ Len(Flush(Len(text))) \in Nat /\ Len(written') \in Nat
      BY <1>2, <3>2 DEF Typed
    <3>7. <<>> \in Seq(Char) /\ Len(<<>>) = 0 OBVIOUS
    <3>8. Len(a \o text) >= Len(wire) BY <1>1, <3>4, <3>5, <3>6
    <3>9. encoding' \in Seq(Char) /\ Len(encoding') <= Len(written') BY <3>1, <3>6, <3>7
    <3> QED BY <3>1, <3>3, <3>5, <3>8, <3>9
  <2>2. CASE ~(Len(encoding) + Len(text) >= MaxBuffered)
    <3>1. wire' = wire /\ encoding' = encoding \o text BY <2>2 DEF Write
    <3>2. encoding' \in Seq(Char) /\ Len(encoding') = Len(encoding) + Len(text)
      BY <1>1, <3>1, Joined DEF Typed
    <3>3. Len(encoding) \in Nat /\ Len(written) \in Nat /\ Len(wire) \in Nat BY DEF Typed
    <3>4. Len(encoding) <= Len(written) BY DEF Typed
    <3> QED BY <1>1, <1>2, <3>1, <3>2, <3>3, <3>4 DEF Typed
  <2> QED BY <2>1, <2>2
<1>4. given \in 0..Len(wire')
  <2>1. given \in 0..Len(wire) /\ Len(wire) \in Nat /\ Len(wire') \in Nat
    BY <1>3 DEF Typed, TypeOK
  <2> QED BY <1>3, <2>1
<1>5. UNCHANGED <<end, decoderVars, given>> BY DEF Write
<1>6. TypeOK' BY <1>4, <1>5 DEF Typed, TypeOK, decoderVars
<1> QED BY <1>1, <1>2, <1>3, <1>5, <1>6 DEF Typed, decoderVars

LEMMA TypedClose == ASSUME Typed, Close PROVE Typed'
<1>1. 0 \in Nat /\ Flush(0) \in Seq(Char) BY FlushIs DEF Typed
<1>2. PICK a : a = wire \o Flush(0) OBVIOUS
<1>3. a \in Seq(Char) /\ Len(a) = Len(wire) + Len(Flush(0)) BY <1>1, <1>2, Joined DEF Typed
<1>4. PICK b : b = a \o <<"0", CR, LF>> OBVIOUS
<1>5. b \in Seq(Char) /\ Len(b) = Len(a) + Len(<<"0", CR, LF>>)
  BY <1>3, <1>4, ZeroChars, Joined
<1>6. Rest \in Seq(Char) BY BoundsAssumption DEF Streams
<1>7. b \o Rest \in Seq(Char) /\ Len(b \o Rest) = Len(b) + Len(Rest) BY <1>5, <1>6, Joined
<1>8. wire' = b \o Rest /\ end' = Len(b) /\ encoding' = <<>> BY <1>2, <1>4 DEF Close
<1>9. Len(wire') >= Len(wire) /\ Len(wire') \in Nat /\ end' \in Nat
  <2>1. Len(wire) \in Nat /\ Len(Flush(0)) \in Nat /\ Len(Rest) \in Nat
    BY <1>1, <1>6 DEF Typed
  <2> QED BY <1>3, <1>5, <1>7, <1>8, <2>1, ZeroChars
<1>10. UNCHANGED <<written, decoderVars, given>> BY DEF Close
<1>11. TypeOK'
  <2>1. given \in 0..Len(wire) /\ Len(wire) \in Nat BY DEF Typed, TypeOK
  <2>2. given \in 0..Len(wire') BY <1>9, <2>1
  <2> QED BY <1>10, <2>2 DEF Typed, TypeOK, decoderVars
<1>12. encoding' \in Seq(Char) /\ Len(encoding') <= Len(written)
  <2>1. <<>> \in Seq(Char) /\ Len(<<>>) = 0 /\ Len(written) \in Nat BY DEF Typed
  <2> QED BY <1>8, <2>1
<1> QED BY <1>7, <1>8, <1>9, <1>10, <1>11, <1>12 DEF Typed, decoderVars

LEMMA TypedInterrupt == ASSUME Typed, NEW text \in Interruptions, Interrupt(text) PROVE Typed'
<1>1. text \in Seq(Char) BY BoundsAssumption DEF Streams
<1>2. wire' = wire \o text BY DEF Interrupt
<1>3. wire' \in Seq(Char) /\ Len(wire') = Len(wire) + Len(text)
      /\ Len(wire) \in Nat /\ Len(text) \in Nat
  BY <1>1, <1>2, Joined DEF Typed
<1>4. given \in 0..Len(wire')
  <2>1. given \in 0..Len(wire) BY DEF Typed, TypeOK
  <2> QED BY <1>3, <2>1
<1>5. UNCHANGED <<written, encoding, end, decoderVars, given>> BY DEF Interrupt
<1> QED BY <1>3, <1>4, <1>5 DEF Typed, TypeOK, decoderVars

(* The next piece.                                                          *)
LEMMA PieceIs ==
  ASSUME Typed, NEW n \in 1..Len(wire) - given
  PROVE  /\ Piece(n) \in Seq(Char) /\ Len(Piece(n)) = n /\ Piece(n) # <<>>
         /\ \A i \in 1..n : Piece(n)[i] = wire[given + i]
<1>1. PICK g \in Nat : g = given BY DEF Typed, TypeOK
<1>2. Len(wire) \in Nat /\ wire \in Seq(Char) BY DEF Typed
<1>3. g + 1 \in Nat \ {0} /\ g + n \in 0..Len(wire) /\ g + 1 <= g + n + 1
      /\ (g + n) - (g + 1) + 1 = n
  BY <1>1, <1>2
<1>4. PICK piece : piece = SubSeq(wire, g + 1, g + n) OBVIOUS
<1>5. piece \in Seq(Char) /\ Len(piece) = n /\ \A i \in 1..n : piece[i] = wire[g + 1 + i - 1]
  BY <1>2, <1>3, <1>4, Slice
<1>6. \A i \in 1..n : g + 1 + i - 1 = g + i OBVIOUS
<1>7. piece # <<>>
  <2>1. n # 0 /\ Len(<<>>) = 0 BY <1>1, <1>2
  <2> QED BY <1>5, <2>1
<1> QED BY <1>1, <1>4, <1>5, <1>6, <1>7 DEF Piece

LEMMA TypedFeed == ASSUME Typed, NEW n \in 1..Len(wire) - given, Feed(n) PROVE Typed'
<1>1. PICK piece : piece = Piece(n) OBVIOUS
<1>2. piece \in Seq(Char) /\ piece # <<>> BY <1>1, PieceIs
<1>3. PICK X : X = Seq(Char) OBVIOUS
<1>4. PICK m \in Nat : m = Len(buffered_bytes) BY DEF Typed
<1>5. buffered_bytes \in Seq(X) /\ \A i \in 1..m : buffered_bytes[i] # <<>>
  <2>1. DOMAIN buffered_bytes = 1..m BY <1>4 DEF Typed
  <2> QED BY <1>3, <2>1 DEF Typed, TypeOK
<1>6. buffered_bytes' = Append(buffered_bytes, piece) BY <1>1 DEF Feed
<1>7. buffered_bytes' \in Seq(X) /\ DOMAIN buffered_bytes' = 1 .. m + 1
      /\ buffered_bytes'[m + 1] = piece /\ \A i \in 1..m : buffered_bytes'[i] = buffered_bytes[i]
  BY <1>2, <1>3, <1>4, <1>5, <1>6, AppendProperties
<1>8. \A i \in DOMAIN buffered_bytes' : buffered_bytes'[i] # <<>>
  <2> SUFFICES ASSUME NEW i \in 1 .. m + 1 PROVE buffered_bytes'[i] # <<>> BY <1>7
  <2>1. i \in 1..m \/ i = m + 1 OBVIOUS
  <2> QED BY <1>2, <1>5, <1>7, <2>1
<1>9. given' \in 0..Len(wire)
  <2>1. given \in 0..Len(wire) /\ Len(wire) \in Nat /\ given' = given + n
    BY DEF Typed, TypeOK, Feed
  <2> QED BY <2>1
<1>10. UNCHANGED <<encoderVars, state, body_length, output, residue>> /\ pc' = "running"
  BY DEF Feed
<1>11. buffered_bytes' \in Seq(Seq(Char)) BY <1>3, <1>7
<1> QED BY <1>8, <1>9, <1>10, <1>11 DEF Typed, TypeOK, encoderVars

LEMMA TypedReadLength == ASSUME Typed, ReadLength PROVE Typed'
<1>1. PICK header : header = HeaderIn(buffered_bytes) OBVIOUS
<1>2. header \in Seq(Match) BY <1>1, HeaderType DEF Typed
<1>3. PICK length : length = HeaderLength(header) OBVIOUS
<1>4. length = -1 \/ length \in Nat BY <1>2, <1>3, HexType DEF HeaderLength
<1>5. \/ pc' \in {"idle", "raised"} /\ UNCHANGED <<state, buffered_bytes, body_length>>
      \/ /\ length # -1 /\ body_length' = length
         /\ buffered_bytes' = Drop(buffered_bytes, Len(header))
         /\ state' = IF length = 0 THEN "finished" ELSE "body"
         /\ pc' = IF length = 0 /\ buffered_bytes' = <<>> THEN "idle" ELSE "running"
  BY <1>1, <1>3, Zenon DEF ReadLength, HeaderIn
<1>6. UNCHANGED <<encoderVars, output, residue, given>> BY DEF ReadLength
<1>7. CASE pc' \in {"idle", "raised"} /\ UNCHANGED <<state, buffered_bytes, body_length>>
  BY <1>6, <1>7 DEF Typed, TypeOK, encoderVars
<1>8. CASE /\ length # -1 /\ body_length' = length
           /\ buffered_bytes' = Drop(buffered_bytes, Len(header))
           /\ state' = IF length = 0 THEN "finished" ELSE "body"
           /\ pc' = IF length = 0 /\ buffered_bytes' = <<>> THEN "idle" ELSE "running"
  <2>1. buffered_bytes' \in Seq(Seq(Char))
        /\ \A i \in DOMAIN buffered_bytes' : buffered_bytes'[i] # <<>>
    <3>1. PICK k \in Nat : k = Len(header) BY <1>2
    <3>2. PICK b : b = buffered_bytes OBVIOUS
    <3>3. b \in Seq(Seq(Char)) /\ \A i \in 1..Len(b) : b[i] # <<>>
      BY <3>2 DEF Typed, TypeOK
    <3>4. Drop(b, k) \in Seq(Seq(Char)) /\ \A i \in 1..Len(Drop(b, k)) : Drop(b, k)[i] # <<>>
      BY <3>3, DropType
    <3>5. DOMAIN Drop(b, k) = 1..Len(Drop(b, k)) BY <3>4
    <3> QED BY <1>8, <3>1, <3>2, <3>4, <3>5
  <2>2. body_length' \in Nat BY <1>4, <1>8
  <2>3. /\ pc' \in {"idle", "running"} /\ state' \in {"finished", "body"}
        /\ state' = "body" => body_length' > 0
        /\ state' = "finished" => body_length' = 0
    BY <1>8, <2>2
  <2> QED BY <1>6, <2>1, <2>2, <2>3 DEF Typed, TypeOK, encoderVars
<1> QED BY <1>5, <1>7, <1>8

(* The first of the pieces, when there is one.                              *)
LEMMA FirstPiece ==
  ASSUME Typed, buffered_bytes # <<>>
  PROVE  /\ Head(buffered_bytes) \in Seq(Char) /\ Head(buffered_bytes) # <<>>
         /\ Len(Head(buffered_bytes)) \in Nat \ {0}
         /\ Tail(buffered_bytes) \in Seq(Seq(Char))
         /\ \A i \in DOMAIN Tail(buffered_bytes) : Tail(buffered_bytes)[i] # <<>>
<1>1. PICK X : X = Seq(Char) OBVIOUS
<1>2. PICK b : b = buffered_bytes OBVIOUS
<1>3. PICK m \in Nat : m = Len(b) BY <1>2 DEF Typed
<1>4. b \in Seq(X) /\ b # <<>> /\ \A i \in 1..m : b[i] # <<>>
  <2>1. DOMAIN b = 1..m BY <1>2, <1>3 DEF Typed
  <2> QED BY <1>1, <1>2, <2>1 DEF Typed, TypeOK
<1>5. m >= 1 BY <1>2, <1>3, <1>4
<1>6. /\ Head(b) = b[1] /\ Tail(b) \in Seq(X) /\ Len(Tail(b)) = m - 1
      /\ \A i \in 1 .. m - 1 : Tail(b)[i] = b[i + 1]
  BY <1>2, <1>3, <1>4, HeadTailProperties
<1>7. b[1] \in X /\ b[1] # <<>> BY <1>2, <1>3, <1>4, <1>5
<1>8. DOMAIN Tail(b) = 1 .. m - 1 BY <1>6
<1>9. \A i \in 1 .. m - 1 : Tail(b)[i] # <<>>
  <2> TAKE i \in 1 .. m - 1
  <2>1. i + 1 \in 1..m BY <1>3
  <2> QED BY <1>4, <1>6, <2>1
<1>10. PICK piece : piece = b[1] OBVIOUS
<1>11. piece \in Seq(Char) /\ piece # <<>> BY <1>1, <1>7, <1>10
<1>12. Len(piece) \in Nat \ {0} BY <1>11
<1> QED BY <1>1, <1>2, <1>6, <1>8, <1>9, <1>10, <1>11, <1>12

LEMMA TypedReadBody == ASSUME Typed, ReadBody PROVE Typed'
<1>1. UNCHANGED <<encoderVars, residue, given>> /\ pc = "running" /\ state = "body"
  BY DEF ReadBody
<1>2. body_length \in Nat /\ body_length > 0 BY <1>1 DEF Typed, TypeOK
<1>3. CASE buffered_bytes = <<>>
  <2>1. pc' = "idle" /\ UNCHANGED <<state, buffered_bytes, body_length, output>>
    BY <1>3 DEF ReadBody
  <2> QED BY <1>1, <2>1 DEF Typed, TypeOK, encoderVars
<1>4. CASE buffered_bytes # <<>>
  <2>1. PICK piece, tail : piece = Head(buffered_bytes) /\ tail = Tail(buffered_bytes) OBVIOUS
  <2>2. /\ piece \in Seq(Char) /\ Len(piece) \in Nat \ {0}
        /\ tail \in Seq(Seq(Char)) /\ \A i \in DOMAIN tail : tail[i] # <<>>
    BY <1>4, <2>1, FirstPiece
  <2>3. CASE body_length >= Len(piece)
    <3>1. /\ output' = output \o piece /\ body_length' = body_length - Len(piece)
          /\ buffered_bytes' = tail
          /\ IF body_length' = 0 THEN state' = "length" /\ pc' = "idle" ELSE UNCHANGED <<state, pc>>
      BY <1>4, <2>1, <2>3 DEF ReadBody
    <3>2. output' \in Seq(Char) BY <2>2, <3>1, Joined DEF Typed
    <3>3. body_length' \in Nat /\ (body_length' # 0 => body_length' > 0)
      BY <1>2, <2>2, <2>3, <3>1
    <3> QED BY <1>1, <2>2, <3>1, <3>2, <3>3 DEF Typed, TypeOK, encoderVars
  <2>4. CASE ~(body_length >= Len(piece))
    <3>1. /\ output' = output \o SubSeq(piece, 1, body_length)
          /\ buffered_bytes' = <<SubSeq(piece, body_length + 1, Len(piece))>> \o tail
          /\ body_length' = 0 /\ state' = "length" /\ pc' = pc
      BY <1>4, <2>1, <2>4 DEF ReadBody
    <3>2. PICK some, rest : /\ some = SubSeq(piece, 1, body_length)
                            /\ rest = SubSeq(piece, body_length + 1, Len(piece))
      OBVIOUS
    <3>3. some \in Seq(Char)
      <4>1. body_length \in 0..Len(piece) /\ 1 <= body_length + 1 BY <1>2, <2>2, <2>4
      <4> QED BY <2>2, <3>2, <4>1, Slice
    <3>4. rest \in Seq(Char) /\ rest # <<>>
      <4>1. body_length + 1 \in Nat \ {0} /\ Len(piece) \in 0..Len(piece)
            /\ body_length + 1 <= Len(piece) + 1 /\ Len(piece) - (body_length + 1) + 1 # 0
        BY <1>2, <2>2, <2>4
      <4>2. rest \in Seq(Char) /\ Len(rest) = Len(piece) - (body_length + 1) + 1
        BY <2>2, <3>2, <4>1, Slice
      <4> QED BY <4>1, <4>2
    <3>5. output' \in Seq(Char) BY <3>1, <3>2, <3>3, Joined DEF Typed
    <3>6. buffered_bytes' \in Seq(Seq(Char))
          /\ \A i \in DOMAIN buffered_bytes' : buffered_bytes'[i] # <<>>
      <4>1. PICK X : X = Seq(Char) OBVIOUS
      <4>2. PICK one : one = <<rest>> OBVIOUS
      <4>3. one \in Seq(X) /\ Len(one) = 1 /\ one[1] = rest BY <3>4, <4>1, <4>2
      <4>4. PICK m \in Nat : m = Len(tail) BY <2>2
      <4>5. tail \in Seq(X) /\ \A i \in 1..m : tail[i] # <<>>
        <5>1. DOMAIN tail = 1..m BY <2>2, <4>4
        <5> QED BY <2>2, <4>1, <5>1
      <4>6. PICK b : b = one \o tail OBVIOUS
      <4>7. /\ b \in Seq(X) /\ Len(b) = 1 + m /\ b[1] = rest
            /\ \A i \in 1..m : b[1 + i] = tail[i]
        <5>1. /\ one \o tail \in Seq(X) /\ Len(one \o tail) = Len(one) + Len(tail)
              /\ \A i \in 1..Len(one) : (one \o tail)[i] = one[i]
              /\ \A i \in 1..Len(tail) : (one \o tail)[Len(one) + i] = tail[i]
          <6>1. one \in Seq(X) /\ tail \in Seq(X) BY <4>3, <4>5
          <6> QED BY <6>1, Joined
        <5>2. 1 \in 1..1 OBVIOUS
        <5> QED BY <4>3, <4>4, <4>6, <5>1, <5>2
      <4>8. DOMAIN b = 1 .. 1 + m BY <4>7
      <4>9. \A i \in 1 .. 1 + m : b[i] # <<>>
        <5> TAKE i \in 1 .. 1 + m
        <5>1. i = 1 \/ (i - 1 \in 1..m /\ 1 + (i - 1) = i) OBVIOUS
        <5> QED BY <3>4, <4>5, <4>7, <5>1
      <4>10. buffered_bytes' = b BY <3>1, <3>2, <4>2, <4>6
      <4> QED BY <4>1, <4>7, <4>8, <4>9, <4>10
    <3> QED BY <1>1, <3>1, <3>5, <3>6 DEF Typed, TypeOK, encoderVars
  <2> QED BY <2>3, <2>4
<1> QED BY <1>3, <1>4

LEMMA TypedFinished == ASSUME Typed, Finished PROVE Typed'
<1>1. FlattenSeq(buffered_bytes) \in Seq(Char) BY FlattenType DEF Typed
<1>2. residue' \in Seq(Char) BY <1>1, Joined DEF Typed, Finished
<1>3. buffered_bytes' = <<>> /\ pc' = "idle" BY DEF Finished
<1>4. UNCHANGED <<encoderVars, state, body_length, output, given>> BY DEF Finished
<1>5. <<>> \in Seq(Seq(Char)) /\ DOMAIN <<>> = {} OBVIOUS
<1> QED BY <1>2, <1>3, <1>4, <1>5 DEF Typed, TypeOK, encoderVars

LEMMA TypedNext == ASSUME Typed, [Next]_vars PROVE Typed'
<1>1. CASE \E text \in Texts : Write(text) BY <1>1, TypedWrite
<1>2. CASE Close BY <1>2, TypedClose
<1>3. CASE \E text \in Interruptions : Interrupt(text) BY <1>3, TypedInterrupt
<1>4. CASE \E n \in 1..Len(wire) - given : Feed(n) BY <1>4, TypedFeed
<1>5. CASE ReadLength BY <1>5, TypedReadLength
<1>6. CASE ReadBody BY <1>6, TypedReadBody
<1>7. CASE Finished BY <1>7, TypedFinished
<1>8. CASE UNCHANGED vars
  BY <1>8 DEF Typed, TypeOK, vars, encoderVars, decoderVars
<1> QED BY <1>1, <1>2, <1>3, <1>4, <1>5, <1>6, <1>7, <1>8 DEF Next, Encoding, Decoding

(* The decoder's state is well formed, whatever the stream holds, printed   *)
(* text included: in a body there is something left to read, none of the    *)
(* pieces that are kept is empty, and no more is read than was written.     *)
THEOREM SpecTypeOK == Spec => []TypeOK
<1>1. Init => Typed BY TypedInit
<1>2. Typed /\ [Next]_vars => Typed' BY TypedNext
<1>3. Typed => TypeOK BY DEF Typed
<1> QED BY <1>1, <1>2, <1>3, PTL DEF Spec

-----------------------------------------------------------------------------
(* The stream: at some places of the content a chunk begins, and cut says   *)
(* where in the stream.                                                     *)

Flushed == Len(written) - Len(encoding)

IsChunk(at, c, n) ==
    /\ at + Len(ChunkHeader(n)) + n <= Len(wire)
    /\ \A i \in 1..Len(ChunkHeader(n)) : wire[at + i] = ChunkHeader(n)[i]
    /\ \A i \in 1..n : wire[at + Len(ChunkHeader(n)) + i] = written[c + i]

(* The chunks written so far end at top, where an empty one ends them all.  *)
EndsAt(top, c) ==
    /\ ~closed => top = Len(wire)
    /\ closed => IsChunk(top, c, 0) /\ end = top + Len(ChunkHeader(0))

Layout(D, cut) ==
    /\ D \in SUBSET Nat /\ cut \in [D -> Nat] /\ Flushed \in D
    /\ \A c \in D : c <= Flushed /\ cut[c] <= Len(wire)
    /\ \A c \in D : c # Flushed =>
         \E n \in Nat \ {0} :
           /\ c + n \in D /\ cut[c + n] = cut[c] + Len(ChunkHeader(n)) + n
           /\ IsChunk(cut[c], c, n)
    /\ \A i \in 1..Len(encoding) : encoding[i] = written[Flushed + i]
    /\ EndsAt(cut[Flushed], Flushed) /\ (closed => encoding = <<>>)

(* Where the decoder is.                                                    *)
Unread == Len(FlattenSeq(buffered_bytes))
Taken == given - Unread

Reading(D, cut) ==
    /\ Len(output) <= Flushed /\ \A i \in 1..Len(output) : output[i] = written[i]
    /\ state = "length" => Len(output) \in D /\ cut[Len(output)] = Taken
    /\ state = "body" =>
         /\ Len(output) + body_length \in D
         /\ cut[Len(output) + body_length] = Taken + body_length
         /\ \A i \in 1..body_length : wire[Taken + i] = written[Len(output) + i]
    /\ state = "finished" =>
         /\ closed /\ Len(output) = Len(written)
         /\ Taken = end + Len(residue) /\ \A i \in 1..Len(residue) : residue[i] = wire[end + i]
    /\ state # "finished" => residue = <<>>

(* What it has not read yet is still in its pieces.                         *)
Buffered ==
    /\ Unread <= given
    /\ \A i \in 1..Unread : FlattenSeq(buffered_bytes)[i] = wire[Taken + i]

Plain(pieces) == pieces \in Seq(Seq(Match \ {LF}))
Shaped ==
    /\ pc = "idle" /\ state = "length" => Plain(buffered_bytes)
    /\ pc = "idle" /\ state # "length" => buffered_bytes = <<>>
    /\ pc = "running" /\ state = "length" =>
         \E front, last : Plain(front) /\ last \in Seq(Char) /\ last # <<>>
                          /\ buffered_bytes = Append(front, last)
    /\ pc = "running" /\ state = "body" =>
         buffered_bytes = <<>> \/ \E piece \in Seq(Char) : buffered_bytes = <<piece>>

Following == \E D, cut : Layout(D, cut) /\ Reading(D, cut)

IInv == Typed /\ (~mixed => Buffered /\ Shaped /\ Following)

LEMMA InitInvariant == Init => IInv
<1> SUFFICES ASSUME Init PROVE IInv OBVIOUS
<1>1. Typed BY TypedInit
<1>2. Unread = 0 /\ Taken = 0
  <2>1. Len(<<>>) = 0 OBVIOUS
  <2> QED BY <2>1, FlattenNone DEF Init, Unread, Taken
<1>3. Buffered BY <1>2 DEF Init, Buffered
<1>4. Shaped
  <2>1. PICK X : X = Seq(Match \ {LF}) OBVIOUS
  <2>2. <<>> \in Seq(X) OBVIOUS
  <2> QED BY <2>1, <2>2 DEF Init, Shaped, Plain
<1>5. Following
  <2> DEFINE D == {0}
             cut == [c \in {0} |-> 0]
  <2>1. Len(<<>>) = 0 OBVIOUS
  <2>2. Flushed = 0 BY <2>1 DEF Init, Flushed
  <2>3. Layout(D, cut) BY <2>1, <2>2 DEF Init, Layout, EndsAt
  <2>4. Reading(D, cut) BY <1>2, <2>1, <2>2 DEF Init, Reading
  <2> QED BY <2>3, <2>4 DEF Following
<1> QED BY <1>1, <1>3, <1>4, <1>5 DEF IInv

-----------------------------------------------------------------------------
(* A sequence that only grows.                                              *)

Grows(s, t) == Len(s) <= Len(t) /\ \A i \in 1..Len(s) : t[i] = s[i]

LEMMA GrowsBy == ASSUME NEW S, NEW s \in Seq(S), NEW t \in Seq(S) PROVE Grows(s, s \o t)
BY Joined DEF Grows

LEMMA GrowsOn ==
  ASSUME NEW S, NEW s \in Seq(S), NEW t \in Seq(S), NEW u \in Seq(S), Grows(s, t), Grows(t, u)
  PROVE  Grows(s, u)
<1>1. Len(s) \in Nat /\ Len(t) \in Nat /\ Len(u) \in Nat OBVIOUS
<1> QED BY <1>1 DEF Grows

(* The chunks that are there stay.                                          *)
LEMMA ChunkStays ==
  ASSUME Typed, Grows(wire, wire'), Grows(written, written'), Typed',
         NEW at \in Nat, NEW c \in Nat, NEW n \in Nat, c + n <= Len(written), IsChunk(at, c, n)
  PROVE  IsChunk(at, c, n)'
<1>1. PICK l \in Nat : l = Len(ChunkHeader(n)) BY HeaderChars
<1>2. PICK x \in Nat, y \in Nat, p \in Nat : x = Len(wire) /\ y = Len(wire') /\ p = Len(written)
  BY DEF Typed
<1>3. /\ at + l + n <= x /\ \A i \in 1..l : wire[at + i] = ChunkHeader(n)[i]
      /\ \A i \in 1..n : wire[at + l + i] = written[c + i]
  BY <1>1, <1>2 DEF IsChunk
<1>4. x <= y /\ \A i \in 1..x : wire'[i] = wire[i] BY <1>2 DEF Grows
<1>5. \A i \in 1..p : written'[i] = written[i] BY <1>2 DEF Grows
<1>6. \A i \in 1..l : at + i \in 1..x BY <1>3
<1>7. \A i \in 1..n : at + l + i \in 1..x /\ c + i \in 1..p BY <1>2, <1>3
<1>8. at + l + n <= y BY <1>2, <1>3, <1>4
<1> QED BY <1>1, <1>2, <1>3, <1>4, <1>5, <1>6, <1>7, <1>8 DEF IsChunk

(* The decoder is where it was while the encoder goes on.                   *)
LEMMA StillReading ==
  ASSUME Typed, Typed', Grows(wire, wire'), Grows(written, written'),
         NEW D, NEW cut, Layout(D, cut), Reading(D, cut), Buffered,
         NEW E, NEW cut2, D \subseteq E, \A c \in D : cut2[c] = cut[c], Flushed <= Flushed',
         ~closed, UNCHANGED <<decoderVars, given>>
  PROVE  Reading(E, cut2)' /\ Buffered'
<1>1. /\ Len(output) \in Nat /\ body_length \in Nat /\ given \in Nat /\ Len(wire) \in Nat
      /\ Len(written) \in Nat /\ Len(encoding) \in Nat /\ given <= Len(wire)
      /\ Len(encoding') \in Nat /\ Len(written') \in Nat
      /\ Unread \in Nat
  <2>1. FlattenSeq(buffered_bytes) \in Seq(Char) BY FlattenType DEF Typed
  <2> QED BY <2>1 DEF Typed, TypeOK, Unread
<1>2. Unread' = Unread /\ Taken' = Taken BY DEF Unread, Taken, decoderVars
<1>3. PICK u \in Nat, k \in Nat : u = Unread /\ k = Taken BY <1>1 DEF Buffered, Taken
<1>4. \A i \in 1..Len(wire) : wire'[i] = wire[i] BY DEF Grows
<1>5. \A i \in 1..Len(written) : written'[i] = written[i] BY DEF Grows
<1>6. Buffered'
  <2>1. \A i \in 1..u : k + i \in 1..Len(wire) BY <1>1, <1>3 DEF Taken
  <2>2. \A i \in 1..u : wire'[k + i] = wire[k + i] BY <1>4, <2>1
  <2> QED BY <1>2, <1>3, <2>2 DEF Buffered, decoderVars
<1>7. PICK f \in Nat, g \in Nat : f = Flushed /\ g = Flushed' /\ f <= Len(written) /\ f <= g
  <2>1. Len(encoding) <= Len(written) /\ Len(encoding') <= Len(written') BY DEF Typed
  <2>2. Flushed \in Nat /\ Flushed' \in Nat /\ Flushed <= Len(written)
    BY <1>1, <2>1 DEF Flushed
  <2> QED BY <2>2
<1>8. /\ state' = state /\ output' = output /\ body_length' = body_length /\ residue' = residue
  BY DEF decoderVars
<1>9. PICK l \in Nat, b \in Nat : l = Len(output) /\ b = body_length BY <1>1
<1>10. l <= g /\ \A i \in 1..l : output[i] = written'[i]
  <2>1. l <= f /\ \A i \in 1..l : output[i] = written[i] BY <1>7, <1>9 DEF Reading
  <2>2. \A i \in 1..l : i \in 1..Len(written) BY <1>1, <1>7, <2>1
  <2> QED BY <1>5, <1>7, <2>1, <2>2
<1>11. CASE state = "length"
  <2>1. l \in D /\ cut[l] = k BY <1>3, <1>9, <1>11 DEF Reading
  <2>2. l \in E /\ cut2[l] = k BY <2>1
  <2>3. residue = <<>> BY <1>11 DEF Reading
  <2> QED BY <1>2, <1>3, <1>6, <1>7, <1>8, <1>9, <1>10, <1>11, <2>2, <2>3 DEF Reading
<1>12. CASE state = "body"
  <2>1. /\ l + b \in D /\ cut[l + b] = k + b
        /\ \A i \in 1..b : wire[k + i] = written[l + i]
    BY <1>3, <1>9, <1>12 DEF Reading
  <2>2. l + b \in E /\ cut2[l + b] = k + b BY <2>1
  <2>3. l + b <= f /\ k + b <= Len(wire) BY <1>7, <2>1 DEF Layout
  <2>4. \A i \in 1..b : k + i \in 1..Len(wire) /\ l + i \in 1..Len(written)
    BY <1>1, <1>7, <2>3
  <2>5. \A i \in 1..b : wire'[k + i] = written'[l + i] BY <1>4, <1>5, <2>1, <2>4
  <2>6. residue = <<>> BY <1>12 DEF Reading
  <2> QED BY <1>2, <1>3, <1>6, <1>7, <1>8, <1>9, <1>10, <1>12, <2>2, <2>5, <2>6 DEF Reading
<1>13. CASE state = "finished" BY <1>13 DEF Reading
<1> QED BY <1>11, <1>12, <1>13 DEF Typed, TypeOK

-----------------------------------------------------------------------------
(* The encoder's steps.                                                     *)

LEMMA FlushedIs ==
  ASSUME Typed PROVE Flushed \in Nat /\ Flushed + Len(encoding) = Len(written)
<1>1. Len(encoding) \in Nat /\ Len(written) \in Nat /\ Len(encoding) <= Len(written) BY DEF Typed
<1> QED BY <1>1 DEF Flushed

(* r is h, e and x written after w.                                         *)
WrittenAfter(r, w, h, e, x) ==
    /\ r \in Seq(Char) /\ Grows(w, r) /\ Len(r) = Len(w) + Len(h) + Len(e) + Len(x)
    /\ \A i \in 1..Len(h) : r[Len(w) + i] = h[i]
    /\ \A i \in 1..Len(e) : r[Len(w) + Len(h) + i] = e[i]
    /\ \A i \in 1..Len(x) : r[Len(w) + Len(h) + Len(e) + i] = x[i]

LEMMA ChunkMade ==
  ASSUME NEW w \in Seq(Char), NEW h \in Seq(Char), NEW e \in Seq(Char), NEW x \in Seq(Char)
  PROVE  WrittenAfter(w \o (h \o e) \o x, w, h, e, x)
<1>1. PICK a \in Nat, b \in Nat, c \in Nat, d \in Nat :
        a = Len(w) /\ b = Len(h) /\ c = Len(e) /\ d = Len(x)
  OBVIOUS
<1>2. PICK p, q, r : p = h \o e /\ q = w \o p /\ r = q \o x OBVIOUS
<1>3. /\ p \in Seq(Char) /\ Len(p) = b + c /\ \A i \in 1..b : p[i] = h[i]
      /\ \A i \in 1..c : p[b + i] = e[i]
  BY <1>1, <1>2, Joined
<1>4. /\ q \in Seq(Char) /\ Len(q) = a + (b + c) /\ \A i \in 1..a : q[i] = w[i]
      /\ \A i \in 1 .. b + c : q[a + i] = p[i]
  BY <1>1, <1>2, <1>3, Joined
<1>5. /\ r \in Seq(Char) /\ Len(r) = a + (b + c) + d
      /\ \A i \in 1 .. a + (b + c) : r[i] = q[i]
      /\ \A i \in 1..d : r[a + (b + c) + i] = x[i]
  BY <1>1, <1>2, <1>4, Joined
<1>6. Grows(w, r)
  <2>1. \A i \in 1..a : i \in 1 .. a + (b + c) OBVIOUS
  <2> QED BY <1>1, <1>4, <1>5, <2>1 DEF Grows
<1>7. \A i \in 1..b : r[a + i] = h[i]
  <2> TAKE i \in 1..b
  <2>1. a + i \in 1 .. a + (b + c) /\ i \in 1 .. b + c OBVIOUS
  <2> QED BY <1>3, <1>4, <1>5, <2>1
<1>8. \A i \in 1..c : r[a + b + i] = e[i]
  <2> TAKE i \in 1..c
  <2>1. a + (b + i) \in 1 .. a + (b + c) /\ b + i \in 1 .. b + c /\ a + b + i = a + (b + i) OBVIOUS
  <2>2. r[a + (b + i)] = q[a + (b + i)] /\ q[a + (b + i)] = p[b + i] /\ p[b + i] = e[i]
    BY <1>3, <1>4, <1>5, <2>1
  <2> QED BY <2>1, <2>2
<1>9. \A i \in 1..d : r[a + b + c + i] = x[i]
  <2> TAKE i \in 1..d
  <2>1. a + b + c + i = a + (b + c) + i OBVIOUS
  <2> QED BY <1>5, <2>1
<1>10. Len(r) = a + b + c + d BY <1>5
<1>11. WrittenAfter(r, w, h, e, x)
  BY <1>1, <1>5, <1>6, <1>7, <1>8, <1>9, <1>10 DEF WrittenAfter
<1> QED BY <1>2, <1>11

(* No chunk more.                                                           *)
LEMMA LayoutStays ==
  ASSUME Typed, Typed', Grows(wire, wire'), Grows(written, written'), ~closed,
         NEW D, NEW cut, Layout(D, cut), NEW f \in Nat, f = Flushed, Flushed' = f,
         \A i \in 1..Len(encoding') : encoding'[i] = written'[f + i],
         EndsAt(cut[f], f)', closed' => encoding' = <<>>
  PROVE  Layout(D, cut)'
<1>1. D \in SUBSET Nat /\ cut \in [D -> Nat] /\ f \in D BY DEF Layout
<1>2. Len(wire) \in Nat /\ Len(wire') \in Nat /\ Len(wire) <= Len(wire')
      /\ Len(written) \in Nat /\ f <= Len(written)
  <2>1. Len(encoding) \in Nat BY DEF Typed
  <2>2. f + Len(encoding) = Len(written) BY FlushedIs
  <2>3. Len(wire) \in Nat /\ Len(wire') \in Nat /\ Len(written) \in Nat BY DEF Typed
  <2>4. Len(wire) <= Len(wire') BY DEF Grows
  <2>5. f <= Len(written) BY <2>1, <2>2, <2>3
  <2> QED BY <2>3, <2>4, <2>5
<1>3. ASSUME NEW c \in D PROVE c <= f /\ cut[c] <= Len(wire')
  <2>1. c <= f /\ cut[c] <= Len(wire) /\ cut[c] \in Nat BY <1>1 DEF Layout
  <2> QED BY <1>2, <2>1
<1>4. ASSUME NEW c \in D, c # f
      PROVE  \E n \in Nat \ {0} :
               /\ c + n \in D /\ cut[c + n] = cut[c] + Len(ChunkHeader(n)) + n
               /\ IsChunk(cut[c], c, n)'
  <2>1. PICK n \in Nat \ {0} : /\ c + n \in D /\ cut[c + n] = cut[c] + Len(ChunkHeader(n)) + n
                               /\ IsChunk(cut[c], c, n)
    BY <1>4 DEF Layout
  <2>2. c \in Nat /\ cut[c] \in Nat /\ c + n <= f BY <1>1, <1>3, <2>1
  <2>3. c + n <= Len(written) BY <1>2, <2>2
  <2>4. IsChunk(cut[c], c, n)'
    <3>1. PICK at \in Nat : at = cut[c] BY <2>2
    <3>2. IsChunk(at, c, n)' BY <2>1, <2>2, <2>3, <3>1, ChunkStays
    <3> QED BY <3>1, <3>2
  <2> QED BY <2>1, <2>4
<1> QED BY <1>1, <1>3, <1>4 DEF Layout

(* One chunk more, of m bytes.                                              *)
LEMMA LayoutGrows ==
  ASSUME Typed, Typed', Grows(wire, wire'), Grows(written, written'), ~closed,
         NEW D, NEW cut, Layout(D, cut),
         NEW f \in Nat, f = Flushed, NEW at \in Nat, at = Len(wire),
         NEW m \in Nat \ {0}, IsChunk(at, f, m)', Flushed' = f + m, encoding' = <<>>,
         NEW top \in Nat, top = at + Len(ChunkHeader(m)) + m,
         EndsAt(top, f + m)'
  PROVE  \E E, cut2 : Layout(E, cut2)' /\ D \subseteq E /\ \A c \in D : cut2[c] = cut[c]
<1>1. D \in SUBSET Nat /\ cut \in [D -> Nat] /\ f \in D /\ cut[f] = at BY DEF Layout, EndsAt
<1>2. Len(wire) \in Nat /\ Len(wire') \in Nat /\ Len(wire) <= Len(wire')
      /\ Len(written) \in Nat /\ f <= Len(written)
  <2>1. Len(encoding) \in Nat BY DEF Typed
  <2>2. f + Len(encoding) = Len(written) BY FlushedIs
  <2>3. Len(wire) \in Nat /\ Len(wire') \in Nat /\ Len(written) \in Nat BY DEF Typed
  <2>4. Len(wire) <= Len(wire') BY DEF Grows
  <2>5. f <= Len(written) BY <2>1, <2>2, <2>3
  <2> QED BY <2>3, <2>4, <2>5
<1>3. ASSUME NEW c \in D PROVE c \in Nat /\ c <= f /\ cut[c] \in Nat /\ cut[c] <= Len(wire')
  <2>1. c <= f /\ cut[c] <= Len(wire) /\ cut[c] \in Nat /\ c \in Nat BY <1>1 DEF Layout
  <2> QED BY <1>2, <2>1
<1>4. PICK g \in Nat : g = f + m OBVIOUS
<1>5. g \notin D
  <2> SUFFICES ASSUME g \in D PROVE FALSE OBVIOUS
  <2>1. g <= f BY <1>3
  <2> QED BY <1>4, <2>1
<1>6. PICK E, cut2 : E = D \cup {g} /\ cut2 = [c \in E |-> IF c \in D THEN cut[c] ELSE top]
  OBVIOUS
<1>7. /\ E \in SUBSET Nat /\ cut2 \in [E -> Nat] /\ g \in E /\ cut2[g] = top
      /\ D \subseteq E /\ \A c \in D : cut2[c] = cut[c]
  BY <1>1, <1>5, <1>6
<1>8. top <= Len(wire') BY DEF IsChunk
<1>9. ASSUME NEW c \in E PROVE c <= g /\ cut2[c] <= Len(wire')
  <2>1. CASE c = g BY <1>7, <1>8, <2>1
  <2>2. CASE c # g
    <3>1. c \in D BY <1>6, <2>2
    <3>2. c \in Nat /\ c <= f /\ cut[c] <= Len(wire') /\ cut2[c] = cut[c] BY <1>3, <1>7, <3>1
    <3> QED BY <1>4, <3>2
  <2> QED BY <2>1, <2>2
<1>10. ASSUME NEW c \in E, c # g
       PROVE  \E n \in Nat \ {0} :
                /\ c + n \in E /\ cut2[c + n] = cut2[c] + Len(ChunkHeader(n)) + n
                /\ IsChunk(cut2[c], c, n)'
  <2>1. c \in D /\ cut2[c] = cut[c] BY <1>6, <1>7, <1>10
  <2>2. CASE c = f
    <3>1. c + m \in E /\ cut2[c + m] = top BY <1>4, <1>7, <2>2
    <3>2. cut2[c] = at BY <1>1, <2>1, <2>2
    <3> QED BY <2>2, <3>1, <3>2
  <2>3. CASE c # f
    <3>1. PICK n \in Nat \ {0} : /\ c + n \in D /\ cut[c + n] = cut[c] + Len(ChunkHeader(n)) + n
                                 /\ IsChunk(cut[c], c, n)
      BY <2>1, <2>3 DEF Layout
    <3>2. c \in Nat /\ cut[c] \in Nat /\ c + n <= f BY <1>3, <2>1, <3>1
    <3>3. c + n <= Len(written) BY <1>2, <3>2
    <3>4. PICK p \in Nat : p = cut[c] BY <3>2
    <3>5. IsChunk(p, c, n)' BY <3>1, <3>2, <3>3, <3>4, ChunkStays
    <3>6. c + n \in E /\ cut2[c + n] = cut[c + n] BY <1>7, <3>1
    <3> QED BY <2>1, <3>1, <3>4, <3>5, <3>6
  <2> QED BY <2>2, <2>3
<1>11. \A i \in 1..Len(encoding') : encoding'[i] = written'[g + i]
  <2>1. Len(<<>>) = 0 OBVIOUS
  <2> QED BY <2>1
<1>12. Layout(E, cut2)' BY <1>4, <1>7, <1>9, <1>10, <1>11 DEF Layout
<1> QED BY <1>7, <1>12

LEMMA ShapeStays == ASSUME Shaped, UNCHANGED decoderVars PROVE Shaped'
BY DEF Shaped, decoderVars

LEMMA InvWrite ==
  ASSUME Typed, ~mixed, Buffered, Shaped, Following, NEW text \in Texts, Write(text)
  PROVE  Typed' /\ Buffered' /\ Shaped' /\ Following'
<1>1. Typed' /\ text \in Seq(Char) /\ Len(text) \in Nat BY TypedWrite
<1>2. PICK D, cut : Layout(D, cut) /\ Reading(D, cut) BY DEF Following
<1>3. ~closed /\ UNCHANGED <<closed, decoderVars, given>> /\ written' = written \o text
  BY DEF Write
<1>4. /\ Grows(written, written') /\ Len(written') = Len(written) + Len(text)
      /\ \A i \in 1..Len(text) : written'[Len(written) + i] = text[i]
      /\ \A i \in 1..Len(written) : written'[i] = written[i]
  <2>1. written \in Seq(Char) BY DEF Typed
  <2>2. Grows(written, written \o text) BY <1>1, <2>1, GrowsBy
  <2>3. /\ Len(written \o text) = Len(written) + Len(text)
        /\ \A i \in 1..Len(text) : (written \o text)[Len(written) + i] = text[i]
        /\ \A i \in 1..Len(written) : (written \o text)[i] = written[i]
    BY <1>1, <2>1, Joined
  <2> QED BY <1>3, <2>2, <2>3, Zenon
<1>5. PICK f \in Nat : f = Flushed /\ f + Len(encoding) = Len(written) BY FlushedIs
<1>6. Flushed' \in Nat /\ Flushed' + Len(encoding') = Len(written')
  <2>1. (Flushed \in Nat /\ Flushed + Len(encoding) = Len(written))'
    <3>1. Len(encoding') \in Nat /\ Len(written') \in Nat /\ Len(encoding') <= Len(written')
      BY <1>1 DEF Typed
    <3> QED BY <3>1 DEF Flushed
  <2> QED BY <2>1
<1>7. PICK w \in Nat, e \in Nat, x \in Nat, k \in Nat :
        w = Len(written) /\ e = Len(encoding) /\ x = Len(text) /\ k = Len(wire)
  BY <1>1 DEF Typed
<1>8. \A i \in 1..e : encoding[i] = written[f + i] BY <1>2, <1>5, <1>7 DEF Layout
<1>9. CASE e + x >= MaxBuffered
  <2>1. PICK m \in Nat \ {0} : m = e + x BY <1>7, <1>9, BoundsAssumption
  <2>2. PICK h : h = ChunkHeader(m) OBVIOUS
  <2>3. h \in Seq(Char) /\ Len(h) \in Nat BY <2>1, <2>2, HeaderChars
  <2>4. wire' = wire \o (h \o encoding) \o text /\ encoding' = <<>>
    <3>1. wire' = wire \o Flush(x) \o text /\ encoding' = <<>> BY <1>7, <1>9 DEF Write
    <3>2. ~(encoding = <<>> /\ x = 0)
      <4>1. Len(<<>>) = 0 OBVIOUS
      <4> QED BY <1>7, <2>1, <4>1
    <3>3. Flush(x) = h \o encoding BY <2>1, <2>2, <1>7, <3>2, FlushIs DEF Typed
    <3> QED BY <3>1, <3>3
  <2>5. PICK l \in Nat : l = Len(h) BY <2>3
  <2>6. /\ Grows(wire, wire') /\ Len(wire') = k + l + e + x
        /\ \A i \in 1..l : wire'[k + i] = h[i]
        /\ \A i \in 1..e : wire'[k + l + i] = encoding[i]
        /\ \A i \in 1..x : wire'[k + l + e + i] = text[i]
    <3>1. wire \in Seq(Char) /\ encoding \in Seq(Char) BY DEF Typed
    <3>2. WrittenAfter(wire', wire, h, encoding, text) BY <1>1, <2>3, <2>4, <3>1, ChunkMade
    <3> QED BY <1>7, <2>5, <3>2, Zenon DEF WrittenAfter
  <2>7. \A i \in 1..m : wire'[k + l + i] = written'[f + i]
    <3> TAKE i \in 1..m
    <3>1. CASE i <= e
      <4>1. i \in 1..e /\ f + i \in 1..w BY <1>5, <1>7, <3>1
      <4>2. wire'[k + l + i] = encoding[i] /\ encoding[i] = written[f + i] BY <1>8, <2>6, <4>1
      <4>3. written'[f + i] = written[f + i] BY <1>4, <1>7, <4>1
      <4> QED BY <4>2, <4>3
    <3>2. CASE ~(i <= e)
      <4>1. PICK j \in 1..x : j = i - e
        <5>1. i - e \in 1..x BY <2>1, <3>2
        <5> QED BY <5>1
      <4>2. k + l + e + j = k + l + i /\ w + j = f + i BY <1>5, <1>7, <4>1
      <4>3. wire'[k + l + e + j] = text[j] /\ written'[w + j] = text[j]
        BY <1>4, <1>7, <2>6
      <4> QED BY <4>2, <4>3
    <3> QED BY <3>1, <3>2
  <2>8. IsChunk(k, f, m)'
    <3>1. k + l + m <= Len(wire') BY <2>1, <2>6
    <3> QED BY <2>2, <2>5, <2>6, <2>7, <3>1 DEF IsChunk
  <2>9. Flushed' = f + m
    <3>1. Len(encoding') = 0
      <4>1. Len(<<>>) = 0 OBVIOUS
      <4> QED BY <2>4, <4>1
    <3>2. Len(written') = w + x BY <1>4, <1>7
    <3> QED BY <1>5, <1>6, <1>7, <2>1, <3>1, <3>2
  <2>10. PICK top \in Nat : top = k + Len(ChunkHeader(m)) + m BY <2>2, <2>5
  <2>11. top = Len(wire') BY <2>1, <2>2, <2>5, <2>6, <2>10
  <2>12. PICK E, cut2 : Layout(E, cut2)' /\ D \subseteq E /\ \A c \in D : cut2[c] = cut[c]
    <3>1. Layout(D, cut) /\ ~closed /\ ~closed' /\ Grows(written, written') /\ Grows(wire, wire')
      BY <1>2, <1>3, <1>4, <2>6
    <3>2. f = Flushed /\ k = Len(wire) /\ encoding' = <<>> BY <1>5, <1>7, <2>4
    <3>3. EndsAt(top, f + m)' BY <2>11, <3>1 DEF EndsAt
    <3> QED BY <1>1, <2>8, <2>9, <2>10, <3>1, <3>2, <3>3, LayoutGrows
  <2>13. Flushed <= Flushed' BY <1>5, <2>9
  <2>14. Reading(E, cut2)' /\ Buffered'
    <3>1. Layout(D, cut) /\ Reading(D, cut) /\ ~closed /\ UNCHANGED <<decoderVars, given>>
          /\ Grows(written, written') /\ Grows(wire, wire')
      BY <1>2, <1>3, <1>4, <2>6
    <3> QED BY <1>1, <2>12, <2>13, <3>1, StillReading
  <2>15. Shaped' BY <1>3, ShapeStays
  <2> QED BY <1>1, <2>12, <2>14, <2>15 DEF Following
<1>10. CASE ~(e + x >= MaxBuffered)
  <2>1. encoding' = encoding \o text /\ wire' = wire BY <1>7, <1>10 DEF Write
  <2>2. /\ Len(encoding') = e + x /\ \A i \in 1..e : encoding'[i] = encoding[i]
        /\ \A i \in 1..x : encoding'[e + i] = text[i]
    BY <1>1, <1>7, <2>1, Joined DEF Typed
  <2>3. Grows(wire, wire') BY <1>7, <2>1 DEF Grows
  <2>4. Flushed' = f BY <1>4, <1>5, <1>6, <1>7, <2>2
  <2>5. \A i \in 1..Len(encoding') : encoding'[i] = written'[f + i]
    <3> SUFFICES ASSUME NEW i \in 1 .. e + x PROVE encoding'[i] = written'[f + i] BY <2>2
    <3>1. CASE i <= e
      <4>1. i \in 1..e /\ f + i \in 1..w BY <1>5, <1>7, <3>1
      <4>2. encoding'[i] = encoding[i] /\ encoding[i] = written[f + i] BY <1>8, <2>2, <4>1
      <4>3. written'[f + i] = written[f + i] BY <1>4, <1>7, <4>1
      <4> QED BY <4>2, <4>3
    <3>2. CASE ~(i <= e)
      <4>1. PICK j \in 1..x : j = i - e
        <5>1. i - e \in 1..x BY <3>2
        <5> QED BY <5>1
      <4>2. e + j = i /\ w + j = f + i BY <1>5, <1>7, <4>1
      <4>3. encoding'[e + j] = text[j] /\ written'[w + j] = text[j] BY <1>4, <1>7, <2>2
      <4> QED BY <4>2, <4>3
    <3> QED BY <3>1, <3>2
  <2>6. EndsAt(cut[f], f)' /\ ~closed'
    <3>1. cut[f] = Len(wire') BY <1>2, <1>3, <1>5, <2>1 DEF Layout, EndsAt
    <3> QED BY <1>3, <3>1 DEF EndsAt
  <2>7. Layout(D, cut)'
    BY <1>1, <1>2, <1>3, <1>4, <1>5, <2>3, <2>4, <2>5, <2>6, LayoutStays
  <2>8. D \subseteq D /\ (\A c \in D : cut[c] = cut[c]) /\ Flushed <= Flushed' BY <1>5, <2>4
  <2>9. Reading(D, cut)' /\ Buffered'
    BY <1>1, <1>2, <1>3, <1>4, <2>3, <2>8, StillReading
  <2>10. Shaped' BY <1>3, ShapeStays
  <2> QED BY <1>1, <2>7, <2>9, <2>10 DEF Following
<1> QED BY <1>9, <1>10

LEMMA InvClose ==
  ASSUME Typed, ~mixed, Buffered, Shaped, Following, Close
  PROVE  Typed' /\ Buffered' /\ Shaped' /\ Following'
<1>1. Typed' BY TypedClose
<1>2. PICK D, cut : Layout(D, cut) /\ Reading(D, cut) BY DEF Following
<1>3. PICK zero : zero = <<"0", CR, LF>> OBVIOUS
<1>4. zero \in Seq(Char) /\ Len(zero) = 3 /\ zero = ChunkHeader(0) BY <1>3, ZeroChars, HeaderZero
<1>5. /\ ~closed /\ closed' = TRUE /\ encoding' = <<>> /\ UNCHANGED <<written, decoderVars, given>>
      /\ wire' = wire \o Flush(0) \o zero \o Rest /\ end' = Len(wire \o Flush(0) \o zero)
  BY <1>3 DEF Close
<1>6. Rest \in Seq(Char) BY BoundsAssumption DEF Streams
<1>7. PICK f \in Nat : f = Flushed /\ f + Len(encoding) = Len(written) BY FlushedIs
<1>8. PICK w \in Nat, e \in Nat, k \in Nat :
        w = Len(written) /\ e = Len(encoding) /\ k = Len(wire)
  BY DEF Typed
<1>9. Flushed' = f + e
  <2>1. Len(<<>>) = 0 OBVIOUS
  <2> QED BY <1>5, <1>7, <1>8, <2>1 DEF Flushed
<1>10. Grows(written, written') BY <1>5, <1>8 DEF Grows
<1>11. \A i \in 1..e : encoding[i] = written[f + i] BY <1>2, <1>7, <1>8 DEF Layout
<1>12. Shaped' BY <1>5, ShapeStays
<1>13. PICK b : b = wire \o Flush(0) \o zero OBVIOUS
<1>14. wire' = b \o Rest /\ end' = Len(b) BY <1>5, <1>13
<1>15. CASE e = 0
  <2>1. Flush(0) = <<>>
    <3>1. encoding = <<>>
      <4>1. encoding \in Seq(Char) /\ Len(encoding) = 0 BY <1>8, <1>15 DEF Typed
      <4> QED BY <4>1, EmptySeq
    <3>2. 0 \in Nat OBVIOUS
    <3> QED BY <3>1, <3>2, FlushIs DEF Typed
  <2>2. b = wire \o zero
    <3>1. wire \o <<>> = wire BY ConcatEmptySeq DEF Typed
    <3> QED BY <1>13, <2>1, <3>1
  <2>3. b \in Seq(Char) /\ Len(b) = k + 3 /\ \A i \in 1..3 : b[k + i] = zero[i]
    <3>1. wire \in Seq(Char) BY DEF Typed
    <3>2. /\ wire \o zero \in Seq(Char) /\ Len(wire \o zero) = Len(wire) + Len(zero)
          /\ \A i \in 1..Len(zero) : (wire \o zero)[Len(wire) + i] = zero[i]
      BY <1>4, <3>1, Joined
    <3> QED BY <1>4, <1>8, <2>2, <3>2
  <2>4. Grows(wire, b) BY <1>4, <2>2, GrowsBy DEF Typed
  <2>5. Grows(b, wire') BY <1>6, <1>14, <2>3, GrowsBy
  <2>6. Grows(wire, wire') BY <1>1, <2>3, <2>4, <2>5, GrowsOn DEF Typed
  <2>7. IsChunk(k, f, 0)'
    <3>1. k + 3 + 0 <= Len(wire') BY <2>3, <2>5 DEF Grows
    <3>2. \A i \in 1..3 : k + i \in 1..Len(b) BY <2>3
    <3>3. \A i \in 1..3 : wire'[k + i] = zero[i] BY <2>3, <2>5, <3>2 DEF Grows
    <3>4. 1..0 = {} OBVIOUS
    <3> QED BY <1>4, <3>1, <3>3, <3>4 DEF IsChunk
  <2>8. cut[f] = k BY <1>2, <1>5, <1>7, <1>8 DEF Layout, EndsAt
  <2>9. EndsAt(cut[f], f)'
    <3>1. end' = k + Len(ChunkHeader(0)) BY <1>4, <1>14, <2>3
    <3> QED BY <1>5, <2>7, <2>8, <3>1 DEF EndsAt
  <2>10. \A i \in 1..Len(encoding') : encoding'[i] = written'[f + i]
    <3>1. Len(<<>>) = 0 OBVIOUS
    <3> QED BY <1>5, <3>1
  <2>11. Flushed' = f BY <1>9, <1>15
  <2>12. Layout(D, cut)'
    BY <1>1, <1>2, <1>5, <1>7, <1>10, <2>6, <2>9, <2>10, <2>11, LayoutStays
  <2>13. D \subseteq D /\ (\A c \in D : cut[c] = cut[c]) /\ Flushed <= Flushed' BY <1>7, <2>11
  <2>14. Reading(D, cut)' /\ Buffered'
    BY <1>1, <1>2, <1>5, <1>10, <2>6, <2>13, StillReading
  <2> QED BY <1>1, <1>12, <2>12, <2>14 DEF Following
<1>16. CASE e # 0
  <2>1. PICK m \in Nat \ {0} : m = e BY <1>16
  <2>2. PICK h : h = ChunkHeader(m) OBVIOUS
  <2>3. PICK l \in Nat : h \in Seq(Char) /\ l = Len(h) BY <2>1, <2>2, HeaderChars
  <2>4. b = wire \o (h \o encoding) \o zero
    <3>1. encoding # <<>>
      <4>1. Len(<<>>) = 0 OBVIOUS
      <4> QED BY <1>8, <1>16, <4>1
    <3>2. 0 \in Nat /\ Len(encoding) + 0 = m BY <1>8, <2>1
    <3>3. Flush(0) = h \o encoding BY <2>2, <3>1, <3>2, FlushIs DEF Typed
    <3> QED BY <1>13, <3>3
  <2>5. /\ b \in Seq(Char) /\ Grows(wire, b) /\ Len(b) = k + l + e + 3
        /\ \A i \in 1..l : b[k + i] = h[i]
        /\ \A i \in 1..e : b[k + l + i] = encoding[i]
        /\ \A i \in 1..3 : b[k + l + e + i] = zero[i]
    <3>1. wire \in Seq(Char) /\ encoding \in Seq(Char) BY DEF Typed
    <3>2. WrittenAfter(b, wire, h, encoding, zero) BY <1>4, <2>3, <2>4, <3>1, ChunkMade
    <3> QED BY <1>4, <1>8, <2>3, <3>2, Zenon DEF WrittenAfter
  <2>6. Grows(b, wire') BY <1>6, <1>14, <2>5, GrowsBy
  <2>7. Grows(wire, wire') BY <1>1, <2>5, <2>6, GrowsOn DEF Typed
  <2>8. /\ k + l + e + 3 <= Len(wire')
        /\ \A i \in 1 .. k + l + e + 3 : wire'[i] = b[i]
    BY <2>5, <2>6 DEF Grows
  <2>9. IsChunk(k, f, m)'
    <3>1. k + l + m <= Len(wire')
      <4>1. Len(wire') \in Nat BY <1>1 DEF Typed
      <4> QED BY <2>1, <2>8, <4>1
    <3>2. \A i \in 1..l : k + i \in 1 .. k + l + e + 3 OBVIOUS
    <3>3. \A i \in 1..l : wire'[k + i] = h[i] BY <2>5, <2>8, <3>2
    <3>4. \A i \in 1..e : k + l + i \in 1 .. k + l + e + 3 OBVIOUS
    <3>5. \A i \in 1..m : wire'[k + l + i] = written'[f + i]
      BY <1>5, <1>11, <2>1, <2>5, <2>8, <3>4
    <3> QED BY <2>2, <2>3, <3>1, <3>3, <3>5 DEF IsChunk
  <2>10. PICK top \in Nat : top = k + Len(ChunkHeader(m)) + m BY <2>2, <2>3
  <2>11. IsChunk(top, f + m, 0)'
    <3>1. top = k + l + e BY <2>1, <2>2, <2>3, <2>10
    <3>2. top + 3 + 0 <= Len(wire') BY <2>8, <3>1
    <3>3. \A i \in 1..3 : top + i \in 1 .. k + l + e + 3 BY <3>1
    <3>4. \A i \in 1..3 : wire'[top + i] = zero[i] BY <2>5, <2>8, <3>1, <3>3
    <3>5. 1..0 = {} OBVIOUS
    <3> QED BY <1>4, <3>2, <3>4, <3>5 DEF IsChunk
  <2>12. end' = top + Len(ChunkHeader(0)) BY <1>4, <1>14, <2>1, <2>2, <2>3, <2>5, <2>10
  <2>13. Flushed' = f + m BY <1>9, <2>1
  <2>14. PICK E, cut2 : Layout(E, cut2)' /\ D \subseteq E /\ \A c \in D : cut2[c] = cut[c]
    <3>1. Layout(D, cut) /\ ~closed /\ Grows(written, written') /\ Grows(wire, wire')
      BY <1>2, <1>5, <1>10, <2>7
    <3>2. f = Flushed /\ k = Len(wire) /\ encoding' = <<>> BY <1>5, <1>7, <1>8
    <3>3. EndsAt(top, f + m)' BY <1>5, <2>11, <2>12 DEF EndsAt
    <3> QED BY <1>1, <2>9, <2>10, <2>13, <3>1, <3>2, <3>3, LayoutGrows
  <2>15. Flushed <= Flushed' BY <1>7, <2>13
  <2>16. Reading(E, cut2)' /\ Buffered'
    BY <1>1, <1>2, <1>5, <1>10, <2>7, <2>14, <2>15, StillReading
  <2> QED BY <1>1, <1>12, <2>14, <2>16 DEF Following
<1> QED BY <1>15, <1>16

-----------------------------------------------------------------------------
(* The decoder's steps.                                                     *)

LEMMA LayoutSame ==
  ASSUME NEW D, NEW cut, Layout(D, cut), UNCHANGED encoderVars PROVE Layout(D, cut)'
BY DEF Layout, Flushed, IsChunk, EndsAt, encoderVars

(* The numbers that say where the decoder is.                               *)
LEMMA Places ==
  ASSUME Typed, Buffered
  PROVE  /\ Unread \in Nat /\ Taken \in Nat /\ given = Taken + Unread /\ given <= Len(wire)
         /\ FlattenSeq(buffered_bytes) \in Seq(Char)
<1>1. FlattenSeq(buffered_bytes) \in Seq(Char) BY FlattenType DEF Typed
<1>2. Unread \in Nat BY <1>1 DEF Unread
<1>3. given \in Nat /\ given <= Len(wire) /\ Unread <= given
  <2>1. given \in 0..Len(wire) /\ Len(wire) \in Nat BY DEF Typed, TypeOK
  <2> QED BY <2>1 DEF Buffered
<1>4. Taken \in Nat /\ given = Taken + Unread BY <1>2, <1>3 DEF Taken
<1> QED BY <1>1, <1>2, <1>3, <1>4

LEMMA InvFeed ==
  ASSUME Typed, Buffered, Shaped, Following, NEW n \in 1..Len(wire) - given, Feed(n)
  PROVE  Buffered' /\ Shaped' /\ Following'
<1>1. PICK D, cut : Layout(D, cut) /\ Reading(D, cut) BY DEF Following
<1>2. PICK piece : piece = Piece(n) OBVIOUS
<1>3. /\ piece \in Seq(Char) /\ Len(piece) = n /\ piece # <<>>
      /\ \A i \in 1..n : piece[i] = wire[given + i]
  BY <1>2, PieceIs
<1>4. /\ pc = "idle" /\ pc' = "running" /\ given' = given + n
      /\ buffered_bytes' = Append(buffered_bytes, piece)
      /\ UNCHANGED <<encoderVars, state, body_length, output, residue>>
  BY <1>2 DEF Feed
<1>5. PICK u \in Nat, k \in Nat : u = Unread /\ k = Taken /\ given = k + u BY Places
<1>6. PICK f : f = FlattenSeq(buffered_bytes) OBVIOUS
<1>7. f \in Seq(Char) /\ Len(f) = u /\ \A i \in 1..u : f[i] = wire[k + i]
  BY <1>5, <1>6, Places DEF Unread, Buffered
<1>8. PICK g : g = f \o piece OBVIOUS
<1>9. FlattenSeq(buffered_bytes') = g BY <1>3, <1>4, <1>6, <1>8, FlattenAppend DEF Typed
<1>10. /\ Len(g) = u + n /\ \A i \in 1..u : g[i] = f[i]
       /\ \A i \in 1..n : g[u + i] = piece[i]
  <2>1. f \in Seq(Char) /\ piece \in Seq(Char) BY <1>3, <1>7
  <2>2. /\ Len(f \o piece) = Len(f) + Len(piece)
        /\ \A i \in 1..Len(f) : (f \o piece)[i] = f[i]
        /\ \A i \in 1..Len(piece) : (f \o piece)[Len(f) + i] = piece[i]
    BY <2>1, Joined
  <2>3. Len(f) = u /\ Len(piece) = n BY <1>3, <1>7
  <2> QED BY <1>8, <2>2, <2>3, Zenon
<1>11. n \in Nat
  <2>1. Len(wire) \in Nat BY DEF Typed
  <2> QED BY <1>5, <2>1
<1>12. Unread' = u + n /\ Taken' = k
  <2>1. Unread' = u + n BY <1>9, <1>10 DEF Unread
  <2> QED BY <1>4, <1>5, <1>11, <2>1 DEF Taken
<1>13. wire' = wire /\ closed' = closed /\ end' = end /\ written' = written /\ encoding' = encoding
  BY <1>4 DEF encoderVars
<1>14. Buffered'
  <2>1. \A i \in 1 .. u + n : g[i] = wire[k + i]
    <3> TAKE i \in 1 .. u + n
    <3>1. CASE i \in 1..u BY <1>7, <1>10, <3>1
    <3>2. CASE i \notin 1..u
      <4>1. PICK j \in 1..n : j = i - u
        <5>1. i - u \in 1..n BY <1>11, <3>2
        <5> QED BY <5>1
      <4>2. u + j = i /\ given + j = k + i BY <1>5, <1>11, <4>1
      <4> QED BY <1>3, <1>10, <4>2
    <3> QED BY <3>1, <3>2
  <2>2. u + n <= given' BY <1>4, <1>5, <1>11
  <2> QED BY <1>9, <1>12, <1>13, <2>1, <2>2 DEF Buffered
<1>15. Shaped'
  <2>1. ASSUME state = "length"
        PROVE  \E front, last : Plain(front) /\ last \in Seq(Char) /\ last # <<>>
                                /\ buffered_bytes' = Append(front, last)
    <3>1. Plain(buffered_bytes) BY <1>4, <2>1 DEF Shaped
    <3> QED BY <1>3, <1>4, <3>1
  <2>2. ASSUME state = "body" PROVE \E p \in Seq(Char) : buffered_bytes' = <<p>>
    <3>1. buffered_bytes = <<>> BY <1>4, <2>2 DEF Shaped
    <3>2. Append(<<>>, piece) = <<piece>> OBVIOUS
    <3> QED BY <1>3, <1>4, <3>1, <3>2
  <2> QED BY <1>4, <2>1, <2>2 DEF Shaped
<1>16. Layout(D, cut)' BY <1>1, <1>4, LayoutSame
<1>17. Reading(D, cut)'
  <2>1. Flushed' = Flushed /\ Taken' = Taken BY <1>5, <1>12, <1>13 DEF Flushed
  <2> QED BY <1>1, <1>4, <1>13, <2>1 DEF Reading
<1> QED BY <1>14, <1>15, <1>16, <1>17 DEF Following

(* Once the header is read, what is left of the last piece.                 *)
LeftOver(b, x, l) ==
    /\ b = <<>> \/ \E piece \in Seq(Char) : piece # <<>> /\ b = <<piece>>
    /\ FlattenSeq(b) \in Seq(Char) /\ Len(FlattenSeq(b)) = Len(x) - l
    /\ \A i \in 1 .. Len(x) - l : FlattenSeq(b)[i] = x[l + i]

LEMMA Dropped ==
  ASSUME NEW front \in Seq(Seq(Char)), NEW last \in Seq(Char), NEW l \in Nat,
         Len(FlattenSeq(front)) < l, l <= Len(FlattenSeq(front) \o last)
  PROVE  LeftOver(Drop(Append(front, last), l), FlattenSeq(front) \o last, l)
<1> SUFFICES ASSUME NEW x, x = FlattenSeq(front) \o last, l <= Len(x),
                    NEW b, b = Drop(Append(front, last), l)
             PROVE  /\ b = <<>> \/ \E piece \in Seq(Char) : piece # <<>> /\ b = <<piece>>
                    /\ FlattenSeq(b) \in Seq(Char) /\ Len(FlattenSeq(b)) = Len(x) - l
                    /\ \A i \in 1 .. Len(x) - l : FlattenSeq(b)[i] = x[l + i]
  BY Zenon DEF LeftOver
<1>1. PICK f : f = FlattenSeq(front) OBVIOUS
<1>2. f \in Seq(Char) BY <1>1, FlattenType
<1>3. PICK n \in Nat, m \in Nat : n = Len(f) /\ m = Len(last) BY <1>2
<1>4. /\ Len(x) = n + m /\ \A i \in 1..m : x[n + i] = last[i]
  BY <1>1, <1>2, <1>3, Joined
<1>5. n < l /\ l <= n + m BY <1>1, <1>3, <1>4
<1>6. b = IF l = n + m THEN <<>> ELSE <<SubSeq(last, l - n + 1, m)>>
  <2>1. Len(FlattenSeq(front)) = n BY <1>1, <1>3
  <2> QED BY <1>3, <1>5, <2>1, DropLast
<1>7. CASE l = n + m
  <2>1. b = <<>> BY <1>6, <1>7
  <2>2. FlattenSeq(b) = <<>> BY <2>1, FlattenNone
  <2>3. Len(<<>>) = 0 /\ <<>> \in Seq(Char) OBVIOUS
  <2>4. Len(x) - l = 0 BY <1>4, <1>7
  <2>5. FlattenSeq(b) \in Seq(Char) /\ Len(FlattenSeq(b)) = Len(x) - l BY <2>2, <2>3, <2>4
  <2>6. \A i \in 1 .. Len(x) - l : FlattenSeq(b)[i] = x[l + i]
    <3>1. 1 .. Len(x) - l = {} BY <2>4
    <3> QED BY <3>1
  <2> QED BY <2>1, <2>5, <2>6, Zenon
<1>8. CASE l # n + m
  <2>1. PICK rest : rest = SubSeq(last, l - n + 1, m) OBVIOUS
  <2>2. /\ l - n + 1 \in Nat \ {0} /\ m \in 0..Len(last) /\ l - n + 1 <= m + 1
        /\ m - (l - n + 1) + 1 = n + m - l /\ n + m - l # 0
    BY <1>3, <1>5, <1>8
  <2>3. /\ rest \in Seq(Char) /\ Len(rest) = n + m - l
        /\ \A i \in 1 .. n + m - l : rest[i] = last[l - n + 1 + i - 1]
    BY <2>1, <2>2, Slice
  <2>4. rest # <<>>
    <3>1. Len(<<>>) = 0 OBVIOUS
    <3> QED BY <2>2, <2>3, <3>1
  <2>5. b = <<rest>> BY <1>6, <1>8, <2>1
  <2>6. FlattenSeq(b) = rest BY <2>3, <2>5, FlattenOne
  <2>7. \A i \in 1 .. n + m - l : rest[i] = x[l + i]
    <3> TAKE i \in 1 .. n + m - l
    <3>1. PICK j \in 1..m : j = l - n + i
      <4>1. l - n + i \in 1..m BY <1>5
      <4> QED BY <4>1
    <3>2. l - n + 1 + i - 1 = j /\ n + j = l + i BY <3>1
    <3> QED BY <1>4, <2>3, <3>2
  <2>8. FlattenSeq(b) \in Seq(Char) /\ Len(FlattenSeq(b)) = Len(x) - l BY <1>4, <2>3, <2>6
  <2>9. \A i \in 1 .. Len(x) - l : FlattenSeq(b)[i] = x[l + i]
    <3>1. Len(x) - l = n + m - l BY <1>4
    <3> QED BY <2>6, <2>7, <3>1, Zenon
  <2> QED BY <2>3, <2>4, <2>5, <2>8, <2>9, Zenon
<1> QED BY <1>7, <1>8

(* The chunk whose header is read next is there, as far as the decoder was  *)
(* given it.                                                                *)
LEMMA NextChunk ==
  ASSUME Typed, Buffered, NEW D, NEW cut, Layout(D, cut), Reading(D, cut),
         state = "length", Unread > 0
  PROVE  \E m \in Nat :
           /\ IsChunk(Taken, Len(output), m) /\ Len(output) \in Nat
           /\ m # 0 => /\ Len(output) + m \in D
                       /\ cut[Len(output) + m] = Taken + Len(ChunkHeader(m)) + m
           /\ m = 0 => /\ closed /\ Len(output) = Len(written)
                       /\ end = Taken + Len(ChunkHeader(0))
<1>1. PICK c : c = Len(output) OBVIOUS
<1>2. c \in D /\ cut[c] = Taken /\ c \in Nat BY <1>1 DEF Reading, Layout
<1>3. CASE c # Flushed
  <2>1. PICK n \in Nat \ {0} : /\ c + n \in D /\ cut[c + n] = cut[c] + Len(ChunkHeader(n)) + n
                               /\ IsChunk(cut[c], c, n)
    BY <1>2, <1>3 DEF Layout
  <2> QED BY <1>1, <1>2, <2>1
<1>4. CASE c = Flushed
  <2>1. closed
    <3> SUFFICES ASSUME ~closed PROVE FALSE OBVIOUS
    <3>1. Taken = Len(wire) BY <1>2, <1>4 DEF Layout, EndsAt
    <3>2. Unread \in Nat /\ given = Taken + Unread /\ given <= Len(wire) /\ Taken \in Nat BY Places
    <3> QED BY <3>1, <3>2
  <2>2. /\ encoding = <<>> /\ IsChunk(Taken, c, 0) /\ end = Taken + Len(ChunkHeader(0))
    BY <1>2, <1>4, <2>1 DEF Layout, EndsAt
  <2>3. c = Len(written)
    <3>1. Len(encoding) = 0
      <4>1. Len(<<>>) = 0 OBVIOUS
      <4> QED BY <2>2, <4>1
    <3>2. Flushed \in Nat /\ Flushed + Len(encoding) = Len(written) BY FlushedIs
    <3> QED BY <1>4, <3>1, <3>2
  <2>4. 0 \in Nat OBVIOUS
  <2> QED BY <1>1, <1>2, <2>1, <2>2, <2>3, <2>4
<1> QED BY <1>3, <1>4

LEMMA PlainType == ASSUME NEW front, Plain(front) PROVE front \in Seq(Seq(Char))
<1>1. PICK Y, Z : Y = Seq(Char) /\ Z = Seq(Match \ {LF}) OBVIOUS
<1>2. front \in Seq(Z) BY <1>1 DEF Plain
<1>3. \A i \in 1..Len(front) : front[i] \in Z BY <1>2
<1>4. Match \ {LF} \subseteq Char BY DigitsAre
<1>5. \A piece \in Z : piece \in Y BY <1>1, <1>4
<1>6. front \in Seq(Y) BY <1>2, <1>3, <1>5, Retyped
<1> QED BY <1>1, <1>6

(* What the header that is read next says.                                  *)
Says(front, last, x, h, m) ==
    /\ x = FlattenSeq(front) \o last /\ front \in Seq(Seq(Char))
    /\ h \in Seq(Char) /\ Len(h) \in Nat \ {0} /\ h[Len(h)] = LF /\ HeaderLength(h) = m
    /\ Len(x) < Len(h) => /\ HeaderIn(buffered_bytes) = x /\ last \in Seq(Match \ {LF})
                          /\ x # <<>> /\ x[Len(x)] # LF
    /\ Len(x) >= Len(h) => /\ HeaderIn(buffered_bytes) = h
                           /\ Len(FlattenSeq(front)) < Len(h)

LEMMA HeaderNext ==
  ASSUME Typed, Buffered, NEW front, NEW last \in Seq(Char), last # <<>>, Plain(front),
         buffered_bytes = Append(front, last),
         NEW c \in Nat, NEW m \in Nat, IsChunk(Taken, c, m),
         NEW h, h = ChunkHeader(m), NEW x, x = FlattenSeq(buffered_bytes)
  PROVE  Says(front, last, x, h, m)
<1>1. PICK l \in Nat \ {0} :
        /\ h \in Seq(Match) /\ Len(h) = l + 2
        /\ \A i \in 1 .. l + 1 : h[i] \in Match \ {LF}
        /\ h[l + 2] = LF /\ HeaderLength(h) = m
  BY HeaderReads
<1>2. h \in Seq(Char) /\ Len(h) \in Nat \ {0} BY HeaderChars
<1>3. front \in Seq(Seq(Char)) BY PlainType
<1>4. x = FlattenSeq(front) \o last BY <1>3, FlattenAppend
<1>5. PICK n \in Nat, k \in Nat : n = Len(x) /\ k = Taken /\ x \in Seq(Char) /\ n = Unread
  BY Places DEF Unread
<1>6. \A i \in 1..n : x[i] = wire[k + i] BY <1>5 DEF Buffered
<1>7. \A i \in 1 .. l + 2 : wire[k + i] = h[i] BY <1>1, <1>5 DEF IsChunk
<1>8. Begins(x, h)
  <2> SUFFICES ASSUME NEW i \in 1..n, i <= l + 2 PROVE x[i] = h[i]
    BY <1>1, <1>5 DEF Begins
  <2>1. i \in 1 .. l + 2 OBVIOUS
  <2> QED BY <1>6, <1>7, <2>1
<1>9. IsHeader(h)
  <2>1. Len(h) - 1 = l + 1 /\ Len(h) >= 1 BY <1>1
  <2> QED BY <1>1, <2>1 DEF IsHeader
<1>10. front \in Seq(Seq(Match \ {LF})) BY DEF Plain
<1>11. ReadAs(front, last, x, h) BY <1>2, <1>4, <1>8, <1>9, <1>10, HeaderRead
<1>12. ASSUME Len(x) < Len(h) PROVE x # <<>> /\ x[Len(x)] # LF
  <2>1. n >= 1
    <3>1. FlattenSeq(front) \in Seq(Char) BY <1>3, FlattenType
    <3>2. Len(x) = Len(FlattenSeq(front)) + Len(last) /\ Len(FlattenSeq(front)) \in Nat
          /\ Len(last) \in Nat
      BY <1>4, <3>1, Joined
    <3>3. Len(last) # 0 BY EmptySeq
    <3>4. PICK d \in Nat, e \in Nat : d = Len(FlattenSeq(front)) /\ e = Len(last) BY <3>2
    <3>5. n = d + e /\ e # 0 BY <1>5, <3>2, <3>3, <3>4, Zenon
    <3> QED BY <3>5
  <2>2. n \in 1 .. l + 1 /\ n \in 1..n /\ n <= l + 2 BY <1>1, <1>5, <1>12, <2>1
  <2>3. x[n] = h[n] /\ h[n] \in Match \ {LF} BY <1>1, <1>5, <1>8, <2>2 DEF Begins
  <2>4. x # <<>>
    <3>1. Len(x) # 0 BY <1>5, <2>1
    <3> QED BY <1>5, <3>1, EmptySeq
  <2> QED BY <1>5, <2>3, <2>4
<1> QED BY <1>1, <1>2, <1>3, <1>4, <1>9, <1>11, <1>12, Zenon DEF IsHeader, ReadAs, Says

LEMMA InvReadLength ==
  ASSUME Typed, Buffered, Shaped, Following, ReadLength
  PROVE  /\ Buffered' /\ Shaped' /\ Following'
         /\ output' = output
         /\ state' = "finished" => closed /\ output = written
<1>1. PICK D, cut : Layout(D, cut) /\ Reading(D, cut) BY DEF Following
<1>2. pc = "running" /\ state = "length" /\ UNCHANGED <<encoderVars, output, residue, given>>
  BY DEF ReadLength
<1>3. wire' = wire /\ closed' = closed /\ end' = end /\ written' = written /\ encoding' = encoding
  BY <1>2 DEF encoderVars
<1>4. PICK front, last : Plain(front) /\ last \in Seq(Char) /\ last # <<>>
                         /\ buffered_bytes = Append(front, last)
  BY <1>2 DEF Shaped
<1>5. PICK x : x = FlattenSeq(buffered_bytes) OBVIOUS
<1>6. PICK u \in Nat, k \in Nat : u = Unread /\ k = Taken /\ given = k + u /\ u = Len(x)
                                   /\ x \in Seq(Char)
  BY <1>5, Places DEF Unread
<1>7. u > 0
  <2>1. front \in Seq(Seq(Char)) BY <1>4, PlainType
  <2>2. x = FlattenSeq(front) \o last BY <1>4, <1>5, <2>1, FlattenAppend
  <2>3. FlattenSeq(front) \in Seq(Char) BY <2>1, FlattenType
  <2>4. Len(x) = Len(FlattenSeq(front)) + Len(last) /\ Len(FlattenSeq(front)) \in Nat
        /\ Len(last) \in Nat
    BY <1>4, <2>2, <2>3, Joined
  <2>5. Len(last) # 0 BY <1>4, EmptySeq
  <2> QED BY <1>6, <2>4, <2>5
<1>8. PICK c : c = Len(output) OBVIOUS
<1>9. PICK m \in Nat :
        /\ IsChunk(k, c, m) /\ c \in Nat
        /\ m # 0 => c + m \in D /\ cut[c + m] = k + Len(ChunkHeader(m)) + m
        /\ m = 0 => closed /\ c = Len(written) /\ end = k + Len(ChunkHeader(0))
  BY <1>1, <1>2, <1>6, <1>7, <1>8, NextChunk
<1>10. PICK h : h = ChunkHeader(m) OBVIOUS
<1>11. /\ x = FlattenSeq(front) \o last /\ front \in Seq(Seq(Char))
       /\ h \in Seq(Char) /\ Len(h) \in Nat \ {0} /\ h[Len(h)] = LF /\ HeaderLength(h) = m
       /\ Len(x) < Len(h) => /\ HeaderIn(buffered_bytes) = x /\ last \in Seq(Match \ {LF})
                             /\ x # <<>> /\ x[Len(x)] # LF
       /\ Len(x) >= Len(h) => /\ HeaderIn(buffered_bytes) = h
                              /\ Len(FlattenSeq(front)) < Len(h)
  <2>1. Says(front, last, x, h, m) BY <1>4, <1>5, <1>6, <1>9, <1>10, HeaderNext
  <2> QED BY <2>1, Zenon DEF Says
<1>12. PICK header : header = HeaderIn(buffered_bytes) OBVIOUS
<1>13. IF header = <<>> \/ header[Len(header)] # LF
         THEN pc' = "idle" /\ UNCHANGED <<state, buffered_bytes, body_length>>
       ELSE IF HeaderLength(header) = -1
         THEN pc' = "raised" /\ UNCHANGED <<state, buffered_bytes, body_length>>
       ELSE /\ body_length' = HeaderLength(header)
            /\ buffered_bytes' = Drop(buffered_bytes, Len(header))
            /\ state' = IF HeaderLength(header) = 0 THEN "finished" ELSE "body"
            /\ pc' = IF HeaderLength(header) = 0 /\ buffered_bytes' = <<>> THEN "idle" ELSE "running"
  BY <1>12, Zenon DEF ReadLength, HeaderIn
<1>14. Layout(D, cut)' BY <1>1, <1>2, LayoutSame
<1>15. Flushed' = Flushed BY <1>3 DEF Flushed
<1>16. PICK l \in Nat : l = Len(h) BY <1>11
<1>17. CASE u < l
  <2>1. pc' = "idle" /\ UNCHANGED <<state, buffered_bytes, body_length>>
    BY <1>6, <1>11, <1>12, <1>13, <1>16, <1>17
  <2>2. Unread' = Unread /\ Taken' = Taken BY <1>2, <2>1 DEF Unread, Taken
  <2>3. Buffered' BY <1>2, <1>3, <2>1, <2>2 DEF Buffered
  <2>4. Plain(buffered_bytes)
    <3>1. PICK X : X = Seq(Match \ {LF}) OBVIOUS
    <3>2. front \in Seq(X) /\ last \in X BY <1>4, <1>6, <1>11, <1>16, <1>17, <3>1 DEF Plain
    <3>3. Append(front, last) \in Seq(X) BY <3>2, AppendProperties
    <3> QED BY <1>4, <3>1, <3>3 DEF Plain
  <2>5. Shaped' BY <1>2, <2>1, <2>4 DEF Shaped, Plain
  <2>6. Reading(D, cut)' BY <1>1, <1>2, <1>3, <1>15, <2>1, <2>2 DEF Reading
  <2> QED BY <1>2, <1>14, <2>1, <2>3, <2>5, <2>6 DEF Following
<1>18. CASE ~(u < l)
  <2>1. header = h /\ Len(FlattenSeq(front)) < l /\ h # <<>>
    <3>1. Len(x) >= Len(h) BY <1>6, <1>16, <1>18
    <3>2. Len(<<>>) = 0 OBVIOUS
    <3> QED BY <1>11, <1>12, <1>16, <3>1, <3>2
  <2>2. /\ body_length' = m /\ buffered_bytes' = Drop(buffered_bytes, l)
        /\ state' = IF m = 0 THEN "finished" ELSE "body"
        /\ pc' = IF m = 0 /\ buffered_bytes' = <<>> THEN "idle" ELSE "running"
    <3>1. m # -1 OBVIOUS
    <3> QED BY <1>11, <1>13, <1>16, <2>1, <3>1
  <2>3. PICK b : b = Drop(Append(front, last), l) OBVIOUS
  <2>4. /\ b = <<>> \/ \E piece \in Seq(Char) : piece # <<>> /\ b = <<piece>>
        /\ FlattenSeq(b) \in Seq(Char) /\ Len(FlattenSeq(b)) = Len(x) - l
        /\ \A i \in 1 .. Len(x) - l : FlattenSeq(b)[i] = x[l + i]
    <3>1. l <= Len(x) BY <1>6, <1>18
    <3>2. x = FlattenSeq(front) \o last /\ front \in Seq(Seq(Char)) BY <1>11
    <3>3. LeftOver(b, x, l) BY <1>4, <2>1, <2>3, <3>1, <3>2, Dropped
    <3> QED BY <3>3, Zenon DEF LeftOver
  <2>5. buffered_bytes' = b BY <1>4, <2>2, <2>3
  <2>6. Unread' = u - l /\ Taken' = k + l
    <3>1. Unread' = u - l BY <1>6, <2>4, <2>5 DEF Unread
    <3>2. given' = given BY <1>2
    <3> QED BY <1>6, <3>1, <3>2 DEF Taken
  <2>7. Buffered'
    <3>1. \A i \in 1 .. u - l : FlattenSeq(b)[i] = wire[k + l + i]
      <4> TAKE i \in 1 .. u - l
      <4>1. l + i \in 1..u /\ k + (l + i) = k + l + i OBVIOUS
      <4>2. x[l + i] = wire[k + (l + i)] BY <1>5, <1>6, <4>1 DEF Buffered
      <4> QED BY <1>6, <2>4, <4>1, <4>2
    <3>2. u - l <= given BY <1>6
    <3> QED BY <1>2, <1>3, <2>5, <2>6, <3>1, <3>2 DEF Buffered
  <2>8. residue = <<>> BY <1>1, <1>2 DEF Reading
  <2>9. CASE m = 0
    <3>1. state' = "finished" BY <2>2, <2>9
    <3>2. Shaped'
      <4>1. pc' \in {"idle", "running"} /\ (pc' = "idle" => buffered_bytes' = <<>>) BY <2>2
      <4> QED BY <3>1, <4>1 DEF Shaped
    <3>3. closed /\ Len(output) = Len(written) /\ end = k + l BY <1>8, <1>9, <1>10, <1>16, <2>9
    <3>4. Len(residue) = 0 /\ 1..0 = {}
      <4>1. Len(<<>>) = 0 OBVIOUS
      <4> QED BY <2>8, <4>1
    <3>5. Reading(D, cut)'
      <4>1. Taken' = end + Len(residue) BY <2>6, <3>3, <3>4
      <4>2. \A i \in 1..Len(residue) : residue[i] = wire[end + i] BY <3>4
      <4> QED BY <1>1, <1>2, <1>3, <1>15, <3>1, <3>3, <4>1, <4>2 DEF Reading
    <3>6. output = written
      <4>1. \A i \in 1..Len(output) : output[i] = written[i] BY <1>1 DEF Reading
      <4> QED BY <3>3, <4>1, SeqEqual DEF Typed
    <3> QED BY <1>2, <1>14, <2>7, <3>2, <3>3, <3>5, <3>6 DEF Following
  <2>10. CASE m # 0
    <3>1. state' = "body" /\ pc' = "running" /\ body_length' = m BY <2>2, <2>10
    <3>2. Shaped' BY <2>4, <2>5, <3>1 DEF Shaped
    <3>3. c + m \in D /\ cut[c + m] = k + l + m BY <1>9, <1>10, <1>16, <2>10
    <3>4. \A i \in 1..m : wire[k + l + i] = written[c + i] BY <1>9, <1>10, <1>16 DEF IsChunk
    <3>5. Reading(D, cut)'
      BY <1>1, <1>2, <1>3, <1>8, <1>15, <2>6, <2>8, <3>1, <3>3, <3>4 DEF Reading
    <3> QED BY <1>2, <1>14, <2>7, <3>1, <3>2, <3>5 DEF Following
  <2> QED BY <2>9, <2>10
<1> QED BY <1>17, <1>18

LEMMA InvReadBody ==
  ASSUME Typed, Buffered, Shaped, Following, ReadBody
  PROVE  /\ Buffered' /\ Shaped' /\ Following'
         /\ Len(output) <= Len(output') /\ Len(output') <= Len(written)
         /\ \A i \in 1..Len(output) : output'[i] = output[i]
         /\ \A i \in 1..Len(output') : output'[i] = written[i]
<1>1. PICK D, cut : Layout(D, cut) /\ Reading(D, cut) BY DEF Following
<1>2. pc = "running" /\ state = "body" /\ UNCHANGED <<encoderVars, residue, given>>
  BY DEF ReadBody
<1>3. wire' = wire /\ closed' = closed /\ end' = end /\ written' = written /\ encoding' = encoding
  BY <1>2 DEF encoderVars
<1>4. Layout(D, cut)' /\ Flushed' = Flushed BY <1>1, <1>2, <1>3, LayoutSame DEF Flushed
<1>5. PICK u \in Nat, k \in Nat : u = Unread /\ k = Taken /\ given = k + u BY Places
<1>6. PICK l \in Nat, n \in Nat : l = Len(output) /\ n = body_length
  BY DEF Typed, TypeOK
<1>7. PICK p \in Nat, f \in Nat : p = Len(written) /\ f = Flushed /\ f <= p
  <2>1. Flushed \in Nat /\ Flushed + Len(encoding) = Len(written) BY FlushedIs
  <2>2. Len(encoding) \in Nat /\ Len(written) \in Nat BY DEF Typed
  <2> QED BY <2>1, <2>2
<1>8. /\ l + n \in D /\ cut[l + n] = k + n /\ l + n <= f
      /\ \A i \in 1..n : wire[k + i] = written[l + i]
      /\ \A i \in 1..l : output[i] = written[i]
      /\ residue = <<>>
  <2>1. /\ l + n \in D /\ cut[l + n] = k + n
        /\ \A i \in 1..n : wire[k + i] = written[l + i]
        /\ \A i \in 1..l : output[i] = written[i]
        /\ residue = <<>>
    BY <1>1, <1>2, <1>5, <1>6 DEF Reading
  <2> QED BY <1>1, <1>7, <2>1 DEF Layout
<1>9. CASE buffered_bytes = <<>>
  <2>1. pc' = "idle" /\ UNCHANGED <<state, buffered_bytes, body_length, output>>
    BY <1>9 DEF ReadBody
  <2>2. Unread' = Unread /\ Taken' = Taken BY <1>2, <2>1 DEF Unread, Taken
  <2>3. Buffered' BY <1>2, <1>3, <2>1, <2>2 DEF Buffered
  <2>4. Shaped' BY <1>2, <1>9, <2>1 DEF Shaped
  <2>5. Reading(D, cut)' BY <1>1, <1>2, <1>3, <1>4, <2>1, <2>2 DEF Reading
  <2>6. l <= p BY <1>7, <1>8
  <2> QED BY <1>4, <1>6, <1>7, <1>8, <2>1, <2>3, <2>4, <2>5, <2>6 DEF Following
<1>10. CASE buffered_bytes # <<>>
  <2>1. PICK piece \in Seq(Char) : buffered_bytes = <<piece>> BY <1>2, <1>10 DEF Shaped
  <2>2. piece = Head(buffered_bytes) /\ Tail(buffered_bytes) = <<>>
    <3>1. PICK X : X = Seq(Char) OBVIOUS
    <3>2. buffered_bytes \in Seq(X) /\ Len(buffered_bytes) = 1 /\ buffered_bytes[1] = piece
      BY <2>1, <3>1
    <3>3. /\ Tail(buffered_bytes) \in Seq(X) /\ Len(Tail(buffered_bytes)) = 1 - 1
          /\ Head(buffered_bytes) = buffered_bytes[1]
      BY <1>10, <3>2, HeadTailProperties
    <3>4. Len(Tail(buffered_bytes)) = 0 BY <3>3
    <3>5. Tail(buffered_bytes) = <<>> BY <3>3, <3>4, EmptySeq
    <3> QED BY <3>2, <3>3, <3>5
  <2>3. FlattenSeq(buffered_bytes) = piece /\ Len(piece) = u
    <3>1. FlattenSeq(buffered_bytes) = piece BY <2>1, FlattenOne
    <3> QED BY <1>5, <3>1 DEF Unread
  <2>4. \A i \in 1..u : piece[i] = wire[k + i] BY <1>5, <2>3 DEF Buffered
  <2>5. CASE n >= u
    <3>1. /\ output' = output \o piece /\ body_length' = n - u /\ buffered_bytes' = <<>>
          /\ IF n - u = 0 THEN state' = "length" /\ pc' = "idle" ELSE UNCHANGED <<state, pc>>
      <4>1. body_length >= Len(piece) BY <1>6, <2>3, <2>5
      <4> QED BY <1>6, <1>10, <2>2, <2>3, <4>1 DEF ReadBody
    <3>2. /\ Len(output') = l + u /\ \A i \in 1..l : output'[i] = output[i]
          /\ \A i \in 1..u : output'[l + i] = piece[i]
      <4>1. output \in Seq(Char) BY DEF Typed
      <4>2. piece \in Seq(Char) BY <2>1
      <4>3. /\ Len(output \o piece) = Len(output) + Len(piece)
            /\ \A i \in 1..Len(output) : (output \o piece)[i] = output[i]
            /\ \A i \in 1..Len(piece) : (output \o piece)[Len(output) + i] = piece[i]
        BY <4>1, <4>2, Joined
      <4>4. output' = output \o piece /\ l = Len(output) /\ Len(piece) = u
        BY <1>6, <2>3, <3>1
      <4> QED BY <4>3, <4>4, Zenon
    <3>3. Unread' = 0 /\ Taken' = k + u
      <4>1. FlattenSeq(buffered_bytes') = <<>> BY <3>1, FlattenNone
      <4>2. Len(<<>>) = 0 OBVIOUS
      <4>3. Unread' = 0 BY <4>1, <4>2 DEF Unread
      <4> QED BY <1>2, <1>5, <4>3 DEF Taken
    <3>4. Buffered'
      <4>1. 1..0 = {} OBVIOUS
      <4>2. 0 <= given BY <1>5
      <4> QED BY <1>2, <3>3, <4>1, <4>2 DEF Buffered
    <3>5. \A i \in 1 .. l + u : output'[i] = written[i]
      <4> TAKE i \in 1 .. l + u
      <4>1. CASE i \in 1..l BY <1>8, <3>2, <4>1
      <4>2. CASE i \notin 1..l
        <5>1. PICK j \in 1..u : j = i - l
          <6>1. i - l \in 1..u BY <4>2
          <6> QED BY <6>1
        <5>2. j \in 1..n /\ l + j = i BY <2>5, <5>1
        <5> QED BY <1>8, <2>4, <3>2, <5>2
      <4> QED BY <4>1, <4>2
    <3>6. l + u <= f BY <1>8, <2>5
    <3>7. Plain(<<>>)
      <4>1. PICK X : X = Seq(Match \ {LF}) OBVIOUS
      <4>2. <<>> \in Seq(X) OBVIOUS
      <4> QED BY <4>1, <4>2 DEF Plain
    <3>8. Shaped' BY <1>2, <3>1, <3>7 DEF Shaped, Plain
    <3>9. Reading(D, cut)'
      <4>1. CASE n = u
        <5>1. state' = "length" /\ l + u \in D /\ cut[l + u] = k + u BY <1>8, <3>1, <4>1
        <5> QED BY <1>2, <1>4, <1>7, <1>8, <1>3, <3>2, <3>3, <3>5, <3>6, <5>1 DEF Reading
      <4>2. CASE n # u
        <5>1. state' = "body" BY <1>2, <3>1, <4>2
        <5>2. l + u + (n - u) = l + n /\ k + u + (n - u) = k + n OBVIOUS
        <5>3. \A i \in 1 .. n - u : wire[k + u + i] = written[l + u + i]
          <6> TAKE i \in 1 .. n - u
          <6>1. u + i \in 1..n /\ k + (u + i) = k + u + i /\ l + (u + i) = l + u + i
            BY <2>5
          <6> QED BY <1>8, <6>1
        <5> QED BY <1>2, <1>3, <1>4, <1>7, <1>8, <3>1, <3>2, <3>3, <3>5, <3>6, <5>1, <5>2, <5>3
            DEF Reading
      <4> QED BY <4>1, <4>2
    <3>10. l <= l + u /\ l + u <= p BY <1>7, <3>6
    <3> QED BY <1>4, <1>6, <1>7, <3>2, <3>4, <3>5, <3>8, <3>9, <3>10 DEF Following
  <2>6. CASE ~(n >= u)
    <3>1. PICK some, rest : some = SubSeq(piece, 1, n) /\ rest = SubSeq(piece, n + 1, u) OBVIOUS
    <3>2. /\ some \in Seq(Char) /\ Len(some) = n /\ \A i \in 1..n : some[i] = piece[i]
      <4>1. n \in 0..Len(piece) /\ 1 \in Nat \ {0} /\ 1 <= n + 1 /\ n - 1 + 1 = n
            /\ \A i \in 1..n : 1 + i - 1 = i
        BY <2>3, <2>6
      <4>2. /\ some \in Seq(Char) /\ Len(some) = n - 1 + 1
            /\ \A i \in 1 .. n - 1 + 1 : some[i] = piece[1 + i - 1]
        BY <3>1, <4>1, Slice
      <4> QED BY <4>1, <4>2
    <3>3. /\ rest \in Seq(Char) /\ Len(rest) = u - n
          /\ \A i \in 1 .. u - n : rest[i] = piece[n + i]
      <4>1. n + 1 \in Nat \ {0} /\ u \in 0..Len(piece) /\ n + 1 <= u + 1
            /\ u - (n + 1) + 1 = u - n /\ \A i \in 1 .. u - n : n + 1 + i - 1 = n + i
        BY <2>3, <2>6
      <4>2. /\ rest \in Seq(Char) /\ Len(rest) = u - (n + 1) + 1
            /\ \A i \in 1 .. u - (n + 1) + 1 : rest[i] = piece[n + 1 + i - 1]
        BY <3>1, <4>1, Slice
      <4> QED BY <4>1, <4>2
    <3>4. rest # <<>>
      <4>1. Len(rest) # 0 BY <2>6, <3>3
      <4> QED BY <3>3, <4>1, EmptySeq
    <3>5. /\ output' = output \o some /\ buffered_bytes' = <<rest>>
          /\ body_length' = 0 /\ state' = "length" /\ pc' = "running"
      <4>1. ~(body_length >= Len(piece)) BY <1>6, <2>3, <2>6
      <4>2. /\ output' = output \o some /\ buffered_bytes' = <<rest>> \o Tail(buffered_bytes)
            /\ body_length' = 0 /\ state' = "length" /\ pc' = pc
        BY <1>6, <1>10, <2>2, <2>3, <3>1, <4>1 DEF ReadBody
      <4>3. <<rest>> \in Seq(Seq(Char)) BY <3>3
      <4>4. <<rest>> \o <<>> = <<rest>> BY <4>3, ConcatEmptySeq
      <4> QED BY <1>2, <2>2, <4>2, <4>4
    <3>6. /\ Len(output') = l + n /\ \A i \in 1..l : output'[i] = output[i]
          /\ \A i \in 1..n : output'[l + i] = some[i]
      <4>1. output \in Seq(Char) BY DEF Typed
      <4>2. some \in Seq(Char) BY <3>2
      <4>3. /\ Len(output \o some) = Len(output) + Len(some)
            /\ \A i \in 1..Len(output) : (output \o some)[i] = output[i]
            /\ \A i \in 1..Len(some) : (output \o some)[Len(output) + i] = some[i]
        BY <4>1, <4>2, Joined
      <4>4. output' = output \o some /\ l = Len(output) /\ Len(some) = n
        BY <1>6, <3>2, <3>5
      <4> QED BY <4>3, <4>4, Zenon
    <3>7. Unread' = u - n /\ Taken' = k + n /\ FlattenSeq(buffered_bytes') = rest
      <4>1. FlattenSeq(buffered_bytes') = rest BY <3>3, <3>5, FlattenOne
      <4>2. Unread' = u - n BY <3>3, <4>1 DEF Unread
      <4>3. given' - (u - n) = k + n BY <1>2, <1>5
      <4> QED BY <4>1, <4>2, <4>3 DEF Taken
    <3>8. Buffered'
      <4>1. \A i \in 1 .. u - n : rest[i] = wire[k + n + i]
        <5> TAKE i \in 1 .. u - n
        <5>1. n + i \in 1..u /\ k + (n + i) = k + n + i OBVIOUS
        <5> QED BY <2>4, <3>3, <5>1
      <4>2. u - n <= given BY <1>5
      <4> QED BY <1>2, <1>3, <3>7, <4>1, <4>2 DEF Buffered
    <3>9. \A i \in 1 .. l + n : output'[i] = written[i]
      <4> TAKE i \in 1 .. l + n
      <4>1. CASE i \in 1..l BY <1>8, <3>6, <4>1
      <4>2. CASE i \notin 1..l
        <5>1. PICK j \in 1..n : j = i - l
          <6>1. i - l \in 1..n BY <4>2
          <6> QED BY <6>1
        <5>2. j \in 1..u /\ l + j = i BY <2>6, <5>1
        <5>3. output'[l + j] = some[j] /\ some[j] = piece[j] BY <3>2, <3>6
        <5>4. piece[j] = wire[k + j] /\ wire[k + j] = written[l + j] BY <1>8, <2>4, <5>2
        <5> QED BY <5>2, <5>3, <5>4
      <4> QED BY <4>1, <4>2
    <3>10. Shaped'
      <4>1. Plain(<<>>) /\ Append(<<>>, rest) = <<rest>>
        <5>1. PICK X : X = Seq(Match \ {LF}) OBVIOUS
        <5>2. <<>> \in Seq(X) OBVIOUS
        <5>3. Append(<<>>, rest) = <<rest>> OBVIOUS
        <5> QED BY <5>1, <5>2, <5>3 DEF Plain
      <4>2. \E front, last : Plain(front) /\ last \in Seq(Char) /\ last # <<>>
                             /\ buffered_bytes' = Append(front, last)
        BY <3>3, <3>4, <3>5, <4>1
      <4> QED BY <3>5, <4>2 DEF Shaped
    <3>11. Reading(D, cut)'
      BY <1>2, <1>3, <1>4, <1>7, <1>8, <3>5, <3>6, <3>7, <3>9 DEF Reading
    <3>12. l <= l + n /\ l + n <= p BY <1>7, <1>8
    <3> QED BY <1>4, <1>6, <1>7, <3>6, <3>8, <3>9, <3>10, <3>11, <3>12 DEF Following
  <2> QED BY <2>5, <2>6
<1> QED BY <1>9, <1>10

LEMMA InvFinished ==
  ASSUME Typed, Buffered, Shaped, Following, Finished
  PROVE  Buffered' /\ Shaped' /\ Following'
<1>1. PICK D, cut : Layout(D, cut) /\ Reading(D, cut) BY DEF Following
<1>2. /\ state = "finished" /\ pc' = "idle" /\ buffered_bytes' = <<>>
      /\ residue' = residue \o FlattenSeq(buffered_bytes)
      /\ UNCHANGED <<encoderVars, state, body_length, output, given>>
  BY DEF Finished
<1>3. wire' = wire /\ closed' = closed /\ end' = end /\ written' = written /\ encoding' = encoding
  BY <1>2 DEF encoderVars
<1>4. Layout(D, cut)' /\ Flushed' = Flushed BY <1>1, <1>2, <1>3, LayoutSame DEF Flushed
<1>5. PICK u \in Nat, k \in Nat : u = Unread /\ k = Taken /\ given = k + u BY Places
<1>6. PICK f : f = FlattenSeq(buffered_bytes) OBVIOUS
<1>7. f \in Seq(Char) /\ Len(f) = u /\ \A i \in 1..u : f[i] = wire[k + i]
  BY <1>5, <1>6, Places DEF Unread, Buffered
<1>8. Unread' = 0 /\ Taken' = k + u
  <2>1. FlattenSeq(buffered_bytes') = <<>> BY <1>2, FlattenNone
  <2>2. Len(<<>>) = 0 OBVIOUS
  <2>3. Unread' = 0 BY <2>1, <2>2 DEF Unread
  <2> QED BY <1>2, <1>5, <2>3 DEF Taken
<1>9. Buffered'
  <2>1. 1..0 = {} OBVIOUS
  <2>2. 0 <= given BY <1>5
  <2> QED BY <1>2, <1>8, <2>1, <2>2 DEF Buffered
<1>10. Shaped' BY <1>2 DEF Shaped
<1>11. PICK r \in Nat, e \in Nat : r = Len(residue) /\ e = end BY DEF Typed
<1>12. /\ closed /\ Len(output) = Len(written) /\ k = e + r
       /\ \A i \in 1..r : residue[i] = wire[e + i]
  BY <1>1, <1>2, <1>5, <1>11 DEF Reading
<1>13. /\ Len(residue') = r + u /\ \A i \in 1..r : residue'[i] = residue[i]
       /\ \A i \in 1..u : residue'[r + i] = f[i]
  BY <1>2, <1>6, <1>7, <1>11, Joined DEF Typed
<1>14. \A i \in 1 .. r + u : residue'[i] = wire[e + i]
  <2> TAKE i \in 1 .. r + u
  <2>1. CASE i \in 1..r BY <1>12, <1>13, <2>1
  <2>2. CASE i \notin 1..r
    <3>1. PICK j \in 1..u : j = i - r
      <4>1. i - r \in 1..u BY <2>2
      <4> QED BY <4>1
    <3>2. r + j = i /\ k + j = e + i BY <1>12, <3>1
    <3> QED BY <1>7, <1>13, <3>2
  <2> QED BY <2>1, <2>2
<1>15. k + u = e + (r + u) BY <1>12
<1>16. Reading(D, cut)'
  BY <1>1, <1>2, <1>3, <1>4, <1>8, <1>11, <1>12, <1>13, <1>14, <1>15 DEF Reading
<1> QED BY <1>4, <1>9, <1>10, <1>16 DEF Following

-----------------------------------------------------------------------------
(* The theorems.                                                            *)

LEMMA Printed ==
  ASSUME [Next]_vars, ~mixed'
  PROVE  /\ ~mixed
         /\ \/ \E text \in Texts : Write(text)
            \/ Close
            \/ \E n \in 1..Len(wire) - given : Feed(n)
            \/ ReadLength
            \/ ReadBody
            \/ Finished
            \/ UNCHANGED vars
<1>1. \A text : ~Interrupt(text) BY DEF Interrupt
<1>2. \/ \E text \in Texts : Write(text)
      \/ Close
      \/ \E n \in 1..Len(wire) - given : Feed(n)
      \/ ReadLength
      \/ ReadBody
      \/ Finished
      \/ UNCHANGED vars
  BY <1>1 DEF Next, Encoding, Decoding
<1>3. mixed' = mixed
  BY <1>2 DEF Write, Close, Feed, ReadLength, ReadBody, Finished, vars, encoderVars
<1> QED BY <1>2, <1>3

LEMMA NextInvariant == ASSUME IInv, [Next]_vars PROVE IInv'
<1>1. Typed' BY TypedNext DEF IInv
<1>2. ASSUME ~mixed' PROVE Buffered' /\ Shaped' /\ Following'
  <2>1. Typed /\ ~mixed /\ Buffered /\ Shaped /\ Following BY <1>2, Printed DEF IInv
  <2>2. ASSUME NEW text \in Texts, Write(text) PROVE Buffered' /\ Shaped' /\ Following'
    BY <2>1, <2>2, InvWrite
  <2>3. CASE Close BY <2>1, <2>3, InvClose
  <2>4. ASSUME NEW n \in 1..Len(wire) - given, Feed(n)
        PROVE  Buffered' /\ Shaped' /\ Following'
    BY <2>1, <2>4, InvFeed
  <2>5. CASE ReadLength BY <2>1, <2>5, InvReadLength
  <2>6. CASE ReadBody BY <2>1, <2>6, InvReadBody
  <2>7. CASE Finished BY <2>1, <2>7, InvFinished
  <2>8. CASE UNCHANGED vars
    <3>1. UNCHANGED encoderVars /\ UNCHANGED decoderVars /\ given' = given BY <2>8 DEF vars
    <3>2. Shaped' BY <2>1, <3>1, ShapeStays
    <3>3. Unread' = Unread /\ Taken' = Taken BY <3>1 DEF Unread, Taken, decoderVars
    <3>4. Buffered' BY <2>1, <3>1, <3>3 DEF Buffered, encoderVars, decoderVars
    <3>5. PICK D, cut : Layout(D, cut) /\ Reading(D, cut) BY <2>1 DEF Following
    <3>6. Layout(D, cut)' BY <3>1, <3>5, LayoutSame
    <3>7. Flushed' = Flushed BY <3>1 DEF Flushed, encoderVars
    <3>8. Reading(D, cut)' BY <3>1, <3>3, <3>5, <3>7 DEF Reading, encoderVars, decoderVars
    <3> QED BY <3>2, <3>4, <3>6, <3>8 DEF Following
  <2> QED BY <1>2, <2>2, <2>3, <2>4, <2>5, <2>6, <2>7, <2>8, Printed
<1> QED BY <1>1, <1>2 DEF IInv

THEOREM SpecInvariant == Spec => []IInv
<1>1. Init => IInv BY InitInvariant
<1>2. IInv /\ [Next]_vars => IInv' BY NextInvariant
<1> QED BY <1>1, <1>2, PTL DEF Spec

LEMMA RestReturned == IInv => RestIsReturned
<1> SUFFICES ASSUME IInv, ~mixed, pc = "idle", state = "finished"
             PROVE  residue = SubSeq(wire, end + 1, given)
  BY DEF RestIsReturned
<1>1. Typed /\ Buffered /\ Shaped /\ Following BY DEF IInv
<1>2. PICK D, cut : Reading(D, cut) BY <1>1 DEF Following
<1>3. buffered_bytes = <<>> BY <1>1 DEF Shaped
<1>4. Taken = given
  <2>1. FlattenSeq(buffered_bytes) = <<>> BY <1>3, FlattenNone
  <2>2. Len(<<>>) = 0 OBVIOUS
  <2>3. Unread = 0 BY <2>1, <2>2 DEF Unread
  <2>4. Taken \in Nat /\ given = Taken + Unread BY <1>1, Places
  <2> QED BY <2>3, <2>4
<1>5. PICK r \in Nat, e \in Nat, g \in Nat : r = Len(residue) /\ e = end /\ g = given
  <2>1. given \in Nat BY <1>1, <1>4, Places
  <2> QED BY <1>1, <2>1 DEF Typed
<1>6. g = e + r /\ \A i \in 1..r : residue[i] = wire[e + i] BY <1>2, <1>4, <1>5 DEF Reading
<1>7. PICK s : s = SubSeq(wire, e + 1, g) OBVIOUS
<1>8. s \in Seq(Char) /\ Len(s) = r /\ \A i \in 1..r : s[i] = wire[e + i]
  <2>1. e + 1 \in Nat \ {0} /\ g \in 0..Len(wire) /\ e + 1 <= g + 1 /\ g - (e + 1) + 1 = r
        /\ \A i \in 1..r : e + 1 + i - 1 = e + i
    BY <1>1, <1>5, <1>6 DEF Typed, TypeOK
  <2>2. wire \in Seq(Char) BY <1>1 DEF Typed
  <2>3. /\ s \in Seq(Char) /\ Len(s) = g - (e + 1) + 1
        /\ \A i \in 1 .. g - (e + 1) + 1 : s[i] = wire[e + 1 + i - 1]
    BY <1>7, <2>1, <2>2, Slice
  <2> QED BY <2>1, <2>3
<1>9. residue = s
  <2>1. residue \in Seq(Char) BY <1>1 DEF Typed
  <2> QED BY <1>5, <1>6, <1>8, <2>1, SeqEqual
<1> QED BY <1>5, <1>7, <1>9

(* What follows the content in the stream is returned by the decoder, all   *)
(* of it that it was given and nothing of the content, however the writes   *)
(* and the pieces fall and whatever bytes there are.                        *)
THEOREM SpecRestIsReturned == Spec => []RestIsReturned
<1>1. IInv => RestIsReturned BY RestReturned
<1> QED BY <1>1, SpecInvariant, PTL

LEMMA PrefixIs ==
  ASSUME NEW S, NEW s \in Seq(S), NEW t \in Seq(S), Len(s) <= Len(t),
         \A i \in 1..Len(s) : t[i] = s[i]
  PROVE  Content!IsPrefix(s, t)
<1>1. PICK n \in Nat : n = Len(s) OBVIOUS
<1>2. SubSeq(s, 1, n) = s BY <1>1, AllOfThem
<1>3. SubSeq(t, 1, n) = s
  <2>1. n \in 0..Len(t) /\ 1 \in Nat \ {0} /\ 1 <= n + 1 /\ n - 1 + 1 = n
        /\ \A i \in 1..n : 1 + i - 1 = i
    BY <1>1
  <2>2. PICK u : u = SubSeq(t, 1, n) OBVIOUS
  <2>3. /\ u \in Seq(S) /\ Len(u) = n - 1 + 1 /\ \A i \in 1 .. n - 1 + 1 : u[i] = t[1 + i - 1]
    BY <2>1, <2>2, Slice
  <2>4. Len(u) = n /\ \A i \in 1..n : u[i] = s[i] BY <1>1, <2>1, <2>3
  <2>5. u = s BY <1>1, <2>3, <2>4, SeqEqual
  <2> QED BY <2>2, <2>5
<1> QED BY <1>1, <1>2, <1>3 DEF Content!IsPrefix

LEMMA StepIsPipe ==
  ASSUME IInv, [Next]_vars PROVE [Content!Next \/ mixed']_(Content!vars)
<1> SUFFICES ASSUME ~mixed' PROVE Content!Next \/ UNCHANGED Content!vars OBVIOUS
<1>1. Typed /\ ~mixed /\ Buffered /\ Shaped /\ Following BY Printed DEF IInv
<1>2. ASSUME NEW text \in Texts, Write(text) PROVE Content!Write(text)
  BY <1>2 DEF Write, decoderVars, Content!Write, Ended
<1>3. CASE Close BY <1>3 DEF Close, decoderVars, Content!Next, Content!Close, Ended
<1>4. ASSUME NEW n \in 1..Len(wire) - given, Feed(n) PROVE UNCHANGED Content!vars
  BY <1>4 DEF Feed, encoderVars, Content!vars, Ended
<1>5. output \in Seq(Char) /\ written \in Seq(Char) /\ Len(output) <= Len(written)
      /\ \A i \in 1..Len(output) : written[i] = output[i]
  <2>1. PICK D, cut : Reading(D, cut) BY <1>1 DEF Following
  <2>2. Flushed \in Nat /\ Flushed + Len(encoding) = Len(written) BY <1>1, FlushedIs
  <2>3. Len(output) <= Flushed /\ \A i \in 1..Len(output) : output[i] = written[i]
    BY <2>1 DEF Reading
  <2>4. /\ output \in Seq(Char) /\ written \in Seq(Char)
        /\ Len(encoding) \in Nat /\ Len(output) \in Nat
    BY <1>1 DEF Typed
  <2> QED BY <2>2, <2>3, <2>4
<1>6. CASE ReadLength
  <2>1. output' = output /\ (state' = "finished" => closed /\ output = written)
    BY <1>1, <1>6, InvReadLength
  <2>2. UNCHANGED <<written, closed>> /\ ~Ended BY <1>6 DEF ReadLength, encoderVars, Ended
  <2>3. Content!IsPrefix(output, output') /\ Content!IsPrefix(output', written)
    <3>1. Content!IsPrefix(output, written) BY <1>5, PrefixIs
    <3>2. Content!IsPrefix(output, output) BY <1>5, PrefixIs
    <3> QED BY <2>1, <3>1, <3>2
  <2>4. Ended' \in BOOLEAN /\ (Ended' => closed /\ output' = written) BY <2>1 DEF Ended
  <2>5. Content!Deliver BY <2>2, <2>3, <2>4, Zenon DEF Content!Deliver
  <2> QED BY <2>5 DEF Content!Next
<1>7. CASE ReadBody
  <2>1. /\ Len(output) <= Len(output') /\ Len(output') <= Len(written)
        /\ \A i \in 1..Len(output) : output'[i] = output[i]
        /\ \A i \in 1..Len(output') : output'[i] = written[i]
    BY <1>1, <1>7, InvReadBody
  <2>2. UNCHANGED <<written, closed>> /\ ~Ended BY <1>7 DEF ReadBody, encoderVars, Ended
  <2>3. output' \in Seq(Char)
    <3>1. Typed' BY <1>1, <1>7, TypedReadBody
    <3> QED BY <3>1 DEF Typed
  <2>4. Content!IsPrefix(output, output') BY <1>5, <2>1, <2>3, PrefixIs
  <2>5. Content!IsPrefix(output', written)
    <3>1. \A i \in 1..Len(output') : written[i] = output'[i] BY <2>1
    <3> QED BY <1>5, <2>1, <2>3, <3>1, PrefixIs
  <2>6. Ended' \in BOOLEAN /\ ~Ended'
    <3>1. state' \in {"length", "body"} BY <1>7 DEF ReadBody
    <3> QED BY <3>1 DEF Ended
  <2>7. Content!Deliver BY <2>2, <2>4, <2>5, <2>6, Zenon DEF Content!Deliver
  <2> QED BY <2>7 DEF Content!Next
<1>8. CASE Finished BY <1>8 DEF Finished, encoderVars, Content!vars, Ended
<1>9. CASE UNCHANGED vars
  BY <1>9 DEF vars, encoderVars, decoderVars, Content!vars, Ended
<1> QED BY <1>2, <1>3, <1>4, <1>6, <1>7, <1>8, <1>9, Printed DEF Content!Next

(* Unless something is printed into the stream, the chunked coding is a     *)
(* pipe: what the decoder writes is at every moment a prefix of what was    *)
(* written to the encoder, and when it finishes it is all of it and the     *)
(* encoder was closed, for every size of the writes, the encoder's buffer   *)
(* and the pieces.                                                          *)
THEOREM SpecIsPipe == Spec => IsPipe
<1>1. Init => Content!Init BY DEF Init, Content!Init, Ended
<1>2. IInv /\ [Next]_vars => [Content!Next \/ mixed']_(Content!vars) BY StepIsPipe
<1> QED BY <1>1, <1>2, SpecInvariant, PTL DEF Spec, IsPipe
=============================================================================
