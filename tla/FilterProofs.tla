---------------------------- MODULE FilterProofs -----------------------------
(***************************************************************************)
(* The filter drops whole tests and nothing else, whatever the outcomes,   *)
(* the tags and the times, and however it is set up: what the client is    *)
(* told of a test it is told with the tags and the time that test had,     *)
(* although its calls were held back and those below are collapsed.        *)
(***************************************************************************)
EXTENDS Filter, SequenceTheorems, TLAPS

Turns == INSTANCE FoldProofs WITH Step <- Turn
Keeps == INSTANCE FoldProofs WITH Step <- Keep
Laters == INSTANCE FoldProofs WITH Step <- Later
Downs == INSTANCE FoldProofs WITH Step <- Down

-----------------------------------------------------------------------------
(* Sequences, whatever their elements are.                                  *)

IsSeq(s) == \E S : s \in Seq(S)

LEMMA SeqShape == ASSUME NEW s, IsSeq(s) PROVE Len(s) \in Nat /\ DOMAIN s = 1..Len(s)
<1>1. PICK S : s \in Seq(S) BY DEF IsSeq
<1> QED BY <1>1

OneMore(s, e, t) ==
    /\ IsSeq(t) /\ Len(t) = Len(s) + 1
    /\ \A n \in 1..Len(s) : t[n] = s[n]
    /\ t[Len(s) + 1] = e

LEMMA AppendShape == ASSUME NEW s, IsSeq(s), NEW e PROVE OneMore(s, e, Append(s, e))
<1>1. PICK S : s \in Seq(S) BY DEF IsSeq
<1> DEFINE T == S \cup {e}
<1>2. s \in Seq(T) /\ e \in T BY <1>1
<1> HIDE DEF T
<1>3. Append(s, e) \in Seq(T) BY <1>2, AppendProperties
<1>4. /\ Len(Append(s, e)) = Len(s) + 1
      /\ \A n \in 1..Len(s) : Append(s, e)[n] = s[n]
      /\ Append(s, e)[Len(s) + 1] = e
  BY <1>2, AppendProperties
<1> QED BY <1>3, <1>4 DEF IsSeq, OneMore

(* The first n elements, of a sequence and of a longer one.                 *)
IsPart(s, n, t) == IsSeq(t) /\ Len(t) = n /\ \A i \in 1..n : t[i] = s[i]

LEMMA BeforeShape ==
  ASSUME NEW s, IsSeq(s), NEW n \in 0..Len(s)
  PROVE  IsPart(s, n, Before(s, n))
<1>1. PICK S : s \in Seq(S) BY DEF IsSeq
<1>2. n \in Nat /\ n <= Len(s) /\ Len(s) \in Nat BY SeqShape
<1>3. SubSeq(s, 1, n) \in Seq(S) /\ Len(SubSeq(s, 1, n)) = n /\ \A i \in 1..n : SubSeq(s, 1, n)[i] = s[i]
  BY <1>1, <1>2
<1> QED BY <1>3 DEF IsPart, IsSeq, Before

LEMMA SameSeq ==
  ASSUME NEW s, NEW t, IsSeq(s), IsSeq(t), Len(s) = Len(t), \A i \in 1..Len(s) : s[i] = t[i]
  PROVE  s = t
<1>1. PICK S : s \in Seq(S) BY DEF IsSeq
<1>2. PICK T : t \in Seq(T) BY DEF IsSeq
<1>3. s \in Seq(S \cup T) /\ t \in Seq(S \cup T) BY <1>1, <1>2
<1> QED BY <1>3, SeqEqual

LEMMA AppendSecond == ASSUME NEW a, NEW b PROVE Append(<<a>>, b) = <<a, b>>
<1>1. IsSeq(<<a>>) /\ Len(<<a>>) = 1 /\ <<a>>[1] = a
  <2>1. <<a>> \in Seq({a}) OBVIOUS
  <2> QED BY <2>1 DEF IsSeq
<1>2. IsSeq(<<a, b>>) /\ Len(<<a, b>>) = 2 /\ <<a, b>>[1] = a /\ <<a, b>>[2] = b
  <2>1. <<a, b>> \in Seq({a, b}) OBVIOUS
  <2> QED BY <2>1 DEF IsSeq
<1>3. PICK s, t : s = Append(<<a>>, b) /\ t = <<a, b>> OBVIOUS
<1>4. OneMore(<<a>>, b, s) BY <1>1, <1>3, AppendShape
<1>5. IsSeq(s) /\ Len(s) = 2 /\ s[1] = a /\ s[2] = b BY <1>1, <1>4 DEF OneMore
<1>6. \A i \in 1..2 : i = 1 \/ i = 2 OBVIOUS
<1>7. s = t BY <1>2, <1>3, <1>5, <1>6, SameSeq
<1> QED BY <1>3, <1>7

LEMMA AppendThird == ASSUME NEW a, NEW b, NEW c PROVE Append(<<a, b>>, c) = <<a, b, c>>
<1>1. IsSeq(<<a, b>>) /\ Len(<<a, b>>) = 2 /\ <<a, b>>[1] = a /\ <<a, b>>[2] = b
  <2>1. <<a, b>> \in Seq({a, b}) OBVIOUS
  <2> QED BY <2>1 DEF IsSeq
<1>2. PICK s, t : s = Append(<<a, b>>, c) /\ t = <<a, b, c>> OBVIOUS
<1>3. IsSeq(t) /\ Len(t) = 3 /\ t[1] = a /\ t[2] = b /\ t[3] = c
  <2>1. <<a, b, c>> \in Seq({a, b, c}) OBVIOUS
  <2> QED BY <1>2, <2>1 DEF IsSeq
<1>4. OneMore(<<a, b>>, c, s) BY <1>1, <1>2, AppendShape
<1>5. IsSeq(s) /\ Len(s) = 3 /\ s[1] = a /\ s[2] = b /\ s[3] = c BY <1>1, <1>4 DEF OneMore
<1>6. \A i \in 1..3 : i = 1 \/ i = 2 \/ i = 3 OBVIOUS
<1>7. s = t BY <1>3, <1>5, <1>6, SameSeq
<1> QED BY <1>2, <1>7

LEMMA SameBefore ==
  ASSUME NEW s, NEW t, IsSeq(s), IsSeq(t), NEW n \in 0..Len(s), n <= Len(t),
         \A i \in 1..n : s[i] = t[i]
  PROVE  Before(s, n) = Before(t, n)
<1>1. n \in 0..Len(t) BY SeqShape
<1>2. IsPart(s, n, Before(s, n)) /\ IsPart(t, n, Before(t, n)) BY <1>1, BeforeShape
<1> QED BY <1>2, SameSeq DEF IsPart

LEMMA BeforeAll == ASSUME NEW s, IsSeq(s) PROVE Before(s, Len(s)) = s
<1>1. Len(s) \in 0..Len(s) BY SeqShape
<1>2. IsPart(s, Len(s), Before(s, Len(s))) BY <1>1, BeforeShape
<1> QED BY <1>2, SameSeq DEF IsPart

LEMMA BeforeNone == ASSUME NEW s, IsSeq(s) PROVE Before(s, 0) = <<>>
<1>1. 0 \in 0..Len(s) BY SeqShape
<1>2. IsPart(s, 0, Before(s, 0)) BY <1>1, BeforeShape
<1>3. IsSeq(<<>>) /\ Len(<<>>) = 0 BY DEF IsSeq
<1> QED BY <1>2, <1>3, SameSeq DEF IsPart

LEMMA BeforeNext ==
  ASSUME NEW s, IsSeq(s), NEW n \in 1..Len(s)
  PROVE  Before(s, n) = Append(Before(s, n - 1), s[n])
<1>1. n \in Nat /\ n - 1 \in 0..Len(s) /\ n \in 0..Len(s) BY SeqShape
<1>2. PICK m \in Nat : m = n - 1 BY <1>1
<1>3. PICK a, b : a = Before(s, n) /\ b = Before(s, m) OBVIOUS
<1>4. IsPart(s, n, a) /\ IsPart(s, m, b) BY <1>1, <1>2, <1>3, BeforeShape
<1>5. PICK c : c = Append(b, s[n]) OBVIOUS
<1>6. OneMore(b, s[n], c) BY <1>4, <1>5, AppendShape DEF IsPart
<1>7. Len(c) = n /\ IsSeq(c) BY <1>1, <1>2, <1>4, <1>6 DEF OneMore, IsPart
<1>8. \A i \in 1..n : c[i] = s[i]
  <2> TAKE i \in 1..n
  <2>1. CASE i = n BY <1>2, <1>4, <1>6, <2>1 DEF OneMore, IsPart
  <2>2. CASE i # n
    <3>1. i \in 1..m BY <1>1, <1>2, <2>2
    <3>2. Len(b) = m BY <1>4 DEF IsPart
    <3> QED BY <1>4, <1>6, <3>1, <3>2 DEF OneMore, IsPart
  <2> QED BY <2>1, <2>2
<1>9. a = c BY <1>4, <1>7, <1>8, SameSeq DEF IsPart
<1> QED BY <1>2, <1>3, <1>5, <1>9

LEMMA BeforeAppend ==
  ASSUME NEW s, IsSeq(s), NEW e, NEW n \in 0..Len(s)
  PROVE  Before(Append(s, e), n) = Before(s, n)
<1>1. PICK t : t = Append(s, e) OBVIOUS
<1>2. OneMore(s, e, t) BY <1>1, AppendShape
<1>3. Len(s) \in Nat BY SeqShape
<1>4. IsSeq(t) /\ n <= Len(t) /\ \A i \in 1..n : s[i] = t[i] BY <1>2, <1>3 DEF OneMore
<1>5. Before(s, n) = Before(t, n) BY <1>4, SameBefore
<1> QED BY <1>1, <1>5

(* Concatenation.                                                           *)
LEMMA ConcatAppend ==
  ASSUME NEW s, NEW t, IsSeq(s), IsSeq(t), NEW e
  PROVE  Append(s \o t, e) = s \o Append(t, e)
<1>1. PICK S : s \in Seq(S) BY DEF IsSeq
<1>2. PICK T : t \in Seq(T) BY DEF IsSeq
<1> DEFINE U == S \cup T \cup {e}
<1>3. s \in Seq(U) /\ t \in Seq(U) /\ e \in U BY <1>1, <1>2
<1> HIDE DEF U
<1> QED BY <1>3

-----------------------------------------------------------------------------
(* The folds, one call at a time.                                           *)

LEMMA TurnsOne ==
  ASSUME NEW on, NEW s, IsSeq(s), NEW call
  PROVE  TurnAll(on, Append(s, call)) = Turn(TurnAll(on, s), call)
<1>1. PICK S : s \in Seq(S) BY DEF IsSeq
<1>2. Turns!Fold(on, Append(s, call)) = Turn(Turns!Fold(on, s), call)
  BY <1>1, Turns!FoldAppend
<1>3. \A t : TurnAll(on, t) = Turns!Fold(on, t)
  BY Zenon DEF TurnAll, Turns!Fold, Turns!FoldLeft, Turns!MapThenFoldSet, Turns!Max, FoldLeft,
     MapThenFoldSet, Max
<1> QED BY <1>2, <1>3

LEMMA TurnsNone == ASSUME NEW on PROVE TurnAll(on, <<>>) = on
<1>1. Turns!Fold(on, <<>>) = on BY Turns!FoldEmpty
<1> QED BY <1>1, Zenon DEF TurnAll, Turns!Fold, Turns!FoldLeft, Turns!MapThenFoldSet, Turns!Max,
     FoldLeft, MapThenFoldSet, Max

LEMMA KeepsOne ==
  ASSUME NEW s, IsSeq(s), NEW call
  PROVE  OfTests(Append(s, call)) = Keep(OfTests(s), call)
<1>1. PICK S : s \in Seq(S) BY DEF IsSeq
<1>2. Keeps!Fold(<<>>, Append(s, call)) = Keep(Keeps!Fold(<<>>, s), call)
  BY <1>1, Keeps!FoldAppend
<1>3. \A t : OfTests(t) = Keeps!Fold(<<>>, t)
  BY Zenon DEF OfTests, Keeps!Fold, Keeps!FoldLeft, Keeps!MapThenFoldSet, Keeps!Max, FoldLeft,
     MapThenFoldSet, Max
<1> QED BY <1>2, <1>3

LEMMA KeepsNone == OfTests(<<>>) = <<>>
<1>1. Keeps!Fold(<<>>, <<>>) = <<>> BY Keeps!FoldEmpty
<1> QED BY <1>1, Zenon DEF OfTests, Keeps!Fold, Keeps!FoldLeft, Keeps!MapThenFoldSet, Keeps!Max,
     FoldLeft, MapThenFoldSet, Max

LEMMA LatersOne ==
  ASSUME NEW s, IsSeq(s), NEW call
  PROVE  LastTime(Append(s, call)) = Later(LastTime(s), call)
<1>1. PICK S : s \in Seq(S) BY DEF IsSeq
<1>2. Laters!Fold(None, Append(s, call)) = Later(Laters!Fold(None, s), call)
  BY <1>1, Laters!FoldAppend
<1>3. \A t : LastTime(t) = Laters!Fold(None, t)
  BY Zenon DEF LastTime, Laters!Fold, Laters!FoldLeft, Laters!MapThenFoldSet, Laters!Max, FoldLeft,
     MapThenFoldSet, Max
<1> QED BY <1>2, <1>3

LEMMA LatersNone == LastTime(<<>>) = None
<1>1. Laters!Fold(None, <<>>) = None BY Laters!FoldEmpty
<1> QED BY <1>1, Zenon DEF LastTime, Laters!Fold, Laters!FoldLeft, Laters!MapThenFoldSet, Laters!Max,
     FoldLeft, MapThenFoldSet, Max

LEMMA DownsOne ==
  ASSUME NEW d, NEW s, IsSeq(s), NEW call
  PROVE  DownAll(d, Append(s, call)) = Down(DownAll(d, s), call)
<1>1. PICK S : s \in Seq(S) BY DEF IsSeq
<1>2. Downs!Fold(d, Append(s, call)) = Down(Downs!Fold(d, s), call)
  BY <1>1, Downs!FoldAppend
<1>3. \A t : DownAll(d, t) = Downs!Fold(d, t)
  BY Zenon DEF DownAll, Downs!Fold, Downs!FoldLeft, Downs!MapThenFoldSet, Downs!Max, FoldLeft,
     MapThenFoldSet, Max
<1> QED BY <1>2, <1>3

LEMMA DownsNone == ASSUME NEW d PROVE DownAll(d, <<>>) = d
<1>1. Downs!Fold(d, <<>>) = d BY Downs!FoldEmpty
<1> QED BY <1>1, Zenon DEF DownAll, Downs!Fold, Downs!FoldLeft, Downs!MapThenFoldSet, Downs!Max,
     FoldLeft, MapThenFoldSet, Max

(* What is kept is a sequence.                                              *)
LEMMA KeptIsSeq == ASSUME NEW s, IsSeq(s) PROVE IsSeq(OfTests(s))
<1> DEFINE A == {n \in 0..Len(s) : IsSeq(OfTests(Before(s, n)))}
<1>1. Len(s) \in Nat BY SeqShape
<1>2. 0 \in A
  <2>1. IsSeq(<<>>) BY DEF IsSeq
  <2> QED BY <1>1, <2>1, BeforeNone, KeepsNone
<1>3. ASSUME NEW i \in 1..Len(s), i - 1 \in A PROVE i \in A
  <2>1. PICK k : k = OfTests(Before(s, i - 1)) OBVIOUS
  <2>2. IsSeq(k) BY <1>3, <2>1
  <2>3. i - 1 \in 0..Len(s) BY <1>1
  <2>4. IsSeq(Before(s, i - 1)) BY <2>3, BeforeShape DEF IsPart
  <2>5. OfTests(Before(s, i)) = Keep(k, s[i])
    BY <2>1, <2>4, BeforeNext, KeepsOne
  <2>6. IsSeq(Keep(k, s[i])) BY <2>2, AppendShape DEF Keep, OneMore
  <2> QED BY <1>1, <2>5, <2>6
<1>4. Len(s) \in A
  <2> HIDE DEF A
  <2> QED BY <1>1, <1>2, <1>3, Turns!Upto
<1> QED BY <1>4, BeforeAll

-----------------------------------------------------------------------------
(* The decorators below the filter.                                         *)

IsUpdate(u) == u = Update(u.new, u.gone)
IsOn(on) == on = [all |-> on.all, here |-> on.here, inside |-> on.inside] /\ on.inside \in BOOLEAN

DownOK(d) ==
    /\ d = [received |-> d.received, sent |-> d.sent, tags |-> d.tags, events |-> d.events]
    /\ IsSeq(d.events) /\ IsUpdate(d.tags)

(* The tags of the client, once it is told what is held, are those of the   *)
(* run.                                                                     *)
Agrees(told, u, on) ==
    /\ IsOn(told) /\ IsOn(on) /\ told.inside = on.inside
    /\ IF on.inside THEN told.all = on.all /\ Applied(told.here, u) = on.here
       ELSE Applied(told.all, u) = on.all

(* What the client has, or will be told before anything else, are the tags  *)
(* and the time of the run.                                                 *)
Good(d, on, time) ==
    /\ DownOK(d)
    /\ Agrees(TurnAll(NoTags, d.events), d.tags, on)
    /\ LastTime(d.events) = d.sent
    /\ time = IF d.received = None THEN d.sent ELSE d.received

(* More calls, none of which is about a test.                               *)
Others3 == {"tags", "time", "progress"}
More(s, t) ==
    /\ IsSeq(s) /\ IsSeq(t) /\ Len(s) <= Len(t)
    /\ \A i \in 1..Len(s) : t[i] = s[i]
Quietly(s, t) ==
    /\ More(s, t) /\ OfTests(t) = OfTests(s)
    /\ \A i \in Len(s) + 1 .. Len(t) : t[i].kind \in Others3

LEMMA MoreSame == ASSUME NEW s, IsSeq(s) PROVE More(s, s) /\ Quietly(s, s)
<1>1. Len(s) \in Nat BY SeqShape
<1> QED BY <1>1 DEF More, Quietly

LEMMA MoreMore == ASSUME NEW s, NEW t, NEW u, More(s, t), More(t, u) PROVE More(s, u)
<1>1. Len(s) \in Nat /\ Len(t) \in Nat /\ Len(u) \in Nat BY SeqShape DEF More
<1>2. Len(s) <= Len(u) /\ \A i \in 1..Len(s) : u[i] = s[i] BY <1>1 DEF More
<1> QED BY <1>2 DEF More

LEMMA QuietQuiet == ASSUME NEW s, NEW t, NEW u, Quietly(s, t), Quietly(t, u) PROVE Quietly(s, u)
<1>1. Len(s) \in Nat /\ Len(t) \in Nat /\ Len(u) \in Nat BY SeqShape DEF More, Quietly
<1>2. More(s, u) BY MoreMore DEF Quietly
<1>3. ASSUME NEW i \in Len(s) + 1 .. Len(u) PROVE u[i].kind \in Others3
  <2>1. CASE i <= Len(t)
    <3>1. i \in Len(s) + 1 .. Len(t) /\ i \in 1..Len(t) BY <1>1, <2>1
    <3> QED BY <3>1 DEF Quietly, More
  <2>2. CASE ~(i <= Len(t))
    <3>1. i \in Len(t) + 1 .. Len(u) BY <1>1, <2>2
    <3> QED BY <3>1 DEF Quietly
  <2> QED BY <2>1, <2>2
<1>4. OfTests(u) = OfTests(s) BY DEF Quietly
<1> QED BY <1>2, <1>3, <1>4 DEF Quietly

LEMMA MoreOne == ASSUME NEW s, IsSeq(s), NEW e PROVE More(s, Append(s, e))
<1>1. OneMore(s, e, Append(s, e)) /\ Len(s) \in Nat BY AppendShape, SeqShape
<1> QED BY <1>1 DEF OneMore, More

LEMMA QuietOne ==
  ASSUME NEW s, IsSeq(s), NEW e, e.kind \in Others3
  PROVE  Quietly(s, Append(s, e))
<1>1. PICK t : t = Append(s, e) OBVIOUS
<1>2. OneMore(s, e, t) /\ Len(s) \in Nat BY <1>1, AppendShape, SeqShape
<1>3. OfTests(t) = OfTests(s)
  <2>1. OfTests(t) = Keep(OfTests(s), e) BY <1>1, KeepsOne
  <2> QED BY <2>1 DEF Keep, Others3
<1>4. More(s, t) BY <1>1, MoreOne
<1>5. \A i \in Len(s) + 1 .. Len(t) : t[i].kind \in Others3 BY <1>2 DEF OneMore
<1> QED BY <1>1, <1>3, <1>4, <1>5 DEF Quietly

(* Tags one after the other, and both together.                             *)
LEMMA AppliedAdd ==
  ASSUME NEW tags, NEW held, NEW u, u.new \cap u.gone = {}
  PROVE  Applied(tags, Add(held, u)) = Applied(Applied(tags, held), u)
BY DEF Applied, Add, Update

LEMMA AppliedNone == ASSUME NEW tags PROVE Applied(tags, NoUpdate) = tags
BY DEF Applied, NoUpdate, Update

LEMMA TurnIs ==
  ASSUME NEW on, IsOn(on), NEW call
  PROVE  /\ IsOn(Turn(on, call))
         /\ call.kind = "startTest" =>
              Turn(on, call) = [all |-> on.all, here |-> on.all, inside |-> TRUE]
         /\ call.kind = "stopTest" =>
              Turn(on, call) = [all |-> on.all, here |-> on.here, inside |-> FALSE]
         /\ call.kind = "tags" =>
              Turn(on, call) =
                IF on.inside
                  THEN [all |-> on.all, here |-> Applied(on.here, call.arg), inside |-> TRUE]
                ELSE [all |-> Applied(on.all, call.arg), here |-> on.here, inside |-> FALSE]
         /\ call.kind \notin {"startTest", "stopTest", "tags"} => Turn(on, call) = on
<1>1. PICK a, h, b : b \in BOOLEAN /\ on = [all |-> a, here |-> h, inside |-> b] BY DEF IsOn
<1>2. on.all = a /\ on.here = h /\ on.inside = b BY <1>1
<1>3. CASE call.kind = "startTest"
  <2>1. Turn(on, call) = [on EXCEPT !.inside = TRUE, !.here = on.all] BY <1>3 DEF Turn
  <2>2. Turn(on, call) = [all |-> a, here |-> a, inside |-> TRUE] BY <1>1, <1>2, <2>1
  <2> QED BY <1>2, <1>3, <2>2 DEF IsOn
<1>4. CASE call.kind = "stopTest"
  <2>1. Turn(on, call) = [on EXCEPT !.inside = FALSE] BY <1>4 DEF Turn
  <2>2. Turn(on, call) = [all |-> a, here |-> h, inside |-> FALSE] BY <1>1, <2>1
  <2> QED BY <1>2, <1>4, <2>2 DEF IsOn
<1>5. CASE call.kind = "tags"
  <2>1. CASE b
    <3>1. Turn(on, call) = [on EXCEPT !.here = Applied(@, call.arg)] BY <1>2, <1>5, <2>1 DEF Turn
    <3>2. Turn(on, call) = [all |-> a, here |-> Applied(h, call.arg), inside |-> TRUE]
      BY <1>1, <2>1, <3>1
    <3> QED BY <1>2, <1>5, <2>1, <3>2 DEF IsOn
  <2>2. CASE ~b
    <3>1. Turn(on, call) = [on EXCEPT !.all = Applied(@, call.arg)] BY <1>2, <1>5, <2>2 DEF Turn
    <3>2. Turn(on, call) = [all |-> Applied(a, call.arg), here |-> h, inside |-> FALSE]
      BY <1>1, <2>2, <3>1
    <3> QED BY <1>2, <1>5, <2>2, <3>2 DEF IsOn
  <2> QED BY <2>1, <2>2
<1>6. CASE call.kind \notin {"startTest", "stopTest", "tags"}
  <2>1. Turn(on, call) = on BY <1>6 DEF Turn
  <2> QED BY <1>6, <2>1
<1> QED BY <1>3, <1>4, <1>5, <1>6

(* What a decorator holds is told first: nothing changes for the client.    *)
NothingHeld(d, e) ==
    /\ e = [received |-> d.received, sent |-> d.sent, tags |-> NoUpdate, events |-> e.events]
    /\ Quietly(d.events, e.events)
    /\ LastTime(e.events) = LastTime(d.events)

LEMMA FlushGood ==
  ASSUME NEW d, NEW on, DownOK(d), Agrees(TurnAll(NoTags, d.events), d.tags, on)
  PROVE  /\ NothingHeld(d, Flush(d)) /\ DownOK(Flush(d))
         /\ Agrees(TurnAll(NoTags, Flush(d).events), NoUpdate, on)
<1>1. PICK r, s, u, v : d = [received |-> r, sent |-> s, tags |-> u, events |-> v]
  BY DEF DownOK
<1>2. d.received = r /\ d.sent = s /\ d.tags = u /\ d.events = v BY <1>1
<1>3. IsSeq(v) /\ IsUpdate(u) BY <1>2 DEF DownOK
<1>4. PICK e : e = Flush(d) OBVIOUS
<1>5. CASE u = NoUpdate
  <2>1. e = d BY <1>2, <1>4, <1>5 DEF Flush
  <2>2. NothingHeld(d, d) BY <1>1, <1>2, <1>3, <1>5, MoreSame DEF NothingHeld
  <2> QED BY <1>2, <1>4, <1>5, <2>1, <2>2
<1>6. CASE u # NoUpdate
  <2>1. PICK c : c = Call("tags", None, u) OBVIOUS
  <2>2. c.kind = "tags" /\ c.arg = u BY <2>1 DEF Call
  <2>3. PICK w : w = Append(v, c) OBVIOUS
  <2>4. e = [d EXCEPT !.events = Append(@, c), !.tags = NoUpdate] BY <1>2, <1>4, <1>6, <2>1 DEF Flush
  <2>5. e = [received |-> r, sent |-> s, tags |-> NoUpdate, events |-> w] BY <1>1, <2>3, <2>4
  <2>6. e.received = r /\ e.sent = s /\ e.tags = NoUpdate /\ e.events = w BY <2>5
  <2>7. Quietly(v, w) BY <1>3, <2>2, <2>3, QuietOne DEF Others3
  <2>8. LastTime(w) = LastTime(v)
    <3>1. LastTime(w) = Later(LastTime(v), c) BY <1>3, <2>3, LatersOne
    <3> QED BY <2>2, <3>1 DEF Later
  <2>9. IsUpdate(NoUpdate) /\ IsSeq(w) BY <2>7 DEF IsUpdate, NoUpdate, Update, Quietly, More
  <2>10. Agrees(TurnAll(NoTags, w), NoUpdate, on)
    <3>1. PICK told : told = TurnAll(NoTags, v) OBVIOUS
    <3>2. Agrees(told, u, on) BY <1>2, <3>1
    <3>3. TurnAll(NoTags, w) = Turn(told, c) BY <1>3, <2>3, <3>1, TurnsOne
    <3>4. IsOn(told) BY <3>2 DEF Agrees
    <3>5. Turn(told, c) = IF told.inside
                            THEN [all |-> told.all, here |-> Applied(told.here, u), inside |-> TRUE]
                          ELSE [all |-> Applied(told.all, u), here |-> told.here, inside |-> FALSE]
      BY <2>2, <3>4, TurnIs
    <3>6. IsOn(Turn(told, c)) BY <3>4, TurnIs
    <3>7. Agrees(Turn(told, c), NoUpdate, on)
      <4>1. PICK new : new = Turn(told, c) OBVIOUS
      <4>2. told.inside = on.inside /\ IsOn(on) /\ IsOn(new) BY <3>2, <3>6, <4>1 DEF Agrees
      <4>3. CASE on.inside
        <5>1. new.all = told.all /\ new.here = Applied(told.here, u) /\ new.inside
          BY <3>5, <4>1, <4>2, <4>3
        <5>2. told.all = on.all /\ Applied(told.here, u) = on.here BY <3>2, <4>3 DEF Agrees
        <5> QED BY <4>1, <4>2, <4>3, <5>1, <5>2, AppliedNone DEF Agrees, IsOn
      <4>4. CASE ~on.inside
        <5>1. new.all = Applied(told.all, u) /\ ~new.inside BY <3>5, <4>1, <4>2, <4>4
        <5>2. Applied(told.all, u) = on.all BY <3>2, <4>4 DEF Agrees
        <5> QED BY <4>1, <4>2, <4>4, <5>1, <5>2, AppliedNone DEF Agrees, IsOn
      <4> QED BY <4>3, <4>4
    <3> QED BY <3>3, <3>7
  <2>11. NothingHeld(d, e) BY <1>2, <2>5, <2>6, <2>7, <2>8 DEF NothingHeld
  <2>12. DownOK(e) BY <2>5, <2>6, <2>9 DEF DownOK
  <2> QED BY <1>4, <2>6, <2>10, <2>11, <2>12
<1> QED BY <1>5, <1>6

(* A call that is not about tags is told after what is held.                *)
Told(d, on, call, e) ==
    /\ DownOK(e) /\ e.received = d.received /\ e.sent = d.sent /\ e.tags = NoUpdate
    /\ \E s : Quietly(d.events, s) /\ e.events = Append(s, call)
    /\ Agrees(TurnAll(NoTags, e.events), NoUpdate, Turn(on, call))
    /\ LastTime(e.events) = Later(LastTime(d.events), call)

LEMMA TellGood ==
  ASSUME NEW d, NEW on, DownOK(d), Agrees(TurnAll(NoTags, d.events), d.tags, on),
         NEW call, call.kind # "tags"
  PROVE  Told(d, on, call, Tell(d, call))
<1>1. PICK f : f = Flush(d) OBVIOUS
<1>2. /\ NothingHeld(d, f) /\ DownOK(f)
      /\ Agrees(TurnAll(NoTags, f.events), NoUpdate, on)
  BY <1>1, FlushGood
<1>3. PICK s : s = f.events OBVIOUS
<1>4. f = [received |-> d.received, sent |-> d.sent, tags |-> NoUpdate, events |-> s]
  BY <1>2, <1>3 DEF NothingHeld
<1>5. IsSeq(s) /\ Quietly(d.events, s) /\ LastTime(s) = LastTime(d.events)
  BY <1>2, <1>3 DEF NothingHeld, DownOK
<1>6. PICK t : t = Append(s, call) OBVIOUS
<1>7. PICK e : e = Tell(d, call) OBVIOUS
<1>8. e = [f EXCEPT !.events = Append(@, call)] BY <1>1, <1>7 DEF Tell
<1>9. e = [received |-> d.received, sent |-> d.sent, tags |-> NoUpdate, events |-> t]
  BY <1>4, <1>6, <1>8
<1>10. e.received = d.received /\ e.sent = d.sent /\ e.tags = NoUpdate /\ e.events = t BY <1>9
<1>11. IsSeq(t) BY <1>5, <1>6, AppendShape DEF OneMore
<1>12. DownOK(e) BY <1>9, <1>10, <1>11 DEF DownOK, IsUpdate, NoUpdate, Update
<1>13. LastTime(t) = Later(LastTime(d.events), call) BY <1>5, <1>6, LatersOne
<1>14. Agrees(TurnAll(NoTags, t), NoUpdate, Turn(on, call))
  <2>1. PICK told : told = TurnAll(NoTags, s) OBVIOUS
  <2>2. Agrees(told, NoUpdate, on) BY <1>2, <1>3, <2>1
  <2>3. TurnAll(NoTags, t) = Turn(told, call) BY <1>5, <1>6, <2>1, TurnsOne
  <2>4. IsOn(told) /\ IsOn(on) /\ told.inside = on.inside /\ told.all = on.all
        /\ (on.inside => told.here = on.here)
    BY <2>2, AppliedNone DEF Agrees
  <2>5. IsOn(Turn(told, call)) /\ IsOn(Turn(on, call)) BY <2>4, TurnIs
  <2>6. CASE call.kind = "startTest"
    <3>1. /\ Turn(told, call) = [all |-> on.all, here |-> on.all, inside |-> TRUE]
          /\ Turn(on, call) = [all |-> on.all, here |-> on.all, inside |-> TRUE]
      BY <2>4, <2>6, TurnIs
    <3> QED BY <2>3, <2>5, <3>1, AppliedNone DEF Agrees
  <2>7. CASE call.kind = "stopTest"
    <3>1. /\ Turn(told, call) = [all |-> on.all, here |-> told.here, inside |-> FALSE]
          /\ Turn(on, call) = [all |-> on.all, here |-> on.here, inside |-> FALSE]
      BY <2>4, <2>7, TurnIs
    <3> QED BY <2>3, <2>5, <3>1, AppliedNone DEF Agrees
  <2>8. CASE call.kind \notin {"startTest", "stopTest", "tags"}
    <3>1. Turn(told, call) = told /\ Turn(on, call) = on BY <2>4, <2>8, TurnIs
    <3> QED BY <2>2, <2>3, <3>1
  <2> QED BY <2>6, <2>7, <2>8
<1> QED BY <1>5, <1>6, <1>7, <1>10, <1>12, <1>13, <1>14 DEF Told

ToldTime(d, on, time, e) ==
    /\ e = [received |-> d.received, sent |-> time, tags |-> NoUpdate, events |-> e.events]
    /\ Quietly(d.events, e.events)
    /\ Agrees(TurnAll(NoTags, e.events), NoUpdate, on)
    /\ LastTime(e.events) = time

LEMMA TellTimeGood ==
  ASSUME NEW d, NEW on, DownOK(d), Agrees(TurnAll(NoTags, d.events), d.tags, on), NEW time
  PROVE  ToldTime(d, on, time, TellTime(d, time))
<1>1. PICK c : c = Call("time", None, time) OBVIOUS
<1>2. c.kind = "time" /\ c.arg = time BY <1>1 DEF Call
<1>3. PICK f : f = Tell(d, c) OBVIOUS
<1>4. Told(d, on, c, f) BY <1>2, <1>3, TellGood
<1>5. f = [received |-> d.received, sent |-> d.sent, tags |-> NoUpdate, events |-> f.events]
  BY <1>4 DEF Told, DownOK
<1>6. PICK s : Quietly(d.events, s) /\ f.events = Append(s, c) BY <1>4 DEF Told
<1>7. IsSeq(s) BY <1>6 DEF Quietly, More
<1>8. Quietly(s, f.events) BY <1>2, <1>6, <1>7, QuietOne DEF Others3
<1>9. Quietly(d.events, f.events) BY <1>6, <1>8, QuietQuiet
<1>10. LastTime(f.events) = time BY <1>2, <1>4 DEF Told, Later
<1>11. Agrees(TurnAll(NoTags, f.events), NoUpdate, on)
  <2>1. IsOn(on) BY DEF Agrees
  <2>2. Turn(on, c) = on BY <1>2, <2>1, TurnIs
  <2> QED BY <1>4, <2>2 DEF Told
<1>12. PICK e : e = TellTime(d, time) OBVIOUS
<1>13. e = [f EXCEPT !.sent = time] BY <1>1, <1>3, <1>12 DEF TellTime
<1>14. e = [received |-> d.received, sent |-> time, tags |-> NoUpdate, events |-> f.events]
  BY <1>5, <1>13
<1>15. e.events = f.events BY <1>14
<1> QED BY <1>9, <1>10, <1>11, <1>12, <1>14, <1>15 DEF ToldTime

(* Before an event that is not a time.                                      *)
LEMMA CatchUpGood ==
  ASSUME NEW d, NEW on, NEW time, Good(d, on, time)
  PROVE  /\ Good(CatchUp(d), on, time) /\ CatchUp(d).received = None
         /\ Quietly(d.events, CatchUp(d).events)
<1>1. DownOK(d) /\ Agrees(TurnAll(NoTags, d.events), d.tags, on) BY DEF Good
<1>2. PICK e : e = CatchUp(d) OBVIOUS
<1>3. CASE d.received = None
  <2>1. e = d BY <1>2, <1>3 DEF CatchUp
  <2> QED BY <1>1, <1>2, <1>3, <2>1, MoreSame DEF DownOK
<1>4. CASE d.received # None /\ d.received = d.sent
  <2>1. e = [d EXCEPT !.received = None] BY <1>2, <1>4 DEF CatchUp
  <2>2. e = [received |-> None, sent |-> d.sent, tags |-> d.tags, events |-> d.events]
    BY <1>1, <2>1 DEF DownOK
  <2>3. e.received = None /\ e.sent = d.sent /\ e.tags = d.tags /\ e.events = d.events BY <2>2
  <2>4. DownOK(e) BY <1>1, <2>2, <2>3 DEF DownOK
  <2>5. Good(e, on, time) BY <1>4, <2>3, <2>4 DEF Good
  <2> QED BY <1>1, <1>2, <2>3, <2>5, MoreSame DEF DownOK
<1>5. CASE d.received # None /\ d.received # d.sent
  <2>1. PICK f : f = TellTime(d, d.received) OBVIOUS
  <2>2. ToldTime(d, on, d.received, f) BY <1>1, <2>1, TellTimeGood
  <2>3. e = [f EXCEPT !.received = None] BY <1>2, <1>5, <2>1 DEF CatchUp
  <2>4. f = [received |-> d.received, sent |-> d.received, tags |-> NoUpdate, events |-> f.events]
    BY <2>2 DEF ToldTime
  <2>5. e = [received |-> None, sent |-> d.received, tags |-> NoUpdate, events |-> f.events]
    BY <2>3, <2>4
  <2>6. /\ e.received = None /\ e.sent = d.received /\ e.tags = NoUpdate
        /\ e.events = f.events
    BY <2>5
  <2>7. DownOK(e) BY <2>2, <2>5, <2>6 DEF DownOK, ToldTime, Quietly, More, IsUpdate, NoUpdate, Update
  <2>8. time = d.received BY <1>5 DEF Good
  <2>9. Good(e, on, time) BY <2>2, <2>6, <2>7, <2>8 DEF Good, ToldTime
  <2> QED BY <1>2, <2>2, <2>6, <2>9 DEF ToldTime
<1> QED BY <1>3, <1>4, <1>5

(* Each call of the decorators.                                             *)
LEMMA DownTags ==
  ASSUME NEW d, NEW on, NEW time, Good(d, on, time), NEW call,
         call.kind = "tags", call.arg.new \cap call.arg.gone = {}
  PROVE  Good(Down(d, call), Turn(on, call), time) /\ Down(d, call).events = d.events
<1>1. DownOK(d) /\ Agrees(TurnAll(NoTags, d.events), d.tags, on) BY DEF Good
<1>2. PICK u : u = call.arg OBVIOUS
<1>3. PICK e : e = Down(d, call) OBVIOUS
<1>4. e = [d EXCEPT !.tags = Add(@, u)] BY <1>2, <1>3 DEF Down
<1>5. e = [received |-> d.received, sent |-> d.sent, tags |-> Add(d.tags, u), events |-> d.events]
  BY <1>1, <1>4 DEF DownOK
<1>6. /\ e.received = d.received /\ e.sent = d.sent /\ e.tags = Add(d.tags, u)
      /\ e.events = d.events
  BY <1>5
<1>7. IsUpdate(Add(d.tags, u)) BY DEF IsUpdate, Add, Update
<1>8. DownOK(e) BY <1>1, <1>5, <1>6, <1>7 DEF DownOK
<1>9. PICK told : told = TurnAll(NoTags, d.events) OBVIOUS
<1>10. PICK new : new = Turn(on, call) OBVIOUS
<1>11. IsOn(on) /\ IsOn(told) /\ told.inside = on.inside BY <1>1, <1>9 DEF Agrees
<1>12. IsOn(new) BY <1>10, <1>11, TurnIs
<1>13. Agrees(told, Add(d.tags, u), new)
  <2>1. u.new \cap u.gone = {} BY <1>2
  <2>2. CASE on.inside
    <3>1. new = [all |-> on.all, here |-> Applied(on.here, u), inside |-> TRUE]
      BY <1>2, <1>10, <1>11, <2>2, TurnIs
    <3>2. new.all = on.all /\ new.here = Applied(on.here, u) /\ new.inside BY <3>1
    <3>3. told.all = on.all /\ Applied(told.here, d.tags) = on.here
      BY <1>1, <1>9, <2>2 DEF Agrees
    <3>4. Applied(told.here, Add(d.tags, u)) = Applied(on.here, u) BY <2>1, <3>3, AppliedAdd
    <3> QED BY <1>11, <1>12, <2>2, <3>2, <3>3, <3>4 DEF Agrees, IsOn
  <2>3. CASE ~on.inside
    <3>1. new = [all |-> Applied(on.all, u), here |-> on.here, inside |-> FALSE]
      BY <1>2, <1>10, <1>11, <2>3, TurnIs
    <3>2. new.all = Applied(on.all, u) /\ ~new.inside BY <3>1
    <3>3. Applied(told.all, d.tags) = on.all BY <1>1, <1>9, <2>3 DEF Agrees
    <3>4. Applied(told.all, Add(d.tags, u)) = Applied(on.all, u) BY <2>1, <3>3, AppliedAdd
    <3> QED BY <1>11, <1>12, <2>3, <3>2, <3>4 DEF Agrees, IsOn
  <2> QED BY <2>2, <2>3
<1> QED BY <1>3, <1>6, <1>8, <1>9, <1>10, <1>13 DEF Good

LEMMA DownTime ==
  ASSUME NEW d, NEW on, NEW time, Good(d, on, time), NEW call,
         call.kind = "time", call.arg # None
  PROVE  Good(Down(d, call), on, call.arg) /\ Quietly(d.events, Down(d, call).events)
<1>1. DownOK(d) /\ Agrees(TurnAll(NoTags, d.events), d.tags, on) BY DEF Good
<1>2. PICK t : t = call.arg OBVIOUS
<1>3. PICK e : e = Down(d, call) OBVIOUS
<1>4. CASE d.received = None
  <2>1. PICK f : f = TellTime(d, t) OBVIOUS
  <2>2. ToldTime(d, on, t, f) BY <1>1, <2>1, TellTimeGood
  <2>3. e = [f EXCEPT !.received = t] BY <1>2, <1>3, <1>4, <2>1 DEF Down
  <2>4. f = [received |-> d.received, sent |-> t, tags |-> NoUpdate, events |-> f.events]
    BY <2>2 DEF ToldTime
  <2>5. e = [received |-> t, sent |-> t, tags |-> NoUpdate, events |-> f.events] BY <2>3, <2>4
  <2>6. e.received = t /\ e.sent = t /\ e.tags = NoUpdate /\ e.events = f.events BY <2>5
  <2>7. DownOK(e) BY <2>2, <2>5, <2>6 DEF DownOK, ToldTime, Quietly, More, IsUpdate, NoUpdate, Update
  <2>8. Good(e, on, t) BY <1>2, <2>2, <2>6, <2>7 DEF Good, ToldTime
  <2> QED BY <1>2, <1>3, <2>2, <2>6, <2>8 DEF ToldTime
<1>5. CASE d.received # None
  <2>1. e = [d EXCEPT !.received = t] BY <1>2, <1>3, <1>5 DEF Down
  <2>2. e = [received |-> t, sent |-> d.sent, tags |-> d.tags, events |-> d.events]
    BY <1>1, <2>1 DEF DownOK
  <2>3. e.received = t /\ e.sent = d.sent /\ e.tags = d.tags /\ e.events = d.events BY <2>2
  <2>4. DownOK(e) BY <1>1, <2>2, <2>3 DEF DownOK
  <2>5. Good(e, on, t) BY <1>2, <2>3, <2>4 DEF Good
  <2> QED BY <1>1, <1>2, <1>3, <2>3, <2>5, MoreSame DEF DownOK
<1> QED BY <1>4, <1>5

(* Any other call is told with the tags and the time of the run before it.  *)
ToldNow(d, on, time, call, e) ==
    /\ Good(e, Turn(on, call), time)
    /\ e.received = None /\ e.tags = NoUpdate
    /\ \E s : Quietly(d.events, s) /\ e.events = Append(s, call)

LEMMA DownOther ==
  ASSUME NEW d, NEW on, NEW time, Good(d, on, time), NEW call, call.kind \notin {"tags", "time"}
  PROVE  ToldNow(d, on, time, call, Down(d, call))
<1>1. PICK f : f = CatchUp(d) OBVIOUS
<1>2. Good(f, on, time) /\ f.received = None /\ Quietly(d.events, f.events) BY <1>1, CatchUpGood
<1>3. DownOK(f) /\ Agrees(TurnAll(NoTags, f.events), f.tags, on) BY <1>2 DEF Good
<1>4. PICK e : e = Tell(f, call) OBVIOUS
<1>5. Told(f, on, call, e) BY <1>3, <1>4, TellGood
<1>6. Down(d, call) = e BY <1>1, <1>4 DEF Down
<1>7. PICK s : Quietly(f.events, s) /\ e.events = Append(s, call) BY <1>5 DEF Told
<1>8. Quietly(d.events, s) BY <1>2, <1>7, QuietQuiet
<1>9. time = f.sent /\ LastTime(f.events) = f.sent BY <1>2 DEF Good
<1>10. LastTime(e.events) = f.sent BY <1>5, <1>9 DEF Told, Later
<1>11. Good(e, Turn(on, call), time) BY <1>2, <1>5, <1>9, <1>10 DEF Good, Told
<1> QED BY <1>2, <1>5, <1>6, <1>7, <1>8, <1>11 DEF ToldNow, Told

-----------------------------------------------------------------------------
(* The calls of a test, told when it stops.                                 *)

IsHeld(call) ==
    \/ call.kind \in {"startTest", "outcome", "stopTest"}
    \/ call.kind = "tags" /\ call.arg.new \cap call.arg.gone = {}

(* An outcome is told with the tags it has among the calls held.            *)
Reported(e, i, on, time, h, j) ==
    \E b \in 1..j :
      /\ h[b] = e.events[i]
      /\ TagsOn(Before(e.events, i)) = TagsOf(TurnAll(on, Before(h, b)))
      /\ LastTime(Before(e.events, i)) = time
Went(d, on, time, h, j, e) ==
    /\ Good(e, TurnAll(on, Before(h, j)), time)
    /\ More(d.events, e.events)
    /\ OfTests(e.events) = OfTests(d.events) \o OfTests(Before(h, j))
    /\ \A i \in Len(d.events) + 1 .. Len(e.events) :
         e.events[i].kind = "outcome" => Reported(e, i, on, time, h, j)

LEMMA GoodTags ==
  ASSUME NEW d, NEW on, NEW time, Good(d, on, time), d.tags = NoUpdate
  PROVE  TagsOn(d.events) = TagsOf(on)
<1>1. PICK told : told = TurnAll(NoTags, d.events) OBVIOUS
<1>2. Agrees(told, NoUpdate, on) BY <1>1 DEF Good
<1>3. TagsOf(told) = TagsOf(on) BY <1>2, AppliedNone DEF Agrees, TagsOf
<1> QED BY <1>1, <1>3 DEF TagsOn

LEMMA WentNone ==
  ASSUME NEW d, NEW on, NEW time, Good(d, on, time), NEW h, IsSeq(h)
  PROVE  Went(d, on, time, h, 0, DownAll(d, Before(h, 0)))
<1>1. Before(h, 0) = <<>> BY BeforeNone
<1>2. DownAll(d, <<>>) = d /\ TurnAll(on, <<>>) = on BY DownsNone, TurnsNone
<1>3. IsSeq(d.events) BY DEF Good, DownOK
<1>4. OfTests(d.events) = OfTests(d.events) \o <<>>
  <2>1. PICK S : OfTests(d.events) \in Seq(S) BY <1>3, KeptIsSeq DEF IsSeq
  <2> QED BY <2>1
<1>5. Len(d.events) \in Nat BY <1>3, SeqShape
<1>6. OfTests(d.events) = OfTests(d.events) \o OfTests(Before(h, 0))
  BY <1>1, <1>4, KeepsNone, Zenon
<1>7. More(d.events, d.events) BY <1>3, MoreSame
<1>8. Good(d, TurnAll(on, Before(h, 0)), time) BY <1>1, <1>2
<1>9. ~\E i \in Len(d.events) + 1 .. Len(d.events) : TRUE BY <1>5
<1>10. DownAll(d, Before(h, 0)) = d BY <1>1, <1>2
<1>11. Went(d, on, time, h, 0, d) BY <1>6, <1>7, <1>8, <1>9, Zenon DEF Went
<1> QED BY <1>10, <1>11

LEMMA WentOne ==
  ASSUME NEW d, NEW on, NEW time, NEW h, IsSeq(h), NEW j \in 1..Len(h), NEW e,
         Went(d, on, time, h, j - 1, e), IsHeld(h[j])
  PROVE  Went(d, on, time, h, j, Down(e, h[j]))
<1>1. PICK c : c = h[j] OBVIOUS
<1>2. PICK m \in Nat : m = j - 1 BY SeqShape
<1>3. j \in Nat /\ m \in 0..Len(h) /\ j \in 1..j BY <1>2, SeqShape
<1>4. PICK p : p = Before(h, m) OBVIOUS
<1>5. IsSeq(p) BY <1>3, <1>4, BeforeShape DEF IsPart
<1>6. Before(h, j) = Append(p, c) BY <1>1, <1>2, <1>4, BeforeNext
<1>7. TurnAll(on, Before(h, j)) = Turn(TurnAll(on, p), c) BY <1>5, <1>6, TurnsOne
<1>8. OfTests(Before(h, j)) = Keep(OfTests(p), c) BY <1>5, <1>6, KeepsOne
<1>9. Went(d, on, time, h, m, e) /\ IsHeld(c) BY <1>1, <1>2
<1>10. Good(e, TurnAll(on, p), time) /\ IsSeq(e.events) BY <1>4, <1>9 DEF Went, Good, DownOK
<1>11. PICK f : f = Down(e, c) OBVIOUS
<1>12. CASE c.kind = "tags"
  <2>1. c.arg.new \cap c.arg.gone = {} BY <1>9, <1>12 DEF IsHeld
  <2>2. Good(f, Turn(TurnAll(on, p), c), time) /\ f.events = e.events
    BY <1>10, <1>11, <1>12, <2>1, DownTags
  <2>3. OfTests(Before(h, j)) = OfTests(p) BY <1>8, <1>12 DEF Keep
  <2>4. \A i : Reported(e, i, on, time, h, m) => Reported(f, i, on, time, h, j)
    <3>1. 1..m \subseteq 1..j BY <1>2, <1>3
    <3> QED BY <2>2, <3>1 DEF Reported
  <2> QED BY <1>1, <1>4, <1>7, <1>9, <1>11, <2>2, <2>3, <2>4 DEF Went
<1>13. CASE c.kind # "tags"
  <2>1. c.kind \in {"startTest", "outcome", "stopTest"} BY <1>9, <1>13 DEF IsHeld
  <2>2. ToldNow(e, TurnAll(on, p), time, c, f) BY <1>10, <1>11, <2>1, DownOther
  <2>3. PICK s : Quietly(e.events, s) /\ f.events = Append(s, c) BY <2>2 DEF ToldNow
  <2>4. IsSeq(s) /\ More(e.events, s) /\ OfTests(s) = OfTests(e.events) BY <2>3 DEF Quietly, More
  <2>5. OneMore(s, c, f.events) /\ More(s, f.events) BY <2>3, <2>4, AppendShape, MoreOne
  <2>6. More(e.events, f.events) BY <2>4, <2>5, MoreMore
  <2>7. More(d.events, f.events) BY <1>9, <2>6, MoreMore DEF Went
  <2>8. OfTests(f.events) = OfTests(d.events) \o OfTests(Before(h, j))
    <3>1. PICK a, b : a = OfTests(d.events) /\ b = OfTests(p) OBVIOUS
    <3>2. IsSeq(a) /\ IsSeq(b) BY <1>5, <1>9, <3>1, KeptIsSeq DEF Went, More
    <3>3. OfTests(e.events) = a \o b BY <1>4, <1>9, <3>1 DEF Went
    <3>4. OfTests(f.events) = Keep(a \o b, c) BY <2>3, <2>4, <3>3, KeepsOne
    <3>5. OfTests(f.events) = Append(a \o b, c) BY <2>1, <3>4 DEF Keep
    <3>6. OfTests(Before(h, j)) = Append(b, c) BY <1>8, <2>1, <3>1 DEF Keep
    <3>7. Append(a \o b, c) = a \o Append(b, c) BY <3>2, ConcatAppend
    <3> QED BY <3>1, <3>5, <3>6, <3>7, Zenon
  <2>9. ASSUME NEW i \in Len(d.events) + 1 .. Len(f.events), f.events[i].kind = "outcome"
        PROVE  Reported(f, i, on, time, h, j)
    <3>1. /\ Len(d.events) \in Nat /\ Len(e.events) \in Nat /\ Len(s) \in Nat
          /\ Len(f.events) \in Nat /\ Len(f.events) = Len(s) + 1
          /\ Len(d.events) <= Len(e.events) /\ Len(e.events) <= Len(s)
      BY <1>9, <1>10, <2>4, <2>5, SeqShape DEF Went, More, OneMore
    <3>2. CASE i <= Len(e.events)
      <4>1. i \in Len(d.events) + 1 .. Len(e.events) /\ i \in 1..Len(e.events) /\ i \in 0..Len(e.events)
        BY <3>1, <3>2
      <4>2. f.events[i] = e.events[i] BY <2>6, <4>1 DEF More
      <4>3. Reported(e, i, on, time, h, m) BY <1>9, <2>9, <4>1, <4>2 DEF Went
      <4>4. Before(e.events, i) = Before(f.events, i)
        <5>1. \A k \in 1..i : e.events[k] = f.events[k]
          <6> TAKE k \in 1..i
          <6>1. k \in 1..Len(e.events) BY <3>1, <4>1
          <6> QED BY <2>6, <6>1 DEF More
        <5>2. IsSeq(e.events) /\ IsSeq(f.events) /\ i <= Len(f.events) BY <2>6, <3>1, <4>1 DEF More
        <5> QED BY <4>1, <5>1, <5>2, SameBefore
      <4>5. 1..m \subseteq 1..j BY <1>2, <1>3
      <4> QED BY <4>2, <4>3, <4>4, <4>5 DEF Reported
    <3>3. CASE i > Len(e.events) /\ i <= Len(s)
      <4>1. i \in Len(e.events) + 1 .. Len(s) /\ i \in 1..Len(s) BY <3>1, <3>3
      <4>2. s[i].kind \in Others3 /\ f.events[i] = s[i] BY <2>3, <2>5, <4>1 DEF Quietly, OneMore
      <4> QED BY <2>9, <4>2 DEF Others3
    <3>4. CASE i > Len(s)
      <4>1. i = Len(f.events) /\ i = Len(s) + 1 BY <3>1, <3>4
      <4>2. f.events[i] = c BY <2>5, <4>1 DEF OneMore
      <4>3. Before(f.events, i) = f.events BY <2>6, <4>1, BeforeAll DEF More
      <4>4. /\ Good(f, Turn(TurnAll(on, p), c), time) /\ f.received = None
            /\ f.tags = NoUpdate
        BY <2>2 DEF ToldNow
      <4>5. TagsOn(f.events) = TagsOf(Turn(TurnAll(on, p), c)) BY <4>4, GoodTags
      <4>6. LastTime(f.events) = time BY <4>4 DEF Good
      <4> QED BY <1>1, <1>3, <1>7, <4>2, <4>3, <4>5, <4>6 DEF Reported
    <3> QED BY <3>1, <3>2, <3>3, <3>4
  <2> QED BY <1>1, <1>7, <1>11, <2>2, <2>7, <2>8, <2>9 DEF Went, ToldNow
<1> QED BY <1>12, <1>13

LEMMA WentAll ==
  ASSUME NEW d, NEW on, NEW time, Good(d, on, time), NEW h, IsSeq(h),
         \A j \in 1..Len(h) : IsHeld(h[j])
  PROVE  Went(d, on, time, h, Len(h), DownAll(d, h))
<1> DEFINE A == {j \in 0..Len(h) : Went(d, on, time, h, j, DownAll(d, Before(h, j)))}
<1>1. Len(h) \in Nat BY SeqShape
<1>2. 0 \in A BY <1>1, WentNone
<1>3. ASSUME NEW i \in 1..Len(h), i - 1 \in A PROVE i \in A
  <2>1. PICK m \in Nat : m = i - 1 BY <1>1
  <2>2. PICK e : e = DownAll(d, Before(h, m)) OBVIOUS
  <2>3. Went(d, on, time, h, i - 1, e) BY <1>3, <2>1, <2>2
  <2>4. Went(d, on, time, h, i, Down(e, h[i])) BY <2>3, WentOne
  <2>5. m \in 0..Len(h) BY <1>1, <2>1
  <2>6. IsSeq(Before(h, m)) BY <2>5, BeforeShape DEF IsPart
  <2>7. Before(h, i) = Append(Before(h, m), h[i]) BY <2>1, BeforeNext
  <2>8. DownAll(d, Before(h, i)) = Down(e, h[i]) BY <2>2, <2>6, <2>7, DownsOne
  <2>9. i \in 0..Len(h) BY <1>1
  <2> QED BY <2>4, <2>8, <2>9
<1>4. Len(h) \in A
  <2> HIDE DEF A
  <2> QED BY <1>1, <1>2, <1>3, Turns!Upto
<1>5. Before(h, Len(h)) = h BY BeforeAll
<1> QED BY <1>4, <1>5

-----------------------------------------------------------------------------
(* The calls of the filter.                                                 *)

(* A test has at most one outcome and one stop, and has an outcome when it  *)
(* stops.                                                                   *)
TestCalls == {"outcome", "stopTest"}
Unique(s) ==
    \A i, j \in 1..Len(s) :
      s[i].kind \in TestCalls /\ s[i].kind = s[j].kind /\ s[i].test = s[j].test => i = j
Has(s, kind, test) == \E i \in 1..Len(s) : s[i].kind = kind /\ s[i].test = test
CallsOK ==
    /\ IsSeq(calls) /\ Unique(calls)
    /\ \A i \in 1..Len(calls) : calls[i].kind \in TestCalls => calls[i].test \in 1 .. i - 1
    /\ \A i \in 1..Len(calls) : calls[i].kind = "stopTest" => Has(calls, "outcome", calls[i].test)

(* The calls since the start of the test that is running are its own.       *)
TestOpen ==
    /\ current_test \in 0..Len(calls)
    /\ \A i \in 1..Len(calls) : calls[i].kind = "stopTest" => calls[i].test # current_test
    /\ current_test # None =>
         /\ calls[current_test].kind = "startTest"
         /\ \A i \in current_test + 1 .. Len(calls) :
              /\ calls[i].kind \notin {"startTest", "stopTest"}
              /\ calls[i].kind = "outcome" => calls[i].test = current_test

LEMMA PlaceIs ==
  ASSUME NEW s, IsSeq(s), Unique(s), NEW i \in 1..Len(s), s[i].kind \in TestCalls
  PROVE  PlaceOf(s, s[i].kind, s[i].test) = i
<1>1. PICK k, t : k = s[i].kind /\ t = s[i].test OBVIOUS
<1>2. i \in DOMAIN s /\ s[i].kind = k /\ s[i].test = t BY <1>1, SeqShape
<1>3. PICK p : p = PlaceOf(s, k, t) OBVIOUS
<1>4. p \in DOMAIN s /\ s[p].kind = k /\ s[p].test = t BY <1>2, <1>3 DEF PlaceOf
<1>5. p \in 1..Len(s) BY <1>4, SeqShape
<1>6. p = i BY <1>1, <1>4, <1>5 DEF Unique
<1> QED BY <1>1, <1>3, <1>6

LEMMA PlaceStays ==
  ASSUME NEW s, IsSeq(s), Unique(s), NEW e, Unique(Append(s, e)),
         NEW kind \in TestCalls, NEW test, Has(s, kind, test)
  PROVE  /\ PlaceOf(s, kind, test) \in 1..Len(s)
         /\ PlaceOf(Append(s, e), kind, test) = PlaceOf(s, kind, test)
         /\ Append(s, e)[PlaceOf(s, kind, test)] = s[PlaceOf(s, kind, test)]
<1>1. PICK i \in 1..Len(s) : s[i].kind = kind /\ s[i].test = test BY DEF Has
<1>2. PlaceOf(s, kind, test) = i BY <1>1, PlaceIs
<1>3. PICK t : t = Append(s, e) OBVIOUS
<1>4. OneMore(s, e, t) /\ Len(s) \in Nat BY <1>3, AppendShape, SeqShape
<1>5. i \in 1..Len(t) /\ t[i] = s[i] /\ IsSeq(t) BY <1>4 DEF OneMore
<1>6. PlaceOf(t, kind, test) = i BY <1>1, <1>3, <1>5, PlaceIs
<1> QED BY <1>2, <1>3, <1>5, <1>6

(* What is known of a test with an outcome stays as it is.                  *)
LEMMA JudgedStays ==
  ASSUME CallsOK, NEW e, calls' = Append(calls, e), CallsOK', options' = options,
         NEW test, Has(calls, "outcome", test)
  PROVE  /\ OutcomeOf(test)' = OutcomeOf(test) /\ TagsAtOutcome(test)' = TagsAtOutcome(test)
         /\ Passed(test)' = Passed(test) /\ test \in 1..Len(calls)
<1>1. PICK s : s = calls OBVIOUS
<1>2. PICK t : t = Append(s, e) OBVIOUS
<1>3. calls' = t BY <1>1, <1>2
<1>4. IsSeq(s) /\ Unique(s) /\ Unique(t) BY <1>1, <1>3 DEF CallsOK
<1>5. PICK p : p = PlaceOf(s, "outcome", test) OBVIOUS
<1>6. p \in 1..Len(s) /\ PlaceOf(t, "outcome", test) = p /\ t[p] = s[p]
  BY <1>1, <1>2, <1>4, <1>5, PlaceStays DEF TestCalls
<1>7. test \in 1..Len(s)
  <2>1. PICK i \in 1..Len(s) : s[i].kind = "outcome" /\ s[i].test = test BY <1>1 DEF Has
  <2>2. test \in 1 .. i - 1 BY <1>1, <2>1 DEF CallsOK, TestCalls
  <2> QED BY <2>1, <2>2, <1>4, SeqShape
<1>8. t[test] = s[test]
  <2>1. OneMore(s, e, t) BY <1>2, <1>4, AppendShape
  <2> QED BY <1>7, <2>1 DEF OneMore
<1>9. Before(t, p) = Before(s, p)
  <2>1. p \in 0..Len(s) BY <1>4, <1>6, SeqShape
  <2> QED BY <1>2, <1>4, <2>1, BeforeAppend
<1>10. OutcomeOf(test)' = OutcomeOf(test)
  BY <1>1, <1>3, <1>5, <1>6, <1>8 DEF OutcomeOf, Fixed
<1>11. TagsAtOutcome(test)' = TagsAtOutcome(test)
  BY <1>1, <1>3, <1>5, <1>6, <1>9 DEF TagsAtOutcome
<1>12. Passed(test)' = Passed(test)
  BY <1>1, <1>3, <1>8, <1>10, <1>11 DEF Passed, Wanted
<1> QED BY <1>1, <1>7, <1>10, <1>11, <1>12

(* What has become of each call, and what it comes to.                      *)
Parts ==
    [i \in DOMAIN calls |-> IF calls[i].kind = "stopTest" THEN Passed(calls[i].test) ELSE <<>>]

LEMMA PartsGrow ==
  ASSUME CallsOK, NEW e, calls' = Append(calls, e), CallsOK', options' = options,
         NEW part, part = IF e.kind = "stopTest" THEN Passed(e.test)' ELSE <<>>
  PROVE  FlattenSeq(Parts') = FlattenSeq(Parts) \o part
<1>1. PICK n \in Nat : n = Len(calls) BY SeqShape DEF CallsOK
<1>2. OneMore(calls, e, calls') /\ DOMAIN calls = 1..n /\ DOMAIN calls' = 1 .. n + 1
  BY <1>1, AppendShape, SeqShape DEF CallsOK, OneMore
<1>3. PICK p, q : p = Parts /\ q = Parts' OBVIOUS
<1>4. DOMAIN p = 1..n /\ DOMAIN q = 1 .. n + 1 BY <1>2, <1>3 DEF Parts
<1>5. \A i \in 1..n : q[i] = p[i]
  <2> TAKE i \in 1..n
  <2>1. calls'[i] = calls[i] BY <1>1, <1>2 DEF OneMore
  <2>2. CASE calls[i].kind = "stopTest"
    <3>1. PICK t : t = calls[i].test OBVIOUS
    <3>2. Has(calls, "outcome", t) BY <1>1, <2>2, <3>1 DEF CallsOK
    <3>3. Passed(t)' = Passed(t) BY <3>2, JudgedStays
    <3>4. i \in 1 .. n + 1 BY <1>1
    <3> QED BY <1>2, <1>3, <2>1, <2>2, <3>1, <3>3, <3>4 DEF Parts
  <2>3. CASE calls[i].kind # "stopTest"
    <3>1. i \in 1 .. n + 1 BY <1>1
    <3> QED BY <1>2, <1>3, <2>1, <2>3, <3>1 DEF Parts
  <2> QED BY <2>2, <2>3
<1>6. q[n + 1] = part
  <2>1. n + 1 \in 1 .. n + 1 /\ calls'[n + 1] = e BY <1>1, <1>2 DEF OneMore
  <2>2. q[n + 1] = (IF calls[n + 1].kind = "stopTest" THEN Passed(calls[n + 1].test) ELSE <<>>)'
    BY <1>2, <1>3, <2>1 DEF Parts
  <2> QED BY <2>1, <2>2 DEF Passed, OutcomeOf, TagsAtOutcome, Wanted, Fixed
<1> DEFINE S == {q[i][k] : i \in 1 .. n + 1, k \in 1..3}
<1>7. \A i \in 1 .. n + 1 : q[i] \in Seq(S)
  <2> TAKE i \in 1 .. n + 1
  <2>1. q[i] = <<>> \/ \E a, b, c : q[i] = <<a, b, c>>
    BY <1>2, <1>3 DEF Parts, Passed
  <2>2. CASE q[i] = <<>> BY <2>2
  <2>3. CASE q[i] # <<>>
    <3>1. PICK a, b, c : q[i] = <<a, b, c>> BY <2>1, <2>3
    <3>2. q[i][1] = a /\ q[i][2] = b /\ q[i][3] = c BY <3>1
    <3>3. a \in S /\ b \in S /\ c \in S BY <3>2
    <3> HIDE DEF S
    <3> QED BY <3>1, <3>3
  <2> QED BY <2>2, <2>3
<1> HIDE DEF S
<1>8. p \in Seq(Seq(S)) /\ q \in Seq(Seq(S))
  <2> DEFINE T == Seq(S)
  <2>1. \A i \in 1 .. n + 1 : q[i] \in T BY <1>7
  <2>2. \A i \in 1..n : p[i] \in T
    <3> TAKE i \in 1..n
    <3>1. i \in 1 .. n + 1 BY <1>1
    <3> QED BY <1>5, <2>1, <3>1
  <2>3. q = [i \in 1 .. n + 1 |-> q[i]] /\ p = [i \in 1..n |-> p[i]] BY <1>2, <1>3 DEF Parts
  <2> HIDE DEF T
  <2>4. q \in [1 .. n + 1 -> T] /\ p \in [1..n -> T] BY <2>1, <2>2, <2>3
  <2>5. q \in Seq(T) /\ p \in Seq(T)
    <3>1. n + 1 \in Nat BY <1>1
    <3> QED BY <1>1, <2>4, <3>1
  <2> QED BY <2>5 DEF T
<1>9. part \in Seq(S)
  <2>1. n + 1 \in 1 .. n + 1 BY <1>1
  <2> QED BY <1>6, <1>7, <2>1
<1>10. q = Append(p, part)
  <2>1. PICK r : r = Append(p, part) OBVIOUS
  <2>2. IsSeq(p) /\ IsSeq(q) /\ Len(p) = n /\ Len(q) = n + 1 BY <1>1, <1>4, <1>8 DEF IsSeq
  <2>3. OneMore(p, part, r) BY <2>1, <2>2, AppendShape
  <2>4. \A i \in 1 .. n + 1 : q[i] = r[i]
    <3> TAKE i \in 1 .. n + 1
    <3>1. i \in 1..n \/ i = n + 1 BY <1>1
    <3> QED BY <1>5, <1>6, <2>2, <2>3, <3>1 DEF OneMore
  <2>5. q = r BY <2>2, <2>3, <2>4, SameSeq DEF OneMore
  <2> QED BY <2>1, <2>5
<1>11. Turns!FlattenSeq(Append(p, part)) = Turns!FlattenSeq(p) \o part
  BY <1>8, <1>9, Turns!FlattenAppend
<1>12. \A r : FlattenSeq(r) = Turns!FlattenSeq(r) BY Zenon DEF FlattenSeq, Turns!FlattenSeq
<1> QED BY <1>3, <1>10, <1>11, <1>12, Zenon

-----------------------------------------------------------------------------
(* The inductive invariant.                                                 *)

(* The tags of the run, and of the run up to the test that is running.      *)
Run == TurnAll(NoTags, calls)
Base == IF current_test = None THEN Run ELSE TurnAll(NoTags, Before(calls, current_test - 1))

(* The filter knows the tags of the run.                                    *)
TagsInv ==
    /\ IsOn(Run) /\ Run.all = global_tags.new /\ Run.inside = (current_test # None)
    /\ current_test = None => test_tags = <<>>
    /\ current_test # None =>
         \E u : test_tags = <<u>> /\ Run.here = (global_tags.new \ u.gone) \cup u.new

DownInv ==
    /\ Good(down, Base, LastTime(calls))
    /\ ~Base.inside /\ Base.all = Run.all

(* What is held of a test, before its outcome and after.                    *)
Began(test) == Call("startTest", test, calls[test].arg)
Waiting(test) ==
    /\ filtered = FALSE /\ OfTests(buffered_calls) = <<Began(test)>>
    /\ \A b \in 1..Len(buffered_calls) : buffered_calls[b].kind # "outcome"
Decided(test) ==
    /\ filtered \in BOOLEAN
    /\ filtered <=> ~Wanted(OutcomeOf(test), TagsAtOutcome(test))
    /\ ~filtered =>
         /\ OfTests(buffered_calls) = <<Began(test), Call("outcome", test, OutcomeOf(test))>>
         /\ \A b \in 1..Len(buffered_calls) :
              buffered_calls[b].kind = "outcome" =>
                /\ buffered_calls[b].test = test
                /\ TagsOf(TurnAll(Base, Before(buffered_calls, b))) = TagsAtOutcome(test)
HeldInv ==
    /\ IsSeq(buffered_calls)
    /\ \A b \in 1..Len(buffered_calls) : IsHeld(buffered_calls[b])
    /\ current_test = None => buffered_calls = <<>>
    /\ current_test # None =>
         /\ TurnAll(Base, buffered_calls) = Run
         /\ ~Has(calls, "outcome", current_test) => Waiting(current_test)
         /\ Has(calls, "outcome", current_test) => Decided(current_test)

(* What the client was told of an outcome stays true.                       *)
ReportOK(i) ==
    /\ Has(calls, "stopTest", down.events[i].test)
    /\ TagsOn(Before(down.events, i)) = TagsAtOutcome(down.events[i].test)
    /\ LastTime(Before(down.events, i)) =
         LastTime(Before(calls, PlaceOf(calls, "stopTest", down.events[i].test)))
ReportsInv == \A i \in 1..Len(down.events) : down.events[i].kind = "outcome" => ReportOK(i)

PartsInv == OfTests(down.events) = FlattenSeq(Parts)

IInv == CallsOK /\ TestOpen /\ TagsInv /\ DownInv /\ HeldInv /\ ReportsInv /\ PartsInv

LEMMA InitIInv == Init => IInv
<1> SUFFICES ASSUME Init PROVE IInv OBVIOUS
<1>1. /\ calls = <<>> /\ global_tags = NoUpdate /\ test_tags = <<>> /\ current_test = None
      /\ filtered = FALSE /\ buffered_calls = <<>> /\ down = Below
  BY DEF Init
<1>2. IsSeq(<<>>) /\ Len(<<>>) = 0 BY DEF IsSeq
<1>3. CallsOK BY <1>1, <1>2 DEF CallsOK, Unique
<1>4. TestOpen BY <1>1, <1>2 DEF TestOpen, None
<1>5. Run = NoTags /\ Base = NoTags BY <1>1, TurnsNone DEF Run, Base
<1>6. IsOn(NoTags) BY DEF IsOn, NoTags
<1>7. TagsInv BY <1>1, <1>5, <1>6 DEF TagsInv, NoTags, NoUpdate, Update
<1>8. /\ down.events = <<>> /\ down.tags = NoUpdate /\ down.received = None /\ down.sent = None
      /\ down = [received |-> None, sent |-> None, tags |-> NoUpdate, events |-> <<>>]
  BY <1>1 DEF Below
<1>9. DownInv
  <2>1. DownOK(down) BY <1>2, <1>8 DEF DownOK, IsUpdate, NoUpdate, Update
  <2>2. Agrees(NoTags, NoUpdate, NoTags) BY <1>6, AppliedNone DEF Agrees, NoTags
  <2>3. Good(down, NoTags, None) BY <1>8, <2>1, <2>2, TurnsNone, LatersNone DEF Good
  <2> QED BY <1>1, <1>5, <2>3, LatersNone DEF DownInv, NoTags
<1>10. HeldInv BY <1>1, <1>2 DEF HeldInv
<1>11. ReportsInv BY <1>2, <1>8 DEF ReportsInv
<1>12. PartsInv
  <2>1. DOMAIN calls = {} BY <1>1
  <2>2. Parts = <<>> BY <2>1 DEF Parts
  <2>3. Turns!FlattenSeq(<<>>) = <<>>
    <3>1. <<>> \in Seq(Seq({})) /\ Len(<<>>) = 0 OBVIOUS
    <3>2. PICK f : Turns!IsJoin({}, <<>>, f) /\ Turns!FlattenSeq(<<>>) = f[0] BY <3>1, Turns!Flattened
    <3> QED BY <3>2 DEF Turns!IsJoin
  <2>4. FlattenSeq(<<>>) = Turns!FlattenSeq(<<>>) BY Zenon DEF FlattenSeq, Turns!FlattenSeq
  <2> QED BY <1>8, <2>2, <2>3, <2>4, KeepsNone DEF PartsInv
<1> QED BY <1>3, <1>4, <1>7, <1>9, <1>10, <1>11, <1>12 DEF IInv

-----------------------------------------------------------------------------
(* What any call leaves as it was.                                          *)

LEMMA ReportStays ==
  ASSUME CallsOK, NEW e, calls' = Append(calls, e), CallsOK', options' = options,
         More(down.events, down'.events), NEW i \in 1..Len(down.events), ReportOK(i)
  PROVE  ReportOK(i)'
<1>1. PICK s, t : s = calls /\ t = Append(s, e) OBVIOUS
<1>2. PICK v, w : v = down.events /\ w = down'.events OBVIOUS
<1>3. w[i] = v[i] /\ i \in 1..Len(w) /\ IsSeq(v) /\ IsSeq(w) /\ Len(v) <= Len(w)
  BY <1>2, SeqShape DEF More
<1>4. PICK test : test = v[i].test OBVIOUS
<1>5. Has(s, "stopTest", test) BY <1>1, <1>2, <1>4 DEF ReportOK
<1>6. Has(s, "outcome", test) BY <1>1, <1>5 DEF CallsOK, Has
<1>7. TagsAtOutcome(test)' = TagsAtOutcome(test) BY <1>1, <1>6, JudgedStays
<1>8. IsSeq(s) /\ Unique(s) /\ Unique(t) BY <1>1 DEF CallsOK
<1>9. PICK p : p = PlaceOf(s, "stopTest", test) OBVIOUS
<1>10. p \in 1..Len(s) /\ PlaceOf(t, "stopTest", test) = p
  BY <1>1, <1>5, <1>8, <1>9, PlaceStays DEF TestCalls
<1>11. Before(t, p) = Before(s, p)
  <2>1. p \in 0..Len(s) BY <1>8, <1>10, SeqShape
  <2> QED BY <1>1, <1>8, <2>1, BeforeAppend
<1>12. Before(v, i) = Before(w, i)
  <2>1. i \in 0..Len(v) /\ i <= Len(w) BY <1>2, <1>3, SeqShape
  <2>2. \A k \in 1..i : v[k] = w[k]
    <3> TAKE k \in 1..i
    <3>1. k \in 1..Len(v) BY <1>2, <1>3, SeqShape
    <3> QED BY <1>2, <3>1 DEF More
  <2> QED BY <1>3, <2>1, <2>2, SameBefore
<1>13. Has(t, "stopTest", test)
  <2>1. OneMore(s, e, t) /\ Len(s) \in Nat BY <1>1, <1>8, AppendShape, SeqShape
  <2> QED BY <1>5, <2>1 DEF Has, OneMore
<1>14. TagsOn(Before(v, i)) = TagsAtOutcome(test) /\ LastTime(Before(v, i)) = LastTime(Before(s, p))
  BY <1>1, <1>2, <1>4, <1>9 DEF ReportOK
<1>15. down'.events[i].test = test BY <1>2, <1>3, <1>4
<1>16. TagsOn(Before(w, i)) = TagsAtOutcome(test)' BY <1>7, <1>12, <1>14
<1>17. LastTime(Before(w, i)) = LastTime(Before(t, PlaceOf(t, "stopTest", test)))
  BY <1>10, <1>11, <1>12, <1>14
<1>18. calls' = t BY <1>1
<1> QED BY <1>2, <1>13, <1>15, <1>16, <1>17, <1>18 DEF ReportOK, TagsAtOutcome

LEMMA ReportsStay ==
  ASSUME IInv, NEW e, calls' = Append(calls, e), CallsOK', options' = options,
         Quietly(down.events, down'.events)
  PROVE  ReportsInv'
<1>1. /\ CallsOK /\ More(down.events, down'.events) /\ Len(down.events) \in Nat
      /\ Len(down'.events) \in Nat
  BY SeqShape DEF IInv, Quietly, More
<1>2. ASSUME NEW i \in 1..Len(down'.events), down'.events[i].kind = "outcome" PROVE ReportOK(i)'
  <2>1. CASE i \in 1..Len(down.events)
    <3>1. down'.events[i] = down.events[i] BY <1>1, <2>1 DEF More
    <3>2. ReportOK(i) BY <1>2, <2>1, <3>1 DEF IInv, ReportsInv
    <3> QED BY <1>1, <2>1, <3>2, ReportStays
  <2>2. CASE i \notin 1..Len(down.events)
    <3>1. i \in Len(down.events) + 1 .. Len(down'.events) BY <1>1, <2>2
    <3> QED BY <1>2, <3>1 DEF Quietly, Others3
  <2> QED BY <2>1, <2>2
<1> QED BY <1>2 DEF ReportsInv

(* Of a call that is not told as one about a test, nothing comes.           *)
LEMMA PartsStay ==
  ASSUME IInv, NEW e, calls' = Append(calls, e), CallsOK', options' = options,
         OfTests(down'.events) = OfTests(down.events),
         e.kind = "stopTest" => Passed(e.test)' = <<>>
  PROVE  PartsInv'
<1>1. CallsOK BY DEF IInv
<1>2. FlattenSeq(Parts') = FlattenSeq(Parts) \o <<>> BY <1>1, PartsGrow
<1>3. PICK a : a = OfTests(down.events) OBVIOUS
<1>4. a = FlattenSeq(Parts) BY <1>3 DEF IInv, PartsInv
<1>5. IsSeq(a) BY <1>3, KeptIsSeq DEF IInv, DownInv, Good, DownOK
<1>6. a \o <<>> = a
  <2>1. PICK S : a \in Seq(S) BY <1>5 DEF IsSeq
  <2> QED BY <2>1
<1>7. FlattenSeq(Parts') = a BY <1>2, <1>4, <1>6, Zenon
<1> QED BY <1>3, <1>7 DEF PartsInv

-----------------------------------------------------------------------------
(* One more call of the filter.                                             *)

LEMMA RunGrows ==
  ASSUME CallsOK, NEW e, calls' = Append(calls, e)
  PROVE  /\ Run' = Turn(Run, e) /\ LastTime(calls') = Later(LastTime(calls), e)
         /\ OneMore(calls, e, calls') /\ Len(calls) \in Nat
         /\ \A n \in 0..Len(calls) : Before(calls', n) = Before(calls, n)
<1>1. IsSeq(calls) BY DEF CallsOK
<1>2. PICK s, t : s = calls /\ t = Append(s, e) OBVIOUS
<1>3. TurnAll(NoTags, t) = Turn(TurnAll(NoTags, s), e) BY <1>1, <1>2, TurnsOne
<1>4. LastTime(t) = Later(LastTime(s), e) BY <1>1, <1>2, LatersOne
<1>5. OneMore(s, e, t) BY <1>1, <1>2, AppendShape
<1>6. \A n \in 0..Len(s) : Before(t, n) = Before(s, n) BY <1>1, <1>2, BeforeAppend
<1>7. calls' = t BY <1>2
<1>8. Len(s) \in Nat BY <1>1, <1>2, SeqShape
<1> QED BY <1>2, <1>3, <1>4, <1>5, <1>6, <1>7, <1>8 DEF Run

LEMMA CallsGrow ==
  ASSUME CallsOK, NEW e, calls' = Append(calls, e),
         e.kind \in TestCalls => e.test \in 1..Len(calls) /\ ~Has(calls, e.kind, e.test),
         e.kind = "stopTest" => Has(calls, "outcome", e.test)
  PROVE  CallsOK'
<1>1. PICK s, t : s = calls /\ t = calls' OBVIOUS
<1>2. PICK n \in Nat : n = Len(s) BY <1>1, SeqShape DEF CallsOK
<1>3. OneMore(s, e, t) BY <1>1, RunGrows
<1>4. IsSeq(t) /\ Len(t) = n + 1 /\ t[n + 1] = e /\ \A i \in 1..n : t[i] = s[i]
  BY <1>2, <1>3 DEF OneMore
<1>5. ASSUME NEW i \in 1..Len(t), NEW j \in 1..Len(t), t[i].kind \in TestCalls,
             t[i].kind = t[j].kind, t[i].test = t[j].test
      PROVE  i = j
  <2>1. (i \in 1..n \/ i = n + 1) /\ (j \in 1..n \/ j = n + 1) BY <1>2, <1>4
  <2>2. CASE i \in 1..n /\ j \in 1..n
    BY <1>1, <1>2, <1>4, <1>5, <2>2 DEF CallsOK, Unique
  <2>3. CASE i = n + 1 /\ j = n + 1 BY <2>3
  <2>4. CASE i = n + 1 /\ j \in 1..n
    BY <1>1, <1>2, <1>4, <1>5, <2>4 DEF Has
  <2>5. CASE i \in 1..n /\ j = n + 1
    BY <1>1, <1>2, <1>4, <1>5, <2>5 DEF Has
  <2> QED BY <2>1, <2>2, <2>3, <2>4, <2>5
<1>6. ASSUME NEW i \in 1..Len(t), t[i].kind \in TestCalls PROVE t[i].test \in 1 .. i - 1
  <2>1. CASE i \in 1..n BY <1>1, <1>2, <1>4, <1>6, <2>1 DEF CallsOK
  <2>2. CASE i = n + 1 BY <1>1, <1>2, <1>4, <1>6, <2>2
  <2> QED BY <1>2, <1>4, <2>1, <2>2
<1>7. ASSUME NEW i \in 1..Len(t), t[i].kind = "stopTest" PROVE Has(t, "outcome", t[i].test)
  <2>1. PICK u : u = t[i].test OBVIOUS
  <2>2. Has(s, "outcome", u)
    <3>1. CASE i \in 1..n BY <1>1, <1>2, <1>4, <1>7, <2>1, <3>1 DEF CallsOK
    <3>2. CASE i = n + 1 BY <1>1, <1>4, <1>7, <2>1, <3>2
    <3> QED BY <1>2, <1>4, <3>1, <3>2
  <2>3. Has(t, "outcome", u) BY <1>2, <1>4, <2>2 DEF Has
  <2> QED BY <2>1, <2>3
<1>8. Unique(t) BY <1>5 DEF Unique
<1> QED BY <1>1, <1>4, <1>6, <1>7, <1>8 DEF CallsOK

(* The test that is running has an outcome once there is one since it began.*)
LEMMA OutcomeSince ==
  ASSUME IInv, current_test # None
  PROVE  /\ current_test \in 1..Len(calls)
         /\ Has(calls, "outcome", current_test)
              <=> \E i \in current_test..Len(calls) : calls[i].kind = "outcome"
<1>1. CallsOK /\ TestOpen BY DEF IInv
<1>2. Len(calls) \in Nat BY <1>1, SeqShape DEF CallsOK
<1>3. PICK c \in Nat : c = current_test BY <1>1, <1>2 DEF TestOpen
<1>4. c \in 1..Len(calls) /\ calls[c].kind = "startTest" BY <1>1, <1>2, <1>3 DEF TestOpen, None
<1>5. ASSUME NEW i \in 1..Len(calls), calls[i].kind = "outcome", calls[i].test = c
      PROVE  i \in c..Len(calls)
  <2>1. c \in 1 .. i - 1 BY <1>1, <1>5 DEF CallsOK, TestCalls
  <2> QED BY <1>2, <2>1
<1>6. ASSUME NEW i \in c..Len(calls), calls[i].kind = "outcome"
      PROVE  i \in 1..Len(calls) /\ calls[i].test = c
  <2>1. i # c BY <1>4, <1>6
  <2>2. i \in c + 1 .. Len(calls) /\ i \in 1..Len(calls) BY <1>2, <1>4, <2>1
  <2>3. current_test # None BY <1>3
  <2> QED BY <1>1, <1>3, <1>6, <2>2, <2>3 DEF TestOpen
<1> QED BY <1>3, <1>4, <1>5, <1>6 DEF Has

(* The tags before the test that is running stay as they are.               *)
LEMMA BaseStays ==
  ASSUME IInv, NEW e, calls' = Append(calls, e), current_test' = current_test,
         current_test # None
  PROVE  Base' = Base
<1>1. CallsOK BY DEF IInv
<1>2. PICK c \in 1..Len(calls) : c = current_test BY OutcomeSince
<1>3. Len(calls) \in Nat /\ c - 1 \in 0..Len(calls) BY <1>1, <1>2, RunGrows
<1>4. Before(calls', c - 1) = Before(calls, c - 1) BY <1>1, <1>3, RunGrows
<1>5. current_test' = c BY <1>2
<1> QED BY <1>2, <1>4, <1>5 DEF Base

(* TestOpen, while the test that is running goes on or none does.           *)
LEMMA OpenStays ==
  ASSUME IInv, NEW e, calls' = Append(calls, e), current_test' = current_test,
         e.kind \notin {"startTest", "stopTest"},
         e.kind = "outcome" => e.test = current_test
  PROVE  TestOpen'
<1>1. CallsOK /\ TestOpen BY DEF IInv
<1>2. PICK s, t : s = calls /\ t = calls' OBVIOUS
<1>3. PICK n \in Nat : n = Len(s) BY <1>1, <1>2, SeqShape DEF CallsOK
<1>4. Len(t) = n + 1 /\ t[n + 1] = e /\ \A i \in 1..n : t[i] = s[i]
  BY <1>1, <1>2, <1>3, RunGrows DEF OneMore
<1>5. PICK c : c = current_test OBVIOUS
<1>6. c \in 0..n /\ c \in 0..Len(t) /\ current_test' = c
  BY <1>1, <1>2, <1>3, <1>4, <1>5 DEF TestOpen
<1>7. ASSUME NEW i \in 1..Len(t), t[i].kind = "stopTest" PROVE t[i].test # c
  <2>1. i \in 1..n \/ i = n + 1 BY <1>3, <1>4
  <2> QED BY <1>1, <1>2, <1>3, <1>4, <1>5, <1>7, <2>1 DEF TestOpen
<1>8. ASSUME c # None
      PROVE  /\ t[c].kind = "startTest"
             /\ \A i \in c + 1 .. Len(t) : /\ t[i].kind \notin {"startTest", "stopTest"}
                                           /\ t[i].kind = "outcome" => t[i].test = c
  <2>1. c \in 1..n BY <1>6, <1>8 DEF None
  <2>2. t[c].kind = "startTest" BY <1>1, <1>2, <1>4, <1>5, <1>8, <2>1 DEF TestOpen
  <2>3. ASSUME NEW i \in c + 1 .. Len(t)
        PROVE  t[i].kind \notin {"startTest", "stopTest"} /\ (t[i].kind = "outcome" => t[i].test = c)
    <3>1. (i \in c + 1 .. n /\ i \in 1..n) \/ i = n + 1 BY <1>3, <1>4, <2>1
    <3>2. CASE i \in c + 1 .. n /\ i \in 1..n
      BY <1>1, <1>2, <1>3, <1>4, <1>5, <1>8, <3>2 DEF TestOpen
    <3>3. CASE i = n + 1 BY <1>4, <1>5, <3>3
    <3> QED BY <3>1, <3>2, <3>3
  <2> QED BY <2>2, <2>3
<1> QED BY <1>2, <1>6, <1>7, <1>8 DEF TestOpen

(* A call that is not about a test: tags go to the scope that is current,   *)
(* and with a test they are held.                                           *)
OtherCall(e) ==
    /\ e.kind \in Others3 /\ (e.kind = "tags" => e.arg.new \cap e.arg.gone = {})
    /\ calls' = Append(calls, e) /\ current_test' = current_test
    /\ options' = options /\ filtered' = filtered
    /\ buffered_calls' = IF e.kind = "tags" /\ current_test # None THEN Append(buffered_calls, e)
                         ELSE buffered_calls

LEMMA OtherCalls ==
  ASSUME IInv, NEW e, OtherCall(e)
  PROVE  CallsOK' /\ TestOpen' /\ (current_test # None => Base' = Base) /\ Run' = Turn(Run, e)
         /\ (e.kind # "tags" => Run' = Run)
<1>1. /\ CallsOK /\ calls' = Append(calls, e) /\ current_test' = current_test
      /\ e.kind \in {"tags", "time", "progress"}
  BY DEF IInv, OtherCall, Others3
<1>2. CallsOK' BY <1>1, CallsGrow DEF TestCalls
<1>3. TestOpen' BY <1>1, OpenStays
<1>4. current_test # None => Base' = Base BY <1>1, BaseStays
<1>5. Run' = Turn(Run, e) BY <1>1, RunGrows
<1>6. e.kind # "tags" => Turn(Run, e) = Run BY <1>1, TurnIs DEF IInv, TagsInv
<1> QED BY <1>2, <1>3, <1>4, <1>5, <1>6

LEMMA HeldStays == ASSUME IInv, NEW e, OtherCall(e) PROVE HeldInv'
<1>1. CallsOK /\ HeldInv /\ calls' = Append(calls, e) /\ options' = options BY DEF IInv, OtherCall
<1>2. PICK k, l : k = buffered_calls /\ l = buffered_calls' OBVIOUS
<1>3. PICK c : c = current_test OBVIOUS
<1>4. IsSeq(k) /\ (\A b \in 1..Len(k) : IsHeld(k[b])) BY <1>1, <1>2 DEF HeldInv
<1>5. Len(k) \in Nat BY <1>4, SeqShape
<1>6. CASE c = None
  <2>1. k = <<>> /\ l = k /\ current_test' = None
    BY <1>1, <1>2, <1>3, <1>6 DEF HeldInv, OtherCall
  <2> QED BY <1>2, <1>4, <2>1 DEF HeldInv
<1>7. CASE c # None
  <2>1. PICK on, new : on = Base /\ new = Run' OBVIOUS
  <2>2. /\ Base' = on /\ new = Turn(Run, e) /\ CallsOK' /\ (e.kind # "tags" => new = Run)
        /\ current_test' = c
    BY <1>3, <1>7, <2>1, OtherCalls DEF OtherCall
  <2>3. TurnAll(on, k) = Run BY <1>1, <1>2, <1>3, <1>7, <2>1 DEF HeldInv
  <2>4. /\ IsSeq(l) /\ Len(l) \in Nat /\ Len(k) <= Len(l) /\ TurnAll(on, l) = new
        /\ OfTests(l) = OfTests(k) /\ \A b \in 1..Len(l) : IsHeld(l[b])
        /\ \A b \in 1..Len(l) : l[b].kind = "outcome" =>
             b \in 1..Len(k) /\ l[b] = k[b] /\ Before(l, b) = Before(k, b)
    <3>1. CASE e.kind # "tags"
      <4>1. l = k BY <1>2, <3>1 DEF OtherCall
      <4> QED BY <1>4, <1>5, <2>2, <2>3, <3>1, <4>1
    <3>2. CASE e.kind = "tags"
      <4>1. l = Append(k, e) BY <1>2, <1>3, <1>7, <3>2 DEF OtherCall
      <4>2. OneMore(k, e, l) BY <1>4, <4>1, AppendShape
      <4>3. TurnAll(on, l) = new BY <1>4, <2>2, <2>3, <4>1, TurnsOne
      <4>4. OfTests(l) = OfTests(k)
        <5>1. OfTests(l) = Keep(OfTests(k), e) BY <1>4, <4>1, KeepsOne
        <5> QED BY <3>2, <5>1 DEF Keep
      <4>5. IsHeld(e) BY <3>2 DEF IsHeld, OtherCall
      <4>6. ASSUME NEW b \in 1..Len(l)
            PROVE  /\ IsHeld(l[b])
                   /\ l[b].kind = "outcome" =>
                        b \in 1..Len(k) /\ l[b] = k[b] /\ Before(l, b) = Before(k, b)
        <5>1. (b \in 1..Len(k) /\ b \in 0..Len(k)) \/ b = Len(k) + 1 BY <1>5, <4>2 DEF OneMore
        <5>2. CASE b \in 1..Len(k) /\ b \in 0..Len(k)
          <6>1. l[b] = k[b] BY <4>2, <5>2 DEF OneMore
          <6>2. Before(l, b) = Before(k, b) BY <1>4, <4>1, <5>2, BeforeAppend
          <6> QED BY <1>4, <5>2, <6>1, <6>2
        <5>3. CASE b = Len(k) + 1
          <6>1. l[b] = e BY <4>2, <5>3 DEF OneMore
          <6> QED BY <3>2, <4>5, <6>1
        <5> QED BY <5>1, <5>2, <5>3
      <4> QED BY <1>5, <4>2, <4>3, <4>4, <4>6 DEF OneMore
    <3> QED BY <3>1, <3>2
  <2>5. Has(calls', "outcome", c) <=> Has(calls, "outcome", c)
    <3>1. OneMore(calls, e, calls') /\ Len(calls) \in Nat BY <1>1, RunGrows
    <3>2. e.kind # "outcome" BY DEF OtherCall, Others3
    <3> QED BY <3>1, <3>2 DEF OneMore, Has
  <2>6. PICK f : f = filtered OBVIOUS
  <2>7. filtered' = f BY <2>6 DEF OtherCall
  <2>8. ASSUME ~Has(calls, "outcome", c) PROVE Waiting(c)'
    <3>1. Waiting(c) BY <1>1, <1>3, <1>7, <2>8 DEF HeldInv
    <3>2. Began(c)' = Began(c)
      <4>1. c \in 1..Len(calls) BY <1>3, <1>7, OutcomeSince
      <4>2. calls'[c] = calls[c] BY <1>1, <4>1, RunGrows DEF OneMore
      <4> QED BY <4>2 DEF Began
    <3>3. PICK w : w = Began(c) OBVIOUS
    <3>4. f = FALSE /\ OfTests(k) = <<w>> /\ \A b \in 1..Len(k) : k[b].kind # "outcome"
      BY <1>2, <2>6, <3>1, <3>3 DEF Waiting
    <3>5. \A b \in 1..Len(l) : l[b].kind # "outcome" BY <2>4, <3>4
    <3>6. Began(c)' = w BY <3>2, <3>3
    <3> QED BY <1>2, <2>4, <2>7, <3>4, <3>5, <3>6 DEF Waiting
  <2>9. ASSUME Has(calls, "outcome", c) PROVE Decided(c)'
    <3>1. Decided(c) BY <1>1, <1>3, <1>7, <2>9 DEF HeldInv
    <3>2. /\ OutcomeOf(c)' = OutcomeOf(c) /\ TagsAtOutcome(c)' = TagsAtOutcome(c)
          /\ c \in 1..Len(calls)
      BY <1>1, <2>2, <2>9, JudgedStays
    <3>3. Began(c)' = Began(c)
      <4>1. calls'[c] = calls[c] BY <1>1, <3>2, RunGrows DEF OneMore
      <4> QED BY <4>1 DEF Began
    <3>4. PICK w, x, y : w = Began(c) /\ x = OutcomeOf(c) /\ y = TagsAtOutcome(c) OBVIOUS
    <3>5. Began(c)' = w /\ OutcomeOf(c)' = x /\ TagsAtOutcome(c)' = y BY <3>2, <3>3, <3>4
    <3>6. Wanted(x, y)' <=> Wanted(x, y) BY <1>1 DEF Wanted
    <3>7. f \in BOOLEAN /\ (f <=> ~Wanted(x, y)) BY <2>6, <3>1, <3>4 DEF Decided
    <3>8. ASSUME ~f
          PROVE  /\ OfTests(l) = <<w, Call("outcome", c, x)>>
                 /\ \A b \in 1..Len(l) : l[b].kind = "outcome" =>
                      l[b].test = c /\ TagsOf(TurnAll(on, Before(l, b))) = y
      <4>1. OfTests(k) = <<w, Call("outcome", c, x)>> BY <1>2, <2>6, <3>1, <3>4, <3>8 DEF Decided
      <4>2. \A b \in 1..Len(k) : k[b].kind = "outcome" =>
              k[b].test = c /\ TagsOf(TurnAll(on, Before(k, b))) = y
        BY <1>2, <2>1, <2>6, <3>1, <3>4, <3>8 DEF Decided
      <4> QED BY <2>4, <4>1, <4>2
    <3>9. filtered' <=> ~Wanted(OutcomeOf(c), TagsAtOutcome(c))'
      <4>1. Wanted(OutcomeOf(c), TagsAtOutcome(c))' <=> Wanted(x, y)
        BY <1>1, <3>5 DEF Wanted
      <4> QED BY <2>7, <3>7, <4>1
    <3> QED BY <1>2, <2>2, <2>7, <3>5, <3>7, <3>8, <3>9 DEF Decided
  <2>10. TurnAll(Base', l) = Run' BY <2>1, <2>2, <2>4
  <2> QED BY <1>2, <1>7, <2>2, <2>4, <2>5, <2>8, <2>9, <2>10 DEF HeldInv
<1> QED BY <1>6, <1>7

(* What the filter knows of the tags, at a call about tags and at others.   *)
LEMMA TagsHold ==
  ASSUME IInv, NEW e, calls' = Append(calls, e), e.kind \notin {"startTest", "stopTest", "tags"},
         current_test' = current_test, test_tags' = test_tags, global_tags' = global_tags
  PROVE  TagsInv' /\ Run' = Run
<1>1. CallsOK /\ TagsInv BY DEF IInv
<1>2. Run' = Turn(Run, e) BY <1>1, RunGrows
<1>3. Turn(Run, e) = Run BY <1>1, TurnIs DEF TagsInv
<1>4. Run' = Run BY <1>2, <1>3
<1> QED BY <1>1, <1>4 DEF TagsInv

LEMMA TellTagsKeeps == ASSUME IInv, NEW u \in Updates, TellTags(u) PROVE IInv'
<1>1. PICK e : e = Call("tags", None, u) OBVIOUS
<1>2. e.kind = "tags" /\ e.arg = u /\ e.test = None BY <1>1 DEF Call
<1>3. u.new \cap u.gone = {} BY BoundsAssumption
<1>4. /\ CallsOK /\ TagsInv /\ DownInv /\ HeldInv /\ calls' = Append(calls, e)
      /\ current_test' = current_test
  BY <1>1 DEF IInv, TellTags, Note
<1>5. OtherCall(e)
  <2>1. CASE current_test = None
    BY <1>1, <1>2, <1>3, <2>1 DEF OtherCall, Others3, TellTags, Note
  <2>2. CASE current_test # None
    BY <1>1, <1>2, <1>3, <2>2 DEF OtherCall, Others3, TellTags, Note
  <2> QED BY <2>1, <2>2
<1>6. CallsOK' /\ TestOpen' /\ HeldInv' /\ (current_test # None => Base' = Base)
  BY <1>5, OtherCalls, HeldStays
<1>7. PICK on, new : on = Run /\ new = Run' OBVIOUS
<1>8. IsOn(on) /\ new = Turn(on, e) BY <1>4, <1>5, <1>7, OtherCalls DEF TagsInv
<1>9. IsOn(new) /\ new = IF on.inside
                           THEN [all |-> on.all, here |-> Applied(on.here, u), inside |-> TRUE]
                         ELSE [all |-> Applied(on.all, u), here |-> on.here, inside |-> FALSE]
  BY <1>2, <1>8, TurnIs
<1>10. on.all = global_tags.new /\ on.inside = (current_test # None) BY <1>4, <1>7 DEF TagsInv
<1>11. CASE current_test = None
  <2>1. ~on.inside BY <1>10, <1>11
  <2>2. new.all = Applied(on.all, u) /\ new.inside = FALSE BY <1>9, <2>1
  <2>3. test_tags = <<>> BY <1>4, <1>11 DEF TagsInv
  <2>4. test_tags' = <<>> /\ global_tags' = Add(global_tags, u) /\ down' = Down(down, e)
    BY <1>1, <1>11, <2>3 DEF TellTags
  <2>5. global_tags'.new = Applied(global_tags.new, u)
    BY <1>3, <2>4 DEF Add, Update, Applied
  <2>6. TagsInv' BY <1>4, <1>7, <1>9, <1>10, <1>11, <2>2, <2>4, <2>5 DEF TagsInv
  <2>7. Base = on /\ Base' = new BY <1>4, <1>7, <1>11 DEF Base
  <2>8. LastTime(calls') = LastTime(calls) BY <1>2, <1>4, RunGrows DEF Later
  <2>9. Good(down, on, LastTime(calls)) BY <1>4, <2>7 DEF DownInv
  <2>10. Good(Down(down, e), Turn(on, e), LastTime(calls)) /\ Down(down, e).events = down.events
    BY <1>2, <1>3, <2>9, DownTags
  <2>11. DownInv' BY <1>7, <1>8, <2>2, <2>4, <2>7, <2>8, <2>10 DEF DownInv
  <2>12. Quietly(down.events, down'.events)
    BY <1>4, <2>4, <2>10, MoreSame DEF DownInv, Good, DownOK
  <2>13. ReportsInv' BY <1>4, <1>5, <1>6, <2>12, ReportsStay DEF OtherCall
  <2>14. PartsInv' BY <1>2, <1>4, <1>5, <1>6, <2>12, PartsStay DEF OtherCall, Quietly
  <2> QED BY <1>6, <2>6, <2>11, <2>13, <2>14 DEF IInv
<1>12. CASE current_test # None
  <2>1. on.inside BY <1>10, <1>12
  <2>2. new.all = on.all /\ new.here = Applied(on.here, u) /\ new.inside = TRUE BY <1>9, <2>1
  <2>3. PICK v : test_tags = <<v>> /\ on.here = (global_tags.new \ v.gone) \cup v.new
    BY <1>4, <1>7, <1>12 DEF TagsInv
  <2>4. test_tags # <<>> /\ test_tags[1] = v BY <2>3
  <2>5. test_tags' = <<Add(v, u)>> /\ global_tags' = global_tags /\ down' = down
    BY <1>12, <2>4 DEF TellTags
  <2>6. new.here = Applied(global_tags.new, Add(v, u))
    <3>1. on.here = Applied(global_tags.new, v) BY <2>3 DEF Applied
    <3> QED BY <1>3, <2>2, <3>1, AppliedAdd
  <2>7. TagsInv' BY <1>4, <1>7, <1>9, <1>10, <1>12, <2>2, <2>5, <2>6 DEF TagsInv, Applied
  <2>8. LastTime(calls') = LastTime(calls) BY <1>2, <1>4, RunGrows DEF Later
  <2>9. DownInv' BY <1>4, <1>6, <1>7, <1>12, <2>2, <2>5, <2>8 DEF DownInv
  <2>10. Quietly(down.events, down'.events) BY <1>4, <2>5, MoreSame DEF DownInv, Good, DownOK
  <2>11. ReportsInv' BY <1>4, <1>5, <1>6, <2>10, ReportsStay DEF OtherCall
  <2>12. PartsInv' BY <1>2, <1>4, <1>5, <1>6, <2>10, PartsStay DEF OtherCall, Quietly
  <2> QED BY <1>6, <2>7, <2>9, <2>11, <2>12 DEF IInv
<1> QED BY <1>11, <1>12

LEMMA PassOnKeeps ==
  ASSUME IInv, NEW e, PassOn(e), e.kind \in {"time", "progress"},
         e.kind = "time" => e.arg # None
  PROVE  IInv'
<1>1. /\ CallsOK /\ TagsInv /\ DownInv /\ calls' = Append(calls, e) /\ down' = Down(down, e)
      /\ current_test' = current_test /\ test_tags' = test_tags /\ global_tags' = global_tags
      /\ options' = options
  BY DEF IInv, PassOn, Note
<1>2. OtherCall(e) BY DEF OtherCall, Others3, PassOn, Note
<1>3. CallsOK' /\ TestOpen' /\ HeldInv' BY <1>2, OtherCalls, HeldStays
<1>4. TagsInv' /\ Run' = Run BY <1>1, TagsHold
<1>5. PICK on, time : on = Base /\ time = LastTime(calls) OBVIOUS
<1>6. Base' = on
  <2>1. CASE current_test # None BY <1>2, <1>5, <2>1, OtherCalls
  <2>2. CASE current_test = None BY <1>1, <1>4, <1>5, <2>2 DEF Base
  <2> QED BY <2>1, <2>2
<1>7. Good(down, on, time) /\ ~on.inside /\ on.all = Run.all BY <1>1, <1>5 DEF DownInv
<1>8. LastTime(calls') = IF e.kind = "time" THEN e.arg ELSE time
  BY <1>1, <1>5, RunGrows DEF Later
<1>9. Good(down', on, LastTime(calls')) /\ Quietly(down.events, down'.events)
  <2>1. CASE e.kind = "time" BY <1>1, <1>7, <1>8, <2>1, DownTime
  <2>2. CASE e.kind = "progress"
    <3>1. ToldNow(down, on, time, e, Down(down, e)) BY <1>7, <2>2, DownOther
    <3>2. IsOn(on) BY <1>7 DEF Good, Agrees
    <3>3. Turn(on, e) = on BY <2>2, <3>2, TurnIs
    <3>4. PICK s : Quietly(down.events, s) /\ down'.events = Append(s, e)
      BY <1>1, <3>1 DEF ToldNow
    <3>5. Quietly(s, Append(s, e)) BY <2>2, <3>4, QuietOne DEF Others3, Quietly, More
    <3>6. Quietly(down.events, down'.events) BY <3>4, <3>5, QuietQuiet
    <3> QED BY <1>1, <1>8, <2>2, <3>1, <3>3, <3>6 DEF ToldNow
  <2> QED BY <2>1, <2>2
<1>10. DownInv' BY <1>4, <1>6, <1>7, <1>9 DEF DownInv
<1>11. ReportsInv' BY <1>1, <1>3, <1>9, ReportsStay
<1>12. PartsInv' BY <1>1, <1>3, <1>9, PartsStay DEF Quietly
<1> QED BY <1>3, <1>4, <1>10, <1>11, <1>12 DEF IInv

LEMMA StartKeeps == ASSUME IInv, NEW test \in Tests, StartTest(test) PROVE IInv'
<1>1. CallsOK /\ TagsInv /\ DownInv /\ HeldInv /\ TestOpen BY DEF IInv
<1>2. PICK n \in Nat : n = Len(calls) BY <1>1, SeqShape DEF CallsOK
<1>3. PICK e : e = Call("startTest", n + 1, test) OBVIOUS
<1>4. e.kind = "startTest" /\ e.test = n + 1 /\ e.arg = test BY <1>3 DEF Call
<1>5. /\ calls' = Append(calls, e) /\ current_test = None /\ current_test' = n + 1
      /\ filtered' = FALSE /\ buffered_calls' = Append(buffered_calls, e)
      /\ test_tags' = <<NoUpdate>> /\ options' = options /\ global_tags' = global_tags
      /\ down' = down
  BY <1>2, <1>3 DEF StartTest, Note, Number
<1>6. CallsOK' BY <1>1, <1>4, <1>5, CallsGrow DEF TestCalls
<1>7. PICK t : t = calls' OBVIOUS
<1>8. IsSeq(t) /\ Len(t) = n + 1 /\ t[n + 1] = e /\ \A i \in 1..n : t[i] = calls[i]
  BY <1>1, <1>2, <1>5, <1>7, RunGrows DEF OneMore
<1>9. n + 1 # None /\ n + 1 \in 1 .. n + 1 BY <1>2 DEF None
<1>10. TestOpen'
  <2>1. ASSUME NEW i \in 1..Len(t), t[i].kind = "stopTest" PROVE t[i].test # n + 1
    <3>1. t[i].test \in 1 .. i - 1 BY <1>6, <1>7, <2>1 DEF CallsOK, TestCalls
    <3> QED BY <1>2, <1>8, <3>1
  <2>2. n + 1 \in 0..Len(t) /\ n + 1 + 1 .. Len(t) = {} BY <1>2, <1>8
  <2> QED BY <1>4, <1>5, <1>7, <1>8, <2>1, <2>2 DEF TestOpen
<1>11. PICK on, new : on = Run /\ new = Run' OBVIOUS
<1>12. IsOn(on) /\ on.all = global_tags.new BY <1>1, <1>11 DEF TagsInv
<1>13. new = Turn(on, e) BY <1>1, <1>5, <1>11, RunGrows
<1>14. IsOn(new) /\ new = [all |-> on.all, here |-> on.all, inside |-> TRUE]
  BY <1>4, <1>12, <1>13, TurnIs
<1>15. new.all = on.all /\ new.here = on.all /\ new.inside = TRUE BY <1>14
<1>16. TagsInv'
  <2>1. new.here = (global_tags'.new \ NoUpdate.gone) \cup NoUpdate.new
    BY <1>5, <1>12, <1>15 DEF NoUpdate, Update
  <2> QED BY <1>5, <1>9, <1>11, <1>12, <1>14, <1>15, <2>1 DEF TagsInv
<1>17. Base = on /\ Base' = on
  <2>1. Before(t, n) = calls
    <3>1. n \in 0..n BY <1>2
    <3> QED BY <1>1, <1>2, <1>5, <1>7, <3>1, BeforeAll, RunGrows DEF CallsOK
  <2>2. n + 1 - 1 = n BY <1>2
  <2> QED BY <1>5, <1>7, <1>9, <1>11, <2>1, <2>2 DEF Base, Run
<1>18. LastTime(calls') = LastTime(calls) BY <1>1, <1>4, <1>5, RunGrows DEF Later
<1>19. DownInv' BY <1>1, <1>5, <1>11, <1>15, <1>17, <1>18 DEF DownInv
<1>20. HeldInv'
  <2>1. buffered_calls = <<>> BY <1>1, <1>5 DEF HeldInv
  <2>2. PICK k : k = Append(<<>>, e) OBVIOUS
  <2>3. IsSeq(<<>>) /\ Len(<<>>) = 0 BY DEF IsSeq
  <2>4. OneMore(<<>>, e, k) BY <2>2, <2>3, AppendShape
  <2>5. IsSeq(k) /\ Len(k) = 1 /\ k[1] = e BY <2>3, <2>4 DEF OneMore
  <2>6. \A b \in 1..Len(k) : k[b] = e BY <2>5
  <2>7. IsHeld(e) BY <1>4 DEF IsHeld
  <2>8. TurnAll(on, k) = new
    <3>1. TurnAll(on, k) = Turn(TurnAll(on, <<>>), e) BY <2>2, <2>3, TurnsOne
    <3>2. TurnAll(on, <<>>) = on BY TurnsNone
    <3> QED BY <1>13, <3>1, <3>2
  <2>9. OfTests(k) = <<e>>
    <3>1. OfTests(k) = Keep(<<>>, e) BY <2>2, <2>3, KeepsOne, KeepsNone
    <3> QED BY <1>4, <3>1 DEF Keep
  <2>10. ~Has(t, "outcome", n + 1)
    <3>1. ASSUME NEW i \in 1..Len(t), t[i].kind = "outcome" PROVE t[i].test # n + 1
      <4>1. t[i].test \in 1 .. i - 1 BY <1>6, <1>7, <3>1 DEF CallsOK, TestCalls
      <4> QED BY <1>2, <1>8, <4>1
    <3> QED BY <3>1 DEF Has
  <2>11. PICK m : m = n + 1 OBVIOUS
  <2>12. Began(m)' = e BY <1>3, <1>4, <1>7, <1>8, <2>11 DEF Began
  <2>13. Waiting(m)'
    BY <1>4, <1>5, <2>1, <2>2, <2>6, <2>9, <2>12 DEF Waiting
  <2> QED BY <1>5, <1>7, <1>9, <1>11, <1>17, <2>1, <2>2, <2>5, <2>6, <2>7, <2>8, <2>10, <2>11, <2>13
      DEF HeldInv
<1>21. Quietly(down.events, down'.events) BY <1>1, <1>5, MoreSame DEF DownInv, Good, DownOK
<1>22. ReportsInv' BY <1>5, <1>6, <1>21, ReportsStay
<1>23. PartsInv' BY <1>4, <1>5, <1>6, <1>21, PartsStay DEF Quietly
<1> QED BY <1>6, <1>10, <1>16, <1>19, <1>20, <1>22, <1>23 DEF IInv

LEMMA OutcomeKeeps == ASSUME IInv, NEW outcome \in Outcomes, AddOutcome(outcome) PROVE IInv'
<1>1. /\ CallsOK /\ TagsInv /\ DownInv /\ HeldInv /\ current_test # None
      /\ \A i \in current_test..Len(calls) : calls[i].kind # "outcome"
  BY DEF IInv, AddOutcome
<1>2. PICK n \in Nat : n = Len(calls) BY <1>1, SeqShape DEF CallsOK
<1>3. PICK c \in 1..n : c = current_test BY <1>1, <1>2, OutcomeSince
<1>4. ~Has(calls, "outcome", c) BY <1>1, <1>3, OutcomeSince
<1>5. PICK e : e = Call("outcome", c, outcome) OBVIOUS
<1>6. e.kind = "outcome" /\ e.test = c /\ e.arg = outcome BY <1>5 DEF Call
<1>7. PICK fixed : fixed = Fixed(calls[c].arg, outcome) OBVIOUS
<1>8. PICK given : given = Call("outcome", c, fixed) OBVIOUS
<1>9. given.kind = "outcome" /\ given.test = c BY <1>8 DEF Call
<1>10. PICK k, l : k = buffered_calls /\ l = buffered_calls' OBVIOUS
<1>11. /\ calls' = Append(calls, e) /\ current_test' = current_test /\ test_tags' = test_tags
       /\ options' = options /\ global_tags' = global_tags /\ down' = down
       /\ IF Wanted(fixed, ActiveTags) THEN l = Append(k, given) /\ filtered' = filtered
          ELSE l = k /\ filtered' = TRUE
  BY <1>3, <1>5, <1>7, <1>8, <1>10 DEF AddOutcome, Note
<1>12. CallsOK' BY <1>1, <1>2, <1>4, <1>6, <1>11, CallsGrow DEF TestCalls
<1>13. TestOpen' BY <1>3, <1>6, <1>11, OpenStays
<1>14. TagsInv' /\ Run' = Run BY <1>6, <1>11, TagsHold
<1>15. PICK on, run : on = Base /\ run = Run OBVIOUS
<1>16. Base' = on BY <1>1, <1>11, <1>15, BaseStays
<1>17. LastTime(calls') = LastTime(calls) BY <1>1, <1>6, <1>11, RunGrows DEF Later
<1>18. DownInv' BY <1>1, <1>11, <1>14, <1>15, <1>16, <1>17 DEF DownInv
<1>19. PICK t : t = calls' OBVIOUS
<1>20. IsSeq(t) /\ Len(t) = n + 1 /\ t[n + 1] = e /\ \A i \in 1..n : t[i] = calls[i]
  BY <1>1, <1>2, <1>11, <1>19, RunGrows DEF OneMore
<1>21. n + 1 \in 1..Len(t) BY <1>2, <1>20
<1>22. PlaceOf(t, "outcome", c) = n + 1
  BY <1>6, <1>12, <1>19, <1>20, <1>21, PlaceIs DEF CallsOK, TestCalls
<1>23. OutcomeOf(c)' = fixed
  BY <1>6, <1>7, <1>11, <1>19, <1>20, <1>22 DEF OutcomeOf, Fixed
<1>24. PICK tags : tags = ActiveTags OBVIOUS
<1>25. TagsOf(run) = tags
  <2>1. PICK u : test_tags = <<u>> /\ run.here = (global_tags.new \ u.gone) \cup u.new
    BY <1>1, <1>15 DEF TagsInv
  <2>2. test_tags # <<>> /\ test_tags[1] = u BY <2>1
  <2>3. run.inside BY <1>1, <1>15 DEF TagsInv
  <2> QED BY <1>24, <2>1, <2>2, <2>3 DEF TagsOf, ActiveTags
<1>26. TagsAtOutcome(c)' = tags
  <2>1. Before(t, n + 1) = t BY <1>20, BeforeAll
  <2>2. TurnAll(NoTags, t) = run BY <1>14, <1>15, <1>19 DEF Run
  <2> QED BY <1>19, <1>22, <1>25, <2>1, <2>2 DEF TagsAtOutcome, TagsOn
<1>27. Has(t, "outcome", c) BY <1>6, <1>20, <1>21 DEF Has
<1>28. Began(c)' = Began(c) BY <1>19, <1>20 DEF Began
<1>29. PICK w : w = Began(c) OBVIOUS
<1>30. /\ filtered = FALSE /\ OfTests(k) = <<w>> /\ TurnAll(on, k) = run /\ IsSeq(k)
       /\ \A b \in 1..Len(k) : k[b].kind # "outcome" /\ IsHeld(k[b])
  BY <1>1, <1>3, <1>4, <1>10, <1>15, <1>29 DEF HeldInv, Waiting
<1>31. Wanted(fixed, tags)' <=> Wanted(fixed, tags) BY <1>11 DEF Wanted
<1>32. HeldInv'
  <2>1. CASE Wanted(fixed, tags)
    <3>1. l = Append(k, given) /\ filtered' = FALSE BY <1>11, <1>24, <1>30, <2>1
    <3>2. OneMore(k, given, l) /\ Len(k) \in Nat BY <1>30, <3>1, AppendShape, SeqShape
    <3>3. OfTests(l) = <<w, given>>
      <4>1. OfTests(l) = Keep(<<w>>, given) BY <1>30, <3>1, KeepsOne
      <4>2. OfTests(l) = Append(<<w>>, given) BY <1>9, <4>1 DEF Keep
      <4> QED BY <4>2, AppendSecond
    <3>4. TurnAll(on, l) = run
      <4>1. TurnAll(on, l) = Turn(run, given) BY <1>30, <3>1, TurnsOne
      <4>2. IsOn(run) BY <1>1, <1>15 DEF TagsInv
      <4> QED BY <1>9, <4>1, <4>2, TurnIs
    <3>5. ASSUME NEW b \in 1..Len(l)
          PROVE  /\ IsHeld(l[b])
                 /\ l[b].kind = "outcome" =>
                      l[b].test = c /\ TagsOf(TurnAll(on, Before(l, b))) = tags
      <4>1. b \in 1..Len(k) \/ b = Len(k) + 1 BY <3>2 DEF OneMore
      <4>2. CASE b \in 1..Len(k)
        <5>1. l[b] = k[b] BY <3>2, <4>2 DEF OneMore
        <5> QED BY <1>30, <4>2, <5>1
      <4>3. CASE b = Len(k) + 1
        <5>1. l[b] = given /\ b = Len(l) /\ IsSeq(l) BY <3>2, <4>3 DEF OneMore
        <5>2. Before(l, b) = l BY <5>1, BeforeAll
        <5> QED BY <1>9, <1>25, <3>4, <5>1, <5>2 DEF IsHeld
      <4> QED BY <4>1, <4>2, <4>3
    <3>6. Decided(c)'
      BY <1>8, <1>10, <1>16, <1>23, <1>26, <1>28, <1>29, <1>31, <2>1, <3>1, <3>3, <3>5
      DEF Decided, Wanted
    <3> QED BY <1>1, <1>3, <1>10, <1>11, <1>14, <1>15, <1>16, <1>19, <1>27, <3>2, <3>4, <3>5, <3>6
        DEF HeldInv, OneMore
  <2>2. CASE ~Wanted(fixed, tags)
    <3>1. l = k /\ filtered' = TRUE BY <1>11, <1>24, <2>2
    <3>2. Decided(c)' BY <1>23, <1>26, <1>31, <2>2, <3>1 DEF Decided, Wanted
    <3> QED BY <1>1, <1>3, <1>10, <1>11, <1>14, <1>15, <1>16, <1>19, <1>27, <1>30, <3>1, <3>2
        DEF HeldInv
  <2> QED BY <2>1, <2>2
<1>33. Quietly(down.events, down'.events) BY <1>1, <1>11, MoreSame DEF DownInv, Good, DownOK
<1>34. ReportsInv' BY <1>11, <1>12, <1>33, ReportsStay
<1>35. PartsInv' BY <1>6, <1>11, <1>12, <1>33, PartsStay DEF Quietly
<1> QED BY <1>12, <1>13, <1>14, <1>18, <1>32, <1>34, <1>35 DEF IInv

(* The end of a test: what was held of it is told, or dropped.              *)
LEMMA StopRun ==
  ASSUME IInv, StopTest
  PROVE  \E c, e :
           /\ c \in 1..Len(calls) /\ c = current_test /\ c # None /\ e = Call("stopTest", c, None)
           /\ calls' = Append(calls, e) /\ CallsOK' /\ TestOpen' /\ TagsInv' /\ HeldInv'
           /\ options' = options /\ current_test' = None
           /\ Decided(c) /\ Has(calls, "outcome", c)
           /\ Run' = Turn(Run, e) /\ Run'.all = Base.all /\ ~Run'.inside /\ IsOn(Run')
           /\ Base' = Run' /\ LastTime(calls') = LastTime(calls)
<1>1. CallsOK /\ TestOpen /\ TagsInv /\ HeldInv /\ DownInv /\ current_test # None
  BY DEF IInv, StopTest
<1>2. PICK n \in Nat : n = Len(calls) BY <1>1, SeqShape DEF CallsOK
<1>3. PICK c \in 1..Len(calls) : c = current_test BY <1>1, OutcomeSince
<1>4. Has(calls, "outcome", c) BY <1>1, <1>3, OutcomeSince DEF StopTest
<1>5. Decided(c) BY <1>1, <1>3, <1>4 DEF HeldInv
<1>6. PICK e : e = Call("stopTest", c, None) OBVIOUS
<1>7. e.kind = "stopTest" /\ e.test = c BY <1>6 DEF Call
<1>8. /\ calls' = Append(calls, e) /\ options' = options /\ current_test' = None
      /\ test_tags' = <<>> /\ global_tags' = global_tags /\ buffered_calls' = <<>>
  BY <1>3, <1>6 DEF StopTest, Note
<1>9. ~Has(calls, "stopTest", c) BY <1>1, <1>3 DEF TestOpen, Has
<1>10. CallsOK' BY <1>1, <1>3, <1>4, <1>7, <1>8, <1>9, CallsGrow
<1>11. PICK t : t = calls' OBVIOUS
<1>12. Len(t) = n + 1 BY <1>1, <1>2, <1>8, <1>11, RunGrows DEF OneMore
<1>13. TestOpen'
  <2>1. ASSUME NEW i \in 1..Len(t), t[i].kind = "stopTest" PROVE t[i].test # None
    <3>1. t[i].test \in 1 .. i - 1 BY <1>10, <1>11, <2>1 DEF CallsOK, TestCalls
    <3> QED BY <3>1 DEF None
  <2>2. None \in 0..Len(t) BY <1>2, <1>12 DEF None
  <2> QED BY <1>8, <1>11, <2>1, <2>2 DEF TestOpen
<1>14. PICK on, new : on = Run /\ new = Run' OBVIOUS
<1>15. IsOn(on) /\ on.all = global_tags.new BY <1>1, <1>14 DEF TagsInv
<1>16. new = Turn(on, e) BY <1>1, <1>8, <1>14, RunGrows
<1>17. IsOn(new) /\ new = [all |-> on.all, here |-> on.here, inside |-> FALSE]
  BY <1>7, <1>15, <1>16, TurnIs
<1>18. new.all = on.all /\ new.inside = FALSE BY <1>17
<1>19. TagsInv' BY <1>8, <1>14, <1>15, <1>17, <1>18 DEF TagsInv
<1>20. Base.all = on.all BY <1>1, <1>14 DEF DownInv
<1>21. Base' = new BY <1>8, <1>14 DEF Base
<1>22. LastTime(calls') = LastTime(calls) BY <1>1, <1>7, <1>8, RunGrows DEF Later
<1>23. HeldInv'
  <2>1. IsSeq(<<>>) /\ Len(<<>>) = 0 BY DEF IsSeq
  <2> QED BY <1>8, <2>1 DEF HeldInv
<1>24. c # None BY <1>1, <1>3
<1> QED BY <1>3, <1>4, <1>5, <1>6, <1>8, <1>10, <1>13, <1>14, <1>16, <1>17, <1>18, <1>19, <1>20, <1>21,
           <1>22, <1>23, <1>24

LEMMA StopDropped == ASSUME IInv, StopTest, filtered PROVE IInv'
<1>1. PICK c, e :
        /\ c \in 1..Len(calls) /\ c = current_test /\ c # None /\ e = Call("stopTest", c, None)
        /\ calls' = Append(calls, e) /\ CallsOK' /\ TestOpen' /\ TagsInv' /\ HeldInv'
        /\ options' = options /\ current_test' = None
        /\ Decided(c) /\ Has(calls, "outcome", c)
        /\ Run' = Turn(Run, e) /\ Run'.all = Base.all /\ ~Run'.inside /\ IsOn(Run')
        /\ Base' = Run' /\ LastTime(calls') = LastTime(calls)
  BY StopRun
<1>2. down' = down /\ CallsOK /\ DownInv BY DEF IInv, StopTest
<1>3. e.kind = "stopTest" /\ e.test = c BY <1>1 DEF Call
<1>4. Quietly(down.events, down'.events) BY <1>2, MoreSame DEF DownInv, Good, DownOK
<1>5. Passed(c)' = <<>>
  <2>1. ~Wanted(OutcomeOf(c), TagsAtOutcome(c)) BY <1>1 DEF Decided
  <2>2. Passed(c) = <<>> BY <2>1 DEF Passed
  <2> QED BY <1>1, <1>2, <2>2, JudgedStays
<1>6. PICK on, new, time : on = Base /\ new = Run' /\ time = LastTime(calls) OBVIOUS
<1>7. Good(down, on, time) /\ ~on.inside BY <1>2, <1>6 DEF DownInv
<1>8. Good(down, new, time)
  <2>1. new.all = on.all /\ ~new.inside /\ IsOn(new) BY <1>1, <1>6
  <2>2. PICK told : told = TurnAll(NoTags, down.events) OBVIOUS
  <2>3. Agrees(told, down.tags, on) BY <1>7, <2>2 DEF Good
  <2>4. ~told.inside /\ IsOn(told) /\ Applied(told.all, down.tags) = on.all
    BY <1>7, <2>3 DEF Agrees
  <2>5. told.inside = new.inside BY <2>1, <2>4 DEF IsOn
  <2>6. Agrees(told, down.tags, new) BY <2>1, <2>4, <2>5 DEF Agrees
  <2> QED BY <1>7, <2>2, <2>6 DEF Good
<1>9. DownInv' BY <1>1, <1>2, <1>6, <1>8 DEF DownInv
<1>10. ReportsInv' BY <1>1, <1>4, ReportsStay
<1>11. PartsInv' BY <1>1, <1>3, <1>4, <1>5, PartsStay DEF Quietly
<1> QED BY <1>1, <1>9, <1>10, <1>11 DEF IInv

LEMMA StopTold == ASSUME IInv, StopTest, ~filtered PROVE IInv'
<1>1. PICK c, e :
        /\ c \in 1..Len(calls) /\ c = current_test /\ c # None /\ e = Call("stopTest", c, None)
        /\ calls' = Append(calls, e) /\ CallsOK' /\ TestOpen' /\ TagsInv' /\ HeldInv'
        /\ options' = options /\ current_test' = None
        /\ Decided(c) /\ Has(calls, "outcome", c)
        /\ Run' = Turn(Run, e) /\ Run'.all = Base.all /\ ~Run'.inside /\ IsOn(Run')
        /\ Base' = Run' /\ LastTime(calls') = LastTime(calls)
  BY StopRun
<1>2. e.kind = "stopTest" /\ e.test = c BY <1>1 DEF Call
<1>3. PICK k, h : k = buffered_calls /\ h = Append(k, e) OBVIOUS
<1>4. CallsOK /\ DownInv /\ HeldInv /\ ReportsInv /\ PartsInv /\ down' = DownAll(down, h)
  BY <1>1, <1>3 DEF IInv, StopTest
<1>5. PICK on, new, time : on = Base /\ new = Run' /\ time = LastTime(calls) OBVIOUS
<1>6. /\ IsSeq(k) /\ (\A b \in 1..Len(k) : IsHeld(k[b])) /\ TurnAll(on, k) = Run
  BY <1>1, <1>3, <1>4, <1>5 DEF HeldInv
<1>7. OneMore(k, e, h) /\ Len(k) \in Nat BY <1>3, <1>6, AppendShape, SeqShape
<1>8. \A b \in 1..Len(h) : (b \in 1..Len(k) /\ b \in 0..Len(k) /\ h[b] = k[b])
                           \/ (b = Len(k) + 1 /\ h[b] = e)
  BY <1>7 DEF OneMore
<1>9. IsSeq(h) /\ \A b \in 1..Len(h) : IsHeld(h[b]) BY <1>2, <1>6, <1>7, <1>8 DEF OneMore, IsHeld
<1>10. TurnAll(on, h) = new BY <1>1, <1>3, <1>5, <1>6, TurnsOne
<1>11. Good(down, on, time) BY <1>4, <1>5 DEF DownInv
<1>12. Went(down, on, time, h, Len(h), down') BY <1>4, <1>9, <1>11, WentAll
<1>13. Before(h, Len(h)) = h BY <1>9, BeforeAll
<1>14. DownInv'
  <2>1. Good(down', new, time) BY <1>10, <1>12, <1>13 DEF Went
  <2> QED BY <1>1, <1>5, <2>1 DEF DownInv
<1>15. PICK x, y : x = OutcomeOf(c) /\ y = TagsAtOutcome(c) OBVIOUS
<1>16. /\ OfTests(k) = <<Began(c), Call("outcome", c, x)>> /\ Wanted(x, y)
       /\ \A b \in 1..Len(k) : k[b].kind = "outcome" =>
            k[b].test = c /\ TagsOf(TurnAll(on, Before(k, b))) = y
  BY <1>1, <1>3, <1>5, <1>15 DEF Decided
<1>17. Passed(c)' = OfTests(h)
  <2>1. Passed(c)' = Passed(c) BY <1>1, <1>4, JudgedStays
  <2>2. Passed(c) = <<Began(c), Call("outcome", c, x), e>>
    BY <1>1, <1>15, <1>16 DEF Passed, Began
  <2>3. OfTests(h) = Keep(OfTests(k), e) BY <1>3, <1>6, KeepsOne
  <2>4. OfTests(h) = Append(<<Began(c), Call("outcome", c, x)>>, e)
    BY <1>2, <1>16, <2>3 DEF Keep
  <2>5. OfTests(h) = <<Began(c), Call("outcome", c, x), e>> BY <2>4, AppendThird
  <2> QED BY <2>1, <2>2, <2>5
<1>18. PartsInv'
  <2>1. PICK a, p : a = OfTests(down.events) /\ p = OfTests(h) OBVIOUS
  <2>2. OfTests(down'.events) = a \o p BY <1>12, <1>13, <2>1 DEF Went
  <2>3. a = FlattenSeq(Parts) BY <1>4, <2>1 DEF PartsInv
  <2>4. p = IF e.kind = "stopTest" THEN Passed(e.test)' ELSE <<>> BY <1>2, <1>17, <2>1
  <2>5. FlattenSeq(Parts') = FlattenSeq(Parts) \o p BY <1>1, <1>4, <2>4, PartsGrow
  <2>6. OfTests(down'.events) = FlattenSeq(Parts') BY <2>2, <2>3, <2>5, Zenon
  <2> QED BY <2>6 DEF PartsInv
<1>19. ReportsInv'
  <2>1. PICK v, w : v = down.events /\ w = down'.events OBVIOUS
  <2>2. More(v, w) BY <1>12, <2>1 DEF Went
  <2>3. Len(v) \in Nat /\ Len(w) \in Nat BY <2>2, SeqShape DEF More
  <2>4. ASSUME NEW i \in 1..Len(w), w[i].kind = "outcome" PROVE ReportOK(i)'
    <3>1. CASE i \in 1..Len(v)
      <4>1. w[i] = v[i] BY <2>2, <3>1 DEF More
      <4>2. ReportOK(i) BY <1>4, <2>1, <2>4, <3>1, <4>1 DEF ReportsInv
      <4> QED BY <1>1, <1>4, <2>1, <2>2, <3>1, <4>2, ReportStays
    <3>2. CASE i \notin 1..Len(v)
      <4>1. i \in Len(v) + 1 .. Len(w) BY <2>3, <3>2
      <4>2. Reported(down', i, on, time, h, Len(h)) BY <1>12, <2>1, <2>4, <4>1 DEF Went
      <4>3. PICK b \in 1..Len(h) :
              /\ h[b] = w[i] /\ TagsOn(Before(w, i)) = TagsOf(TurnAll(on, Before(h, b)))
              /\ LastTime(Before(w, i)) = time
        BY <2>1, <4>2 DEF Reported
      <4>4. b \in 1..Len(k) /\ b \in 0..Len(k) /\ h[b] = k[b] BY <1>2, <1>8, <2>4, <4>3
      <4>5. Before(h, b) = Before(k, b) BY <1>3, <1>6, <4>4, BeforeAppend
      <4>6. w[i].test = c /\ TagsOn(Before(w, i)) = y BY <1>16, <2>4, <4>3, <4>4, <4>5
      <4>7. TagsAtOutcome(c)' = y BY <1>1, <1>4, <1>15, JudgedStays
      <4>8. PICK t : t = calls' OBVIOUS
      <4>9. PICK n \in Nat : n = Len(calls) BY <1>4, RunGrows, <1>1
      <4>10. IsSeq(t) /\ Len(t) = n + 1 /\ t[n + 1] = e /\ n + 1 \in 1..Len(t)
        BY <1>1, <1>4, <4>8, <4>9, RunGrows DEF OneMore
      <4>11. PlaceOf(t, "stopTest", c) = n + 1
        <5>1. Unique(t) BY <1>1, <4>8 DEF CallsOK
        <5>2. PICK m : m = n + 1 OBVIOUS
        <5>3. m \in 1..Len(t) /\ t[m].kind = "stopTest" /\ t[m].test = c
          BY <1>2, <4>10, <5>2
        <5>4. PlaceOf(t, t[m].kind, t[m].test) = m
          BY <4>10, <5>1, <5>3, PlaceIs DEF TestCalls
        <5> QED BY <5>2, <5>3, <5>4
      <4>12. Has(t, "stopTest", c) BY <1>2, <4>10 DEF Has
      <4>13. LastTime(Before(t, n + 1)) = time
        <5>1. Before(t, n + 1) = t BY <4>10, BeforeAll
        <5> QED BY <1>1, <1>5, <4>8, <5>1
      <4>14. TagsOn(Before(w, i)) = TagsAtOutcome(w[i].test)'
        BY <4>6, <4>7
      <4>15. LastTime(Before(w, i)) = LastTime(Before(t, PlaceOf(t, "stopTest", w[i].test)))
        BY <4>3, <4>6, <4>11, <4>13
      <4> QED BY <2>1, <4>6, <4>7, <4>8, <4>12, <4>15 DEF ReportOK, TagsAtOutcome
    <3> QED BY <3>1, <3>2
  <2> QED BY <2>1, <2>4 DEF ReportsInv
<1> QED BY <1>1, <1>14, <1>18, <1>19 DEF IInv

-----------------------------------------------------------------------------
(* The invariant, and what it says of the client.                           *)

LEMMA NextIInv == IInv /\ [Next]_vars => IInv'
<1> SUFFICES ASSUME IInv, [Next]_vars PROVE IInv' OBVIOUS
<1>1. ASSUME NEW test \in Tests, StartTest(test) PROVE IInv' BY <1>1, StartKeeps
<1>2. ASSUME NEW outcome \in Outcomes, AddOutcome(outcome) PROVE IInv' BY <1>2, OutcomeKeeps
<1>3. CASE StopTest BY <1>3, StopDropped, StopTold
<1>4. ASSUME NEW u \in Updates, TellTags(u) PROVE IInv' BY <1>4, TellTagsKeeps
<1>5. ASSUME NEW time \in Times, PassOn(Call("time", None, time)) PROVE IInv'
  <2>1. PICK e : e = Call("time", None, time) OBVIOUS
  <2>2. e.kind = "time" /\ e.arg # None BY <2>1, BoundsAssumption DEF Call
  <2> QED BY <1>5, <2>1, <2>2, PassOnKeeps
<1>6. CASE PassOn(Call("progress", None, None))
  <2>1. PICK e : e = Call("progress", None, None) OBVIOUS
  <2>2. e.kind = "progress" BY <2>1 DEF Call
  <2> QED BY <1>6, <2>1, <2>2, PassOnKeeps
<1>7. CASE UNCHANGED vars
  BY <1>7 DEF vars, IInv, CallsOK, TestOpen, TagsInv, DownInv, HeldInv, ReportsInv, PartsInv, Run,
     Base, Waiting, Decided, Began, ReportOK, Parts, Passed, OutcomeOf, TagsAtOutcome, Wanted, Fixed
<1> QED BY <1>1, <1>2, <1>3, <1>4, <1>5, <1>6, <1>7 DEF Next

LEMMA IInvWanted == IInv => WantedTestsPass
<1> SUFFICES ASSUME IInv PROVE WantedTestsPass OBVIOUS
<1> QED BY DEF IInv, PartsInv, Parts, WantedTestsPass

LEMMA IInvReports == IInv => TagsArrive /\ OutcomesAreTimed
<1> SUFFICES ASSUME IInv PROVE TagsArrive /\ OutcomesAreTimed OBVIOUS
<1>1. DOMAIN down.events = 1..Len(down.events) BY SeqShape DEF IInv, DownInv, Good, DownOK
<1>2. \A i \in Reports : ReportOK(i) BY <1>1 DEF IInv, ReportsInv, Reports
<1> QED BY <1>2 DEF ReportOK, TagsArrive, OutcomesAreTimed

LEMMA Invariance == Spec => []IInv
<1> QED BY InitIInv, NextIInv, PTL DEF Spec

(* However the filter is set up, the client gets exactly the wanted tests,  *)
(* whole and in the order of the run: _PredicateFilter forgets the calls of *)
(* a dropped test and keeps those of no test to the next.                   *)
THEOREM SpecWantedTestsPass == Spec => []WantedTestsPass
<1> QED BY Invariance, IInvWanted, PTL

(* Every test the client is told of has the tags it had in the run, through *)
(* the calls held back and TagCollapsingDecorator's collapsing.             *)
THEOREM SpecTagsArrive == Spec => []TagsArrive
<1>1. IInv => TagsArrive BY IInvReports
<1> QED BY <1>1, Invariance, PTL

(* The last time the client has at an outcome is the last of the run when   *)
(* the test stopped: TimeCollapsingDecorator drops none that matters.       *)
THEOREM SpecOutcomesAreTimed == Spec => []OutcomesAreTimed
<1>1. IInv => OutcomesAreTimed BY IInvReports
<1> QED BY <1>1, Invariance, PTL
=============================================================================
