------------------------------ MODULE TapProofs ------------------------------
(***************************************************************************)
(* TAP2SubUnit numbers the tests of every script without a gap, whatever   *)
(* numbers and plan it prints, and hands every comment to the test it is   *)
(* about.                                                                  *)
(***************************************************************************)
EXTENDS Tap, SequenceTheorems, FiniteSetTheorems, TLAPS

Call == [kind : {"test", "bail", "missing", "file skip", "stdout"}, number : Nat,
         result : {"success", "fail", "xfail", "skip", "none"}, line : Nat, log : Seq(Nat)]

TypeInv ==
    /\ lines \in Seq(Lines)
    /\ pc \in {"reading", "done", "raised"}
    /\ plan_start \in Nat \ {0} /\ plan_stop \in Nat
    /\ \/ test = <<>>
       \/ \E t \in Call : test = <<t>> /\ t.kind \in {"test", "bail"}
    /\ log \in Seq(Nat) /\ events \in Seq(Call)

LEMMA ConcatElements ==
  ASSUME NEW S, NEW s \in Seq(S), NEW t \in Seq(S)
  PROVE  /\ s \o t \in Seq(S)
         /\ Len(s) \in Nat /\ Len(t) \in Nat /\ Len(s \o t) = Len(s) + Len(t)
         /\ DOMAIN s = 1..Len(s) /\ DOMAIN t = 1..Len(t)
         /\ DOMAIN (s \o t) = 1 .. Len(s) + Len(t)
         /\ \A i \in 1..Len(s) : (s \o t)[i] = s[i]
         /\ \A i \in 1..Len(t) : (s \o t)[Len(s) + i] = t[i]
<1>1. /\ s \o t \in Seq(S) /\ Len(s \o t) = Len(s) + Len(t)
      /\ \A i \in 1 .. Len(s) + Len(t) :
           (s \o t)[i] = IF i <= Len(s) THEN s[i] ELSE t[i - Len(s)]
  BY ConcatProperties
<1>2. Len(s) \in Nat /\ Len(t) \in Nat OBVIOUS
<1> QED BY <1>1, <1>2

(* One more at the end.                                                     *)
LEMMA OneMore ==
  ASSUME NEW S, NEW s \in Seq(S), NEW e \in S
  PROVE  /\ <<e>> \in Seq(S) /\ Len(<<e>>) = 1 /\ DOMAIN <<e>> = {1} /\ <<e>>[1] = e
         /\ Append(s, e) = s \o <<e>> /\ Append(s, e) \in Seq(S)
         /\ DOMAIN Append(s, e) = 1 .. Len(s) + 1 /\ Len(s) \in Nat
         /\ DOMAIN s = 1..Len(s)
         /\ \A i \in 1..Len(s) : Append(s, e)[i] = s[i]
         /\ Append(s, e)[Len(s) + 1] = e
<1>1. <<e>> \in Seq(S) OBVIOUS
<1>2. Append(s, e) = s \o <<e>> BY AppendIsConcat
<1>3. /\ Append(s, e) \in Seq(S) /\ Len(Append(s, e)) = Len(s) + 1
      /\ \A i \in 1..Len(s) : Append(s, e)[i] = s[i]
      /\ Append(s, e)[Len(s) + 1] = e
  BY AppendProperties
<1>4. DOMAIN Append(s, e) = 1 .. Len(s) + 1 BY <1>3
<1> QED BY <1>1, <1>2, <1>3, <1>4

-----------------------------------------------------------------------------
(* What a step reads and what it makes up is of its type.                   *)
LEMMA LineTypes ==
  ASSUME NEW line \in Lines
  PROVE  /\ line.number \in Nat /\ line.ok \in BOOLEAN /\ line.comment \in BOOLEAN
         /\ line.kind \in {"plan", "test", "bail", "comment", "other"}
         /\ line.kind # "test" /\ line.kind # "plan" => ~line.comment
         /\ Result(line) \in {"success", "fail", "xfail", "skip", "none"}
<1>1. \A n \in 0..MaxTest : n \in Nat BY BoundsAssumption
<1>2. \/ /\ line.kind = "plan" /\ line.ok = TRUE /\ line.number \in 0..MaxTest
         /\ line.directive = "none" /\ line.comment \in BOOLEAN
      \/ /\ line.kind = "test" /\ line.ok \in BOOLEAN /\ line.number \in 0..MaxTest
         /\ line.directive \in {"none", "todo", "skip"} /\ line.comment \in BOOLEAN
      \/ /\ line.kind \in {"bail", "comment", "other"} /\ line.ok = TRUE
         /\ line.number \in 0..MaxTest /\ line.comment = FALSE
  <2>1. None \in 0..MaxTest BY BoundsAssumption DEF None
  <2>2. CASE line \in Plans BY <2>2 DEF Plans
  <2>3. CASE line \in Tests BY <2>1, <2>3 DEF Tests
  <2>4. CASE line \in Others BY <2>1, <2>4 DEF Others
  <2> QED BY <2>2, <2>3, <2>4 DEF Lines
<1>3. Result(line) \in {"success", "fail", "xfail", "skip", "none"}
  BY <1>2 DEF Result
<1> QED BY <1>1, <1>2, <1>3

LEMMA MissingTypes ==
  ASSUME TypeInv, NEW to \in Nat
  PROVE  /\ Missing(to) \in Seq(Call)
         /\ Len(Missing(to)) = IF to > plan_start THEN to - plan_start ELSE 0
         /\ DOMAIN Missing(to) = 1..Len(Missing(to))
         /\ \A i \in 1..Len(Missing(to)) :
              Missing(to)[i] = Event("missing", plan_start + i - 1, "fail", 0, <<>>)
<1> DEFINE n == IF to > plan_start THEN to - plan_start ELSE 0
           F(i) == Event("missing", plan_start + i - 1, "fail", 0, <<>>)
<1>1. plan_start \in Nat /\ n \in Nat BY DEF TypeInv
<1>2. \A i \in 1..n : F(i) \in Call
  <2>1. <<>> \in Seq(Nat) BY EmptySeq
  <2> QED BY <1>1, <2>1 DEF Event, Call
<1>3. Missing(to) = [i \in 1..n |-> F(i)] BY DEF Missing
<1> HIDE DEF n, F
<1>4. Missing(to) \in Seq(Call) /\ Len(Missing(to)) = n BY <1>1, <1>2, <1>3
<1> QED BY <1>3, <1>4 DEF n, F

(* The test that is held, as the call it will be.                           *)
HeldCall == [test[1] EXCEPT !.log = log]

LEMMA HeldTypes ==
  ASSUME TypeInv
  PROVE  /\ test = <<>> => Emitted = <<>>
         /\ test # <<>> => /\ Emitted = <<HeldCall>> /\ HeldCall \in Call
                           /\ HeldCall.kind = test[1].kind
                           /\ test[1].kind \in {"test", "bail"}
                           /\ HeldCall.number = test[1].number /\ test[1].number \in Nat
                           /\ HeldCall.line = test[1].line /\ test[1].line \in Nat
                           /\ HeldCall.result = test[1].result
                           /\ HeldCall.log = log
         /\ Emitted \in Seq(Call) /\ log \in Seq(Nat) /\ LogLeft \in Seq(Nat)
<1>1. CASE test = <<>>
  <2>1. <<>> \in Seq(Call) BY EmptySeq
  <2> QED BY <1>1, <2>1 DEF Emitted, LogLeft, TypeInv
<1>2. CASE test # <<>>
  <2>1. PICK t \in Call : test = <<t>> /\ t.kind \in {"test", "bail"}
    BY <1>2 DEF TypeInv
  <2>2. test[1] = t BY <2>1
  <2>3. log \in Seq(Nat) /\ <<>> \in Seq(Nat) BY EmptySeq DEF TypeInv
  <2>4. HeldCall = [t EXCEPT !.log = log] BY <2>2 DEF HeldCall
  <2>5. /\ HeldCall \in Call /\ HeldCall.kind = t.kind /\ HeldCall.number = t.number
        /\ HeldCall.line = t.line /\ HeldCall.result = t.result /\ HeldCall.log = log
    BY <2>3, <2>4 DEF Call
  <2>6. Emitted = <<HeldCall>> BY <1>2 DEF Emitted, HeldCall
  <2>7. <<HeldCall>> \in Seq(Call) BY <2>5
  <2>8. t.number \in Nat /\ t.line \in Nat BY DEF Call
  <2> QED BY <1>2, <2>1, <2>2, <2>3, <2>5, <2>6, <2>7, <2>8 DEF LogLeft
<1> QED BY <1>1, <1>2

LEMMA InitTypes == Init => TypeInv
<1>1. <<>> \in Seq(Lines) /\ <<>> \in Seq(Nat) /\ <<>> \in Seq(Call) BY EmptySeq
<1> QED BY <1>1 DEF Init, TypeInv

LEMMA LineRead ==
  ASSUME TypeInv, NEW line \in Lines, Read(line)
  PROVE  /\ lines' = Append(lines, line) /\ lines' \in Seq(Lines)
         /\ Len(lines) \in Nat /\ DOMAIN lines = 1..Len(lines)
         /\ Number \in Nat /\ Number = Len(lines) + 1
         /\ DOMAIN lines' = 1..Number /\ lines'[Number] = line
         /\ \A n \in 1..Len(lines) : lines'[n] = lines[n]
BY OneMore DEF TypeInv, Read, Number

(* A new test or bail out ends the one before it.                           *)
LEMMA TestTypes ==
  ASSUME TypeInv, NEW line \in Lines, ReadTest(line)
  PROVE  /\ TypeInv'
         /\ Later(line) \in Nat /\ Later(line) >= plan_start /\ Later(line) >= line.number
         /\ \E t \in Call : /\ test' = <<t>> /\ t.kind = "test" /\ t.number = Later(line)
                            /\ t.line = Number /\ t.result = Result(line)
<1> DEFINE t == Event("test", Later(line), Result(line), Number, <<>>)
           said == IF line.comment THEN <<Number>> ELSE <<>>
<1>1. /\ lines' \in Seq(Lines) /\ Number \in Nat BY LineRead DEF ReadTest
<1>2. Later(line) \in Nat /\ Later(line) >= plan_start /\ Later(line) >= line.number
  BY LineTypes DEF Later, TypeInv
<1>3. said \in Seq(Nat) /\ <<>> \in Seq(Nat) BY <1>1, EmptySeq
<1>4. t \in Call BY <1>1, <1>2, <1>3, LineTypes DEF Event, Call
<1>5. /\ t.kind = "test" /\ t.number = Later(line) /\ t.line = Number
      /\ t.result = Result(line)
  BY DEF Event
<1>6. /\ test' = <<t>> /\ log' = LogLeft \o said /\ plan_start' = Later(line) + 1
      /\ events' = events \o Emitted \o Missing(line.number)
      /\ UNCHANGED <<pc, state, plan_stop>>
  BY DEF ReadTest
<1> HIDE DEF t, said
<1>7. log' \in Seq(Nat) BY <1>3, <1>6, HeldTypes, ConcatProperties
<1>8. events' \in Seq(Call)
  <2>1. Missing(line.number) \in Seq(Call) BY LineTypes, MissingTypes
  <2>2. events \o Emitted \in Seq(Call) BY HeldTypes, ConcatProperties DEF TypeInv
  <2> QED BY <1>6, <2>1, <2>2, ConcatProperties
<1>9. TypeInv' BY <1>1, <1>2, <1>4, <1>5, <1>6, <1>7, <1>8 DEF TypeInv
<1> QED BY <1>2, <1>4, <1>5, <1>6, <1>9

LEMMA BailTypes ==
  ASSUME TypeInv, NEW line \in Lines, ReadBail(line)
  PROVE  /\ TypeInv'
         /\ \E t \in Call : test' = <<t>> /\ t.kind = "bail" /\ t.line = Number
<1> DEFINE t == Event("bail", 0, "fail", Number, <<>>)
<1>1. lines' \in Seq(Lines) /\ Number \in Nat BY LineRead DEF ReadBail
<1>2. t \in Call /\ t.kind = "bail" /\ t.line = Number
  <2>1. <<>> \in Seq(Nat) BY EmptySeq
  <2> QED BY <1>1, <2>1 DEF Event, Call
<1>3. /\ test' = <<t>> /\ log' = LogLeft /\ events' = events \o Emitted
      /\ UNCHANGED <<pc, plan_start, plan_stop>>
  BY DEF ReadBail
<1> HIDE DEF t
<1>4. events' \in Seq(Call) BY <1>3, HeldTypes, ConcatProperties DEF TypeInv
<1>5. TypeInv' BY <1>1, <1>2, <1>3, <1>4, HeldTypes DEF TypeInv
<1> QED BY <1>2, <1>3, <1>5

(* A plan or a line that is none of the script's: at most one call is made, *)
(* about no test.                                                           *)
LEMMA OtherTypes ==
  ASSUME TypeInv, NEW line \in Lines, ReadPlan(line) \/ ReadOther(line)
  PROVE  /\ TypeInv'
         /\ UNCHANGED <<plan_start, test, log>> /\ pc' # "done" /\ Read(line)
         /\ line.kind \in {"plan", "other"}
         /\ \/ events' = events
            \/ \E x \in Call : events' = Append(events, x) /\ x.kind \in {"file skip", "stdout"}
<1>1. /\ Read(line) /\ line.kind \in {"plan", "other"} /\ UNCHANGED <<plan_start, test, log>>
      /\ plan_stop' \in {plan_stop, line.number} /\ pc' \in {pc, "raised"} /\ pc = "reading"
      /\ \/ events' = events
         \/ events' = Append(events, Event("file skip", 0, "skip", Number, <<Number>>))
         \/ events' = Append(events, Event("stdout", 0, "none", Number, <<>>))
  BY DEF ReadPlan, ReadOther, Read
<1>2. lines' \in Seq(Lines) /\ Number \in Nat BY <1>1, LineRead
<1>3. \/ events' = events
      \/ \E x \in Call : events' = Append(events, x) /\ x.kind \in {"file skip", "stdout"}
  <2>1. <<>> \in Seq(Nat) /\ <<Number>> \in Seq(Nat) BY <1>2, EmptySeq
  <2>2. /\ Event("file skip", 0, "skip", Number, <<Number>>) \in Call
        /\ Event("stdout", 0, "none", Number, <<>>) \in Call
    BY <1>2, <2>1 DEF Event, Call
  <2>3. /\ Event("file skip", 0, "skip", Number, <<Number>>).kind = "file skip"
        /\ Event("stdout", 0, "none", Number, <<>>).kind = "stdout"
    BY DEF Event
  <2> QED BY <1>1, <2>2, <2>3
<1>4. events' \in Seq(Call)
  <2>1. events \in Seq(Call) BY DEF TypeInv
  <2>2. ASSUME NEW x \in Call PROVE Append(events, x) \in Seq(Call) BY <2>1, OneMore
  <2> QED BY <1>3, <2>1, <2>2
<1>5. line.number \in Nat BY LineTypes
<1>6. TypeInv' BY <1>1, <1>2, <1>4, <1>5 DEF TypeInv
<1> QED BY <1>1, <1>3, <1>6

LEMMA CommentTypes ==
  ASSUME TypeInv, NEW line \in Lines, ReadComment(line)
  PROVE  TypeInv'
<1>1. lines' \in Seq(Lines) /\ Number \in Nat BY LineRead DEF ReadComment
<1>2. log' \in Seq(Nat) BY <1>1, AppendProperties DEF ReadComment, TypeInv
<1> QED BY <1>1, <1>2 DEF ReadComment, TypeInv

LEMMA EndTypes ==
  ASSUME TypeInv, End
  PROVE  TypeInv'
<1>1. Missing(plan_stop + 1) \in Seq(Call) BY MissingTypes DEF TypeInv
<1>2. events \o Emitted \in Seq(Call) BY HeldTypes, ConcatProperties DEF TypeInv
<1>3. events' \in Seq(Call) BY <1>1, <1>2, ConcatProperties DEF End
<1>4. plan_start' \in Nat \ {0} BY DEF End, TypeInv
<1> QED BY <1>3, <1>4, HeldTypes DEF End, TypeInv

LEMMA NextTypes == TypeInv /\ [Next]_vars => TypeInv'
<1> SUFFICES ASSUME TypeInv, [Next]_vars PROVE TypeInv' OBVIOUS
<1>1. CASE UNCHANGED vars BY <1>1 DEF TypeInv, vars
<1>2. CASE End BY <1>2, EndTypes
<1>3. ASSUME NEW line \in Lines, ReadLine(line) PROVE TypeInv'
  BY <1>3, TestTypes, BailTypes, OtherTypes, CommentTypes DEF ReadLine
<1> QED BY <1>1, <1>2, <1>3 DEF Next

-----------------------------------------------------------------------------
(* The numbers. In a sequence of calls the tests have the numbers from 1 to *)
(* last, in their order.                                                    *)
IsNumbered(e) == e.kind \in {"test", "missing"}
AllNumbered(calls, last) ==
    /\ \A i, j \in DOMAIN calls :
         i < j /\ IsNumbered(calls[i]) /\ IsNumbered(calls[j]) => calls[i].number < calls[j].number
    /\ \A i \in DOMAIN calls : IsNumbered(calls[i]) => calls[i].number \in 1..last
    /\ \A n \in 1..last : \E i \in DOMAIN calls : IsNumbered(calls[i]) /\ calls[i].number = n

LEMMA NumbersGoOn ==
  ASSUME NEW s \in Seq(Call), NEW t \in Seq(Call), NEW last \in Nat, AllNumbered(s, last),
         \A i \in 1..Len(t) : IsNumbered(t[i]) /\ t[i].number = last + i
  PROVE  AllNumbered(s \o t, last + Len(t))
<1> DEFINE u == s \o t
<1>1. /\ Len(s) \in Nat /\ Len(t) \in Nat /\ DOMAIN s = 1..Len(s) /\ DOMAIN t = 1..Len(t)
      /\ DOMAIN u = 1 .. Len(s) + Len(t)
      /\ \A i \in 1..Len(s) : u[i] = s[i]
      /\ \A i \in 1..Len(t) : u[Len(s) + i] = t[i]
  BY ConcatElements
<1> HIDE DEF u
<1>2. ASSUME NEW i \in DOMAIN u
      PROVE  \/ i \in 1..Len(s) /\ u[i] = s[i]
             \/ /\ i > Len(s) /\ IsNumbered(u[i]) /\ u[i].number = last + (i - Len(s))
                /\ i - Len(s) \in 1..Len(t)
  <2>1. CASE i <= Len(s) BY <1>1, <2>1
  <2>2. CASE i > Len(s)
    <3>1. i - Len(s) \in 1..Len(t) /\ i = Len(s) + (i - Len(s)) BY <1>1, <2>2
    <3>2. u[i] = t[i - Len(s)] BY <1>1, <3>1
    <3> QED BY <2>2, <3>1, <3>2
  <2> QED BY <1>1, <2>1, <2>2
<1>3. \A i \in DOMAIN s : IsNumbered(s[i]) => s[i].number \in 1..last BY DEF AllNumbered
<1>4. ASSUME NEW i \in DOMAIN u, NEW j \in DOMAIN u, i < j,
             IsNumbered(u[i]), IsNumbered(u[j])
      PROVE  u[i].number < u[j].number
  <2>1. i \in Int /\ j \in Int BY <1>1
  <2>2. CASE j <= Len(s)
    <3>1. i \in DOMAIN s /\ j \in DOMAIN s /\ u[i] = s[i] /\ u[j] = s[j]
      BY <1>1, <1>2, <1>4, <2>1, <2>2
    <3> QED BY <1>4, <3>1 DEF AllNumbered
  <2>3. CASE j > Len(s) /\ i <= Len(s)
    <3>1. u[i].number \in 1..last BY <1>1, <1>2, <1>3, <1>4, <2>1, <2>3
    <3>2. u[j].number = last + (j - Len(s)) BY <1>1, <1>2, <2>1, <2>3
    <3> QED BY <1>1, <2>1, <2>3, <3>1, <3>2
  <2>4. CASE i > Len(s)
    <3>1. u[i].number = last + (i - Len(s)) /\ u[j].number = last + (j - Len(s))
      BY <1>1, <1>2, <1>4, <2>1, <2>4
    <3> QED BY <1>1, <1>4, <2>1, <3>1
  <2> QED BY <1>1, <2>1, <2>2, <2>3, <2>4
<1>5. ASSUME NEW i \in DOMAIN u, IsNumbered(u[i])
      PROVE  u[i].number \in 1 .. last + Len(t)
  <2>1. CASE u[i].number \in 1..last BY <1>1, <2>1
  <2> QED BY <1>1, <1>2, <1>3, <1>5, <2>1
<1>6. ASSUME NEW n \in 1 .. last + Len(t)
      PROVE  \E i \in DOMAIN u : IsNumbered(u[i]) /\ u[i].number = n
  <2>1. CASE n <= last
    <3>1. n \in 1..last BY <2>1
    <3>2. PICK i \in DOMAIN s : IsNumbered(s[i]) /\ s[i].number = n
      BY <3>1 DEF AllNumbered
    <3> QED BY <1>1, <3>2
  <2>2. CASE n > last
    <3>1. n - last \in 1..Len(t) /\ n = last + (n - last) BY <1>1, <2>2
    <3>2. u[Len(s) + (n - last)] = t[n - last] BY <1>1, <3>1
    <3>3. IsNumbered(t[n - last]) /\ t[n - last].number = n BY <3>1
    <3>4. Len(s) + (n - last) \in DOMAIN u BY <1>1, <3>1
    <3> QED BY <3>2, <3>3, <3>4
  <2> QED BY <2>1, <2>2
<1> QED BY <1>4, <1>5, <1>6 DEF AllNumbered, u

LEMMA OneMoreNumber ==
  ASSUME NEW s \in Seq(Call), NEW e \in Call, NEW last \in Nat, AllNumbered(s, last),
         IsNumbered(e), e.number = last + 1
  PROVE  AllNumbered(Append(s, e), last + 1)
<1>1. <<e>> \in Seq(Call) /\ Len(<<e>>) = 1 /\ <<e>>[1] = e /\ Append(s, e) = s \o <<e>>
  BY OneMore
<1>2. \A i \in 1..Len(<<e>>) : IsNumbered(<<e>>[i]) /\ <<e>>[i].number = last + i BY <1>1
<1> QED BY <1>1, <1>2, NumbersGoOn

LEMMA OneMoreOther ==
  ASSUME NEW s \in Seq(Call), NEW e \in Call, NEW last \in Nat, AllNumbered(s, last),
         ~IsNumbered(e)
  PROVE  AllNumbered(Append(s, e), last)
<1> DEFINE u == Append(s, e)
<1>1. /\ Len(s) \in Nat /\ DOMAIN s = 1..Len(s) /\ DOMAIN u = 1 .. Len(s) + 1
      /\ \A i \in 1..Len(s) : u[i] = s[i]
      /\ u[Len(s) + 1] = e
  BY OneMore
<1> HIDE DEF u
<1>2. \A i \in DOMAIN u : IsNumbered(u[i]) => i \in DOMAIN s /\ u[i] = s[i] BY <1>1
<1>3. \A i \in DOMAIN s : i \in DOMAIN u /\ u[i] = s[i] BY <1>1
<1> QED BY <1>2, <1>3 DEF AllNumbered, u

-----------------------------------------------------------------------------
(* The tests that have been sent, and the one that is held, which is the    *)
(* next.                                                                    *)
Held == pc # "done" /\ test # <<>>
NextNumber == IF Held /\ test[1].kind = "test" THEN test[1].number ELSE plan_start

NumInv ==
    /\ AllNumbered(events, NextNumber - 1) /\ NextNumber \in Nat \ {0}
    /\ Held /\ test[1].kind = "test" => plan_start = test[1].number + 1
    /\ pc = "done" => plan_start > plan_stop

(* With the test that was held, every number before plan_start is there.    *)
LEMMA EmittedNumbers ==
  ASSUME TypeInv, NumInv, pc # "done"
  PROVE  /\ events \o Emitted \in Seq(Call)
         /\ AllNumbered(events \o Emitted, plan_start - 1)
<1>0. events \in Seq(Call) /\ events \o <<>> = events /\ plan_start \in Nat
  BY ConcatEmptySeq DEF TypeInv
<1>1. CASE test = <<>>
  BY <1>0, <1>1, HeldTypes DEF NumInv, NextNumber, Held
<1>2. CASE test # <<>>
  <2>1. /\ Emitted = <<HeldCall>> /\ HeldCall \in Call /\ HeldCall.kind = test[1].kind
        /\ HeldCall.number = test[1].number /\ HeldCall.kind \in {"test", "bail"}
        /\ test[1].number \in Nat
    BY <1>2, HeldTypes
  <2>2. events \o Emitted = Append(events, HeldCall) /\ events \o Emitted \in Seq(Call)
    BY <1>0, <2>1, OneMore
  <2>3. CASE test[1].kind = "test"
    <3>1. /\ NextNumber = test[1].number /\ plan_start = test[1].number + 1
          /\ AllNumbered(events, NextNumber - 1) /\ NextNumber - 1 \in Nat
      BY <1>2, <2>3 DEF NumInv, NextNumber, Held
    <3>2. PICK k \in Nat : k = NextNumber - 1 BY <3>1
    <3>3. IsNumbered(HeldCall) /\ HeldCall.number = k + 1 /\ AllNumbered(events, k)
      <4>1. IsNumbered(HeldCall) BY <2>1, <2>3 DEF IsNumbered
      <4>2. AllNumbered(events, k) BY <3>1, <3>2
      <4>3. HeldCall.number = k + 1 BY <2>1, <3>1, <3>2
      <4> QED BY <4>1, <4>2, <4>3
    <3>4. AllNumbered(Append(events, HeldCall), k + 1)
      BY <1>0, <2>1, <3>2, <3>3, OneMoreNumber
    <3>5. plan_start - 1 = k + 1 BY <1>0, <2>1, <3>1, <3>2, <3>3
    <3> QED BY <2>2, <3>4, <3>5
  <2>4. CASE test[1].kind # "test"
    <3>1. AllNumbered(events, plan_start - 1) /\ plan_start - 1 \in Nat
      BY <2>4 DEF NumInv, NextNumber
    <3> QED BY <1>0, <2>1, <2>2, <2>4, <3>1, OneMoreOther DEF IsNumbered
  <2> QED BY <2>3, <2>4
<1> QED BY <1>1, <1>2

(* And with those that are missing before `to`, every number before that.   *)
LEMMA MissingNumbers ==
  ASSUME TypeInv, NumInv, pc # "done", NEW to \in Nat,
         NEW next, next = IF to > plan_start THEN to ELSE plan_start
  PROVE  AllNumbered(events \o Emitted \o Missing(to), next - 1)
<1>1. /\ events \o Emitted \in Seq(Call) /\ AllNumbered(events \o Emitted, plan_start - 1)
  BY EmittedNumbers
<1>2. /\ Missing(to) \in Seq(Call)
      /\ Len(Missing(to)) = IF to > plan_start THEN to - plan_start ELSE 0
      /\ \A i \in 1..Len(Missing(to)) :
           Missing(to)[i] = Event("missing", plan_start + i - 1, "fail", 0, <<>>)
  BY MissingTypes
<1>3. PICK last \in Nat : last = plan_start - 1 BY DEF TypeInv
<1>4. \A i \in 1..Len(Missing(to)) :
        IsNumbered(Missing(to)[i]) /\ Missing(to)[i].number = last + i
  <2>1. \A n : /\ Event("missing", n, "fail", 0, <<>>).kind = "missing"
               /\ Event("missing", n, "fail", 0, <<>>).number = n
    BY DEF Event
  <2>2. \A i \in 1..Len(Missing(to)) : plan_start + i - 1 = last + i
    BY <1>2, <1>3 DEF TypeInv
  <2> QED BY <1>2, <2>1, <2>2 DEF IsNumbered
<1>5. AllNumbered(events \o Emitted \o Missing(to), last + Len(Missing(to)))
  BY <1>1, <1>2, <1>3, <1>4, NumbersGoOn
<1>6. last + Len(Missing(to)) = next - 1 BY <1>2, <1>3 DEF TypeInv
<1> QED BY <1>5, <1>6

LEMMA InitNumbers == Init => NumInv
<1> SUFFICES ASSUME Init PROVE NumInv OBVIOUS
<1>1. NextNumber = 1 BY DEF Init, NextNumber, Held
<1>2. AllNumbered(events, 0) BY DEF Init, AllNumbered
<1> QED BY <1>1, <1>2 DEF Init, NumInv, Held

LEMMA NextNumbers == TypeInv /\ NumInv /\ [Next]_vars => NumInv'
<1> SUFFICES ASSUME TypeInv, NumInv, [Next]_vars PROVE NumInv' OBVIOUS
<1>1. CASE UNCHANGED vars BY <1>1 DEF NumInv, NextNumber, Held, vars
<1>2. CASE End
  <2>1. /\ events' = events \o Emitted \o Missing(plan_stop + 1) /\ pc' = "done" /\ pc # "done"
        /\ plan_start' = (IF plan_start > plan_stop THEN plan_start ELSE plan_stop + 1)
        /\ plan_stop' = plan_stop
    BY <1>2 DEF End
  <2>2. plan_start' = IF plan_stop + 1 > plan_start THEN plan_stop + 1 ELSE plan_start
    BY <2>1 DEF TypeInv
  <2>3. plan_stop + 1 \in Nat /\ plan_start' \in Nat \ {0} BY <2>2 DEF TypeInv
  <2>4. AllNumbered(events', plan_start' - 1) BY <2>1, <2>2, <2>3, MissingNumbers
  <2>5. NextNumber' = plan_start' /\ ~Held' BY <2>1 DEF NextNumber, Held
  <2>6. plan_start' > plan_stop' BY <2>1, <2>2 DEF TypeInv
  <2> QED BY <2>3, <2>4, <2>5, <2>6 DEF NumInv
<1>3. ASSUME NEW line \in Lines, ReadTest(line) PROVE NumInv'
  <2>1. /\ events' = events \o Emitted \o Missing(line.number) /\ pc' = pc /\ pc = "reading"
        /\ plan_start' = Later(line) + 1
    BY <1>3 DEF ReadTest, Read
  <2>2. PICK t \in Call : test' = <<t>> /\ t.kind = "test" /\ t.number = Later(line)
    BY <1>3, TestTypes
  <2>3. Held' /\ test'[1] = t /\ NextNumber' = Later(line)
    BY <2>1, <2>2 DEF Held, NextNumber
  <2>4. line.number \in Nat BY LineTypes
  <2>5. AllNumbered(events', Later(line) - 1) BY <2>1, <2>4, MissingNumbers DEF Later
  <2>6. Later(line) \in Nat \ {0} BY <1>3, TestTypes DEF TypeInv
  <2> QED BY <2>1, <2>2, <2>3, <2>5, <2>6 DEF NumInv
<1>4. ASSUME NEW line \in Lines, ReadBail(line) PROVE NumInv'
  <2>1. /\ events' = events \o Emitted /\ pc' = pc /\ pc = "reading"
        /\ plan_start' = plan_start
    BY <1>4 DEF ReadBail, Read
  <2>2. PICK t \in Call : test' = <<t>> /\ t.kind = "bail" BY <1>4, BailTypes
  <2>3. test'[1].kind # "test" /\ NextNumber' = plan_start
    BY <2>1, <2>2 DEF NextNumber
  <2>4. AllNumbered(events', plan_start - 1) BY <2>1, EmittedNumbers
  <2> QED BY <2>1, <2>3, <2>4 DEF NumInv, TypeInv
<1>5. ASSUME NEW line \in Lines, ReadPlan(line) \/ ReadOther(line) PROVE NumInv'
  <2>1. /\ UNCHANGED <<plan_start, test>> /\ pc' # "done" /\ pc # "done"
        /\ \/ events' = events
           \/ \E x \in Call : events' = Append(events, x) /\ x.kind \in {"file skip", "stdout"}
    BY <1>5, OtherTypes DEF Read
  <2>2. NextNumber' = NextNumber /\ Held' = Held BY <2>1 DEF NextNumber, Held
  <2>3. AllNumbered(events, NextNumber - 1) /\ NextNumber - 1 \in Nat BY DEF NumInv
  <2>4. AllNumbered(events', NextNumber - 1)
    <3>1. ASSUME NEW x \in Call, x.kind \in {"file skip", "stdout"}
          PROVE  AllNumbered(Append(events, x), NextNumber - 1)
      BY <2>3, <3>1, OneMoreOther DEF IsNumbered, TypeInv
    <3> QED BY <2>1, <2>3, <3>1
  <2> QED BY <2>1, <2>2, <2>4 DEF NumInv
<1>6. ASSUME NEW line \in Lines, ReadComment(line) PROVE NumInv'
  <2>1. UNCHANGED <<pc, plan_start, plan_stop, test, events>> BY <1>6 DEF ReadComment
  <2> QED BY <2>1 DEF NumInv, NextNumber, Held
<1> QED BY <1>1, <1>2, <1>3, <1>4, <1>5, <1>6 DEF Next, ReadLine

-----------------------------------------------------------------------------
LEMMA CallsAre ==
  ASSUME TypeInv
  PROVE  /\ Held => Calls = Append(events, HeldCall) /\ HeldCall \in Call
         /\ ~Held => Calls = events
         /\ events \in Seq(Call) /\ Calls \in Seq(Call)
<1>1. events \in Seq(Call) /\ events \o <<>> = events BY ConcatEmptySeq DEF TypeInv
<1>2. CASE Held
  <2>1. HeldCall \in Call BY <1>2, HeldTypes DEF Held
  <2>2. Calls = events \o <<HeldCall>> BY <1>2 DEF Calls, Held, HeldCall
  <2> QED BY <1>1, <1>2, <2>1, <2>2, OneMore
<1>3. CASE ~Held BY <1>1, <1>3 DEF Calls, Held
<1> QED BY <1>2, <1>3

LEMMA NumbersOfCalls ==
  ASSUME TypeInv, NumInv
  PROVE  NumberedInOrder
<1>1. AllNumbered(Calls, plan_start - 1)
  <2>1. CASE Held
    <3>1. pc # "done" /\ test # <<>> BY <2>1 DEF Held
    <3>2. Emitted = <<HeldCall>> BY <3>1, HeldTypes
    <3>3. Calls = events \o Emitted BY <2>1, <3>2, CallsAre, OneMore
    <3> QED BY <3>1, <3>3, EmittedNumbers
  <2>2. CASE ~Held BY <2>2, CallsAre DEF NumInv, NextNumber
  <2> QED BY <2>1, <2>2
<1>2. \A i : i \in CallsOf({"test", "missing"}) <=> i \in DOMAIN Calls /\ IsNumbered(Calls[i])
  BY DEF CallsOf, IsNumbered
<1> QED BY <1>1, <1>2 DEF NumberedInOrder, AllNumbered, NumInv

-----------------------------------------------------------------------------
(* The numbers that are given. The script has counted to plan_start - 1.    *)
LEMMA LinesStep ==
  ASSUME TypeInv, NEW line \in Lines, Read(line), NEW kinds
  PROVE  /\ LinesOf(kinds) \subseteq 1..Len(lines)
         /\ line.kind \in kinds => LinesOf(kinds)' = LinesOf(kinds) \cup {Number}
         /\ line.kind \notin kinds => LinesOf(kinds)' = LinesOf(kinds)
BY LineRead DEF LinesOf

LEMMA NumberedStep ==
  ASSUME TypeInv, NEW line \in Lines, Read(line)
  PROVE  /\ Numbered \subseteq 1..Len(lines)
         /\ \A n : n \in Numbered' <=>
              n \in Numbered \/ (n = Number /\ line.kind = "test" /\ line.number # None)
BY LineRead, LinesStep DEF Numbered, LinesOf

LEMMA TestsFinite ==
  ASSUME TypeInv, NEW m, NEW n
  PROVE  /\ IsFiniteSet({t \in LinesOf({"test"}) : m < t /\ t < n})
         /\ TestsBetween(m, n) \in Nat
<1>1. LinesOf({"test"}) \subseteq 1..Len(lines) /\ Len(lines) \in Nat
  BY DEF LinesOf, TypeInv
<1>2. IsFiniteSet(1..Len(lines)) BY <1>1, FS_Interval
<1>3. {t \in LinesOf({"test"}) : m < t /\ t < n} \subseteq 1..Len(lines) BY <1>1
<1> QED BY <1>2, <1>3, FS_Subset, FS_CardinalityType DEF TestsBetween

(* What was counted stays counted, and a test counts for one.               *)
LEMMA CountStep ==
  ASSUME TypeInv, NEW line \in Lines, Read(line), NEW k, k = Number, NEW m \in 0..Len(lines)
  PROVE  /\ \A n \in 1..k : CountedFrom(m, n)' = CountedFrom(m, n)
         /\ line.kind = "test" => CountedFrom(m, k + 1)' = CountedFrom(m, k) + 1
         /\ line.kind # "test" => CountedFrom(m, k + 1)' = CountedFrom(m, k)
         /\ CountedFrom(k, k + 1)' = line.number
<1>1. /\ k \in Nat /\ k = Len(lines) + 1 /\ Len(lines) \in Nat
      /\ lines'[k] = line /\ \A n \in 1..Len(lines) : lines'[n] = lines[n]
  BY LineRead
<1> DEFINE T == LinesOf({"test"})
<1>2. /\ T \subseteq 1..Len(lines)
      /\ line.kind = "test" => T' = T \cup {k}
      /\ line.kind # "test" => T' = T
  BY LinesStep
<1> HIDE DEF T
<1>3. PICK x \in Nat : /\ x = IF m = 0 THEN 0 ELSE lines[m].number
                       /\ x = IF m = 0 THEN 0 ELSE lines'[m].number
  <2>1. CASE m = 0 BY <2>1
  <2>2. CASE m # 0
    <3>1. lines[m] \in Lines /\ lines'[m] = lines[m] BY <1>1, <2>2, ElementOfSeq DEF TypeInv
    <3> QED BY <2>2, <3>1, LineTypes
  <2> QED BY <2>1, <2>2
<1>4. \A i, j : TestsBetween(i, j) = Cardinality({t \in T : i < t /\ t < j})
  BY DEF TestsBetween, T
<1>5. \A i, j : TestsBetween(i, j)' = Cardinality({t \in T' : i < t /\ t < j})
  BY DEF TestsBetween, T
<1>6. \A n \in 1..k : TestsBetween(m, n)' = TestsBetween(m, n)
  <2> SUFFICES ASSUME NEW n \in 1..k PROVE TestsBetween(m, n)' = TestsBetween(m, n) OBVIOUS
  <2>1. {t \in T' : m < t /\ t < n} = {t \in T : m < t /\ t < n} BY <1>1, <1>2
  <2> QED BY <1>4, <1>5, <2>1
<1>7. \A n : CountedFrom(m, n) = x + TestsBetween(m, n) BY <1>3 DEF CountedFrom
<1>8. \A n : CountedFrom(m, n)' = x + TestsBetween(m, n)' BY <1>3 DEF CountedFrom
<1>9. \A n \in 1..k : CountedFrom(m, n)' = CountedFrom(m, n) BY <1>6, <1>7, <1>8
<1>10. \A t \in T : t \in Int /\ t < k BY <1>1, <1>2
<1>11. ASSUME line.kind = "test" PROVE CountedFrom(m, k + 1)' = CountedFrom(m, k) + 1
  <2>1. {t \in T' : m < t /\ t < k + 1} = {t \in T : m < t /\ t < k} \cup {k}
    <3>1. T' = T \cup {k} BY <1>2, <1>11
    <3>2. m < k /\ k < k + 1 /\ \A t \in T : t < k + 1 BY <1>1, <1>10
    <3> QED BY <1>10, <3>1, <3>2
  <2>2. k \notin {t \in T : m < t /\ t < k} BY <1>1
  <2>3. IsFiniteSet({t \in T : m < t /\ t < k}) BY TestsFinite DEF T
  <2>4. TestsBetween(m, k + 1)' = TestsBetween(m, k) + 1
    BY <1>4, <1>5, <2>1, <2>2, <2>3, FS_AddElement
  <2>5. TestsBetween(m, k) \in Nat BY TestsFinite
  <2> QED BY <1>3, <1>7, <1>8, <2>4, <2>5
<1>12. ASSUME line.kind # "test" PROVE CountedFrom(m, k + 1)' = CountedFrom(m, k)
  <2>1. {t \in T' : m < t /\ t < k + 1} = {t \in T : m < t /\ t < k}
    <3>1. T' = T BY <1>2, <1>12
    <3>2. \A t \in T : t < k + 1 BY <1>1, <1>10
    <3> QED BY <1>10, <3>1, <3>2
  <2> QED BY <1>4, <1>5, <1>7, <1>8, <2>1
<1>13. CountedFrom(k, k + 1)' = line.number
  <2>1. {t \in T' : k < t /\ t < k + 1} = {}
    <3>1. T' \subseteq T \cup {k} BY <1>2
    <3>2. ~(k < k) /\ \A t \in T : ~(k < t) BY <1>1, <1>10
    <3> QED BY <3>1, <3>2
  <2>2. TestsBetween(k, k + 1)' = 0 BY <1>5, <2>1, FS_EmptySet
  <2>3. CountedFrom(k, k + 1)' = (IF k = 0 THEN 0 ELSE lines'[k].number) + TestsBetween(k, k + 1)'
    BY DEF CountedFrom
  <2>4. line.number \in Nat BY LineTypes
  <2> QED BY <1>1, <2>2, <2>3, <2>4
<1> QED BY <1>9, <1>11, <1>12, <1>13

AsGiven(e) == e.kind = "test" /\ e.line \in Numbered => e.number = lines[e.line].number
OfLine(e) == e.kind = "test" => e.line \in DOMAIN lines

GivenInv ==
    /\ \A i \in DOMAIN events : OfLine(events[i])
    /\ Held => OfLine(test[1])
    /\ pc = "reading" => \E m \in Numbered \cup {0} : plan_start - 1 = CountedFrom(m, Number)
    /\ GoesUp => /\ \A i \in DOMAIN events : AsGiven(events[i])
                 /\ Held => AsGiven(test[1])

(* What holds of the calls holds of the one that is held once it is sent.   *)
LEMMA EmittedCalls ==
  ASSUME TypeInv, pc # "done", NEW i \in DOMAIN (events \o Emitted)
  PROVE  /\ events \o Emitted \in Seq(Call)
         /\ \/ i \in DOMAIN events /\ (events \o Emitted)[i] = events[i]
            \/ Held /\ i = Len(events) + 1 /\ (events \o Emitted)[i] = HeldCall
<1>1. events \in Seq(Call) /\ events \o <<>> = events BY ConcatEmptySeq DEF TypeInv
<1>2. CASE test = <<>> BY <1>1, <1>2, HeldTypes
<1>3. CASE test # <<>>
  <2>1. Emitted = <<HeldCall>> /\ HeldCall \in Call /\ Held BY <1>3, HeldTypes DEF Held
  <2> QED BY <1>1, <2>1, OneMore
<1> QED BY <1>2, <1>3

LEMMA MissingCalls ==
  ASSUME TypeInv, pc # "done", NEW to \in Nat,
         NEW i \in DOMAIN (events \o Emitted \o Missing(to))
  PROVE  /\ events \o Emitted \o Missing(to) \in Seq(Call)
         /\ \/ i \in DOMAIN events /\ (events \o Emitted \o Missing(to))[i] = events[i]
            \/ /\ Held /\ i = Len(events) + 1
               /\ (events \o Emitted \o Missing(to))[i] = HeldCall
            \/ (events \o Emitted \o Missing(to))[i].kind = "missing"
<1> DEFINE s == events \o Emitted
           t == Missing(to)
<1>1. s \in Seq(Call) BY HeldTypes, ConcatProperties DEF TypeInv
<1>2. /\ t \in Seq(Call) /\ DOMAIN t = 1..Len(t)
      /\ \A j \in 1..Len(t) : t[j].kind = "missing"
  <2>1. \A n : Event("missing", n, "fail", 0, <<>>).kind = "missing" BY DEF Event
  <2> QED BY <2>1, MissingTypes
<1>3. \A j \in DOMAIN s : \/ j \in DOMAIN events /\ s[j] = events[j]
                          \/ Held /\ j = Len(events) + 1 /\ s[j] = HeldCall
  BY EmittedCalls
<1> HIDE DEF s, t
<1>4. /\ s \o t \in Seq(Call) /\ Len(s) \in Nat /\ Len(t) \in Nat /\ DOMAIN s = 1..Len(s)
      /\ DOMAIN (s \o t) = 1 .. Len(s) + Len(t)
      /\ \A j \in 1..Len(s) : (s \o t)[j] = s[j]
      /\ \A j \in 1..Len(t) : (s \o t)[Len(s) + j] = t[j]
  BY <1>1, <1>2, ConcatElements
<1>5. i \in DOMAIN (s \o t) BY DEF s, t
<1>6. CASE i <= Len(s)
  <2>1. i \in DOMAIN s /\ (s \o t)[i] = s[i] BY <1>4, <1>5, <1>6
  <2> QED BY <1>3, <1>4, <2>1 DEF s, t
<1>7. CASE i > Len(s)
  <2>1. i - Len(s) \in 1..Len(t) /\ i = Len(s) + (i - Len(s)) BY <1>4, <1>5, <1>7
  <2>2. (s \o t)[i] = t[i - Len(s)] BY <1>4, <2>1
  <2> QED BY <1>2, <1>4, <2>1, <2>2 DEF s, t
<1> QED BY <1>4, <1>5, <1>6, <1>7

(* The lines that were read stay as they were, and so do the numbers given. *)
LEMMA GivenStay ==
  ASSUME TypeInv, NEW line \in Lines, Read(line)
  PROVE  /\ GoesUp' => GoesUp
         /\ \A e : OfLine(e) => OfLine(e)' /\ (AsGiven(e) => AsGiven(e)')
<1>1. /\ Len(lines) \in Nat /\ DOMAIN lines = 1..Len(lines) /\ Number = Len(lines) + 1
      /\ DOMAIN lines' = 1..Number /\ \A n \in 1..Len(lines) : lines'[n] = lines[n]
  BY LineRead
<1>2. /\ Numbered \subseteq 1..Len(lines) /\ \A n \in 1..Len(lines) : n \in Numbered' <=> n \in Numbered
  BY <1>1, NumberedStep
<1>3. ASSUME GoesUp' PROVE GoesUp
  <2> SUFFICES ASSUME NEW n \in Numbered, NEW m \in Numbered \cup {0}, m < n
               PROVE  lines[n].number > CountedFrom(m, n)
    BY DEF GoesUp
  <2>1. /\ n \in 1..Len(lines) /\ m \in 0..Len(lines) /\ n \in Numbered'
        /\ m \in Numbered' \cup {0} /\ lines'[n] = lines[n]
    BY <1>1, <1>2
  <2>2. lines'[n].number > CountedFrom(m, n)' BY <1>3, <2>1 DEF GoesUp
  <2>3. n \in 1..Number BY <1>1, <2>1
  <2>4. CountedFrom(m, n)' = CountedFrom(m, n) BY <2>1, <2>3, CountStep
  <2> QED BY <2>1, <2>2, <2>4
<1>4. ASSUME NEW e, OfLine(e) PROVE OfLine(e)' /\ (AsGiven(e) => AsGiven(e)')
  BY <1>1, <1>2, <1>4 DEF OfLine, AsGiven
<1> QED BY <1>3, <1>4

LEMMA InitGiven == Init => GivenInv
<1> SUFFICES ASSUME Init PROVE GivenInv OBVIOUS
<1>1. lines = <<>> /\ events = <<>> /\ test = <<>> /\ plan_start = 1 BY DEF Init
<1>2. LinesOf({"test"}) = {} BY <1>1 DEF LinesOf
<1>3. {t \in LinesOf({"test"}) : 0 < t /\ t < Number} = {} BY <1>2
<1>4. TestsBetween(0, Number) = 0 BY <1>3, FS_EmptySet DEF TestsBetween
<1>5. plan_start - 1 = CountedFrom(0, Number) BY <1>1, <1>4 DEF CountedFrom
<1> QED BY <1>1, <1>5 DEF GivenInv, Held

(* A test the script gives a number is sent under it: when the numbers go   *)
(* up it is not less than plan_start. The count goes on from it.            *)
LEMMA TestGiven ==
  ASSUME TypeInv, GivenInv, NEW line \in Lines, ReadTest(line)
  PROVE  GivenInv'
<1>1. /\ Read(line) /\ line.kind = "test" /\ pc' = pc /\ pc = "reading"
      /\ plan_start' = Later(line) + 1 /\ plan_start \in Nat \ {0}
      /\ events' = events \o Emitted \o Missing(line.number)
  BY DEF ReadTest, Read, TypeInv
<1>2. PICK k \in Nat : k = Number BY <1>1, LineRead
<1>3. /\ Len(lines) \in Nat /\ k = Len(lines) + 1 /\ DOMAIN lines' = 1..k /\ lines'[k] = line
      /\ Number' = k + 1
  <2>1. /\ Len(lines) \in Nat /\ k = Len(lines) + 1 /\ DOMAIN lines' = 1..k /\ lines'[k] = line
        /\ lines' = Append(lines, line) /\ lines \in Seq(Lines)
    BY <1>1, <1>2, LineRead DEF TypeInv
  <2>2. Len(lines') = Len(lines) + 1 BY <2>1, AppendProperties
  <2> QED BY <2>1, <2>2 DEF Number
<1>4. PICK m \in Numbered \cup {0} : plan_start - 1 = CountedFrom(m, k)
  BY <1>1, <1>2 DEF GivenInv
<1>5. m \in 0..Len(lines) /\ m < k BY <1>1, <1>3, <1>4, NumberedStep
<1>6. /\ CountedFrom(m, k)' = plan_start - 1 /\ CountedFrom(m, k + 1)' = plan_start
      /\ CountedFrom(k, k + 1)' = line.number
  <2>1. k \in 1..k BY <1>3
  <2>2. plan_start - 1 + 1 = plan_start BY <1>1
  <2> QED BY <1>1, <1>2, <1>4, <1>5, <2>1, <2>2, CountStep
<1>7. line.number \in Nat BY LineTypes
<1>8. \E n \in Numbered' \cup {0} : Later(line) = CountedFrom(n, k + 1)'
  <2>1. CASE line.number > plan_start
    <3>1. Later(line) = line.number /\ line.number # None BY <1>1, <1>7, <2>1 DEF Later, None
    <3>2. k \in Numbered' BY <1>1, <1>2, <3>1, NumberedStep
    <3> QED BY <1>6, <3>1, <3>2
  <2>2. CASE ~(line.number > plan_start)
    <3>1. Later(line) = plan_start BY <2>2 DEF Later
    <3>2. m \in Numbered' \cup {0} BY <1>1, <1>4, NumberedStep
    <3> QED BY <1>6, <3>1, <3>2
  <2> QED BY <2>1, <2>2
<1>9. (\E n \in Numbered \cup {0} : plan_start - 1 = CountedFrom(n, Number))'
  <2>1. PICK n \in Numbered' \cup {0} : Later(line) = CountedFrom(n, k + 1)' BY <1>8
  <2>2. CountedFrom(n, Number)' = CountedFrom(n, k + 1)'
    BY <1>3 DEF CountedFrom, TestsBetween, LinesOf
  <2>3. plan_start' - 1 = Later(line) BY <1>1, TestTypes
  <2> QED BY <2>1, <2>2, <2>3
<1>10. PICK t \in Call : test' = <<t>> /\ t.kind = "test" /\ t.number = Later(line) /\ t.line = k
  BY <1>2, TestTypes
<1>11. Held' /\ test'[1] = t BY <1>1, <1>10 DEF Held
<1>12. OfLine(t)' BY <1>3, <1>10 DEF OfLine
<1>13. ASSUME GoesUp' PROVE AsGiven(t)'
  <2> SUFFICES ASSUME k \in Numbered' PROVE Later(line) = line.number
    BY <1>3, <1>10 DEF AsGiven
  <2>1. m \in Numbered' \cup {0} BY <1>1, <1>4, NumberedStep
  <2>2. lines'[k].number > CountedFrom(m, k)' BY <1>5, <1>13, <2>1 DEF GoesUp
  <2>3. line.number > plan_start - 1 BY <1>3, <1>6, <2>2
  <2> QED BY <1>1, <1>7, <2>3 DEF Later
<1>14. ASSUME NEW i \in DOMAIN events'
       PROVE  OfLine(events[i])' /\ (GoesUp' => AsGiven(events[i])')
  <2>1. CASE events'[i].kind = "missing" BY <2>1 DEF OfLine, AsGiven
  <2>2. CASE events'[i].kind # "missing"
    <3>1. \/ i \in DOMAIN events /\ events'[i] = events[i]
          \/ Held /\ events'[i] = HeldCall
      BY <1>1, <1>7, <2>2, MissingCalls
    <3>2. OfLine(events'[i]) /\ (GoesUp => AsGiven(events'[i]))
      <4>1. CASE Held /\ events'[i] = HeldCall
        BY <4>1, HeldTypes DEF GivenInv, Held, OfLine, AsGiven
      <4> QED BY <3>1, <4>1 DEF GivenInv
    <3>3. PICK e : e = events'[i] OBVIOUS
    <3>4. OfLine(e)' /\ (GoesUp' => AsGiven(e)') BY <1>1, <3>2, <3>3, GivenStay
    <3> QED BY <3>3, <3>4 DEF OfLine, AsGiven
  <2> QED BY <2>1, <2>2
<1> QED BY <1>9, <1>10, <1>11, <1>12, <1>13, <1>14 DEF GivenInv, OfLine, AsGiven

(* Every other line leaves the count where it is.                           *)
LEMMA CountStays ==
  ASSUME TypeInv, GivenInv, NEW line \in Lines, Read(line), line.kind # "test",
         plan_start' = plan_start
  PROVE  (\E m \in Numbered \cup {0} : plan_start - 1 = CountedFrom(m, Number))'
<1>1. PICK k \in Nat : k = Number BY LineRead
<1>2. Len(lines) \in Nat /\ k = Len(lines) + 1 /\ Number' = k + 1
  <2>1. /\ Len(lines) \in Nat /\ k = Len(lines) + 1
        /\ lines' = Append(lines, line) /\ lines \in Seq(Lines)
    BY <1>1, LineRead DEF TypeInv
  <2>2. Len(lines') = Len(lines) + 1 BY <2>1, AppendProperties
  <2> QED BY <2>1, <2>2 DEF Number
<1>3. PICK m \in Numbered \cup {0} : plan_start - 1 = CountedFrom(m, k)
  BY <1>1 DEF GivenInv, Read
<1>4. m \in 0..Len(lines) /\ m \in Numbered' \cup {0} BY <1>2, <1>3, NumberedStep
<1>5. CountedFrom(m, k + 1)' = plan_start' - 1 BY <1>1, <1>3, <1>4, CountStep
<1>6. CountedFrom(m, Number)' = CountedFrom(m, k + 1)'
  BY <1>2 DEF CountedFrom, TestsBetween, LinesOf
<1> QED BY <1>4, <1>5, <1>6

LEMMA NextGiven == TypeInv /\ GivenInv /\ [Next]_vars => GivenInv'
<1> SUFFICES ASSUME TypeInv, GivenInv, [Next]_vars PROVE GivenInv' OBVIOUS
<1>1. CASE UNCHANGED vars
  BY <1>1 DEF GivenInv, OfLine, AsGiven, Held, GoesUp, Numbered, CountedFrom, TestsBetween,
              LinesOf, Number, vars
<1>2. CASE End
  <2>1. /\ events' = events \o Emitted \o Missing(plan_stop + 1) /\ pc' = "done" /\ pc = "reading"
        /\ lines' = lines
    BY <1>2 DEF End
  <2>2. (GoesUp' <=> GoesUp) /\ \A e : (OfLine(e)' <=> OfLine(e)) /\ (AsGiven(e)' <=> AsGiven(e))
    BY <2>1 DEF OfLine, AsGiven, GoesUp, Numbered, CountedFrom, TestsBetween, LinesOf
  <2>3. ASSUME NEW i \in DOMAIN events'
        PROVE  OfLine(events'[i]) /\ (GoesUp => AsGiven(events'[i]))
    <3>1. plan_stop + 1 \in Nat BY DEF TypeInv
    <3>2. \/ i \in DOMAIN events /\ events'[i] = events[i]
          \/ Held /\ events'[i] = HeldCall
          \/ events'[i].kind = "missing"
      BY <2>1, <3>1, MissingCalls
    <3>3. CASE Held /\ events'[i] = HeldCall
      BY <3>3, HeldTypes DEF GivenInv, Held, OfLine, AsGiven
    <3>4. CASE events'[i].kind = "missing" BY <3>4 DEF OfLine, AsGiven
    <3> QED BY <3>2, <3>3, <3>4 DEF GivenInv
  <2>4. ASSUME NEW i \in DOMAIN events'
        PROVE  OfLine(events[i])' /\ (GoesUp' => AsGiven(events[i])')
    <3>1. PICK e : e = events'[i] OBVIOUS
    <3>2. OfLine(e)' /\ (GoesUp' => AsGiven(e)') BY <2>2, <2>3, <3>1
    <3> QED BY <3>1, <3>2 DEF OfLine, AsGiven
  <2> QED BY <2>1, <2>4 DEF GivenInv, Held
<1>3. ASSUME NEW line \in Lines, ReadTest(line) PROVE GivenInv'
  BY <1>3, TestGiven
<1>4. ASSUME NEW line \in Lines, ReadBail(line) PROVE GivenInv'
  <2>1. /\ Read(line) /\ line.kind # "test" /\ UNCHANGED <<pc, plan_start>> /\ pc = "reading"
        /\ events' = events \o Emitted
    BY <1>4 DEF ReadBail, Read
  <2>2. (\E m \in Numbered \cup {0} : plan_start - 1 = CountedFrom(m, Number))'
    BY <2>1, CountStays
  <2>3. PICK t : test'[1] = t /\ t.kind = "bail"
    <3>1. PICK t \in Call : test' = <<t>> /\ t.kind = "bail" BY <1>4, BailTypes
    <3> QED BY <3>1
  <2>4. OfLine(test[1])' /\ AsGiven(test[1])' BY <2>3 DEF OfLine, AsGiven
  <2>5. ASSUME NEW i \in DOMAIN events'
        PROVE  OfLine(events[i])' /\ (GoesUp' => AsGiven(events[i])')
    <3>1. \/ i \in DOMAIN events /\ events'[i] = events[i]
          \/ Held /\ events'[i] = HeldCall
      BY <2>1, EmittedCalls
    <3>2. OfLine(events'[i]) /\ (GoesUp => AsGiven(events'[i]))
      <4>1. CASE Held /\ events'[i] = HeldCall
        BY <4>1, HeldTypes DEF GivenInv, Held, OfLine, AsGiven
      <4> QED BY <3>1, <4>1 DEF GivenInv
    <3>3. PICK e : e = events'[i] OBVIOUS
    <3>4. OfLine(e)' /\ (GoesUp' => AsGiven(e)') BY <2>1, <3>2, <3>3, GivenStay
    <3> QED BY <3>3, <3>4 DEF OfLine, AsGiven
  <2> QED BY <2>2, <2>4, <2>5 DEF GivenInv
<1>5. ASSUME NEW line \in Lines, ReadPlan(line) \/ ReadOther(line) \/ ReadComment(line)
      PROVE  GivenInv'
  <2>1. /\ Read(line) /\ line.kind # "test" /\ UNCHANGED <<plan_start, test>>
        /\ pc' # "done" /\ pc = "reading"
    <3>1. CASE ReadComment(line) BY <3>1 DEF ReadComment, Read
    <3>2. CASE ReadPlan(line) \/ ReadOther(line) BY <3>2, OtherTypes DEF Read
    <3> QED BY <1>5, <3>1, <3>2
  <2>2. \A i \in DOMAIN events' : \/ i \in DOMAIN events /\ events'[i] = events[i]
                                 \/ events'[i].kind \in {"file skip", "stdout"}
    <3>1. events \in Seq(Call) BY DEF TypeInv
    <3>2. \/ events' = events
          \/ \E x \in Call : events' = Append(events, x) /\ x.kind \in {"file skip", "stdout"}
      <4>1. CASE ReadComment(line) BY <4>1 DEF ReadComment
      <4> QED BY <1>5, <4>1, OtherTypes
    <3>3. ASSUME NEW x \in Call, NEW i \in DOMAIN Append(events, x)
          PROVE  \/ i \in DOMAIN events /\ Append(events, x)[i] = events[i]
                 \/ Append(events, x)[i] = x
      BY <3>1, OneMore
    <3> QED BY <3>2, <3>3
  <2>3. (\E m \in Numbered \cup {0} : plan_start - 1 = CountedFrom(m, Number))'
    BY <2>1, CountStays
  <2>4. Held' = Held /\ test' = test BY <2>1 DEF Held
  <2>5. ASSUME NEW i \in DOMAIN events'
        PROVE  OfLine(events[i])' /\ (GoesUp' => AsGiven(events[i])')
    <3>1. PICK e : e = events'[i] OBVIOUS
    <3>2. OfLine(e) /\ (GoesUp => AsGiven(e))
      BY <2>2, <3>1 DEF GivenInv, OfLine, AsGiven
    <3>3. OfLine(e)' /\ (GoesUp' => AsGiven(e)') BY <2>1, <3>2, GivenStay
    <3> QED BY <3>1, <3>3 DEF OfLine, AsGiven
  <2>6. Held' => OfLine(test[1])' /\ (GoesUp' => AsGiven(test[1])')
    <3>1. PICK e : e = test[1] /\ e = test'[1] BY <2>4
    <3>2. Held => OfLine(e) /\ (GoesUp => AsGiven(e)) BY <3>1 DEF GivenInv
    <3>3. Held' => OfLine(e)' /\ (GoesUp' => AsGiven(e)') BY <2>1, <2>4, <3>2, GivenStay
    <3> QED BY <3>1, <3>3 DEF OfLine, AsGiven
  <2> QED BY <2>3, <2>5, <2>6 DEF GivenInv
<1> QED BY <1>1, <1>2, <1>3, <1>4, <1>5 DEF Next, ReadLine

LEMMA GivenOfCalls ==
  ASSUME TypeInv, GivenInv
  PROVE  NumbersAsGiven
<1> SUFFICES ASSUME GoesUp, NEW i \in CallsOf({"test"}) PROVE AsGiven(Calls[i])
  BY DEF NumbersAsGiven, AsGiven, CallsOf
<1>1. i \in DOMAIN Calls BY DEF CallsOf
<1>2. \A j \in DOMAIN events : AsGiven(events[j]) BY DEF GivenInv
<1>3. CASE Held
  <2>1. AsGiven(HeldCall) BY <1>3, HeldTypes DEF GivenInv, AsGiven, Held
  <2>2. Calls = Append(events, HeldCall) /\ HeldCall \in Call /\ events \in Seq(Call)
    BY <1>3, CallsAre
  <2>3. (i \in DOMAIN events /\ Calls[i] = events[i]) \/ Calls[i] = HeldCall
    BY <1>1, <2>2, OneMore
  <2> QED BY <1>2, <2>1, <2>3
<1>4. CASE ~Held BY <1>1, <1>2, <1>4, CallsAre
<1> QED BY <1>3, <1>4

-----------------------------------------------------------------------------
(* The comments. Calls made for the lines L: in the order of the lines, and *)
(* each with its result and the comments about it.                          *)
Begun == LinesOf({"test", "bail"})
IsTest(e) == e.kind \in {"test", "bail"}
Increasing(s) == \A a, b \in DOMAIN s : a < b => s[a] < s[b]
Elements(s) == {s[a] : a \in DOMAIN s}
Whole(e) ==
    /\ e.kind = "test" => e.result = Result(lines[e.line])
    /\ Increasing(e.log)
    /\ Elements(e.log) = {n \in DOMAIN lines : Said(n) /\ About(n, e.line)}
SentFor(calls, L) ==
    /\ \A i, j \in DOMAIN calls :
         i < j /\ IsTest(calls[i]) /\ IsTest(calls[j]) => calls[i].line < calls[j].line
    /\ \A i \in DOMAIN calls : IsTest(calls[i]) => calls[i].line \in L /\ Whole(calls[i])
    /\ \A n \in L : \E i \in DOMAIN calls : IsTest(calls[i]) /\ calls[i].line = n

SentInv ==
    /\ Held => /\ test[1].line \in Begun /\ \A m \in Begun : m <= test[1].line
               /\ Whole(HeldCall) /\ SentFor(events, Begun \ {test[1].line})
    /\ ~Held => SentFor(events, Begun)
    /\ pc = "reading" /\ test = <<>> =>
         Begun = {} /\ Increasing(log) /\ Elements(log) = {n \in DOMAIN lines : Said(n)}

LEMMA OneMoreSent ==
  ASSUME NEW s \in Seq(Call), NEW e \in Call, NEW L, SentFor(s, L),
         IsTest(e), Whole(e), \A m \in L : m < e.line
  PROVE  SentFor(Append(s, e), L \cup {e.line})
<1> DEFINE u == Append(s, e)
<1>1. /\ Len(s) \in Nat /\ DOMAIN s = 1..Len(s) /\ DOMAIN u = 1 .. Len(s) + 1
      /\ \A i \in 1..Len(s) : u[i] = s[i]
      /\ u[Len(s) + 1] = e
  BY OneMore
<1> HIDE DEF u
<1>2. ASSUME NEW i \in DOMAIN u, NEW j \in DOMAIN u, i < j, IsTest(u[i]), IsTest(u[j])
      PROVE  u[i].line < u[j].line
  <2>1. i \in DOMAIN s /\ u[i] = s[i] BY <1>1, <1>2
  <2>2. CASE j = Len(s) + 1 BY <1>1, <1>2, <2>1, <2>2 DEF SentFor
  <2>3. CASE j # Len(s) + 1
    <3>1. j \in DOMAIN s /\ u[j] = s[j] BY <1>1, <2>3
    <3> QED BY <1>2, <2>1, <3>1 DEF SentFor
  <2> QED BY <2>2, <2>3
<1>3. ASSUME NEW i \in DOMAIN u, IsTest(u[i])
      PROVE  u[i].line \in L \cup {e.line} /\ Whole(u[i])
  <2>1. (i \in DOMAIN s /\ u[i] = s[i]) \/ u[i] = e BY <1>1
  <2>2. \A a \in DOMAIN s : IsTest(s[a]) => s[a].line \in L /\ Whole(s[a]) BY DEF SentFor
  <2> QED BY <1>3, <2>1, <2>2
<1>4. ASSUME NEW n \in L \cup {e.line}
      PROVE  \E i \in DOMAIN u : IsTest(u[i]) /\ u[i].line = n
  <2>1. CASE n \in L BY <1>1, <2>1 DEF SentFor
  <2>2. CASE n = e.line BY <1>1, <2>2
  <2> QED BY <2>1, <2>2
<1> QED BY <1>2, <1>3, <1>4 DEF SentFor, u

LEMMA OthersSent ==
  ASSUME NEW s \in Seq(Call), NEW t \in Seq(Call), NEW L, SentFor(s, L),
         \A i \in 1..Len(t) : ~IsTest(t[i])
  PROVE  SentFor(s \o t, L)
<1> DEFINE u == s \o t
<1>1. /\ Len(s) \in Nat /\ Len(t) \in Nat /\ DOMAIN s = 1..Len(s)
      /\ DOMAIN u = 1 .. Len(s) + Len(t)
      /\ \A i \in 1..Len(s) : u[i] = s[i]
      /\ \A i \in 1..Len(t) : u[Len(s) + i] = t[i]
  BY ConcatElements
<1> HIDE DEF u
<1>2. ASSUME NEW i \in DOMAIN u, IsTest(u[i]) PROVE i \in DOMAIN s /\ u[i] = s[i]
  <2>1. CASE i > Len(s)
    <3>1. i - Len(s) \in 1..Len(t) /\ i = Len(s) + (i - Len(s)) BY <1>1, <2>1
    <3>2. u[i] = t[i - Len(s)] BY <1>1, <3>1
    <3> QED BY <1>2, <3>1, <3>2
  <2> QED BY <1>1, <2>1
<1>3. \A i \in DOMAIN s : i \in DOMAIN u /\ u[i] = s[i] BY <1>1
<1> QED BY <1>2, <1>3 DEF SentFor, u

(* With the test that was held, every test that has begun is sent.          *)
LEMMA EmittedSent ==
  ASSUME TypeInv, SentInv, pc # "done"
  PROVE  /\ Held => SentFor(events \o Emitted, Begun)
         /\ test = <<>> => SentFor(events \o Emitted, Begun) /\ events \o Emitted = events
         /\ events \o Emitted \in Seq(Call)
<1>0. events \in Seq(Call) /\ events \o <<>> = events BY ConcatEmptySeq DEF TypeInv
<1>1. CASE test = <<>> BY <1>0, <1>1, HeldTypes DEF SentInv, Held
<1>2. CASE test # <<>>
  <2>1. Held BY <1>2 DEF Held
  <2>2. /\ Emitted = <<HeldCall>> /\ HeldCall \in Call /\ IsTest(HeldCall)
        /\ HeldCall.line = test[1].line /\ test[1].line \in Nat
    BY <1>2, HeldTypes DEF IsTest
  <2>3. events \o Emitted = Append(events, HeldCall) /\ events \o Emitted \in Seq(Call)
    BY <1>0, <2>2, OneMore
  <2> DEFINE L == Begun \ {test[1].line}
  <2>4. /\ SentFor(events, L) /\ Whole(HeldCall) /\ test[1].line \in Begun
        /\ \A m \in Begun : m <= test[1].line
    BY <2>1 DEF SentInv
  <2>5. Begun \subseteq Nat BY DEF Begun, LinesOf, TypeInv
  <2>6. \A m \in L : m < HeldCall.line BY <2>2, <2>4, <2>5
  <2>7. L \cup {HeldCall.line} = Begun BY <2>2, <2>4
  <2> HIDE DEF L
  <2>8. SentFor(Append(events, HeldCall), L \cup {HeldCall.line})
    BY <1>0, <2>2, <2>4, <2>6, OneMoreSent
  <2> QED BY <1>2, <2>3, <2>7, <2>8
<1> QED BY <1>1, <1>2 DEF Held

LEMMA SentOfCalls ==
  ASSUME TypeInv, SentInv
  PROVE  SentWithItsComments
<1>1. SentFor(Calls, Begun)
  <2>1. CASE Held
    <3>1. Emitted = <<HeldCall>> /\ pc # "done" BY <2>1, HeldTypes DEF Held
    <3>2. Calls = events \o Emitted BY <2>1, <3>1, CallsAre, OneMore
    <3> QED BY <2>1, <3>1, <3>2, EmittedSent
  <2>2. CASE ~Held BY <2>2, CallsAre DEF SentInv
  <2> QED BY <2>1, <2>2
<1> DEFINE tests == CallsOf({"test", "bail"})
<1>2. \A i : i \in tests <=> i \in DOMAIN Calls /\ IsTest(Calls[i]) BY DEF CallsOf, IsTest
<1> HIDE DEF tests
<1>3. {Calls[i].line : i \in tests} = Begun BY <1>1, <1>2 DEF SentFor
<1>4. \A i, j \in tests : i < j => Calls[i].line < Calls[j].line BY <1>1, <1>2 DEF SentFor
<1>5. \A i \in tests : Whole(Calls[i]) BY <1>1, <1>2 DEF SentFor
<1> QED BY <1>3, <1>4, <1>5 DEF SentWithItsComments, tests, Begun, Whole, Increasing, Elements

LEMMA BegunStep ==
  ASSUME TypeInv, NEW line \in Lines, Read(line)
  PROVE  /\ Begun \subseteq 1..Len(lines)
         /\ line.kind \in {"test", "bail"} => Begun' = Begun \cup {Number}
         /\ line.kind \notin {"test", "bail"} => Begun' = Begun
BY LinesStep DEF Begun

LEMMA SaidStep ==
  ASSUME TypeInv, NEW line \in Lines, Read(line), NEW k, k = Number
  PROVE  /\ \A n \in 1..Len(lines) : Said(n)' <=> Said(n)
         /\ Said(k)' <=> (line.kind = "comment" \/ (line.kind = "test" /\ line.comment))
BY LineRead DEF Said

IsAbout(n, l, begun) ==
    \/ l <= n /\ \A m \in begun : m <= n => m <= l
    \/ n < l /\ \A m \in begun : l <= m

(* A comment after the next test has begun is not about this one.           *)
LEMMA WholeStays ==
  ASSUME TypeInv, NEW line \in Lines, Read(line), NEW e, Whole(e), e.line \in Begun,
         \E m \in Begun' : e.line < m
  PROVE  Whole(e)'
<1>1. PICK k \in Nat : k = Number BY LineRead
<1>2. /\ Len(lines) \in Nat /\ k = Len(lines) + 1 /\ DOMAIN lines = 1..Len(lines)
      /\ DOMAIN lines' = 1..k /\ \A n \in 1..Len(lines) : lines'[n] = lines[n]
  BY <1>1, LineRead
<1>3. PICK l : l = e.line OBVIOUS
<1>4. /\ l \in 1..Len(lines) /\ Begun \subseteq 1..Len(lines) /\ Begun \subseteq Begun'
      /\ Begun' \subseteq Begun \cup {k}
  BY <1>1, <1>3, BegunStep
<1>5. \A n : About(n, l) <=> IsAbout(n, l, Begun)
  BY DEF About, Begun, IsAbout
<1>6. \A n : About(n, l)' <=> IsAbout(n, l, Begun')
  BY DEF About, Begun, IsAbout
<1>7. ASSUME NEW n \in 1..Len(lines) PROVE About(n, l)' <=> About(n, l)
  <2>1. \A m \in Begun' : m \in Begun \/ (~(m <= n) /\ l <= m)
    <3>1. ~(k <= n) /\ l <= k BY <1>2, <1>4
    <3> QED BY <1>4, <3>1
  <2> QED BY <1>4, <1>5, <1>6, <2>1 DEF IsAbout
<1>8. ~About(k, l)'
  <2>1. PICK m \in Begun' : l < m BY <1>3
  <2>2. m <= k /\ ~(m <= l) /\ ~(k < l) BY <1>2, <1>4, <2>1
  <2> QED BY <1>6, <2>1, <2>2 DEF IsAbout
<1>9. {n \in DOMAIN lines' : Said(n)' /\ About(n, l)'} = {n \in DOMAIN lines : Said(n) /\ About(n, l)}
  <2>1. \A n \in 1..Len(lines) : Said(n)' <=> Said(n) BY SaidStep
  <2>2. \A n \in DOMAIN lines' : n \in DOMAIN lines \/ n = k BY <1>2
  <2>3. \A n \in DOMAIN lines : n \in DOMAIN lines' BY <1>2
  <2> QED BY <1>2, <1>7, <1>8, <2>1, <2>2, <2>3
<1>10. Elements(e.log) = {n \in DOMAIN lines : Said(n) /\ About(n, l)} BY <1>3 DEF Whole
<1>11. lines'[l] = lines[l] BY <1>2, <1>4
<1> QED BY <1>3, <1>9, <1>10, <1>11 DEF Whole, About, Said, LinesOf

(* A comment is about the test that began last.                             *)
LEMMA WholeGrows ==
  ASSUME TypeInv, NEW line \in Lines, Read(line), line.kind \notin {"test", "bail"},
         NEW l \in Begun, \A m \in Begun : m <= l
  PROVE  {n \in DOMAIN lines : Said(n) /\ About(n, l)}' =
           {n \in DOMAIN lines : Said(n) /\ About(n, l)}
             \cup (IF line.kind = "comment" THEN {Number} ELSE {})
<1>1. PICK k \in Nat : k = Number BY LineRead
<1>2. /\ Len(lines) \in Nat /\ k = Len(lines) + 1 /\ DOMAIN lines = 1..Len(lines)
      /\ DOMAIN lines' = 1..k
  BY <1>1, LineRead
<1>3. l \in 1..Len(lines) /\ Begun' = Begun BY BegunStep
<1>4. \A n : About(n, l) <=> IsAbout(n, l, Begun)
  BY DEF About, Begun, IsAbout
<1>5. \A n : About(n, l)' <=> IsAbout(n, l, Begun')
  BY DEF About, Begun, IsAbout
<1>6. \A n : About(n, l)' <=> About(n, l) BY <1>3, <1>4, <1>5
<1>7. About(k, l)
  <2>1. l <= k BY <1>2, <1>3
  <2> QED BY <1>4, <2>1 DEF IsAbout
<1>8. /\ \A n \in 1..Len(lines) : Said(n)' <=> Said(n)
      /\ Said(k)' <=> line.kind = "comment"
  BY <1>1, SaidStep
<1>9. \A n \in DOMAIN lines' : n \in DOMAIN lines \/ n = k BY <1>2
<1>10. DOMAIN lines \subseteq DOMAIN lines' /\ k \in DOMAIN lines' BY <1>2
<1> QED BY <1>1, <1>2, <1>6, <1>7, <1>8, <1>9, <1>10

(* A comment more in the log, later than all of those in it.                *)
LEMMA OneMoreComment ==
  ASSUME NEW s \in Seq(Nat), NEW k \in Nat, Increasing(s), \A n \in Elements(s) : n < k
  PROVE  /\ Increasing(Append(s, k)) /\ Elements(Append(s, k)) = Elements(s) \cup {k}
         /\ Increasing(<<k>>) /\ Elements(<<k>>) = {k}
         /\ Increasing(<<>>) /\ Elements(<<>>) = {}
<1> DEFINE u == Append(s, k)
<1>1. /\ Len(s) \in Nat /\ DOMAIN s = 1..Len(s) /\ DOMAIN u = 1 .. Len(s) + 1
      /\ \A i \in 1..Len(s) : u[i] = s[i]
      /\ u[Len(s) + 1] = k
  BY OneMore
<1> HIDE DEF u
<1>2. Increasing(u)
  <2> SUFFICES ASSUME NEW a \in DOMAIN u, NEW b \in DOMAIN u, a < b PROVE u[a] < u[b]
    BY DEF Increasing
  <2>1. a \in DOMAIN s /\ u[a] = s[a] BY <1>1
  <2>2. CASE b = Len(s) + 1
    <3>1. u[a] \in Elements(s) BY <2>1 DEF Elements
    <3> QED BY <1>1, <2>2, <3>1
  <2>3. CASE b # Len(s) + 1
    <3>1. b \in DOMAIN s /\ u[b] = s[b] BY <1>1, <2>3
    <3> QED BY <2>1, <3>1 DEF Increasing
  <2> QED BY <2>2, <2>3
<1>3. Elements(u) = Elements(s) \cup {k}
  <2>1. \A a \in DOMAIN u : u[a] \in Elements(s) \cup {k} BY <1>1 DEF Elements
  <2>2. \A a \in DOMAIN s : s[a] \in Elements(u) BY <1>1 DEF Elements
  <2>3. k \in Elements(u) BY <1>1 DEF Elements
  <2> QED BY <2>1, <2>2, <2>3 DEF Elements
<1>4. Increasing(<<k>>) /\ Elements(<<k>>) = {k} BY DEF Increasing, Elements
<1>5. Increasing(<<>>) /\ Elements(<<>>) = {} BY DEF Increasing, Elements
<1> QED BY <1>2, <1>3, <1>4, <1>5 DEF u

LEMMA InitSent == Init => SentInv
<1> SUFFICES ASSUME Init PROVE SentInv OBVIOUS
<1>1. lines = <<>> /\ events = <<>> /\ test = <<>> /\ log = <<>> /\ ~Held
  BY DEF Init, Held
<1>2. Begun = {} /\ DOMAIN lines = {} BY <1>1 DEF Begun, LinesOf
<1>3. SentFor(events, Begun) BY <1>1, <1>2 DEF SentFor
<1>4. Increasing(log) /\ Elements(log) = {} BY <1>1 DEF Increasing, Elements
<1> QED BY <1>1, <1>2, <1>3, <1>4 DEF SentInv

(* Calls that were made for lines before a later test stay whole.           *)
LEMMA SentStays ==
  ASSUME TypeInv, NEW line \in Lines, Read(line), NEW calls, NEW L \in SUBSET Begun,
         SentFor(calls, L), \A n \in L : \E m \in Begun' : n < m
  PROVE  SentFor(calls, L)'
<1>1. ASSUME NEW i \in DOMAIN calls, IsTest(calls[i])
      PROVE  calls[i].line \in L /\ Whole(calls[i])'
  <2>1. PICK e : e = calls[i] OBVIOUS
  <2>2. Whole(e) /\ e.line \in L /\ e.line \in Begun BY <1>1, <2>1 DEF SentFor
  <2>3. Whole(e)' BY <2>2, WholeStays
  <2> QED BY <2>1, <2>2, <2>3
<1> QED BY <1>1 DEF SentFor

(* What is left of the log when a test begins is about it: all of it before *)
(* the first one, and nothing after that.                                   *)
LEMMA LogLeftIs ==
  ASSUME TypeInv, SentInv, pc = "reading"
  PROVE  /\ Increasing(LogLeft) /\ LogLeft \in Seq(Nat)
         /\ Elements(LogLeft) = {n \in DOMAIN lines : Said(n) /\ Begun = {}}
<1>1. CASE test = <<>> BY <1>1, HeldTypes DEF SentInv, LogLeft
<1>2. CASE test # <<>>
  <2>1. LogLeft = <<>> BY <1>2 DEF LogLeft
  <2>2. Begun # {} BY <1>2 DEF SentInv, Held
  <2> QED BY <2>1, <2>2, HeldTypes DEF Increasing, Elements
<1> QED BY <1>1, <1>2

LEMMA NewTestSent ==
  ASSUME TypeInv, SentInv, NEW line \in Lines, Read(line), line.kind \in {"test", "bail"},
         pc' = "reading", NEW c, events' = c, SentFor(c, Begun),
         NEW t \in Call, test' = <<t>>, IsTest(t), t.line = Number,
         t.kind = "test" => t.result = Result(line),
         log' = LogLeft \o (IF line.comment THEN <<Number>> ELSE <<>>)
  PROVE  SentInv'
<1>1. PICK k \in Nat : k = Number BY LineRead
<1>2. /\ Len(lines) \in Nat /\ k = Len(lines) + 1 /\ DOMAIN lines = 1..Len(lines)
      /\ DOMAIN lines' = 1..k /\ lines'[k] = line
  BY <1>1, LineRead
<1>3. Begun \subseteq 1..Len(lines) /\ Begun' = Begun \cup {k} BY <1>1, BegunStep
<1>4. PICK b \in SUBSET Begun : b = Begun OBVIOUS
<1>5. SentFor(c, b)'
  <2>1. \A n \in b : k \in Begun' /\ n < k BY <1>2, <1>3, <1>4
  <2> QED BY <1>4, <2>1, SentStays
<1>6. /\ Held' /\ test'[1].line = k /\ test'[1].line \in Begun'
      /\ \A m \in Begun' : m <= k /\ Begun' \ {k} = b
  BY <1>1, <1>2, <1>3, <1>4 DEF Held
<1>7. /\ Increasing(log') /\ log' \in Seq(Nat)
      /\ Elements(log') = {n \in DOMAIN lines : Said(n) /\ Begun = {}}
                            \cup (IF line.comment THEN {k} ELSE {})
  <2>1. pc = "reading" BY DEF Read
  <2>2. /\ Increasing(LogLeft) /\ LogLeft \in Seq(Nat)
        /\ Elements(LogLeft) = {n \in DOMAIN lines : Said(n) /\ Begun = {}}
    BY <2>1, LogLeftIs
  <2>3. CASE ~line.comment
    <3>1. log' = LogLeft BY <2>2, <2>3, ConcatEmptySeq
    <3> QED BY <2>2, <2>3, <3>1
  <2>4. CASE line.comment
    <3>1. log' = Append(LogLeft, k) /\ log' \in Seq(Nat) BY <1>1, <2>2, <2>4, OneMore
    <3>2. \A n \in Elements(LogLeft) : n < k BY <1>2, <2>2
    <3> QED BY <2>2, <2>4, <3>1, <3>2, OneMoreComment
  <2> QED BY <2>3, <2>4
<1>8. {n \in DOMAIN lines' : Said(n)' /\ About(n, k)'} =
        {n \in DOMAIN lines : Said(n) /\ Begun = {}} \cup (IF line.comment THEN {k} ELSE {})
  <2>1. \A n : About(n, k)' <=> IsAbout(n, k, Begun') BY DEF About, Begun, IsAbout
  <2>2. About(k, k)'
    <3>1. k <= k BY <1>2
    <3> QED BY <2>1, <3>1 DEF IsAbout
  <2>3. ASSUME NEW n \in 1..Len(lines) PROVE About(n, k)' <=> Begun = {}
    <3>1. n < k /\ ~(k <= n) BY <1>2
    <3>2. \A m \in Begun : ~(k <= m) BY <1>2, <1>3
    <3>3. k <= k BY <1>2
    <3> QED BY <1>3, <2>1, <3>1, <3>2, <3>3 DEF IsAbout
  <2>4. line.kind = "bail" => ~line.comment BY LineTypes
  <2>5. /\ \A n \in 1..Len(lines) : Said(n)' <=> Said(n)
        /\ Said(k)' <=> line.comment
    BY <1>1, <2>4, SaidStep, LineTypes
  <2>6. \A n \in DOMAIN lines' : n \in DOMAIN lines \/ n = k BY <1>2
  <2>7. DOMAIN lines \subseteq DOMAIN lines' /\ k \in DOMAIN lines' /\ k \notin DOMAIN lines
    BY <1>2
  <2> QED BY <1>2, <2>2, <2>3, <2>5, <2>6, <2>7
<1>9. Whole(HeldCall)'
  <2>1. HeldCall' = [t EXCEPT !.log = log'] BY DEF HeldCall
  <2>2. /\ HeldCall'.kind = t.kind /\ HeldCall'.result = t.result /\ HeldCall'.line = k
        /\ HeldCall'.log = log'
    BY <1>1, <2>1 DEF Call
  <2>3. PICK h : h = HeldCall' OBVIOUS
  <2>4. {n \in DOMAIN lines : Said(n) /\ About(n, h.line)}' =
          {n \in DOMAIN lines' : Said(n)' /\ About(n, k)'}
    BY <2>2, <2>3 DEF About, Said, LinesOf
  <2>5. Whole(h)' BY <1>2, <1>7, <1>8, <2>2, <2>3, <2>4 DEF Whole
  <2> QED BY <2>3, <2>5 DEF Whole, About, Said, LinesOf
<1>10. SentFor(events, Begun \ {test[1].line})'
  <2>1. PICK d : d = (Begun \ {test[1].line})' OBVIOUS
  <2>2. d = b BY <1>3, <1>6, <2>1
  <2> QED BY <1>5, <2>1, <2>2 DEF SentFor
<1> QED BY <1>6, <1>9, <1>10 DEF SentInv

(* Any other line: a comment goes to the test that is held, what else there *)
(* is changes neither the tests nor their comments.                         *)
LEMMA OldTestSent ==
  ASSUME TypeInv, SentInv, NEW line \in Lines, Read(line), line.kind \notin {"test", "bail"},
         pc = "reading", pc' # "done", test' = test,
         log' = IF line.kind = "comment" THEN Append(log, Number) ELSE log,
         NEW t \in Seq(Call), events' = events \o t, \A i \in 1..Len(t) : ~IsTest(t[i])
  PROVE  SentInv'
<1>1. PICK k \in Nat : k = Number BY LineRead
<1>2. /\ Len(lines) \in Nat /\ k = Len(lines) + 1 /\ DOMAIN lines = 1..Len(lines)
      /\ DOMAIN lines' = 1..k
  BY <1>1, LineRead
<1>3. Begun \subseteq 1..Len(lines) /\ Begun' = Begun BY BegunStep
<1>4. events \in Seq(Call) /\ log \in Seq(Nat) BY DEF TypeInv
<1>5. PICK c : c = events \o t OBVIOUS
<1>6. events' = c BY <1>5
<1>7. \A L : SentFor(events, L) => SentFor(c, L) BY <1>4, <1>5, OthersSent
<1>8. /\ \A n \in 1..Len(lines) : Said(n)' <=> Said(n)
      /\ Said(k)' <=> line.kind = "comment"
  BY <1>1, SaidStep
<1>9. ASSUME NEW A \in SUBSET DOMAIN lines, Increasing(log), Elements(log) = A
      PROVE  /\ Increasing(log')
             /\ Elements(log') = A \cup (IF line.kind = "comment" THEN {k} ELSE {})
  <2>1. CASE line.kind = "comment"
    <3>1. \A n \in Elements(log) : n < k BY <1>2, <1>9
    <3>2. log' = Append(log, k) BY <1>1, <2>1
    <3> QED BY <1>4, <1>9, <2>1, <3>1, <3>2, OneMoreComment
  <2>2. CASE line.kind # "comment" BY <1>9, <2>2
  <2> QED BY <2>1, <2>2
<1>10. CASE Held
  <2>1. PICK l : l = test[1].line OBVIOUS
  <2>2. /\ l \in Begun /\ Whole(HeldCall) /\ SentFor(events, Begun \ {l})
        /\ \A m \in Begun : m <= l
    BY <1>10, <2>1 DEF SentInv
  <2>3. test # <<>> BY <1>10 DEF Held
  <2>4. /\ HeldCall.line = l /\ HeldCall.kind = test[1].kind
        /\ HeldCall.result = test[1].result /\ HeldCall.log = log
    BY <2>1, <2>3, HeldTypes
  <2> DEFINE About0 == {n \in DOMAIN lines : Said(n) /\ About(n, l)}
  <2>5. /\ Increasing(log) /\ Elements(log) = About0
        /\ HeldCall.kind = "test" => HeldCall.result = Result(lines[l])
    BY <2>2, <2>4 DEF Whole
  <2>6. /\ Increasing(log')
        /\ Elements(log') = About0 \cup (IF line.kind = "comment" THEN {k} ELSE {})
    BY <1>9, <2>5
  <2> HIDE DEF About0
  <2>7. {n \in DOMAIN lines : Said(n) /\ About(n, l)}' =
          About0 \cup (IF line.kind = "comment" THEN {k} ELSE {})
    BY <1>1, <2>2, WholeGrows DEF About0
  <2>8. lines'[l] = lines[l] BY <1>2, <1>3, <2>2, LineRead
  <2>9. PICK u : u = test[1] OBVIOUS
  <2>10. u \in Call
    <3>1. PICK x \in Call : test = <<x>> BY <2>3 DEF TypeInv
    <3> QED BY <2>9, <3>1
  <2>11. PICK h : h = HeldCall' OBVIOUS
  <2>12. h = [u EXCEPT !.log = log'] BY <2>9, <2>11 DEF HeldCall
  <2>13. h.kind = u.kind /\ h.result = u.result /\ h.line = l /\ h.log = log'
    BY <2>1, <2>9, <2>10, <2>12 DEF Call
  <2>14. h.kind = "test" => h.result = Result(lines[l])
    BY <2>4, <2>5, <2>9, <2>13
  <2>15. Whole(h)'
    <3>1. {n \in DOMAIN lines : Said(n) /\ About(n, h.line)}' =
            {n \in DOMAIN lines : Said(n) /\ About(n, l)}'
      BY <2>13 DEF About, Said, LinesOf
    <3> QED BY <2>6, <2>7, <2>8, <2>13, <2>14, <3>1 DEF Whole
  <2>16. Whole(HeldCall)' BY <2>11, <2>15 DEF Whole, About, Said, LinesOf
  <2>17. SentFor(events, Begun \ {test[1].line})'
    <3>1. PICK b \in SUBSET Begun : b = Begun \ {l} OBVIOUS
    <3>2. SentFor(c, b) BY <1>7, <2>2, <3>1
    <3>3. \A n \in b : l \in Begun' /\ n < l
      <4>1. Begun \subseteq Nat BY <1>3
      <4> QED BY <1>3, <2>2, <3>1, <4>1
    <3>4. SentFor(c, b)' BY <3>2, <3>3, SentStays
    <3>5. PICK d : d = (Begun \ {test[1].line})' OBVIOUS
    <3>6. d = b BY <1>3, <2>1, <3>1, <3>5
    <3> QED BY <1>6, <3>4, <3>5, <3>6 DEF SentFor
  <2>18. Held' BY <1>10 DEF Held
  <2>19. test'[1].line = l BY <2>1
  <2>20. test'[1].line \in Begun' /\ \A m \in Begun' : m <= test'[1].line
    BY <1>3, <2>2, <2>19
  <2> QED BY <2>16, <2>17, <2>18, <2>20 DEF SentInv, Held
<1>11. CASE ~Held
  <2>1. test = <<>> /\ Begun = {} /\ SentFor(events, {}) BY <1>11 DEF Held, SentInv
  <2>2. SentFor(c, {})'
    <3>1. SentFor(c, {}) BY <1>7, <2>1
    <3> QED BY <3>1, SentStays
  <2>3. /\ Increasing(log') /\ Begun' = {} /\ test' = <<>>
        /\ Elements(log') = {n \in DOMAIN lines : Said(n)}
                              \cup (IF line.kind = "comment" THEN {k} ELSE {})
    BY <1>3, <1>9, <2>1 DEF SentInv
  <2>4. {n \in DOMAIN lines' : Said(n)'} = Elements(log')
    <3>1. \A n \in DOMAIN lines' : n \in DOMAIN lines \/ n = k BY <1>2
    <3>2. DOMAIN lines \subseteq DOMAIN lines' /\ k \in DOMAIN lines' BY <1>2
    <3> QED BY <1>2, <1>8, <2>3, <3>1, <3>2
  <2>5. SentFor(events, Begun)' BY <1>6, <2>2, <2>3 DEF SentFor
  <2>6. ~Held' BY <2>3 DEF Held
  <2> QED BY <2>3, <2>4, <2>5, <2>6 DEF SentInv
<1> QED BY <1>10, <1>11

(* Neither those made up nor those that are no tests are in the count.      *)
LEMMA NextSent == TypeInv /\ SentInv /\ [Next]_vars => SentInv'
<1> SUFFICES ASSUME TypeInv, SentInv, [Next]_vars PROVE SentInv' OBVIOUS
<1>0. \A to \in Nat : /\ Missing(to) \in Seq(Call)
                     /\ \A i \in 1..Len(Missing(to)) : ~IsTest(Missing(to)[i])
  <2>1. ASSUME NEW to \in Nat, NEW i \in 1..Len(Missing(to)) PROVE ~IsTest(Missing(to)[i])
    <3>1. Missing(to)[i] = Event("missing", plan_start + i - 1, "fail", 0, <<>>)
      BY MissingTypes
    <3> QED BY <3>1 DEF Event, IsTest
  <2> QED BY <2>1, MissingTypes
<1>1. CASE UNCHANGED vars
  BY <1>1 DEF vars, SentInv, Held, HeldCall, SentFor, Whole, Begun, About, Said, LinesOf
<1>2. CASE End
  <2>1. /\ pc = "reading" /\ pc' = "done" /\ lines' = lines
        /\ events' = events \o Emitted \o Missing(plan_stop + 1)
    BY <1>2 DEF End
  <2>2. SentFor(events \o Emitted, Begun) /\ events \o Emitted \in Seq(Call)
    BY <2>1, EmittedSent DEF Held
  <2>3. plan_stop + 1 \in Nat BY DEF TypeInv
  <2>4. PICK c : c = events' OBVIOUS
  <2>5. SentFor(c, Begun) BY <1>0, <2>1, <2>2, <2>3, <2>4, OthersSent
  <2>6. SentFor(c, Begun)'
    BY <2>1, <2>5 DEF SentFor, Whole, Begun, About, Said, LinesOf
  <2>7. ~Held' BY <2>1 DEF Held
  <2> QED BY <2>1, <2>4, <2>6, <2>7 DEF SentInv, SentFor
<1>3. ASSUME NEW line \in Lines, ReadTest(line) PROVE SentInv'
  <2>1. /\ Read(line) /\ line.kind = "test" /\ pc = "reading" /\ pc' = "reading"
        /\ events' = events \o Emitted \o Missing(line.number)
        /\ log' = LogLeft \o (IF line.comment THEN <<Number>> ELSE <<>>)
    BY <1>3 DEF ReadTest, Read
  <2>2. PICK t \in Call : /\ test' = <<t>> /\ t.kind = "test" /\ t.line = Number
                          /\ t.result = Result(line)
    BY <1>3, TestTypes
  <2>3. SentFor(events \o Emitted, Begun) /\ events \o Emitted \in Seq(Call)
    BY <2>1, EmittedSent DEF Held
  <2>4. line.number \in Nat BY LineTypes
  <2>5. PICK c : c = events' OBVIOUS
  <2>6. SentFor(c, Begun) BY <1>0, <2>1, <2>3, <2>4, <2>5, OthersSent
  <2>7. IsTest(t) BY <2>2 DEF IsTest
  <2> QED BY <2>1, <2>2, <2>5, <2>6, <2>7, NewTestSent
<1>4. ASSUME NEW line \in Lines, ReadBail(line) PROVE SentInv'
  <2>1. /\ Read(line) /\ line.kind = "bail" /\ pc = "reading" /\ pc' = "reading"
        /\ events' = events \o Emitted /\ log' = LogLeft
    BY <1>4 DEF ReadBail, Read
  <2>2. PICK t \in Call : test' = <<t>> /\ t.kind = "bail" /\ t.line = Number
    BY <1>4, BailTypes
  <2>3. SentFor(events \o Emitted, Begun) BY <2>1, EmittedSent DEF Held
  <2>4. PICK c : c = events' OBVIOUS
  <2>5. SentFor(c, Begun) BY <2>1, <2>3, <2>4
  <2>6. ~line.comment BY <2>1, LineTypes
  <2>7. LogLeft \o <<>> = LogLeft BY HeldTypes, ConcatEmptySeq
  <2>8. log' = LogLeft \o (IF line.comment THEN <<Number>> ELSE <<>>)
    BY <2>1, <2>6, <2>7
  <2>9. IsTest(t) /\ t.kind # "test" BY <2>2 DEF IsTest
  <2> QED BY <2>1, <2>2, <2>4, <2>5, <2>8, <2>9, NewTestSent
<1>5. ASSUME NEW line \in Lines, ReadPlan(line) \/ ReadOther(line) PROVE SentInv'
  <2>1. /\ UNCHANGED <<test, log>> /\ pc' # "done" /\ Read(line)
        /\ line.kind \in {"plan", "other"}
        /\ \/ events' = events
           \/ \E x \in Call : events' = Append(events, x) /\ x.kind \in {"file skip", "stdout"}
    BY <1>5, OtherTypes
  <2>2. events \in Seq(Call) BY DEF TypeInv
  <2>3. PICK t \in Seq(Call) : events' = events \o t /\ \A i \in 1..Len(t) : ~IsTest(t[i])
    <3>1. CASE events' = events
      <4>1. <<>> \in Seq(Call) /\ events \o <<>> = events BY <2>2, ConcatEmptySeq, EmptySeq
      <4>2. events' = events \o <<>> BY <3>1, <4>1
      <4>3. \A i \in 1..Len(<<>>) : ~IsTest(<<>>[i]) OBVIOUS
      <4> QED BY <4>1, <4>2, <4>3, Zenon
    <3>2. ASSUME NEW x \in Call, events' = Append(events, x),
                 x.kind \in {"file skip", "stdout"}
          PROVE  \E t \in Seq(Call) :
                   events' = events \o t /\ \A i \in 1..Len(t) : ~IsTest(t[i])
      <4>1. PICK t : t = <<x>> OBVIOUS
      <4>2. t \in Seq(Call) /\ Len(t) = 1 /\ t[1] = x BY <4>1
      <4>3. Append(events, x) = events \o t BY <2>2, <4>1, OneMore
      <4>4. \A i \in 1..Len(t) : i = 1 BY <4>2
      <4>5. ~IsTest(x) BY <3>2 DEF IsTest
      <4>6. \A i \in 1..Len(t) : ~IsTest(t[i]) BY <4>2, <4>4, <4>5
      <4>7. events' = events \o t BY <3>2, <4>3
      <4> QED BY <4>2, <4>6, <4>7, Zenon
    <3> QED BY <2>1, <3>1, <3>2
  <2>4. pc = "reading" BY <2>1 DEF Read
  <2> QED BY <2>1, <2>3, <2>4, OldTestSent
<1>6. ASSUME NEW line \in Lines, ReadComment(line) PROVE SentInv'
  <2>1. /\ Read(line) /\ line.kind = "comment" /\ log' = Append(log, Number)
        /\ UNCHANGED <<pc, test, events>> /\ pc = "reading"
    BY <1>6 DEF ReadComment, Read
  <2>2. /\ <<>> \in Seq(Call) /\ events' = events \o <<>> /\ Len(<<>>) = 0
    BY <2>1, ConcatEmptySeq, EmptySeq DEF TypeInv
  <2>3. \A i \in 1..Len(<<>>) : ~IsTest(<<>>[i]) BY <2>2
  <2>4. PICK t \in Seq(Call) : events' = events \o t /\ \A i \in 1..Len(t) : ~IsTest(t[i])
    BY <2>2, <2>3
  <2> QED BY <2>1, <2>4, OldTestSent
<1> QED BY <1>1, <1>2, <1>3, <1>4, <1>5, <1>6 DEF Next, ReadLine

-----------------------------------------------------------------------------
(* The inductive invariant, and what follows from it for every script.      *)
IInv == TypeInv /\ NumInv /\ GivenInv /\ SentInv

LEMMA Invariance == Spec => []IInv
<1>1. Init => IInv BY InitTypes, InitNumbers, InitGiven, InitSent DEF IInv
<1>2. IInv /\ [Next]_vars => IInv'
  BY NextTypes, NextNumbers, NextGiven, NextSent DEF IInv
<1> QED BY <1>1, <1>2, PTL DEF Spec

(* Whatever the script prints, the tests it runs and those it leaves out    *)
(* are numbered from 1 on, each number once, up to the end of its plan.     *)
THEOREM SpecNumberedInOrder == Spec => []NumberedInOrder
<1>1. IInv => NumberedInOrder BY NumbersOfCalls DEF IInv
<1> QED BY <1>1, Invariance, PTL

(* As long as the numbers the script writes go up, each of its tests has    *)
(* the number that was written, however many tests were left out before it. *)
THEOREM SpecNumbersAsGiven == Spec => []NumbersAsGiven
<1>1. IInv => NumbersAsGiven BY GivenOfCalls DEF IInv
<1> QED BY <1>1, Invariance, PTL

(* Holding a test until the next begins loses, repeats and mixes up nothing:*)
(* each is sent once, in its turn, with its result and its own comments.    *)
THEOREM SpecSentWithItsComments == Spec => []SentWithItsComments
<1>1. IInv => SentWithItsComments BY SentOfCalls DEF IInv
<1> QED BY <1>1, Invariance, PTL
=============================================================================
