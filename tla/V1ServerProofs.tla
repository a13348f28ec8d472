--------------------------- MODULE V1ServerProofs ---------------------------
(***************************************************************************)
(* The v1 parser drives its client as a test run, whatever the lines: the  *)
(* theorems for every set of streams. The first induction is on            *)
(* NoneLeftOpen, with the types of what its conjuncts are about; the       *)
(* second follows the lines that the results are made of.                  *)
(***************************************************************************)
EXTENDS V1Server, SequenceTheorems, TLAPS

Label == Seq(STRING)
(* A line, or one a details parser has made of a line.                      *)
Kept == [word : STRING \cup {None, "]"}, rest : Label, newline : BOOLEAN]
Contents == UNION {[D -> Seq(Kept)] : D \in SUBSET Kept}
How == {"plain", "simple", "content", "lost"}
Result == [test : Label, outcome : Outcomes, how : How, details : Seq(Kept) \cup Contents,
           began : Nat, opened : Nat, ended : Nat]

(* The types of the history variables, beside those of TypeOK.              *)
HistoryOK ==
    /\ message \in Seq(Kept) /\ name \in Kept /\ contents \in Contents
    /\ began \in Nat /\ opened \in Nat
    /\ started \in Seq(Label) /\ stopped \in Seq(Label) /\ results \in Seq(Result)

Inv == TypeOK /\ HistoryOK /\ NoneLeftOpen

(* What a directive names is a piece of its line.                           *)
LEMMA NameType == ASSUME NEW line \in Lines PROVE Name(line) \in Label
<1> DEFINE rest == line.rest
<1>1. rest \in Seq(STRING) BY DEF Lines
<1>2. \A i \in 1 .. Len(rest) - 1 : rest[i] \in STRING BY <1>1
<1>3. SubSeq(rest, 1, Len(rest) - 1) \in Seq(STRING)
  <2>1. Len(rest) - 1 \in Int /\ 1 \in Int BY <1>1
  <2> HIDE DEF rest
  <2> QED BY <1>2, <2>1, SubSeqProperties
<1> QED BY <1>1, <1>3 DEF Name, Label

(* The next line of a stream is a line.                                     *)
LEMMA InputType == ASSUME TypeOK, Number <= Len(input) PROVE input[Number] \subseteq Lines
<1>1. input \in Seq(SUBSET Lines) BY InputsAssumption DEF TypeOK
<1>2. Number \in 1..Len(input) BY <1>1 DEF Number, TypeOK
<1> QED BY <1>1, <1>2

(* A line keeps the types of the stream and of where it is written.         *)
LEMMA ReceiveType ==
  ASSUME TypeOK, NEW line \in Lines, Receive(line)
  PROVE  /\ input' \in Inputs /\ received' \in Seq(Lines) /\ Number \in Nat
         /\ Len(received') = Number
         /\ Pass \/ Forward \/ UNCHANGED streamVars =>
              passed' \in Seq(Nat) /\ forwarded' \in Seq(Nat)
<1>1. Number \in Nat /\ Number = Len(received) + 1 BY DEF Number, TypeOK
<1>2. input' \in Inputs BY DEF Receive, TypeOK
<1>3. received' \in Seq(Lines) /\ Len(received') = Number
  BY <1>1, AppendProperties DEF Receive, TypeOK
<1>4. passed \in Seq(Nat) /\ forwarded \in Seq(Nat) BY DEF TypeOK
<1>5. Append(passed, Number) \in Seq(Nat) /\ Append(forwarded, Number) \in Seq(Nat)
  BY <1>1, <1>4, AppendProperties
<1> QED BY <1>1, <1>2, <1>3, <1>4, <1>5 DEF Pass, Forward, streamVars

(* What the details parsers keep of a line is a line.                       *)
LEMMA KeptType ==
  ASSUME NEW line \in Lines
  PROVE  line \in Kept /\ Unquoted(line) \in Kept /\ Line(line.word, Name(line)) \in Kept
<1>1. line \in Kept BY DEF Lines, Kept, Label
<1>2. [line EXCEPT !.word = "]"] \in Kept BY <1>1 DEF Kept
<1>3. Unquoted(line) \in Kept BY <1>1, <1>2, Zenon DEF Unquoted
<1>4. Line(line.word, Name(line)) \in Kept
  <2>1. line.word \in STRING /\ Name(line) \in Label BY NameType DEF Lines
  <2> QED BY <2>1 DEF Line, Kept
<1> QED BY <1>1, <1>3, <1>4

(* A content more, or a content replaced.                                   *)
LEMMA ContentsType ==
  ASSUME NEW c \in Contents, NEW n \in Kept, NEW m \in Seq(Kept)
  PROVE  [k \in DOMAIN c \cup {n} |-> IF k = n THEN m ELSE c[k]] \in Contents
<1>1. PICK D \in SUBSET Kept : c \in [D -> Seq(Kept)] BY DEF Contents
<1>2. DOMAIN c = D BY <1>1
<1>3. [k \in D \cup {n} |-> IF k = n THEN m ELSE c[k]] \in [D \cup {n} -> Seq(Kept)]
  BY <1>1
<1>4. D \cup {n} \in SUBSET Kept BY <1>1
<1> QED BY <1>2, <1>3, <1>4 DEF Contents

(* An outcome reported is one result more, of the test that is stopped.     *)
LEMMA FinishType ==
  ASSUME HistoryOK, current_test \in Label, Len(received') \in Nat,
         NEW outcome \in Outcomes, NEW how \in How, NEW said \in Seq(Kept) \cup Contents,
         NEW at \in Nat, Finish(outcome, how, said, at)
  PROVE  /\ results' \in Seq(Result) /\ stopped' \in Seq(Label)
         /\ Len(results') = Len(results) + 1 /\ Len(stopped') = Len(stopped) + 1
         /\ stopped' = Append(stopped, current_test)
         /\ started' = started /\ informed' = informed
<1> DEFINE result == [test |-> current_test, outcome |-> outcome, how |-> how, details |-> said,
                      began |-> began, opened |-> at, ended |-> Len(received')]
<1>1. result \in Result BY DEF HistoryOK, Result
<1>2. results' = Append(results, result) /\ stopped' = Append(stopped, current_test)
      /\ started' = started /\ informed' = informed
  BY DEF Finish
<1>3. results \in Seq(Result) /\ stopped \in Seq(Label) BY DEF HistoryOK
<1> HIDE DEF result
<1> QED BY <1>1, <1>2, <1>3, AppendProperties

(* Nothing is open at first.                                                *)
LEMMA InitInv == Init => Inv
<1> SUFFICES ASSUME Init PROVE Inv OBVIOUS
<1>1. TypeOK BY EmptySeq DEF Init, TypeOK, None
<1>2. HistoryOK
  <2>1. contents \in [{} -> Seq(Kept)] BY DEF Init, Empty
  <2>2. contents \in Contents BY <2>1 DEF Contents
  <2>3. <<>> \in Label /\ <<>> \in Seq(Kept) /\ <<>> \in Seq(Label) /\ <<>> \in Seq(Result)
    BY EmptySeq DEF Label
  <2>4. Line(None, <<>>) \in Kept BY <2>3 DEF Line, Kept
  <2>5. name \in Kept BY <2>4 DEF Init
  <2> QED BY <2>2, <2>3, <2>5 DEF Init, HistoryOK
<1>3. NoneLeftOpen BY EmptySeq DEF Init, NoneLeftOpen
<1> QED BY <1>1, <1>2, <1>3 DEF Inv

(* No step opens a test in another, or leaves one open.                     *)
LEMMA NextInv == Inv /\ [Next]_vars => Inv'
<1> SUFFICES ASSUME Inv, [Next]_vars PROVE Inv' OBVIOUS
<1> USE DEF vars, inputVars, testVars, parserVars, clientVars, streamVars
<1> DEFINE Finished ==
      /\ results' \in Seq(Result) /\ stopped' \in Seq(Label)
      /\ Len(results') = Len(results) + 1 /\ Len(stopped') = Len(stopped) + 1
      /\ stopped' = Append(stopped, current_test)
      /\ started' = started /\ informed' = informed
<1>1. ASSUME NEW line \in Lines, StartTest(line) PROVE Inv'
  <2>0. /\ Receive(line) /\ Name(line) \in Label
        /\ input' \in Inputs /\ received' \in Seq(Lines) /\ Number \in Nat
        /\ Len(received') = Number
        /\ passed' \in Seq(Nat) /\ forwarded' \in Seq(Nat)
    <3>1. Receive(line) BY <1>1 DEF StartTest
    <3>2. Pass \/ Forward \/ UNCHANGED streamVars BY <1>1 DEF StartTest
    <3> QED BY <3>1, <3>2, NameType, ReceiveType DEF Inv
  <2>1. started' \in Seq(Label) BY <1>1, <2>0, AppendProperties DEF StartTest, Inv, HistoryOK
  <2>7. TypeOK' BY <1>1, <2>0, <2>1 DEF StartTest, Inv, TypeOK, Label, None
  <2>8. HistoryOK' BY <1>1, <2>0, <2>1 DEF StartTest, Inv, HistoryOK
  <2>9. NoneLeftOpen' BY <1>1, <2>0, <2>1 DEF StartTest, Inv, NoneLeftOpen, HistoryOK, Receive
  <2> QED BY <2>7, <2>8, <2>9 DEF Inv
<1>2. ASSUME NEW line \in Lines, AddOutcome(line) PROVE Inv'
  <2>0. /\ Receive(line) /\ Name(line) \in Label
        /\ input' \in Inputs /\ received' \in Seq(Lines) /\ Number \in Nat
        /\ Len(received') = Number
        /\ passed' \in Seq(Nat) /\ forwarded' \in Seq(Nat)
    <3>1. Receive(line) BY <1>2 DEF AddOutcome
    <3>2. Pass \/ Forward \/ UNCHANGED streamVars BY <1>2 DEF AddOutcome
    <3> QED BY <3>1, <3>2, NameType, ReceiveType DEF Inv
  <2>1. Finish(Directive(line), "plain", <<>>, Number) /\ Directive(line) \in Outcomes
    BY <1>2 DEF AddOutcome, Names
  <2>2. <<>> \in Seq(Kept) /\ <<>> \in Seq(STRING) BY EmptySeq
  <2>3. /\ HistoryOK /\ current_test \in Label /\ Len(received') \in Nat
        /\ "plain" \in How /\ <<>> \in Seq(Kept) \cup Contents
    BY <2>0, <2>2 DEF Inv, TypeOK, Label, How
  <2>4. Finished BY <2>0, <2>1, <2>3, FinishType
  <2>7. TypeOK' BY <1>2, <2>0, <2>1, <2>2, <2>4 DEF AddOutcome, Inv, TypeOK, Label, None
  <2>8. HistoryOK' BY <1>2, <2>0, <2>1, <2>2, <2>4 DEF AddOutcome, Inv, HistoryOK
  <2>9. NoneLeftOpen' BY <1>2, <2>0, <2>1, <2>2, <2>4 DEF AddOutcome, Inv, NoneLeftOpen, HistoryOK, Receive
  <2> QED BY <2>7, <2>8, <2>9 DEF Inv
<1>3. ASSUME NEW line \in Lines, OpenDetails(line) PROVE Inv'
  <2>0. /\ Receive(line) /\ Name(line) \in Label
        /\ input' \in Inputs /\ received' \in Seq(Lines) /\ Number \in Nat
        /\ Len(received') = Number
        /\ passed' \in Seq(Nat) /\ forwarded' \in Seq(Nat)
    <3>1. Receive(line) BY <1>3 DEF OpenDetails
    <3>2. Pass \/ Forward \/ UNCHANGED streamVars BY <1>3 DEF OpenDetails
    <3> QED BY <3>1, <3>2, NameType, ReceiveType DEF Inv
  <2>1. Directive(line) \in Outcomes /\ Directive(line) # None
    BY <1>3 DEF OpenDetails, Names, Outcomes, None
  <2>2. <<>> \in Seq(Kept) BY EmptySeq
  <2>3. Empty \in Contents
    <3>1. Empty \in [{} -> Seq(Kept)] BY DEF Empty
    <3> QED BY <3>1 DEF Contents
  <2>7. TypeOK' BY <1>3, <2>0, <2>1, <2>2, <2>3 DEF OpenDetails, Inv, TypeOK, Label, None
  <2>8. HistoryOK' BY <1>3, <2>0, <2>1, <2>2, <2>3 DEF OpenDetails, Inv, HistoryOK
  <2>9. NoneLeftOpen' BY <1>3, <2>0, <2>1, <2>2, <2>3 DEF OpenDetails, Inv, NoneLeftOpen, HistoryOK, Receive
  <2> QED BY <2>7, <2>8, <2>9 DEF Inv
<1>4. ASSUME NEW line \in Lines, PassOn(line) PROVE Inv'
  <2>0. /\ Receive(line) /\ Name(line) \in Label
        /\ input' \in Inputs /\ received' \in Seq(Lines) /\ Number \in Nat
        /\ Len(received') = Number
        /\ passed' \in Seq(Nat) /\ forwarded' \in Seq(Nat)
    <3>1. Receive(line) BY <1>4 DEF PassOn
    <3>2. Pass \/ Forward \/ UNCHANGED streamVars BY <1>4 DEF PassOn
    <3> QED BY <3>1, <3>2, NameType, ReceiveType DEF Inv
  <2>7. TypeOK' BY <1>4, <2>0 DEF PassOn, Inv, TypeOK, Label, None
  <2>8. HistoryOK' BY <1>4, <2>0 DEF PassOn, Inv, HistoryOK
  <2>9. NoneLeftOpen' BY <1>4, <2>0 DEF PassOn, Inv, NoneLeftOpen, HistoryOK, Receive
  <2> QED BY <2>7, <2>8, <2>9 DEF Inv
<1>5. ASSUME NEW line \in Lines, Inform(line) PROVE Inv'
  <2>0. /\ Receive(line) /\ Name(line) \in Label
        /\ input' \in Inputs /\ received' \in Seq(Lines) /\ Number \in Nat
        /\ Len(received') = Number
        /\ passed' \in Seq(Nat) /\ forwarded' \in Seq(Nat)
    <3>1. Receive(line) BY <1>5 DEF Inform
    <3>2. Pass \/ Forward \/ UNCHANGED streamVars BY <1>5 DEF Inform
    <3> QED BY <3>1, <3>2, NameType, ReceiveType DEF Inv
  <2>1. informed' \in Seq(Nat) BY <1>5, <2>0, AppendProperties DEF Inform, Inv, TypeOK
  <2>7. TypeOK' BY <1>5, <2>0, <2>1 DEF Inform, Inv, TypeOK, Label, None
  <2>8. HistoryOK' BY <1>5, <2>0, <2>1 DEF Inform, Inv, HistoryOK
  <2>9. NoneLeftOpen' BY <1>5, <2>0, <2>1 DEF Inform, Inv, NoneLeftOpen, HistoryOK, Receive
  <2> QED BY <2>7, <2>8, <2>9 DEF Inv
<1>6. ASSUME NEW line \in Lines, Raise(line) PROVE Inv'
  <2>0. /\ Receive(line) /\ Name(line) \in Label
        /\ input' \in Inputs /\ received' \in Seq(Lines) /\ Number \in Nat
        /\ Len(received') = Number
        /\ passed' \in Seq(Nat) /\ forwarded' \in Seq(Nat)
    <3>1. Receive(line) BY <1>6 DEF Raise
    <3>2. Pass \/ Forward \/ UNCHANGED streamVars BY <1>6 DEF Raise
    <3> QED BY <3>1, <3>2, NameType, ReceiveType DEF Inv
  <2>7. TypeOK' BY <1>6, <2>0 DEF Raise, Inv, TypeOK, Label, None
  <2>8. HistoryOK' BY <1>6, <2>0 DEF Raise, Inv, HistoryOK
  <2>9. NoneLeftOpen' BY <1>6, <2>0 DEF Raise, Inv, NoneLeftOpen, HistoryOK, Receive
  <2> QED BY <2>7, <2>8, <2>9 DEF Inv
<1>7. ASSUME NEW line \in Lines, ReadSimple(line) PROVE Inv'
  <2>0. /\ Receive(line) /\ Name(line) \in Label
        /\ input' \in Inputs /\ received' \in Seq(Lines) /\ Number \in Nat
        /\ Len(received') = Number
        /\ passed' \in Seq(Nat) /\ forwarded' \in Seq(Nat)
    <3>1. Receive(line) BY <1>7 DEF ReadSimple
    <3>2. Pass \/ Forward \/ UNCHANGED streamVars BY <1>7 DEF ReadSimple
    <3> QED BY <3>1, <3>2, NameType, ReceiveType DEF Inv
  <2>1. message' \in Seq(Kept) BY <1>7, KeptType, AppendProperties DEF ReadSimple, Inv, HistoryOK
  <2>7. TypeOK' BY <1>7, <2>0, <2>1 DEF ReadSimple, Inv, TypeOK, Label, None
  <2>8. HistoryOK' BY <1>7, <2>0, <2>1 DEF ReadSimple, Inv, HistoryOK
  <2>9. NoneLeftOpen' BY <1>7, <2>0, <2>1 DEF ReadSimple, Inv, NoneLeftOpen, HistoryOK, Receive
  <2> QED BY <2>7, <2>8, <2>9 DEF Inv
<1>8. ASSUME NEW line \in Lines, ReadContentType(line) PROVE Inv'
  <2>0. /\ Receive(line) /\ Name(line) \in Label
        /\ input' \in Inputs /\ received' \in Seq(Lines) /\ Number \in Nat
        /\ Len(received') = Number
        /\ passed' \in Seq(Nat) /\ forwarded' \in Seq(Nat)
    <3>1. Receive(line) BY <1>8 DEF ReadContentType
    <3>2. Pass \/ Forward \/ UNCHANGED streamVars BY <1>8 DEF ReadContentType
    <3> QED BY <3>1, <3>2, NameType, ReceiveType DEF Inv
  <2>7. TypeOK' BY <1>8, <2>0 DEF ReadContentType, Inv, TypeOK, Label, None
  <2>8. HistoryOK' BY <1>8, <2>0 DEF ReadContentType, Inv, HistoryOK
  <2>9. NoneLeftOpen' BY <1>8, <2>0 DEF ReadContentType, Inv, NoneLeftOpen, HistoryOK, Receive
  <2> QED BY <2>7, <2>8, <2>9 DEF Inv
<1>9. ASSUME NEW line \in Lines, ReadName(line) PROVE Inv'
  <2>0. /\ Receive(line) /\ Name(line) \in Label
        /\ input' \in Inputs /\ received' \in Seq(Lines) /\ Number \in Nat
        /\ Len(received') = Number
        /\ passed' \in Seq(Nat) /\ forwarded' \in Seq(Nat)
    <3>1. Receive(line) BY <1>9 DEF ReadName
    <3>2. Pass \/ Forward \/ UNCHANGED streamVars BY <1>9 DEF ReadName
    <3> QED BY <3>1, <3>2, NameType, ReceiveType DEF Inv
  <2>1. name' \in Kept BY <1>9, KeptType DEF ReadName
  <2>2. message' \in Seq(Kept) BY <1>9, EmptySeq DEF ReadName
  <2>7. TypeOK' BY <1>9, <2>0, <2>1, <2>2 DEF ReadName, Inv, TypeOK, Label, None
  <2>8. HistoryOK' BY <1>9, <2>0, <2>1, <2>2 DEF ReadName, Inv, HistoryOK
  <2>9. NoneLeftOpen' BY <1>9, <2>0, <2>1, <2>2 DEF ReadName, Inv, NoneLeftOpen, HistoryOK, Receive
  <2> QED BY <2>7, <2>8, <2>9 DEF Inv
<1>10. ASSUME NEW line \in Lines, ReadChunk(line) PROVE Inv'
  <2>0. /\ Receive(line) /\ Name(line) \in Label
        /\ input' \in Inputs /\ received' \in Seq(Lines) /\ Number \in Nat
        /\ Len(received') = Number
        /\ passed' \in Seq(Nat) /\ forwarded' \in Seq(Nat)
    <3>1. Receive(line) BY <1>10 DEF ReadChunk
    <3>2. Pass \/ Forward \/ UNCHANGED streamVars BY <1>10 DEF ReadChunk
    <3> QED BY <3>1, <3>2, NameType, ReceiveType DEF Inv
  <2>1. message' \in Seq(Kept) BY <1>10, KeptType, AppendProperties DEF ReadChunk, Inv, HistoryOK
  <2>2. contents' \in Contents
    <3> DEFINE more == [n \in DOMAIN contents \cup {name} |-> IF n = name THEN message' ELSE contents[n]]
    <3>1. contents' = contents \/ contents' = more BY <1>10 DEF ReadChunk
    <3>2. contents \in Contents /\ name \in Kept BY DEF Inv, HistoryOK
    <3>3. more \in Contents BY <2>1, <3>2, ContentsType
    <3> QED BY <3>1, <3>2, <3>3
  <2>7. TypeOK' BY <1>10, <2>0, <2>1, <2>2 DEF ReadChunk, Inv, TypeOK, Label, None
  <2>8. HistoryOK' BY <1>10, <2>0, <2>1, <2>2 DEF ReadChunk, Inv, HistoryOK
  <2>9. NoneLeftOpen' BY <1>10, <2>0, <2>1, <2>2 DEF ReadChunk, Inv, NoneLeftOpen, HistoryOK, Receive
  <2> QED BY <2>7, <2>8, <2>9 DEF Inv
<1>11. ASSUME NEW line \in Lines, EndDetails(line) PROVE Inv'
  <2>0. /\ Receive(line) /\ Name(line) \in Label
        /\ input' \in Inputs /\ received' \in Seq(Lines) /\ Number \in Nat
        /\ Len(received') = Number
        /\ passed' \in Seq(Nat) /\ forwarded' \in Seq(Nat)
    <3>1. Receive(line) BY <1>11 DEF EndDetails
    <3>2. Pass \/ Forward \/ UNCHANGED streamVars BY <1>11 DEF EndDetails
    <3> QED BY <3>1, <3>2, NameType, ReceiveType DEF Inv
  <2> DEFINE said == IF stage = "simple" THEN message ELSE contents
  <2>1. Finish(reading, stage, said, opened) BY <1>11 DEF EndDetails
  <2>2. /\ reading \in Outcomes /\ stage \in How /\ opened \in Nat
        /\ said \in Seq(Kept) \cup Contents
    <3>1. reading \in Outcomes BY <1>11 DEF EndDetails, Inv, TypeOK
    <3>2. stage \in How BY <1>11 DEF EndDetails, How
    <3>3. said \in Seq(Kept) \cup Contents /\ opened \in Nat BY DEF Inv, HistoryOK
    <3> QED BY <3>1, <3>2, <3>3
  <2>3. <<>> \in Seq(STRING) BY EmptySeq
  <2> HIDE DEF said
  <2>4. Finished BY <2>0, <2>1, <2>2, FinishType DEF Inv, TypeOK, Label
  <2>7. TypeOK' BY <1>11, <2>0, <2>2, <2>3, <2>4 DEF EndDetails, Inv, TypeOK, Label, None
  <2>8. HistoryOK' BY <1>11, <2>0, <2>2, <2>3, <2>4 DEF EndDetails, Inv, HistoryOK
  <2>9. NoneLeftOpen' BY <1>11, <2>0, <2>2, <2>3, <2>4 DEF EndDetails, Inv, NoneLeftOpen, HistoryOK, Receive
  <2> QED BY <2>7, <2>8, <2>9 DEF Inv
<1>12. ASSUME NEW line \in Lines, RaiseInDetails(line) PROVE Inv'
  <2>0. /\ Receive(line) /\ Name(line) \in Label
        /\ input' \in Inputs /\ received' \in Seq(Lines) /\ Number \in Nat
        /\ Len(received') = Number
        /\ passed' \in Seq(Nat) /\ forwarded' \in Seq(Nat)
    <3>1. Receive(line) BY <1>12 DEF RaiseInDetails
    <3>2. Pass \/ Forward \/ UNCHANGED streamVars BY <1>12 DEF RaiseInDetails
    <3> QED BY <3>1, <3>2, NameType, ReceiveType DEF Inv
  <2>7. TypeOK' BY <1>12, <2>0 DEF RaiseInDetails, Inv, TypeOK, Label, None
  <2>8. HistoryOK' BY <1>12, <2>0 DEF RaiseInDetails, Inv, HistoryOK
  <2>9. NoneLeftOpen' BY <1>12, <2>0 DEF RaiseInDetails, Inv, NoneLeftOpen, HistoryOK, Receive
  <2> QED BY <2>7, <2>8, <2>9 DEF Inv
<1>13. CASE LostConnection
  <2>1. CASE state # "outside"
    <3>1. Finish("error", "lost", <<>>, opened) BY <1>13, <2>1 DEF LostConnection
    <3>2. <<>> \in Seq(Kept) /\ opened \in Nat BY EmptySeq DEF Inv, HistoryOK
    <3>3. Len(received') \in Nat BY <1>13 DEF LostConnection, Inv, TypeOK
    <3>0. /\ HistoryOK /\ current_test \in Label /\ <<>> \in Seq(Kept) \cup Contents
          /\ "lost" \in How /\ "error" \in Outcomes
      BY <3>2 DEF Inv, TypeOK, Label, Outcomes, How
    <3>4. Finished BY <3>0, <3>1, <3>2, <3>3, FinishType
    <3>5. TypeOK' BY <1>13, <3>4 DEF LostConnection, Inv, TypeOK
    <3>6. HistoryOK' BY <1>13, <3>4 DEF LostConnection, Inv, HistoryOK
    <3>7. NoneLeftOpen' BY <1>13, <2>1, <3>4 DEF LostConnection, Inv, NoneLeftOpen
    <3> QED BY <3>5, <3>6, <3>7 DEF Inv
  <2>2. CASE state = "outside"
    BY <1>13, <2>2 DEF LostConnection, Inv, TypeOK, HistoryOK, NoneLeftOpen
  <2> QED BY <2>1, <2>2
<1>14. CASE UNCHANGED vars
  BY <1>14 DEF Inv, TypeOK, HistoryOK, NoneLeftOpen
<1>15. ASSUME Number <= Len(input), NEW line \in input[Number], lineReceived(line) PROVE Inv'
  <2>1. line \in Lines BY <1>15, InputType DEF Inv
  <2> QED BY <1>15, <2>1, <1>1, <1>2, <1>3, <1>4, <1>5, <1>6, <1>7, <1>8, <1>9, <1>10, <1>11, <1>12 DEF lineReceived
<1> QED BY <1>13, <1>14, <1>15 DEF Next

(* Every state has Inv.                                                     *)
LEMMA Invariance == Spec => []Inv
<1>1. Init => Inv BY InitInv
<1>2. Inv /\ [Next]_vars => Inv' BY NextInv
<1> QED BY <1>1, <1>2, PTL DEF Spec

(* The state of the parser is of the types TypeOK gives it: it never reads  *)
(* details without an outcome to report them with.                          *)
THEOREM TypeCorrect == Spec => []TypeOK
<1>1. Inv => TypeOK BY DEF Inv
<1> QED BY <1>1, Invariance, PTL

(* The parser and its client agree on which test is open, and none is open  *)
(* when the stream has ended.                                               *)
THEOREM NoTestLeftOpen == Spec => []NoneLeftOpen
<1>1. Inv => NoneLeftOpen BY DEF Inv
<1> QED BY <1>1, Invariance, PTL

-----------------------------------------------------------------------------
(* The client's test run.                                                   *)

Pairs == Label \X Outcomes
PairsOf(r) == [i \in DOMAIN r |-> <<r[i].test, r[i].outcome>>]

(* One result more is one pair more.                                        *)
LEMMA PairsAppend ==
  ASSUME NEW r \in Seq(Result), NEW e \in Result
  PROVE  PairsOf(Append(r, e)) = Append(PairsOf(r), <<e.test, e.outcome>>)
<1> DEFINE s == PairsOf(Append(r, e))
           t == Append(PairsOf(r), <<e.test, e.outcome>>)
<1>1. /\ Append(r, e) \in Seq(Result) /\ Len(Append(r, e)) = Len(r) + 1
      /\ \A i \in 1..Len(r) : Append(r, e)[i] = r[i]
      /\ Append(r, e)[Len(r) + 1] = e
  BY AppendProperties
<1>2. \A x \in Result : <<x.test, x.outcome>> \in Pairs BY DEF Result, Pairs
<1>3. PairsOf(r) \in Seq(Pairs) /\ Len(PairsOf(r)) = Len(r) BY <1>2 DEF PairsOf
<1>4. s \in Seq(Pairs) /\ Len(s) = Len(r) + 1 BY <1>1, <1>2 DEF PairsOf
<1>5. t \in Seq(Pairs) /\ Len(t) = Len(r) + 1 BY <1>2, <1>3, AppendProperties
<1>6. ASSUME NEW i \in 1..Len(r) + 1 PROVE s[i] = t[i]
  <2>1. CASE i = Len(r) + 1
    <3>1. s[i] = <<e.test, e.outcome>> BY <1>1, <2>1 DEF PairsOf
    <3>2. <<e.test, e.outcome>> \in Pairs BY <1>2
    <3>3. t[Len(PairsOf(r)) + 1] = <<e.test, e.outcome>> BY <1>3, <3>2, AppendProperties
    <3> QED BY <1>3, <2>1, <3>1, <3>3
  <2>2. CASE i \in 1..Len(r)
    <3>1. s[i] = <<r[i].test, r[i].outcome>> BY <1>1, <2>2 DEF PairsOf
    <3>2. t[i] = PairsOf(r)[i] BY <1>2, <1>3, <2>2, AppendProperties
    <3> QED BY <2>2, <3>1, <3>2 DEF PairsOf
  <2>3. i = Len(r) + 1 \/ i \in 1..Len(r) OBVIOUS
  <2> QED BY <2>1, <2>2, <2>3
<1> HIDE DEF s, t
<1>7. s = t BY <1>4, <1>5, <1>6, SeqEqual
<1> QED BY <1>7 DEF s, t

(* What the parser finishes, the abstract run finishes.                     *)
LEMMA FinishMaps ==
  ASSUME Inv, pc = "reading", state # "outside",
         NEW outcome \in Outcomes, NEW how \in How, NEW said \in Seq(Kept) \cup Contents,
         NEW at \in Nat, Len(received') \in Nat, Finish(outcome, how, said, at)
  PROVE  TestRun!Next
<1> DEFINE result == [test |-> current_test, outcome |-> outcome, how |-> how, details |-> said,
                      began |-> began, opened |-> at, ended |-> Len(received')]
<1>1. current_test \in Label /\ HistoryOK BY DEF Inv, TypeOK, Label
<1>2. result \in Result BY <1>1 DEF HistoryOK, Result
<1>3. results' = Append(results, result) BY DEF Finish
<1>4. started = Append(stopped, current_test) BY DEF Inv, NoneLeftOpen
<1>5. result.test = current_test /\ result.outcome = outcome OBVIOUS
<1> HIDE DEF result
<1>6. PairsOf(results') = Append(PairsOf(results), <<current_test, outcome>>)
  BY <1>1, <1>2, <1>3, <1>5, PairsAppend DEF HistoryOK
<1>7. Reported' = Append(Reported, <<current_test, outcome>>) BY <1>6 DEF Reported, PairsOf
<1>8. started # stopped /\ started[Len(started)] = current_test
  BY <1>1, <1>4, AppendProperties DEF HistoryOK
<1>9. TestRun!Finish(outcome) BY <1>4, <1>7, <1>8 DEF Finish, TestRun!Finish
<1> QED BY <1>9 DEF TestRun!Next

(* A test line starts the abstract test.                                    *)
LEMMA StartMaps ==
  ASSUME Inv, Number <= Len(input), NEW line \in input[Number], StartTest(line)
  PROVE  TestRun!Next
<1>1. Name(line) \in Labels
  <2>1. input \in Inputs /\ Number \in Nat \ {0} BY DEF Inv, TypeOK, Number
  <2>2. input \in Seq(SUBSET Lines) BY <2>1, InputsAssumption
  <2>3. Number \in DOMAIN input BY <2>1, <2>2
  <2>4. input[Number] \in {input[n] : n \in DOMAIN input} BY <2>3
  <2>5. line \in UNION UNION {{i[n] : n \in DOMAIN i} : i \in Inputs} BY <2>1, <2>4
  <2> QED BY <2>5 DEF Labels
<1>2. started = stopped BY DEF StartTest, Receive, Inv, NoneLeftOpen
<1>3. Reported' = Reported /\ stopped' = stopped /\ started' = Append(started, Name(line))
  BY DEF StartTest, Reported
<1>4. TestRun!StartTest(Name(line)) BY <1>2, <1>3 DEF TestRun!StartTest
<1> QED BY <1>1, <1>4 DEF TestRun!Next

(* Every step of the parser is one of the test run or leaves it alone.      *)
LEMMA NextMaps == Inv /\ [Next]_vars => [TestRun!Next]_TestRun!vars
<1> SUFFICES ASSUME Inv, [Next]_vars PROVE [TestRun!Next]_TestRun!vars OBVIOUS
<1>0. UNCHANGED clientVars => UNCHANGED TestRun!vars
  BY DEF clientVars, TestRun!vars, Reported
<1>1. ASSUME Number <= Len(input), NEW line \in input[Number], lineReceived(line)
      PROVE  [TestRun!Next]_TestRun!vars
  <2>0. line \in Lines /\ Len(received') \in Nat
    <3>1. line \in Lines BY <1>1, InputType DEF Inv
    <3>2. Receive(line)
      BY <1>1 DEF lineReceived, StartTest, AddOutcome, OpenDetails, PassOn, Inform, Raise,
         ReadSimple, ReadContentType, ReadName, ReadChunk, EndDetails, RaiseInDetails
    <3>3. TypeOK BY DEF Inv
    <3> QED BY <3>1, <3>2, <3>3, ReceiveType
  <2>1. CASE StartTest(line) BY <1>1, <2>1, StartMaps
  <2>2. CASE AddOutcome(line)
    <3>1. /\ Finish(Directive(line), "plain", <<>>, Number) /\ Directive(line) \in Outcomes
          /\ pc = "reading" /\ state # "outside"
      BY <2>2 DEF AddOutcome, Names, Receive
    <3>2. <<>> \in Seq(Kept) \cup Contents /\ "plain" \in How /\ Number \in Nat
      BY EmptySeq DEF How, Number, Inv, TypeOK
    <3> QED BY <2>0, <3>1, <3>2, FinishMaps
  <2>3. CASE EndDetails(line)
    <3> DEFINE said == IF stage = "simple" THEN message ELSE contents
    <3>1. /\ Finish(reading, stage, said, opened) /\ reading \in Outcomes /\ stage \in How
          /\ pc = "reading" /\ state # "outside"
      BY <2>3 DEF EndDetails, Receive, Inv, TypeOK, How
    <3>2. said \in Seq(Kept) \cup Contents /\ opened \in Nat BY DEF Inv, HistoryOK
    <3> HIDE DEF said
    <3> QED BY <2>0, <3>1, <3>2, FinishMaps
  <2>4. CASE Inform(line)
    BY <2>4 DEF Inform, TestRun!vars, Reported
  <2>5. CASE \/ OpenDetails(line) \/ PassOn(line) \/ Raise(line) \/ ReadSimple(line)
             \/ ReadContentType(line) \/ ReadName(line) \/ ReadChunk(line) \/ RaiseInDetails(line)
    BY <1>0, <2>5 DEF OpenDetails, PassOn, Raise, ReadSimple, ReadContentType, ReadName,
       ReadChunk, RaiseInDetails, clientVars
  <2> QED BY <1>1, <2>1, <2>2, <2>3, <2>4, <2>5 DEF lineReceived
<1>2. CASE LostConnection
  <2>1. CASE state # "outside"
    <3>1. Finish("error", "lost", <<>>, opened) /\ pc = "reading" /\ Len(received') \in Nat
      BY <1>2, <2>1 DEF LostConnection, inputVars, Inv, TypeOK
    <3>2. /\ <<>> \in Seq(Kept) \cup Contents /\ "lost" \in How /\ "error" \in Outcomes
          /\ opened \in Nat
      BY EmptySeq DEF How, Outcomes, Inv, HistoryOK
    <3> QED BY <2>1, <3>1, <3>2, FinishMaps
  <2>2. CASE state = "outside" BY <1>0, <1>2, <2>2 DEF LostConnection
  <2> QED BY <2>1, <2>2
<1>3. CASE UNCHANGED vars BY <1>0, <1>3 DEF vars
<1> QED BY <1>1, <1>2, <1>3 DEF Next

(* Whatever the lines, the client sees a test run: the parser implements    *)
(* V1TestRun.                                                               *)
THEOREM RunsTests == Spec => IsTestRun
<1>1. Init => TestRun!Init
  <2> SUFFICES ASSUME Init PROVE TestRun!Init OBVIOUS
  <2>1. results = <<>> /\ DOMAIN results = {} BY DEF Init
  <2>2. Reported = <<>> BY <2>1 DEF Reported
  <2> QED BY <2>2 DEF Init, TestRun!Init
<1>2. Inv /\ [Next]_vars => [TestRun!Next]_TestRun!vars BY NextMaps
<1> QED BY <1>1, <1>2, Invariance, PTL DEF Spec, TestRun!Spec, IsTestRun

-----------------------------------------------------------------------------
(* The two streams.                                                         *)

(* Parts of RoutedOnce, of any three sequences and any n lines.             *)
Sorted(s, n) == Increasing(s) /\ \A i \in DOMAIN s : s[i] \in 1..n
Placed(p, f, m, lines, n) ==
    \A k \in 1..n :
      /\ ~(At(p, k) /\ At(f, k))
      /\ \/ At(p, k) \/ At(f, k)
         \/ At(m, k) /\ Directive(lines[k]) = "progress"

(* A number larger than all before it goes to the end.                      *)
LEMMA SortedAppend ==
  ASSUME NEW n \in Nat, NEW s \in Seq(Nat), Sorted(s, n)
  PROVE  /\ Sorted(s, n + 1) /\ Sorted(Append(s, n + 1), n + 1)
         /\ \A k : At(Append(s, n + 1), k) <=> At(s, k) \/ k = n + 1
         /\ ~At(s, n + 1)
<1> DEFINE t == Append(s, n + 1)
<1>1. /\ t \in Seq(Nat) /\ Len(t) = Len(s) + 1 /\ \A i \in 1..Len(s) : t[i] = s[i]
      /\ t[Len(s) + 1] = n + 1
  BY AppendProperties
<1>2. DOMAIN s = 1..Len(s) /\ DOMAIN t = 1..Len(s) + 1 /\ Len(s) \in Nat BY <1>1
<1>3. \A i \in DOMAIN s : s[i] \in 1..n BY DEF Sorted
<1> HIDE DEF t
<1>4. Sorted(s, n + 1) BY <1>3 DEF Sorted
<1>5. Sorted(t, n + 1)
  <2>1. \A i \in DOMAIN t : t[i] \in 1..n + 1 BY <1>1, <1>2, <1>3
  <2>2. ASSUME NEW i \in DOMAIN t, NEW j \in DOMAIN t, i < j PROVE t[i] < t[j]
    <3>1. i \in DOMAIN s BY <1>2, <2>2
    <3>2. CASE j \in DOMAIN s BY <1>1, <1>2, <2>2, <3>1, <3>2 DEF Sorted, Increasing
    <3>3. CASE j = Len(s) + 1 BY <1>1, <1>2, <1>3, <2>2, <3>1, <3>3
    <3> QED BY <1>2, <3>2, <3>3
  <2> QED BY <2>1, <2>2 DEF Sorted, Increasing
<1>6. ASSUME NEW k PROVE At(t, k) <=> At(s, k) \/ k = n + 1
  BY <1>1, <1>2 DEF At
<1>7. ~At(s, n + 1) BY <1>3 DEF At
<1> QED BY <1>4, <1>5, <1>6, <1>7 DEF t

(* The parts make up RoutedOnce.                                             *)
LEMMA RoutedParts ==
  RoutedOnce <=> /\ Sorted(passed, Handled) /\ Sorted(forwarded, Handled)
                 /\ Placed(passed, forwarded, informed, received, Handled)
BY DEF RoutedOnce, Sorted, Placed

(* One line more, in one of its three places.                               *)
LEMMA PlacedMore ==
  ASSUME NEW n \in Nat, NEW p \in Seq(Nat), NEW f \in Seq(Nat), NEW m \in Seq(Nat),
         NEW lines \in Seq(Lines), Len(lines) = n, NEW line \in Lines,
         Sorted(p, n), Sorted(f, n), Placed(p, f, m, lines, n)
  PROVE  /\ Placed(Append(p, n + 1), f, m, Append(lines, line), n + 1)
         /\ Placed(p, Append(f, n + 1), m, Append(lines, line), n + 1)
         /\ Placed(p, Append(f, n + 1), Append(m, n + 1), Append(lines, line), n + 1)
         /\ Directive(line) = "progress" =>
              Placed(p, f, Append(m, n + 1), Append(lines, line), n + 1)
<1> DEFINE more == Append(lines, line)
<1>1. /\ \A k \in 1..n : more[k] = lines[k]
      /\ more[n + 1] = line
  BY AppendProperties
<1>2. \A k : At(Append(p, n + 1), k) <=> At(p, k) \/ k = n + 1 BY SortedAppend
<1>3. \A k : At(Append(f, n + 1), k) <=> At(f, k) \/ k = n + 1 BY SortedAppend
<1>4. \A k : At(m, k) \/ k = n + 1 => At(Append(m, n + 1), k)
  <2>1. /\ Append(m, n + 1) \in Seq(Nat) /\ Len(Append(m, n + 1)) = Len(m) + 1
        /\ \A i \in 1..Len(m) : Append(m, n + 1)[i] = m[i]
        /\ Append(m, n + 1)[Len(m) + 1] = n + 1
    BY AppendProperties
  <2> DEFINE t == Append(m, n + 1)
  <2>2. DOMAIN m = 1..Len(m) /\ DOMAIN t = 1..Len(m) + 1 /\ Len(m) \in Nat BY <2>1
  <2> HIDE DEF t
  <2>3. /\ \A i \in DOMAIN m : i \in DOMAIN t /\ t[i] = m[i]
        /\ Len(m) + 1 \in DOMAIN t /\ t[Len(m) + 1] = n + 1
    BY <2>1, <2>2 DEF t
  <2>4. \A k : At(m, k) \/ k = n + 1 => At(t, k) BY <2>3 DEF At
  <2> QED BY <2>4 DEF t
<1>5. ~At(p, n + 1) /\ ~At(f, n + 1) BY SortedAppend
<1>6. \A k \in 1..n + 1 : k \in 1..n \/ k = n + 1 OBVIOUS
<1>7. \A k \in 1..n : k # n + 1 OBVIOUS
<1> HIDE DEF more
<1>8. Placed(Append(p, n + 1), f, m, more, n + 1) BY <1>1, <1>2, <1>5, <1>6, <1>7 DEF Placed
<1>9. Placed(p, Append(f, n + 1), m, more, n + 1) BY <1>1, <1>3, <1>5, <1>6, <1>7 DEF Placed
<1>10. Placed(p, Append(f, n + 1), Append(m, n + 1), more, n + 1)
  BY <1>1, <1>3, <1>4, <1>5, <1>6, <1>7 DEF Placed
<1>11. Directive(line) = "progress" => Placed(p, f, Append(m, n + 1), more, n + 1)
  BY <1>1, <1>4, <1>5, <1>6, <1>7 DEF Placed
<1> QED BY <1>8, <1>9, <1>10, <1>11 DEF more

(* Where a handler puts its line.                                           *)
LEMMA LineRouted ==
  ASSUME Inv, RoutedOnce, NEW line \in Lines, lineReceived(line)
  PROVE  RoutedOnce'
<1> DEFINE n == Len(received)
<1>1. /\ n \in Nat /\ Number = n + 1 /\ passed \in Seq(Nat) /\ forwarded \in Seq(Nat)
      /\ informed \in Seq(Nat) /\ received \in Seq(Lines)
  BY DEF Inv, TypeOK, Number
<1>2. Receive(line)
  BY DEF lineReceived, StartTest, AddOutcome, OpenDetails, PassOn, Inform, Raise,
     ReadSimple, ReadContentType, ReadName, ReadChunk, EndDetails, RaiseInDetails
<1>3. Handled = n /\ received' = Append(received, line) /\ Len(received') = n + 1
  BY <1>1, <1>2, AppendProperties DEF Receive, Handled
<1>4. Sorted(passed, n) /\ Sorted(forwarded, n) /\ Placed(passed, forwarded, informed, received, n)
  BY <1>3, RoutedParts
<1>5. \/ Pass /\ pc' = pc /\ informed' = informed
      \/ Forward /\ pc' = pc /\ informed' \in {informed, Append(informed, Number)}
      \/ /\ UNCHANGED streamVars /\ pc' = pc /\ Directive(line) = "progress"
         /\ informed' = Append(informed, Number)
      \/ UNCHANGED <<streamVars, informed>> /\ pc' = "raised"
  <2>1. CASE PassOn(line) BY <2>1 DEF PassOn, clientVars
  <2>2. CASE Inform(line) BY <2>2 DEF Inform
  <2>3. CASE Raise(line) \/ RaiseInDetails(line) BY <2>3 DEF Raise, RaiseInDetails, clientVars
  <2>4. CASE \/ StartTest(line) \/ OpenDetails(line) \/ ReadSimple(line)
             \/ ReadContentType(line) \/ ReadName(line) \/ ReadChunk(line)
    BY <2>4 DEF StartTest, OpenDetails, ReadSimple, ReadContentType, ReadName, ReadChunk,
       clientVars
  <2>5. CASE AddOutcome(line) \/ EndDetails(line)
    BY <2>5 DEF AddOutcome, EndDetails, Finish
  <2> QED BY <2>1, <2>2, <2>3, <2>4, <2>5 DEF lineReceived
<1>6. pc = "reading" BY <1>2 DEF Receive
<1>7. pc' = pc => Handled' = n + 1 BY <1>3, <1>6 DEF Handled
<1>8. pc' = "raised" => Handled' = n BY <1>1, <1>3 DEF Handled
<1> HIDE DEF n
<1>9. /\ Sorted(passed, n + 1) /\ Sorted(forwarded, n + 1)
      /\ Sorted(Append(passed, n + 1), n + 1) /\ Sorted(Append(forwarded, n + 1), n + 1)
  BY <1>1, <1>4, SortedAppend
<1>10. /\ Placed(Append(passed, n + 1), forwarded, informed, received', n + 1)
       /\ Placed(passed, Append(forwarded, n + 1), informed, received', n + 1)
       /\ Placed(passed, Append(forwarded, n + 1), Append(informed, n + 1), received', n + 1)
       /\ Directive(line) = "progress" =>
            Placed(passed, forwarded, Append(informed, n + 1), received', n + 1)
  BY <1>1, <1>3, <1>4, PlacedMore DEF n
<1>11. CASE Pass /\ pc' = pc /\ informed' = informed
  <2>1. passed' = Append(passed, n + 1) /\ forwarded' = forwarded BY <1>1, <1>11 DEF Pass
  <2>2. /\ Sorted(passed', Handled') /\ Sorted(forwarded', Handled')
        /\ Placed(passed', forwarded', informed', received', Handled')
    BY <1>7, <1>9, <1>10, <1>11, <2>1
  <2> QED BY <2>2 DEF RoutedOnce, Sorted, Placed
<1>12. CASE Forward /\ pc' = pc /\ informed' \in {informed, Append(informed, Number)}
  <2>1. forwarded' = Append(forwarded, n + 1) /\ passed' = passed BY <1>1, <1>12 DEF Forward
  <2>2. /\ Sorted(passed', Handled') /\ Sorted(forwarded', Handled')
        /\ Placed(passed', forwarded', informed', received', Handled')
    BY <1>1, <1>7, <1>9, <1>10, <1>12, <2>1
  <2> QED BY <2>2 DEF RoutedOnce, Sorted, Placed
<1>13. CASE /\ UNCHANGED streamVars /\ pc' = pc /\ Directive(line) = "progress"
            /\ informed' = Append(informed, Number)
  <2>1. forwarded' = forwarded /\ passed' = passed BY <1>13 DEF streamVars
  <2>2. /\ Sorted(passed', Handled') /\ Sorted(forwarded', Handled')
        /\ Placed(passed', forwarded', informed', received', Handled')
    BY <1>1, <1>7, <1>9, <1>10, <1>13, <2>1
  <2> QED BY <2>2 DEF RoutedOnce, Sorted, Placed
<1>14. CASE UNCHANGED <<streamVars, informed>> /\ pc' = "raised"
  <2>1. /\ forwarded' = forwarded /\ passed' = passed /\ informed' = informed
    BY <1>14 DEF streamVars
  <2>2. \A k \in 1..n : received'[k] = received[k] BY <1>1, <1>3, AppendProperties DEF n
  <2>3. /\ Sorted(passed', Handled') /\ Sorted(forwarded', Handled')
        /\ Placed(passed', forwarded', informed', received', Handled')
    BY <1>4, <1>8, <1>14, <2>1, <2>2 DEF Placed
  <2> QED BY <2>3 DEF RoutedOnce, Sorted, Placed
<1> QED BY <1>5, <1>11, <1>12, <1>13, <1>14

(* Every line goes to one of the two streams, once and in order, but for    *)
(* progress directives: nothing is lost or doubled between the output of    *)
(* the program and the stream that is passed on.                            *)
THEOREM LinesAreRouted == Spec => []RoutedOnce
<1>1. Init => RoutedOnce
  <2> SUFFICES ASSUME Init PROVE RoutedOnce OBVIOUS
  <2>1. Handled = 0 BY EmptySeq DEF Init, Handled
  <2> QED BY <2>1 DEF Init, RoutedOnce, Increasing
<1>2. RoutedOnce /\ Inv /\ [Next]_vars => RoutedOnce'
  <2> SUFFICES ASSUME RoutedOnce, Inv, [Next]_vars PROVE RoutedOnce' OBVIOUS
  <2>1. ASSUME Number <= Len(input), NEW line \in input[Number], lineReceived(line)
        PROVE  RoutedOnce'
    <3>1. line \in Lines BY <2>1, InputType DEF Inv
    <3> QED BY <2>1, <3>1, LineRouted
  <2>2. CASE LostConnection
    <3>1. UNCHANGED <<received, passed, forwarded, informed>> /\ Handled' = Handled
      BY <2>2 DEF LostConnection, Handled, Finish, inputVars, streamVars, clientVars
    <3> QED BY <3>1 DEF RoutedOnce, Increasing, At
  <2>3. CASE UNCHANGED vars
    <3>1. UNCHANGED <<received, passed, forwarded, informed>> /\ Handled' = Handled
      BY <2>3 DEF vars, Handled, inputVars, streamVars, clientVars
    <3> QED BY <3>1 DEF RoutedOnce, Increasing, At
  <2> QED BY <2>1, <2>2, <2>3 DEF Next
<1> QED BY <1>1, <1>2, Invariance, PTL DEF Spec

-----------------------------------------------------------------------------
(* What is reported is what the stream says, for every set of streams. The *)
(* induction follows the lines of the test and of the details that are     *)
(* being read, and of each result.                                         *)

(* A content that is complete: a line with its name, and its chunks.        *)
IsRead(chunks, n, from, lines) ==
    \E at \in from + 3 .. Len(lines) + 1 - Len(chunks) :
      /\ lines[at - 1].word = n.word
      /\ \A i \in DOMAIN chunks : chunks[i] = lines[at + i - 1]
ContentsRead(c, from, lines) == \A n \in DOMAIN c : IsRead(c[n], n, from, lines)

(* The text, and the chunks of one content, up to the last line.            *)
TextRead(text, from, lines) ==
    /\ Len(text) = Len(lines) - from
    /\ \A i \in DOMAIN text : text[i] = Unquoted(lines[from + i]) /\ lines[from + i] # EndMarker
ChunksRead(chunks, n, from, lines) ==
    LET at == Len(lines) - Len(chunks)
    IN  /\ at >= from + 2 /\ lines[at].word = n.word
        /\ \A i \in DOMAIN chunks : chunks[i] = lines[at + i]

StartsTest(at, test, lines) ==
    at \in 1..Len(lines) /\ Directive(lines[at]) = "test" /\ Name(lines[at]) = test

Opener(how) == IF how = "plain" THEN <<>> ELSE IF how = "simple" THEN Simple ELSE Multipart
OpensDetails(at, outcome, test, how, lines) ==
    Directive(lines[at]) = outcome /\ Name(lines[at]) = test \o Opener(how)

(* A result is of lines that have been received.                            *)
OfStream(r, lines) ==
    /\ StartsTest(r.began, r.test, lines) /\ r.ended <= Len(lines)
    /\ r.how # "lost" =>
         /\ r.began < r.opened /\ r.opened <= r.ended
         /\ OpensDetails(r.opened, r.outcome, r.test, r.how, lines)
         /\ r.how # "plain" => lines[r.ended] = EndMarker
    /\ r.how = "simple" =>
         /\ r.details \in Seq(Kept) /\ Len(r.details) = r.ended - r.opened - 1
         /\ \A i \in DOMAIN r.details : /\ r.details[i] = Unquoted(lines[r.opened + i])
                                        /\ lines[r.opened + i] # EndMarker
    /\ r.how = "content" =>
         /\ r.details \in Contents
         /\ \A n \in DOMAIN r.details : \E at \in r.opened + 3 .. r.ended - Len(r.details[n]) :
              /\ lines[at - 1].word = n.word
              /\ \A i \in DOMAIN r.details[n] : r.details[n][i] = lines[at + i - 1]

ResultsOK ==
    \A i \in DOMAIN results :
      OfStream(results[i], received) /\ \A j \in 1..i - 1 : results[j].ended < results[i].began

TestOpen ==
    pc = "reading" /\ state # "outside" =>
      /\ StartsTest(began, current_test, received) /\ current_test_description = current_test
      /\ \A i \in DOMAIN results : results[i].ended < began

DetailsOpen ==
    pc = "reading" /\ state = "details" =>
      /\ opened \in began + 1 .. Len(received)
      /\ OpensDetails(opened, reading, current_test, stage, received)
      /\ stage = "simple" => TextRead(message, opened, received)
      /\ stage # "simple" => ContentsRead(contents, opened, received)
      /\ stage = "name" => opened < Len(received)
      /\ stage = "chunks" => ChunksRead(message, name, opened, received)

ResultsInv == ResultsOK /\ TestOpen /\ DetailsOpen

-----------------------------------------------------------------------------
(* What has been read stays read when a line more comes.                    *)
LEMMA MoreLines ==
  ASSUME NEW lines \in Seq(Lines), NEW line \in Lines
  PROVE  /\ Append(lines, line) \in Seq(Lines) /\ Len(lines) \in Nat
         /\ Len(Append(lines, line)) = Len(lines) + 1
         /\ \A k \in 1..Len(lines) : Append(lines, line)[k] = lines[k]
         /\ Append(lines, line)[Len(lines) + 1] = line
BY AppendProperties

LEMMA IsReadStays ==
  ASSUME NEW lines \in Seq(Lines), NEW line \in Lines, NEW chunks \in Seq(Kept), NEW n,
         NEW from \in Nat, IsRead(chunks, n, from, lines)
  PROVE  IsRead(chunks, n, from, Append(lines, line))
<1> DEFINE more == Append(lines, line)
<1>1. /\ Len(lines) \in Nat /\ Len(more) = Len(lines) + 1
      /\ \A k \in 1..Len(lines) : more[k] = lines[k]
  BY MoreLines
<1> HIDE DEF more
<1>2. PICK at \in from + 3 .. Len(lines) + 1 - Len(chunks) :
        /\ lines[at - 1].word = n.word
        /\ \A i \in DOMAIN chunks : chunks[i] = lines[at + i - 1]
  BY DEF IsRead
<1>3. Len(chunks) \in Nat /\ DOMAIN chunks = 1..Len(chunks) OBVIOUS
<1>4. at \in from + 3 .. Len(more) + 1 - Len(chunks) /\ at - 1 \in 1..Len(lines)
  BY <1>1, <1>3
<1>5. \A i \in DOMAIN chunks : at + i - 1 \in 1..Len(lines) BY <1>1, <1>3
<1> QED BY <1>1, <1>2, <1>4, <1>5 DEF IsRead, more

LEMMA ContentsType2 ==
  ASSUME NEW c \in Contents, NEW n \in DOMAIN c
  PROVE  c[n] \in Seq(Kept)
BY DEF Contents

LEMMA OfStreamStays ==
  ASSUME NEW lines \in Seq(Lines), NEW line \in Lines, NEW r \in Result, OfStream(r, lines)
  PROVE  OfStream(r, Append(lines, line))
<1> DEFINE more == Append(lines, line)
<1>1. /\ Len(lines) \in Nat /\ Len(more) = Len(lines) + 1
      /\ \A k \in 1..Len(lines) : more[k] = lines[k]
  BY MoreLines
<1> HIDE DEF more
<1>2. r.began \in Nat /\ r.opened \in Nat /\ r.ended \in Nat BY DEF Result
<1>3. StartsTest(r.began, r.test, more) /\ r.ended <= Len(more) /\ r.began \in 1..Len(lines)
  BY <1>1, <1>2 DEF OfStream, StartsTest
<1>4. ASSUME r.how # "lost"
      PROVE  /\ r.began < r.opened /\ r.opened <= r.ended
             /\ OpensDetails(r.opened, r.outcome, r.test, r.how, more)
             /\ r.how # "plain" => more[r.ended] = EndMarker
  <2>1. r.began < r.opened /\ r.opened <= r.ended /\ r.ended <= Len(lines) BY <1>4 DEF OfStream
  <2>2. r.opened \in 1..Len(lines) /\ r.ended \in 1..Len(lines) BY <1>1, <1>2, <1>3, <2>1
  <2> QED BY <1>1, <1>4, <2>1, <2>2 DEF OfStream, OpensDetails
<1>5. ASSUME r.how = "simple"
      PROVE  /\ r.details \in Seq(Kept) /\ Len(r.details) = r.ended - r.opened - 1
             /\ \A i \in DOMAIN r.details : /\ r.details[i] = Unquoted(more[r.opened + i])
                                            /\ more[r.opened + i] # EndMarker
  <2>1. r.details \in Seq(Kept) /\ Len(r.details) = r.ended - r.opened - 1 BY <1>5 DEF OfStream
  <2>2. \A i \in DOMAIN r.details : r.opened + i \in 1..Len(lines)
    BY <1>1, <1>2, <2>1 DEF OfStream
  <2> QED BY <1>1, <1>5, <2>1, <2>2 DEF OfStream
<1>6. ASSUME r.how = "content"
      PROVE  /\ r.details \in Contents
             /\ \A n \in DOMAIN r.details : \E at \in r.opened + 3 .. r.ended - Len(r.details[n]) :
                  /\ more[at - 1].word = n.word
                  /\ \A i \in DOMAIN r.details[n] : r.details[n][i] = more[at + i - 1]
  <2>1. r.details \in Contents /\ r.ended <= Len(lines) BY <1>6 DEF OfStream
  <2>2. ASSUME NEW n \in DOMAIN r.details
        PROVE  \E at \in r.opened + 3 .. r.ended - Len(r.details[n]) :
                 /\ more[at - 1].word = n.word
                 /\ \A i \in DOMAIN r.details[n] : r.details[n][i] = more[at + i - 1]
    <3>1. PICK c : c = r.details[n] OBVIOUS
    <3>2. c \in Seq(Kept) BY <2>1, <3>1, ContentsType2
    <3>3. PICK at \in r.opened + 3 .. r.ended - Len(c) :
            lines[at - 1].word = n.word /\ \A i \in DOMAIN c : c[i] = lines[at + i - 1]
      BY <1>6, <3>1 DEF OfStream
    <3>4. at - 1 \in 1..Len(lines) /\ \A i \in DOMAIN c : at + i - 1 \in 1..Len(lines)
      BY <1>1, <1>2, <2>1, <3>2
    <3> QED BY <1>1, <3>1, <3>3, <3>4
  <2> QED BY <2>1, <2>2
<1> QED BY <1>3, <1>4, <1>5, <1>6 DEF OfStream, more

(* The results there were are still as written, and one more comes after    *)
(* them.                                                                    *)
LEMMA ResultsStay ==
  ASSUME Inv, ResultsOK, NEW line \in Lines, Receive(line)
  PROVE  /\ \A i \in DOMAIN results : /\ OfStream(results[i], received')
                                      /\ results[i].ended <= Len(received)
         /\ results' = results => ResultsOK'
<1>1. received \in Seq(Lines) /\ received' = Append(received, line) /\ results \in Seq(Result)
  BY DEF Inv, TypeOK, HistoryOK, Receive
<1>2. \A i \in DOMAIN results : results[i] \in Result /\ OfStream(results[i], received)
  BY <1>1 DEF ResultsOK
<1>3. \A i \in DOMAIN results : OfStream(results[i], received') BY <1>1, <1>2, OfStreamStays
<1>4. \A i \in DOMAIN results : results[i].ended <= Len(received) BY <1>2 DEF OfStream
<1> QED BY <1>3, <1>4 DEF ResultsOK

LEMMA ResultAdded ==
  ASSUME Inv, ResultsOK, \A i \in DOMAIN results : OfStream(results[i], received'),
         NEW r \in Result, results' = Append(results, r), OfStream(r, received'),
         \A i \in DOMAIN results : results[i].ended < r.began
  PROVE  ResultsOK'
<1>1. results \in Seq(Result) BY DEF Inv, HistoryOK
<1>2. /\ Len(results) \in Nat /\ DOMAIN results = 1..Len(results)
      /\ DOMAIN results' = 1 .. Len(results) + 1
      /\ \A i \in 1..Len(results) : results'[i] = results[i]
      /\ results'[Len(results) + 1] = r
  <2>1. results' \in Seq(Result) /\ Len(results') = Len(results) + 1 BY <1>1, AppendProperties
  <2> QED BY <1>1, <2>1, AppendProperties
<1> SUFFICES ASSUME NEW i \in DOMAIN results'
             PROVE  /\ OfStream(results'[i], received')
                    /\ \A j \in 1..i - 1 : results'[j].ended < results'[i].began
  BY DEF ResultsOK
<1>3. CASE i = Len(results) + 1
  <2>1. \A j \in 1..i - 1 : j \in DOMAIN results /\ results'[j] = results[j] BY <1>2, <1>3
  <2> QED BY <1>2, <1>3, <2>1
<1>4. CASE i # Len(results) + 1
  <2>1. i \in DOMAIN results /\ results'[i] = results[i] BY <1>2, <1>4
  <2>2. \A j \in 1..i - 1 : results'[j] = results[j] BY <1>2, <2>1
  <2> QED BY <2>1, <2>2 DEF ResultsOK
<1> QED BY <1>3, <1>4

(* A line in a test changes neither where it began nor what came before.    *)
LEMMA TestStays ==
  ASSUME Inv, TestOpen, pc = "reading", state # "outside", NEW line \in Lines, Receive(line),
         UNCHANGED <<testVars, results>>
  PROVE  TestOpen'
<1>1. received \in Seq(Lines) /\ received' = Append(received, line)
  BY DEF Inv, TypeOK, Receive
<1>2. /\ Len(received) \in Nat /\ Len(received') = Len(received) + 1
      /\ \A k \in 1..Len(received) : received'[k] = received[k]
  BY <1>1, MoreLines
<1>3. /\ StartsTest(began, current_test, received) /\ current_test_description = current_test
      /\ \A i \in DOMAIN results : results[i].ended < began
  BY DEF TestOpen
<1>4. StartsTest(began, current_test, received') BY <1>2, <1>3 DEF StartsTest
<1> QED BY <1>3, <1>4 DEF TestOpen, testVars

(* The line that opened the details, and the contents that are complete.    *)
LEMMA OpenerStays ==
  ASSUME Inv, TestOpen, DetailsOpen, pc = "reading", state = "details",
         NEW line \in Lines, Receive(line)
  PROVE  /\ opened \in began + 1 .. Len(received) /\ opened \in Nat /\ began \in Nat
         /\ Len(received) \in Nat /\ Len(received') = Len(received) + 1
         /\ \A k \in 1..Len(received) : received'[k] = received[k]
         /\ received'[Len(received) + 1] = line
         /\ OpensDetails(opened, reading, current_test, stage, received')
         /\ stage # "simple" => ContentsRead(contents, opened, received')
<1>1. received \in Seq(Lines) /\ received' = Append(received, line) /\ contents \in Contents
      /\ opened \in Nat /\ began \in Nat
  BY DEF Inv, TypeOK, HistoryOK, Receive
<1>2. /\ Len(received) \in Nat /\ Len(received') = Len(received) + 1
      /\ \A k \in 1..Len(received) : received'[k] = received[k]
      /\ received'[Len(received) + 1] = line
  BY <1>1, MoreLines
<1>3. /\ opened \in began + 1 .. Len(received)
      /\ OpensDetails(opened, reading, current_test, stage, received)
  BY DEF DetailsOpen
<1>4. OpensDetails(opened, reading, current_test, stage, received')
  BY <1>1, <1>2, <1>3 DEF OpensDetails
<1>5. ASSUME stage # "simple", NEW n \in DOMAIN contents
      PROVE  IsRead(contents[n], n, opened, received')
  <2>1. contents[n] \in Seq(Kept) BY <1>1, ContentsType2
  <2>2. IsRead(contents[n], n, opened, received) BY <1>5 DEF DetailsOpen, ContentsRead
  <2> QED BY <1>1, <2>1, <2>2, IsReadStays
<1> QED BY <1>1, <1>2, <1>3, <1>4, <1>5 DEF ContentsRead

-----------------------------------------------------------------------------
LEMMA InitResults == Init => ResultsInv
BY DEF Init, ResultsInv, ResultsOK, TestOpen, DetailsOpen

LEMMA StartTestResults ==
  ASSUME Inv, ResultsInv, NEW line \in Lines, StartTest(line) PROVE ResultsInv'
<1>1. /\ Receive(line) /\ results' = results /\ began' = Number /\ state' = "test"
      /\ current_test' = Name(line) /\ current_test_description' = Name(line)
      /\ Directive(line) = "test"
  BY DEF StartTest
<1>2. ResultsOK' /\ \A i \in DOMAIN results : results[i].ended <= Len(received)
  BY <1>1, ResultsStay DEF ResultsInv
<1>3. /\ Len(received) \in Nat /\ Len(received') = Len(received) + 1
      /\ received'[Len(received) + 1] = line
  BY <1>1, MoreLines DEF Inv, TypeOK, Receive
<1>4. StartsTest(began', current_test', received') BY <1>1, <1>3 DEF StartsTest, Number
<1>5. \A i \in DOMAIN results : results[i].ended < began'
  <2>1. \A i \in DOMAIN results : results[i] \in Result BY DEF Inv, HistoryOK
  <2>2. \A r \in Result : r.ended \in Nat BY DEF Result
  <2> QED BY <1>1, <1>2, <1>3, <2>1, <2>2 DEF Number
<1> QED BY <1>1, <1>2, <1>4, <1>5 DEF ResultsInv, TestOpen, DetailsOpen

LEMMA AddOutcomeResults ==
  ASSUME Inv, ResultsInv, NEW line \in Lines, AddOutcome(line) PROVE ResultsInv'
<1> DEFINE r == [test |-> current_test, outcome |-> Directive(line), how |-> "plain",
                 details |-> <<>>, began |-> began, opened |-> Number, ended |-> Len(received')]
<1>1. /\ Receive(line) /\ results' = Append(results, r) /\ state' = "outside"
      /\ pc = "reading" /\ state = "test" /\ Directive(line) \in Outcomes
      /\ Name(line) = current_test_description \o <<>>
  BY DEF AddOutcome, Finish, Names, Receive
<1>2. /\ Len(received) \in Nat /\ Len(received') = Len(received) + 1
      /\ received'[Len(received) + 1] = line /\ Number = Len(received) + 1
      /\ \A k \in 1..Len(received) : received'[k] = received[k]
  BY <1>1, MoreLines DEF Inv, TypeOK, Receive, Number
<1>3. /\ StartsTest(began, current_test, received) /\ current_test_description = current_test
      /\ \A i \in DOMAIN results : results[i].ended < began
  BY <1>1 DEF ResultsInv, TestOpen
<1>4. /\ r.test = current_test /\ r.outcome = Directive(line) /\ r.how = "plain"
      /\ r.began = began /\ r.opened = Number /\ r.ended = Len(received')
  OBVIOUS
<1>5. r \in Result
  <2>1. current_test \in Label /\ began \in Nat BY DEF Inv, TypeOK, HistoryOK, Label
  <2>2. <<>> \in Seq(Kept) BY EmptySeq
  <2> QED BY <1>1, <1>2, <2>1, <2>2 DEF Result, How
<1> HIDE DEF r
<1>6. OfStream(r, received')
  <2>1. StartsTest(began, current_test, received') BY <1>2, <1>3 DEF StartsTest
  <2>2. OpensDetails(Number, Directive(line), current_test, "plain", received')
    BY <1>1, <1>2, <1>3 DEF OpensDetails, Opener
  <2>3. began < Number BY <1>2, <1>3 DEF StartsTest
  <2> QED BY <1>2, <1>4, <2>1, <2>2, <2>3 DEF OfStream
<1>7. ResultsOK' BY <1>1, <1>3, <1>4, <1>5, <1>6, ResultsStay, ResultAdded DEF ResultsInv
<1> QED BY <1>1, <1>7 DEF ResultsInv, TestOpen, DetailsOpen

LEMMA OpenDetailsResults ==
  ASSUME Inv, ResultsInv, NEW line \in Lines, OpenDetails(line) PROVE ResultsInv'
<1>1. /\ Receive(line) /\ results' = results /\ UNCHANGED <<pc, testVars>> /\ state' = "details"
      /\ pc = "reading" /\ state = "test" /\ opened' = Number /\ reading' = Directive(line)
      /\ stage' = IF Names(line, Simple) THEN "simple" ELSE "content"
      /\ message' = <<>> /\ contents' = Empty
      /\ Names(line, Simple) \/ Names(line, Multipart)
  BY DEF OpenDetails, Receive, clientVars
<1>2. /\ Len(received) \in Nat /\ Len(received') = Len(received) + 1
      /\ received'[Len(received) + 1] = line /\ Number = Len(received) + 1
  BY <1>1, MoreLines DEF Inv, TypeOK, Receive, Number
<1>3. ResultsOK' /\ TestOpen' BY <1>1, ResultsStay, TestStays DEF ResultsInv
<1>4. StartsTest(began, current_test, received) /\ current_test_description = current_test
  BY <1>1 DEF ResultsInv, TestOpen
<1>5. OpensDetails(Number, Directive(line), current_test, stage', received')
  BY <1>1, <1>2, <1>4 DEF OpensDetails, Opener, Names
<1>6. opened' \in began' + 1 .. Len(received')
  BY <1>1, <1>2, <1>4 DEF StartsTest, testVars
<1>7. TextRead(message', opened', received')
  BY <1>1, <1>2 DEF TextRead
<1>8. ContentsRead(contents', opened', received') BY <1>1 DEF ContentsRead, Empty
<1>9. stage' \in {"simple", "content"} BY <1>1
<1> QED BY <1>1, <1>3, <1>5, <1>6, <1>7, <1>8, <1>9 DEF ResultsInv, DetailsOpen, testVars

(* Lines that are none of a test's own change nothing in it, and a line     *)
(* that raises ends the reading.                                            *)
LEMMA OtherResults ==
  ASSUME Inv, ResultsInv, NEW line \in Lines,
         PassOn(line) \/ Inform(line) \/ Raise(line) \/ RaiseInDetails(line)
  PROVE  ResultsInv'
<1>1. /\ Receive(line) /\ results' = results /\ UNCHANGED testVars /\ pc = "reading"
      /\ pc' = "raised" \/ (state' = state /\ state \in {"outside", "test"})
  BY DEF PassOn, Inform, Raise, RaiseInDetails, clientVars, Receive, TypeOK
<1>2. ResultsOK' BY <1>1, ResultsStay DEF ResultsInv
<1>3. CASE pc' = "raised" BY <1>2, <1>3 DEF ResultsInv, TestOpen, DetailsOpen
<1>4. CASE state' = state /\ state = "outside"
  BY <1>2, <1>4 DEF ResultsInv, TestOpen, DetailsOpen
<1>5. CASE state' = state /\ state = "test"
  <2>1. TestOpen' BY <1>1, <1>5, TestStays DEF ResultsInv
  <2> QED BY <1>2, <1>5, <2>1 DEF ResultsInv, DetailsOpen
<1> QED BY <1>1, <1>3, <1>4, <1>5

-----------------------------------------------------------------------------
(* A line in the details: what is read grows by it, all else stays.         *)
LEMMA ReadDetailsResults ==
  ASSUME Inv, ResultsInv, NEW line \in Lines,
         ReadSimple(line) \/ ReadContentType(line) \/ ReadName(line) \/ ReadChunk(line)
  PROVE  ResultsInv'
<1>1. /\ Receive(line) /\ UNCHANGED <<pc, state, testVars, reading, opened, results>>
      /\ pc = "reading" /\ state = "details"
  BY DEF ReadSimple, ReadContentType, ReadName, ReadChunk, clientVars, Receive
<1>2. ResultsOK' /\ TestOpen' BY <1>1, ResultsStay, TestStays DEF ResultsInv
<1>3. /\ opened \in began + 1 .. Len(received) /\ opened \in Nat /\ began \in Nat
      /\ Len(received) \in Nat /\ Len(received') = Len(received) + 1
      /\ \A k \in 1..Len(received) : received'[k] = received[k]
      /\ received'[Len(received) + 1] = line
      /\ OpensDetails(opened, reading, current_test, stage, received')
      /\ stage # "simple" => ContentsRead(contents, opened, received')
  BY <1>1, OpenerStays DEF ResultsInv
<1>4. opened' \in began' + 1 .. Len(received') BY <1>1, <1>3 DEF testVars
<1>5. DetailsOpen BY DEF ResultsInv
<1>6. CASE ReadSimple(line)
  <2>1. /\ stage = "simple" /\ stage' = "simple" /\ line # EndMarker
        /\ message' = Append(message, Unquoted(line))
    BY <1>6 DEF ReadSimple
  <2>2. TextRead(message, opened, received) BY <1>1, <1>5, <2>1 DEF DetailsOpen
  <2>3. message \in Seq(Kept) /\ Unquoted(line) \in Kept BY KeptType DEF Inv, HistoryOK
  <2>4. /\ Len(message') = Len(message) + 1 /\ DOMAIN message' = 1 .. Len(message) + 1
        /\ \A i \in 1..Len(message) : message'[i] = message[i]
        /\ message'[Len(message) + 1] = Unquoted(line)
    <3>1. message' \in Seq(Kept) /\ Len(message') = Len(message) + 1
      BY <2>1, <2>3, AppendProperties
    <3> QED BY <2>1, <2>3, <3>1, AppendProperties
  <2>5. Len(message) \in Nat /\ DOMAIN message = 1..Len(message) BY <2>3
  <2>6. ASSUME NEW i \in DOMAIN message'
        PROVE  message'[i] = Unquoted(received'[opened + i]) /\ received'[opened + i] # EndMarker
    <3>1. CASE i = Len(message) + 1
      <4>1. opened + i = Len(received) + 1 BY <1>3, <2>2, <2>5, <3>1 DEF TextRead
      <4> QED BY <1>3, <2>1, <2>4, <3>1, <4>1
    <3>2. CASE i # Len(message) + 1
      <4>1. i \in DOMAIN message /\ message'[i] = message[i] BY <2>4, <2>5, <3>2
      <4>2. opened + i \in 1..Len(received) BY <1>3, <2>2, <2>5, <4>1 DEF TextRead
      <4> QED BY <1>3, <2>2, <4>1, <4>2 DEF TextRead
    <3> QED BY <3>1, <3>2
  <2>7. TextRead(message', opened, received')
    BY <1>3, <2>2, <2>4, <2>5, <2>6 DEF TextRead
  <2> QED BY <1>1, <1>2, <1>3, <1>4, <2>1, <2>7 DEF ResultsInv, DetailsOpen, testVars
<1>7. CASE ReadContentType(line)
  <2>1. stage = "content" /\ stage' = "name" /\ contents' = contents
    BY <1>7 DEF ReadContentType
  <2>2. opened < Len(received') BY <1>3
  <2>3. OpensDetails(opened, reading, current_test, "name", received')
    BY <1>3, <2>1 DEF OpensDetails, Opener
  <2> QED BY <1>1, <1>2, <1>3, <1>4, <2>1, <2>2, <2>3 DEF ResultsInv, DetailsOpen, testVars
<1>8. CASE ReadName(line)
  <2>1. /\ stage = "name" /\ stage' = "chunks" /\ contents' = contents /\ message' = <<>>
        /\ name' = Line(line.word, Name(line))
    BY <1>8 DEF ReadName
  <2>2. opened < Len(received) BY <1>1, <1>5, <2>1 DEF DetailsOpen
  <2>3. name'.word = line.word BY <2>1 DEF Line
  <2>4. Len(received') - Len(message') = Len(received) + 1 BY <1>3, <2>1
  <2>5. \A i \in DOMAIN message' : message'[i] = received'[Len(received) + 1 + i] BY <2>1
  <2>6. Len(received) + 1 >= opened + 2 BY <1>3, <2>2
  <2>7. ChunksRead(message', name', opened, received')
    BY <1>3, <2>3, <2>4, <2>5, <2>6 DEF ChunksRead
  <2>8. OpensDetails(opened, reading, current_test, "chunks", received')
    BY <1>3, <2>1 DEF OpensDetails, Opener
  <2> QED BY <1>1, <1>2, <1>3, <1>4, <2>1, <2>7, <2>8 DEF ResultsInv, DetailsOpen, testVars
<1>9. CASE ReadChunk(line)
  <2>1. /\ stage = "chunks" /\ message' = Append(message, line) /\ name' = name
        /\ \/ UNCHANGED <<stage, contents>>
           \/ /\ stage' = "content"
              /\ contents' = [n \in DOMAIN contents \cup {name} |->
                                IF n = name THEN message' ELSE contents[n]]
    BY <1>9 DEF ReadChunk
  <2>2. ChunksRead(message, name, opened, received) BY <1>1, <1>5, <2>1 DEF DetailsOpen
  <2>3. message \in Seq(Kept) /\ line \in Kept BY KeptType DEF Inv, HistoryOK
  <2>4. /\ Len(message') = Len(message) + 1 /\ DOMAIN message' = 1 .. Len(message) + 1
        /\ \A i \in 1..Len(message) : message'[i] = message[i]
        /\ message'[Len(message) + 1] = line
    <3>1. message' \in Seq(Kept) /\ Len(message') = Len(message) + 1
      BY <2>1, <2>3, AppendProperties
    <3> QED BY <2>1, <2>3, <3>1, AppendProperties
  <2>5. Len(message) \in Nat /\ DOMAIN message = 1..Len(message) BY <2>3
  <2>6. PICK at : at = Len(received) - Len(message) OBVIOUS
  <2>7. /\ at \in Int /\ at >= opened + 2 /\ received[at].word = name.word
        /\ \A i \in DOMAIN message : message[i] = received[at + i]
    BY <1>3, <2>2, <2>5, <2>6 DEF ChunksRead
  <2>8. at \in 1..Len(received) /\ at = Len(received') - Len(message')
    BY <1>3, <2>4, <2>5, <2>6, <2>7
  <2>9. ASSUME NEW i \in DOMAIN message' PROVE message'[i] = received'[at + i]
    <3>1. CASE i = Len(message) + 1
      <4>1. at + i = Len(received) + 1 BY <1>3, <2>5, <2>6, <3>1
      <4> QED BY <1>3, <2>4, <3>1, <4>1
    <3>2. CASE i # Len(message) + 1
      <4>1. i \in DOMAIN message /\ message'[i] = message[i] BY <2>4, <2>5, <3>2
      <4>2. at + i \in 1..Len(received) BY <1>3, <2>5, <2>6, <2>8, <4>1
      <4> QED BY <1>3, <2>7, <4>1, <4>2
    <3> QED BY <3>1, <3>2
  <2>10. received'[at].word = name.word BY <1>3, <2>7, <2>8
  <2>11. ChunksRead(message', name, opened, received')
    BY <2>7, <2>8, <2>9, <2>10 DEF ChunksRead
  <2>12. CASE UNCHANGED <<stage, contents>>
    BY <1>1, <1>2, <1>3, <1>4, <2>1, <2>11, <2>12 DEF ResultsInv, DetailsOpen, testVars
  <2>13. CASE /\ stage' = "content"
              /\ contents' = [n \in DOMAIN contents \cup {name} |->
                                IF n = name THEN message' ELSE contents[n]]
    <3>1. IsRead(message', name, opened, received')
      <4>1. PICK b : b = at + 1 OBVIOUS
      <4>2. b \in opened + 3 .. Len(received') + 1 - Len(message') /\ b - 1 = at
        BY <1>3, <2>4, <2>5, <2>6, <2>7, <4>1
      <4>3. \A i \in DOMAIN message' : b + i - 1 = at + i BY <2>4, <2>5, <2>7, <4>1
      <4>4. \A i \in DOMAIN message' : message'[i] = received'[b + i - 1] BY <2>9, <4>3
      <4>5. received'[b - 1].word = name.word BY <2>10, <4>2
      <4> QED BY <4>2, <4>4, <4>5, Zenon DEF IsRead
    <3>2. ASSUME NEW n \in DOMAIN contents' PROVE IsRead(contents'[n], n, opened, received')
      <4>1. CASE n = name BY <2>13, <3>1, <4>1
      <4>2. CASE n # name
        <5>1. n \in DOMAIN contents /\ contents'[n] = contents[n] BY <2>13, <4>2
        <5> QED BY <1>3, <2>1, <5>1 DEF ContentsRead
      <4> QED BY <4>1, <4>2
    <3>3. ContentsRead(contents', opened, received') BY <3>2 DEF ContentsRead
    <3>4. OpensDetails(opened, reading, current_test, "content", received')
      BY <1>3, <2>1 DEF OpensDetails, Opener
    <3> QED BY <1>1, <1>2, <1>4, <2>13, <3>3, <3>4 DEF ResultsInv, DetailsOpen, testVars
  <2> QED BY <2>1, <2>12, <2>13
<1> QED BY <1>6, <1>7, <1>8, <1>9

(* The details become the test's with their last line.                      *)
LEMMA EndDetailsResults ==
  ASSUME Inv, ResultsInv, NEW line \in Lines, EndDetails(line) PROVE ResultsInv'
<1> DEFINE said == IF stage = "simple" THEN message ELSE contents
           r == [test |-> current_test, outcome |-> reading, how |-> stage, details |-> said,
                 began |-> began, opened |-> opened, ended |-> Len(received')]
<1>1. /\ Receive(line) /\ results' = Append(results, r) /\ state' = "outside"
      /\ pc = "reading" /\ state = "details" /\ stage \in {"simple", "content"}
      /\ line = EndMarker
  BY DEF EndDetails, Finish, Receive
<1>2. /\ opened \in began + 1 .. Len(received) /\ opened \in Nat /\ began \in Nat
      /\ Len(received) \in Nat /\ Len(received') = Len(received) + 1
      /\ \A k \in 1..Len(received) : received'[k] = received[k]
      /\ received'[Len(received) + 1] = line
      /\ OpensDetails(opened, reading, current_test, stage, received')
      /\ stage # "simple" => ContentsRead(contents, opened, received')
  BY <1>1, OpenerStays DEF ResultsInv
<1>3. /\ StartsTest(began, current_test, received)
      /\ \A i \in DOMAIN results : results[i].ended < began
      /\ stage = "simple" => TextRead(message, opened, received)
      /\ stage # "simple" => ContentsRead(contents, opened, received)
  BY <1>1 DEF ResultsInv, TestOpen, DetailsOpen
<1>4. /\ r.test = current_test /\ r.outcome = reading /\ r.how = stage /\ r.details = said
      /\ r.began = began /\ r.opened = opened /\ r.ended = Len(received')
  OBVIOUS
<1>5. message \in Seq(Kept) /\ contents \in Contents BY DEF Inv, HistoryOK
<1>6. r \in Result
  <2>1. current_test \in Label /\ reading \in Outcomes
    BY <1>1 DEF Inv, TypeOK, Label
  <2>2. stage \in How /\ said \in Seq(Kept) \cup Contents BY <1>1, <1>5 DEF How
  <2> QED BY <1>2, <2>1, <2>2 DEF Result
<1> HIDE DEF r
<1>0. stage = "simple" \/ stage = "content" BY <1>1
<1>7. StartsTest(began, current_test, received') BY <1>2, <1>3 DEF StartsTest
<1>12. /\ StartsTest(r.began, r.test, received') /\ r.ended <= Len(received')
       /\ r.began < r.opened /\ r.opened <= r.ended
       /\ OpensDetails(r.opened, r.outcome, r.test, r.how, received')
       /\ received'[r.ended] = EndMarker
  BY <1>1, <1>2, <1>4, <1>7
<1>8. ASSUME stage = "simple" PROVE OfStream(r, received')
  <2>1. said = message BY <1>8
  <2>2. Len(message) \in Nat /\ DOMAIN message = 1..Len(message) BY <1>5
  <2>3. /\ Len(message) = Len(received') - opened - 1
        /\ \A i \in DOMAIN message : /\ message[i] = Unquoted(received'[opened + i])
                                     /\ received'[opened + i] # EndMarker
    <3>1. TextRead(message, opened, received) BY <1>3, <1>8
    <3>2. \A i \in DOMAIN message : opened + i \in 1..Len(received)
      BY <1>2, <2>2, <3>1 DEF TextRead
    <3> QED BY <1>2, <3>1, <3>2 DEF TextRead
  <2>4. r.details = message /\ r.opened = opened /\ r.ended = Len(received') /\ r.how = "simple"
    BY <1>4, <1>8, <2>1
  <2>5. /\ r.details \in Seq(Kept) /\ Len(r.details) = r.ended - r.opened - 1
        /\ \A i \in DOMAIN r.details : /\ r.details[i] = Unquoted(received'[r.opened + i])
                                       /\ received'[r.opened + i] # EndMarker
    BY <1>5, <2>3, <2>4, Zenon
  <2> QED BY <1>12, <2>4, <2>5, Zenon DEF OfStream
<1>9. ASSUME stage = "content" PROVE OfStream(r, received')
  <2>1. said = contents BY <1>9
  <2>2. \A n \in DOMAIN contents :
          \E at \in opened + 3 .. Len(received') - Len(contents[n]) :
            /\ received'[at - 1].word = n.word
            /\ \A i \in DOMAIN contents[n] : contents[n][i] = received'[at + i - 1]
    <3> SUFFICES ASSUME NEW n \in DOMAIN contents
                 PROVE  \E at \in opened + 3 .. Len(received') - Len(contents[n]) :
                          /\ received'[at - 1].word = n.word
                          /\ \A i \in DOMAIN contents[n] :
                               contents[n][i] = received'[at + i - 1]
      OBVIOUS
    <3>1. PICK c : c = contents[n] OBVIOUS
    <3>2. c \in Seq(Kept) /\ IsRead(c, n, opened, received)
      BY <1>3, <1>5, <1>9, <3>1, ContentsType2 DEF ContentsRead
    <3>3. PICK at \in opened + 3 .. Len(received) + 1 - Len(c) :
            received[at - 1].word = n.word /\ \A i \in DOMAIN c : c[i] = received[at + i - 1]
      BY <3>2 DEF IsRead
    <3>4. at - 1 \in 1..Len(received) /\ \A i \in DOMAIN c : at + i - 1 \in 1..Len(received)
      BY <1>2, <3>2
    <3>5. received'[at - 1].word = n.word BY <1>2, <3>3, <3>4
    <3>6. \A i \in DOMAIN c : c[i] = received'[at + i - 1] BY <1>2, <3>3, <3>4
    <3>7. at \in opened + 3 .. Len(received') - Len(c) BY <1>2, <3>2, <3>3
    <3> QED BY <3>1, <3>5, <3>6, <3>7
  <2>3. r.details = contents /\ r.opened = opened /\ r.ended = Len(received') /\ r.how = "content"
    BY <1>4, <1>9, <2>1
  <2>4. /\ r.details \in Contents
        /\ \A n \in DOMAIN r.details :
             \E at \in r.opened + 3 .. r.ended - Len(r.details[n]) :
               /\ received'[at - 1].word = n.word
               /\ \A i \in DOMAIN r.details[n] : r.details[n][i] = received'[at + i - 1]
    BY <1>5, <2>2, <2>3
  <2> QED BY <1>12, <2>3, <2>4, Zenon DEF OfStream
<1>10. OfStream(r, received') BY <1>0, <1>8, <1>9
<1>11. ResultsOK' BY <1>1, <1>3, <1>4, <1>6, <1>10, ResultsStay, ResultAdded DEF ResultsInv
<1> QED BY <1>1, <1>11 DEF ResultsInv, TestOpen, DetailsOpen

LEMMA LostConnectionResults ==
  ASSUME Inv, ResultsInv, LostConnection PROVE ResultsInv'
<1> DEFINE r == [test |-> current_test, outcome |-> "error", how |-> "lost", details |-> <<>>,
                 began |-> began, opened |-> opened, ended |-> Len(received')]
<1>1. /\ pc = "reading" /\ pc' = "lost" /\ received' = received
      /\ IF state # "outside" THEN results' = Append(results, r) ELSE results' = results
  BY DEF LostConnection, Finish, inputVars, clientVars
<1>2. CASE state = "outside"
  BY <1>1, <1>2 DEF ResultsInv, ResultsOK, TestOpen, DetailsOpen
<1>3. CASE state # "outside"
  <2>1. /\ StartsTest(began, current_test, received)
        /\ \A i \in DOMAIN results : results[i].ended < began
        /\ \A i \in DOMAIN results : OfStream(results[i], received)
    BY <1>1, <1>3 DEF ResultsInv, ResultsOK, TestOpen
  <2>2. /\ r.test = current_test /\ r.how = "lost" /\ r.began = began
        /\ r.ended = Len(received')
    OBVIOUS
  <2>3. r \in Result
    <3>1. /\ current_test \in Label /\ began \in Nat /\ opened \in Nat
          /\ Len(received') \in Nat
      BY <1>1 DEF Inv, TypeOK, HistoryOK, Label
    <3>2. "error" \in Outcomes /\ "lost" \in How /\ <<>> \in Seq(Kept)
      BY EmptySeq DEF Outcomes, How
    <3> QED BY <3>1, <3>2 DEF Result
  <2> HIDE DEF r
  <2>4. Len(received) <= Len(received) BY DEF Inv, TypeOK
  <2>5. OfStream(r, received') BY <1>1, <2>1, <2>2, <2>4 DEF OfStream
  <2>6. ResultsOK' BY <1>1, <1>3, <2>1, <2>2, <2>3, <2>5, ResultAdded DEF ResultsInv
  <2> QED BY <1>1, <2>6 DEF ResultsInv, TestOpen, DetailsOpen
<1> QED BY <1>2, <1>3

LEMMA NextResults == Inv /\ ResultsInv /\ [Next]_vars => ResultsInv'
<1> SUFFICES ASSUME Inv, ResultsInv, [Next]_vars PROVE ResultsInv' OBVIOUS
<1>1. ASSUME Number <= Len(input), NEW line \in input[Number], lineReceived(line)
      PROVE  ResultsInv'
  <2>1. line \in Lines BY <1>1, InputType DEF Inv
  <2> QED BY <1>1, <2>1, StartTestResults, AddOutcomeResults, OpenDetailsResults, OtherResults,
         ReadDetailsResults, EndDetailsResults DEF lineReceived
<1>2. CASE UNCHANGED vars
  <2>1. UNCHANGED <<received, pc, state, testVars, parserVars, results>>
    BY <1>2 DEF vars, inputVars, clientVars
  <2> QED BY <2>1 DEF ResultsInv, ResultsOK, TestOpen, DetailsOpen, testVars, parserVars
<1> QED BY <1>1, <1>2, LostConnectionResults DEF Next

(* Whatever comes, each result has the test of the last test directive      *)
(* taken, the outcome and the label of one directive after it, and for      *)
(* details every line in between and no other.                              *)
THEOREM SpecResultsAsWritten == Spec => []ResultsAsWritten
<1>1. Inv /\ ResultsInv => ResultsAsWritten
  <2> SUFFICES ASSUME Inv, ResultsInv, NEW i \in DOMAIN results
               PROVE  /\ Directive(received[results[i].began]) = "test"
                      /\ Name(received[results[i].began]) = results[i].test
                      /\ results[i].how # "lost" => AsWritten(results[i])
                      /\ i > 1 => results[i].began > results[i - 1].ended
    BY DEF ResultsAsWritten
  <2>1. PICK r \in Result : r = results[i] BY DEF Inv, HistoryOK
  <2>2. OfStream(r, received) /\ \A j \in 1..i - 1 : results[j].ended < r.began
    BY <2>1 DEF ResultsInv, ResultsOK
  <2>3. Directive(received[r.began]) = "test" /\ Name(received[r.began]) = r.test
    BY <2>2 DEF OfStream, StartsTest
  <2>4. r.how # "lost" => AsWritten(r)
    BY <2>2 DEF OfStream, AsWritten, OpensDetails, Opener
  <2>5. ASSUME i > 1 PROVE r.began > results[i - 1].ended
    <3>1. i \in Nat BY DEF Inv, HistoryOK
    <3>2. i - 1 \in 1..i - 1 /\ i - 1 \in DOMAIN results BY <2>5, <3>1 DEF Inv, HistoryOK
    <3>3. PICK q \in Result : q = results[i - 1] BY <3>2 DEF Inv, HistoryOK
    <3>4. q.ended < r.began BY <2>2, <3>2, <3>3
    <3>5. q.ended \in Nat /\ r.began \in Nat BY DEF Result
    <3> QED BY <3>3, <3>4, <3>5
  <2> QED BY <2>1, <2>3, <2>4, <2>5
<1>2. Spec => []ResultsInv BY InitResults, NextResults, Invariance, PTL DEF Spec
<1> QED BY <1>1, <1>2, Invariance, PTL
=============================================================================
