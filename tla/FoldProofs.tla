----------------------------- MODULE FoldProofs -----------------------------
(***************************************************************************)
(* Induction over the natural numbers, with a set in place of a predicate, *)
(* and what it says of functions defined by recursion, of FlattenSeq and   *)
(* of FoldLeft. A module with a fold instantiates this one with its step.  *)
(* All of it rests on the strict order of the finite subsets of a set,     *)
(* which has no infinite descent: a number is known by those up to it.     *)
(***************************************************************************)
EXTENDS Integers, SequencesExt, FiniteSetTheorems, SequenceTheorems, TLAPS

CONSTANT Step(_, _)

-----------------------------------------------------------------------------
(* Induction.                                                               *)

(* A set of natural numbers has a least element.                            *)
LEMMA LeastNumber ==
  ASSUME NEW A \in SUBSET Nat, A # {}
  PROVE  \E m \in A : \A k \in A : m <= k
<1>1. PICK a \in A : TRUE OBVIOUS
<1>2. a \in Nat BY <1>1
<1> DEFINE S == 0..a
           T == {0..k : k \in {j \in A : j <= a}}
<1>3. IsFiniteSet(S) BY <1>2, FS_Interval
<1>4. IsWellFoundedOn(StrictSubsetOrdering(S), SUBSET S)
  BY <1>3, FS_StrictSubsetOrderingWellFounded, FS_FiniteSubsetsOfFinite
<1>5. T \subseteq SUBSET S BY <1>2
<1>6. T # {} BY <1>1, <1>2
<1>7. PICK x \in T : \A y \in T : <<y, x>> \notin StrictSubsetOrdering(S)
  <2> HIDE DEF S, T
  <2> QED BY <1>4, <1>5, <1>6, WFMin
<1>8. PICK m \in A : m <= a /\ x = 0..m BY <1>7
<1>9. ASSUME NEW k \in A, k < m PROVE FALSE
  <2>1. k \in Nat /\ m \in Nat /\ k <= a BY <1>2, <1>8, <1>9
  <2>2. 0..k \in T BY <2>1
  <2>3. 0..k \subseteq 0..m /\ 0..k # 0..m
    <3>1. m \in 0..m /\ m \notin 0..k BY <1>9, <2>1
    <3>2. 0..k \subseteq 0..m BY <1>9, <2>1
    <3> QED BY <3>1, <3>2
  <2>4. 0..k \in SUBSET S /\ 0..m \in SUBSET S BY <1>2, <1>8, <2>1
  <2>5. PICK p : p = <<0..k, 0..m>> OBVIOUS
  <2>6. p \in (SUBSET S) \X (SUBSET S) /\ p[1] = 0..k /\ p[2] = 0..m BY <2>4, <2>5
  <2> HIDE DEF S, T
  <2>7. p \in StrictSubsetOrdering(S) BY <2>3, <2>6 DEF StrictSubsetOrdering
  <2> QED BY <1>7, <1>8, <2>2, <2>5, <2>7
<1>10. \A k \in A : m <= k
  <2>1. \A k \in A : k \in Nat /\ m \in Nat BY <1>8
  <2> QED BY <1>9, <2>1
<1> QED BY <1>8, <1>10

(* What holds of 0, and of a number's successor when it holds of the        *)
(* number, holds of all.                                                    *)
LEMMA Inductive ==
  ASSUME NEW A \in SUBSET Nat, 0 \in A, \A n \in A : n + 1 \in A
  PROVE  A = Nat
<1> SUFFICES ASSUME Nat \ A # {} PROVE FALSE OBVIOUS
<1>1. PICK m \in Nat \ A : \A k \in Nat \ A : m <= k
  <2> DEFINE B == Nat \ A
  <2>1. B \in SUBSET Nat /\ B # {} OBVIOUS
  <2> HIDE DEF B
  <2>2. \E m \in B : \A k \in B : m <= k BY <2>1, LeastNumber
  <2> QED BY <2>2 DEF B
<1>2. m # 0 /\ m - 1 \in Nat BY <1>1
<1>3. m - 1 \in A BY <1>1, <1>2
<1>4. m - 1 + 1 = m BY <1>1
<1> QED BY <1>1, <1>3, <1>4

(* What holds at 0, and at each number up to n when it holds at the one     *)
(* before, holds at n.                                                      *)
LEMMA Upto ==
  ASSUME NEW n \in Nat, NEW A, 0 \in A, \A i \in 1..n : i - 1 \in A => i \in A
  PROVE  n \in A
<1> DEFINE B == {m \in Nat : m <= n => m \in A}
<1>1. B \in SUBSET Nat /\ 0 \in B OBVIOUS
<1>2. ASSUME NEW m \in B PROVE m + 1 \in B
  <2>1. m \in Nat /\ (m <= n => m \in A) OBVIOUS
  <2>2. ASSUME m + 1 <= n PROVE m + 1 \in A
    <3>1. m + 1 \in 1..n /\ m + 1 - 1 = m /\ m <= n BY <2>1, <2>2
    <3> QED BY <2>1, <3>1
  <2> QED BY <2>1, <2>2
<1> HIDE DEF B
<1>3. B = Nat BY <1>1, <1>2, Inductive
<1> QED BY <1>3 DEF B

(* A function on 0..n can be defined by its value at 0 and a step from each *)
(* value to the next.                                                       *)
Steps(X, n) == [1..n -> [X -> X]]
Recurs(f, X, x, n, step) ==
    f \in [0..n -> X] /\ f[0] = x /\ \A i \in 1..n : f[i] = step[i][f[i - 1]]

LEMMA Recursion ==
  ASSUME NEW X, NEW x \in X, NEW n \in Nat, NEW step \in Steps(X, n)
  PROVE  \E f : Recurs(f, X, x, n, step)
<1> DEFINE Some(m) == \E f \in [0..m -> X] :
                        f[0] = x /\ \A i \in 1..m : f[i] = step[i][f[i - 1]]
           A == {m \in Nat : m <= n => Some(m)}
<1>1. 0 \in A
  <2>1. [i \in 0..0 |-> x] \in [0..0 -> X] /\ [i \in 0..0 |-> x][0] = x OBVIOUS
  <2>2. 1..0 = {} OBVIOUS
  <2> QED BY <2>1, <2>2
<1>2. ASSUME NEW m \in A PROVE m + 1 \in A
  <2> SUFFICES ASSUME m + 1 <= n PROVE Some(m + 1) OBVIOUS
  <2>1. m \in Nat /\ m <= n OBVIOUS
  <2>2. PICK f \in [0..m -> X] : f[0] = x /\ \A i \in 1..m : f[i] = step[i][f[i - 1]]
    BY <2>1
  <2> DEFINE g == [i \in 0 .. m + 1 |-> IF i = m + 1 THEN step[m + 1][f[m]] ELSE f[i]]
  <2>3. m + 1 \in 1..n /\ m \in 0..m BY <2>1
  <2>4. step[m + 1] \in [X -> X] /\ f[m] \in X BY <2>3 DEF Steps
  <2>5. step[m + 1][f[m]] \in X BY <2>4
  <2>6. \A i \in 0 .. m + 1 : i # m + 1 => i \in 0..m BY <2>1
  <2>7. g \in [0 .. m + 1 -> X] BY <2>5, <2>6
  <2>8. g[0] = x BY <2>1, <2>2
  <2>9. ASSUME NEW i \in 1 .. m + 1 PROVE g[i] = step[i][g[i - 1]]
    <3>1. i - 1 \in 0..m /\ i - 1 # m + 1 /\ i \in 0 .. m + 1 /\ i - 1 \in 0 .. m + 1
      BY <2>1
    <3>2. g[i - 1] = f[i - 1] BY <3>1
    <3>3. CASE i = m + 1
      <4>1. i - 1 = m BY <2>1, <3>3
      <4> QED BY <3>1, <3>2, <3>3, <4>1
    <3>4. CASE i # m + 1
      <4>1. i \in 1..m BY <2>1, <3>4
      <4>2. g[i] = f[i] BY <3>1, <3>4
      <4> QED BY <2>2, <3>2, <4>1, <4>2
    <3> QED BY <3>3, <3>4
  <2> HIDE DEF g
  <2> QED BY <2>7, <2>8, <2>9
<1>3. A \in SUBSET Nat OBVIOUS
<1>4. A = Nat
  <2> HIDE DEF A
  <2> QED BY <1>1, <1>2, <1>3, Inductive
<1>5. n \in A BY <1>4
<1> QED BY <1>5 DEF Recurs
-----------------------------------------------------------------------------
(* What FlattenSeq and FoldLeft do with a sequence: from the first element  *)
(* to the last, one step each.                                              *)

IsJoin(S, parts, joined) ==
    /\ joined \in [0..Len(parts) -> Seq(S)]
    /\ joined[0] = <<>>
    /\ \A i \in 1..Len(parts) : joined[i] = joined[i - 1] \o parts[i]

LEMMA Flattened ==
  ASSUME NEW S, NEW parts \in Seq(Seq(S))
  PROVE  \E joined : IsJoin(S, parts, joined) /\ FlattenSeq(parts) = joined[Len(parts)]
<1> DEFINE n == Len(parts)
           X == Seq(S)
           step == [i \in 1..n |-> [before \in X |-> before \o parts[i]]]
           loop == CHOOSE flatten : flatten = [i \in 1..n |->
                     IF i = 1 THEN parts[i] ELSE flatten[i - 1] \o parts[i]]
<1>1. n \in Nat /\ \A i \in 1..n : parts[i] \in X OBVIOUS
<1>2. \A x \in X, y \in X : x \o y \in X BY ConcatProperties
<1>3. <<>> \in X /\ \A x \in X : <<>> \o x = x BY EmptySeq, ConcatEmptySeq
<1>4. n = 0 => parts = <<>> OBVIOUS
<1> HIDE DEF X, n
<1>5. step \in Steps(X, n) BY <1>1, <1>2 DEF Steps
<1>6. PICK f : f \in [0..n -> X] /\ f[0] = <<>> /\ \A i \in 1..n : f[i] = step[i][f[i - 1]]
  <2>1. \E f : Recurs(f, X, <<>>, n, step)
    <3> HIDE DEF step
    <3> QED BY <1>1, <1>3, <1>5, Recursion
  <2> QED BY <2>1 DEF Recurs
<1>7. \A i \in 1..n : f[i] = f[i - 1] \o parts[i]
  <2> SUFFICES ASSUME NEW i \in 1..n PROVE f[i] = f[i - 1] \o parts[i] OBVIOUS
  <2>1. i - 1 \in 0..n BY <1>1
  <2>2. f[i - 1] \in X BY <1>6, <2>1
  <2> QED BY <1>6, <2>2
<1>8. FlattenSeq(parts) = IF n = 0 THEN parts ELSE loop[n]
  BY Zenon DEF FlattenSeq, loop, n
<1>9. CASE n = 0
  BY <1>4, <1>6, <1>7, <1>8, <1>9 DEF IsJoin, X, n
<1>10. CASE n # 0
  <2> DEFINE g == [i \in 1..n |-> f[i]]
  <2>1. g = [i \in 1..n |-> IF i = 1 THEN parts[i] ELSE g[i - 1] \o parts[i]]
    <3>1. ASSUME NEW i \in 1..n
          PROVE  g[i] = IF i = 1 THEN parts[i] ELSE g[i - 1] \o parts[i]
      <4>1. CASE i = 1
        <5>1. i - 1 = 0 BY <4>1
        <5>2. f[i] = <<>> \o parts[i] BY <1>6, <1>7, <5>1
        <5> QED BY <1>1, <1>3, <4>1, <5>2
      <4>2. CASE i # 1
        <5>1. i - 1 \in 1..n BY <1>1, <4>2
        <5>2. g[i - 1] = f[i - 1] BY <5>1
        <5> QED BY <1>7, <4>2, <5>2
      <4> QED BY <4>1, <4>2
    <3> HIDE DEF g
    <3>2. g = [i \in 1..n |-> g[i]] BY DEF g
    <3> QED BY <3>1, <3>2
  <2> HIDE DEF g
  <2>2. loop = [i \in 1..n |-> IF i = 1 THEN parts[i] ELSE loop[i - 1] \o parts[i]]
    BY <2>1, Zenon
  <2> HIDE DEF loop
  <2>3. \A i \in 1..n : loop[i] = IF i = 1 THEN parts[i] ELSE loop[i - 1] \o parts[i]
    BY <2>2, Zenon
  <2> DEFINE A == {i \in Nat : i + 1 <= n => loop[i + 1] = f[i + 1]}
  <2>4. 0 \in A
    <3>1. 1 \in 1..n /\ 0 + 1 = 1 /\ 1 - 1 = 0 BY <1>1, <1>10
    <3>2. loop[1] = parts[1] BY <2>3, <3>1
    <3>3. f[1] = <<>> \o parts[1] BY <1>6, <1>7, <3>1, Zenon
    <3> QED BY <1>1, <1>3, <3>1, <3>2, <3>3
  <2>5. ASSUME NEW i \in A PROVE i + 1 \in A
    <3> SUFFICES ASSUME i + 1 + 1 <= n PROVE loop[i + 1 + 1] = f[i + 1 + 1] OBVIOUS
    <3>1. i \in Nat /\ i + 1 + 1 \in 1..n /\ i + 1 + 1 # 1 /\ (i + 1 + 1) - 1 = i + 1
          /\ i + 1 <= n
      BY <1>1
    <3>2. loop[i + 1] = f[i + 1] BY <3>1
    <3>3. PICK k \in 1..n : k = i + 1 + 1 BY <3>1
    <3>4. k # 1 /\ k - 1 = i + 1 BY <3>1, <3>3
    <3>5. loop[k] = loop[k - 1] \o parts[k] BY <2>3, <3>4
    <3>6. f[k] = f[k - 1] \o parts[k] BY <1>7
    <3> QED BY <3>2, <3>3, <3>4, <3>5, <3>6
  <2>6. A \in SUBSET Nat OBVIOUS
  <2>7. A = Nat
    <3> HIDE DEF A
    <3> QED BY <2>4, <2>5, <2>6, Inductive
  <2>8. n - 1 \in A /\ n - 1 + 1 = n
    <3> HIDE DEF A
    <3> QED BY <1>1, <1>10, <2>7
  <2>9. loop[n] = f[n] BY <1>1, <2>8
  <2> QED BY <1>6, <1>7, <1>8, <1>10, <2>9 DEF IsJoin, X, n
<1> QED BY <1>9, <1>10

Folds(f, x, s) ==
    /\ DOMAIN f = 0..Len(s) /\ f[0] = x
    /\ \A i \in 1..Len(s) : f[i] = Step(f[i - 1], s[i])

Fold(x, s) == FoldLeft(Step, x, s)

LEMMA MaxOfNumbers ==
  ASSUME NEW m \in Nat, NEW T \in SUBSET (1..m), T # {}
  PROVE  Max(T) \in T /\ \A t \in T : t <= Max(T)
<1> DEFINE B == {m - t : t \in T}
<1>1. B \in SUBSET Nat /\ B # {} OBVIOUS
<1>2. PICK b \in B : \A c \in B : b <= c BY <1>1, LeastNumber
<1>3. PICK t \in T : b = m - t BY <1>2
<1>4. \A u \in T : t >= u
  <2> SUFFICES ASSUME NEW u \in T PROVE t >= u OBVIOUS
  <2>1. m - t <= m - u BY <1>2, <1>3
  <2> QED BY <2>1
<1> HIDE DEF B
<1>5. \E y \in T : \A u \in T : y >= u BY <1>4
<1>6. Max(T) \in T /\ \A u \in T : Max(T) >= u BY <1>5, Zenon DEF Max
<1> QED BY <1>6

(* The table of FoldLeft: a value for each set of positions.                *)
Table(g, x, s, m) ==
    g = [T \in SUBSET (1..m) |-> IF T = {} THEN x ELSE Step(g[T \ {Max(T)}], s[Max(T)])]

LEMMA TableExists ==
  ASSUME NEW x, NEW s, NEW n \in Nat PROVE \E g : Table(g, x, s, n)
<1> DEFINE A == {m \in Nat : \E g : Table(g, x, s, m)}
<1>1. 0 \in A
  <2>1. PICK g : g = [T \in SUBSET (1..0) |-> x] OBVIOUS
  <2>2. \A T \in SUBSET (1..0) : T = {} OBVIOUS
  <2>3. Table(g, x, s, 0) BY <2>1, <2>2 DEF Table
  <2> QED BY <2>3
<1>2. ASSUME NEW m \in A PROVE m + 1 \in A
  <2>0. m \in Nat OBVIOUS
  <2>1. PICK g : Table(g, x, s, m) OBVIOUS
  <2> DEFINE h == [T \in SUBSET (1..m + 1) |->
                     IF m + 1 \in T THEN Step(g[T \ {m + 1}], s[m + 1]) ELSE g[T]]
  <2>2. ASSUME NEW T \in SUBSET (1..m + 1)
        PROVE  h[T] = IF T = {} THEN x ELSE Step(h[T \ {Max(T)}], s[Max(T)])
    <3>1. CASE m + 1 \in T
      <4>1. Max(T) = m + 1
        <5>1. Max(T) \in T /\ m + 1 <= Max(T) BY <2>0, <3>1, MaxOfNumbers
        <5>2. PICK k : k = Max(T) OBVIOUS
        <5>3. k \in 1..m + 1 /\ m + 1 <= k BY <5>1, <5>2
        <5>4. k = m + 1 BY <2>0, <5>3
        <5> QED BY <5>2, <5>4
      <4>2. T \ {m + 1} \in SUBSET (1..m + 1) /\ m + 1 \notin T \ {m + 1} /\ T # {} BY <3>1
      <4>3. h[T \ {m + 1}] = g[T \ {m + 1}] BY <4>2
      <4>4. h[T] = Step(g[T \ {m + 1}], s[m + 1]) BY <3>1
      <4> HIDE DEF h
      <4> QED BY <4>1, <4>2, <4>3, <4>4
    <3>2. CASE m + 1 \notin T
      <4>1. T \in SUBSET (1..m) BY <2>0, <3>2
      <4>2. h[T] = g[T] BY <3>2
      <4>3. g[T] = IF T = {} THEN x ELSE Step(g[T \ {Max(T)}], s[Max(T)])
        BY <2>1, <4>1 DEF Table
      <4>4. T \ {Max(T)} \in SUBSET (1..m + 1) /\ m + 1 \notin T \ {Max(T)} BY <3>2
      <4>5. h[T \ {Max(T)}] = g[T \ {Max(T)}] BY <4>4
      <4> HIDE DEF h
      <4> QED BY <4>2, <4>3, <4>5
    <3> QED BY <3>1, <3>2
  <2>3. DOMAIN h = SUBSET (1..m + 1) OBVIOUS
  <2>4. h = [T \in SUBSET (1..m + 1) |-> h[T]] OBVIOUS
  <2> HIDE DEF h
  <2>5. h = [T \in SUBSET (1..m + 1) |-> IF T = {} THEN x ELSE Step(h[T \ {Max(T)}], s[Max(T)])]
    BY <2>2, <2>4, Zenon
  <2>6. Table(h, x, s, m + 1) BY <2>5, Zenon DEF Table
  <2> QED BY <2>0, <2>6
<1>3. A \in SUBSET Nat OBVIOUS
<1>4. A = Nat
  <2> HIDE DEF A
  <2> QED BY <1>1, <1>2, <1>3, Inductive
<1> QED BY <1>4

THEOREM FoldLeftSteps ==
  ASSUME NEW s, NEW x, Len(s) \in Nat, DOMAIN s = 1..Len(s)
  PROVE  \E f : Folds(f, x, s) /\ Fold(x, s) = f[Len(s)]
<1> DEFINE n == Len(s)
<1>1. PICK g : g = CHOOSE h : h = [T \in SUBSET (DOMAIN s) |->
          IF T = {} THEN x ELSE Step(h[T \ {Max(T)}], s[Max(T)])]
  OBVIOUS
<1>2. Table(g, x, s, n)
  <2>1. \E h : Table(h, x, s, n) BY TableExists
  <2> QED BY <1>1, <2>1, Zenon DEF Table
<1>3. Fold(x, s) = g[DOMAIN s]
  BY <1>1, Zenon DEF Fold, FoldLeft, MapThenFoldSet
<1> DEFINE f == [i \in 0..n |-> g[1..i]]
<1>4. f[0] = x
  <2>1. 1..0 = {} OBVIOUS
  <2>2. g[{}] = x BY <1>2 DEF Table
  <2> QED BY <2>1, <2>2
<1>5. ASSUME NEW i \in 1..n PROVE f[i] = Step(f[i - 1], s[i])
  <2>1. 1..i \in SUBSET (1..n) /\ i \in 1..i OBVIOUS
  <2>2. Max(1..i) = i
    <3>1. Max(1..i) \in 1..i /\ i <= Max(1..i) BY <2>1, MaxOfNumbers
    <3> QED BY <3>1
  <2>3. (1..i) \ {i} = 1..i - 1 OBVIOUS
  <2>4. g[1..i] = Step(g[(1..i) \ {Max(1..i)}], s[Max(1..i)])
    <3>1. 1..i # {} BY <2>1
    <3> QED BY <1>2, <2>1, <3>1 DEF Table
  <2>5. f[i] = g[1..i] /\ f[i - 1] = g[1..i - 1] OBVIOUS
  <2> HIDE DEF f
  <2> QED BY <2>2, <2>3, <2>4, <2>5
<1>6. DOMAIN f = 0..n /\ f[n] = g[DOMAIN s] OBVIOUS
<1> HIDE DEF f
<1> QED BY <1>3, <1>4, <1>5, <1>6 DEF Folds

(* What holds before the first step and is kept by each holds all along.    *)
LEMMA FoldsStay ==
  ASSUME NEW f, NEW s, NEW A, NEW x \in A, Len(s) \in Nat, Folds(f, x, s),
         \A a \in A : \A i \in 1..Len(s) : Step(a, s[i]) \in A
  PROVE  \A n \in 0..Len(s) : f[n] \in A
<1> TAKE n \in 0..Len(s)
<1> DEFINE B == {i \in 0..n : f[i] \in A}
<1>1. n \in Nat /\ 0 \in B BY DEF Folds
<1>2. ASSUME NEW i \in 1..n, i - 1 \in B PROVE i \in B BY <1>2 DEF Folds
<1>3. n \in B
  <2> HIDE DEF B
  <2> QED BY <1>1, <1>2, Upto
<1> QED BY <1>3

LEMMA FoldStays ==
  ASSUME NEW s, NEW A, NEW x \in A, Len(s) \in Nat, DOMAIN s = 1..Len(s),
         \A a \in A : \A i \in 1..Len(s) : Step(a, s[i]) \in A
  PROVE  Fold(x, s) \in A
<1>1. PICK f : Folds(f, x, s) /\ Fold(x, s) = f[Len(s)] BY FoldLeftSteps
<1>2. f[Len(s)] \in A BY <1>1, FoldsStay
<1> QED BY <1>1, <1>2

(* A fold over no element, and over one element more.                       *)
LEMMA FoldEmpty == ASSUME NEW x PROVE Fold(x, <<>>) = x
<1>1. PICK s : s = <<>> OBVIOUS
<1>2. Len(s) = 0 /\ DOMAIN s = 1..Len(s) BY <1>1
<1>3. PICK f : Folds(f, x, s) /\ Fold(x, s) = f[Len(s)] BY <1>2, FoldLeftSteps
<1> QED BY <1>1, <1>2, <1>3 DEF Folds

LEMMA FoldAppend ==
  ASSUME NEW S, NEW s \in Seq(S), NEW e, NEW x
  PROVE  Fold(x, Append(s, e)) = Step(Fold(x, s), e)
<1> DEFINE n == Len(s)
<1>1. n \in Nat /\ DOMAIN s = 1..n OBVIOUS
<1>2. PICK t : t = Append(s, e) OBVIOUS
<1>3. /\ Len(t) = n + 1 /\ DOMAIN t = 1 .. Len(t) /\ t[n + 1] = e
      /\ \A i \in 1..n : t[i] = s[i]
  <2> DEFINE T == S \cup {e}
  <2>1. s \in Seq(T) /\ e \in T OBVIOUS
  <2> HIDE DEF T
  <2>2. t \in Seq(T) BY <1>2, <2>1, AppendProperties
  <2> QED BY <1>2, <2>1, <2>2, AppendProperties
<1>4. PICK f : Folds(f, x, s) /\ Fold(x, s) = f[n] BY <1>1, FoldLeftSteps
<1>5. PICK g : Folds(g, x, t) /\ Fold(x, t) = g[n + 1]
  <2>1. Len(t) \in Nat BY <1>1, <1>3
  <2>2. \E g : Folds(g, x, t) /\ Fold(x, t) = g[Len(t)] BY <1>3, <2>1, FoldLeftSteps
  <2> QED BY <1>3, <2>2
<1> DEFINE A == {i \in 0..n : g[i] = f[i]}
<1>6. 0 \in A BY <1>1, <1>4, <1>5 DEF Folds
<1>7. ASSUME NEW i \in 1..n, i - 1 \in A PROVE i \in A
  <2>1. i \in 1..Len(t) BY <1>1, <1>3
  <2>2. g[i] = Step(g[i - 1], t[i]) BY <1>5, <2>1 DEF Folds
  <2>3. f[i] = Step(f[i - 1], s[i]) BY <1>4 DEF Folds
  <2>4. t[i] = s[i] /\ g[i - 1] = f[i - 1] BY <1>3, <1>7
  <2> QED BY <2>2, <2>3, <2>4
<1>8. n \in A
  <2> HIDE DEF A, n
  <2> QED BY <1>1, <1>6, <1>7, Upto
<1>9. n + 1 \in 1..Len(t) /\ n + 1 - 1 = n BY <1>1, <1>3
<1>10. g[n + 1] = Step(g[n + 1 - 1], t[n + 1]) BY <1>5, <1>9 DEF Folds
<1> QED BY <1>2, <1>3, <1>4, <1>5, <1>8, <1>9, <1>10

(* And sequences put after each other, with one more.                       *)
LEMMA FlattenAppend ==
  ASSUME NEW S, NEW parts \in Seq(Seq(S)), NEW part \in Seq(S)
  PROVE  FlattenSeq(Append(parts, part)) = FlattenSeq(parts) \o part
<1> DEFINE n == Len(parts)
<1>1. n \in Nat OBVIOUS
<1>2. PICK t : t = Append(parts, part) OBVIOUS
<1>3. t \in Seq(Seq(S)) /\ Len(t) = n + 1 /\ t[n + 1] = part /\ \A i \in 1..n : t[i] = parts[i]
  <2> DEFINE T == Seq(S)
  <2>1. parts \in Seq(T) /\ part \in T OBVIOUS
  <2> HIDE DEF T
  <2>2. t \in Seq(T) /\ Len(t) = Len(parts) + 1 /\ t[Len(parts) + 1] = part
        /\ \A i \in 1..Len(parts) : t[i] = parts[i]
    BY <1>2, <2>1, AppendProperties
  <2> QED BY <2>2 DEF T
<1>4. PICK f : IsJoin(S, parts, f) /\ FlattenSeq(parts) = f[n] BY Flattened
<1>5. PICK g : IsJoin(S, t, g) /\ FlattenSeq(t) = g[n + 1] BY <1>3, Flattened
<1> DEFINE A == {i \in 0..n : g[i] = f[i]}
<1>6. 0 \in A BY <1>1, <1>4, <1>5 DEF IsJoin
<1>7. ASSUME NEW i \in 1..n, i - 1 \in A PROVE i \in A
  <2>1. i \in 1..Len(t) BY <1>1, <1>3
  <2>2. g[i] = g[i - 1] \o t[i] BY <1>5, <2>1 DEF IsJoin
  <2>3. f[i] = f[i - 1] \o parts[i] BY <1>4 DEF IsJoin
  <2>4. t[i] = parts[i] /\ g[i - 1] = f[i - 1] BY <1>3, <1>7
  <2>5. g[i] = f[i] BY <2>2, <2>3, <2>4, Zenon
  <2> QED BY <2>5
<1>8. n \in A
  <2> HIDE DEF A, n
  <2> QED BY <1>1, <1>6, <1>7, Upto
<1>9. n + 1 \in 1..Len(t) /\ n + 1 - 1 = n BY <1>1, <1>3
<1>10. PICK m \in 1..Len(t) : m = n + 1 BY <1>9
<1>11. g[m] = g[m - 1] \o t[m] BY <1>5 DEF IsJoin
<1>12. m - 1 = n BY <1>1, <1>10
<1>13. g[m] = f[n] \o part
  <2> HIDE DEF n
  <2>1. g[m - 1] = f[n] /\ t[m] = part BY <1>3, <1>8, <1>10, <1>12
  <2> QED BY <1>11, <2>1, Zenon
<1> QED BY <1>2, <1>4, <1>5, <1>10, <1>13
=============================================================================
