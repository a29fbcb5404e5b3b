-------------------------- MODULE CommandLineProofs --------------------------
(***************************************************************************)
(* CommandLine, for any command lines: is_decimal_literal accepts just the *)
(* language of the grammar that is written above it, a port is the number  *)
(* its digits write, and the program does what its command line means.     *)
(*                                                                         *)
(* The outcome is proved from IInv: the words before the parser's place    *)
(* have been read, and nothing more.  What has been read is a beginning    *)
(* (Begins) of the items that the command line asks for; Read relates it   *)
(* to used and values.  What a step refuses, or exits for, is the first    *)
(* item that cannot be or that asks for it, whatever comes after.          *)
(***************************************************************************)
EXTENDS CommandLine, SequenceTheorems, WellFoundedInduction, TLAPS

DigitChars == {"0", "1", "2", "3", "4", "5", "6", "7", "8", "9"}

\* What IsDigit accepts.
LEMMA DigitSet == ToSet(Digits) = DigitChars /\ \A c : IsDigit(c) <=> c \in DigitChars
BY DEF IsDigit, ToSet, Digits, DigitChars

\* The least element of a set of numbers.
LEMMA LeastOf ==
  ASSUME NEW S \in SUBSET Nat, S # {}
  PROVE  Min(S) \in S /\ \A m \in S : Min(S) <= m
<1>1. PICK n \in S : \A m \in S : ~(<<m, n>> \in OpToRel(<, Nat))
  BY NatLessThanWellFounded, WFMin
<1>2. \A m \in S : ~(m < n)
  BY <1>1 DEF OpToRel
<1>3. \E x \in S : \A y \in S : x <= y
  BY <1>2
<1> QED
  BY <1>3 DEF Min

-----------------------------------------------------------------------------
(* Recursion over the beginnings of a sequence *)

\* Counting up: induction, as a fact about a set of numbers.
LEMMA CountingUp ==
  ASSUME NEW n \in Nat, NEW P, 0 \in P, \A i \in 1 .. n : i - 1 \in P => i \in P
  PROVE  \A i \in 0 .. n : i \in P
<1> DEFINE T == {i \in 0 .. n : i \notin P}
<1>1. ASSUME T # {} PROVE FALSE
  <2>1. T \in SUBSET Nat
    OBVIOUS
  <2> DEFINE m == Min(T)
  <2>2. m \in T /\ \A i \in T : m <= i
    BY <1>1, <2>1, LeastOf
  <2> HIDE DEF m
  <2>3. m # 0 /\ m \in 1 .. n /\ m - 1 \in 0 .. n /\ ~(m <= m - 1)
    BY <2>1, <2>2
  <2>4. m - 1 \in P
    BY <2>2, <2>3
  <2> QED
    BY <2>2, <2>3, <2>4
<1> QED
  BY <1>1

\* f has a value for every beginning, from a base and a step.
StepsUp(f, n, S, base, step) ==
  /\ f \in [0 .. n -> S] /\ f[0] = base
  /\ \A i \in 1 .. n : f[i] = step[i][f[i - 1]]

\* There is a function that is built step by step, for any number of steps.
LEMMA StepByStep ==
  ASSUME NEW n \in Nat, NEW S, NEW base \in S, NEW step \in [1 .. n -> [S -> S]]
  PROVE  \E f : StepsUp(f, n, S, base, step)
<1> DEFINE Until(f, k) == StepsUp(f, k, S, base, step)
           P == {k \in 0 .. n : \E f : Until(f, k)}
<1>1. 0 \in P
  <2>1. Until([i \in 0 .. 0 |-> base], 0)
    BY DEF StepsUp
  <2> HIDE DEF Until
  <2>2. \E f : Until(f, 0)
    BY <2>1
  <2> QED
    BY <2>2
<1>2. ASSUME NEW k \in 1 .. n, k - 1 \in P PROVE k \in P
  <2>1. PICK f : Until(f, k - 1)
    BY <1>2
  <2> DEFINE g == [i \in 0 .. k |-> IF i = k THEN step[k][f[k - 1]] ELSE f[i]]
  <2>2. f[k - 1] \in S /\ step[k][f[k - 1]] \in S
    BY <2>1 DEF StepsUp
  <2>3. g \in [0 .. k -> S] /\ g[0] = base
    BY <2>1, <2>2 DEF StepsUp
  <2>4. ASSUME NEW i \in 1 .. k PROVE g[i] = step[i][g[i - 1]]
    <3>1. CASE i = k
      <4>1. g[k] = step[k][f[k - 1]] /\ g[k - 1] = f[k - 1]
        OBVIOUS
      <4> QED
        BY <3>1, <4>1
    <3>2. CASE i # k
      <4>1. i \in 1 .. k - 1 /\ g[i] = f[i] /\ g[i - 1] = f[i - 1]
        BY <3>2
      <4> QED
        BY <2>1, <4>1 DEF StepsUp
    <3> QED
      BY <3>1, <3>2
  <2>5. Until(g, k)
    BY <2>3, <2>4 DEF StepsUp
  <2> HIDE DEF Until
  <2>6. \E h : Until(h, k)
    BY <2>5
  <2> QED
    BY <2>6
<1> HIDE DEF P
<1>3. n \in P
  <2>1. n \in 0 .. n
    OBVIOUS
  <2> QED
    BY <1>1, <1>2, <2>1, CountingUp
<1> QED
  BY <1>3 DEF P

\* FlattenSeq, beginning by beginning.
LEMMA Flattening ==
  ASSUME NEW T, NEW ss \in Seq(Seq(T))
  PROVE  \E f \in [0 .. Len(ss) -> Seq(T)] :
           /\ f[0] = << >> /\ f[Len(ss)] = FlattenSeq(ss)
           /\ \A i \in 1 .. Len(ss) : f[i] = f[i - 1] \o ss[i]
<1> DEFINE n == Len(ss)
<1>1. n \in Nat /\ \A i \in 1 .. n : ss[i] \in Seq(T)
  BY LenProperties, ElementOfSeq
<1> HIDE DEF n
<1> DEFINE step == [i \in 1 .. n |-> [x \in Seq(T) |-> x \o ss[i]]]
<1>2. step \in [1 .. n -> [Seq(T) -> Seq(T)]]
  BY <1>1, ConcatProperties
<1>3. PICK f \in [0 .. n -> Seq(T)] :
        f[0] = << >> /\ \A i \in 1 .. n : f[i] = step[i][f[i - 1]]
  <2> DEFINE none == << >>
             S == Seq(T)
  <2>1. n \in Nat /\ none \in S /\ step \in [1 .. n -> [S -> S]]
    BY <1>1, <1>2, EmptySeq
  <2> HIDE DEF step, none, S
  <2>2. PICK f : StepsUp(f, n, S, none, step)
    BY <2>1, StepByStep
  <2> QED
    BY <2>2 DEF StepsUp, none, S
<1>4. ASSUME NEW i \in 1 .. n
      PROVE  f[i] = f[i - 1] \o ss[i] /\ f[i - 1] \in Seq(T)
  <2>1. i - 1 \in 0 .. n
    BY <1>1
  <2>2. f[i - 1] \in Seq(T)
    BY <2>1
  <2>3. f[i] = step[i][f[i - 1]]
    BY <1>3
  <2> QED
    BY <2>2, <2>3
<1>f. 1 - 1 = 0 /\ (n # 0 => 1 \in 1 .. n)
  BY <1>1
<1>g. n # 0 => f[1] = ss[1]
  <2>1. n # 0 => f[1] = f[0] \o ss[1] /\ ss[1] \in Seq(T)
    BY <1>1, <1>4, <1>f
  <2>2. n # 0 => << >> \o ss[1] = ss[1]
    BY <2>1, ConcatEmptySeq
  <2> QED
    BY <1>3, <2>1, <2>2
<1>5. f[n] = FlattenSeq(ss)
  <2>1. CASE n = 0
    <3>1. ss = << >> /\ FlattenSeq(ss) = ss
      BY <2>1, EmptySeq DEF FlattenSeq, n
    <3> QED
      BY <1>3, <2>1, <3>1
  <2>2. CASE n # 0
    <3> DEFINE Is(h) == h = [i \in 1 .. n |-> IF i = 1 THEN ss[i] ELSE h[i - 1] \o ss[i]]
               g == CHOOSE h : Is(h)
    <3>1. FlattenSeq(ss) = g[n]
      BY <2>2 DEF FlattenSeq, n
    <3>2. Is([i \in 1 .. n |-> f[i]])
      <4> DEFINE h == [i \in 1 .. n |-> f[i]]
      <4>1. ASSUME NEW i \in 1 .. n
            PROVE  f[i] = IF i = 1 THEN ss[i] ELSE h[i - 1] \o ss[i]
        <5>1. CASE i = 1
          BY <1>f, <1>g, <2>2, <5>1
        <5>2. CASE i # 1
          <6>1. i - 1 \in 1 .. n
            BY <1>1, <5>2
          <6>2. h[i - 1] = f[i - 1]
            BY <6>1
          <6> QED
            BY <1>4, <5>2, <6>2
        <5> QED
          BY <5>1, <5>2
      <4> QED
        BY <4>1
    <3> HIDE DEF Is
    <3>3. Is(g)
      BY <3>2
    <3> HIDE DEF g
    <3>4. \A i \in 1 .. n : g[i] = IF i = 1 THEN ss[i] ELSE g[i - 1] \o ss[i]
      BY <3>3 DEF Is
    <3> DEFINE P == {i \in 0 .. n : i # 0 => g[i] = f[i]}
    <3>5. 0 \in P
      BY <1>1
    <3>6. ASSUME NEW i \in 1 .. n, i - 1 \in P PROVE i \in P
      <4>1. CASE i = 1
        <5>1. g[1] = ss[1]
          BY <3>4, <4>1
        <5> QED
          BY <1>g, <2>2, <4>1, <5>1
      <4>2. CASE i # 1
        <5>1. g[i] = g[i - 1] \o ss[i] /\ f[i] = f[i - 1] \o ss[i]
          BY <1>4, <3>4, <4>2
        <5>2. g[i - 1] = f[i - 1]
          BY <3>6, <4>2
        <5> QED
          <6>1. g[i] = f[i]
            BY <5>1, <5>2, Zenon
          <6> QED
            BY <1>1, <6>1
      <4> QED
        BY <4>1, <4>2
    <3> HIDE DEF P
    <3>7. n \in P
      <4>1. n \in 0 .. n
        BY <1>1
      <4> QED
        BY <1>1, <3>5, <3>6, <4>1, CountingUp
    <3> QED
      BY <2>2, <3>1, <3>7 DEF P
  <2> QED
    BY <2>1, <2>2
<1> QED
  BY <1>1, <1>3, <1>4, <1>5 DEF n

\* One more sequence in a row of them is appended to what the row gives.
LEMMA FlattenSnoc ==
  ASSUME NEW T, NEW ss \in Seq(Seq(T)), NEW x \in Seq(T)
  PROVE  /\ FlattenSeq(ss) \in Seq(T)
         /\ FlattenSeq(Append(ss, x)) = FlattenSeq(ss) \o x
<1> DEFINE n == Len(ss)
           tt == Append(ss, x)
<1>1. /\ n \in Nat /\ tt \in Seq(Seq(T)) /\ Len(tt) = n + 1
      /\ \A i \in 1 .. n : tt[i] = ss[i]
      /\ tt[n + 1] = x
  BY LenProperties, AppendProperties
<1>2. PICK f \in [0 .. n -> Seq(T)] :
        /\ f[0] = << >> /\ f[n] = FlattenSeq(ss)
        /\ \A i \in 1 .. n : f[i] = f[i - 1] \o ss[i]
  BY Flattening
<1> HIDE DEF tt
<1>3. PICK g \in [0 .. Len(tt) -> Seq(T)] :
        /\ g[0] = << >> /\ g[Len(tt)] = FlattenSeq(tt)
        /\ \A i \in 1 .. Len(tt) : g[i] = g[i - 1] \o tt[i]
  BY <1>1, Flattening
<1> HIDE DEF n
<1> DEFINE P == {i \in 0 .. n : g[i] = f[i]}
<1>4. 0 \in P
  BY <1>1, <1>2, <1>3
<1>5. ASSUME NEW i \in 1 .. n, i - 1 \in P PROVE i \in P
  <2>1. i \in 1 .. Len(tt)
    BY <1>1
  <2>2. g[i] = g[i - 1] \o tt[i] /\ f[i] = f[i - 1] \o ss[i]
    BY <1>2, <1>3, <2>1
  <2>3. g[i - 1] = f[i - 1] /\ tt[i] = ss[i]
    BY <1>1, <1>5
  <2>4. g[i] = f[i]
    BY <2>2, <2>3, Zenon
  <2> QED
    BY <1>1, <2>4
<1> HIDE DEF P
<1>6. n \in P
  <2>1. n \in 0 .. n
    BY <1>1
  <2> QED
    BY <1>1, <1>4, <1>5, <2>1, CountingUp
<1>7. g[n + 1] = g[n] \o x
  <2> DEFINE m == n + 1
  <2>1. m \in 1 .. Len(tt) /\ m - 1 = n
    BY <1>1
  <2> HIDE DEF m
  <2>2. g[m] = g[m - 1] \o tt[m]
    BY <1>3, <2>1
  <2>3. g[m] = g[n] \o tt[m]
    BY <2>1, <2>2
  <2> QED
    BY <1>1, <2>3 DEF m
<1>8. f[n] \in Seq(T)
  BY <1>1, <1>2
<1> QED
  BY <1>1, <1>2, <1>3, <1>6, <1>7, <1>8 DEF P, tt

\* An empty row gives nothing.
LEMMA FlattenNothing == FlattenSeq(<< >>) = << >>
BY EmptySeq DEF FlattenSeq

-----------------------------------------------------------------------------
(* consume_digits *)

\* It stops before the first character that is no digit.
LEMMA DropDigitsStops ==
  ASSUME NEW s \in Seq(STRING)
  PROVE  \E k \in 0 .. Len(s) :
           /\ \A i \in 1 .. k : IsDigit(s[i])
           /\ k < Len(s) => ~IsDigit(s[k + 1])
           /\ DropDigits(s) = SubSeq(s, k + 1, Len(s))
<1> DEFINE I == {i \in 1 .. Len(s) : ~IsDigit(s[i])}
<1>1. Len(s) \in Nat /\ I \in SUBSET Nat
  BY LenProperties
<1>2. DropDigits(s) = LET i == IF I # {} THEN Min(I) ELSE 0
                      IN  IF i = 0 THEN << >> ELSE SubSeq(s, i, Len(s))
  BY DEF DropDigits, SelectInSeq
<1>3. CASE I = {}
  <2>1. DropDigits(s) = << >>
    BY <1>2, <1>3
  <2>2. SubSeq(s, Len(s) + 1, Len(s)) = << >>
    BY <1>1, SubSeqEmpty
  <2>3. \A i \in 1 .. Len(s) : IsDigit(s[i])
    BY <1>3
  <2> QED
    BY <1>1, <2>1, <2>2, <2>3
<1>4. CASE I # {}
  <2> DEFINE m == Min(I)
  <2>1. m \in I /\ \A i \in I : m <= i
    BY <1>1, <1>4, LeastOf
  <2>2. DropDigits(s) = SubSeq(s, m, Len(s))
    <3>1. m # 0
      BY <1>1, <2>1
    <3> QED
      BY <1>2, <1>4, <3>1
  <2> HIDE DEF m
  <2>3. m - 1 \in 0 .. Len(s) /\ m - 1 + 1 = m
    BY <1>1, <2>1
  <2>4. \A i \in 1 .. m - 1 : IsDigit(s[i])
    BY <1>1, <2>1
  <2> QED
    BY <2>1, <2>2, <2>3, <2>4
<1> QED
  BY <1>3, <1>4

\* A word, cut in two.
LEMMA Cut ==
  ASSUME NEW s \in Seq(STRING), NEW k \in 0 .. Len(s)
  PROVE  LET l == SubSeq(s, 1, k)
             r == SubSeq(s, k + 1, Len(s))
         IN  /\ l \in Seq(STRING) /\ DOMAIN l = 1 .. k /\ (l = << >> <=> k = 0)
             /\ \A i \in 1 .. k : l[i] = s[i]
             /\ k > 0 => Head(l) = s[1]
             /\ r \in Seq(STRING) /\ (r = << >> <=> k = Len(s))
             /\ k < Len(s) => Head(r) = s[k + 1]
<1> DEFINE l == SubSeq(s, 1, k)
           r == SubSeq(s, k + 1, Len(s))
<1>1. Len(s) \in Nat /\ k \in Nat /\ \A i \in 1 .. Len(s) : s[i] \in STRING
  BY LenProperties, ElementOfSeq
<1>2. l \in Seq(STRING) /\ Len(l) = k /\ \A i \in 1 .. k : l[i] = s[i]
  BY <1>1, SubSeqProperties
<1>3. r \in Seq(STRING) /\ Len(r) = Len(s) - k
      /\ \A i \in 1 .. Len(s) - k : r[i] = s[k + i]
  <2>1. \A i \in k + 1 .. Len(s) : s[i] \in STRING
    BY <1>1
  <2>2. /\ r \in Seq(STRING)
        /\ Len(r) = IF k + 1 <= Len(s) THEN Len(s) - (k + 1) + 1 ELSE 0
        /\ \A i \in 1 .. Len(s) - (k + 1) + 1 : r[i] = s[k + 1 + i - 1]
    BY <1>1, <2>1, SubSeqProperties
  <2> QED
    BY <1>1, <2>2
<1> HIDE DEF l, r
<1>4. (l = << >> <=> k = 0) /\ (r = << >> <=> k = Len(s))
  BY <1>1, <1>2, <1>3, EmptySeq
<1>5. DOMAIN l = 1 .. k
  BY <1>2, LenProperties
<1>6. k > 0 => Head(l) = s[1]
  BY <1>1, <1>2
<1>7. k < Len(s) => Head(r) = s[k + 1]
  BY <1>1, <1>3
<1> QED
  BY <1>1, <1>2, <1>3, <1>4, <1>5, <1>6, <1>7 DEF l, r

\* Is its first part a sequence of digits?
LEMMA CutDigits ==
  ASSUME NEW s \in Seq(STRING), NEW k \in 0 .. Len(s)
  PROVE  IsDigitSequence(SubSeq(s, 1, k)) <=> k > 0 /\ \A i \in 1 .. k : IsDigit(s[i])
<1> DEFINE l == SubSeq(s, 1, k)
<1>1. /\ DOMAIN l = 1 .. k /\ (l = << >> <=> k = 0)
      /\ \A i \in 1 .. k : l[i] = s[i]
  BY Cut
<1>2. k \in Nat
  BY LenProperties
<1> HIDE DEF l
<1>3. IsDigitSequence(l) <=> k > 0 /\ \A i \in 1 .. k : IsDigit(s[i])
  <2>1. (\A i \in DOMAIN l : IsDigit(l[i])) <=> \A i \in 1 .. k : IsDigit(s[i])
    BY <1>1
  <2>2. l # << >> <=> k > 0
    BY <1>1, <1>2
  <2> QED
    BY <2>1, <2>2 DEF IsDigitSequence
<1> QED
  BY <1>3 DEF l

\* StartsWith and what is built of it, by the index of a character.
LEMMA StartsWithMeans ==
  ASSUME NEW s \in Seq(STRING), NEW C
  PROVE  StartsWith(s, C) <=> Len(s) > 0 /\ s[1] \in C
<1>1. s # << >> <=> Len(s) > 0
  BY EmptySeq, LenProperties
<1>2. Head(s) = s[1]
  OBVIOUS
<1> QED
  BY <1>1, <1>2 DEF StartsWith

\* The same of a digit.
LEMMA StartsWithDigitMeans ==
  ASSUME NEW s \in Seq(STRING)
  PROVE  StartsWithDigit(s) <=> Len(s) > 0 /\ IsDigit(s[1])
BY StartsWithMeans DEF StartsWithDigit, IsDigit

\* A digit sequence is not empty and has digits everywhere.
LEMMA IsDigitSequenceMeans ==
  ASSUME NEW s \in Seq(STRING)
  PROVE  IsDigitSequence(s) <=> Len(s) > 0 /\ \A i \in 1 .. Len(s) : IsDigit(s[i])
BY EmptySeq, LenProperties DEF IsDigitSequence

\* There is only one place where it can stop.
LEMMA StopsThere ==
  ASSUME NEW s \in Seq(STRING), NEW i \in 0 .. Len(s),
         \A j \in 1 .. i : IsDigit(s[j]),
         i < Len(s) => ~IsDigit(s[i + 1])
  PROVE  DropDigits(s) = SubSeq(s, i + 1, Len(s))
<1>1. PICK k \in 0 .. Len(s) :
        /\ \A j \in 1 .. k : IsDigit(s[j])
        /\ k < Len(s) => ~IsDigit(s[k + 1])
        /\ DropDigits(s) = SubSeq(s, k + 1, Len(s))
  BY DropDigitsStops
<1>2. Len(s) \in Nat
  BY LenProperties
<1>3. k = i
  BY <1>1, <1>2
<1> QED
  BY <1>1, <1>3

\* What is left, if anything, does not begin with a digit.
LEMMA WhatIsLeft ==
  ASSUME NEW s \in Seq(STRING)
  PROVE  /\ DropDigits(s) \in Seq(STRING)
         /\ ~StartsWithDigit(DropDigits(s))
<1>1. PICK k \in 0 .. Len(s) :
        /\ k < Len(s) => ~IsDigit(s[k + 1])
        /\ DropDigits(s) = SubSeq(s, k + 1, Len(s))
  BY DropDigitsStops
<1>2. Len(s) \in Nat
  BY LenProperties
<1>3. /\ DropDigits(s) \in Seq(STRING)
      /\ DropDigits(s) = << >> <=> k = Len(s)
      /\ k < Len(s) => Head(DropDigits(s)) = s[k + 1]
  BY <1>1, Cut
<1> QED
  BY <1>1, <1>2, <1>3 DEF StartsWithDigit, StartsWith, IsDigit

\* A word of digits and then something else, or nothing, read by its parts.
LEMMA DigitsAndRest ==
  ASSUME NEW s \in Seq(STRING), NEW i \in 0 .. Len(s),
         IsDigitSequence(SubSeq(s, 1, i)),
         ~StartsWithDigit(SubSeq(s, i + 1, Len(s)))
  PROVE  StartsWithDigit(s) /\ DropDigits(s) = SubSeq(s, i + 1, Len(s))
<1>1. Len(s) \in Nat
  BY LenProperties
<1>2. i > 0 /\ \A j \in 1 .. i : IsDigit(s[j])
  BY CutDigits
<1>3. i < Len(s) => ~IsDigit(s[i + 1])
  BY <1>1, Cut DEF StartsWithDigit, StartsWith, IsDigit
<1>4. StartsWithDigit(s)
  BY <1>1, <1>2, StartsWithDigitMeans
<1> QED
  BY <1>2, <1>3, <1>4, StopsThere

\* And the other way round.
LEMMA DigitsCutOff ==
  ASSUME NEW s \in Seq(STRING), StartsWithDigit(s)
  PROVE  \E i \in 0 .. Len(s) :
           IsDigitSequence(SubSeq(s, 1, i)) /\ DropDigits(s) = SubSeq(s, i + 1, Len(s))
<1>1. PICK k \in 0 .. Len(s) :
        /\ \A j \in 1 .. k : IsDigit(s[j])
        /\ k < Len(s) => ~IsDigit(s[k + 1])
        /\ DropDigits(s) = SubSeq(s, k + 1, Len(s))
  BY DropDigitsStops
<1>2. Len(s) \in Nat /\ Len(s) > 0 /\ IsDigit(s[1])
  BY LenProperties, StartsWithDigitMeans
<1>3. k > 0
  BY <1>1, <1>2
<1>4. IsDigitSequence(SubSeq(s, 1, k))
  BY <1>1, <1>3, CutDigits
<1> QED
  BY <1>1, <1>4

\* A word is a digit sequence exactly if skipping digits leaves nothing of it.
LEMMA NothingLeft ==
  ASSUME NEW s \in Seq(STRING)
  PROVE  IsDigitSequence(s) <=> StartsWithDigit(s) /\ DropDigits(s) = << >>
<1>1. PICK k \in 0 .. Len(s) :
        /\ \A j \in 1 .. k : IsDigit(s[j])
        /\ k < Len(s) => ~IsDigit(s[k + 1])
        /\ DropDigits(s) = SubSeq(s, k + 1, Len(s))
  BY DropDigitsStops
<1>2. Len(s) \in Nat /\ (DropDigits(s) = << >> <=> k = Len(s))
  BY <1>1, LenProperties, Cut
<1>3. (\A i \in 1 .. Len(s) : IsDigit(s[i])) <=> k = Len(s)
  BY <1>1, <1>2
<1> QED
  BY <1>2, <1>3, IsDigitSequenceMeans, StartsWithDigitMeans

\* Whether the first digit is dropped before or not.
LEMMA DropDigitsOfTail ==
  ASSUME NEW s \in Seq(STRING), StartsWithDigit(s)
  PROVE  Tail(s) \in Seq(STRING) /\ DropDigits(Tail(s)) = DropDigits(s)
<1>1. Len(s) \in Nat /\ Len(s) > 0 /\ IsDigit(s[1]) /\ s # << >>
  BY LenProperties, StartsWithDigitMeans DEF StartsWithDigit, StartsWith
<1>2. /\ Tail(s) \in Seq(STRING) /\ Len(Tail(s)) = Len(s) - 1
      /\ \A i \in 1 .. Len(Tail(s)) : Tail(s)[i] = s[i + 1]
  BY <1>1, HeadTailProperties
<1>3. PICK k \in 0 .. Len(Tail(s)) :
        /\ \A j \in 1 .. k : IsDigit(Tail(s)[j])
        /\ k < Len(Tail(s)) => ~IsDigit(Tail(s)[k + 1])
        /\ DropDigits(Tail(s)) = SubSeq(Tail(s), k + 1, Len(Tail(s)))
  BY <1>2, DropDigitsStops
<1>4. k + 1 \in 0 .. Len(s)
  BY <1>1, <1>2, <1>3
<1>5. \A j \in 1 .. k + 1 : IsDigit(s[j])
  <2> SUFFICES ASSUME NEW j \in 1 .. k + 1, j # 1 PROVE IsDigit(s[j])
    BY <1>1
  <2>1. j - 1 \in 1 .. k /\ j - 1 \in 1 .. Len(Tail(s)) /\ j - 1 + 1 = j
    BY <1>2, <1>3, <1>1
  <2> QED
    BY <1>2, <1>3, <2>1
<1>6. k + 1 < Len(s) => ~IsDigit(s[k + 1 + 1])
  BY <1>1, <1>2, <1>3
<1>7. DropDigits(s) = SubSeq(s, k + 1 + 1, Len(s))
  BY <1>4, <1>5, <1>6, StopsThere
<1>8. SubSeq(Tail(s), k + 1, Len(Tail(s))) = SubSeq(s, k + 1 + 1, Len(s))
  BY <1>1, <1>2, <1>3, <1>4
<1> QED
  BY <1>2, <1>3, <1>7, <1>8

-----------------------------------------------------------------------------
(* Every label of is_decimal_literal, and the rule of the grammar it stands  *)
(* for                                                                       *)

\* What is left of a word after its first character is a word.
LEMMA TailIsWord ==
  ASSUME NEW s \in Seq(STRING), NEW C, StartsWith(s, C)
  PROVE  Tail(s) \in Seq(STRING) /\ s # << >>
BY HeadTailProperties DEF StartsWith

\* A sign is no digit, nor is the letter of an exponent or a point.
LEMMA NoDigits ==
  ASSUME NEW s \in Seq(STRING)
  PROVE  /\ StartsWith(s, {"+", "-"}) => ~StartsWithDigit(s)
         /\ StartsWith(s, {"e", "E"}) => ~StartsWithDigit(s) /\ ~StartsWith(s, {"."})
         /\ StartsWith(s, {"."}) => ~StartsWithDigit(s)
BY DigitSet DEF StartsWith, StartsWithDigit, DigitChars

\* post_e
LEMMA PostEMeans ==
  ASSUME NEW s \in Seq(STRING)
  PROVE  PostE(s) <=> \/ IsDigitSequence(s)
                      \/ StartsWith(s, {"+", "-"}) /\ IsDigitSequence(Tail(s))
<1>1. CASE StartsWith(s, {"+", "-"})
  <2>1. Tail(s) \in Seq(STRING)
    BY <1>1, TailIsWord
  <2>2. PostE(s) <=> StartsWithDigit(Tail(s)) /\ DropDigits(Tail(s)) = << >>
    BY <1>1 DEF PostE
  <2>3. ~IsDigitSequence(s)
    BY <1>1, NoDigits, NothingLeft
  <2> QED
    BY <1>1, <2>1, <2>2, <2>3, NothingLeft
<1>2. CASE ~StartsWith(s, {"+", "-"})
  BY <1>2, NothingLeft DEF PostE
<1> QED
  BY <1>1, <1>2

\* exponent_part
LEMMA ExponentMeans ==
  ASSUME NEW s \in Seq(STRING)
  PROVE  /\ Exponent(s) <=> IsExponentPart(s)
         /\ ExponentPartOpt(s) <=> IsOptExponentPart(s)
<1>1. StartsWith(s, {"e", "E"}) => Tail(s) \in Seq(STRING)
  BY TailIsWord
<1>2. Exponent(s) <=> IsExponentPart(s)
  BY <1>1, PostEMeans DEF Exponent, IsExponentPart
<1> QED
  BY <1>2 DEF ExponentPartOpt, IsOptExponentPart

\* An exponent does not begin with a digit.
LEMMA OptExponentPartNoDigit ==
  ASSUME NEW s \in Seq(STRING), IsOptExponentPart(s)
  PROVE  ~StartsWithDigit(s)
<1>1. CASE s = << >>
  BY <1>1 DEF StartsWithDigit, StartsWith
<1>2. CASE StartsWith(s, {"e", "E"})
  BY <1>2, NoDigits
<1> QED
  BY <1>1, <1>2 DEF IsOptExponentPart, IsExponentPart

\* post_decimal_point
LEMMA PostDecimalPointMeans ==
  ASSUME NEW s \in Seq(STRING)
  PROVE  PostDecimalPoint(s) <=> IsConcat(s, IsDigitSequence, IsOptExponentPart)
<1>1. ASSUME PostDecimalPoint(s)
      PROVE  IsConcat(s, IsDigitSequence, IsOptExponentPart)
  <2>1. StartsWithDigit(s) /\ ExponentPartOpt(DropDigits(s))
    BY <1>1 DEF PostDecimalPoint
  <2>2. IsOptExponentPart(DropDigits(s))
    BY <2>1, WhatIsLeft, ExponentMeans
  <2>3. PICK i \in 0 .. Len(s) :
          IsDigitSequence(SubSeq(s, 1, i)) /\ DropDigits(s) = SubSeq(s, i + 1, Len(s))
    BY <2>1, DigitsCutOff
  <2> QED
    BY <2>2, <2>3 DEF IsConcat
<1>2. ASSUME IsConcat(s, IsDigitSequence, IsOptExponentPart)
      PROVE  PostDecimalPoint(s)
  <2>1. PICK i \in 0 .. Len(s) :
          /\ IsDigitSequence(SubSeq(s, 1, i))
          /\ IsOptExponentPart(SubSeq(s, i + 1, Len(s)))
    BY <1>2 DEF IsConcat
  <2>2. SubSeq(s, i + 1, Len(s)) \in Seq(STRING)
    BY Cut
  <2>3. StartsWithDigit(s) /\ DropDigits(s) = SubSeq(s, i + 1, Len(s))
    BY <2>1, <2>2, OptExponentPartNoDigit, DigitsAndRest
  <2>4. ExponentPartOpt(DropDigits(s))
    BY <2>1, <2>2, <2>3, ExponentMeans
  <2> QED
    BY <2>3, <2>4 DEF PostDecimalPoint
<1> QED
  BY <1>1, <1>2

\* A fractional part is a point and what post_decimal_point accepts.
LEMMA FractionalPartMeans ==
  ASSUME NEW s \in Seq(STRING)
  PROVE  IsFractionalPart(s) <=> StartsWith(s, {"."}) /\ PostDecimalPoint(Tail(s))
BY TailIsWord, PostDecimalPointMeans DEF IsFractionalPart

\* integer_part_consumed
LEMMA IntegerPartConsumedMeans ==
  ASSUME NEW s \in Seq(STRING)
  PROVE  IntegerPartConsumed(s) <=>
           IsFractionalPart(s) \/ IsPointAndExponent(s) \/ IsExponentPart(s)
<1>1. CASE StartsWith(s, {"."})
  <2>1. Tail(s) \in Seq(STRING) /\ ~Exponent(s)
    BY <1>1, TailIsWord, NoDigits DEF Exponent
  <2>2. ~IsExponentPart(s)
    BY <2>1, ExponentMeans
  <2>3. CASE StartsWithDigit(Tail(s))
    <3>1. ~IsPointAndExponent(s)
      BY <2>1, <2>3, OptExponentPartNoDigit DEF IsPointAndExponent
    <3> QED
      BY <1>1, <2>1, <2>2, <2>3, <3>1, FractionalPartMeans DEF IntegerPartConsumed
  <2>4. CASE ~StartsWithDigit(Tail(s))
    <3>1. ~PostDecimalPoint(Tail(s))
      BY <2>4 DEF PostDecimalPoint
    <3> QED
      BY <1>1, <2>1, <2>2, <2>4, <3>1, FractionalPartMeans, ExponentMeans
         DEF IntegerPartConsumed, IsPointAndExponent
  <2> QED
    BY <2>3, <2>4
<1>2. CASE ~StartsWith(s, {"."})
  BY <1>2, ExponentMeans DEF IntegerPartConsumed, IsFractionalPart, IsPointAndExponent
<1> QED
  BY <1>1, <1>2

\* None of what may follow the digits begins with one.
LEMMA RestNoDigit ==
  ASSUME NEW s \in Seq(STRING),
         IsFractionalPart(s) \/ IsPointAndExponent(s) \/ IsExponentPart(s)
  PROVE  ~StartsWithDigit(s)
BY NoDigits DEF IsFractionalPart, IsPointAndExponent, IsExponentPart

\* The rules of the grammar that begin with digits and go on.
DigitsAndMore(s) ==
  \/ IsConcat(s, IsDigitSequence, IsFractionalPart)
  \/ IsConcat(s, IsDigitSequence, IsPointAndExponent)
  \/ IsConcat(s, IsDigitSequence, IsExponentPart)

\* The grammar's three forms that begin with digits are what the automaton accepts
\* once it has skipped them.
LEMMA DigitsAndMoreMeans ==
  ASSUME NEW s \in Seq(STRING)
  PROVE  DigitsAndMore(s) <=> StartsWithDigit(s) /\ IntegerPartConsumed(DropDigits(s))
<1>1. ASSUME DigitsAndMore(s)
      PROVE  StartsWithDigit(s) /\ IntegerPartConsumed(DropDigits(s))
  <2>1. PICK i \in 0 .. Len(s) :
          /\ IsDigitSequence(SubSeq(s, 1, i))
          /\ \/ IsFractionalPart(SubSeq(s, i + 1, Len(s)))
             \/ IsPointAndExponent(SubSeq(s, i + 1, Len(s)))
             \/ IsExponentPart(SubSeq(s, i + 1, Len(s)))
    BY <1>1 DEF DigitsAndMore, IsConcat
  <2>2. SubSeq(s, i + 1, Len(s)) \in Seq(STRING)
    BY Cut
  <2>3. StartsWithDigit(s) /\ DropDigits(s) = SubSeq(s, i + 1, Len(s))
    BY <2>1, <2>2, RestNoDigit, DigitsAndRest
  <2> QED
    BY <2>1, <2>2, <2>3, IntegerPartConsumedMeans
<1>2. ASSUME StartsWithDigit(s), IntegerPartConsumed(DropDigits(s))
      PROVE  DigitsAndMore(s)
  <2>1. PICK i \in 0 .. Len(s) :
          IsDigitSequence(SubSeq(s, 1, i)) /\ DropDigits(s) = SubSeq(s, i + 1, Len(s))
    BY <1>2, DigitsCutOff
  <2>2. \/ IsFractionalPart(DropDigits(s))
        \/ IsPointAndExponent(DropDigits(s))
        \/ IsExponentPart(DropDigits(s))
    BY <1>2, WhatIsLeft, IntegerPartConsumedMeans
  <2> QED
    BY <2>1, <2>2 DEF DigitsAndMore, IsConcat
<1> QED
  BY <1>1, <1>2

\* The whole automaton, and the whole grammar.
LEMMA LiteralsAreTheGrammars ==
  ASSUME NEW s \in Seq(STRING)
  PROVE  IsDecimalLiteral(s) <=> IsGrammarLiteral(s)
<1>1. IsGrammarLiteral(s) <=>
        \/ s = <<"0">>
        \/ IsDigitSequence(s) /\ Head(s) # "0"
        \/ DigitsAndMore(s)
        \/ IsFractionalPart(s)
  BY DEF IsGrammarLiteral, DigitsAndMore
<1>2. StartsWith(s, {"0"}) <=> StartsWithDigit(s) /\ Head(s) = "0"
  BY DigitSet DEF StartsWith, StartsWithDigit, DigitChars
<1>3. CASE StartsWithDigit(s) /\ Head(s) = "0"
  <2>1. DropDigits(Tail(s)) = DropDigits(s)
    BY <1>3, DropDigitsOfTail
  <2>2. ~StartsWith(s, {"."})
    BY <1>3, NoDigits
  <2> QED
    BY <1>1, <1>2, <1>3, <2>1, <2>2, DigitsAndMoreMeans DEF IsDecimalLiteral, IsFractionalPart
<1>4. CASE StartsWithDigit(s) /\ Head(s) # "0"
  <2>1. ~StartsWith(s, {"."}) /\ s # <<"0">>
    BY <1>4, NoDigits
  <2> QED
    BY <1>1, <1>2, <1>4, <2>1, DigitsAndMoreMeans, NothingLeft
       DEF IsDecimalLiteral, IsFractionalPart
<1>5. CASE ~StartsWithDigit(s)
  <2>1. s # <<"0">>
    BY <1>5, DigitSet DEF StartsWithDigit, StartsWith, DigitChars
  <2> QED
    BY <1>1, <1>2, <1>5, <2>1, DigitsAndMoreMeans, NothingLeft, FractionalPartMeans
       DEF IsDecimalLiteral
<1> QED
  BY <1>3, <1>4, <1>5

\* is_positional, for any word.
LEMMA PositionalsAreTheGrammars ==
  ASSUME NEW w \in Seq(STRING)
  PROVE  IsPositional(w) <=> IsGrammarPositional(w)
<1>1. StartsWith(w, {"-"}) => Tail(w) \in Seq(STRING)
  BY TailIsWord
<1>2. StartsWith(w, {"-"}) => (IsDecimalLiteral(Tail(w)) <=> IsGrammarLiteral(Tail(w)))
  BY <1>1, LiteralsAreTheGrammars
<1> QED
  BY <1>2 DEF IsPositional, IsGrammarPositional, StartsWith

-----------------------------------------------------------------------------
(* The values *)

\* A digit is worth 0 to 9.
LEMMA DigitValueType == \A c : IsDigit(c) => DigitValue(c) \in 0 .. 9
<1> SUFFICES ASSUME NEW c, IsDigit(c) PROVE DigitValue(c) \in 0 .. 9
  OBVIOUS
<1> DEFINE i == CHOOSE j \in DOMAIN Digits : Digits[j] = c
<1>1. DOMAIN Digits = 1 .. 10
  BY DEF Digits
<1>2. \E j \in DOMAIN Digits : Digits[j] = c
  BY DEF IsDigit, ToSet
<1>3. i \in 1 .. 10
  BY <1>1, <1>2
<1>4. DigitValue(c) = i - 1
  BY DEF DigitValue
<1> HIDE DEF i
<1> QED
  BY <1>3, <1>4

\* The number that digits write, digit by digit.
LEMMA NumberDigitByDigit ==
  ASSUME NEW w \in Seq(STRING), \A i \in 1 .. Len(w) : IsDigit(w[i])
  PROVE  \E u \in [0 .. Len(w) -> Nat] :
           /\ u[0] = 0 /\ u[Len(w)] = NumberOf(w)
           /\ \A i \in 1 .. Len(w) : u[i] = 10 * u[i - 1] + DigitValue(w[i])
<1> DEFINE n == Len(w)
           Is(h) == h = [i \in 0 .. n |-> IF i = 0 THEN 0
                                          ELSE 10 * h[i - 1] + DigitValue(w[i])]
           u == CHOOSE h : Is(h)
           step == [i \in 1 .. n |-> [x \in Nat |-> 10 * x + DigitValue(w[i])]]
<1>1. n \in Nat /\ \A i \in 1 .. n : DigitValue(w[i]) \in 0 .. 9
  BY LenProperties, DigitValueType
<1>2. NumberOf(w) = u[n]
  BY DEF NumberOf
<1> HIDE DEF n
<1>3. PICK f : StepsUp(f, n, Nat, 0, step)
  <2>1. step \in [1 .. n -> [Nat -> Nat]]
    BY <1>1
  <2> HIDE DEF step
  <2> QED
    BY <1>1, <2>1, StepByStep
<1>4. Is(f)
  <2>1. f \in [0 .. n -> Nat] /\ f[0] = 0 /\ \A i \in 1 .. n : f[i] = step[i][f[i - 1]]
    BY <1>3 DEF StepsUp
  <2>2. ASSUME NEW i \in 1 .. n PROVE f[i] = 10 * f[i - 1] + DigitValue(w[i])
    <3>1. f[i - 1] \in Nat
      BY <1>1, <2>1
    <3> QED
      BY <2>1, <3>1
  <2> QED
    BY <1>1, <2>1, <2>2
<1>5. Is(u)
  <2> HIDE DEF Is
  <2> QED
    BY <1>4
<1> HIDE DEF u
<1>6. /\ DOMAIN u = 0 .. n /\ u = [i \in 0 .. n |-> u[i]] /\ u[0] = 0
      /\ \A i \in 1 .. n : u[i] = 10 * u[i - 1] + DigitValue(w[i])
  <2>1. /\ DOMAIN u = 0 .. n
        /\ \A i \in 0 .. n : u[i] = IF i = 0 THEN 0 ELSE 10 * u[i - 1] + DigitValue(w[i])
    BY <1>5
  <2>2. u = [i \in 0 .. n |-> u[i]]
    BY <1>5
  <2>3. u[0] = 0
    BY <1>1, <2>1
  <2>4. \A i \in 1 .. n : i \in 0 .. n /\ i # 0
    BY <1>1
  <2> QED
    BY <2>1, <2>2, <2>3, <2>4
<1> DEFINE P == {i \in 0 .. n : u[i] \in Nat}
<1>7. 0 \in P
  BY <1>1, <1>6
<1>8. ASSUME NEW i \in 1 .. n, i - 1 \in P PROVE i \in P
  <2>1. u[i - 1] \in Nat /\ DigitValue(w[i]) \in 0 .. 9
    BY <1>1, <1>8
  <2>2. u[i] = 10 * u[i - 1] + DigitValue(w[i])
    BY <1>6
  <2>3. u[i] \in Nat
    BY <2>1, <2>2
  <2> QED
    BY <1>1, <2>3
<1> HIDE DEF P
<1>9. \A i \in 0 .. n : i \in P
  BY <1>1, <1>7, <1>8, CountingUp
<1>10. u \in [0 .. n -> Nat]
  BY <1>6, <1>9 DEF P
<1> QED
  BY <1>2, <1>6, <1>10 DEF n

\* What do_from_chars makes of them.
LEMMA Limits == UInt16Max \in Nat /\ Error \in Int /\ Error \notin Nat
BY DEF UInt16Max, Error

Value == (0 .. UInt16Max) \cup {Error}

\* One more digit gives a uint16_t or an error.
LEMMA AppendDigitType ==
  ASSUME NEW x \in Value, NEW c, IsDigit(c)
  PROVE  AppendDigit(x, c) \in Value
<1>1. DigitValue(c) \in 0 .. 9
  BY DigitValueType
<1> QED
  <2> DEFINE y == 10 * x + DigitValue(c)
  <2>1. x = Error => AppendDigit(x, c) = Error
    BY DEF AppendDigit
  <2>2. x # Error => y \in Nat
    BY <1>1, Limits DEF Value
  <2>3. AppendDigit(x, c) = IF x = Error \/ y > UInt16Max THEN Error ELSE y
    BY DEF AppendDigit
  <2> HIDE DEF y
  <2>4. CASE x = Error \/ y > UInt16Max
    BY <2>3, <2>4 DEF Value
  <2>5. CASE ~(x = Error \/ y > UInt16Max)
    <3>1. y \in 0 .. UInt16Max /\ AppendDigit(x, c) = y
      BY <2>2, <2>3, <2>5, Limits
    <3> QED
      BY <3>1, Zenon DEF Value
  <2> QED
    BY <2>4, <2>5

\* FromChars reads a word of digits one by one: its recursive function is
\* defined.
LEMMA FromCharsDigitByDigit ==
  ASSUME NEW w \in Seq(STRING), Len(w) > 0, \A i \in 1 .. Len(w) : IsDigit(w[i])
  PROVE  \E v \in [0 .. Len(w) -> Value] :
           /\ v[0] = 0 /\ v[Len(w)] = FromChars(w)
           /\ \A i \in 1 .. Len(w) : v[i] = AppendDigit(v[i - 1], w[i])
<1> DEFINE n == Len(w)
           Is(h) == h = [i \in 0 .. n |-> IF i = 0 THEN 0 ELSE AppendDigit(h[i - 1], w[i])]
           v == CHOOSE h : Is(h)
           step == [i \in 1 .. n |-> [x \in Value |-> AppendDigit(x, w[i])]]
<1>1. n \in Nat /\ w # << >> /\ DOMAIN w = 1 .. n /\ \A i \in 1 .. n : IsDigit(w[i])
  BY LenProperties, EmptySeq
<1>2. FromChars(w) = v[n]
  BY <1>1 DEF FromChars
<1> HIDE DEF n
<1>3. PICK f : StepsUp(f, n, Value, 0, step)
  <2>1. step \in [1 .. n -> [Value -> Value]]
    BY <1>1, AppendDigitType
  <2>2. 0 \in Value
    BY Limits DEF Value
  <2> HIDE DEF step
  <2> QED
    BY <1>1, <2>1, <2>2, StepByStep
<1>4. /\ f \in [0 .. n -> Value] /\ f[0] = 0
      /\ \A i \in 1 .. n : f[i] = AppendDigit(f[i - 1], w[i])
  <2>1. f \in [0 .. n -> Value] /\ f[0] = 0 /\ \A i \in 1 .. n : f[i] = step[i][f[i - 1]]
    BY <1>3 DEF StepsUp
  <2>2. ASSUME NEW i \in 1 .. n PROVE f[i] = AppendDigit(f[i - 1], w[i])
    <3>1. f[i - 1] \in Value
      BY <1>1, <2>1
    <3> QED
      BY <2>1, <3>1
  <2> QED
    BY <2>1, <2>2
<1>5. Is(v)
  <2>1. Is(f)
    BY <1>1, <1>4
  <2> HIDE DEF Is
  <2> QED
    BY <2>1
<1> HIDE DEF v
<1>6. /\ DOMAIN v = 0 .. n /\ v = [i \in 0 .. n |-> v[i]] /\ v[0] = 0
      /\ \A i \in 1 .. n : v[i] = AppendDigit(v[i - 1], w[i])
  BY <1>1, <1>5
<1> DEFINE P == {i \in 0 .. n : v[i] \in Value}
<1>7. 0 \in P
  <2>1. 0 \in 0 .. n /\ 0 \in Value
    BY <1>1, Limits DEF Value
  <2> QED
    BY <1>6, <2>1
<1>8. ASSUME NEW i \in 1 .. n, i - 1 \in P PROVE i \in P
  <2>1. v[i - 1] \in Value /\ IsDigit(w[i])
    BY <1>1, <1>8
  <2>2. v[i] \in Value
    BY <1>6, <2>1, AppendDigitType
  <2> QED
    BY <1>1, <2>2
<1> HIDE DEF P
<1>9. \A i \in 0 .. n : i \in P
  BY <1>1, <1>7, <1>8, CountingUp
<1>10. v \in [0 .. n -> Value]
  BY <1>6, <1>9 DEF P
<1> QED
  BY <1>2, <1>6, <1>10 DEF n

\* do_from_chars gives the number of a word of digits that is in range, and
\* an error for every other word.
LEMMA FromCharsIsTheNumber ==
  ASSUME NEW w \in Seq(STRING)
  PROVE  /\ FromChars(w) = IF IsPortNumber(w) THEN NumberOf(w) ELSE Error
         /\ FromChars(w) \in Value
         /\ FromChars(w) = Error <=> ~IsPortNumber(w)
<1>1. CASE ~IsDigitSequence(w)
  <2>1. FromChars(w) = Error
    BY <1>1 DEF FromChars, IsDigitSequence
  <2> QED
    BY <1>1, <2>1 DEF IsPortNumber, Value
<1>2. CASE IsDigitSequence(w)
  <2> DEFINE n == Len(w)
  <2>1. n \in Nat /\ n > 0 /\ \A i \in 1 .. n : IsDigit(w[i])
    BY <1>2, IsDigitSequenceMeans, LenProperties
  <2>2. PICK u \in [0 .. n -> Nat] :
          /\ u[0] = 0 /\ u[n] = NumberOf(w)
          /\ \A i \in 1 .. n : u[i] = 10 * u[i - 1] + DigitValue(w[i])
    BY <2>1, NumberDigitByDigit
  <2>3. PICK v \in [0 .. n -> Value] :
          /\ v[0] = 0 /\ v[n] = FromChars(w)
          /\ \A i \in 1 .. n : v[i] = AppendDigit(v[i - 1], w[i])
    BY <2>1, FromCharsDigitByDigit
  <2> HIDE DEF n
  <2> DEFINE Saturated(x) == IF x <= UInt16Max THEN x ELSE Error
             P == {i \in 0 .. n : v[i] = Saturated(u[i])}
  <2>4. 0 \in P
    BY <2>1, <2>2, <2>3, Limits
  <2>5. ASSUME NEW i \in 1 .. n, i - 1 \in P PROVE i \in P
    <3>1. u[i - 1] \in Nat /\ DigitValue(w[i]) \in 0 .. 9
      BY <2>1, <2>2, DigitValueType
    <3>2. u[i] = 10 * u[i - 1] + DigitValue(w[i])
      BY <2>2
    <3>3. v[i] = AppendDigit(v[i - 1], w[i]) /\ v[i - 1] = Saturated(u[i - 1])
      BY <2>3, <2>5
    <3>4. AppendDigit(Saturated(u[i - 1]), w[i])
            = Saturated(10 * u[i - 1] + DigitValue(w[i]))
      <4> DEFINE y == 10 * u[i - 1] + DigitValue(w[i])
      <4>1. y \in Nat /\ y >= u[i - 1]
        BY <3>1
      <4>2. \A x : AppendDigit(x, w[i]) = IF x = Error \/ 10 * x + DigitValue(w[i]) > UInt16Max
                                          THEN Error ELSE 10 * x + DigitValue(w[i])
        BY DEF AppendDigit
      <4>3. CASE u[i - 1] <= UInt16Max
        <5>1. u[i - 1] # Error
          BY <3>1, Limits
        <5>2. AppendDigit(u[i - 1], w[i]) = IF y > UInt16Max THEN Error ELSE y
          BY <4>2, <5>1
        <5> HIDE DEF y
        <5>3. (IF y > UInt16Max THEN Error ELSE y) = Saturated(y)
          BY <4>1, Limits
        <5> QED
          BY <4>3, <5>2, <5>3 DEF y
      <4>4. CASE ~(u[i - 1] <= UInt16Max)
        <5>1. AppendDigit(Error, w[i]) = Error
          BY <4>2
        <5> HIDE DEF y
        <5>2. ~(y <= UInt16Max)
          BY <3>1, <4>1, <4>4, Limits
        <5> QED
          BY <4>4, <5>1, <5>2 DEF y
      <4> QED
        BY <4>3, <4>4
    <3>5. v[i] = Saturated(u[i])
      BY <3>2, <3>3, <3>4
    <3> QED
      BY <2>1, <3>5
  <2> HIDE DEF P
  <2>6. n \in P
    <3>1. n \in 0 .. n
      BY <2>1
    <3> QED
      BY <2>1, <2>4, <2>5, <3>1, CountingUp
  <2>7. FromChars(w) = Saturated(NumberOf(w))
    BY <2>2, <2>3, <2>6 DEF P
  <2>8. NumberOf(w) \in Nat
    BY <2>1, <2>2
  <2>9. Saturated(NumberOf(w)) \in Value
    <3>1. NumberOf(w) <= UInt16Max => NumberOf(w) \in 0 .. UInt16Max
      BY <2>8, Limits
    <3> QED
      BY <3>1, Zenon DEF Value
  <2>10. IsPortNumber(w) <=> NumberOf(w) <= UInt16Max
    BY <1>2 DEF IsPortNumber
  <2>11. NumberOf(w) # Error
    BY <2>8, Limits
  <2> QED
    BY <2>7, <2>9, <2>10, <2>11
<1> QED
  BY <1>1, <1>2

-----------------------------------------------------------------------------
(* The words *)

Flags == {"debug", "help", "version"}

\* The provers do not know that a literal is in STRING.
Char == STRING \cup {"-", "=", "d", "e", "b", "u", "g", "h", "l", "p", "v", "r",
                     "s", "i", "o", "n"}

\* A word is a sequence of these as well.
LEMMA WordOfChars == \A w \in Seq(STRING) : w \in Seq(Char)
BY SeqMonotonic DEF Char

\* Every name is '-' and a letter, or "--" and more; there is no '=' in it.
IsName(n) ==
  /\ n \in Seq(Char) /\ Len(n) \in Nat /\ Len(n) >= 2 /\ n[1] = "-"
  /\ n[2] = "-" <=> Len(n) > 2
  /\ \A i \in 1 .. Len(n) : n[i] # "="

\* m_argument_map holds the six names, each of its flag.
LEMMA NamesAreNames ==
  \A n \in DOMAIN Names : IsName(n) /\ Names[n] \in Flags
<1>1. DOMAIN NamesOf = Flags
  BY DEF NamesOf, Flags
<1>0. DOMAIN Names = NamesOf["debug"] \cup NamesOf["help"] \cup NamesOf["version"]
  BY <1>1 DEF Names, Range, Flags
<1>2. /\ "-" \in Char /\ "d" \in Char /\ "e" \in Char /\ "b" \in Char /\ "u" \in Char
      /\ "g" \in Char /\ "h" \in Char /\ "l" \in Char /\ "p" \in Char /\ "v" \in Char
      /\ "r" \in Char /\ "s" \in Char /\ "i" \in Char /\ "o" \in Char /\ "n" \in Char
  BY DEF Char
<1>3. IsName(<<"-", "d">>)
  <2>1. <<"-", "d">> \in Seq(Char)
    BY <1>2
  <2>2. \A i \in 1 .. 2 : <<"-", "d">>[i] # "="
    OBVIOUS
  <2> QED
    BY <2>1, <2>2 DEF IsName
<1>4. IsName(<<"-", "-", "d", "e", "b", "u", "g">>)
  <2>1. <<"-", "-", "d", "e", "b", "u", "g">> \in Seq(Char)
    BY <1>2
  <2>2. \A i \in 1 .. 7 : <<"-", "-", "d", "e", "b", "u", "g">>[i] # "="
    OBVIOUS
  <2> QED
    BY <2>1, <2>2 DEF IsName
<1>5. IsName(<<"-", "h">>)
  <2>1. <<"-", "h">> \in Seq(Char)
    BY <1>2
  <2>2. \A i \in 1 .. 2 : <<"-", "h">>[i] # "="
    OBVIOUS
  <2> QED
    BY <2>1, <2>2 DEF IsName
<1>6. IsName(<<"-", "-", "h", "e", "l", "p">>)
  <2>1. <<"-", "-", "h", "e", "l", "p">> \in Seq(Char)
    BY <1>2
  <2>2. \A i \in 1 .. 6 : <<"-", "-", "h", "e", "l", "p">>[i] # "="
    OBVIOUS
  <2> QED
    BY <2>1, <2>2 DEF IsName
<1>7. IsName(<<"-", "v">>)
  <2>1. <<"-", "v">> \in Seq(Char)
    BY <1>2
  <2>2. \A i \in 1 .. 2 : <<"-", "v">>[i] # "="
    OBVIOUS
  <2> QED
    BY <2>1, <2>2 DEF IsName
<1>8. IsName(<<"-", "-", "v", "e", "r", "s", "i", "o", "n">>)
  <2>1. <<"-", "-", "v", "e", "r", "s", "i", "o", "n">> \in Seq(Char)
    BY <1>2
  <2>2. \A i \in 1 .. 9 : <<"-", "-", "v", "e", "r", "s", "i", "o", "n">>[i] # "="
    OBVIOUS
  <2> QED
    BY <2>1, <2>2 DEF IsName
<1>9. \A n \in DOMAIN Names : IsName(n)
  <2> HIDE DEF IsName
  <2> QED
    BY <1>0, <1>3, <1>4, <1>5, <1>6, <1>7, <1>8 DEF NamesOf
<1>10. \A n \in DOMAIN Names : Names[n] \in Flags
  <2> SUFFICES ASSUME NEW n \in DOMAIN Names PROVE Names[n] \in Flags
    OBVIOUS
  <2>1. Names[n] = CHOOSE flag \in DOMAIN NamesOf : n \in NamesOf[flag]
    BY DEF Names
  <2>2. \E flag \in DOMAIN NamesOf : n \in NamesOf[flag]
    BY <1>0, <1>1 DEF Flags
  <2> QED
    BY <1>1, <2>1, <2>2
<1> QED
  BY <1>9, <1>10

\* Where the first '=' is, if there is one.
LEMMA FirstEquals ==
  ASSUME NEW w \in Seq(STRING)
  PROVE  LET pos == SelectInSeq(w, LAMBDA c : c = "=")
         IN  /\ pos \in 0 .. Len(w)
             /\ pos = 0 => \A i \in 1 .. Len(w) : w[i] # "="
             /\ pos # 0 => w[pos] = "=" /\ \A i \in 1 .. pos - 1 : w[i] # "="
<1> DEFINE pos == SelectInSeq(w, LAMBDA c : c = "=")
           I == {i \in 1 .. Len(w) : w[i] = "="}
           m == Min(I)
<1>1. Len(w) \in Nat /\ I \in SUBSET Nat
  BY LenProperties
<1>2. pos = IF I # {} THEN m ELSE 0
  BY DEF SelectInSeq
<1>3. I # {} => m \in I /\ \A i \in I : m <= i
  BY <1>1, LeastOf
<1> SUFFICES /\ pos \in 0 .. Len(w)
             /\ pos = 0 => \A i \in 1 .. Len(w) : w[i] # "="
             /\ pos # 0 => w[pos] = "=" /\ \A i \in 1 .. pos - 1 : w[i] # "="
  OBVIOUS
<1> HIDE DEF pos, m
<1>4. CASE I = {}
  BY <1>1, <1>2, <1>4
<1>5. CASE I # {}
  <2>1. pos \in I /\ \A i \in I : pos <= i
    BY <1>2, <1>3, <1>5
  <2>2. \A i \in 1 .. pos - 1 : i \notin I /\ i \in 1 .. Len(w)
    BY <1>1, <2>1
  <2> QED
    BY <1>1, <2>1, <2>2
<1> QED
  BY <1>4, <1>5

\* Is it a name, '=' and a value?
NameAndValue(n, w) == Len(n) > 2 /\ IsPrefix(n \o <<"=">>, w)

\* The same, by the index of a character.
LEMMA NameAndValueMeans ==
  ASSUME NEW w \in Seq(STRING), NEW n \in DOMAIN Names
  PROVE  NameAndValue(n, w) <=>
           /\ Len(n) > 2 /\ Len(n) < Len(w) /\ w[Len(n) + 1] = "="
           /\ \A i \in 1 .. Len(n) : w[i] = n[i]
<1> DEFINE s == n \o <<"=">>
           k == Len(n)
<1>1. k \in Nat /\ k >= 2 /\ n \in Seq(Char) /\ Len(w) \in Nat
      /\ w \in Seq(Char)
  BY NamesAreNames, LenProperties, WordOfChars DEF IsName
<1>2. s \in Seq(Char) /\ Len(s) = k + 1 /\ s[k + 1] = "="
      /\ \A i \in 1 .. k : s[i] = n[i]
  <2>1. <<"=">> \in Seq(Char) /\ Len(<<"=">>) = 1 /\ <<"=">>[1] = "="
    <3>1. "=" \in Char
      BY DEF Char
    <3> QED
      BY <3>1
  <2> DEFINE e == <<"=">>
  <2> HIDE DEF e, k
  <2>2. /\ n \o e \in Seq(Char) /\ Len(n \o e) = k + 1
        /\ \A i \in 1 .. k + 1 : (n \o e)[i] = IF i <= k THEN n[i] ELSE e[i - k]
    BY <1>1, <2>1, ConcatProperties DEF e, k
  <2>3. k + 1 - k = 1 /\ ~(k + 1 <= k) /\ k + 1 \in 1 .. k + 1
    BY <1>1
  <2> QED
    BY <1>1, <2>1, <2>2, <2>3 DEF e
<1> HIDE DEF s
<1>3. NameAndValue(n, w) <=>
        k > 2 /\ k + 1 <= Len(w) /\ SubSeq(s, 1, k + 1) = SubSeq(w, 1, k + 1)
  BY <1>2 DEF NameAndValue, IsPrefix, s
<1> HIDE DEF k
<1>4. k + 1 <= Len(w) =>
        (SubSeq(s, 1, k + 1) = SubSeq(w, 1, k + 1) <=>
           \A i \in 1 .. k + 1 : s[i] = w[i])
  <2> SUFFICES ASSUME k + 1 <= Len(w)
               PROVE  SubSeq(s, 1, k + 1) = SubSeq(w, 1, k + 1) <=>
                        \A i \in 1 .. k + 1 : s[i] = w[i]
    OBVIOUS
  <2> DEFINE a == SubSeq(s, 1, k + 1)
             b == SubSeq(w, 1, k + 1)
  <2>1. (\A i \in 1 .. k + 1 : s[i] \in Char) /\ \A i \in 1 .. k + 1 : w[i] \in Char
    BY <1>1, <1>2, ElementOfSeq
  <2>2. 1 \in Int /\ k + 1 \in Int /\ 1 <= k + 1
    BY <1>1
  <2>3. a \in Seq(Char) /\ Len(a) = k + 1 /\ \A i \in 1 .. k + 1 : a[i] = s[i]
    BY <1>1, <2>1, <2>2, SubSeqProperties
  <2>4. b \in Seq(Char) /\ Len(b) = k + 1 /\ \A i \in 1 .. k + 1 : b[i] = w[i]
    BY <1>1, <2>1, <2>2, SubSeqProperties
  <2> HIDE DEF a, b
  <2>5. a = b <=> \A i \in 1 .. k + 1 : a[i] = b[i]
    BY <2>3, <2>4, SeqEqual
  <2> QED
    BY <2>3, <2>4, <2>5 DEF a, b
<1>5. (\A i \in 1 .. k + 1 : s[i] = w[i]) <=>
        w[k + 1] = "=" /\ \A i \in 1 .. k : w[i] = n[i]
  BY <1>1, <1>2
<1>6. k + 1 <= Len(w) <=> k < Len(w)
  BY <1>1
<1> QED
  BY <1>3, <1>4, <1>5, <1>6 DEF k

\* Then the parser finds that name, and no other.
LEMMA NameIsFound ==
  ASSUME NEW w \in Seq(STRING), NEW n \in DOMAIN Names, NameAndValue(n, w)
  PROVE  Split(w) = <<n, SubSeq(w, Len(n) + 2, Len(w))>>
<1> DEFINE k == Len(n)
           pos == SelectInSeq(w, LAMBDA c : c = "=")
<1>1. /\ k \in Nat /\ k > 2 /\ k < Len(w) /\ Len(w) \in Nat
      /\ n \in Seq(Char) /\ w \in Seq(Char) /\ n[1] = "-" /\ n[2] = "-"
      /\ \A i \in 1 .. k : n[i] # "="
  BY NamesAreNames, NameAndValueMeans, LenProperties, WordOfChars DEF IsName
<1>2. w[k + 1] = "=" /\ \A i \in 1 .. k : w[i] = n[i]
  BY NameAndValueMeans
<1>3. /\ pos \in 0 .. Len(w)
      /\ pos = 0 => \A i \in 1 .. Len(w) : w[i] # "="
      /\ pos # 0 => w[pos] = "=" /\ \A i \in 1 .. pos - 1 : w[i] # "="
  BY FirstEquals
<1> HIDE DEF pos
<1>4. pos = k + 1
  <2>1. pos # 0
    BY <1>1, <1>2, <1>3
  <2>2. ~(pos <= k)
    BY <1>1, <1>2, <1>3, <2>1
  <2>3. ~(k + 1 < pos)
    BY <1>1, <1>2, <1>3, <2>1
  <2> QED
    BY <1>1, <1>3, <2>2, <2>3
<1>5. SubSeq(w, 1, pos - 1) = n
  <2>1. \A i \in 1 .. k : w[i] \in Char
    BY <1>1, ElementOfSeq
  <2>2. /\ SubSeq(w, 1, k) \in Seq(Char) /\ Len(SubSeq(w, 1, k)) = k
        /\ \A i \in 1 .. k : SubSeq(w, 1, k)[i] = w[i]
    BY <1>1, <2>1, SubSeqProperties
  <2> DEFINE a == SubSeq(w, 1, k)
  <2>3. a = n
    <3> HIDE DEF a
    <3> QED
      BY <1>1, <1>2, <2>2, SeqEqual DEF a
  <2> QED
    BY <1>1, <1>4, <2>3
<1>6. w \notin DOMAIN Names
  BY <1>1, <1>2, NamesAreNames DEF IsName
<1>7. Len(w) > 1 /\ w[1] = "-" /\ w[2] = "-"
  BY <1>1, <1>2
<1>8. Split(w) = <<SubSeq(w, 1, pos - 1), SubSeq(w, pos + 1, Len(w))>>
  <2>1. pos # 0
    BY <1>1, <1>4
  <2>2. SubSeq(w, 1, pos - 1) \in DOMAIN Names
    BY <1>5, Zenon
  <2> QED
    BY <1>6, <1>7, <2>1, <2>2 DEF Split, pos
<1>9. pos + 1 = k + 2
  BY <1>1, <1>4
<1> QED
  BY <1>5, <1>8, <1>9

\* preprocess_arguments makes of a word the words it means.
LEMMA SplitAsMeant ==
  ASSUME NEW w \in Seq(STRING)
  PROVE  Split(w) = WordsOf(w)
<1>1. WordsOf(w) = IF \E n \in DOMAIN Names : NameAndValue(n, w)
                     THEN LET n == CHOOSE n \in DOMAIN Names : NameAndValue(n, w)
                          IN  <<n, SubSeq(w, Len(n) + 2, Len(w))>>
                     ELSE <<w>>
  BY DEF WordsOf, NameAndValue
<1>2. CASE \E n \in DOMAIN Names : NameAndValue(n, w)
  <2> DEFINE n == CHOOSE n \in DOMAIN Names : NameAndValue(n, w)
  <2>1. n \in DOMAIN Names /\ NameAndValue(n, w)
    BY <1>2
  <2>2. WordsOf(w) = <<n, SubSeq(w, Len(n) + 2, Len(w))>>
    BY <1>1, <1>2
  <2> HIDE DEF n
  <2> QED
    BY <2>1, <2>2, NameIsFound
<1>3. CASE ~\E n \in DOMAIN Names : NameAndValue(n, w)
  <2> DEFINE pos == SelectInSeq(w, LAMBDA c : c = "=")
             n == SubSeq(w, 1, pos - 1)
  <2>1. /\ pos \in 0 .. Len(w) /\ Len(w) \in Nat
        /\ pos # 0 => w[pos] = "="
    BY FirstEquals, LenProperties
  <2>2. Split(w) = IF /\ w \notin DOMAIN Names
                      /\ Len(w) > 1 /\ w[1] = "-" /\ w[2] = "-"
                      /\ pos # 0
                      /\ n \in DOMAIN Names
                     THEN <<n, SubSeq(w, pos + 1, Len(w))>> ELSE <<w>>
    BY DEF Split
  <2> HIDE DEF pos
  <2>3. ASSUME Len(w) > 1, w[1] = "-", w[2] = "-", pos # 0, n \in DOMAIN Names
        PROVE  FALSE
    <3>1. pos \in 3 .. Len(w)
      BY <2>1, <2>3
    <3>2. \A i \in 1 .. pos - 1 : w[i] \in STRING
      BY <2>1, ElementOfSeq
    <3>3. 1 \in Int /\ pos - 1 \in Int /\ 1 <= pos - 1
      BY <2>1, <3>1
    <3>4. Len(n) = pos - 1 /\ \A i \in 1 .. pos - 1 : n[i] = w[i]
      BY <2>1, <3>2, <3>3, SubSeqProperties
    <3> HIDE DEF n
    <3>5. n[2] = "-" /\ Len(n) > 2
      BY <2>1, <2>3, <3>1, <3>4, NamesAreNames DEF IsName
    <3>6. NameAndValue(n, w)
      BY <2>1, <2>3, <3>1, <3>4, <3>5, NameAndValueMeans
    <3> QED
      BY <1>3, <2>3, <3>6
  <2> HIDE DEF n
  <2> QED
    BY <1>1, <1>3, <2>2, <2>3
<1> QED
  BY <1>2, <1>3

\* Preprocessing one word gives words.
LEMMA SplitType ==
  ASSUME NEW w \in Seq(STRING)
  PROVE  Split(w) \in Seq(Seq(STRING))
<1> DEFINE pos == SelectInSeq(w, LAMBDA c : c = "=")
           n == SubSeq(w, 1, pos - 1)
           v == SubSeq(w, pos + 1, Len(w))
<1>1. pos \in 0 .. Len(w) /\ Len(w) \in Nat
  BY FirstEquals, LenProperties
<1>2. Split(w) = <<w>> \/ Split(w) = <<n, v>>
  BY DEF Split
<1> HIDE DEF pos
<1>3. \A i \in 1 .. Len(w) : w[i] \in STRING
  BY ElementOfSeq
<1>4. n \in Seq(STRING)
  <2>1. 1 \in Int /\ pos - 1 \in Int /\ \A i \in 1 .. pos - 1 : w[i] \in STRING
    BY <1>1, <1>3
  <2> QED
    BY <2>1, SubSeqProperties
<1>5. v \in Seq(STRING)
  <2>1. pos + 1 \in Int /\ Len(w) \in Int /\ \A i \in pos + 1 .. Len(w) : w[i] \in STRING
    BY <1>1, <1>3
  <2> QED
    BY <2>1, SubSeqProperties
<1> HIDE DEF n, v
<1> DEFINE Word == Seq(STRING)
<1>6. w \in Word /\ n \in Word /\ v \in Word
  BY <1>4, <1>5
<1> HIDE DEF Word
<1>7. <<w>> \in Seq(Word) /\ <<n, v>> \in Seq(Word)
  BY <1>6
<1>8. Split(w) \in Seq(Word)
  BY <1>2, <1>7, Zenon
<1> QED
  BY <1>8 DEF Word

-----------------------------------------------------------------------------
(* The types *)

Word == Seq(STRING)

\* A sequence, element by element.
LEMMA SeqOfElements ==
  ASSUME NEW S, NEW n \in Nat, NEW f, f = [i \in 1 .. n |-> f[i]],
         \A i \in 1 .. n : f[i] \in S
  PROVE  f \in Seq(S) /\ Len(f) = n
<1>1. f \in [1 .. n -> S]
  OBVIOUS
<1>2. f \in Seq(S)
  BY <1>1, SeqDef
<1> QED
  BY <1>1, <1>2, LenProperties

\* A command line is a sequence of words.
LEMMA ArgsType ==
  ASSUME NEW args \in ArgLists
  PROVE  args \in Seq(Word) /\ Len(args) \in Nat /\ DOMAIN args = 1 .. Len(args)
         /\ \A i \in 1 .. Len(args) : args[i] \in Word
<1>1. args \in Seq(Word)
  BY CommandLineAssumption DEF Word
<1> HIDE DEF Word
<1> QED
  BY <1>1, LenProperties, ElementOfSeq

\* The arguments after preprocessing.
LEMMA PreprocessedType ==
  ASSUME NEW args \in ArgLists
  PROVE  FlattenSeq([i \in DOMAIN args |-> Split(args[i])]) \in Seq(Word)
<1> DEFINE n == Len(args)
           ss == [i \in DOMAIN args |-> Split(args[i])]
<1>1. n \in Nat /\ DOMAIN args = 1 .. n /\ \A i \in 1 .. n : args[i] \in Word
  BY ArgsType
<1>2. \A i \in 1 .. n : Split(args[i]) \in Seq(Word)
  BY <1>1, SplitType DEF Word
<1> DEFINE Words == Seq(Word)
<1> HIDE DEF n
<1>3. ss = [i \in 1 .. n |-> ss[i]] /\ \A i \in 1 .. n : ss[i] \in Words
  BY <1>1, <1>2
<1> HIDE DEF ss, Words
<1>4. ss \in Seq(Words)
  BY <1>1, <1>3, SeqOfElements
<1>5. << >> \in Seq(Word)
  BY EmptySeq
<1> QED
  BY <1>4, <1>5, FlattenSnoc DEF ss, Words

\* The last of the words that "port" takes, and their values.
LastWord ==
  LET next == SelectInSubSeq(arguments, it, Len(arguments), LAMBDA w : ~IsPositional(w))
  IN  IF next = 0 THEN Len(arguments) ELSE next - 1

Numbers == [i \in 1 .. LastWord - it + 1 |-> FromChars(arguments[it + i - 1])]

\* It is the end of the longest run of positional words from the parser's place.
LEMMA LastWordIs ==
  ASSUME arguments \in Seq(Word), it \in 1 .. Len(arguments),
         IsPositional(arguments[it])
  PROVE  /\ Len(arguments) \in Nat /\ LastWord \in it .. Len(arguments)
         /\ \A k \in it .. LastWord : IsPositional(arguments[k])
         /\ LastWord < Len(arguments) => ~IsPositional(arguments[LastWord + 1])
<1> DEFINE n == Len(arguments)
           I == {i \in it .. n : ~IsPositional(arguments[i])}
           m == Min(I)
<1>1. n \in Nat
  BY LenProperties
<1>2. I \in SUBSET Nat /\ it \notin I
  BY <1>1
<1>3. I # {} => m \in I /\ \A i \in I : m <= i
  BY <1>2, LeastOf
<1>4. LastWord = LET next == IF I # {} THEN m ELSE 0
                 IN  IF next = 0 THEN n ELSE next - 1
  BY DEF LastWord, SelectInSubSeq
<1> SUFFICES /\ LastWord \in it .. n
             /\ \A k \in it .. LastWord : IsPositional(arguments[k])
             /\ LastWord < n => ~IsPositional(arguments[LastWord + 1])
  BY <1>1
<1> HIDE DEF m
<1>5. CASE I = {}
  <2>1. LastWord = n
    BY <1>4, <1>5
  <2> HIDE DEF n
  <2> QED
    BY <1>1, <1>5, <2>1 DEF n
<1>6. CASE I # {}
  <2>1. m \in I /\ \A i \in I : m <= i
    BY <1>3, <1>6
  <2>2. m \in it + 1 .. n /\ m # 0 /\ ~IsPositional(arguments[m])
    BY <1>1, <1>2, <2>1
  <2>3. LastWord = m - 1
    BY <1>4, <1>6, <2>2
  <2>4. \A k \in it .. m - 1 : k \in it .. n /\ k \notin I
    BY <1>1, <2>1, <2>2
  <2>5. m - 1 + 1 = m /\ m - 1 \in it .. n
    BY <1>1, <2>2
  <2> QED
    BY <2>2, <2>3, <2>4, <2>5
<1> QED
  BY <1>5, <1>6

\* ConsumePorts in these terms.
LEMMA ConsumePortsIs ==
  ConsumePorts <=>
    /\ it' = LastWord + 1
    /\ \/ /\ \E i \in DOMAIN Numbers : Numbers[i] = Error
          /\ Refuse
       \/ /\ \A i \in DOMAIN Numbers : Numbers[i] # Error
          /\ values' = Numbers
          /\ used' = used \cup {"port"}
          /\ UNCHANGED outcome
BY DEF ConsumePorts, Numbers, LastWord

\* Numbers are the words' values, in order; without an error they are what
\* values may hold.
LEMMA NumbersType ==
  ASSUME arguments \in Seq(Word), it \in 1 .. Len(arguments),
         IsPositional(arguments[it])
  PROVE  /\ DOMAIN Numbers = 1 .. LastWord - it + 1
         /\ \A i \in DOMAIN Numbers : /\ it + i - 1 \in it .. LastWord
                                      /\ Numbers[i] = FromChars(arguments[it + i - 1])
         /\ LastWord - it + 1 \in Nat \ {0}
         /\ (\A i \in DOMAIN Numbers : Numbers[i] # Error) =>
              Numbers \in Seq(0 .. UInt16Max) /\ Len(Numbers) = LastWord - it + 1
<1> DEFINE n == LastWord - it + 1
<1>1. LastWord \in it .. Len(arguments) /\ Len(arguments) \in Nat
  BY LastWordIs
<1>2. n \in Nat \ {0}
  BY <1>1
<1>3. DOMAIN Numbers = 1 .. n /\ Numbers = [i \in 1 .. n |-> Numbers[i]]
      /\ \A i \in 1 .. n : Numbers[i] = FromChars(arguments[it + i - 1])
  BY DEF Numbers
<1>4. \A i \in 1 .. n : it + i - 1 \in it .. LastWord /\ it + i - 1 \in 1 .. Len(arguments)
  BY <1>1
<1>5. \A i \in 1 .. n : Numbers[i] \in Value
  <2> SUFFICES ASSUME NEW i \in 1 .. n PROVE FromChars(arguments[it + i - 1]) \in Value
    BY <1>3
  <2>1. arguments[it + i - 1] \in Word
    BY <1>4, ElementOfSeq
  <2> QED
    BY <2>1, FromCharsIsTheNumber DEF Word
<1> DEFINE S == 0 .. UInt16Max
<1>6. \A x \in Value : x # Error => x \in S
  BY DEF Value
<1> HIDE DEF S, n
<1>7. (\A i \in 1 .. n : Numbers[i] # Error) => Numbers \in Seq(S) /\ Len(Numbers) = n
  <2> SUFFICES ASSUME \A i \in 1 .. n : Numbers[i] # Error
               PROVE  Numbers \in Seq(S) /\ Len(Numbers) = n
    OBVIOUS
  <2>1. \A i \in 1 .. n : Numbers[i] \in S
    BY <1>5, <1>6
  <2> DEFINE f == Numbers
  <2>2. f = [i \in 1 .. n |-> f[i]] /\ \A i \in 1 .. n : f[i] \in S
    BY <1>3, <2>1
  <2> HIDE DEF f
  <2>3. f \in Seq(S) /\ Len(f) = n
    BY <1>2, <2>2, SeqOfElements
  <2> QED
    BY <2>3 DEF f
<1> QED
  BY <1>2, <1>3, <1>4, <1>7 DEF S, n

\* Flags and the port are what used is about.
LEMMA FlagsAreArguments == Flags \subseteq Arguments /\ "port" \in Arguments
BY DEF Flags, Arguments, Exiting

\* Consuming a flag stays within the types.
LEMMA ConsumeFlagType ==
  ASSUME used \subseteq Arguments, NEW a \in Flags, ConsumeFlag(a), outcome = "parsing"
  PROVE  /\ used' \subseteq Arguments /\ values' = values
         /\ outcome' \in {"parsing", "refused", "exited"}
BY FlagsAreArguments DEF ConsumeFlag, Refuse

\* Nothing is read before preprocessing.
AtStart ==
  outcome = "start" => it = 1 /\ letters = << >> /\ used = {} /\ values = << >>

\* The types hold at the beginning.
LEMMA InitType == Init => TypeOK /\ AtStart
<1> SUFFICES ASSUME Init PROVE TypeOK
  BY DEF Init, AtStart
<1>1. << >> \in Seq(Word) /\ << >> \in Seq(STRING) /\ Len(<< >>) = 0
      /\ << >> \in Seq(0 .. UInt16Max)
  BY EmptySeq
<1>2. it \in 1 .. Len(arguments) + 1
  BY <1>1 DEF Init
<1> QED
  BY <1>1, <1>2 DEF Init, TypeOK, Word

\* What a step takes from the words it is at.
LEMMA StepType ==
  ASSUME TypeOK, AtStart, [Next]_vars
  PROVE  TypeOK' /\ AtStart'
<1> DEFINE V == Seq(0 .. UInt16Max)
           O == {"start", "parsing", "accepted", "refused", "exited"}
<1>1. /\ raw \in ArgLists /\ arguments \in Seq(Word) /\ Len(arguments) \in Nat
      /\ it \in 1 .. Len(arguments) + 1 /\ letters \in Seq(STRING)
      /\ used \subseteq Arguments /\ values \in V /\ outcome \in O
  BY LenProperties DEF TypeOK, Word
<1>2. SUFFICES /\ raw' \in ArgLists /\ arguments' \in Seq(Word)
               /\ it' \in 1 .. Len(arguments') + 1 /\ letters' \in Seq(STRING)
               /\ used' \subseteq Arguments /\ values' \in V /\ outcome' \in O
               /\ outcome' # "start" \/ UNCHANGED vars
  BY DEF TypeOK, Word, AtStart, vars
<1> HIDE DEF V
<1>3. CASE UNCHANGED vars
  BY <1>1, <1>3 DEF vars
<1>4. CASE Preprocess
  <2>1. arguments' \in Seq(Word) /\ it' = 1 /\ UNCHANGED <<raw, letters, used, values>>
        /\ outcome' = "parsing"
    BY <1>1, <1>4, PreprocessedType DEF Preprocess, AtStart
  <2>2. Len(arguments') \in Nat
    BY <2>1, LenProperties
  <2>3. it' \in 1 .. Len(arguments') + 1
    BY <2>1, <2>2
  <2> QED
    BY <1>1, <2>1, <2>3
<1>5. CASE Positional
  <2>1. /\ it \in 1 .. Len(arguments) /\ IsPositional(arguments[it])
        /\ outcome = "parsing" /\ UNCHANGED <<raw, arguments, letters>>
    BY <1>1, <1>5 DEF Positional, AtWord, Parsing
  <2>2. CASE "port" \in used
    BY <1>1, <1>5, <2>1, <2>2 DEF Positional, Refuse
  <2>3. CASE "port" \notin used
    <3>1. ConsumePorts
      BY <1>5, <2>3 DEF Positional
    <3>2. LastWord \in it .. Len(arguments)
      BY <1>1, <2>1, LastWordIs
    <3>3. it' \in 1 .. Len(arguments) + 1
      BY <1>1, <2>1, <3>1, <3>2, ConsumePortsIs
    <3>4. used' \subseteq Arguments /\ values' \in V /\ outcome' \in {"refused", "parsing"}
      <4>1. CASE Refuse
        BY <1>1, <4>1 DEF Refuse
      <4>2. CASE ~Refuse
        <5>1. /\ \A i \in DOMAIN Numbers : Numbers[i] # Error
              /\ values' = Numbers /\ used' = used \cup {"port"} /\ UNCHANGED outcome
          BY <3>1, <4>2, ConsumePortsIs
        <5>2. Numbers \in V
          BY <1>1, <2>1, <5>1, NumbersType DEF V
        <5> QED
          BY <1>1, <2>1, <5>1, <5>2, FlagsAreArguments
      <4> QED
        BY <4>1, <4>2
    <3> QED
      BY <1>1, <2>1, <3>3, <3>4
  <2> QED
    BY <2>2, <2>3
<1>6. CASE Flag
  <2>1. /\ it \in 1 .. Len(arguments) /\ it' = it + 1
        /\ outcome = "parsing" /\ UNCHANGED <<raw, arguments, letters>>
    BY <1>1, <1>6 DEF Flag, AtOption, AtWord, Parsing
  <2>2. Names[arguments[it]] \in Flags /\ ConsumeFlag(Names[arguments[it]])
    BY <1>6, NamesAreNames DEF Flag
  <2>3. /\ used' \subseteq Arguments /\ values' = values
        /\ outcome' \in {"parsing", "refused", "exited"}
    BY <1>1, <2>1, <2>2, ConsumeFlagType
  <2> QED
    BY <1>1, <2>1, <2>3
<1>7. CASE Compound
  <2>1. /\ it \in 1 .. Len(arguments) /\ it' = it + 1 /\ letters' = Tail(arguments[it])
        /\ outcome = "parsing" /\ UNCHANGED <<raw, arguments, used, values, outcome>>
        /\ Len(arguments[it]) > 1
    BY <1>1, <1>7 DEF Compound, AtOption, AtWord, Parsing, IsCompound
  <2>2. arguments[it] \in Seq(STRING)
    BY <1>1, <2>1, ElementOfSeq DEF Word
  <2>3. arguments[it] # << >>
    BY <2>1, EmptySeq
  <2>4. Tail(arguments[it]) \in Seq(STRING)
    BY <2>2, <2>3, HeadTailProperties
  <2> QED
    BY <1>1, <2>1, <2>4
<1>8. CASE Letter
  <2>1. /\ letters # << >> /\ letters' = Tail(letters) /\ outcome = "parsing"
        /\ UNCHANGED <<raw, arguments, it>>
    BY <1>8 DEF Letter, Parsing
  <2>2. letters' \in Seq(STRING)
    BY <1>1, <2>1, HeadTailProperties
  <2> DEFINE flag == <<"-", Head(letters)>>
  <2>3. \/ flag \in DOMAIN Names /\ ConsumeFlag(Names[flag])
        \/ Refuse
    BY <1>8 DEF Letter
  <2> HIDE DEF flag
  <2>4. /\ used' \subseteq Arguments /\ values' = values
        /\ outcome' \in {"parsing", "refused", "exited"}
    BY <1>1, <2>1, <2>3, NamesAreNames, ConsumeFlagType DEF Refuse
  <2> QED
    BY <1>1, <2>1, <2>2, <2>4
<1>9. CASE Unknown
  BY <1>1, <1>9 DEF Unknown, Refuse
<1>10. CASE Validate
  BY <1>1, <1>10 DEF Validate
<1> QED
  BY <1>3, <1>4, <1>5, <1>6, <1>7, <1>8, <1>9, <1>10 DEF Next

-----------------------------------------------------------------------------
(* What the words ask for *)

Item == [kind : {"port", "flag", "unknown"}, is : Seq(Char) \cup Flags]

PortItem(w) == [kind |-> "port", is |-> w]

\* A word with '-' stands for a flag or for something unknown.
LEMMA FlagItemType ==
  ASSUME NEW w \in Seq(Char)
  PROVE  /\ FlagItem(w) \in Item
         /\ w \in DOMAIN Names => FlagItem(w) = [kind |-> "flag", is |-> Names[w]]
         /\ w \notin DOMAIN Names => FlagItem(w).kind = "unknown"
<1>1. w \in DOMAIN Names => Names[w] \in Flags
  BY NamesAreNames
<1> QED
  BY <1>1 DEF FlagItem, Item

\* A word is positional, a flag, the letters of several flags, or nothing that
\* is known.
LEMMA ItemsOfWord ==
  ASSUME NEW w \in Word
  PROVE  /\ ItemsOf(w) \in Seq(Item)
         /\ IsPositional(w) => ItemsOf(w) = <<PortItem(w)>> /\ PortItem(w) \in Item
         /\ ~IsPositional(w) => w \in Seq(Char) /\ Len(w) > 1
         /\ ~IsPositional(w) /\ (w \in DOMAIN Names \/ ~IsCompound(w)) =>
              ItemsOf(w) = <<FlagItem(w)>>
         /\ ~IsPositional(w) /\ w \notin DOMAIN Names /\ IsCompound(w) =>
              /\ Len(ItemsOf(w)) = Len(w) - 1
              /\ \A i \in 1 .. Len(w) - 1 : ItemsOf(w)[i] = FlagItem(<<"-", w[i + 1]>>)
<1>1. w \in Seq(STRING) /\ w \in Seq(Char) /\ Len(w) \in Nat /\ DOMAIN w = 1 .. Len(w)
      /\ \A i \in 1 .. Len(w) : w[i] \in Char
  BY WordOfChars, LenProperties, ElementOfSeq DEF Word
<1>2. IsPositional(w) <=> IsGrammarPositional(w)
  BY <1>1, PositionalsAreTheGrammars
<1>3. ASSUME ~IsPositional(w) PROVE Len(w) > 1 /\ w[1] = "-"
  <2>1. w # << >> /\ w # <<"-">> /\ Head(w) = "-"
    BY <1>3 DEF IsPositional, StartsWith
  <2>2. Len(w) # 0
    BY <1>1, <2>1, EmptySeq
  <2>3. Head(w) = w[1]
    OBVIOUS
  <2>4. Len(w) # 1
    <3> SUFFICES ASSUME Len(w) = 1 PROVE FALSE
      OBVIOUS
    <3>1. "-" \in Char
      BY DEF Char
    <3>2. <<"-">> \in Seq(Char) /\ Len(<<"-">>) = 1 /\ <<"-">>[1] = "-"
      BY <3>1
    <3> DEFINE d == <<"-">>
    <3> HIDE DEF d
    <3>3. w = d
      BY <1>1, <2>1, <2>3, <3>2, SeqEqual DEF d
    <3> QED
      BY <2>1, <3>3 DEF d
  <2> QED
    BY <1>1, <2>1, <2>2, <2>3, <2>4
<1>4. CASE IsPositional(w)
  <2>1. PortItem(w) \in Item
    BY <1>1 DEF PortItem, Item
  <2>2. <<PortItem(w)>> \in Seq(Item)
    <3> HIDE DEF Item
    <3> QED
      BY <2>1
  <2>3. ItemsOf(w) = <<PortItem(w)>>
    BY <1>2, <1>4 DEF ItemsOf, PortItem
  <2> QED
    BY <1>4, <2>1, <2>2, <2>3
<1>5. CASE ~IsPositional(w) /\ (w \in DOMAIN Names \/ ~IsCompound(w))
  <2>1. ItemsOf(w) = <<FlagItem(w)>>
    BY <1>2, <1>3, <1>5 DEF ItemsOf, IsCompound
  <2>2. <<FlagItem(w)>> \in Seq(Item)
    <3>1. FlagItem(w) \in Item
      BY <1>1, FlagItemType
    <3> QED
      BY <3>1
  <2> QED
    BY <1>1, <1>3, <1>5, <2>1, <2>2
<1>6. CASE ~IsPositional(w) /\ w \notin DOMAIN Names /\ IsCompound(w)
  <2> DEFINE n == Len(w) - 1
             s == ItemsOf(w)
  <2>1. s = [i \in 1 .. n |-> FlagItem(<<"-", w[i + 1]>>)]
    BY <1>2, <1>6 DEF ItemsOf, IsCompound
  <2>2. ASSUME NEW i \in 1 .. n PROVE FlagItem(<<"-", w[i + 1]>>) \in Item
    <3>1. w[i + 1] \in Char /\ "-" \in Char
      BY <1>1 DEF Char
    <3>2. <<"-", w[i + 1]>> \in Seq(Char)
      BY <3>1
    <3> QED
      BY <3>2, FlagItemType
  <2>3. n \in Nat
    BY <1>1, <1>3, <1>6
  <2> HIDE DEF n, s
  <2>4. s = [i \in 1 .. n |-> s[i]] /\ \A i \in 1 .. n : s[i] = FlagItem(<<"-", w[i + 1]>>)
    BY <2>1
  <2>5. s \in Seq(Item) /\ Len(s) = n
    <3>1. \A i \in 1 .. n : s[i] \in Item
      BY <2>2, <2>4
    <3> QED
      BY <2>3, <2>4, <3>1, SeqOfElements
  <2> QED
    BY <1>1, <1>3, <1>6, <2>4, <2>5 DEF n, s
<1> QED
  BY <1>4, <1>5, <1>6

\* The items of the first k words.
ItemsUpTo(words, k) == FlattenSeq([i \in 1 .. k |-> ItemsOf(words[i])])

\* t begins with s.
Begins(s, t) == Len(s) <= Len(t) /\ \A i \in 1 .. Len(s) : s[i] = t[i]

\* One more word adds its items.
LEMMA ItemsGrow ==
  ASSUME NEW words \in Seq(Word)
  PROVE  /\ ItemsUpTo(words, 0) = << >>
         /\ \A k \in 0 .. Len(words) : ItemsUpTo(words, k) \in Seq(Item)
         /\ \A k \in 1 .. Len(words) :
              ItemsUpTo(words, k) = ItemsUpTo(words, k - 1) \o ItemsOf(words[k])
<1> DEFINE n == Len(words)
           Items == Seq(Item)
           ss(k) == [i \in 1 .. k |-> ItemsOf(words[i])]
<1>1. n \in Nat /\ \A i \in 1 .. n : words[i] \in Word
  BY LenProperties, ElementOfSeq
<1>2. \A i \in 1 .. n : ItemsOf(words[i]) \in Items
  BY <1>1, ItemsOfWord
<1> HIDE DEF n, Items
<1>3. ASSUME NEW k \in 0 .. n PROVE ss(k) \in Seq(Items) /\ Len(ss(k)) = k
  <2> DEFINE f == ss(k)
  <2>1. f = [i \in 1 .. k |-> f[i]] /\ k \in Nat /\ \A i \in 1 .. k : f[i] \in Items
    BY <1>1, <1>2
  <2> HIDE DEF f
  <2>2. f \in Seq(Items) /\ Len(f) = k
    BY <2>1, SeqOfElements
  <2> QED
    BY <2>2 DEF f
<1>4. << >> \in Items
  BY EmptySeq DEF Items
<1>5. ItemsUpTo(words, 0) = << >>
  <2>1. ss(0) \in Seq(Items) /\ Len(ss(0)) = 0
    BY <1>1, <1>3
  <2>2. ss(0) = << >>
    BY <2>1, EmptySeq
  <2> QED
    BY <2>2, FlattenNothing DEF ItemsUpTo
<1>6. ASSUME NEW k \in 0 .. n PROVE ItemsUpTo(words, k) \in Items
  BY <1>3, <1>4, FlattenSnoc DEF ItemsUpTo, Items
<1>7. ASSUME NEW k \in 1 .. n
      PROVE  ItemsUpTo(words, k) = ItemsUpTo(words, k - 1) \o ItemsOf(words[k])
  <2> DEFINE s == ss(k - 1)
             t == ss(k)
             x == ItemsOf(words[k])
  <2>1. k - 1 \in 0 .. n /\ k \in 0 .. n /\ k \in Nat
    BY <1>1
  <2>2. /\ s \in Seq(Items) /\ Len(s) = k - 1 /\ t \in Seq(Items) /\ Len(t) = k
        /\ x \in Items
    BY <1>2, <1>3, <2>1
  <2>3. (\A i \in 1 .. k - 1 : t[i] = s[i]) /\ t[k] = x
    BY <2>1
  <2> HIDE DEF s, t, x
  <2> DEFINE a == Append(s, x)
  <2>4. /\ a \in Seq(Items) /\ Len(a) = k
        /\ \A i \in 1 .. k - 1 : a[i] = s[i]
        /\ a[k] = x
    <3>1. k - 1 + 1 = k
      BY <2>1
    <3> QED
      BY <2>2, <3>1, AppendProperties
  <2> HIDE DEF a
  <2>5. \A i \in 1 .. k : i = k \/ i \in 1 .. k - 1
    BY <2>1
  <2>6. a = t
    <3>1. \A i \in 1 .. k : a[i] = t[i]
      BY <2>3, <2>4, <2>5
    <3> QED
      BY <2>2, <2>4, <3>1, SeqEqual
  <2>7. FlattenSeq(Append(s, x)) = FlattenSeq(s) \o x
    BY <2>2, FlattenSnoc DEF Items
  <2>8. FlattenSeq(t) = FlattenSeq(s) \o x
    BY <2>6, <2>7 DEF a
  <2> QED
    BY <2>8 DEF ItemsUpTo, s, t, x
<1> QED
  BY <1>5, <1>6, <1>7 DEF Items, n

\* Every beginning of the words gives a beginning of the items.
LEMMA ItemsBegin ==
  ASSUME NEW words \in Seq(Word), NEW k \in 0 .. Len(words)
  PROVE  Begins(ItemsUpTo(words, k), ItemsUpTo(words, Len(words)))
<1> DEFINE n == Len(words)
           u(l) == ItemsUpTo(words, l)
           P == {l \in 0 .. n : l >= k => Begins(u(k), u(l))}
<1>1. n \in Nat
  BY LenProperties
<1>2. \A l \in 0 .. n : u(l) \in Seq(Item) /\ Len(u(l)) \in Nat
  BY ItemsGrow, LenProperties
<1> HIDE DEF n
<1>3. ASSUME NEW l \in 0 .. n, l = k PROVE l \in P
  <2>1. Begins(u(k), u(k))
    BY <1>2, <1>3 DEF Begins
  <2> QED
    BY <1>3, <2>1
<1>4. 0 \in P
  <2>1. CASE k = 0
    BY <1>1, <1>3, <2>1
  <2>2. CASE k # 0
    BY <1>1, <2>2 DEF n
  <2> QED
    BY <2>1, <2>2
<1>5. ASSUME NEW l \in 1 .. n, l - 1 \in P PROVE l \in P
  <2>1. CASE l < k
    BY <1>1, <2>1 DEF n
  <2>2. CASE l = k
    BY <1>1, <1>3, <2>2
  <2>3. CASE l > k
    <3>1. Begins(u(k), u(l - 1))
      BY <1>1, <1>5, <2>3 DEF n
    <3>2. l - 1 \in 0 .. n /\ k \in 0 .. n /\ l \in 0 .. n
      BY <1>1 DEF n
    <3>3. u(l) = u(l - 1) \o ItemsOf(words[l])
      BY ItemsGrow DEF n
    <3>4. ItemsOf(words[l]) \in Seq(Item)
      <4>1. words[l] \in Word
        BY ElementOfSeq DEF n
      <4> QED
        BY <4>1, ItemsOfWord
    <3> DEFINE a == u(k)
               b == u(l - 1)
               c == ItemsOf(words[l])
    <3>5. a \in Seq(Item) /\ b \in Seq(Item) /\ c \in Seq(Item)
          /\ Len(a) \in Nat /\ Len(b) \in Nat
      BY <1>2, <3>2, <3>4
    <3> HIDE DEF a, b, c
    <3>6. Len(c) \in Nat
      BY <3>5, LenProperties
    <3>7. /\ Len(b \o c) = Len(b) + Len(c)
          /\ \A i \in 1 .. Len(b) + Len(c) :
               (b \o c)[i] = IF i <= Len(b) THEN b[i] ELSE c[i - Len(b)]
      BY <3>5, ConcatProperties
    <3>8. Begins(a, b)
      BY <3>1 DEF a, b
    <3>9. Begins(a, b \o c)
      BY <3>5, <3>6, <3>7, <3>8 DEF Begins
    <3>10. Begins(u(k), u(l))
      BY <3>3, <3>9 DEF a, b, c
    <3> QED
      BY <3>2, <3>10
  <2> QED
    BY <1>1, <2>1, <2>2, <2>3 DEF n
<1> HIDE DEF P
<1>6. n \in P
  <2>1. n \in 0 .. n
    BY <1>1
  <2> QED
    BY <1>1, <1>4, <1>5, <2>1, CountingUp
<1> QED
  BY <1>1, <1>6 DEF P, n

-----------------------------------------------------------------------------
(* What the items mean *)

IsPort(s, i) == s[i].kind = "port"
AsksFor(s, i, a) == s[i].kind = "flag" /\ s[i].is = a

\* The item i cannot be: it is unknown, a flag given before, no port number, or
\* a port that does not stand with those before it.
IsBad(s, i) ==
  \/ s[i].kind = "unknown"
  \/ s[i].kind = "flag" /\ \E j \in 1 .. i - 1 : AsksFor(s, j, s[i].is)
  \/ IsPort(s, i) /\ ~IsPortNumber(s[i].is)
  \/ IsPort(s, i) /\ \E j \in 1 .. i - 1 : IsPort(s, j) /\ \E k \in j .. i : ~IsPort(s, k)

IsExit(s, i) == s[i].kind = "flag" /\ s[i].is \in Exiting /\ ~IsBad(s, i)

\* The first item that is B comes before any other that decides.
ComesFirst(s, B(_, _)) ==
  \E i \in 1 .. Len(s) :
    B(s, i) /\ \A j \in 1 .. Len(s) : IsBad(s, j) \/ IsExit(s, j) => i <= j

OutcomeOf(s) ==
  IF ComesFirst(s, IsBad) THEN "refused"
  ELSE IF ComesFirst(s, IsExit) THEN "exited"
  ELSE IF \E i \in 1 .. Len(s) : IsPort(s, i) THEN "accepted" ELSE "refused"

PortNumbers(s) == {NumberOf(s[i].is) : i \in {j \in 1 .. Len(s) : IsPort(s, j)}}

\* Every word of the command line, as preprocess_arguments leaves it.
WordsIn(args) == FlattenSeq([i \in DOMAIN args |-> WordsOf(args[i])])

\* They are words, and what preprocess_arguments makes.
LEMMA WordsInType ==
  ASSUME NEW args \in ArgLists
  PROVE  /\ WordsIn(args) \in Seq(Word)
         /\ WordsIn(args) = FlattenSeq([i \in DOMAIN args |-> Split(args[i])])
<1>1. \A i \in DOMAIN args : args[i] \in Seq(STRING)
  BY ArgsType DEF Word
<1>2. [i \in DOMAIN args |-> Split(args[i])] = [i \in DOMAIN args |-> WordsOf(args[i])]
  BY <1>1, SplitAsMeant
<1>3. WordsIn(args) = FlattenSeq([i \in DOMAIN args |-> Split(args[i])])
  BY <1>2 DEF WordsIn
<1> QED
  BY <1>3, PreprocessedType

ItemsIn(args) == LET words == WordsIn(args) IN ItemsUpTo(words, Len(words))

\* The meaning of a command line in terms of its items.
LEMMA MeaningIs ==
  ASSUME NEW args \in ArgLists
  PROVE  LET s == ItemsIn(args)
         IN  /\ s \in Seq(Item)
             /\ Meaning(args).outcome = OutcomeOf(s)
             /\ (\A i \in 1 .. Len(s) : ~IsBad(s, i)) =>
                  Meaning(args).ports = PortNumbers(s)
             /\ Meaning(args).debug <=> \E i \in 1 .. Len(s) : AsksFor(s, i, "debug")
<1> DEFINE words == WordsIn(args)
           s == FlattenSeq([i \in DOMAIN words |-> ItemsOf(words[i])])
           Ports   == {i \in DOMAIN s : s[i].kind = "port"}
           Flagged == {i \in DOMAIN s : s[i].kind = "flag"}
           Asks(a) == {i \in Flagged : s[i].is = a}
           Bad     == {i \in DOMAIN s :
                         \/ s[i].kind = "unknown"
                         \/ i \in Flagged /\ \E j \in Asks(s[i].is) : j < i
                         \/ i \in Ports /\ ~IsPortNumber(s[i].is)
                         \/ i \in Ports /\ \E j \in Ports : j < i /\ ~(j .. i \subseteq Ports)}
           Exit    == {i \in Flagged : s[i].is \in Exiting} \ Bad
           IsFirstOf(S) == \E i \in S : \A j \in Bad \cup Exit : i <= j
<1>1. Meaning(args) =
        [outcome |-> IF IsFirstOf(Bad) THEN "refused"
                     ELSE IF IsFirstOf(Exit) THEN "exited"
                     ELSE IF Ports = {} THEN "refused" ELSE "accepted",
         ports   |-> {NumberOf(s[i].is) : i \in Ports \ Bad},
         debug   |-> Asks("debug") # {}]
  BY DEF Meaning, WordsIn
<1>2. words \in Seq(Word) /\ DOMAIN words = 1 .. Len(words) /\ Len(words) \in Nat
  BY WordsInType, LenProperties
<1>3. s = ItemsIn(args)
  BY <1>2 DEF ItemsIn, ItemsUpTo
<1> HIDE DEF words
<1>4. s \in Seq(Item)
  <2>1. Len(words) \in 0 .. Len(words)
    BY <1>2
  <2> QED
    BY <1>2, <1>3, <2>1, ItemsGrow DEF ItemsIn, words
<1> HIDE DEF s
<1>5. Len(s) \in Nat /\ DOMAIN s = 1 .. Len(s)
  BY <1>4, LenProperties
<1>6. \A i : i \in Ports <=> i \in 1 .. Len(s) /\ IsPort(s, i)
  BY <1>5 DEF IsPort
<1>7. \A i, a : i \in Asks(a) <=> i \in 1 .. Len(s) /\ AsksFor(s, i, a)
  BY <1>5 DEF AsksFor
<1>8. ASSUME NEW i \in 1 .. Len(s) PROVE i \in Bad <=> IsBad(s, i)
  <2>1. \A j : j \in 1 .. i - 1 <=> j \in 1 .. Len(s) /\ j < i
    BY <1>5
  <2>2. (\E j \in Asks(s[i].is) : j < i) <=> \E j \in 1 .. i - 1 : AsksFor(s, j, s[i].is)
    <3> HIDE DEF Asks
    <3> QED
      BY <1>7, <2>1
  <2>3. (\E j \in Ports : j < i /\ ~(j .. i \subseteq Ports)) <=>
          \E j \in 1 .. i - 1 : IsPort(s, j) /\ \E k \in j .. i : ~IsPort(s, k)
    <3>1. \A j \in 1 .. i - 1 : \A k \in j .. i : k \in 1 .. Len(s)
      BY <1>5
    <3>2. \A j \in 1 .. i - 1 : ~(j .. i \subseteq Ports) <=> \E k \in j .. i : ~IsPort(s, k)
      <4> HIDE DEF Ports
      <4> QED
        BY <1>6, <3>1
    <3> HIDE DEF Ports
    <3> QED
      BY <1>6, <2>1, <3>2
  <2>4. i \in DOMAIN s /\ (i \in Flagged <=> s[i].kind = "flag")
        /\ (i \in Ports <=> IsPort(s, i))
    BY <1>5, <1>6
  <2>5. i \in Bad <=>
          \/ s[i].kind = "unknown"
          \/ i \in Flagged /\ \E j \in Asks(s[i].is) : j < i
          \/ i \in Ports /\ ~IsPortNumber(s[i].is)
          \/ i \in Ports /\ \E j \in Ports : j < i /\ ~(j .. i \subseteq Ports)
    <3> HIDE DEF Flagged, Ports, Asks
    <3> QED
      BY <2>4
  <2> HIDE DEF Bad, Flagged, Ports, Asks
  <2> QED
    BY <2>2, <2>3, <2>4, <2>5 DEF IsBad
<1>9. \A i : i \in Bad => i \in 1 .. Len(s)
  BY <1>5
<1>10. \A i : i \in Exit <=> i \in 1 .. Len(s) /\ IsExit(s, i)
  <2>1. \A i : i \in Flagged <=> i \in 1 .. Len(s) /\ s[i].kind = "flag"
    BY <1>5
  <2> HIDE DEF Bad, Flagged
  <2> QED
    BY <1>8, <2>1 DEF IsExit
<1> HIDE DEF Bad, Exit, Ports, Asks
<1>11. /\ IsFirstOf(Bad) <=> ComesFirst(s, IsBad)
       /\ IsFirstOf(Exit) <=> ComesFirst(s, IsExit)
  <2>1. \A i : i \in Bad <=> i \in 1 .. Len(s) /\ IsBad(s, i)
    BY <1>8, <1>9
  <2>2. \A i : (\A j \in Bad \cup Exit : i <= j) <=>
                 \A j \in 1 .. Len(s) : IsBad(s, j) \/ IsExit(s, j) => i <= j
    BY <1>10, <2>1
  <2>3. IsFirstOf(Bad) <=> ComesFirst(s, IsBad)
    BY <2>1, <2>2 DEF ComesFirst
  <2>4. IsFirstOf(Exit) <=> ComesFirst(s, IsExit)
    BY <1>10, <2>2 DEF ComesFirst
  <2> QED
    BY <2>3, <2>4
<1> HIDE DEF IsFirstOf
<1>12. Ports = {} <=> ~\E i \in 1 .. Len(s) : IsPort(s, i)
  BY <1>6
<1>13. Meaning(args).outcome = OutcomeOf(s)
  BY <1>1, <1>11, <1>12 DEF OutcomeOf
<1>14. (\A i \in 1 .. Len(s) : ~IsBad(s, i)) => Meaning(args).ports = PortNumbers(s)
  <2> SUFFICES ASSUME \A i \in 1 .. Len(s) : ~IsBad(s, i)
               PROVE  Meaning(args).ports = PortNumbers(s)
    OBVIOUS
  <2>1. Ports \ Bad = {j \in 1 .. Len(s) : IsPort(s, j)}
    BY <1>6, <1>8
  <2>2. Meaning(args).ports = {NumberOf(s[i].is) : i \in Ports \ Bad}
    BY <1>1
  <2> QED
    BY <2>1, <2>2 DEF PortNumbers
<1>15. Meaning(args).debug <=> \E i \in 1 .. Len(s) : AsksFor(s, i, "debug")
  <2>1. Meaning(args).debug = (Asks("debug") # {})
    BY <1>1
  <2> QED
    BY <1>7, <2>1
<1> QED
  BY <1>3, <1>4, <1>13, <1>14, <1>15

\* What is read of a sequence stays so when it goes on.
LEMMA JudgedAlready ==
  ASSUME NEW s, NEW t, Begins(s, t), Len(s) \in Nat, NEW i \in 1 .. Len(s)
  PROVE  /\ IsPort(s, i) <=> IsPort(t, i)
         /\ \A a : AsksFor(s, i, a) <=> AsksFor(t, i, a)
         /\ IsBad(s, i) <=> IsBad(t, i)
         /\ IsExit(s, i) <=> IsExit(t, i)
<1>1. \A j \in 1 .. i : j \in 1 .. Len(s) /\ s[j] = t[j]
  BY DEF Begins
<1>2. \A j \in 1 .. i : /\ IsPort(s, j) <=> IsPort(t, j)
                        /\ \A a : AsksFor(s, j, a) <=> AsksFor(t, j, a)
  BY <1>1 DEF IsPort, AsksFor
<1>3. i \in 1 .. i /\ s[i] = t[i] /\ \A j \in 1 .. i - 1 : j \in 1 .. i
  BY <1>1
<1>4. \A j \in 1 .. i - 1 : \A k \in j .. i : k \in 1 .. i
  OBVIOUS
<1>5. IsBad(s, i) <=> IsBad(t, i)
  <2>1. (\E j \in 1 .. i - 1 : AsksFor(s, j, s[i].is)) <=>
          \E j \in 1 .. i - 1 : AsksFor(t, j, t[i].is)
    BY <1>2, <1>3
  <2>2. (\E j \in 1 .. i - 1 : IsPort(s, j) /\ \E k \in j .. i : ~IsPort(s, k)) <=>
          \E j \in 1 .. i - 1 : IsPort(t, j) /\ \E k \in j .. i : ~IsPort(t, k)
    BY <1>2, <1>3, <1>4
  <2> QED
    BY <1>2, <1>3, <2>1, <2>2 DEF IsBad
<1>6. IsExit(s, i) <=> IsExit(t, i)
  BY <1>3, <1>5 DEF IsExit
<1> QED
  BY <1>2, <1>3, <1>5, <1>6

\* What comes of a bad item, if nothing before it exits.
LEMMA BadDecides ==
  ASSUME NEW s, NEW t, Begins(s, t), Len(s) \in Nat, Len(t) \in Nat,
         NEW b \in 1 .. Len(s), IsBad(s, b), \A i \in 1 .. b : ~IsExit(s, i)
  PROVE  OutcomeOf(t) = "refused"
<1> DEFINE B == {i \in 1 .. Len(t) : IsBad(t, i)}
           m == Min(B)
<1>1. b \in B /\ B \in SUBSET Nat
  BY JudgedAlready DEF Begins
<1>2. m \in B /\ \A i \in B : m <= i
  BY <1>1, LeastOf
<1> HIDE DEF m
<1>3. m \in 1 .. Len(t) /\ IsBad(t, m) /\ m <= b
  BY <1>1, <1>2
<1>4. \A i \in 1 .. Len(t) : IsExit(t, i) => m <= i
  <2> SUFFICES ASSUME NEW i \in 1 .. Len(t), IsExit(t, i), ~(m <= i) PROVE FALSE
    OBVIOUS
  <2>1. i \in 1 .. b /\ i \in 1 .. Len(s)
    BY <1>3
  <2> QED
    BY <2>1, JudgedAlready
<1>5. ComesFirst(t, IsBad)
  BY <1>2, <1>3, <1>4 DEF ComesFirst
<1> QED
  BY <1>5 DEF OutcomeOf

\* What comes of an item that exits, if nothing before it decides.
LEMMA ExitDecides ==
  ASSUME NEW s, NEW t, Begins(s, t), Len(s) \in Nat, Len(t) \in Nat,
         NEW e \in 1 .. Len(s), IsExit(s, e),
         \A i \in 1 .. e - 1 : ~IsBad(s, i) /\ ~IsExit(s, i)
  PROVE  OutcomeOf(t) = "exited"
<1>1. e \in 1 .. Len(t) /\ IsExit(t, e) /\ ~IsBad(t, e)
  <2>1. e \in 1 .. Len(t) /\ IsExit(t, e)
    BY JudgedAlready DEF Begins
  <2> QED
    BY <2>1 DEF IsExit
<1>2. ASSUME NEW i \in 1 .. Len(t), IsBad(t, i) \/ IsExit(t, i) PROVE e <= i
  <2> SUFFICES ASSUME ~(e <= i) PROVE FALSE
    OBVIOUS
  <2>1. i \in 1 .. e - 1 /\ i \in 1 .. Len(s)
    BY <1>1
  <2> QED
    BY <1>2, <2>1, JudgedAlready
<1>3. ComesFirst(t, IsExit)
  BY <1>1, <1>2 DEF ComesFirst
<1>4. ~ComesFirst(t, IsBad)
  <2> SUFFICES ASSUME NEW i \in 1 .. Len(t), IsBad(t, i),
                      \A j \in 1 .. Len(t) : IsBad(t, j) \/ IsExit(t, j) => i <= j
               PROVE  FALSE
    BY DEF ComesFirst
  <2>1. i <= e /\ e <= i
    BY <1>1, <1>2
  <2>2. i = e
    BY <1>1, <2>1
  <2> QED
    BY <1>1, <2>2
<1> QED
  BY <1>3, <1>4 DEF OutcomeOf

-----------------------------------------------------------------------------
(* What has been read *)

\* Everything that s asks for has been done, and nothing else.
Read(s, u, v) ==
  /\ \A i \in 1 .. Len(s) : ~IsBad(s, i) /\ ~IsExit(s, i)
  /\ \A a \in Flags : a \in u <=> \E i \in 1 .. Len(s) : AsksFor(s, i, a)
  /\ "port" \in u <=> \E i \in 1 .. Len(s) : IsPort(s, i)
  /\ v # << >> <=> \E i \in 1 .. Len(s) : IsPort(s, i)
  /\ ToSet(v) = PortNumbers(s)

\* At the beginning nothing has been read.
LEMMA ReadNothing == Read(<< >>, {}, << >>)
<1>1. Len(<< >>) = 0 /\ ToSet(<< >>) = {}
  BY EmptySeq DEF ToSet
<1> QED
  BY <1>1 DEF Read, PortNumbers

\* A flag, after what has been read.
LEMMA FlagComes ==
  ASSUME NEW s \in Seq(Item), NEW t \in Seq(Item), NEW a \in Flags,
         Begins(s, t), Len(t) = Len(s) + 1,
         t[Len(s) + 1] = [kind |-> "flag", is |-> a],
         NEW u, NEW v, Read(s, u, v)
  PROVE  /\ a \in u => IsBad(t, Len(s) + 1)
         /\ a \notin u /\ a \in Exiting => IsExit(t, Len(s) + 1)
         /\ a \notin u /\ a \notin Exiting => Read(t, u \cup {a}, v)
         /\ \A i \in 1 .. Len(s) : ~IsBad(t, i) /\ ~IsExit(t, i)
<1> DEFINE n == Len(s)
           m == Len(s) + 1
<1>1. n \in Nat /\ m = n + 1 /\ m - 1 = n /\ \A i \in 1 .. m : i = m \/ i \in 1 .. n
  BY LenProperties
<1>2. Len(t) = m /\ AsksFor(t, m, a) /\ ~IsPort(t, m) /\ t[m].kind = "flag"
      /\ t[m].is = a /\ \A b : AsksFor(t, m, b) => b = a
  BY DEF AsksFor, IsPort
<1>3. ASSUME NEW i \in 1 .. n
      PROVE  /\ IsPort(s, i) <=> IsPort(t, i)
             /\ \A b : AsksFor(s, i, b) <=> AsksFor(t, i, b)
             /\ ~IsBad(t, i) /\ ~IsExit(t, i)
             /\ s[i] = t[i]
  BY <1>1, JudgedAlready DEF Read, Begins
<1> HIDE DEF n, m
<1>4. IsBad(t, m) <=> \E i \in 1 .. n : AsksFor(s, i, a)
  <2>1. IsBad(t, m) <=> \E i \in 1 .. m - 1 : AsksFor(t, i, a)
    BY <1>2 DEF IsBad
  <2> QED
    BY <1>1, <1>3, <2>1
<1>5. IsBad(t, m) <=> a \in u
  BY <1>4 DEF Read, n
<1>6. IsExit(t, m) <=> a \in Exiting /\ ~IsBad(t, m)
  BY <1>2 DEF IsExit
<1>7. ASSUME a \notin u, a \notin Exiting PROVE Read(t, u \cup {a}, v)
  <2>1. \A i \in 1 .. Len(t) : ~IsBad(t, i) /\ ~IsExit(t, i)
    BY <1>1, <1>2, <1>3, <1>5, <1>6, <1>7
  <2>2. (\E i \in 1 .. Len(t) : IsPort(t, i)) <=> \E i \in 1 .. n : IsPort(s, i)
    BY <1>1, <1>2, <1>3
  <2>3. "port" \in u \cup {a} <=> "port" \in u
    BY DEF Flags
  <2>4. ASSUME NEW b \in Flags
        PROVE  b \in u \cup {a} <=> \E i \in 1 .. Len(t) : AsksFor(t, i, b)
    <3>1. (\E i \in 1 .. Len(t) : AsksFor(t, i, b)) <=>
            b = a \/ \E i \in 1 .. n : AsksFor(s, i, b)
      <4>1. m \in 1 .. m
        BY <1>1
      <4> QED
        BY <1>1, <1>2, <1>3, <4>1
    <3> QED
      BY <3>1 DEF Read, n
  <2>5. PortNumbers(t) = PortNumbers(s)
    <3>1. {j \in 1 .. Len(t) : IsPort(t, j)} = {j \in 1 .. n : IsPort(s, j)}
      BY <1>1, <1>2, <1>3
    <3>2. \A i \in {j \in 1 .. n : IsPort(s, j)} : t[i] = s[i]
      BY <1>3
    <3> QED
      BY <3>1, <3>2 DEF PortNumbers, n
  <2> QED
    BY <2>1, <2>2, <2>3, <2>4, <2>5 DEF Read, n
<1> QED
  BY <1>3, <1>5, <1>6, <1>7 DEF n, m

\* Something unknown, after what has been read.
LEMMA UnknownComes ==
  ASSUME NEW s \in Seq(Item), NEW t \in Seq(Item),
         Begins(s, t), Len(t) = Len(s) + 1, t[Len(s) + 1].kind = "unknown",
         NEW u, NEW v, Read(s, u, v)
  PROVE  /\ IsBad(t, Len(s) + 1)
         /\ \A i \in 1 .. Len(s) + 1 : ~IsExit(t, i)
<1>1. Len(s) \in Nat
  BY LenProperties
<1>2. IsBad(t, Len(s) + 1) /\ ~IsExit(t, Len(s) + 1)
  BY DEF IsBad, IsExit
<1>3. \A i \in 1 .. Len(s) : ~IsExit(t, i)
  BY <1>1, JudgedAlready DEF Read
<1>4. \A i \in 1 .. Len(s) + 1 : i = Len(s) + 1 \/ i \in 1 .. Len(s)
  BY <1>1
<1> QED
  BY <1>2, <1>3, <1>4

\* Another port, when ports have been read and something else since.
LEMMA PortComesAgain ==
  ASSUME NEW s \in Seq(Item), NEW t \in Seq(Item),
         Begins(s, t), Len(t) = Len(s) + 1, IsPort(t, Len(s) + 1),
         NEW u, NEW v, Read(s, u, v), "port" \in u, ~IsPort(s, Len(s))
  PROVE  /\ IsBad(t, Len(s) + 1)
         /\ \A i \in 1 .. Len(s) + 1 : ~IsExit(t, i)
<1>1. Len(s) \in Nat
  BY LenProperties
<1>2. PICK j \in 1 .. Len(s) : IsPort(s, j)
  BY DEF Read
<1>3. j \in 1 .. Len(s) + 1 - 1 /\ Len(s) \in j .. Len(s) + 1 /\ Len(s) \in 1 .. Len(s)
  BY <1>1
<1>4. IsPort(t, j) /\ ~IsPort(t, Len(s))
  BY <1>1, <1>2, <1>3, JudgedAlready
<1>5. IsBad(t, Len(s) + 1)
  BY <1>3, <1>4 DEF IsBad
<1>6. ~IsExit(t, Len(s) + 1)
  BY <1>5 DEF IsExit
<1>7. \A i \in 1 .. Len(s) : ~IsExit(t, i)
  BY <1>1, JudgedAlready DEF Read
<1>8. \A i \in 1 .. Len(s) + 1 : i = Len(s) + 1 \/ i \in 1 .. Len(s)
  BY <1>1
<1> QED
  BY <1>5, <1>6, <1>7, <1>8

\* The first ports, all together: m of them.
LEMMA PortsCome ==
  ASSUME NEW s \in Seq(Item), NEW t \in Seq(Item), NEW m \in Nat \ {0},
         Begins(s, t), Len(t) = Len(s) + m,
         NEW p \in Seq(Word), Len(p) = m,
         \A i \in 1 .. m : t[Len(s) + i] = PortItem(p[i]),
         NEW u, NEW v, Read(s, u, v), "port" \notin u
  PROVE  /\ \A i \in 1 .. m : ~IsPortNumber(p[i]) => IsBad(t, Len(s) + i)
         /\ \A i \in 1 .. Len(t) : ~IsExit(t, i)
         /\ \A x \in Seq(Value) :
              /\ Len(x) = m
              /\ \A i \in 1 .. m : IsPortNumber(p[i]) /\ x[i] = NumberOf(p[i])
              => Read(t, u \cup {"port"}, x)
<1> DEFINE n == Len(s)
           l == Len(t)
<1>1. n \in Nat /\ l = n + m /\ l \in Nat
  BY LenProperties
<1>2. ASSUME NEW i \in 1 .. n
      PROVE  /\ IsPort(s, i) <=> IsPort(t, i)
             /\ \A b : AsksFor(s, i, b) <=> AsksFor(t, i, b)
             /\ ~IsBad(t, i) /\ ~IsExit(t, i) /\ ~IsPort(t, i)
  BY <1>1, JudgedAlready DEF Read
<1> HIDE DEF n, l
<1>3. ASSUME NEW i \in n + 1 .. l
      PROVE  /\ i - n \in 1 .. m /\ IsPort(t, i) /\ t[i].is = p[i - n]
             /\ \A b : ~AsksFor(t, i, b)
             /\ ~IsExit(t, i)
  <2>1. i - n \in 1 .. m /\ n + (i - n) = i
    BY <1>1
  <2>2. t[i] = PortItem(p[i - n])
    BY <2>1 DEF n
  <2>3. t[i].kind = "port" /\ t[i].is = p[i - n]
    BY <2>2 DEF PortItem
  <2> QED
    BY <2>1, <2>3 DEF IsPort, AsksFor, IsExit
<1>4. \A i \in 1 .. l : i \in 1 .. n \/ i \in n + 1 .. l
  BY <1>1
<1>5. \A i \in 1 .. l : IsPort(t, i) <=> i \in n + 1 .. l
  <2>1. \A i \in 1 .. n : i \notin n + 1 .. l
    BY <1>1
  <2> QED
    BY <1>2, <1>3, <1>4, <2>1
<1>6. ASSUME NEW i \in n + 1 .. l
      PROVE  IsBad(t, i) <=> ~IsPortNumber(p[i - n])
  <2>1. \A j \in 1 .. i - 1 : \A k \in j .. i : j \in 1 .. l /\ k \in 1 .. l
    BY <1>1
  <2>2. \A j \in n + 1 .. l : \A k \in j .. i : k \in n + 1 .. l
    BY <1>1
  <2>3. ~\E j \in 1 .. i - 1 : IsPort(t, j) /\ \E k \in j .. i : ~IsPort(t, k)
    <3> SUFFICES ASSUME NEW j \in 1 .. i - 1, IsPort(t, j), NEW k \in j .. i, ~IsPort(t, k)
                 PROVE  FALSE
      OBVIOUS
    <3>1. j \in n + 1 .. l
      BY <1>5, <2>1
    <3>2. k \in n + 1 .. l
      BY <2>2, <3>1
    <3> QED
      BY <1>5, <2>1, <3>2
  <2>4. t[i].kind = "port"
    BY <1>3 DEF IsPort
  <2> QED
    BY <1>3, <2>3, <2>4 DEF IsBad
<1>7. ASSUME NEW i \in 1 .. m, ~IsPortNumber(p[i]) PROVE IsBad(t, n + i)
  <2>1. n + i \in n + 1 .. l /\ (n + i) - n = i
    BY <1>1
  <2> QED
    BY <1>6, <1>7, <2>1
<1>8. \A i \in 1 .. l : ~IsExit(t, i)
  BY <1>2, <1>3, <1>4
<1>9. ASSUME NEW x \in Seq(Value), Len(x) = m,
             \A i \in 1 .. m : IsPortNumber(p[i]) /\ x[i] = NumberOf(p[i])
      PROVE  Read(t, u \cup {"port"}, x)
  <2>1. \A i \in 1 .. l : ~IsBad(t, i) /\ ~IsExit(t, i)
    <3>1. \A i \in n + 1 .. l : ~IsBad(t, i)
      BY <1>3, <1>6, <1>9
    <3> QED
      BY <1>2, <1>4, <1>8, <3>1
  <2>2. \A a \in Flags : a \in u \cup {"port"} <=> \E i \in 1 .. l : AsksFor(t, i, a)
    <3> SUFFICES ASSUME NEW a \in Flags
                 PROVE  a \in u \cup {"port"} <=> \E i \in 1 .. l : AsksFor(t, i, a)
      OBVIOUS
    <3>1. a # "port"
      BY DEF Flags
    <3>2. a \in u <=> \E i \in 1 .. n : AsksFor(s, i, a)
      BY DEF Read, n
    <3>3. (\E i \in 1 .. l : AsksFor(t, i, a)) <=> \E i \in 1 .. n : AsksFor(s, i, a)
      <4>1. \A i \in 1 .. n : i \in 1 .. l
        BY <1>1
      <4> QED
        BY <1>2, <1>3, <1>4, <4>1
    <3> QED
      BY <3>1, <3>2, <3>3
  <2>3. \E i \in 1 .. l : IsPort(t, i)
    <3>1. n + 1 \in n + 1 .. l /\ n + 1 \in 1 .. l
      BY <1>1
    <3> QED
      BY <1>5, <3>1
  <2>4. x # << >>
    BY <1>9, EmptySeq
  <2>5. ToSet(x) = {x[i] : i \in 1 .. m}
    BY <1>9, LenProperties DEF ToSet
  <2>6. PortNumbers(t) = {NumberOf(t[i].is) : i \in n + 1 .. l}
    <3>1. {j \in 1 .. l : IsPort(t, j)} = n + 1 .. l
      <4>1. \A j \in n + 1 .. l : j \in 1 .. l
        BY <1>1
      <4> QED
        BY <1>5, <4>1
    <3> QED
      BY <3>1 DEF PortNumbers, l
  <2>7. \A i \in n + 1 .. l : NumberOf(t[i].is) = x[i - n] /\ i - n \in 1 .. m
    BY <1>3, <1>9
  <2>8. \A i \in 1 .. m : n + i \in n + 1 .. l /\ (n + i) - n = i
    BY <1>1
  <2>9. \A i \in 1 .. m : NumberOf(t[n + i].is) = x[i]
    BY <2>7, <2>8
  <2>10. ToSet(x) = PortNumbers(t)
    BY <2>5, <2>6, <2>7, <2>8, <2>9
  <2> QED
    BY <2>1, <2>2, <2>3, <2>4, <2>10 DEF Read, l
<1> QED
  BY <1>7, <1>8, <1>9 DEF n, l

-----------------------------------------------------------------------------
(* The invariant *)

\* The words before k have been read but for the letters ls of the last one,
\* and ports have been read to the last of them that stand together.
ReadUpTo(words, k, ls, u, v) ==
  LET items == ItemsUpTo(words, k - 1)
      n == Len(items) - Len(ls)
  IN  /\ n >= 0
      /\ \A i \in 1 .. Len(ls) : items[n + i] = FlagItem(<<"-", ls[i]>>)
      /\ Read(SubSeq(items, 1, n), u, v)
      /\ ls = << >> /\ n > 0 /\ IsPort(items, n) /\ k <= Len(words) =>
           ~IsPositional(words[k])

Reading == ReadUpTo(arguments, it, letters, used, values)

IInv ==
  /\ TypeOK
  /\ AtStart
  /\ outcome # "start" => arguments = WordsIn(raw)
  /\ Parsing => Reading
  /\ OutcomeAsMeant

\* Items after items.
LEMMA Joined ==
  ASSUME NEW s \in Seq(Item), NEW c \in Seq(Item)
  PROVE  /\ s \o c \in Seq(Item) /\ Len(s \o c) = Len(s) + Len(c) /\ Begins(s, s \o c)
         /\ \A i \in 1 .. Len(c) : (s \o c)[Len(s) + i] = c[i]
<1>1. Len(s) \in Nat /\ Len(c) \in Nat
  BY LenProperties
<1>2. /\ s \o c \in Seq(Item) /\ Len(s \o c) = Len(s) + Len(c)
      /\ \A i \in 1 .. Len(s) + Len(c) :
           (s \o c)[i] = IF i <= Len(s) THEN s[i] ELSE c[i - Len(s)]
  BY ConcatProperties
<1>3. \A i \in 1 .. Len(s) : i \in 1 .. Len(s) + Len(c) /\ i <= Len(s)
  BY <1>1
<1>4. \A i \in 1 .. Len(c) : /\ Len(s) + i \in 1 .. Len(s) + Len(c)
                             /\ ~(Len(s) + i <= Len(s))
                             /\ (Len(s) + i) - Len(s) = i
  BY <1>1
<1>5. \A i \in 1 .. Len(c) : (s \o c)[Len(s) + i] = c[i]
  BY <1>2, <1>4
<1>6. Len(s) <= Len(s \o c)
  BY <1>1, <1>2
<1>7. Begins(s, s \o c)
  BY <1>2, <1>3, <1>6 DEF Begins
<1> QED
  BY <1>2, <1>5, <1>7

\* The first items of some.
LEMMA FirstOnes ==
  ASSUME NEW t \in Seq(Item), NEW n \in 0 .. Len(t)
  PROVE  /\ SubSeq(t, 1, n) \in Seq(Item) /\ Len(SubSeq(t, 1, n)) = n
         /\ Begins(SubSeq(t, 1, n), t)
         /\ \A i \in 1 .. n : SubSeq(t, 1, n)[i] = t[i]
<1>1. Len(t) \in Nat /\ \A i \in 1 .. n : t[i] \in Item
  BY LenProperties, ElementOfSeq
<1>2. 1 \in Int /\ n \in Int
  BY <1>1
<1>3. SubSeq(t, 1, n) \in Seq(Item) /\ Len(SubSeq(t, 1, n)) = n
      /\ \A i \in 1 .. n : SubSeq(t, 1, n)[i] = t[i]
  BY <1>1, <1>2, SubSeqProperties
<1> QED
  BY <1>1, <1>3 DEF Begins

\* A beginning consists of the first ones.
LEMMA FirstOnesAre ==
  ASSUME NEW s \in Seq(Item), NEW t \in Seq(Item), Begins(s, t)
  PROVE  SubSeq(t, 1, Len(s)) = s
<1> DEFINE n == Len(s)
           f == SubSeq(t, 1, n)
<1>1. n \in 0 .. Len(t)
  BY LenProperties DEF Begins
<1>2. f \in Seq(Item) /\ Len(f) = n /\ \A i \in 1 .. n : f[i] = t[i]
  BY <1>1, FirstOnes
<1>3. \A i \in 1 .. n : f[i] = s[i]
  BY <1>2 DEF Begins
<1> HIDE DEF f
<1>4. f = s
  BY <1>2, <1>3, SeqEqual
<1> QED
  BY <1>4 DEF f

\* The beginning of a beginning is one.
LEMMA BeginsOnAndOn ==
  ASSUME NEW s \in Seq(Item), NEW t \in Seq(Item), NEW z \in Seq(Item),
         Begins(s, t), Begins(t, z)
  PROVE  Begins(s, z)
<1>1. Len(s) \in Nat /\ Len(t) \in Nat /\ Len(z) \in Nat
  BY LenProperties
<1> QED
  BY <1>1 DEF Begins

\* What the state holds while it parses.
LEMMA WhileParsing ==
  ASSUME IInv, Parsing
  PROVE  /\ raw \in ArgLists /\ arguments \in Seq(Word) /\ Len(arguments) \in Nat
         /\ \A i \in 1 .. Len(arguments) : arguments[i] \in Word
         /\ it \in 1 .. Len(arguments) + 1 /\ letters \in Seq(STRING)
         /\ ItemsIn(raw) = ItemsUpTo(arguments, Len(arguments))
         /\ ItemsIn(raw) \in Seq(Item) /\ Len(ItemsIn(raw)) \in Nat
         /\ \A k \in 0 .. Len(arguments) : /\ ItemsUpTo(arguments, k) \in Seq(Item)
                                           /\ Len(ItemsUpTo(arguments, k)) \in Nat
                                           /\ Begins(ItemsUpTo(arguments, k), ItemsIn(raw))
         /\ Reading
<1>1. /\ raw \in ArgLists /\ arguments \in Seq(Word)
      /\ it \in 1 .. Len(arguments) + 1 /\ letters \in Seq(STRING)
      /\ arguments = WordsIn(raw) /\ Reading
  BY DEF IInv, TypeOK, Word, Parsing
<1>2. Len(arguments) \in Nat /\ \A i \in 1 .. Len(arguments) : arguments[i] \in Word
  BY <1>1, LenProperties, ElementOfSeq
<1>3. ItemsIn(raw) = ItemsUpTo(arguments, Len(arguments))
  BY <1>1 DEF ItemsIn
<1>4. \A k \in 0 .. Len(arguments) : /\ ItemsUpTo(arguments, k) \in Seq(Item)
                                     /\ Len(ItemsUpTo(arguments, k)) \in Nat
  BY <1>1, ItemsGrow, LenProperties
<1>5. \A k \in 0 .. Len(arguments) : Begins(ItemsUpTo(arguments, k), ItemsIn(raw))
  BY <1>1, <1>3, ItemsBegin
<1>6. Len(arguments) \in 0 .. Len(arguments)
  BY <1>2
<1> QED
  BY <1>1, <1>2, <1>3, <1>4, <1>5, <1>6

\* At a word, all the words before it have been read.
LEMMA BetweenWords ==
  ASSUME IInv, Parsing, letters = << >>
  PROVE  LET s == ItemsUpTo(arguments, it - 1)
         IN  /\ s \in Seq(Item) /\ Len(s) \in Nat /\ Read(s, used, values)
             /\ Begins(s, ItemsIn(raw))
             /\ Len(s) > 0 /\ IsPort(s, Len(s)) /\ it <= Len(arguments) =>
                  ~IsPositional(arguments[it])
<1> DEFINE s == ItemsUpTo(arguments, it - 1)
<1>1. it - 1 \in 0 .. Len(arguments)
  BY WhileParsing
<1>2. s \in Seq(Item) /\ Len(s) \in Nat /\ Begins(s, ItemsIn(raw)) /\ Reading
  BY <1>1, WhileParsing
<1>3. Len(letters) = 0 /\ Len(s) - 0 = Len(s)
  BY <1>2, EmptySeq
<1>4. SubSeq(s, 1, Len(s)) = s
  BY <1>2, SubSeqFull
<1>5. /\ Read(s, used, values)
      /\ Len(s) > 0 /\ IsPort(s, Len(s)) /\ it <= Len(arguments) =>
           ~IsPositional(arguments[it])
  <2> DEFINE n == Len(s) - Len(letters)
  <2>1. n = Len(s)
    BY <1>3
  <2>2. /\ Read(SubSeq(s, 1, n), used, values)
        /\ letters = << >> /\ n > 0 /\ IsPort(s, n) /\ it <= Len(arguments) =>
             ~IsPositional(arguments[it])
    BY <1>2 DEF Reading, ReadUpTo
  <2> HIDE DEF n, s
  <2> QED
    BY <1>4, <2>1, <2>2
<1> QED
  BY <1>2, <1>5

\* And when it has read a word, it is at the next.
LEMMA WordRead ==
  ASSUME NEW words \in Seq(Word), NEW k \in 1 .. Len(words) + 1, NEW ls, ls = << >>,
         NEW u, NEW v, Read(ItemsUpTo(words, k - 1), u, v),
         LET s == ItemsUpTo(words, k - 1)
         IN  Len(s) > 0 /\ IsPort(s, Len(s)) /\ k <= Len(words) => ~IsPositional(words[k])
  PROVE  ReadUpTo(words, k, ls, u, v)
<1> DEFINE s == ItemsUpTo(words, k - 1)
           n == Len(s) - Len(ls)
<1>1. k - 1 \in 0 .. Len(words)
  BY LenProperties
<1>2. s \in Seq(Item) /\ Len(s) \in Nat
  BY <1>1, ItemsGrow, LenProperties
<1>3. Len(ls) = 0 /\ n = Len(s)
  BY <1>2, EmptySeq
<1>4. SubSeq(s, 1, Len(s)) = s
  BY <1>2, SubSeqFull
<1>5. /\ Read(s, u, v)
      /\ Len(s) > 0 /\ IsPort(s, Len(s)) /\ k <= Len(words) => ~IsPositional(words[k])
  OBVIOUS
<1> HIDE DEF s, n
<1>6. n >= 0
  BY <1>2, <1>3
<1>7. SubSeq(s, 1, n) = s
  BY <1>3, <1>4
<1>8. Read(SubSeq(s, 1, n), u, v)
  BY <1>5, <1>7
<1>9. \A i \in 1 .. Len(ls) : s[n + i] = FlagItem(<<"-", ls[i]>>)
  BY <1>3
<1>10. n > 0 /\ IsPort(s, n) /\ k <= Len(words) => ~IsPositional(words[k])
  BY <1>3, <1>5
<1> QED
  BY <1>6, <1>8, <1>9, <1>10 DEF ReadUpTo, s, n

\* The outcomes that come before the end of the line.
LEMMA EndsAsMeant ==
  ASSUME raw \in ArgLists, raw' = raw, outcome' \in {"refused", "exited"},
         OutcomeOf(ItemsIn(raw)) = outcome'
  PROVE  OutcomeAsMeant'
<1>1. Meaning(raw).outcome = outcome'
  BY MeaningIs
<1> QED
  BY <1>1 DEF OutcomeAsMeant, Done

-----------------------------------------------------------------------------
(* The steps *)

AsMeant == (Parsing => Reading) /\ OutcomeAsMeant

\* While parsing goes on, only the place is to be shown.
LEMMA GoesOn ==
  ASSUME outcome' = "parsing", Reading'
  PROVE  AsMeant'
BY DEF AsMeant, Parsing, OutcomeAsMeant, Done

\* What a step refuses, it had to refuse.
LEMMA RefusedAsMeant ==
  ASSUME IInv, Parsing, raw' = raw, outcome' = "refused",
         NEW t \in Seq(Item), Begins(t, ItemsIn(raw)),
         NEW b \in 1 .. Len(t), IsBad(t, b), \A i \in 1 .. b : ~IsExit(t, i)
  PROVE  AsMeant'
<1>1. raw \in ArgLists /\ ItemsIn(raw) \in Seq(Item) /\ Len(ItemsIn(raw)) \in Nat
      /\ Len(t) \in Nat
  BY WhileParsing, LenProperties
<1>2. OutcomeOf(ItemsIn(raw)) = "refused"
  BY <1>1, BadDecides
<1>3. OutcomeAsMeant'
  BY <1>1, <1>2, EndsAsMeant
<1> QED
  BY <1>3 DEF AsMeant, Parsing

\* Where a step exits, it had to exit.
LEMMA ExitedAsMeant ==
  ASSUME IInv, Parsing, raw' = raw, outcome' = "exited",
         NEW t \in Seq(Item), Begins(t, ItemsIn(raw)),
         NEW e \in 1 .. Len(t), IsExit(t, e),
         \A i \in 1 .. e - 1 : ~IsBad(t, i) /\ ~IsExit(t, i)
  PROVE  AsMeant'
<1>1. raw \in ArgLists /\ ItemsIn(raw) \in Seq(Item) /\ Len(ItemsIn(raw)) \in Nat
      /\ Len(t) \in Nat
  BY WhileParsing, LenProperties
<1>2. OutcomeOf(ItemsIn(raw)) = "exited"
  BY <1>1, ExitDecides
<1>3. OutcomeAsMeant'
  BY <1>1, <1>2, EndsAsMeant
<1> QED
  BY <1>3 DEF AsMeant, Parsing

\* t goes one item further than s, which has been read.
OneMore(s, t) ==
  /\ s \in Seq(Item) /\ t \in Seq(Item) /\ Begins(s, t) /\ Begins(t, ItemsIn(raw))
  /\ Len(t) = Len(s) + 1 /\ Read(s, used, values)

\* It is right to refuse an unknown item.
LEMMA UnknownAsMeant ==
  ASSUME IInv, Parsing, raw' = raw, Refuse, NEW s, NEW t, OneMore(s, t),
         t[Len(s) + 1].kind = "unknown"
  PROVE  AsMeant'
<1> DEFINE m == Len(s) + 1
<1>1. /\ s \in Seq(Item) /\ t \in Seq(Item) /\ Begins(s, t) /\ Begins(t, ItemsIn(raw))
      /\ Len(t) = m /\ Read(s, used, values)
  BY DEF OneMore
<1>2. m \in 1 .. Len(t)
  BY <1>1, LenProperties
<1>3. IsBad(t, m) /\ \A i \in 1 .. m : ~IsExit(t, i)
  BY <1>1, UnknownComes
<1> HIDE DEF m
<1> QED
  BY <1>1, <1>2, <1>3, RefusedAsMeant DEF Refuse

\* A flag is read, or refused when it was there before, or it exits.
LEMMA ConsumeFlagAsMeant ==
  ASSUME IInv, Parsing, raw' = raw, NEW s, NEW t, OneMore(s, t),
         NEW a \in Flags, t[Len(s) + 1] = [kind |-> "flag", is |-> a], ConsumeFlag(a)
  PROVE  \/ outcome' = "parsing" /\ Read(t, used', values')
         \/ outcome' # "parsing" /\ AsMeant'
<1> DEFINE m == Len(s) + 1
<1>1. /\ s \in Seq(Item) /\ t \in Seq(Item) /\ Begins(s, t) /\ Begins(t, ItemsIn(raw))
      /\ Len(t) = m /\ Read(s, used, values) /\ Len(s) \in Nat
  BY LenProperties DEF OneMore
<1>2. /\ a \in used => IsBad(t, m)
      /\ a \notin used /\ a \in Exiting => IsExit(t, m)
      /\ a \notin used /\ a \notin Exiting => Read(t, used \cup {a}, values)
      /\ \A i \in 1 .. Len(s) : ~IsBad(t, i) /\ ~IsExit(t, i)
  BY <1>1, FlagComes
<1>3. m \in 1 .. Len(t) /\ m - 1 = Len(s) /\ \A i \in 1 .. m : i = m \/ i \in 1 .. Len(s)
  BY <1>1
<1> HIDE DEF m
<1>4. CASE a \in used
  <2>1. outcome' = "refused"
    BY <1>4 DEF ConsumeFlag, Refuse
  <2>2. IsBad(t, m) /\ ~IsExit(t, m)
    BY <1>2, <1>4 DEF IsExit
  <2>3. \A i \in 1 .. m : ~IsExit(t, i)
    BY <1>2, <1>3, <2>2
  <2> QED
    BY <1>1, <1>3, <2>1, <2>2, <2>3, RefusedAsMeant
<1>5. CASE a \notin used /\ a \in Exiting
  <2>1. outcome' = "exited"
    BY <1>5 DEF ConsumeFlag
  <2>2. IsExit(t, m) /\ \A i \in 1 .. m - 1 : ~IsBad(t, i) /\ ~IsExit(t, i)
    BY <1>2, <1>3, <1>5
  <2> QED
    BY <1>1, <1>3, <2>1, <2>2, ExitedAsMeant
<1>6. CASE a \notin used /\ a \notin Exiting
  <2>1. outcome' = "parsing" /\ used' = used \cup {a} /\ values' = values
    BY <1>6 DEF ConsumeFlag, Parsing
  <2> QED
    BY <1>2, <1>6, <2>1
<1> QED
  BY <1>4, <1>5, <1>6

\* A word that asks for one item.
LEMMA OneItemWord ==
  ASSUME IInv, AtWord, NEW x \in Item, ItemsOf(arguments[it]) = <<x>>
  PROVE  /\ OneMore(ItemsUpTo(arguments, it - 1), ItemsUpTo(arguments, it))
         /\ ItemsUpTo(arguments, it)[Len(ItemsUpTo(arguments, it - 1)) + 1] = x
<1> DEFINE s == ItemsUpTo(arguments, it - 1)
           t == ItemsUpTo(arguments, it)
           c == <<x>>
<1>1. Parsing /\ letters = << >> /\ it \in 1 .. Len(arguments) /\ Len(arguments) \in Nat
      /\ arguments \in Seq(Word)
  BY WhileParsing DEF AtWord
<1>2. s \in Seq(Item) /\ Len(s) \in Nat /\ Read(s, used, values)
  BY <1>1, BetweenWords
<1>3. it \in 0 .. Len(arguments)
  BY <1>1
<1>4. t \in Seq(Item) /\ Begins(t, ItemsIn(raw))
  BY <1>1, <1>3, WhileParsing
<1>5. t = s \o c
  BY <1>1, ItemsGrow
<1>6. c \in Seq(Item) /\ Len(c) = 1 /\ c[1] = x
  <2> DEFINE S == Item
  <2> HIDE DEF S
  <2>1. c \in Seq(S)
    BY DEF S
  <2> QED
    BY <2>1 DEF S
<1> HIDE DEF s, t, c
<1>7. Len(t) = Len(s) + 1 /\ Begins(s, t) /\ t[Len(s) + 1] = x
  <2>1. 1 \in 1 .. 1
    OBVIOUS
  <2> QED
    BY <1>2, <1>5, <1>6, <2>1, Joined
<1> QED
  BY <1>2, <1>4, <1>7 DEF OneMore, s, t

\* The next word, when nothing is left of this one and its last item is no port.
LEMMA NextWord ==
  ASSUME IInv, AtWord, arguments' = arguments, it' = it + 1, letters' = letters,
         outcome' = "parsing",
         Read(ItemsUpTo(arguments, it), used', values'),
         LET t == ItemsUpTo(arguments, it) IN ~IsPort(t, Len(t))
  PROVE  AsMeant'
<1>1. letters' = << >> /\ it \in 1 .. Len(arguments) /\ Len(arguments) \in Nat
      /\ arguments \in Seq(Word)
  BY WhileParsing DEF AtWord
<1>2. it + 1 \in 1 .. Len(arguments) + 1 /\ (it + 1) - 1 = it
  BY <1>1
<1> DEFINE k == it + 1
<1>3. k \in 1 .. Len(arguments) + 1 /\ Read(ItemsUpTo(arguments, k - 1), used', values')
      /\ ~IsPort(ItemsUpTo(arguments, k - 1), Len(ItemsUpTo(arguments, k - 1)))
  BY <1>2
<1> HIDE DEF k
<1>4. ReadUpTo(arguments, k, letters', used', values')
  BY <1>1, <1>3, WordRead
<1>5. Reading'
  BY <1>4 DEF Reading, k
<1> QED
  BY <1>5, GoesOn

\* A flag by one of its names.
LEMMA FlagStep ==
  ASSUME IInv, Flag
  PROVE  AsMeant'
<1> DEFINE w == arguments[it]
           s == ItemsUpTo(arguments, it - 1)
           t == ItemsUpTo(arguments, it)
           x == [kind |-> "flag", is |-> Names[w]]
<1>1. /\ AtWord /\ Parsing /\ ~IsPositional(w) /\ w \in DOMAIN Names
      /\ ConsumeFlag(Names[w]) /\ it' = it + 1 /\ UNCHANGED <<raw, arguments, letters>>
  BY DEF Flag, AtOption, AtWord
<1>2. w \in Word /\ Names[w] \in Flags
  BY <1>1, WhileParsing, NamesAreNames DEF AtWord
<1>3. w \in Seq(Char) /\ ItemsOf(w) = <<FlagItem(w)>>
  BY <1>1, <1>2, ItemsOfWord
<1>4. ItemsOf(w) = <<x>> /\ x \in Item
  BY <1>1, <1>3, FlagItemType
<1> HIDE DEF x
<1>5. OneMore(s, t) /\ t[Len(s) + 1] = x
  BY <1>1, <1>4, OneItemWord
<1>6. \/ outcome' = "parsing" /\ Read(t, used', values')
      \/ outcome' # "parsing" /\ AsMeant'
  <2> HIDE DEF w, s, t
  <2> QED
    BY <1>1, <1>2, <1>5, ConsumeFlagAsMeant DEF x
<1>7. ASSUME outcome' = "parsing", Read(t, used', values') PROVE AsMeant'
  <2>1. ~IsPort(t, Len(t))
    <3> HIDE DEF s, t
    <3> QED
      BY <1>5 DEF OneMore, IsPort, x
  <2> QED
    BY <1>1, <1>7, <2>1, NextWord
<1> QED
  BY <1>6, <1>7

\* A word that is none of all these.
LEMMA UnknownStep ==
  ASSUME IInv, Unknown
  PROVE  AsMeant'
<1> DEFINE w == arguments[it]
           s == ItemsUpTo(arguments, it - 1)
           t == ItemsUpTo(arguments, it)
           x == FlagItem(w)
<1>1. /\ AtWord /\ Parsing /\ ~IsPositional(w) /\ w \notin DOMAIN Names
      /\ ~IsCompound(w) /\ Refuse /\ raw' = raw
  BY DEF Unknown, AtOption, AtWord
<1>2. w \in Word
  BY <1>1, WhileParsing DEF AtWord
<1>3. w \in Seq(Char) /\ ItemsOf(w) = <<x>>
  BY <1>1, <1>2, ItemsOfWord
<1>4. x \in Item /\ x.kind = "unknown"
  BY <1>1, <1>3, FlagItemType
<1> HIDE DEF x
<1>5. OneMore(s, t) /\ t[Len(s) + 1] = x
  BY <1>1, <1>3, <1>4, OneItemWord
<1> HIDE DEF w, s, t
<1> QED
  BY <1>1, <1>4, <1>5, UnknownAsMeant

\* One letter of a compound word.
LEMMA LetterStep ==
  ASSUME IInv, Letter
  PROVE  AsMeant'
<1> DEFINE items == ItemsUpTo(arguments, it - 1)
           n == Len(items) - Len(letters)
           s == SubSeq(items, 1, n)
           t == SubSeq(items, 1, n + 1)
           flag == <<"-", letters[1]>>
<1>1. /\ Parsing /\ letters # << >> /\ letters' = Tail(letters)
      /\ UNCHANGED <<raw, arguments, it>>
      /\ IF flag \in DOMAIN Names THEN ConsumeFlag(Names[flag]) ELSE Refuse
  <2>1. Head(letters) = letters[1]
    OBVIOUS
  <2> QED
    BY <2>1 DEF Letter
<1>2. /\ arguments \in Seq(Word) /\ Len(arguments) \in Nat /\ it \in 1 .. Len(arguments) + 1
      /\ letters \in Seq(STRING) /\ Reading
  BY <1>1, WhileParsing
<1>3. /\ Len(letters) \in Nat \ {0} /\ Tail(letters) \in Seq(STRING)
      /\ Len(Tail(letters)) = Len(letters) - 1
      /\ \A i \in 1 .. Len(letters) - 1 : Tail(letters)[i] = letters[i + 1]
  BY <1>1, <1>2, EmptySeq, LenProperties, HeadTailProperties
<1>4. it - 1 \in 0 .. Len(arguments)
  BY <1>2
<1>5. items \in Seq(Item) /\ Len(items) \in Nat /\ Begins(items, ItemsIn(raw))
  BY <1>1, <1>4, WhileParsing
<1>6. /\ n >= 0
      /\ \A i \in 1 .. Len(letters) : items[n + i] = FlagItem(<<"-", letters[i]>>)
      /\ Read(s, used, values)
  BY <1>2 DEF Reading, ReadUpTo
<1>7. n \in 0 .. Len(items) /\ n + 1 \in 0 .. Len(items) /\ n \in Nat
      /\ \A i \in 1 .. n : i \in 1 .. n + 1
  BY <1>3, <1>5, <1>6
<1> DEFINE m == n + 1
<1>8. m \in 0 .. Len(items) /\ m = n + 1
  BY <1>7
<1> HIDE DEF items, n
<1>9. /\ s \in Seq(Item) /\ Len(s) = n /\ \A i \in 1 .. n : s[i] = items[i]
  BY <1>5, <1>7, FirstOnes
<1>10. /\ SubSeq(items, 1, m) \in Seq(Item) /\ Len(SubSeq(items, 1, m)) = m
       /\ Begins(SubSeq(items, 1, m), items)
       /\ \A i \in 1 .. m : SubSeq(items, 1, m)[i] = items[i]
  <2> HIDE DEF m
  <2> QED
    BY <1>5, <1>8, FirstOnes
<1>11. t \in Seq(Item) /\ Len(t) = n + 1 /\ Begins(t, items)
       /\ \A i \in 1 .. n + 1 : t[i] = items[i]
  BY <1>10
<1> HIDE DEF m, s, t
<1>12. Begins(s, t) /\ Begins(t, ItemsIn(raw))
  <2>1. Begins(s, t)
    BY <1>7, <1>9, <1>11 DEF Begins
  <2>2. ItemsIn(raw) \in Seq(Item)
    BY <1>1, WhileParsing
  <2> QED
    BY <1>5, <1>11, <2>1, <2>2, BeginsOnAndOn
<1>13. OneMore(s, t)
  BY <1>6, <1>9, <1>11, <1>12 DEF OneMore
<1>14. t[Len(s) + 1] = FlagItem(flag) /\ items[n + 1] = FlagItem(flag)
  <2>1. 1 \in 1 .. Len(letters)
    BY <1>3
  <2>2. items[n + 1] = FlagItem(flag)
    BY <1>6, <2>1
  <2>3. n + 1 \in 1 .. n + 1
    BY <1>7
  <2> QED
    BY <1>9, <1>11, <2>2, <2>3
<1>15. flag \in Seq(Char)
  <2>1. letters[1] \in Char /\ "-" \in Char
    <3>1. 1 \in 1 .. Len(letters)
      BY <1>3
    <3>2. letters[1] \in STRING
      BY <1>2, <3>1, ElementOfSeq
    <3> QED
      BY <3>2 DEF Char
  <2> QED
    BY <2>1
<1> HIDE DEF flag
<1>16. CASE flag \notin DOMAIN Names
  <2>1. Refuse
    BY <1>1, <1>16
  <2>2. FlagItem(flag).kind = "unknown"
    BY <1>15, <1>16, FlagItemType
  <2> QED
    BY <1>1, <1>13, <1>14, <2>1, <2>2, UnknownAsMeant
<1>17. CASE flag \in DOMAIN Names
  <2>1. Names[flag] \in Flags /\ ConsumeFlag(Names[flag])
        /\ FlagItem(flag) = [kind |-> "flag", is |-> Names[flag]]
    BY <1>1, <1>15, <1>17, NamesAreNames, FlagItemType
  <2>2. \/ outcome' = "parsing" /\ Read(t, used', values')
        \/ outcome' # "parsing" /\ AsMeant'
    BY <1>1, <1>13, <1>14, <2>1, ConsumeFlagAsMeant
  <2>3. ASSUME outcome' = "parsing", Read(t, used', values') PROVE AsMeant'
    <3> DEFINE ls == letters'
               d == Len(items) - Len(ls)
    <3>1. Len(ls) = Len(letters) - 1 /\ \A i \in 1 .. Len(ls) : ls[i] = letters[i + 1]
      BY <1>1, <1>3
    <3>2. d = n + 1
      BY <1>3, <1>5, <3>1 DEF n
    <3>3. d >= 0
      BY <1>7, <3>2
    <3>4. \A i \in 1 .. Len(ls) : items[d + i] = FlagItem(<<"-", ls[i]>>)
      <4> SUFFICES ASSUME NEW i \in 1 .. Len(ls)
                   PROVE  items[d + i] = FlagItem(<<"-", ls[i]>>)
        OBVIOUS
      <4> DEFINE j == i + 1
      <4>1. ls[i] = letters[j]
        BY <3>1
      <4> HIDE DEF ls, d
      <4>2. j \in 1 .. Len(letters) /\ d + i = n + j
        BY <1>3, <1>7, <3>1, <3>2
      <4> HIDE DEF j
      <4> QED
        BY <1>6, <4>1, <4>2
    <3>5. Read(SubSeq(items, 1, d), used', values')
      BY <2>3, <3>2 DEF t
    <3>6. ~IsPort(items, d)
      BY <1>14, <2>1, <3>2 DEF IsPort
    <3> HIDE DEF d, ls
    <3>7. ReadUpTo(arguments, it, ls, used', values')
      BY <3>3, <3>4, <3>5, <3>6 DEF ReadUpTo, items, d
    <3>8. Reading'
      BY <1>1, <3>7 DEF Reading, ls
    <3> QED
      BY <2>3, <3>8, GoesOn
  <2> QED
    BY <2>2, <2>3
<1> QED
  BY <1>16, <1>17

\* A compound word is entered before its first letter.
LEMMA CompoundStep ==
  ASSUME IInv, Compound
  PROVE  AsMeant'
<1> DEFINE w == arguments[it]
           s == ItemsUpTo(arguments, it - 1)
           t == ItemsUpTo(arguments, it)
           c == ItemsOf(w)
           k == it + 1
           ls == letters'
           d == Len(t) - Len(ls)
<1>1. /\ AtWord /\ Parsing /\ letters = << >> /\ ~IsPositional(w) /\ w \notin DOMAIN Names
      /\ IsCompound(w) /\ ls = Tail(w) /\ it' = k
      /\ UNCHANGED <<raw, arguments, used, values, outcome>>
  BY DEF Compound, AtOption, AtWord
<1>2. it \in 1 .. Len(arguments) /\ Len(arguments) \in Nat /\ arguments \in Seq(Word)
      /\ w \in Word
  BY <1>1, WhileParsing DEF AtWord
<1>3. w \in Seq(STRING) /\ Len(w) > 1 /\ Len(w) \in Nat
  BY <1>1, <1>2, LenProperties DEF Word, IsCompound
<1>4. Len(ls) = Len(w) - 1 /\ Len(ls) > 0 /\ \A i \in 1 .. Len(ls) : ls[i] = w[i + 1]
  <2>1. w # << >>
    BY <1>3, EmptySeq
  <2>2. Len(Tail(w)) = Len(w) - 1 /\ \A i \in 1 .. Len(w) - 1 : Tail(w)[i] = w[i + 1]
    BY <1>3, <2>1, HeadTailProperties
  <2> QED
    BY <1>1, <1>3, <2>2
<1>5. /\ c \in Seq(Item) /\ Len(c) = Len(w) - 1
      /\ \A i \in 1 .. Len(w) - 1 : c[i] = FlagItem(<<"-", w[i + 1]>>)
  BY <1>1, <1>2, ItemsOfWord
<1>6. s \in Seq(Item) /\ Len(s) \in Nat /\ Read(s, used, values)
  BY <1>1, BetweenWords
<1>7. t = s \o c /\ t \in Seq(Item)
  <2>1. it \in 0 .. Len(arguments)
    BY <1>2
  <2> QED
    BY <1>2, <2>1, ItemsGrow
<1>8. t = ItemsUpTo(arguments, k - 1)
  <2>1. k - 1 = it
    BY <1>2
  <2> QED
    BY <2>1
<1> HIDE DEF s, t, c, k, ls, w
<1>9. /\ Len(t) = Len(s) + Len(c) /\ Begins(s, t)
      /\ \A i \in 1 .. Len(c) : t[Len(s) + i] = c[i]
  BY <1>5, <1>6, <1>7, Joined
<1>10. d = Len(s)
  BY <1>3, <1>4, <1>5, <1>6, <1>9
<1>11. d >= 0 /\ Read(SubSeq(t, 1, d), used', values')
  <2>1. SubSeq(t, 1, Len(s)) = s
    BY <1>6, <1>7, <1>9, FirstOnesAre
  <2>2. SubSeq(t, 1, d) = s
    BY <1>10, <2>1
  <2>3. Read(SubSeq(t, 1, d), used, values)
    BY <1>6, <2>2
  <2>4. d >= 0
    BY <1>6, <1>10
  <2> HIDE DEF d
  <2> QED
    BY <1>1, <2>3, <2>4
<1>12. \A i \in 1 .. Len(ls) : t[d + i] = FlagItem(<<"-", ls[i]>>)
  BY <1>4, <1>5, <1>9, <1>10
<1>13. ls # << >>
  BY <1>4, EmptySeq
<1> HIDE DEF d
<1>14. ReadUpTo(arguments, k, ls, used', values')
  BY <1>8, <1>11, <1>12, <1>13 DEF ReadUpTo, d
<1>15. Reading'
  BY <1>1, <1>14 DEF Reading, ls
<1> QED
  BY <1>1, <1>15, GoesOn DEF Parsing

\* Before the first word, nothing has been read.
LEMMA PreprocessStep ==
  ASSUME IInv, Preprocess
  PROVE  AsMeant' /\ arguments' = WordsIn(raw)
<1> DEFINE words == WordsIn(raw)
           k == it'
           ls == letters'
<1>1. /\ raw \in ArgLists /\ k = 1 /\ ls = << >> /\ used' = {} /\ values' = << >>
      /\ outcome' = "parsing" /\ raw' = raw
  BY DEF IInv, TypeOK, AtStart, Preprocess
<1>2. words \in Seq(Word) /\ Len(words) \in Nat /\ arguments' = words
  BY <1>1, WordsInType, LenProperties DEF Preprocess
<1> HIDE DEF words
<1>3. ItemsUpTo(words, k - 1) = << >> /\ Len(<< >>) = 0 /\ k \in 1 .. Len(words) + 1
  <2>1. k - 1 = 0 /\ k \in 1 .. Len(words) + 1
    BY <1>1, <1>2
  <2>2. ItemsUpTo(words, 0) = << >>
    BY <1>2, ItemsGrow
  <2> QED
    BY <2>1, <2>2, EmptySeq
<1> DEFINE s == ItemsUpTo(words, k - 1)
<1>4. Read(s, used', values') /\ ~(Len(s) > 0)
  <2>1. s = << >>
    BY <1>3
  <2> HIDE DEF s
  <2>2. Read(s, used', values')
    BY <1>1, <2>1, ReadNothing
  <2> QED
    BY <1>3, <2>1, <2>2
<1> HIDE DEF k, ls
<1>5. ReadUpTo(words, k, ls, used', values')
  BY <1>1, <1>2, <1>3, <1>4, WordRead
<1>6. Reading'
  BY <1>2, <1>5 DEF Reading, k, ls
<1> QED
  BY <1>1, <1>2, <1>6, GoesOn DEF words

\* At the end everything has been read, and nothing in it was bad.
LEMMA ValidateStep ==
  ASSUME IInv, Validate
  PROVE  AsMeant'
<1> DEFINE s == ItemsUpTo(arguments, it - 1)
<1>1. /\ Parsing /\ letters = << >> /\ it > Len(arguments)
      /\ outcome' = IF AtLeastOne(Len(values)) THEN "accepted" ELSE "refused"
      /\ UNCHANGED <<raw, arguments, it, letters, used, values>>
  BY DEF Validate
<1>2. /\ raw \in ArgLists /\ it \in 1 .. Len(arguments) + 1 /\ Len(arguments) \in Nat
      /\ ItemsIn(raw) = ItemsUpTo(arguments, Len(arguments))
  BY <1>1, WhileParsing
<1>3. it - 1 = Len(arguments)
  BY <1>1, <1>2
<1>4. s = ItemsIn(raw)
  BY <1>2, <1>3
<1>5. Read(s, used, values)
  BY <1>1, BetweenWords
<1> HIDE DEF s
<1>6. ~ComesFirst(s, IsBad) /\ ~ComesFirst(s, IsExit)
  BY <1>5 DEF ComesFirst, Read
<1>7. AtLeastOne(Len(values)) <=> \E i \in 1 .. Len(s) : IsPort(s, i)
  <2>1. values \in Seq(0 .. UInt16Max)
    BY DEF IInv, TypeOK
  <2> DEFINE S == 0 .. UInt16Max
  <2> HIDE DEF S
  <2>2. AtLeastOne(Len(values)) <=> values # << >>
    <3>1. values \in Seq(S)
      BY <2>1 DEF S
    <3>2. Len(values) \in Nat /\ (values = << >> <=> Len(values) = 0)
      BY <3>1, LenProperties, EmptySeq
    <3> QED
      BY <3>2 DEF AtLeastOne
  <2> QED
    BY <1>5, <2>2 DEF Read
<1>8. outcome' = OutcomeOf(s)
  BY <1>1, <1>6, <1>7 DEF OutcomeOf
<1>9. /\ Meaning(raw).outcome = OutcomeOf(s)
      /\ Meaning(raw).ports = PortNumbers(s)
      /\ Meaning(raw).debug <=> \E i \in 1 .. Len(s) : AsksFor(s, i, "debug")
  <2>1. \A i \in 1 .. Len(s) : ~IsBad(s, i)
    BY <1>5 DEF Read
  <2> QED
    BY <1>2, <1>4, <2>1, MeaningIs
<1>10. ToSet(values) = PortNumbers(s)
       /\ ("debug" \in used <=> \E i \in 1 .. Len(s) : AsksFor(s, i, "debug"))
  BY <1>5 DEF Read, Flags
<1>11. OutcomeAsMeant'
  <2>1. GetPorts' = values /\ (GetDebug' <=> "debug" \in used)
    BY <1>1 DEF GetPorts, GetDebug
  <2>2. outcome' = Meaning(raw').outcome /\ Meaning(raw') = Meaning(raw)
    BY <1>1, <1>8, <1>9
  <2>3. OutcomeAsMeant' = (Done' => /\ outcome' = Meaning(raw').outcome
                                    /\ outcome' = "accepted" =>
                                         /\ ToSet(GetPorts') = Meaning(raw').ports
                                         /\ GetDebug' <=> Meaning(raw').debug)
    BY DEF OutcomeAsMeant
  <2> QED
    BY <1>9, <1>10, <2>1, <2>2, <2>3
<1> QED
  BY <1>1, <1>11 DEF AsMeant, Parsing

\* Positional words that follow each other ask for a port each.
LEMMA PortsInARow ==
  ASSUME NEW words \in Seq(Word), NEW a \in 1 .. Len(words), NEW l \in a .. Len(words),
         \A k \in a .. l : IsPositional(words[k])
  PROVE  LET s == ItemsUpTo(words, a - 1)
             t == ItemsUpTo(words, l)
         IN  /\ Begins(s, t) /\ Len(t) = Len(s) + (l - a + 1)
             /\ \A i \in 1 .. l - a + 1 : t[Len(s) + i] = PortItem(words[a + i - 1])
<1> DEFINE s == ItemsUpTo(words, a - 1)
           u(j) == ItemsUpTo(words, a + j - 1)
           m == l - a + 1
           InARow(z, j) == /\ Begins(s, z) /\ Len(z) = Len(s) + j
                           /\ \A i \in 1 .. j : z[Len(s) + i] = PortItem(words[a + i - 1])
           P == {j \in 0 .. m : InARow(u(j), j)}
<1>1. Len(words) \in Nat /\ m \in Nat /\ a + m - 1 = l
  BY LenProperties
<1>2. a - 1 \in 0 .. Len(words) /\ a + 0 - 1 = a - 1
  BY <1>1
<1>3. s \in Seq(Item) /\ Len(s) \in Nat
  BY <1>2, ItemsGrow, LenProperties
<1> HIDE DEF m
<1>4. 0 \in P
  <2>1. u(0) = s
    BY <1>2
  <2> HIDE DEF s
  <2>2. Begins(s, s) /\ Len(s) = Len(s) + 0
    BY <1>3 DEF Begins
  <2> HIDE DEF u
  <2>3. InARow(u(0), 0)
    BY <2>1, <2>2
  <2> HIDE DEF InARow
  <2> QED
    BY <1>1, <2>3
<1>5. ASSUME NEW j \in 1 .. m, j - 1 \in P PROVE j \in P
  <2> DEFINE k == a + j - 1
             b == u(j - 1)
             c == <<PortItem(words[k])>>
             z == u(j)
  <2>1. k \in a .. l /\ k \in 1 .. Len(words) /\ a + (j - 1) - 1 = k - 1
        /\ k - 1 \in 0 .. Len(words) /\ j \in Nat
    BY <1>1 DEF m
  <2>2. b = ItemsUpTo(words, k - 1) /\ z = ItemsUpTo(words, k)
    BY <2>1
  <2>3. words[k] \in Word /\ IsPositional(words[k])
    BY <2>1, ElementOfSeq
  <2>4. ItemsOf(words[k]) = c /\ c \in Seq(Item)
    BY <2>3, ItemsOfWord
  <2>5. z = b \o c /\ b \in Seq(Item)
    BY <2>1, <2>2, <2>4, ItemsGrow
  <2>6. Len(c) = 1 /\ c[1] = PortItem(words[k])
    OBVIOUS
  <2>7. InARow(b, j - 1)
    BY <1>5
  <2> HIDE DEF b, c, z, u, s
  <2>8. Len(z) = Len(b) + 1 /\ Begins(b, z) /\ z[Len(b) + 1] = PortItem(words[k])
        /\ z \in Seq(Item) /\ Len(b) \in Nat
    <3>1. 1 \in 1 .. 1
      OBVIOUS
    <3> QED
      BY <2>4, <2>5, <2>6, <3>1, Joined, LenProperties
  <2>9. Len(z) = Len(s) + j
    BY <1>3, <2>1, <2>7, <2>8
  <2>10. Begins(s, z)
    BY <1>3, <2>5, <2>7, <2>8, BeginsOnAndOn
  <2>11. ASSUME NEW i \in 1 .. j PROVE z[Len(s) + i] = PortItem(words[a + i - 1])
    <3>1. CASE i = j
      <4>1. Len(s) + i = Len(b) + 1
        BY <1>3, <2>1, <2>7, <3>1
      <4> QED
        BY <2>8, <3>1, <4>1
    <3>2. CASE i # j
      <4>1. i \in 1 .. j - 1
        BY <2>1, <3>2
      <4>2. b[Len(s) + i] = PortItem(words[a + i - 1])
        BY <2>7, <4>1
      <4>3. Len(s) + i \in 1 .. Len(b)
        BY <1>3, <2>1, <2>7, <4>1
      <4> QED
        BY <2>8, <4>2, <4>3 DEF Begins
    <3> QED
      BY <3>1, <3>2
  <2>12. InARow(z, j)
    BY <2>9, <2>10, <2>11
  <2> HIDE DEF InARow
  <2>13. j \in 0 .. m
    BY <1>1
  <2> QED
    BY <2>12, <2>13 DEF z
<1> HIDE DEF P
<1>6. m \in P
  <2>1. m \in 0 .. m
    BY <1>1
  <2> QED
    BY <1>1, <1>4, <1>5, <2>1, CountingUp
<1>7. u(m) = ItemsUpTo(words, l)
  BY <1>1
<1>8. InARow(u(m), m)
  BY <1>6 DEF P
<1> QED
  BY <1>7, <1>8 DEF m

\* All the ports that stand together.
LEMMA PositionalStep ==
  ASSUME IInv, Positional
  PROVE  AsMeant'
<1> DEFINE s == ItemsUpTo(arguments, it - 1)
           t == ItemsUpTo(arguments, it)
           x == PortItem(arguments[it])
<1>1. /\ AtWord /\ Parsing /\ letters = << >> /\ IsPositional(arguments[it])
      /\ IF "port" \in used THEN Refuse /\ UNCHANGED it ELSE ConsumePorts
      /\ UNCHANGED <<raw, arguments, letters>>
  BY DEF Positional, AtWord
<1>2. it \in 1 .. Len(arguments) /\ Len(arguments) \in Nat /\ arguments \in Seq(Word)
      /\ arguments[it] \in Word
  BY <1>1, WhileParsing DEF AtWord
<1>3. CASE "port" \in used
  <2>1. ItemsOf(arguments[it]) = <<x>> /\ x \in Item
    BY <1>1, <1>2, ItemsOfWord
  <2>2. OneMore(s, t) /\ t[Len(s) + 1] = x
    BY <1>1, <2>1, OneItemWord
  <2>3. /\ s \in Seq(Item) /\ Len(s) \in Nat
        /\ Len(s) > 0 /\ IsPort(s, Len(s)) /\ it <= Len(arguments) =>
             ~IsPositional(arguments[it])
    BY <1>1, BetweenWords
  <2> HIDE DEF s, t
  <2>4. /\ t \in Seq(Item) /\ Begins(s, t) /\ Begins(t, ItemsIn(raw))
        /\ Len(t) = Len(s) + 1 /\ Read(s, used, values)
    BY <2>2 DEF OneMore
  <2>5. ~IsPort(s, Len(s))
    <3>1. \E i \in 1 .. Len(s) : IsPort(s, i)
      BY <1>3, <2>4 DEF Read
    <3>2. Len(s) > 0
      BY <2>3, <3>1
    <3> QED
      BY <1>1, <1>2, <2>3, <3>2
  <2> DEFINE m == Len(s) + 1
  <2>6. IsPort(t, m)
    BY <2>2 DEF IsPort, PortItem
  <2>7. IsBad(t, m) /\ \A i \in 1 .. m : ~IsExit(t, i)
    BY <1>3, <2>3, <2>4, <2>5, <2>6, PortComesAgain
  <2>8. m \in 1 .. Len(t)
    BY <2>3, <2>4
  <2>9. outcome' = "refused"
    BY <1>1, <1>3 DEF Refuse
  <2> HIDE DEF m
  <2> QED
    BY <1>1, <2>4, <2>7, <2>8, <2>9, RefusedAsMeant
<1>4. CASE "port" \notin used
  <2> DEFINE l == LastWord
             m == l - it + 1
             p == [i \in 1 .. m |-> arguments[it + i - 1]]
             z == ItemsUpTo(arguments, l)
  <2>1. /\ l \in it .. Len(arguments)
        /\ \A k \in it .. l : IsPositional(arguments[k])
        /\ l < Len(arguments) => ~IsPositional(arguments[l + 1])
    BY <1>1, <1>2, LastWordIs
  <2>2. /\ it' = l + 1
        /\ \/ /\ \E i \in DOMAIN Numbers : Numbers[i] = Error
              /\ Refuse
           \/ /\ \A i \in DOMAIN Numbers : Numbers[i] # Error
              /\ values' = Numbers /\ used' = used \cup {"port"} /\ UNCHANGED outcome
    BY <1>1, <1>4, ConsumePortsIs
  <2>3. /\ DOMAIN Numbers = 1 .. m
        /\ \A i \in 1 .. m : it + i - 1 \in it .. l
                             /\ Numbers[i] = FromChars(arguments[it + i - 1])
        /\ m \in Nat \ {0}
        /\ (\A i \in DOMAIN Numbers : Numbers[i] # Error) =>
             Numbers \in Seq(0 .. UInt16Max) /\ Len(Numbers) = m
    BY <1>1, <1>2, NumbersType
  <2>4. s \in Seq(Item) /\ Len(s) \in Nat /\ Read(s, used, values)
    BY <1>1, BetweenWords
  <2>5. l \in 0 .. Len(arguments) /\ l \in Nat
    BY <1>2, <2>1
  <2>6. z \in Seq(Item) /\ Len(z) \in Nat /\ Begins(z, ItemsIn(raw))
    BY <1>1, <2>5, WhileParsing
  <2>7. /\ Begins(s, z) /\ Len(z) = Len(s) + m
        /\ \A i \in 1 .. m : z[Len(s) + i] = PortItem(arguments[it + i - 1])
    BY <1>2, <2>1, PortsInARow
  <2>8. /\ \A i \in 1 .. m : arguments[it + i - 1] \in Word /\ p[i] = arguments[it + i - 1]
        /\ p \in Seq(Word) /\ Len(p) = m
    <3>1. ASSUME NEW i \in 1 .. m PROVE arguments[it + i - 1] \in Word
      <4>1. it + i - 1 \in 1 .. Len(arguments)
        BY <1>2, <2>1
      <4> QED
        BY <1>2, <4>1, ElementOfSeq
    <3> DEFINE W == Word
    <3> HIDE DEF W, m
    <3>2. \A i \in 1 .. m : p[i] = arguments[it + i - 1] /\ p[i] \in W
      BY <3>1 DEF W
    <3>3. p = [i \in 1 .. m |-> p[i]]
      OBVIOUS
    <3> HIDE DEF p
    <3>4. p \in Seq(W) /\ Len(p) = m
      BY <2>3, <3>2, <3>3, SeqOfElements
    <3> QED
      BY <3>1, <3>2, <3>4 DEF W
  <2>9. ASSUME NEW i \in 1 .. m
        PROVE  /\ Numbers[i] = Error <=> ~IsPortNumber(p[i])
               /\ Numbers[i] = IF IsPortNumber(p[i]) THEN NumberOf(p[i]) ELSE Error
    <3>1. Numbers[i] = FromChars(p[i]) /\ p[i] \in Seq(STRING)
      BY <2>3, <2>8 DEF Word
    <3> HIDE DEF p
    <3> QED
      BY <3>1, FromCharsIsTheNumber
  <2> HIDE DEF s, z, p, m, l
  <2>10. \A i \in 1 .. m : z[Len(s) + i] = PortItem(p[i])
    BY <2>7, <2>8
  <2>11. /\ \A i \in 1 .. m : ~IsPortNumber(p[i]) => IsBad(z, Len(s) + i)
         /\ \A i \in 1 .. Len(z) : ~IsExit(z, i)
         /\ \A y \in Seq(Value) :
              /\ Len(y) = m
              /\ \A i \in 1 .. m : IsPortNumber(p[i]) /\ y[i] = NumberOf(p[i])
              => Read(z, used \cup {"port"}, y)
    BY <1>4, <2>3, <2>4, <2>6, <2>7, <2>8, <2>10, PortsCome
  <2>12. CASE \E i \in DOMAIN Numbers : Numbers[i] = Error
    <3>1. Refuse
      BY <2>2, <2>12
    <3>2. PICK i \in 1 .. m : Numbers[i] = Error
      BY <2>3, <2>12
    <3> DEFINE b == Len(s) + i
    <3>3. b \in 1 .. Len(z) /\ \A j \in 1 .. b : j \in 1 .. Len(z)
      BY <2>3, <2>4, <2>7
    <3>4. IsBad(z, b) /\ \A j \in 1 .. b : ~IsExit(z, j)
      BY <2>9, <2>11, <3>2, <3>3
    <3> HIDE DEF b
    <3> QED
      BY <1>1, <2>6, <3>1, <3>3, <3>4, RefusedAsMeant DEF Refuse
  <2>13. CASE \A i \in DOMAIN Numbers : Numbers[i] # Error
    <3>1. values' = Numbers /\ used' = used \cup {"port"} /\ outcome' = "parsing"
          /\ letters' = << >> /\ arguments' = arguments
      BY <1>1, <2>2, <2>3, <2>13 DEF Refuse, Parsing
    <3>2. Numbers \in Seq(Value) /\ Len(Numbers) = m
      <4>1. Numbers \in Seq(0 .. UInt16Max) /\ Len(Numbers) = m
        BY <2>3, <2>13
      <4>2. 0 .. UInt16Max \subseteq Value
        BY DEF Value
      <4> QED
        BY <4>1, <4>2, SeqMonotonic
    <3>3. \A i \in 1 .. m : IsPortNumber(p[i]) /\ Numbers[i] = NumberOf(p[i])
      BY <2>3, <2>9, <2>13
    <3>4. Read(z, used', values')
      BY <2>11, <3>1, <3>2, <3>3
    <3> DEFINE k == l + 1
    <3>5. k - 1 = l /\ k \in 1 .. Len(arguments) + 1
      BY <1>2, <2>1, <2>5
    <3>6. k <= Len(arguments) => ~IsPositional(arguments[k])
      BY <1>2, <2>1, <2>5
    <3>7. Read(ItemsUpTo(arguments, k - 1), used', values')
      BY <3>4, <3>5 DEF z
    <3>8. it' = k
      BY <2>2
    <3> HIDE DEF k
    <3>9. ReadUpTo(arguments, k, letters', used', values')
      BY <1>2, <3>1, <3>5, <3>6, <3>7, WordRead
    <3>10. Reading'
      BY <3>1, <3>8, <3>9 DEF Reading
    <3> QED
      BY <3>1, <3>10, GoesOn
  <2> QED
    BY <2>12, <2>13
<1> QED
  BY <1>3, <1>4

\* IInv holds at the beginning.
LEMMA InitInv == Init => IInv
<1> SUFFICES ASSUME Init PROVE IInv
  OBVIOUS
<1>1. TypeOK /\ AtStart
  BY InitType
<1>2. outcome = "start"
  BY DEF Init
<1> QED
  BY <1>1, <1>2 DEF IInv, Parsing, OutcomeAsMeant, Done

\* Every step preserves IInv.
LEMMA StepInv ==
  ASSUME IInv, [Next]_vars
  PROVE  IInv'
<1>1. TypeOK' /\ AtStart'
  BY StepType DEF IInv
<1>2. SUFFICES AsMeant' /\ (outcome' # "start" => arguments' = WordsIn(raw'))
  BY <1>1 DEF AsMeant, IInv
<1>3. ASSUME outcome # "start", arguments' = arguments, raw' = raw
      PROVE  outcome' # "start" => arguments' = WordsIn(raw')
  BY <1>3 DEF IInv
<1>4. CASE Preprocess
  <2>1. raw' = raw
    BY <1>4 DEF Preprocess
  <2> QED
    BY <1>4, <2>1, PreprocessStep
<1>5. CASE Positional
  BY <1>3, <1>5, PositionalStep DEF Positional, AtWord, Parsing
<1>6. CASE Flag
  BY <1>3, <1>6, FlagStep DEF Flag, AtOption, AtWord, Parsing
<1>7. CASE Compound
  BY <1>3, <1>7, CompoundStep DEF Compound, AtOption, AtWord, Parsing
<1>8. CASE Letter
  BY <1>3, <1>8, LetterStep DEF Letter, Parsing
<1>9. CASE Unknown
  BY <1>3, <1>9, UnknownStep DEF Unknown, AtOption, AtWord, Parsing
<1>10. CASE Validate
  BY <1>3, <1>10, ValidateStep DEF Validate, Parsing
<1>11. CASE UNCHANGED vars
  <2>1. AsMeant' <=> AsMeant
    BY <1>11 DEF vars, AsMeant, Parsing, Reading, OutcomeAsMeant, Done, GetPorts, GetDebug
  <2> QED
    BY <1>11, <2>1 DEF vars, IInv, AsMeant
<1> QED
  BY <1>4, <1>5, <1>6, <1>7, <1>8, <1>9, <1>10, <1>11 DEF Next

-----------------------------------------------------------------------------
(* Theorems *)

\* The automaton of gotos accepts just the language its comments describe
\* (argparse.hpp:1029-1055 and 1173-1179): on any command line, the words taken
\* for values are those of the grammar, and the options are all the others.
THEOREM PositionalsAsDocumented == Spec => []PositionalAsDocumented
<1>1. Init => raw \in ArgLists
  BY DEF Init
<1>2. raw \in ArgLists /\ [Next]_vars => (raw \in ArgLists)'
  <2>1. [Next]_vars => UNCHANGED raw
    BY DEF Next, vars, Preprocess, Positional, Flag, Compound, Letter, Unknown, Validate
  <2> QED
    BY <2>1
<1>3. raw \in ArgLists => PositionalAsDocumented
  <2> SUFFICES ASSUME raw \in ArgLists, NEW i \in DOMAIN raw
               PROVE  IsPositional(raw[i]) <=> IsGrammarPositional(raw[i])
    BY DEF PositionalAsDocumented
  <2>1. raw \in Seq(Seq(STRING))
    BY CommandLineAssumption
  <2>2. raw[i] \in Seq(STRING)
    BY <2>1, LenProperties, ElementOfSeq
  <2> QED
    BY <2>2, PositionalsAreTheGrammars
<1> QED
  BY <1>1, <1>2, <1>3, PTL DEF Spec

\* Any command line, of any words, leaves the parser's place within the words
\* (argparse.hpp:1733-1794: the loop ends only when the iterator is at the end),
\* and its ports within what a uint16_t holds.
THEOREM TypeCorrect == Spec => []TypeOK
<1>1. Init => TypeOK /\ AtStart
  BY InitType
<1>2. TypeOK /\ AtStart /\ [Next]_vars => TypeOK' /\ AtStart'
  BY StepType
<1> QED
  BY <1>1, <1>2, PTL DEF Spec

\* Why parsing comes to an end: consume() may take no word (the flags) or many
\* ("port"), and yet no turn of the loops over the words and over the letters
\* of one leaves the parser where it was without ending it, and when it is done
\* it stays so.
AlwaysAdvances ==
  [][\/ outcome = "start" /\ Parsing'
     \/ Parsing /\ Done'
     \/ /\ Parsing /\ Parsing' /\ arguments' = arguments
        /\ it' > it \/ (it' = it /\ Len(letters') < Len(letters))]_vars

\* Every step of the parser is towards its end, on any command line: it reads
\* at least one more word, or one more letter of a compound, or it is done
\* (argparse.hpp:1740-1792).
LEMMA StepAdvances ==
  ASSUME TypeOK, Next
  PROVE  \/ outcome = "start" /\ Parsing'
         \/ Parsing /\ Done'
         \/ /\ Parsing /\ Parsing' /\ arguments' = arguments
            /\ it' > it \/ (it' = it /\ Len(letters') < Len(letters))
<1>1. /\ arguments \in Seq(Word) /\ Len(arguments) \in Nat
      /\ it \in 1 .. Len(arguments) + 1 /\ letters \in Seq(STRING)
      /\ used \subseteq Arguments
  BY LenProperties DEF TypeOK, Word
<1> USE DEF Parsing, Done
<1>2. CASE Preprocess
  BY <1>2 DEF Preprocess
<1>3. CASE Positional
  <2>1. /\ it \in 1 .. Len(arguments) /\ IsPositional(arguments[it])
        /\ outcome = "parsing" /\ UNCHANGED arguments
        /\ Refuse \/ ConsumePorts
    BY <1>1, <1>3 DEF Positional, AtWord
  <2>2. CASE Refuse
    BY <2>1, <2>2 DEF Refuse
  <2>3. CASE ConsumePorts
    <3>1. it' = LastWord + 1 /\ (Refuse \/ UNCHANGED outcome)
      BY Zenon, <2>3, ConsumePortsIs
    <3>2. LastWord \in it .. Len(arguments)
      BY <1>1, <2>1, LastWordIs
    <3>3. it' > it
      BY <1>1, <3>1, <3>2
    <3> QED
      BY <2>1, <3>1, <3>3 DEF Refuse
  <2> QED
    BY <2>1, <2>2, <2>3
<1>4. CASE Flag
  <2>1. /\ it' = it + 1 /\ outcome = "parsing" /\ UNCHANGED arguments
    BY <1>4 DEF Flag, AtOption, AtWord
  <2>2. Names[arguments[it]] \in Flags /\ ConsumeFlag(Names[arguments[it]])
    BY <1>4, NamesAreNames DEF Flag
  <2>3. outcome' \in {"parsing", "refused", "exited"}
    BY <1>1, <2>1, <2>2, ConsumeFlagType
  <2> QED
    BY <1>1, <2>1, <2>3
<1>5. CASE Compound
  BY <1>1, <1>5 DEF Compound, AtOption, AtWord
<1>6. CASE Letter
  <2>1. /\ letters # << >> /\ letters' = Tail(letters) /\ outcome = "parsing"
        /\ UNCHANGED <<arguments, it>>
    BY <1>6 DEF Letter
  <2>2. Len(letters') = Len(letters) - 1 /\ Len(letters) \in Nat
    BY <1>1, <2>1, HeadTailProperties, LenProperties
  <2> DEFINE flag == <<"-", Head(letters)>>
  <2>3. \/ flag \in DOMAIN Names /\ ConsumeFlag(Names[flag])
        \/ Refuse
    BY <1>6 DEF Letter
  <2> HIDE DEF flag
  <2>4. outcome' \in {"parsing", "refused", "exited"}
    BY <1>1, <2>1, <2>3, NamesAreNames, ConsumeFlagType DEF Refuse
  <2> QED
    BY <2>1, <2>2, <2>4
<1>7. CASE Unknown \/ Validate
  BY <1>7 DEF Unknown, Validate, AtOption, AtWord, Refuse
<1> QED
  BY <1>2, <1>3, <1>4, <1>5, <1>6, <1>7 DEF Next

\* So the loops of parse_args_internal end on any command line
\* (argparse.hpp:1740-1792).
THEOREM ParserAlwaysAdvances == Spec => AlwaysAdvances
<1>1. TypeOK /\ [Next]_vars =>
        [\/ outcome = "start" /\ Parsing'
         \/ Parsing /\ Done'
         \/ /\ Parsing /\ Parsing' /\ arguments' = arguments
            /\ it' > it \/ (it' = it /\ Len(letters') < Len(letters))]_vars
  BY StepAdvances
<1> QED
  BY <1>1, TypeCorrect, PTL DEF Spec, AlwaysAdvances

\* Whatever words a command line has, and in whatever order, the program
\* accepts, refuses or exits as the line means: the first word that cannot be
\* or that asks for help or the version decides (parse_args_internal,
\* argparse.hpp:1733-1794), and if there is none the ports and the log level
\* are those the line names.
THEOREM OutcomesAsMeant == Spec => []OutcomeAsMeant
<1>1. Init => IInv
  BY InitInv
<1>2. IInv /\ [Next]_vars => IInv'
  BY StepInv
<1>3. IInv => OutcomeAsMeant
  BY DEF IInv
<1> QED
  BY <1>1, <1>2, <1>3, PTL DEF Spec

=============================================================================
