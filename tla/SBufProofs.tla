----------------------------- MODULE SBufProofs -----------------------------
(***************************************************************************)
(* SBuf, for a buffer of any size, any texts, and numbers of any width.    *)
(***************************************************************************)
EXTENDS SBuf, SequenceTheorems, WellFoundedInduction, TLAPS

-----------------------------------------------------------------------------
(* The loop that renders a number ends, and gives characters that are not 0 *)

Characters == Nat \ {NUL}
Abs(n) == IF n < 0 THEN -n ELSE n

\* What a turn of the loop adds, with f for the turns that follow.
Turn(f, n) == <<Zero + Rem(n)>> \o IF Quot(n) = 0 THEN << >> ELSE f[Quot(n)]

\* f is what Backwards should be, for numbers below k.
Unfolds(f, k) ==
  /\ f \in [Int -> Seq(Characters)]
  /\ \A n \in Int : Abs(n) < k => f[n] = Turn(f, n)

\* A set of naturals has a least element.
LEMMA LeastOf ==
  ASSUME NEW S \in SUBSET Nat, S # {}
  PROVE  \E n \in S : \A m \in S : n <= m
<1>1. PICK n \in S : \A m \in S : ~(<<m, n>> \in OpToRel(<, Nat))
  BY NatLessThanWellFounded, WFMin
<1>2. \A m \in S : ~(m < n)
  BY <1>1 DEF OpToRel
<1> QED
  BY <1>2

\* Every turn has a number that is nearer to 0, and a digit left over.
LEMMA Division ==
  ASSUME NEW n \in Int
  PROVE  /\ Quot(n) \in Int /\ Abs(n) \in Nat /\ Abs(Quot(n)) \in Nat
         /\ Abs(Quot(n)) <= Abs(n)
         /\ Quot(n) # 0 => Abs(Quot(n)) < Abs(n)
         /\ Rem(n) \in -9 .. 9 /\ <<Zero + Rem(n)>> \in Seq(Characters)
<1>1. \A m \in Nat : m \div 10 \in Nat /\ 10 * (m \div 10) <= m
                     /\ m - 10 * (m \div 10) \in 0 .. 9
  OBVIOUS
<1>2. /\ Quot(n) \in Int /\ Abs(n) \in Nat /\ Abs(Quot(n)) \in Nat
      /\ Abs(Quot(n)) <= Abs(n)
      /\ Quot(n) # 0 => Abs(Quot(n)) < Abs(n)
  BY <1>1 DEF Quot, Abs
<1>3. Rem(n) \in -9 .. 9
  <2>1. CASE n >= 0
    BY <1>1, <2>1 DEF Quot, Rem
  <2>2. CASE n < 0
    <3>1. -n \in Nat
      BY <2>2
    <3>2. (-n) - 10 * ((-n) \div 10) \in 0 .. 9 /\ (-n) \div 10 \in Nat
      BY <1>1, <3>1
    <3> QED
      BY <2>2, <3>2 DEF Quot, Rem
  <2> QED
    BY <2>1, <2>2
<1>4. Zero + Rem(n) \in Characters
  BY <1>3 DEF Zero, Characters, NUL
<1> QED
  BY <1>2, <1>3, <1>4

\* One turn gives characters.
LEMMA TurnType ==
  ASSUME NEW f, NEW n \in Int, Quot(n) # 0 => f[Quot(n)] \in Seq(Characters)
  PROVE  Turn(f, n) \in Seq(Characters)
BY Division, ConcatProperties, EmptySeq DEF Turn

\* There is such a function for every bound.
LEMMA UnfoldsSomewhere == \A k \in Nat : \E f : Unfolds(f, k)
<1> DEFINE T == {k \in Nat : ~\E f : Unfolds(f, k)}
<1>1. ASSUME NEW k \in T, \A m \in T : k <= m PROVE FALSE
  <2>1. k # 0
    <3>1. Unfolds([n \in Int |-> << >>], 0)
      BY Division, EmptySeq DEF Unfolds
    <3> QED
      BY <3>1
  <2>2. k - 1 \in Nat /\ k - 1 \notin T
    BY <1>1, <2>1
  <2>3. PICK f : Unfolds(f, k - 1)
    BY <2>2
  <2> DEFINE g == [n \in Int |-> IF Abs(n) < k - 1 THEN f[n] ELSE Turn(f, n)]
  <2>4. g \in [Int -> Seq(Characters)]
    BY <2>3, TurnType, Division DEF Unfolds
  <2>5. ASSUME NEW n \in Int, Abs(n) < k PROVE g[n] = Turn(g, n)
    <3>1. g[n] = Turn(f, n)
      BY <2>3 DEF Unfolds
    <3>2. Quot(n) # 0 => g[Quot(n)] = f[Quot(n)]
      <4>1. Quot(n) # 0 => Abs(Quot(n)) < k - 1
        BY <2>2, <2>5, Division
      <4> QED
        BY <4>1, Division
    <3> QED
      BY <3>1, <3>2 DEF Turn
  <2>6. Unfolds(g, k)
    BY <2>4, <2>5 DEF Unfolds
  <2> QED
    BY <2>6
<1>2. T = {}
  BY <1>1, LeastOf
<1> QED
  BY <1>2

\* Two of them agree where both are defined.
LEMMA UnfoldsOneWay ==
  ASSUME NEW f, NEW g, NEW k \in Nat, NEW l \in Nat, Unfolds(f, k), Unfolds(g, l),
         NEW n \in Int, Abs(n) < k, Abs(n) < l
  PROVE  f[n] = g[n]
<1> DEFINE T == {m \in Nat : \E i \in Int :
                   Abs(i) = m /\ m < k /\ m < l /\ f[i] # g[i]}
<1>1. ASSUME NEW m \in T, \A j \in T : m <= j PROVE FALSE
  <2>1. PICK i \in Int : Abs(i) = m /\ m < k /\ m < l /\ f[i] # g[i]
    BY <1>1
  <2>2. f[i] = Turn(f, i) /\ g[i] = Turn(g, i)
    BY <2>1 DEF Unfolds
  <2>3. Quot(i) # 0 => f[Quot(i)] = g[Quot(i)]
    <3> SUFFICES ASSUME Quot(i) # 0 PROVE f[Quot(i)] = g[Quot(i)]
      OBVIOUS
    <3>1. Abs(Quot(i)) < m /\ Quot(i) \in Int /\ Abs(Quot(i)) \in Nat
      BY <2>1, Division
    <3>2. Abs(Quot(i)) \notin T
      BY <1>1, <3>1
    <3> QED
      BY <2>1, <3>1, <3>2
  <2> QED
    BY <2>1, <2>2, <2>3 DEF Turn
<1>2. T = {}
  BY <1>1, LeastOf
<1> QED
  BY <1>2, Division

\* There is such a function for all numbers, and so Backwards is one.
LEMMA BackwardsUnfolds ==
  Backwards = [n \in Int |-> Turn(Backwards, n)]
<1> DEFINE best(n) == CHOOSE f : Unfolds(f, Abs(n) + 1)
           F == [n \in Int |-> best(n)[n]]
<1>1. \A n \in Int : Unfolds(best(n), Abs(n) + 1)
  BY UnfoldsSomewhere, Division
<1>2. ASSUME NEW n \in Int PROVE F[n] = Turn(F, n)
  <2>1. Unfolds(best(n), Abs(n) + 1) /\ Abs(n) \in Nat
    BY <1>1, Division
  <2>2. best(n)[n] = Turn(best(n), n)
    <3> DEFINE b == best(n)
    <3>1. Unfolds(b, Abs(n) + 1) /\ Abs(n) < Abs(n) + 1
      BY <2>1
    <3> HIDE DEF b
    <3>2. b[n] = Turn(b, n)
      BY <3>1 DEF Unfolds
    <3> QED
      BY <3>2 DEF b
  <2>3. Quot(n) # 0 => best(n)[Quot(n)] = F[Quot(n)]
    <3> SUFFICES ASSUME Quot(n) # 0 PROVE best(n)[Quot(n)] = F[Quot(n)]
      OBVIOUS
    <3>1. Quot(n) \in Int /\ Abs(Quot(n)) \in Nat /\ Abs(Quot(n)) < Abs(n)
      BY Division
    <3>2. Unfolds(best(Quot(n)), Abs(Quot(n)) + 1)
      BY <1>1, <3>1
    <3> HIDE DEF best
    <3>3. best(n)[Quot(n)] = best(Quot(n))[Quot(n)]
      BY <2>1, <3>1, <3>2, UnfoldsOneWay
    <3> QED
      BY <3>1, <3>3
  <2> HIDE DEF best
  <2> QED
    BY <2>2, <2>3 DEF Turn
<1>3. F = [n \in Int |-> Turn(F, n)]
  BY <1>2
<1> HIDE DEF F
<1>4. \E f : f = [n \in Int |-> Turn(f, n)]
  BY <1>3
<1> QED
  BY <1>4 DEF Backwards, Turn

\* Backwards gives characters.
LEMMA BackwardsType == \A n \in Int : Backwards[n] \in Seq(Characters)
<1> DEFINE T == {k \in Nat : \E n \in Int : Abs(n) = k /\ Backwards[n] \notin Seq(Characters)}
<1>1. ASSUME NEW k \in T, \A m \in T : k <= m PROVE FALSE
  <2>1. PICK n \in Int : Abs(n) = k /\ Backwards[n] \notin Seq(Characters)
    BY <1>1
  <2>2. Quot(n) # 0 => Backwards[Quot(n)] \in Seq(Characters)
    <3> SUFFICES ASSUME Quot(n) # 0 PROVE Backwards[Quot(n)] \in Seq(Characters)
      OBVIOUS
    <3>1. Abs(Quot(n)) < k /\ Quot(n) \in Int /\ Abs(Quot(n)) \in Nat
      BY <2>1, Division
    <3>2. Abs(Quot(n)) \notin T
      BY <1>1, <3>1
    <3> QED
      BY <3>1, <3>2
  <2>3. Backwards[n] = Turn(Backwards, n)
    BY BackwardsUnfolds
  <2> QED
    BY <2>1, <2>2, <2>3, TurnType
<1>2. T = {}
  BY <1>1, LeastOf
<1> QED
  BY <1>2, Division

\* tmpBuf holds characters.
LEMMA TmpBufType ==
  ASSUME NEW int \in Ints
  PROVE  TmpBuf(int) \in Seq(Characters)
<1>1. int.n \in Int /\ int.low \in Int
  BY SBufAssumption
<1>2. /\ <<Minus>> \in Seq(Characters)
      /\ Quot(int.n) \in Int /\ -Quot(int.n) \in Int
      /\ Negated(int.n, int.low) \in Int
      /\ <<Zero - Rem(int.n)>> \in Seq(Characters)
  <2>1. Minus \in Characters
    BY DEF Minus, Characters, NUL
  <2>2. Quot(int.n) \in Int /\ Rem(int.n) \in -9 .. 9
    BY <1>1, Division
  <2>3. Zero - Rem(int.n) \in Characters
    BY <2>2 DEF Zero, Characters, NUL
  <2> QED
    BY <1>1, <2>1, <2>2, <2>3 DEF Negated
<1> QED
  BY <1>1, <1>2, BackwardsType, ConcatProperties DEF TmpBuf

-----------------------------------------------------------------------------
(* Turned round, its outcome is the decimal form of the number *)

Reversed(s) == [i \in 1 .. Len(s) |-> s[Len(s) + 1 - i]]

\* Turning a text round keeps its length and its characters.
LEMMA ReversedType ==
  ASSUME NEW s \in Seq(Characters)
  PROVE  /\ Reversed(s) \in Seq(Characters) /\ Len(Reversed(s)) = Len(s)
         /\ \A i \in 1 .. Len(s) : Reversed(s)[i] = s[Len(s) + 1 - i]
<1>1. Len(s) \in Nat /\ \A i \in 1 .. Len(s) : s[i] \in Characters
  BY LenProperties, ElementOfSeq
<1>2. \A i \in 1 .. Len(s) : Len(s) + 1 - i \in 1 .. Len(s)
  BY <1>1
<1> QED
  BY <1>1, <1>2 DEF Reversed

\* What is in front goes to the end.
LEMMA ReversedCons ==
  ASSUME NEW c \in Characters, NEW s \in Seq(Characters)
  PROVE  Reversed(<<c>> \o s) = Reversed(s) \o <<c>>
<1> DEFINE t == <<c>> \o s
<1>1. /\ t \in Seq(Characters) /\ Len(t) = Len(s) + 1 /\ t[1] = c
      /\ \A i \in 1 .. Len(s) : t[i + 1] = s[i]
      /\ Len(s) \in Nat
  <2>1. <<c>> \in Seq(Characters) /\ Len(<<c>>) = 1 /\ <<c>>[1] = c /\ Len(s) \in Nat
    BY LenProperties
  <2>2. /\ t \in Seq(Characters) /\ Len(t) = 1 + Len(s)
        /\ \A i \in 1 .. 1 + Len(s) : t[i] = IF i <= 1 THEN <<c>>[i] ELSE s[i - 1]
    BY <2>1, ConcatProperties
  <2> HIDE DEF t
  <2> QED
    BY <2>1, <2>2
<1> HIDE DEF t
<1>2. /\ Reversed(t) \in Seq(Characters) /\ Len(Reversed(t)) = Len(s) + 1
      /\ \A i \in 1 .. Len(s) + 1 : Reversed(t)[i] = t[Len(s) + 2 - i]
  BY <1>1, ReversedType
<1>3. /\ Reversed(s) \o <<c>> \in Seq(Characters)
      /\ Len(Reversed(s) \o <<c>>) = Len(s) + 1
      /\ \A i \in 1 .. Len(s) + 1 :
           (Reversed(s) \o <<c>>)[i] = IF i <= Len(s) THEN s[Len(s) + 1 - i] ELSE c
  <2>1. /\ Reversed(s) \in Seq(Characters) /\ Len(Reversed(s)) = Len(s)
        /\ \A i \in 1 .. Len(s) : Reversed(s)[i] = s[Len(s) + 1 - i]
    BY ReversedType
  <2>2. <<c>> \in Seq(Characters) /\ Len(<<c>>) = 1 /\ <<c>>[1] = c
    OBVIOUS
  <2>3. /\ Reversed(s) \o <<c>> \in Seq(Characters)
        /\ Len(Reversed(s) \o <<c>>) = Len(s) + 1
        /\ \A i \in 1 .. Len(s) + 1 :
             (Reversed(s) \o <<c>>)[i] =
               IF i <= Len(s) THEN Reversed(s)[i] ELSE <<c>>[i - Len(s)]
    BY <2>1, <2>2, ConcatProperties
  <2> QED
    BY <1>1, <2>1, <2>2, <2>3
<1>4. \A i \in 1 .. Len(s) + 1 : Reversed(t)[i] = (Reversed(s) \o <<c>>)[i]
  <2> SUFFICES ASSUME NEW i \in 1 .. Len(s) + 1
               PROVE  t[Len(s) + 2 - i] = IF i <= Len(s) THEN s[Len(s) + 1 - i] ELSE c
    BY <1>2, <1>3
  <2>1. CASE i <= Len(s)
    <3>1. Len(s) + 1 - i \in 1 .. Len(s) /\ Len(s) + 1 - i + 1 = Len(s) + 2 - i
      BY <1>1, <2>1
    <3> QED
      BY <1>1, <2>1, <3>1
  <2>2. CASE i = Len(s) + 1
    BY <1>1, <2>2
  <2> QED
    BY <1>1, <2>1, <2>2
<1>5. Reversed(t) = Reversed(s) \o <<c>>
  BY <1>2, <1>3, <1>4, SeqEqual
<1> QED
  BY <1>5 DEF t

\* The loop on a number that is not negative.
LEMMA BackwardsOfNat ==
  ASSUME NEW n \in Nat
  PROVE  /\ n \div 10 \in Nat /\ n % 10 \in 0 .. 9 /\ Zero + (n % 10) \in Characters
         /\ n \div 10 = 0 <=> n < 10
         /\ n >= 10 => n \div 10 < n
         /\ Backwards[n] = <<Zero + (n % 10)>> \o
                             IF n < 10 THEN << >> ELSE Backwards[n \div 10]
<1>1. /\ n \div 10 \in Nat /\ n % 10 \in 0 .. 9 /\ n = 10 * (n \div 10) + (n % 10)
  OBVIOUS
<1>2. (n \div 10 = 0 <=> n < 10) /\ (n >= 10 => n \div 10 < n)
  BY <1>1
<1>3. Quot(n) = n \div 10 /\ Rem(n) = n % 10
  BY <1>1 DEF Quot, Rem
<1>4. Zero + (n % 10) \in Characters
  BY <1>1 DEF Zero, Characters, NUL
<1>5. Backwards[n] = Turn(Backwards, n)
  BY BackwardsUnfolds
<1> QED
  BY <1>1, <1>2, <1>3, <1>4, <1>5 DEF Turn

\* What a function must do to be Numeral.
NumeralTurn(f, n) ==
  (IF n < 10 THEN << >> ELSE f[n \div 10]) \o <<Zero + (n % 10)>>

\* Backwards turned round does that.
LEMMA NumeralExists ==
  LET R == [n \in Nat |-> Reversed(Backwards[n])]
  IN  \A n \in Nat : R[n] = NumeralTurn(R, n)
<1> DEFINE R == [n \in Nat |-> Reversed(Backwards[n])]
<1> SUFFICES ASSUME NEW n \in Nat PROVE R[n] = NumeralTurn(R, n)
  OBVIOUS
<1>1. /\ n \div 10 \in Nat /\ Zero + (n % 10) \in Characters
      /\ Backwards[n] = <<Zero + (n % 10)>> \o
                          IF n < 10 THEN << >> ELSE Backwards[n \div 10]
  BY BackwardsOfNat
<1>2. CASE n < 10
  <2>1. Backwards[n] = <<Zero + (n % 10)>> \o << >>
    BY <1>1, <1>2
  <2>2. Reversed(<< >>) = << >>
    BY EmptySeq DEF Reversed
  <2>3. << >> \in Seq(Characters)
    BY EmptySeq
  <2>4. Reversed(Backwards[n]) = << >> \o <<Zero + (n % 10)>>
    BY <1>1, <2>1, <2>2, <2>3, ReversedCons
  <2> QED
    BY <1>2, <2>4 DEF NumeralTurn
<1>3. CASE n >= 10
  <2>1. Backwards[n] = <<Zero + (n % 10)>> \o Backwards[n \div 10]
    BY <1>1, <1>3
  <2>2. Backwards[n \div 10] \in Seq(Characters)
    BY <1>1, BackwardsType
  <2>3. Reversed(Backwards[n]) = Reversed(Backwards[n \div 10]) \o <<Zero + (n % 10)>>
    BY <1>1, <2>1, <2>2, ReversedCons
  <2>4. R[n] = Reversed(Backwards[n]) /\ R[n \div 10] = Reversed(Backwards[n \div 10])
    BY <1>1
  <2> HIDE DEF R
  <2>5. NumeralTurn(R, n) = R[n \div 10] \o <<Zero + (n % 10)>>
    <3>1. ~(n < 10)
      BY <1>3
    <3> QED
      BY <3>1 DEF NumeralTurn
  <2> QED
    BY <2>3, <2>4, <2>5
<1> QED
  BY <1>2, <1>3

\* So that is what Numeral is.
LEMMA NumeralIsReversed == \A n \in Nat : Numeral[n] = Reversed(Backwards[n])
<1> DEFINE R == [n \in Nat |-> Reversed(Backwards[n])]
<1>1. \A n \in Nat : R[n] = NumeralTurn(R, n)
  BY NumeralExists
<1>2. R = [n \in Nat |-> NumeralTurn(R, n)]
  BY <1>1
<1> HIDE DEF R
<1>3. \E f : f = [n \in Nat |-> NumeralTurn(f, n)]
  BY <1>2
<1>4. Numeral = [n \in Nat |-> NumeralTurn(Numeral, n)]
  BY <1>3 DEF Numeral, NumeralTurn
<1> DEFINE T == {n \in Nat : Numeral[n] # R[n]}
<1>5. ASSUME NEW n \in T, \A m \in T : n <= m PROVE FALSE
  <2>1. n \in Nat /\ Numeral[n] # R[n]
    BY <1>5
  <2>2. n >= 10 => Numeral[n \div 10] = R[n \div 10]
    <3> SUFFICES ASSUME n >= 10 PROVE Numeral[n \div 10] = R[n \div 10]
      OBVIOUS
    <3>1. n \div 10 \in Nat /\ n \div 10 < n
      BY <2>1, BackwardsOfNat
    <3>2. n \div 10 \notin T
      BY <1>5, <2>1, <3>1
    <3> QED
      BY <3>1, <3>2
  <2>3. Numeral[n] = NumeralTurn(Numeral, n) /\ R[n] = NumeralTurn(R, n)
    BY <1>1, <1>4, <2>1
  <2>4. NumeralTurn(Numeral, n) = NumeralTurn(R, n)
    <3>1. CASE n < 10
      BY <3>1 DEF NumeralTurn
    <3>2. CASE n >= 10
      BY <2>2, <3>2 DEF NumeralTurn
    <3> QED
      BY <2>1, <3>1, <3>2
  <2> QED
    BY <2>1, <2>3, <2>4
<1>6. T = {}
  BY <1>5, LeastOf
<1> QED
  BY <1>6 DEF R

\* What is at the end comes to the front.
LEMMA ReversedSnoc ==
  ASSUME NEW c \in Characters, NEW s \in Seq(Characters)
  PROVE  Reversed(s \o <<c>>) = <<c>> \o Reversed(s)
<1> DEFINE t == s \o <<c>>
           u == <<c>> \o Reversed(s)
<1>1. <<c>> \in Seq(Characters) /\ Len(<<c>>) = 1 /\ <<c>>[1] = c /\ Len(s) \in Nat
  BY LenProperties
<1>2. /\ t \in Seq(Characters) /\ Len(t) = Len(s) + 1
      /\ \A i \in 1 .. Len(s) + 1 : t[i] = IF i <= Len(s) THEN s[i] ELSE <<c>>[i - Len(s)]
  BY <1>1, ConcatProperties
<1>3. /\ Reversed(s) \in Seq(Characters) /\ Len(Reversed(s)) = Len(s)
      /\ \A i \in 1 .. Len(s) : Reversed(s)[i] = s[Len(s) + 1 - i]
  BY ReversedType
<1>4. /\ u \in Seq(Characters) /\ Len(u) = 1 + Len(s)
      /\ \A i \in 1 .. 1 + Len(s) : u[i] = IF i <= 1 THEN <<c>>[i] ELSE Reversed(s)[i - 1]
  BY <1>1, <1>3, ConcatProperties
<1> HIDE DEF t, u
<1>5. /\ Reversed(t) \in Seq(Characters) /\ Len(Reversed(t)) = Len(s) + 1
      /\ \A i \in 1 .. Len(s) + 1 : Reversed(t)[i] = t[Len(s) + 2 - i]
  BY <1>1, <1>2, ReversedType
<1>6. \A i \in 1 .. Len(s) + 1 : Reversed(t)[i] = u[i]
  <2> SUFFICES ASSUME NEW i \in 1 .. Len(s) + 1 PROVE t[Len(s) + 2 - i] = u[i]
    BY <1>5
  <2>1. CASE i = 1
    BY <1>1, <1>2, <1>4, <2>1
  <2>2. CASE i > 1
    <3>1. i - 1 \in 1 .. Len(s) /\ Len(s) + 1 - (i - 1) = Len(s) + 2 - i
      BY <1>1, <2>2
    <3>2. Len(s) + 2 - i \in 1 .. Len(s)
      BY <1>1, <2>2
    <3>3. t[Len(s) + 2 - i] = s[Len(s) + 2 - i]
      BY <1>1, <1>2, <3>2
    <3>4. u[i] = Reversed(s)[i - 1]
      BY <1>4, <2>2
    <3> QED
      BY <1>3, <3>1, <3>3, <3>4
  <2> QED
    BY <1>1, <2>1, <2>2
<1>7. Reversed(t) = u
  BY <1>1, <1>4, <1>5, <1>6, SeqEqual
<1> QED
  BY <1>7 DEF t, u

\* Numeral gives characters.
LEMMA NumeralType ==
  ASSUME NEW n \in Nat
  PROVE  Numeral[n] \in Seq(Characters) /\ Numeral[n] = Reversed(Backwards[n])
BY NumeralIsReversed, BackwardsType, ReversedType

\* tmpBuf, read from its end, is the decimal form of the number: the least
\* value of its type included.
LEMMA TmpBufIsDecimal ==
  ASSUME NEW int \in Ints
  PROVE  Reversed(TmpBuf(int)) = Decimal(int.n)
<1> DEFINE n == int.n
<1>1. /\ n \in Int /\ int.low \in Int /\ int.low <= n
      /\ int.low = 0 \/ int.low <= -128
  BY SBufAssumption
<1>2. Minus \in Characters
  BY DEF Minus, Characters, NUL
<1>3. CASE n >= 0
  BY <1>1, <1>3, NumeralType DEF TmpBuf, Decimal
<1>4. CASE n < 0 /\ n # int.low
  <2>1. TmpBuf(int) = Backwards[-n] \o <<Minus>> /\ -n \in Nat
    BY <1>1, <1>4 DEF TmpBuf, Negated
  <2>2. Reversed(TmpBuf(int)) = <<Minus>> \o Reversed(Backwards[-n])
    <3>1. Backwards[-n] \in Seq(Characters)
      BY <2>1, BackwardsType
    <3>2. Reversed(Backwards[-n] \o <<Minus>>) = <<Minus>> \o Reversed(Backwards[-n])
      BY <1>2, <3>1, ReversedSnoc
    <3> QED
      BY <2>1, <3>2
  <2> QED
    BY <1>4, <2>1, <2>2, NumeralType DEF Decimal
<1>5. CASE n < 0 /\ n = int.low
  <2> DEFINE m == -n
             c == Zero + (m % 10)
  <2>1. m \in Nat /\ m >= 10 /\ -m = n
    BY <1>1, <1>5
  <2>2. Quot(n) = -(m \div 10) /\ m \div 10 \in Nat /\ -Quot(n) = m \div 10
    BY <1>1, <1>5, <2>1 DEF Quot
  <2>3. Zero - Rem(n) = c
    <3> HIDE DEF m
    <3>1. Rem(n) = n - 10 * (-(m \div 10))
      BY <2>2 DEF Rem
    <3>2. m = 10 * (m \div 10) + (m % 10) /\ m % 10 \in 0 .. 9
      BY <2>1
    <3>3. Rem(n) = -(m % 10)
      BY <2>1, <2>2, <3>1, <3>2
    <3> QED
      BY <3>2, <3>3 DEF Zero
  <2>4. TmpBuf(int) = <<c>> \o Backwards[m \div 10] \o <<Minus>>
    <3>1. TmpBuf(int) = <<Zero - Rem(n)>> \o Backwards[-Quot(n)] \o <<Minus>>
      <4>1. ~(int.n >= 0)
        BY <1>1, <1>5
      <4> QED
        BY <1>5, <4>1 DEF TmpBuf
    <3> QED
      BY <2>2, <2>3, <3>1
  <2> HIDE DEF m
  <2>5. c \in Characters /\ Backwards[m] = <<c>> \o Backwards[m \div 10]
    <3>1. ~(m < 10)
      BY <2>1
    <3> QED
      BY <2>1, <3>1, BackwardsOfNat
  <2> HIDE DEF c
  <2>6. TmpBuf(int) = Backwards[m] \o <<Minus>>
    BY <2>4, <2>5
  <2>7. Reversed(TmpBuf(int)) = <<Minus>> \o Reversed(Backwards[m])
    <3>1. Backwards[m] \in Seq(Characters)
      BY <2>1, BackwardsType
    <3>2. Reversed(Backwards[m] \o <<Minus>>) = <<Minus>> \o Reversed(Backwards[m])
      BY <1>2, <3>1, ReversedSnoc
    <3> QED
      BY <2>6, <3>2
  <2> QED
    BY <1>5, <2>1, <2>7, NumeralType DEF Decimal, m
<1> QED
  BY <1>1, <1>3, <1>4, <1>5

-----------------------------------------------------------------------------
(* The buffer *)

\* The array up to len is what was asked for, and a 0 is behind it.
IInv ==
  /\ len \in 0 .. MaxLen
  /\ strBuf \in [0 .. MaxLen -> Nat \cup {Junk}]
  /\ asked \in Seq(Characters) /\ Len(asked) = len
  /\ \A i \in 1 .. len : strBuf[i - 1] = asked[i]
  /\ strBuf[len] = NUL

\* Take gives the first characters.
LEMMA TakeGives ==
  ASSUME NEW s \in Seq(Characters), NEW n \in Nat
  PROVE  /\ Take(s, n) \in Seq(Characters) /\ Len(Take(s, n)) = Least(n, Len(s))
         /\ \A i \in 1 .. Least(n, Len(s)) : Take(s, n)[i] = s[i]
<1>1. Least(n, Len(s)) \in 0 .. Len(s) /\ Len(s) \in Nat
  BY LenProperties DEF Least
<1> DEFINE m == Least(n, Len(s))
<1>2. m \in 0 .. Len(s) /\ Len(s) \in Nat
  BY <1>1
<1> HIDE DEF m
<1>3. /\ SubSeq(s, 1, m) \in Seq(Characters) /\ Len(SubSeq(s, 1, m)) = m
      /\ \A i \in 1 .. m : SubSeq(s, 1, m)[i] = s[i]
  BY <1>2
<1>4. Take(s, n) = SubSeq(s, 1, m)
  BY DEF Take, m
<1> QED
  BY <1>3, <1>4 DEF m

\* What is asked for grows by the part of s that has room.
LEMMA AsksGives ==
  ASSUME IInv, NEW s \in Seq(Characters), Asks(s)
  PROVE  LET k == Least(MaxLen - len, Len(s)) IN
         /\ k \in Nat /\ k <= Len(s) /\ len + k <= MaxLen
         /\ asked' \in Seq(Characters) /\ Len(asked') = len + k
         /\ \A i \in 1 .. len : asked'[i] = asked[i]
         /\ \A i \in 1 .. k : asked'[len + i] = s[i]
<1> DEFINE k == Least(MaxLen - len, Len(s))
           t == asked \o s
<1>1. /\ len \in Nat /\ MaxLen \in Nat /\ len <= MaxLen /\ Len(s) \in Nat
      /\ asked \in Seq(Characters) /\ Len(asked) = len
  BY SBufAssumption, LenProperties DEF IInv
<1>2. k \in Nat /\ k <= Len(s) /\ len + k <= MaxLen /\ Least(MaxLen, len + Len(s)) = len + k
  BY <1>1 DEF Least
<1>3. /\ t \in Seq(Characters) /\ Len(t) = len + Len(s)
      /\ \A i \in 1 .. len + Len(s) : t[i] = IF i <= len THEN asked[i] ELSE s[i - len]
  BY <1>1, ConcatProperties
<1>4. asked' = Take(t, MaxLen)
  BY DEF Asks
<1> HIDE DEF k, t
<1>5. /\ asked' \in Seq(Characters) /\ Len(asked') = len + k
      /\ \A i \in 1 .. len + k : asked'[i] = t[i]
  <2>1. Least(MaxLen, Len(t)) = len + k
    BY <1>2, <1>3
  <2>2. /\ Take(t, MaxLen) \in Seq(Characters) /\ Len(Take(t, MaxLen)) = len + k
        /\ \A i \in 1 .. len + k : Take(t, MaxLen)[i] = t[i]
    <3>1. /\ Take(t, MaxLen) \in Seq(Characters)
          /\ Len(Take(t, MaxLen)) = Least(MaxLen, Len(t))
          /\ \A i \in 1 .. Least(MaxLen, Len(t)) : Take(t, MaxLen)[i] = t[i]
      BY <1>1, <1>3, TakeGives
    <3> QED
      BY <2>1, <3>1
  <2> QED
    BY <1>4, <2>2
<1>6. \A i \in 1 .. len : asked'[i] = asked[i]
  BY <1>1, <1>2, <1>3, <1>5
<1>7. ASSUME NEW i \in 1 .. k PROVE asked'[len + i] = s[i]
  <2>1. len + i \in 1 .. len + k /\ len + i \in 1 .. len + Len(s) /\ ~(len + i <= len)
        /\ (len + i) - len = i
    BY <1>1, <1>2
  <2> QED
    BY <1>3, <1>5, <2>1
<1> QED
  BY <1>2, <1>5, <1>6, <1>7 DEF k

\* The part of s that has room is put: all that append() does.
LEMMA PutKeeps ==
  ASSUME IInv, NEW s \in Seq(Characters), Asks(s),
         NEW t \in Seq(Characters), Len(t) = Least(MaxLen - len, Len(s)),
         \A i \in 1 .. Len(t) : t[i] = s[i],
         Put(t)
  PROVE  IInv'
<1> DEFINE k == Len(t)
<1>1. /\ k \in Nat /\ k <= Len(s) /\ len + k <= MaxLen
      /\ asked' \in Seq(Characters) /\ Len(asked') = len + k
      /\ \A i \in 1 .. len : asked'[i] = asked[i]
      /\ \A i \in 1 .. k : asked'[len + i] = s[i]
  BY AsksGives
<1>2. /\ len \in Nat /\ MaxLen \in Nat
      /\ strBuf \in [0 .. MaxLen -> Nat \cup {Junk}]
      /\ \A i \in 1 .. len : strBuf[i - 1] = asked[i]
  BY SBufAssumption DEF IInv
<1>3. \A i \in 1 .. k : t[i] = s[i] /\ t[i] \in Nat
  BY ElementOfSeq DEF Characters
<1>4. /\ strBuf' = [i \in 0 .. MaxLen |->
                      IF i \in len .. len + k - 1 THEN t[i - len + 1]
                      ELSE IF i = len + k THEN NUL ELSE strBuf[i]]
      /\ len' = len + k
  BY DEF Put
<1> HIDE DEF k
<1>5. strBuf' \in [0 .. MaxLen -> Nat \cup {Junk}]
  <2> SUFFICES ASSUME NEW i \in 0 .. MaxLen
               PROVE  strBuf'[i] \in Nat \cup {Junk}
    BY <1>4
  <2>1. CASE i \in len .. len + k - 1
    <3>1. i - len + 1 \in 1 .. k
      BY <1>1, <1>2, <2>1
    <3> QED
      BY <1>3, <1>4, <2>1, <3>1
  <2>2. CASE i \notin len .. len + k - 1
    BY <1>2, <1>4, <2>2 DEF NUL
  <2> QED
    BY <2>1, <2>2
<1>6. len' \in 0 .. MaxLen /\ strBuf'[len'] = NUL
  <2>1. len + k \in 0 .. MaxLen /\ len + k \notin len .. len + k - 1
    BY <1>1, <1>2
  <2> QED
    BY <1>4, <2>1
<1>7. ASSUME NEW i \in 1 .. len + k PROVE strBuf'[i - 1] = asked'[i]
  <2>1. i - 1 \in 0 .. MaxLen /\ i - 1 # len + k
    BY <1>1, <1>2
  <2>2. CASE i <= len
    <3>1. i \in 1 .. len /\ i - 1 \notin len .. len + k - 1
      BY <1>2, <2>2
    <3> QED
      BY <1>1, <1>2, <1>4, <2>1, <3>1
  <2>3. CASE i > len
    <3>1. i - len \in 1 .. k /\ i - 1 \in len .. len + k - 1 /\ len + (i - len) = i
          /\ (i - 1) - len + 1 = i - len
      BY <1>1, <1>2, <2>3
    <3>2. strBuf'[i - 1] = t[i - len]
      BY <1>4, <2>1, <3>1
    <3> QED
      BY <1>1, <1>3, <3>1, <3>2
  <2> QED
    BY <1>2, <2>2, <2>3
<1>8. len' = len + k
  BY <1>4
<1> QED
  BY <1>1, <1>5, <1>6, <1>7, <1>8 DEF IInv

\* Nothing is put, because nothing fits or nothing is asked for.
LEMMA FullKeeps ==
  ASSUME IInv, NEW s \in Seq(Characters), Asks(s),
         Least(MaxLen - len, Len(s)) = 0, UNCHANGED <<strBuf, len>>
  PROVE  IInv'
<1>1. /\ len \in Nat
      /\ asked' \in Seq(Characters) /\ Len(asked') = len + 0
      /\ \A i \in 1 .. len : asked'[i] = asked[i]
  BY AsksGives DEF IInv
<1> QED
  BY <1>1 DEF IInv

\* IInv holds at the beginning.
LEMMA InitHolds == Init => IInv
<1> SUFFICES ASSUME Init PROVE IInv
  OBVIOUS
<1>1. len = 0 /\ asked = << >> /\ MaxLen \in Nat
  BY SBufAssumption DEF Init
<1>2. strBuf \in [0 .. MaxLen -> Nat \cup {Junk}] /\ strBuf[0] = NUL
  BY <1>1 DEF Init, NUL
<1> QED
  BY <1>1, <1>2, EmptySeq DEF IInv

\* clear() preserves it.
LEMMA ClearKeeps == ASSUME IInv, Clear PROVE IInv'
<1>1. len' = 0 /\ asked' = << >> /\ MaxLen \in Nat
  BY SBufAssumption DEF Clear
<1>2. strBuf' \in [0 .. MaxLen -> Nat \cup {Junk}] /\ strBuf'[0] = NUL
  BY <1>1 DEF IInv, Clear, NUL
<1> QED
  BY <1>1, <1>2, EmptySeq DEF IInv

\* So does appending a text,
LEMMA AppendTextKeeps ==
  ASSUME IInv, NEW s \in Seq(Characters), AppendText(s) PROVE IInv'
<1> DEFINE slen == IF Len(s) + len > MaxLen THEN MaxLen - len ELSE Len(s)
<1>1. /\ len \in Nat /\ MaxLen \in Nat /\ len <= MaxLen /\ Len(s) \in Nat
      /\ Asks(s)
  BY SBufAssumption, LenProperties DEF IInv, AppendText
<1>2. slen = Least(MaxLen - len, Len(s)) /\ slen \in Nat /\ Least(slen, Len(s)) = slen
  BY <1>1 DEF Least
<1>3. IF slen <= 0 THEN UNCHANGED <<strBuf, len>> ELSE Put(Take(s, slen))
  BY DEF AppendText
<1> HIDE DEF slen
<1>4. CASE slen = 0
  BY <1>1, <1>2, <1>3, <1>4, FullKeeps
<1>5. CASE slen > 0
  <2> DEFINE t == Take(s, slen)
  <2>1. /\ t \in Seq(Characters) /\ Len(t) = Least(MaxLen - len, Len(s))
        /\ \A i \in 1 .. Len(t) : t[i] = s[i]
    BY <1>2, TakeGives
  <2>2. Put(t)
    BY <1>2, <1>3, <1>5
  <2> HIDE DEF t
  <2> QED
    BY <1>1, <2>1, <2>2, PutKeeps
<1> QED
  BY <1>2, <1>4, <1>5

\* a character,
LEMMA AppendCharKeeps ==
  ASSUME IInv, NEW c \in Characters, AppendChar(c) PROVE IInv'
<1>1. /\ len \in Nat /\ MaxLen \in Nat /\ len <= MaxLen
      /\ <<c>> \in Seq(Characters) /\ Len(<<c>>) = 1
      /\ Asks(<<c>>)
  BY SBufAssumption DEF IInv, AppendChar
<1>2. CASE len >= MaxLen
  <2>1. Least(MaxLen - len, Len(<<c>>)) = 0
    BY <1>1, <1>2 DEF Least
  <2> QED
    BY <1>1, <1>2, <2>1, FullKeeps DEF AppendChar
<1>3. CASE ~(len >= MaxLen)
  <2>1. Len(<<c>>) = Least(MaxLen - len, Len(<<c>>))
    BY <1>1, <1>3 DEF Least
  <2>2. Put(<<c>>)
    BY <1>3 DEF AppendChar
  <2> QED
    BY <1>1, <2>1, <2>2, PutKeeps
<1> QED
  BY <1>2, <1>3

\* operator= is append() on a cleared buffer.
LEMMA AssignKeeps ==
  ASSUME IInv, NEW s \in Seq(Characters), Assign(s) PROVE IInv'
<1> DEFINE k == Least(Len(s), MaxLen)
<1>1. MaxLen \in Nat /\ Len(s) \in Nat /\ \A i \in 1 .. Len(s) : s[i] \in Nat
  BY SBufAssumption, LenProperties, ElementOfSeq DEF Characters
<1>2. k \in Nat /\ k <= MaxLen /\ k <= Len(s) /\ Least(MaxLen, Len(s)) = k
  BY <1>1 DEF Least
<1>3. /\ asked' = Take(s, MaxLen)
      /\ strBuf' = [i \in 0 .. MaxLen |->
                      IF i < k THEN s[i + 1] ELSE IF i = k THEN NUL ELSE strBuf[i]]
      /\ len' = k
  BY DEF Assign
<1> HIDE DEF k
<1>4. /\ asked' \in Seq(Characters) /\ Len(asked') = k
      /\ \A i \in 1 .. k : asked'[i] = s[i]
  BY <1>1, <1>2, <1>3, TakeGives
<1>5. strBuf' \in [0 .. MaxLen -> Nat \cup {Junk}]
  <2> SUFFICES ASSUME NEW i \in 0 .. MaxLen PROVE strBuf'[i] \in Nat \cup {Junk}
    BY <1>3
  <2>1. CASE i < k
    <3>1. i + 1 \in 1 .. Len(s)
      BY <1>1, <1>2, <2>1
    <3> QED
      BY <1>1, <1>3, <2>1, <3>1
  <2>2. CASE ~(i < k)
    BY <1>3, <2>2 DEF IInv, NUL
  <2> QED
    BY <2>1, <2>2
<1>6. strBuf'[k] = NUL /\ k \in 0 .. MaxLen
  BY <1>1, <1>2, <1>3
<1>7. ASSUME NEW i \in 1 .. k PROVE strBuf'[i - 1] = asked'[i]
  <2>1. i - 1 \in 0 .. MaxLen /\ i - 1 < k /\ i - 1 + 1 = i
    BY <1>1, <1>2
  <2> QED
    BY <1>3, <1>4, <2>1
<1> QED
  BY <1>3, <1>4, <1>5, <1>6, <1>7 DEF IInv

\* and a number.
LEMMA AppendIntKeeps ==
  ASSUME IInv, NEW int \in Ints, AppendInt(int) PROVE IInv'
<1> DEFINE tmp == TmpBuf(int)
           n == Least(MaxLen - len, Len(tmp))
           t == [i \in 1 .. n |-> tmp[Len(tmp) + 1 - i]]
           s == Decimal(int.n)
<1>1. /\ tmp \in Seq(Characters) /\ Len(tmp) \in Nat
      /\ s = Reversed(tmp) /\ s \in Seq(Characters) /\ Len(s) = Len(tmp)
      /\ \A i \in 1 .. Len(tmp) : s[i] = tmp[Len(tmp) + 1 - i]
  BY TmpBufType, TmpBufIsDecimal, ReversedType, LenProperties
<1>2. Asks(s) /\ Put(t)
  BY DEF AppendInt
<1>3. len \in Nat /\ MaxLen \in Nat /\ len <= MaxLen
  BY SBufAssumption DEF IInv
<1> HIDE DEF tmp, s
<1>4. n \in Nat /\ n <= Len(tmp)
  BY <1>1, <1>3 DEF Least
<1> HIDE DEF n
<1>5. \A i \in 1 .. n : s[i] = tmp[Len(tmp) + 1 - i] /\ s[i] \in Characters
  BY <1>1, <1>4, ElementOfSeq
<1>6. t \in Seq(Characters) /\ Len(t) = n /\ \A i \in 1 .. n : t[i] = s[i]
  <2>1. t = [i \in 1 .. n |-> s[i]]
    BY <1>5
  <2> HIDE DEF t
  <2>2. t \in Seq(Characters)
    BY <1>4, <1>5, <2>1
  <2> QED
    BY <1>4, <2>1, <2>2
<1> HIDE DEF t
<1>7. Len(t) = Least(MaxLen - len, Len(s))
  BY <1>1, <1>6 DEF n
<1> QED
  BY <1>1, <1>2, <1>6, <1>7, PutKeeps

\* Every step preserves IInv.
LEMMA NextKeeps == IInv /\ [Next]_vars => IInv'
<1> SUFFICES ASSUME IInv, [Next]_vars PROVE IInv'
  OBVIOUS
<1>1. CASE Clear
  BY <1>1, ClearKeeps
<1>2. ASSUME NEW s \in Texts, AppendText(s) PROVE IInv'
  BY <1>2, SBufAssumption, AppendTextKeeps DEF Characters
<1>3. ASSUME NEW s \in Texts, Assign(s) PROVE IInv'
  BY <1>3, SBufAssumption, AssignKeeps DEF Characters
<1>4. ASSUME NEW c \in Chars, AppendChar(c) PROVE IInv'
  BY <1>4, SBufAssumption, AppendCharKeeps DEF Characters
<1>5. ASSUME NEW int \in Ints, AppendInt(int) PROVE IInv'
  BY <1>5, AppendIntKeeps
<1>6. CASE UNCHANGED vars
  BY <1>6 DEF IInv, vars
<1> QED
  BY <1>1, <1>2, <1>3, <1>4, <1>5, <1>6 DEF Next

\* So IInv holds in every state.
LEMMA Inductive == Spec => []IInv
BY InitHolds, NextKeeps, PTL DEF Spec

-----------------------------------------------------------------------------
(* The theorems *)

\* The text's length never leaves the array, for any size of buffer
\* (util.h:219-226).
THEOREM TypeCorrect == Spec => []TypeOK
<1>1. IInv => TypeOK
  <2> SUFFICES ASSUME IInv PROVE TypeOK
    OBVIOUS
  <2>1. \A i \in 1 .. Len(asked) : asked[i] \in Nat
    BY ElementOfSeq DEF IInv, Characters
  <2>2. asked \in Seq(Nat) /\ Len(asked) <= MaxLen
    BY <2>1, SBufAssumption DEF IInv
  <2> QED
    BY <2>2 DEF IInv, TypeOK
<1> QED
  BY <1>1, Inductive, PTL

\* The buffer holds the beginning of what was appended, for any size of buffer,
\* texts of any length and integers of any width (util.h:237-291).
THEOREM BufferHoldsBeginning == Spec => []HoldsBeginning
<1>1. IInv => HoldsBeginning
  <2> SUFFICES ASSUME IInv PROVE View = asked
    BY DEF HoldsBeginning
  <2>1. asked = [i \in 1 .. len |-> asked[i]]
    BY DEF IInv
  <2> QED
    BY <2>1 DEF IInv, View
<1> QED
  BY <1>1, Inductive, PTL

\* Its C string ends where its text ends, under the same assumptions
\* (util.h:292).
THEOREM BufferEndsWithText == Spec => []EndsWithText
<1>1. IInv => EndsWithText
  <2> SUFFICES ASSUME IInv, NEW i \in 0 .. len - 1 PROVE strBuf[i] # NUL
    BY DEF IInv, EndsWithText
  <2>1. i + 1 \in 1 .. len /\ (i + 1) - 1 = i
    BY DEF IInv
  <2>2. asked[i + 1] \in Characters
    BY <2>1, ElementOfSeq DEF IInv
  <2> QED
    BY <2>1, <2>2 DEF IInv, Characters
<1> QED
  BY <1>1, Inductive, PTL
=============================================================================
