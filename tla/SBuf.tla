--------------------------------- MODULE SBuf --------------------------------
(***************************************************************************)
(* AsyncSignalSafe::SBuf (util.h:219-296), the text buffer the signal      *)
(* handler and Sem write their messages with: an array of MaxLen + 1       *)
(* characters that silently cuts off what does not fit.  Characters are    *)
(* their codes.  The array is not initialised (line 223), so its elements  *)
(* start as Junk, anything but a terminating 0.                            *)
(***************************************************************************)
EXTENDS Integers, Sequences

CONSTANTS
  MaxLen,   \* the template parameter N
  Texts,    \* what is appended as a string_view
  Chars,    \* what is appended as a char
  Ints      \* what is appended as an integer, with the least value of its type

NUL == 0
Minus == 45
Zero == 48
Junk == -1

\* strncpy stops at a 0, so a text with one in it would not be copied as it is.
ASSUME SBufAssumption ==
  /\ MaxLen \in Nat
  /\ Chars \subseteq Nat \ {NUL}
  /\ \A t \in Texts : t \in Seq(Nat \ {NUL})
  /\ \A int \in Ints :
       /\ int.n \in Int /\ int.low \in Int /\ int.low <= int.n
       /\ int.low = 0 \/ int.low <= -128   \* unsigned, or signed with 8 bits or more

VARIABLES
  strBuf, len,
  asked        \* the first MaxLen characters of all that was to be appended

vars == <<strBuf, len, asked>>

TypeOK ==
  /\ len \in 0 .. MaxLen
  /\ strBuf \in [0 .. MaxLen -> Nat \cup {Junk}]
  /\ asked \in Seq(Nat) /\ Len(asked) <= MaxLen

Least(a, b) == IF a <= b THEN a ELSE b
Take(s, n) == SubSeq(s, 1, Least(n, Len(s)))

\* The constructor is clear() on an array of junk.
Init ==
  /\ strBuf = [i \in 0 .. MaxLen |-> IF i = 0 THEN NUL ELSE Junk]
  /\ len = 0
  /\ asked = << >>

Clear ==
  /\ strBuf' = [strBuf EXCEPT ![0] = NUL]
  /\ len' = 0
  /\ asked' = << >>

\* A mutation: no 0 behind it.
PutUnterminated(s) ==
  /\ strBuf' = [i \in 0 .. MaxLen |->
                  IF i \in len .. len + Len(s) - 1 THEN s[i - len + 1]
                  ELSE strBuf[i]]
  /\ len' = len + Len(s)

\* s is copied to where the text ends, and a 0 behind it.
Put(s) ==
  /\ strBuf' = [i \in 0 .. MaxLen |->
                  IF i \in len .. len + Len(s) - 1 THEN s[i - len + 1]
                  ELSE IF i = len + Len(s) THEN NUL ELSE strBuf[i]]
  /\ len' = len + Len(s)

Asks(s) == asked' = Take(asked \o s, MaxLen)

\* append(string_view); operator+= is the same.
AppendText(s) ==
  /\ Asks(s)
  /\ LET slen == IF Len(s) + len > MaxLen THEN MaxLen - len ELSE Len(s) IN
     IF slen <= 0 THEN UNCHANGED <<strBuf, len>> ELSE Put(Take(s, slen))

\* A mutation: the 0 has no room of its own.
AppendCharOneMore(c) ==
  /\ Asks(<<c>>)
  /\ IF len > MaxLen THEN UNCHANGED <<strBuf, len>> ELSE Put(<<c>>)

\* append(char).
AppendChar(c) ==
  /\ Asks(<<c>>)
  /\ IF len >= MaxLen THEN UNCHANGED <<strBuf, len>> ELSE Put(<<c>>)

\* operator=(string_view): clear(), then append().
Assign(s) ==
  /\ asked' = Take(s, MaxLen)
  /\ strBuf' = [i \in 0 .. MaxLen |->
                  IF i < Least(Len(s), MaxLen) THEN s[i + 1]
                  ELSE IF i = Least(Len(s), MaxLen) THEN NUL ELSE strBuf[i]]
  /\ len' = Least(Len(s), MaxLen)

\* / and % of C++, which round towards zero.
Quot(n) == IF n < 0 THEN -((-n) \div 10) ELSE n \div 10
Rem(n) == n - 10 * Quot(n)

\* The loop of lines 279-282: the digits of n, the last one first.
Backwards[n \in Int] ==
  <<Zero + Rem(n)>> \o IF Quot(n) = 0 THEN << >> ELSE Backwards[Quot(n)]

\* -n in a type whose least value is low.
Negated(n, low) == IF n = low THEN n ELSE -n

\* A mutation: the least value of the type is negated like all others.
TmpBufNoSpecialCase(int) ==
  IF int.n < 0
    THEN Backwards[Negated(int.n, int.low)] \o <<Minus>>
    ELSE Backwards[int.n]

\* The least value of a type has no positive counterpart in it: its last digit
\* is split off before the sign is changed.
TmpBuf(int) ==
  IF int.n >= 0 THEN Backwards[int.n]
  ELSE IF int.n = int.low
    THEN <<Zero - Rem(int.n)>> \o Backwards[-Quot(int.n)] \o <<Minus>>
    ELSE Backwards[Negated(int.n, int.low)] \o <<Minus>>

\* The decimal form of a number: that of its tens, and its units.
Numeral[n \in Nat] ==
  (IF n < 10 THEN << >> ELSE Numeral[n \div 10]) \o <<Zero + (n % 10)>>

Decimal(n) == IF n < 0 THEN <<Minus>> \o Numeral[-n] ELSE Numeral[n]

\* append(T) for integers: as much of tmpBuf as fits, from its end.
AppendInt(int) ==
  /\ Asks(Decimal(int.n))
  /\ LET tmp == TmpBuf(int)
         nBytes == Least(MaxLen - len, Len(tmp))
     IN Put([i \in 1 .. nBytes |-> tmp[Len(tmp) + 1 - i]])

Next ==
  \/ Clear
  \/ \E s \in Texts : AppendText(s) \/ Assign(s)
  \/ \E c \in Chars : AppendChar(c)
  \/ \E int \in Ints : AppendInt(int)

Spec == Init /\ [][Next]_vars

-----------------------------------------------------------------------------
(* Properties *)

\* The buffer as a string_view (util.h:293).
View == [i \in 1 .. len |-> strBuf[i - 1]]

\* Whatever is appended in whatever order, the buffer holds the beginning of
\* it: a text or number that does not fit is cut off at its end, and a number
\* is its decimal form, the least one of its type included (util.h:237-291).
HoldsBeginning == View = asked

\* The buffer read as a C string ends where the text ends (util.h:292).
EndsWithText == strBuf[len] = NUL /\ \A i \in 0 .. len - 1 : strBuf[i] # NUL
=============================================================================
