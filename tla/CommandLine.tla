----------------------------- MODULE CommandLine -----------------------------
(***************************************************************************)
(* How the program reads its command line: argparse::ArgumentParser        *)
(* (src/src/argparse.hpp) set up with one positional argument of one or    *)
(* more ports and the flags -d, -h and -v (src/src/main.cpp:46-54).        *)
(*                                                                         *)
(* A word is a sequence of characters, for what the parser makes of a word *)
(* depends on them.  it is the parser's iterator, letters what is left of  *)
(* the compound word (-dh) it is in the middle of.  argv[0] is left out:   *)
(* the loop skips it.  The outcomes are those of CliUpnp's ParseArgs:      *)
(* accepted, refused (main() returns EXIT_FAILURE), exited (exit(0)).      *)
(***************************************************************************)
EXTENDS Integers, SequencesExt

CONSTANT ArgLists  \* the command lines, each a sequence of words

ASSUME CommandLineAssumption == \A args \in ArgLists : args \in Seq(Seq(STRING))

VARIABLES
  raw,        \* the command line
  arguments,  \* parse_args_internal's arguments, after preprocessing
  it,         \* the parser's place in arguments
  letters,    \* what is left of a compound word
  used,       \* the arguments whose m_is_used is set
  values,     \* m_values of "port"
  outcome

vars == <<raw, arguments, it, letters, used, values, outcome>>

UInt16Max == 65535
Error == -1

\* The flags, each with its m_names.
NamesOf ==
  [debug   |-> {<<"-", "d">>, <<"-", "-", "d", "e", "b", "u", "g">>},
   help    |-> {<<"-", "h">>, <<"-", "-", "h", "e", "l", "p">>},
   version |-> {<<"-", "v">>, <<"-", "-", "v", "e", "r", "s", "i", "o", "n">>}]

\* m_argument_map, the options in it.  Its entry "port" is never looked up
\* with success: only words that begin with '-' are.
Names ==
  [w \in UNION Range(NamesOf) |->
     CHOOSE flag \in DOMAIN NamesOf : w \in NamesOf[flag]]

Exiting == {"help", "version"}
Arguments == {"port", "debug"} \cup Exiting

\* nargs(at_least_one), for "port".  The flags take no values.
AtLeastOne(n) == n >= 1

TypeOK ==
  /\ raw \in ArgLists
  /\ arguments \in Seq(Seq(STRING))
  /\ it \in 1 .. Len(arguments) + 1
  /\ letters \in Seq(STRING)
  /\ used \subseteq Arguments
  /\ values \in Seq(0 .. UInt16Max)
  /\ outcome \in {"start", "parsing", "accepted", "refused", "exited"}

Init ==
  /\ raw \in ArgLists
  /\ arguments = << >>
  /\ it = 1
  /\ letters = << >>
  /\ used = {}
  /\ values = << >>
  /\ outcome = "start"

-----------------------------------------------------------------------------
(* Is a word positional?  Each operator stands for a label of               *)
(* is_decimal_literal and is given what is left of the word.                *)

Digits == <<"0", "1", "2", "3", "4", "5", "6", "7", "8", "9">>
IsDigit(c) == c \in ToSet(Digits)

StartsWith(s, C) == s # << >> /\ Head(s) \in C
StartsWithDigit(s) == StartsWith(s, ToSet(Digits))

\* consume_digits
DropDigits(s) ==
  LET i == SelectInSeq(s, LAMBDA c : ~IsDigit(c))
  IN  IF i = 0 THEN << >> ELSE SubSeq(s, i, Len(s))

PostE(s) ==
  LET t == IF StartsWith(s, {"+", "-"}) THEN Tail(s) ELSE s
  IN  StartsWithDigit(t) /\ DropDigits(t) = << >>

Exponent(s) == StartsWith(s, {"e", "E"}) /\ PostE(Tail(s))

ExponentPartOpt(s) == s = << >> \/ Exponent(s)

PostDecimalPoint(s) == StartsWithDigit(s) /\ ExponentPartOpt(DropDigits(s))

\* A mutation: there must be a digit after the point.
IntegerPartConsumedStrict(s) ==
  \/ StartsWith(s, {"."}) /\ PostDecimalPoint(Tail(s))
  \/ Exponent(s)

IntegerPartConsumed(s) ==
  \/ /\ StartsWith(s, {"."})
     /\ IF StartsWithDigit(Tail(s)) THEN PostDecimalPoint(Tail(s))
                                    ELSE ExponentPartOpt(Tail(s))
  \/ Exponent(s)

IsDecimalLiteral(s) ==
  \/ s = <<"0">>
  \/ StartsWith(s, {"0"}) /\ IntegerPartConsumed(DropDigits(Tail(s)))
  \/ /\ StartsWithDigit(s) /\ Head(s) # "0"
     /\ DropDigits(s) = << >> \/ IntegerPartConsumed(DropDigits(s))
  \/ StartsWith(s, {"."}) /\ PostDecimalPoint(Tail(s))

IsPositional(w) ==
  StartsWith(w, {"-"}) => w = <<"-">> \/ IsDecimalLiteral(Tail(w))

-----------------------------------------------------------------------------
(* preprocess_arguments: --name=value becomes two words *)

Split(w) ==
  LET pos  == SelectInSeq(w, LAMBDA c : c = "=")
      name == SubSeq(w, 1, pos - 1)
  IN  IF /\ w \notin DOMAIN Names
         /\ Len(w) > 1 /\ w[1] = "-" /\ w[2] = "-"
         /\ pos # 0
         /\ name \in DOMAIN Names
        THEN <<name, SubSeq(w, pos + 1, Len(w))>>
        ELSE <<w>>

Preprocess ==
  /\ outcome = "start"
  /\ outcome' = "parsing"
  /\ arguments' = FlattenSeq([i \in DOMAIN raw |-> Split(raw[i])])
  /\ UNCHANGED <<raw, it, letters, used, values>>

-----------------------------------------------------------------------------
(* The values: do_from_chars<uint16_t, 10>, which throws unless the whole    *)
(* word is a number in range *)

DigitValue(c) == (CHOOSE i \in DOMAIN Digits : Digits[i] = c) - 1

\* The number that digits write, whatever its size.
NumberOf(w) ==
  LET number[i \in 0 .. Len(w)] ==
        IF i = 0 THEN 0 ELSE 10 * number[i - 1] + DigitValue(w[i])
  IN  number[Len(w)]

AppendDigit(x, c) ==
  IF x = Error \/ 10 * x + DigitValue(c) > UInt16Max THEN Error
  ELSE 10 * x + DigitValue(c)

\* A mutation: result_out_of_range is no error.
FromCharsAnySize(w) ==
  IF w # << >> /\ \A i \in DOMAIN w : IsDigit(w[i]) THEN NumberOf(w) ELSE Error

FromChars(w) ==
  LET value[i \in 0 .. Len(w)] ==
        IF i = 0 THEN 0 ELSE AppendDigit(value[i - 1], w[i])
  IN  IF w # << >> /\ \A i \in DOMAIN w : IsDigit(w[i])
        THEN value[Len(w)] ELSE Error

-----------------------------------------------------------------------------
(* parse_args_internal *)

Parsing == outcome = "parsing"
AtWord == Parsing /\ letters = << >> /\ it <= Len(arguments)

Refuse == outcome' = "refused" /\ UNCHANGED <<used, values>>

\* Argument::consume for "port": all words up to the next option.  The first
\* one that is no number throws.
ConsumePorts ==
  LET next  == SelectInSubSeq(arguments, it, Len(arguments),
                              LAMBDA w : ~IsPositional(w))
      last  == IF next = 0 THEN Len(arguments) ELSE next - 1
      ports == [i \in 1 .. last - it + 1 |-> FromChars(arguments[it + i - 1])]
  IN  /\ it' = last + 1
      /\ \/ /\ \E i \in DOMAIN ports : ports[i] = Error
            /\ Refuse
         \/ /\ \A i \in DOMAIN ports : ports[i] # Error
            /\ values' = ports
            /\ used' = used \cup {"port"}
            /\ UNCHANGED outcome

\* A mutation: a flag given twice is not noticed.
ConsumeFlagAgain(a) ==
  /\ used' = used \cup {a}
  /\ outcome' = IF a \in Exiting THEN "exited" ELSE outcome
  /\ UNCHANGED values

\* Argument::consume for a flag, which takes no words.  The actions of --help
\* and --version call exit(0).
ConsumeFlag(a) ==
  \/ a \in used /\ Refuse
  \/ /\ a \notin used
     /\ used' = used \cup {a}
     /\ outcome' = IF a \in Exiting THEN "exited" ELSE outcome
     /\ UNCHANGED values

\* "port" is the only positional argument.
Positional ==
  /\ AtWord
  /\ IsPositional(arguments[it])
  /\ IF "port" \in used THEN Refuse /\ UNCHANGED it ELSE ConsumePorts
  /\ UNCHANGED <<raw, arguments, letters>>

AtOption == AtWord /\ ~IsPositional(arguments[it])

\* A mutation: the iterator stays on the flag.
FlagNoAdvance ==
  /\ AtOption
  /\ arguments[it] \in DOMAIN Names
  /\ outcome' = IF Names[arguments[it]] \in Exiting THEN "exited" ELSE outcome
  /\ UNCHANGED <<raw, arguments, it, letters, used, values>>

Flag ==
  /\ AtOption
  /\ arguments[it] \in DOMAIN Names
  /\ ConsumeFlag(Names[arguments[it]])
  /\ it' = it + 1
  /\ UNCHANGED <<raw, arguments, letters>>

\* '-' and then anything but '-': every character is taken for a flag.
IsCompound(w) == Len(w) > 1 /\ w[1] = "-" /\ w[2] # "-"

Compound ==
  /\ AtOption
  /\ arguments[it] \notin DOMAIN Names
  /\ IsCompound(arguments[it])
  /\ letters' = Tail(arguments[it])
  /\ it' = it + 1
  /\ UNCHANGED <<raw, arguments, used, values, outcome>>

Letter ==
  /\ Parsing /\ letters # << >>
  /\ LET flag == <<"-", Head(letters)>>
     IN  IF flag \in DOMAIN Names THEN ConsumeFlag(Names[flag]) ELSE Refuse
  /\ letters' = Tail(letters)
  /\ UNCHANGED <<raw, arguments, it>>

Unknown ==
  /\ AtOption
  /\ arguments[it] \notin DOMAIN Names
  /\ ~IsCompound(arguments[it])
  /\ Refuse
  /\ UNCHANGED <<raw, arguments, it, letters>>

\* The end of the loop, and validate() of every argument: "port" needs a value.
Validate ==
  /\ Parsing /\ letters = << >> /\ it > Len(arguments)
  /\ outcome' = IF AtLeastOne(Len(values)) THEN "accepted" ELSE "refused"
  /\ UNCHANGED <<raw, arguments, it, letters, used, values>>

Next == Preprocess \/ Positional \/ Flag \/ Compound \/ Letter \/ Unknown \/ Validate

Spec == Init /\ [][Next]_vars

\* It is sequential code: it goes on.
FairSpec == Spec /\ WF_vars(Next)

\* parser.get<PortVec>("port"), and parser.get<bool>("-d"): a flag has its
\* implicit value, or else its default.
GetPorts == values
GetDebug == "debug" \in used

-----------------------------------------------------------------------------
(* The grammar in the comments of argparse.hpp:1029-1055 and 1173-1179 *)

IsDigitSequence(s) == s # << >> /\ \A i \in DOMAIN s : IsDigit(s[i])

IsExponentPart(s) ==
  /\ StartsWith(s, {"e", "E"})
  /\ \/ IsDigitSequence(Tail(s))
     \/ StartsWith(Tail(s), {"+", "-"}) /\ IsDigitSequence(Tail(Tail(s)))

\* Is s an A followed by a B, for some split?
IsConcat(s, A(_), B(_)) ==
  \E i \in 0 .. Len(s) : A(SubSeq(s, 1, i)) /\ B(SubSeq(s, i + 1, Len(s)))

IsOptExponentPart(s) == s = << >> \/ IsExponentPart(s)

IsFractionalPart(s) ==
  StartsWith(s, {"."}) /\ IsConcat(Tail(s), IsDigitSequence, IsOptExponentPart)

IsPointAndExponent(s) == StartsWith(s, {"."}) /\ IsOptExponentPart(Tail(s))

IsGrammarLiteral(s) ==
  \/ s = <<"0">>
  \/ IsDigitSequence(s) /\ Head(s) # "0"
  \/ IsConcat(s, IsDigitSequence, IsFractionalPart)
  \/ IsFractionalPart(s)
  \/ IsConcat(s, IsDigitSequence, IsPointAndExponent)
  \/ IsConcat(s, IsDigitSequence, IsExponentPart)

IsGrammarPositional(w) ==
  \/ w = << >>
  \/ w = <<"-">>
  \/ Head(w) = "-" /\ IsGrammarLiteral(Tail(w))
  \/ Head(w) # "-"

-----------------------------------------------------------------------------
(* What a command line means, without a parser *)

WordsOf(w) ==
  IF \E name \in DOMAIN Names : Len(name) > 2 /\ IsPrefix(name \o <<"=">>, w)
    THEN LET name == CHOOSE n \in DOMAIN Names :
                       Len(n) > 2 /\ IsPrefix(n \o <<"=">>, w)
         IN  <<name, SubSeq(w, Len(name) + 2, Len(w))>>
    ELSE <<w>>

FlagItem(w) ==
  IF w \in DOMAIN Names THEN [kind |-> "flag", is |-> Names[w]]
                        ELSE [kind |-> "unknown", is |-> w]

\* What a word asks for: a port, or a flag for each of its letters.
ItemsOf(w) ==
  IF IsGrammarPositional(w) THEN <<[kind |-> "port", is |-> w]>>
  ELSE IF w \in DOMAIN Names \/ w[2] = "-" THEN <<FlagItem(w)>>
  ELSE [i \in 1 .. Len(w) - 1 |-> FlagItem(<<"-", w[i + 1]>>)]

IsPortNumber(w) == IsDigitSequence(w) /\ NumberOf(w) <= UInt16Max

\* The first item that cannot be, or that asks for help or the version,
\* decides.  Without one it takes a port: all ports stand together.
Meaning(args) ==
  LET Flat(F(_), s) == FlattenSeq([i \in DOMAIN s |-> F(s[i])])
      items   == Flat(ItemsOf, Flat(WordsOf, args))
      Ports   == {i \in DOMAIN items : items[i].kind = "port"}
      Flags   == {i \in DOMAIN items : items[i].kind = "flag"}
      Asks(a) == {i \in Flags : items[i].is = a}
      Bad     == {i \in DOMAIN items :
                    \/ items[i].kind = "unknown"
                    \/ i \in Flags /\ \E j \in Asks(items[i].is) : j < i
                    \/ i \in Ports /\ ~IsPortNumber(items[i].is)
                    \/ i \in Ports /\ \E j \in Ports : j < i /\ ~(j .. i \subseteq Ports)}
      Exit    == {i \in Flags : items[i].is \in Exiting} \ Bad
      IsFirstOf(S) == \E i \in S : \A j \in Bad \cup Exit : i <= j
  IN  [outcome |-> IF IsFirstOf(Bad) THEN "refused"
                   ELSE IF IsFirstOf(Exit) THEN "exited"
                   ELSE IF Ports = {} THEN "refused" ELSE "accepted",
       ports   |-> {NumberOf(items[i].is) : i \in Ports \ Bad},
       debug   |-> Asks("debug") # {}]

-----------------------------------------------------------------------------
(* Properties *)

Done == outcome \in {"accepted", "refused", "exited"}

\* The automaton of gotos accepts the language that the comments above it
\* describe: a negative number is a value and not an option.
PositionalAsDocumented ==
  outcome = "start" =>
    \A i \in DOMAIN raw : IsPositional(raw[i]) <=> IsGrammarPositional(raw[i])

\* Whatever the words and their order, the program accepts, refuses or exits
\* as the command line means, with the ports and the log level it names.
OutcomeAsMeant ==
  Done => LET meaning == Meaning(raw)
          IN  /\ outcome = meaning.outcome
              /\ outcome = "accepted" =>
                   /\ ToSet(GetPorts) = meaning.ports
                   /\ GetDebug <=> meaning.debug

\* Parsing comes to an end (argparse.hpp:1740: a loop that only ends when the
\* iterator gets there).
AlwaysEnds == <>Done
=============================================================================
