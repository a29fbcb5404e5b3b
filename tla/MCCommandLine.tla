---------------------------- MODULE MCCommandLine ----------------------------
(* CommandLine checked by TLC.                                              *)
EXTENDS CommandLine

\* Words the parser tells apart: values in and out of range, flags, compounds,
\* split words and words that are none of these.
Words ==
  { << >>, <<"-">>, <<"8", "0">>, <<"6", "5", "5", "3", "5">>,
    <<"6", "5", "5", "3", "6">>, <<"8", "x">>, <<"-", "5">>,
    <<"-", "d">>, <<"-", "-", "d", "e", "b", "u", "g">>, <<"-", "h">>,
    <<"-", "-", "v", "e", "r", "s", "i", "o", "n">>,
    <<"-", "d", "h">>, <<"-", "d", "d">>, <<"-", "d", "8">>, <<"-", "x">>,
    <<"-", "-">>, <<"-", "-", "x", "=", "1">>,
    <<"-", "-", "d", "e", "b", "u", "g", "=", "2", "2">>,
    <<"-", "-", "d", "e", "b", "u", "g", "=">> }

\* Every word of '-' and up to five of the characters of literals.
Literals == {<<"-">> \o w : w \in BoundedSeq({"0", "1", ".", "e", "-"}, 5)}

Lists == BoundedSeq(Words, 3) \cup {<<w>> : w \in Literals}
=============================================================================
