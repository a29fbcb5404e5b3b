-------------------------------- MODULE MCSBuf -------------------------------
(* SBuf checked by TLC.                                                     *)
EXTENDS SBuf

TextsDef == { << >>, <<97>>, <<97, 98, 97>>, <<98, 97, 98, 97, 98, 97>> }

\* Signed and unsigned numbers of 8 bits, and edges of 16.
IntsDef ==
  {[n |-> n, low |-> -128] : n \in {-128, -127, -100, -9, 0, 10, 127}}
    \cup {[n |-> n, low |-> 0] : n \in {0, 255}}
    \cup {[n |-> n, low |-> -32768] : n \in {-32768, -128, 32767}}
=============================================================================
