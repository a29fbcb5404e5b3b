------------------------------- MODULE MCDefer -------------------------------
(* Defer checked by TLC.  The cfgs give every constant its value.            *)
EXTENDS Defer, TLC

\* Guards are interchangeable, and so are the functions that throw, and those
\* that do not.
DeferSymmetry ==
  Permutations(Guards) \cup Permutations(Throwers) \cup Permutations(Funcs \ Throwers)
=============================================================================
