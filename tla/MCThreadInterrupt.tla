-------------------------- MODULE MCThreadInterrupt --------------------------
(* ThreadInterrupt checked by TLC.  The cfgs give every constant its value. *)
EXTENDS ThreadInterrupt
=============================================================================
