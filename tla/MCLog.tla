-------------------------------- MODULE MCLog --------------------------------
(* Log checked by TLC.  The cfgs give every constant its value.             *)
EXTENDS Log
=============================================================================
