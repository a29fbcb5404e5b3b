------------------------------ MODULE MCCliUpnp ------------------------------
(* CliUpnp checked by TLC.  The cfgs give every other constant its value.   *)
EXTENDS CliUpnp

OnePort == {<<80>>}
TwoPorts == {<<81, 80, 81>>}

TwoSignals == <<"SIGINT", "SIGTERM">>
=============================================================================
