------------------------------ MODULE MCUpnpMgr ------------------------------
(* UpnpMgr checked by TLC.  The cfgs give every other constant its value.   *)
EXTENDS UpnpMgr

\* An empty vector, one port, and two that are not sorted and not unique.
PortVecsDef == {<< >>, <<80>>, <<81, 80, 81>>}

\* The runs in which the number of ports is what matters.
TwoPorts == {<<80, 81>>}
=============================================================================
