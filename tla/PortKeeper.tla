----------------------------- MODULE PortKeeper -----------------------------
(***************************************************************************)
(* What cliupnp promises the one who runs it (src/README.md:21-23).  It    *)
(* opens ports when it has found a router, pass by pass.  From the moment  *)
(* its UPnP thread is told to stop it begins no pass, and at most finishes *)
(* the one that is under way, each of its ports once; it opens none after  *)
(* it has begun to close them, and ends with none open.  Its exit status   *)
(* says whether it found a router, or what kept it from looking for one.   *)
(*                                                                         *)
(*   reading --> preparing --> probing ----> keeping                       *)
(*                                | told        | told                     *)
(*                                V             V                          *)
(*                             leaving ----> closing --> ended             *)
(*                                                                         *)
(* and failed, from probing and leaving, where there is no router.         *)
(* Threads, signals, retries and the router's moods are left to CliUpnp.   *)
(***************************************************************************)
CONSTANT Ports

VARIABLES
  phase,   \* a name from the diagram
  due,     \* the ports that the pass under way has yet to visit
  opened,  \* the ports the router forwards on our behalf
  status   \* how the process ended, "none" before it did

keeperVars == <<phase, due, opened, status>>

Init ==
  /\ phase = "reading"
  /\ due = {}
  /\ opened = {}
  /\ status = "none"

Goes(from, to) ==
  /\ phase = from
  /\ phase' = to
  /\ UNCHANGED <<due, opened, status>>

\* Whatever ends the process, it ends with no port open or about to be opened.
Ends(from, how) ==
  /\ phase = from
  /\ due = {} /\ opened = {}
  /\ phase' = "ended"
  /\ status' = how
  /\ UNCHANGED <<due, opened>>

\* The arguments name ports, ask for the usage or the version, or are refused.
Accept == Goes("reading", "preparing")
ShowUsage == Ends("reading", "success")
Refuse == Ends("reading", "failure")

\* There is no network, no pipe or no thread to be had.
CannotStart == Ends("preparing", "failure") \/ Ends("preparing", "aborted")

Launch == Goes("preparing", "probing")

\* A router is found, whether or not the thread has been told to stop.
GetReady == Goes("probing", "keeping") \/ Goes("leaving", "closing")

\* There is none, which ends the program with an error.
Fail == Goes("probing", "failed") \/ Goes("leaving", "failed")
EndFailed == Ends("failed", "failure")

\* The thread is told to stop.
Stop == Goes("probing", "leaving") \/ Goes("keeping", "closing")

\* Only a thread that has not been told to stop begins a pass over its ports.
BeginPass ==
  /\ phase = "keeping"
  /\ due = {}
  /\ due' \in SUBSET Ports
  /\ UNCHANGED <<phase, opened, status>>

Open(p) ==
  /\ phase \in {"keeping", "closing"}
  /\ p \in due
  /\ due' = due \ {p}
  /\ opened' = opened \cup {p}
  /\ UNCHANGED <<phase, status>>

\* A port is refused, or the rest of the pass is not made.
Skip ==
  /\ phase \in {"keeping", "closing"}
  /\ due' \in SUBSET due
  /\ UNCHANGED <<phase, opened, status>>

\* Ports are closed when no more will be opened.
Close(p) ==
  /\ phase = "closing"
  /\ due = {}
  /\ opened' = opened \ {p}
  /\ UNCHANGED <<phase, due, status>>

End == Ends("closing", "success")

\* A signal may kill the process where it has no handler yet, or none any more.
Kill ==
  \E from \in {"reading", "preparing", "closing", "failed"} : Ends(from, "killed")

\* The router is restarted.
LoseAll ==
  /\ opened' = {}
  /\ UNCHANGED <<phase, due, status>>

Next ==
  \/ Accept \/ ShowUsage \/ Refuse \/ CannotStart \/ Launch
  \/ GetReady \/ Fail \/ EndFailed \/ Stop
  \/ BeginPass \/ Skip \/ End \/ Kill \/ LoseAll
  \/ \E p \in Ports : Open(p) \/ Close(p)

Spec == Init /\ [][Next]_keeperVars
=============================================================================
