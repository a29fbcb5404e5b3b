-------------------------- MODULE InterruptibleSleep --------------------------
(***************************************************************************)
(* What ThreadInterrupt promises its users (src/src/threadinterrupt.h:9-13 *)
(* and 25-27), without the mutex and the condition variable it is built    *)
(* from: a flag that latches, sleeps that end when the flag is set or when *)
(* their time is up, and a result that tells which of the two it was.      *)
(*                                                                         *)
(* Reset is only allowed while nobody sleeps.  The header does not say so; *)
(* it is the discipline under which the promise can be kept, and the one   *)
(* UpnpMgr follows (it resets after it has joined its thread).             *)
(***************************************************************************)
CONSTANT Threads

VARIABLES
  flag,    \* the latch: TRUE from Interrupt until Reset
  sleep,   \* sleep[t]: "awake", or asleep with ("timed") or without a timeout
  result   \* result[t]: what t's last sleep returned

sleepVars == <<flag, sleep, result>>

Init ==
  /\ flag = FALSE
  /\ sleep = [t \in Threads |-> "awake"]
  /\ result = [t \in Threads |-> FALSE]

Interrupt ==
  /\ flag' = TRUE
  /\ UNCHANGED <<sleep, result>>

Reset ==
  /\ \A t \in Threads : sleep[t] = "awake"
  /\ flag' = FALSE
  /\ UNCHANGED <<sleep, result>>

FallAsleep(t) ==
  /\ sleep[t] = "awake"
  /\ sleep' \in {[sleep EXCEPT ![t] = kind] : kind \in {"timed", "untimed"}}
  /\ UNCHANGED <<flag, result>>

\* A sleep with no timeout ends only when it is interrupted; one that ends
\* reports whether it was.
WakeUp(t) ==
  /\ \/ sleep[t] = "timed"
     \/ sleep[t] = "untimed" /\ flag
  /\ sleep' = [sleep EXCEPT ![t] = "awake"]
  /\ result' = [result EXCEPT ![t] = flag]
  /\ UNCHANGED flag

Next ==
  \/ Interrupt
  \/ Reset
  \/ \E t \in Threads : FallAsleep(t) \/ WakeUp(t)

Spec == Init /\ [][Next]_sleepVars
=============================================================================
