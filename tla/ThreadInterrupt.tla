--------------------------- MODULE ThreadInterrupt ---------------------------
(***************************************************************************)
(* ThreadInterrupt (src/src/threadinterrupt.{h,cpp}): the interruptible    *)
(* sleep of the UPnP thread, as it is built from an atomic flag, a mutex   *)
(* and a condition variable.  Any number of threads use one object.  Every *)
(* step is one atomic access: taking the mutex, reading or writing the     *)
(* flag, blocking on the condition variable, notifying.                    *)
(*                                                                         *)
(* The C++ runtime's condition variable is modelled from the way wait()    *)
(* uses it: blocking releases the mutex in the same step, notify_all wakes *)
(* every blocked thread, a blocked thread may also wake spuriously or time *)
(* out, and a thread that wakes has to take the mutex again.               *)
(***************************************************************************)
EXTENDS Naturals

CONSTANTS
  Threads,          \* the threads that use the object
  NoThread,         \* "the mutex is free"
  ConcurrentReset,  \* may reset() run while another thread is inside wait()?
  MaxCalls          \* bound: calls of operator(), reset() and wait() per thread

ASSUME ThreadInterruptAssumption ==
  /\ NoThread \notin Threads
  /\ ConcurrentReset \in BOOLEAN
  /\ MaxCalls \in Nat

VARIABLES
  flag,    \* ThreadInterrupt::flag
  mut,     \* ThreadInterrupt::mut, the thread that holds it or NoThread
  pc,      \* pc[t]: where t is inside operator() or wait()
  timed,   \* timed[t]: t's current or last wait() was given a timeout
  result,  \* result[t]: what t's last wait() returned
  calls    \* calls[t]: calls t has made so far

vars == <<flag, mut, pc, timed, result, calls>>

InterruptPcs == {"i_lock", "i_store", "i_notify"}
WaitPcs == {"w_lock", "w_first", "w_loop", "w_block", "w_blocked",
            "w_relock", "w_timeout", "w_last"}

\* The locations at which the thread holds the mutex.
HoldingPcs == {"i_store", "w_first", "w_loop", "w_block", "w_last"}

InWait(t) == pc[t] \in WaitPcs

\* The locations marked as holding the mutex are those of its only holder.
MutexHeld == \A t \in Threads : pc[t] \in HoldingPcs <=> mut = t

\* The types, and the mutex held exactly inside its blocks
\* (threadinterrupt.cpp:8-11, 17).
TypeOK ==
  /\ flag \in BOOLEAN
  /\ mut \in Threads \cup {NoThread}
  /\ pc \in [Threads -> {"idle"} \cup InterruptPcs \cup WaitPcs]
  /\ timed \in [Threads -> BOOLEAN]
  /\ result \in [Threads -> BOOLEAN]
  /\ calls \in [Threads -> 0 .. MaxCalls]
  /\ MutexHeld

Init ==
  /\ flag = FALSE
  /\ mut = NoThread
  /\ pc = [t \in Threads |-> "idle"]
  /\ timed = [t \in Threads |-> FALSE]
  /\ result = [t \in Threads |-> FALSE]
  /\ calls = [t \in Threads |-> 0]

-----------------------------------------------------------------------------
(* Steps every operation is made of *)

Goto(t, from, to) ==
  /\ pc[t] = from
  /\ pc' = [pc EXCEPT ![t] = to]

Enter(t, first) ==
  /\ calls[t] < MaxCalls
  /\ calls' = [calls EXCEPT ![t] = @ + 1]
  /\ Goto(t, "idle", first)

Lock(t) == mut = NoThread /\ mut' = t
Unlock(t) == mut' = NoThread

-----------------------------------------------------------------------------
(* operator(): set the flag under the mutex, notify after releasing it *)

CallInterrupt(t) ==
  /\ Enter(t, "i_lock")
  /\ UNCHANGED <<flag, mut, timed, result>>

\* A mutation: the flag is stored without taking the mutex.
InterruptLockNoMutex(t) ==
  /\ Goto(t, "i_lock", "i_notify")
  /\ flag' = TRUE
  /\ UNCHANGED <<mut, timed, result, calls>>

InterruptLock(t) ==
  /\ Goto(t, "i_lock", "i_store")
  /\ Lock(t)
  /\ UNCHANGED <<flag, timed, result, calls>>

\* A mutation: notify_all is forgotten.
InterruptStoreNoNotify(t) ==
  /\ Goto(t, "i_store", "idle")
  /\ flag' = TRUE
  /\ Unlock(t)
  /\ UNCHANGED <<timed, result, calls>>

\* A mutation: the mutex stays locked when the block is left.
InterruptStoreKeepsMutex(t) ==
  /\ Goto(t, "i_store", "i_notify")
  /\ flag' = TRUE
  /\ UNCHANGED <<mut, timed, result, calls>>

InterruptStore(t) ==
  /\ Goto(t, "i_store", "i_notify")
  /\ flag' = TRUE
  /\ Unlock(t)
  /\ UNCHANGED <<timed, result, calls>>

InterruptNotify(t) ==
  /\ pc[t] = "i_notify"
  /\ pc' = [u \in Threads |->
              IF u = t THEN "idle"
              ELSE IF pc[u] = "w_blocked" THEN "w_relock" ELSE pc[u]]
  /\ UNCHANGED <<flag, mut, timed, result, calls>>

-----------------------------------------------------------------------------
(* reset(): a single atomic store, without the mutex *)

\* A mutation: reset() while another thread may be inside wait().
ResetAnyTime(t) ==
  /\ Enter(t, "idle")
  /\ flag' = FALSE
  /\ UNCHANGED <<mut, timed, result>>

\* The class lets any thread call it at any time.  Without ConcurrentReset
\* its callers keep the discipline of UpnpMgr.
Reset(t) ==
  /\ ConcurrentReset \/ \A u \in Threads : ~InWait(u)
  /\ Enter(t, "idle")
  /\ flag' = FALSE
  /\ UNCHANGED <<mut, timed, result>>

-----------------------------------------------------------------------------
(* wait() *)

CallWait(t, withTimeout) ==
  /\ Enter(t, "w_lock")
  /\ timed' = [timed EXCEPT ![t] = withTimeout]
  /\ UNCHANGED <<flag, mut, result>>

WaitLock(t) ==
  /\ Goto(t, "w_lock", "w_first")
  /\ Lock(t)
  /\ UNCHANGED <<flag, timed, result, calls>>

\* Leaving wait() from a location where the mutex is held.
Return(t, from, value) ==
  /\ Goto(t, from, "idle")
  /\ result' = [result EXCEPT ![t] = value]
  /\ Unlock(t)
  /\ UNCHANGED <<flag, timed, calls>>

\* if (predicate()) return true
WaitFirst(t) ==
  \/ flag /\ Return(t, "w_first", TRUE)
  \/ /\ ~flag
     /\ Goto(t, "w_first", "w_loop")
     /\ UNCHANGED <<flag, mut, timed, result, calls>>

\* The loop inside cond.wait and cond.wait_for: while (!predicate()) block.
\* With a timeout the loop's end is the return of true; without one the code
\* reads the flag once more.
WaitLoop(t) ==
  \/ flag /\ timed[t] /\ Return(t, "w_loop", TRUE)
  \/ /\ flag /\ ~timed[t]
     /\ Goto(t, "w_loop", "w_last")
     /\ UNCHANGED <<flag, mut, timed, result, calls>>
  \/ /\ ~flag
     /\ Goto(t, "w_loop", "w_block")
     /\ UNCHANGED <<flag, mut, timed, result, calls>>

WaitBlock(t) ==
  /\ Goto(t, "w_block", "w_blocked")
  /\ Unlock(t)
  /\ UNCHANGED <<flag, timed, result, calls>>

WaitSpurious(t) ==
  /\ Goto(t, "w_blocked", "w_relock")
  /\ UNCHANGED <<flag, mut, timed, result, calls>>

WaitTimeout(t) ==
  /\ timed[t]
  /\ Goto(t, "w_blocked", "w_timeout")
  /\ UNCHANGED <<flag, mut, timed, result, calls>>

\* After a timeout the loop ends whatever the flag says, and wait_for returns
\* a last reading of it.
WaitRelock(t) ==
  /\ Goto(t, "w_relock", "w_loop") \/ Goto(t, "w_timeout", "w_last")
  /\ Lock(t)
  /\ UNCHANGED <<flag, timed, result, calls>>

WaitLast(t) == Return(t, "w_last", flag)

-----------------------------------------------------------------------------

\* The steps a thread takes by itself once it is inside a call, all but the
\* spurious wake-up and the timeout, which may or may not come.
Progress(t) ==
  \/ InterruptLock(t) \/ InterruptStore(t) \/ InterruptNotify(t)
  \/ WaitLock(t) \/ WaitFirst(t) \/ WaitLoop(t) \/ WaitBlock(t)
  \/ WaitRelock(t) \/ WaitLast(t)

Next ==
  \E t \in Threads :
    \/ CallInterrupt(t)
    \/ Reset(t)
    \/ \E withTimeout \in BOOLEAN : CallWait(t, withTimeout)
    \/ WaitSpurious(t)
    \/ WaitTimeout(t)
    \/ Progress(t)

Spec == Init /\ [][Next]_vars

\* The scheduler runs every thread that can take a step.  Nothing is assumed
\* of calls, spurious wake-ups and timeouts.
FairSpec == Spec /\ \A t \in Threads : WF_vars(Progress(t))

-----------------------------------------------------------------------------
(* Properties *)

\* A thread that is about to block has seen the flag clear, and nobody can
\* set it before the thread is on the condition variable.
BlockSawClear == \A t \in Threads : pc[t] = "w_block" => ~flag

\* No wake-up is lost (threadinterrupt.cpp:7-13 against 15-26): a thread is
\* never left blocked with the flag set unless a notify_all is still to come.
\* In the other order, a 20 minute sleep would outlast an interrupt.
NoLostWakeup ==
  \A t \in Threads :
    pc[t] = "w_blocked" /\ flag => \E u \in Threads : pc[u] = "i_notify"

\* The inductive invariant behind NoLostWakeup.
IInv == TypeOK /\ BlockSawClear /\ NoLostWakeup

\* With the discipline on reset(), a thread inside wait() while the flag is
\* set, at whatever point of wait() it is, gets out of it.
InterruptEndsSleep ==
  \A t \in Threads : (flag /\ InWait(t)) ~> ~InWait(t)

\* The object seen by its users, each wait() one sleep from call to return.
SleepOf(t) ==
  IF ~InWait(t) THEN "awake" ELSE IF timed[t] THEN "timed" ELSE "untimed"

Sleep == INSTANCE InterruptibleSleep WITH
  sleep <- [t \in Threads |-> SleepOf(t)]

\* Used with the discipline on reset(), the code implements the promise, and
\* threadinterrupt.cpp:24 is right about the last line of an untimed wait():
\* it "should always be true here".
KeepsPromise == Sleep!Spec
=============================================================================
