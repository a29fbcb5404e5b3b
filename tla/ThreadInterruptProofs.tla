------------------------ MODULE ThreadInterruptProofs ------------------------
(***************************************************************************)
(* ThreadInterrupt, for any number of threads and calls.  NoLostWakeup is  *)
(* not inductive: whether a thread that blocks is owed a notification      *)
(* depends on what it saw before it blocked (BlockSawClear), and that      *)
(* nobody set the flag since depends on who holds the mutex (MutexHeld).   *)
(***************************************************************************)
EXTENDS ThreadInterrupt, TLAPS

\* A new object, with no call under way.
LEMMA InitIInv == Init => IInv
<1> SUFFICES ASSUME Init PROVE IInv
  OBVIOUS
<1> USE ThreadInterruptAssumption DEF ThreadInterruptAssumption, Init
<1>1. MutexHeld
  BY DEF MutexHeld, HoldingPcs
<1>2. TypeOK
  <2>1. pc \in [Threads -> {"idle"} \cup InterruptPcs \cup WaitPcs]
    OBVIOUS
  <2>2. timed \in [Threads -> BOOLEAN] /\ result \in [Threads -> BOOLEAN]
    OBVIOUS
  <2>3. calls \in [Threads -> 0 .. MaxCalls]
    OBVIOUS
  <2> QED
    BY <1>1, <2>1, <2>2, <2>3 DEF TypeOK
<1>3. BlockSawClear /\ NoLostWakeup
  BY DEF BlockSawClear, NoLostWakeup
<1> QED
  BY <1>2, <1>3 DEF IInv

\* Every step but reset() is a thread t's move from one location to another;
\* for each kind of step, what t does to the mutex and to the flag.
LEMMA StepIInv == IInv /\ [Next]_vars => IInv'
<1> SUFFICES ASSUME IInv, [Next]_vars PROVE IInv'
  OBVIOUS
<1> USE ThreadInterruptAssumption
        DEF ThreadInterruptAssumption, IInv, TypeOK, MutexHeld, BlockSawClear, NoLostWakeup, HoldingPcs,
            InterruptPcs, WaitPcs, Goto, Enter, Lock, Unlock
<1>1. ASSUME NEW t \in Threads, CallInterrupt(t) PROVE IInv'
  BY <1>1 DEF CallInterrupt
<1>2. ASSUME NEW t \in Threads, Reset(t) PROVE IInv'
  <2>1. TypeOK'
    <3>1. flag' = FALSE /\ UNCHANGED <<mut, timed, result>>
      BY <1>2 DEF Reset
    <3>2. /\ pc' = [pc EXCEPT ![t] = "idle"]
          /\ calls[t] < MaxCalls
          /\ calls' = [calls EXCEPT ![t] = calls[t] + 1]
      BY <1>2 DEF Reset
    <3>3. flag' \in BOOLEAN
      BY <3>1
    <3>4. pc' \in [Threads -> {"idle"} \cup InterruptPcs \cup WaitPcs]
      BY <3>2
    <3>5. calls' \in [Threads -> 0 .. MaxCalls]
      BY <3>2
    <3>6. MutexHeld'
      BY <1>2 DEF Reset
    <3> QED
      BY <3>1, <3>3, <3>4, <3>5, <3>6
  <2>2. BlockSawClear'
    BY <1>2 DEF Reset
  <2>3. NoLostWakeup'
    BY <1>2 DEF Reset
  <2> QED
    BY <2>1, <2>2, <2>3
<1>3. ASSUME NEW t \in Threads, NEW b \in BOOLEAN, CallWait(t, b) PROVE IInv'
  BY <1>3 DEF CallWait
<1>4. ASSUME NEW t \in Threads, WaitSpurious(t) PROVE IInv'
  BY <1>4 DEF WaitSpurious
<1>5. ASSUME NEW t \in Threads, WaitTimeout(t) PROVE IInv'
  BY <1>5 DEF WaitTimeout
<1>6. ASSUME NEW t \in Threads, InterruptLock(t) PROVE IInv'
  BY <1>6 DEF InterruptLock
<1>7. ASSUME NEW t \in Threads, InterruptStore(t) PROVE IInv'
  BY <1>7 DEF InterruptStore
<1>8. ASSUME NEW t \in Threads, InterruptNotify(t) PROVE IInv'
  BY <1>8 DEF InterruptNotify
<1>9. ASSUME NEW t \in Threads, WaitLock(t) PROVE IInv'
  BY <1>9 DEF WaitLock
<1>10. ASSUME NEW t \in Threads, WaitFirst(t) PROVE IInv'
  <2>1. TypeOK'
    BY <1>10 DEF WaitFirst, Return
  <2>2. BlockSawClear'
    BY <1>10 DEF WaitFirst, Return
  <2>3. NoLostWakeup'
    BY <1>10 DEF WaitFirst, Return
  <2> QED
    BY <2>1, <2>2, <2>3
<1>11. ASSUME NEW t \in Threads, WaitLoop(t) PROVE IInv'
  <2>1. TypeOK'
    BY <1>11 DEF WaitLoop, Return
  <2>2. BlockSawClear'
    BY <1>11 DEF WaitLoop, Return
  <2>3. NoLostWakeup'
    BY <1>11 DEF WaitLoop, Return
  <2> QED
    BY <2>1, <2>2, <2>3
<1>12. ASSUME NEW t \in Threads, WaitBlock(t) PROVE IInv'
  <2>1. TypeOK'
    BY <1>12 DEF WaitBlock
  <2>2. BlockSawClear'
    BY <1>12 DEF WaitBlock
  <2>3. NoLostWakeup'
    BY <1>12 DEF WaitBlock
  <2> QED
    BY <2>1, <2>2, <2>3
<1>13. ASSUME NEW t \in Threads, WaitRelock(t) PROVE IInv'
  BY <1>13 DEF WaitRelock
<1>14. ASSUME NEW t \in Threads, WaitLast(t) PROVE IInv'
  BY <1>14 DEF WaitLast, Return
<1>15. CASE UNCHANGED vars
  BY <1>15 DEF vars
<1> QED
  BY <1>1, <1>2, <1>3, <1>4, <1>5, <1>6, <1>7, <1>8, <1>9, <1>10, <1>11,
     <1>12, <1>13, <1>14, <1>15 DEF Next, Progress

\* The invariant holds in every behaviour.
LEMMA Invariance == Spec => []IInv
  BY InitIInv, StepIInv, PTL DEF Spec

\* The type invariant of the object (threadinterrupt.h:14-17).
THEOREM TypeCorrect == Spec => []TypeOK
  BY Invariance, PTL DEF IInv

\* However many threads interrupt, reset and wait, no thread is left blocked
\* with the flag set and no notify_all to come (threadinterrupt.cpp:7-26).
THEOREM WakeupsNotLost == Spec => []NoLostWakeup
  BY Invariance, PTL DEF IInv

-----------------------------------------------------------------------------
(* The implementation of InterruptibleSleep *)

\* What the last line of wait() may rely on when nobody resets the flag under
\* a running wait(): a thread gets there with the flag set or by a timeout.
LastInv ==
  \A t \in Threads :
    /\ pc[t] = "w_timeout" => timed[t]
    /\ pc[t] = "w_last" => timed[t] \/ flag

\* Where reset() keeps out of running waits, an untimed wait reaches its
\* last reading only under a set flag.
LEMMA LastInvariance == ASSUME ~ConcurrentReset PROVE Spec => []LastInv
<1>1. Init => LastInv
  BY DEF Init, LastInv
<1>2. TypeOK /\ LastInv /\ [Next]_vars => LastInv'
  <2> SUFFICES ASSUME TypeOK, LastInv, [Next]_vars PROVE LastInv'
    OBVIOUS
  <2> USE DEF TypeOK, LastInv, InWait, InterruptPcs, WaitPcs, Goto, Enter
  <2>1. ASSUME NEW t \in Threads, CallInterrupt(t) PROVE LastInv'
    BY <2>1 DEF CallInterrupt
  <2>2. ASSUME NEW t \in Threads, Reset(t) PROVE LastInv'
    BY <2>2 DEF Reset
  <2>3. ASSUME NEW t \in Threads, NEW b \in BOOLEAN, CallWait(t, b) PROVE LastInv'
    BY <2>3 DEF CallWait
  <2>4. ASSUME NEW t \in Threads, WaitSpurious(t) PROVE LastInv'
    BY <2>4 DEF WaitSpurious
  <2>5. ASSUME NEW t \in Threads, WaitTimeout(t) PROVE LastInv'
    BY <2>5 DEF WaitTimeout
  <2>6. ASSUME NEW t \in Threads, InterruptLock(t) PROVE LastInv'
    BY <2>6 DEF InterruptLock
  <2>7. ASSUME NEW t \in Threads, InterruptStore(t) PROVE LastInv'
    BY <2>7 DEF InterruptStore
  <2>8. ASSUME NEW t \in Threads, InterruptNotify(t) PROVE LastInv'
    BY <2>8 DEF InterruptNotify
  <2>9. ASSUME NEW t \in Threads, WaitLock(t) PROVE LastInv'
    BY <2>9 DEF WaitLock
  <2>10. ASSUME NEW t \in Threads, WaitFirst(t) PROVE LastInv'
    BY <2>10 DEF WaitFirst, Return
  <2>11. ASSUME NEW t \in Threads, WaitLoop(t) PROVE LastInv'
    BY <2>11 DEF WaitLoop, Return
  <2>12. ASSUME NEW t \in Threads, WaitBlock(t) PROVE LastInv'
    BY <2>12 DEF WaitBlock
  <2>13. ASSUME NEW t \in Threads, WaitRelock(t) PROVE LastInv'
    BY <2>13 DEF WaitRelock
  <2>14. ASSUME NEW t \in Threads, WaitLast(t) PROVE LastInv'
    BY <2>14 DEF WaitLast, Return
  <2>15. CASE UNCHANGED vars
    BY <2>15 DEF vars
  <2> QED
    BY <2>1, <2>2, <2>3, <2>4, <2>5, <2>6, <2>7, <2>8, <2>9, <2>10, <2>11,
       <2>12, <2>13, <2>14, <2>15 DEF Next, Progress
<1> QED
  BY <1>1, <1>2, TypeCorrect, PTL DEF Spec

\* A step within a call is none for the users of the object.
Hidden == UNCHANGED <<flag, [t \in Threads |-> SleepOf(t)], result>>

\* Every step of a call is one of InterruptibleSleep, or changes nothing there.
LEMMA StepKeepsPromise ==
  ASSUME ~ConcurrentReset, TypeOK, LastInv, Next
  PROVE  Sleep!Next \/ Hidden
<1> USE DEF TypeOK, InWait, InterruptPcs, WaitPcs, Goto, Enter, SleepOf, Hidden
<1>1. ASSUME NEW t \in Threads, CallInterrupt(t) PROVE Hidden
  BY <1>1 DEF CallInterrupt
<1>2. ASSUME NEW t \in Threads, Reset(t) PROVE Sleep!Reset
  BY <1>2 DEF Reset, Sleep!Reset
<1>3. ASSUME NEW t \in Threads, NEW b \in BOOLEAN, CallWait(t, b)
      PROVE  Sleep!FallAsleep(t)
  BY <1>3 DEF CallWait, Sleep!FallAsleep
<1>4. ASSUME NEW t \in Threads, WaitSpurious(t) PROVE Hidden
  BY <1>4 DEF WaitSpurious
<1>5. ASSUME NEW t \in Threads, WaitTimeout(t) PROVE Hidden
  BY <1>5 DEF WaitTimeout
<1>6. ASSUME NEW t \in Threads, InterruptLock(t) PROVE Hidden
  BY <1>6 DEF InterruptLock
<1>7. ASSUME NEW t \in Threads, InterruptStore(t) PROVE Sleep!Interrupt
  BY <1>7 DEF InterruptStore, Sleep!Interrupt
<1>8. ASSUME NEW t \in Threads, InterruptNotify(t) PROVE Hidden
  BY <1>8 DEF InterruptNotify
<1>9. ASSUME NEW t \in Threads, WaitLock(t) PROVE Hidden
  BY <1>9 DEF WaitLock
<1>10. ASSUME NEW t \in Threads, NEW from \in WaitPcs, NEW value \in BOOLEAN,
              Return(t, from, value), value = flag, timed[t] \/ flag
       PROVE  Sleep!WakeUp(t)
  BY <1>10 DEF Return, Sleep!WakeUp
<1>11. ASSUME NEW t \in Threads, WaitFirst(t) PROVE Sleep!WakeUp(t) \/ Hidden
  BY <1>10, <1>11 DEF WaitFirst
<1>12. ASSUME NEW t \in Threads, WaitLoop(t) PROVE Sleep!WakeUp(t) \/ Hidden
  BY <1>10, <1>12 DEF WaitLoop
<1>13. ASSUME NEW t \in Threads, WaitBlock(t) PROVE Hidden
  BY <1>13 DEF WaitBlock
<1>14. ASSUME NEW t \in Threads, WaitRelock(t) PROVE Hidden
  BY <1>14 DEF WaitRelock
<1>15. ASSUME NEW t \in Threads, WaitLast(t) PROVE Sleep!WakeUp(t)
  <2>1. timed[t] \/ flag
    BY <1>15 DEF WaitLast, Return, LastInv
  <2> QED
    BY <1>10, <1>15, <2>1 DEF WaitLast
<1> QED
  BY <1>1, <1>2, <1>3, <1>4, <1>5, <1>6, <1>7, <1>8, <1>9, <1>11, <1>12,
     <1>13, <1>14, <1>15 DEF Next, Progress, Sleep!Next

\* With the discipline on reset() that UpnpMgr keeps, the object behaves as
\* InterruptibleSleep promises (threadinterrupt.h:9-13 and 25-27).
THEOREM PromiseKept == ASSUME ~ConcurrentReset PROVE Spec => KeepsPromise
<1>1. Init => Sleep!Init
  BY DEF Init, Sleep!Init, InWait, WaitPcs, SleepOf
<1>2. TypeOK /\ LastInv /\ [Next]_vars => [Sleep!Next]_(Sleep!sleepVars)
  BY StepKeepsPromise DEF Hidden, Sleep!sleepVars, vars, SleepOf, InWait
<1> QED
  BY <1>1, <1>2, TypeCorrect, LastInvariance, PTL
     DEF Spec, Sleep!Spec, KeepsPromise
=============================================================================
