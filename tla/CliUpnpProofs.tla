---------------------------- MODULE CliUpnpProofs ----------------------------
(***************************************************************************)
(* CliUpnp, for any ports, addresses and faults, any list of signals and   *)
(* any number of deliveries.                                               *)
(***************************************************************************)
EXTENDS CliUpnp, UpnpMgrProofs

(* The program uses the manager as UpnpMgr describes it *)

\* Every step of the program is one of the manager's, or does not touch it.
LEMMA StepIsMgrStep == [Next]_vars => [MgrNext]_mgrVars
<1> SUFFICES ASSUME [Next]_vars PROVE [MgrNext]_mgrVars
  OBVIOUS
<1>1. CASE StartManager
  BY <1>1 DEF StartManager, MgrNext
<1>2. CASE InManager \/ StartThrows
  BY <1>2 DEF InManager, StartThrows, MgrNext
<1>3. CASE CloseScope \/ DestroyManager
  BY <1>3 DEF CloseScope, DestroyManager, MgrNext
<1>4. CASE UpnpStep
  BY <1>4 DEF UpnpStep, MgrNext
<1>5. CASE Environment
  BY <1>5 DEF Environment, MgrNext
<1>6. CASE UNCHANGED mgrVars
  BY <1>6
<1> QED
  BY <1>1, <1>2, <1>3, <1>4, <1>5, <1>6
     DEF Next, MainStep, ParseArgs, StartNetworking, MakeSem, InstallHandler,
         Acquire, AcquireFails, RestoreHandler, ReadExitCode, FreeSem,
         CallbackStep, CallbackStore, CallbackCas, CallbackRelease, HandlerStep, HandlerCas,
         HandlerRelease, SignalKills, SignalHandled, Ended, vars

\* So all that is proved of the manager holds in the program: main() uses it
\* as one client thread would (main.cpp:85-124).
THEOREM UsesManager == Spec => MgrSpec
<1>1. Init => MgrInit
  BY DEF Init
<1> QED
  BY <1>1, StepIsMgrStep, PTL DEF Spec, MgrSpec

-----------------------------------------------------------------------------
(* Where main() is, and where the manager is *)

AfterJoin == {"restore", "return", "destroy", "destroying", "free"}

\* Outside of its calls the manager is idle; the thread exists only between
\* the end of start() and the end of stop().
PlaceInv ==
  /\ main \in MainPcs
  /\ Running /\ main \notin ManagerPcs => client = "idle"
  /\ Running /\ main # "starting" => request = NoRequest
  /\ main = "starting" => client \in {"stop", "reset", "spawn"} /\ request # NoRequest
  /\ main \in {"stopping", "destroying"} => client \in {"stop", "join", "reset"}
  /\ main \in BeforeStart => pc = "none" /\ ~errorFlag
  /\ main \in AfterJoin => pc = "none"

\* What a step of the UPnP thread leaves alone.
LEMMA RunStepFrame ==
  ASSUME RunStep
  PROVE  UNCHANGED <<client, request>> /\ pc \in LivePcs /\ pc' # "none"
<1> USE DEF clientVars, LivePcs, LoopPcs
<1>1. CASE RunBegin \/ FirstSetup
  BY <1>1 DEF RunBegin, FirstSetup
<1>2. CASE LoopTop
  BY <1>2 DEF LoopTop, BeginUnmap
<1>3. CASE RedoSetup
  BY <1>3 DEF RedoSetup
<1>4. CASE MapPort
  BY <1>4 DEF MapPort
<1>5. CASE Wake
  BY <1>5 DEF Wake, BeginUnmap
<1>6. CASE UnmapPort \/ UnmapDone
  BY <1>6 DEF UnmapPort, UnmapDone
<1>7. CASE ExitInterrupt \/ CallbackReturns \/ ExitClear
  BY <1>7 DEF ExitInterrupt, CallbackReturns, ExitClear
<1> QED
  BY <1>1, <1>2, <1>3, <1>4, <1>5, <1>6, <1>7 DEF RunStep

\* The steps of the manager's calls, in each of the three that main() makes.
LEMMA InManagerPlace ==
  ASSUME IInv, PlaceInv, InManager PROVE PlaceInv'
<1> USE DEF PlaceInv, Running, EndPcs, ManagerPcs, BeforeStart, BeforeWakeUp,
            MainPcs, AfterJoin, InManager, MainGoes
<1>1. main' = IF client' = "idle" THEN AfterManager[main] ELSE main
  OBVIOUS
<1>2. CASE main = "starting"
  <2>1. AfterManager[main] = "wait"
    BY <1>2 DEF AfterManager
  <2>2. CASE StopInterrupt
    BY <1>1, <1>2, <2>1, <2>2 DEF StopInterrupt, runVars
  <2>3. CASE StopReset
    BY <1>1, <1>2, <2>1, <2>3 DEF StopReset, runVars
  <2>4. CASE StartSpawn
    BY <1>1, <1>2, <2>1, <2>4 DEF StartSpawn
  <2> QED
    BY <1>2, <2>2, <2>3, <2>4 DEF ClientStep, StopJoin
<1>3. CASE main = "stopping"
  <2>1. AfterManager[main] = "restore"
    BY <1>3 DEF AfterManager
  <2>2. CASE StopInterrupt
    BY <1>1, <1>3, <2>1, <2>2 DEF StopInterrupt, runVars
  <2>3. CASE StopJoin
    BY <1>1, <1>3, <2>1, <2>3 DEF StopJoin
  <2>4. CASE StopReset
    BY <1>1, <1>3, <2>1, <2>4
       DEF StopReset, runVars, IInv, OwnershipInv, ClientOwnsMembers
  <2> QED
    BY <1>3, <2>2, <2>3, <2>4 DEF ClientStep, StartSpawn
<1>4. CASE main = "destroying"
  <2>1. AfterManager[main] = "free"
    BY <1>4 DEF AfterManager
  <2>2. CASE StopInterrupt
    BY <1>1, <1>4, <2>1, <2>2 DEF StopInterrupt, runVars
  <2>3. CASE StopReset
    BY <1>1, <1>4, <2>1, <2>3 DEF StopReset, runVars
  <2> QED
    BY <1>4, <2>2, <2>3 DEF ClientStep, StartSpawn, StopJoin
<1> QED
  BY <1>2, <1>3, <1>4

\* Every step keeps main() and the manager's client at places that match.
LEMMA PlaceStep ==
  ASSUME IInv, PlaceInv, Next PROVE PlaceInv'
<1> USE DEF PlaceInv, Running, EndPcs, ManagerPcs, BeforeStart, BeforeWakeUp,
            MainPcs, AfterJoin, MainGoes
<1>1. CASE UNCHANGED <<main, client, request, pc, errorFlag>>
  BY <1>1
<1>2. CASE ParseArgs \/ StartNetworking \/ MakeSem \/ InstallHandler
  BY <1>2 DEF ParseArgs, StartNetworking, MakeSem, InstallHandler, Exit,
              EachSignal, mgrVars, clientVars, runVars
<1>3. CASE StartManager
  <2>1. PICK pv \in PortVecs : CallStart(pv)
    BY <1>3 DEF StartManager
  <2>2. pv # NoRequest
    BY UpnpMgrAssumption DEF UpnpMgrAssumption
  <2> QED
    BY <1>3, <2>1, <2>2 DEF StartManager, CallStart, runVars
<1>4. CASE InManager
  BY <1>4, InManagerPlace
<1>5. CASE Acquire \/ AcquireFails \/ RestoreHandler \/ ReadExitCode \/ FreeSem
  BY <1>5 DEF Acquire, AcquireFails, RestoreHandler, EachSignal, ReadExitCode, FreeSem,
              mgrVars, clientVars, runVars
<1>6. CASE CloseScope \/ DestroyManager
  BY <1>6 DEF CloseScope, DestroyManager, CallStop, runVars
<1>7. CASE UpnpStep
  <2>1. /\ UNCHANGED <<client, request>> /\ pc # "none" /\ pc' # "none"
        /\ main' = main
    BY <1>7, RunStepFrame DEF UpnpStep, mainVars, LivePcs, LoopPcs
  <2> QED
    BY <2>1
<1>8. ASSUME NEW sig, SignalKills(sig) PROVE PlaceInv'
  BY <1>8 DEF SignalKills, mgrVars, clientVars, runVars
<1>9. CASE StartThrows
  BY <1>9 DEF StartThrows, SpawnFails, runVars
<1>10. ASSUME NEW sig, NEW t, SignalHandled(sig, t) PROVE PlaceInv'
  BY <1>10 DEF SignalHandled, Interrupts, mgrVars, clientVars, runVars
<1> QED
  BY <1>1, <1>2, <1>3, <1>4, <1>5, <1>6, <1>7, <1>8, <1>9, <1>10
     DEF Next, MainStep, CallbackStep, CallbackStore, CallbackCas,
         CallbackRelease, HandlerStep, HandlerCas, HandlerRelease,
         Environment, Reboot, HostMoves, Ended, vars, cliVars,
         mgrVars, mainVars, clientVars, runVars

-----------------------------------------------------------------------------
(* The exit code *)

\* The thread has told main() of its failure.
Told ==
  errorFlag /\ (pc \in {"clear", "finished", "none"} \/ (pc = "callback" /\ cb # "store"))

ExitInv ==
  /\ exitCode = IF Told THEN "failure" ELSE "success"
  /\ IF pc = "callback" THEN errorFlag ELSE cb = "store"
  /\ main \in {"destroy", "destroying", "free"} => code = exitCode

\* How a step of the thread, the callback's own steps aside, moves what Told
\* depends on.
LEMMA RunStepTold ==
  ASSUME ErrorInv, RunStep
  PROVE  \/ /\ pc \notin {"callback", "clear"} /\ pc' \notin {"callback", "clear", "finished", "none"}
         \/ pc = "exit" /\ pc' = "callback" /\ errorFlag'
         \/ pc = "exit" /\ pc' = "clear" /\ ~errorFlag'
         \/ pc = "callback" /\ pc' = "clear" /\ errorFlag' = errorFlag
         \/ pc = "clear" /\ pc' = "finished" /\ errorFlag' = errorFlag
<1> USE DEF LivePcs, LoopPcs
<1>1. CASE RunBegin \/ FirstSetup
  BY <1>1 DEF RunBegin, FirstSetup
<1>2. CASE LoopTop
  BY <1>2 DEF LoopTop, BeginUnmap
<1>3. CASE RedoSetup
  BY <1>3 DEF RedoSetup
<1>4. CASE MapPort
  BY <1>4 DEF MapPort
<1>5. CASE Wake
  BY <1>5 DEF Wake, BeginUnmap
<1>6. CASE UnmapPort \/ UnmapDone
  BY <1>6 DEF UnmapPort, UnmapDone, runVars
<1>7. CASE ExitInterrupt
  BY <1>7 DEF ExitInterrupt, ReportsError, ErrorInv
<1>8. CASE CallbackReturns \/ ExitClear
  BY <1>8 DEF CallbackReturns, ExitClear
<1> QED
  BY <1>1, <1>2, <1>3, <1>4, <1>5, <1>6, <1>7, <1>8 DEF RunStep

\* Every step keeps the exit code in accord with what the callback was told.
LEMMA ExitStep ==
  ASSUME IInv, PlaceInv, ExitInv, Next PROVE ExitInv'
<1> USE DEF ExitInv, Told, MainGoes
<1>1. CASE UNCHANGED <<pc, errorFlag, cb, exitVars>> /\ main' = main
  BY <1>1 DEF exitVars
<1>2. CASE /\ UNCHANGED <<pc, errorFlag, cb, exitCode>>
           /\ main' \notin {"destroy", "destroying", "free"}
  BY <1>2
<1>3. CASE InManager
  <2>1. UNCHANGED <<cb, exitVars>>
    BY <1>3 DEF InManager
  <2>2. main' \in {"destroy", "destroying", "free"} => main = "destroying"
    BY <1>3 DEF InManager, AfterManager, ManagerPcs
  <2>3. CASE UNCHANGED <<pc, errorFlag>>
    BY <2>1, <2>2, <2>3 DEF exitVars
  <2>4. CASE StopJoin
    BY <2>1, <2>2, <2>4 DEF StopJoin, exitVars
  <2>5. CASE StartSpawn
    <3>1. pc = "none" /\ ~errorFlag
      BY <1>3, <2>5 DEF InManager, StartSpawn, ManagerPcs, PlaceInv, BeforeStart
    <3> QED
      BY <2>1, <2>2, <2>5, <3>1 DEF StartSpawn, exitVars
  <2> QED
    BY <1>3, <2>3, <2>4, <2>5
       DEF InManager, ClientStep, StopInterrupt, StopReset, runVars
<1>4. CASE ReadExitCode
  BY <1>4 DEF ReadExitCode, mgrVars, runVars
<1>5. CASE DestroyManager
  BY <1>5 DEF DestroyManager, CallStop, runVars, exitVars
<1>6. CASE UpnpStep
  <2>1. UNCHANGED <<main, exitVars>> /\ RunStep
    BY <1>6 DEF UpnpStep, mainVars
  <2>2. IF pc = "callback" THEN cb = "done" /\ cb' = "store" ELSE UNCHANGED cb
    BY <1>6 DEF UpnpStep
  <2> QED
    BY <2>1, <2>2, RunStepFrame, RunStepTold DEF IInv, exitVars, LivePcs, LoopPcs
<1>7. CASE CallbackStore
  <2>1. errorFlag
    BY <1>7 DEF CallbackStore, CallbackGoes
  <2>2. main' = main /\ UNCHANGED <<pc, errorFlag, code>>
    BY <1>7 DEF CallbackStore, mgrVars, runVars, mainVars
  <2>3. main \notin {"destroy", "destroying", "free"}
    BY <1>7 DEF CallbackStore, CallbackGoes, PlaceInv, AfterJoin
  <2> QED
    BY <1>7, <2>1, <2>2, <2>3 DEF CallbackStore, CallbackGoes
<1>8. CASE CallbackCas \/ CallbackRelease
  BY <1>8 DEF CallbackCas, CallbackRelease, CallbackGoes, mgrVars, runVars,
              mainVars, exitVars
<1> QED
  BY <1>1, <1>2, <1>3, <1>4, <1>5, <1>6, <1>7, <1>8
     DEF Next, MainStep, ParseArgs, StartNetworking, MakeSem, InstallHandler,
         StartManager, StartThrows, SpawnFails, Acquire, AcquireFails,
         CloseScope, RestoreHandler, FreeSem, Exit, EachSignal, CallStart,
         CallStop, CallbackStep, HandlerStep, HandlerCas, HandlerRelease,
         SignalKills, SignalHandled, Interrupts, Environment, Reboot,
         HostMoves, Ended, vars, cliVars, mgrVars, mainVars, runVars, exitVars

-----------------------------------------------------------------------------
(* The semaphore *)

NoSem == {"args", "net", "sem"}

Releasing == cb = "release" \/ \E t \in Threads : handler[t] = "release"

\* There is one byte to write in the life of the program, and one writer for
\* it.  Until it is read main() does not get past its wait, unless a signal
\* interrupts the read(): then the one who is about to write is the UPnP
\* thread, if any, which main() joins before it frees the Sem.
SemInv ==
  /\ sem \in {0, 1}
  /\ cb \in {"store", "cas", "release", "done"}
  /\ handler \in [Threads -> {"none", "cas", "release"}]
  /\ \A t, u \in Threads :
       handler[t] = "release" /\ handler[u] = "release" => t = u
  /\ cb = "release" => \A t \in Threads : handler[t] # "release"
  /\ Releasing => sem = 0 /\ psem
  /\ Releasing \/ sem = 1 => no_more_signals
  /\ ReadRestarts /\ (Releasing \/ sem = 1) => main \in BeforeWakeUp \cup EndPcs
  /\ \A t \in Threads :
       handler[t] = "release" => main \in BeforeWakeUp \cup EndPcs \/ t = "upnp"
  /\ handler["upnp"] # "none" => pc \in LivePcs
  /\ ~ReadRestarts => handler["os"] = "none"
  /\ main = "interrupted" =>
       ~ReadRestarts /\ (handler["main"] = "none" => no_more_signals)
  /\ Running /\ main \notin BeforeWakeUp => no_more_signals
  /\ Running /\ main \notin NoSem => psem
  /\ main \in NoSem => handled = {} /\ \A t \in Threads : handler[t] = "none"

\* Every step keeps the bytes in the pipe, and those about to be written, to
\* one in all.
LEMMA SemStep ==
  ASSUME PlaceInv, ExitInv, SemInv, Next PROVE SemInv'
<1> USE DEF SemInv, Releasing, NoSem, Running, EndPcs, BeforeStart, BeforeWakeUp,
            MainGoes, Threads
<1>1. CASE UNCHANGED <<main, wakeVars, handled, handler, cb, pc>>
  BY <1>1 DEF wakeVars
<1>2. CASE ParseArgs \/ StartNetworking
  BY <1>2 DEF ParseArgs, StartNetworking, Exit, wakeVars, signalVars, mgrVars,
              runVars
<1>3. CASE MakeSem
  BY <1>3 DEF MakeSem, signalVars, mgrVars, runVars
<1>4. CASE InstallHandler
  BY <1>4 DEF InstallHandler, EachSignal, wakeVars, mgrVars, runVars
<1>5. CASE StartManager
  BY <1>5 DEF StartManager, CallStart, wakeVars, signalVars, runVars
<1>6. CASE InManager
  <2>1. \/ main = "starting" /\ main' \in {"starting", "wait"}
        \/ main = "stopping" /\ main' \in {"stopping", "restore"}
        \/ main = "destroying" /\ main' \in {"destroying", "free"}
    BY <1>6 DEF InManager, ManagerPcs, AfterManager
  <2>2. UNCHANGED <<wakeVars, handled, handler, cb>>
    BY <1>6 DEF InManager, signalVars
  <2>3. pc \in LivePcs => pc' \in LivePcs
    BY <1>6 DEF InManager, ClientStep, StopInterrupt, StopJoin, StopReset,
                StartSpawn, LivePcs, LoopPcs, runVars
  <2> QED
    BY <2>1, <2>2, <2>3 DEF wakeVars
<1>7. CASE StartThrows
  BY <1>7 DEF StartThrows, SpawnFails, wakeVars, signalVars, runVars
<1>8. CASE Acquire
  BY <1>8 DEF Acquire, AcquireSem, signalVars, mgrVars, runVars
<1>9. CASE AcquireFails
  BY <1>9 DEF AcquireFails, wakeVars, signalVars, mgrVars, runVars
<1>10. CASE CloseScope
  BY <1>10 DEF CloseScope, CallStop, signalVars, runVars
<1>11. CASE RestoreHandler
  BY <1>11 DEF RestoreHandler, EachSignal, wakeVars, mgrVars, runVars
<1>12. CASE ReadExitCode \/ DestroyManager
  BY <1>12 DEF ReadExitCode, DestroyManager, CallStop, wakeVars, signalVars,
               mgrVars, runVars
<1>13. CASE FreeSem
  <2>1. pc = "none" /\ main = "free" /\ handler["main"] = "none"
    BY <1>13 DEF FreeSem, PlaceInv, AfterJoin
  <2>2. ~Releasing
    BY <2>1 DEF ExitInv, LivePcs, LoopPcs
  <2> QED
    BY <1>13, <2>1, <2>2 DEF FreeSem, signalVars, mgrVars, runVars
<1>14. CASE UpnpStep
  <2>1. UNCHANGED <<main, wakeVars, handled, handler>> /\ handler["upnp"] = "none"
    BY <1>14 DEF UpnpStep, UpnpRuns, mainVars, signalVars
  <2>2. cb' = cb \/ (cb = "done" /\ cb' = "store")
    BY <1>14 DEF UpnpStep
  <2> QED
    BY <2>1, <2>2 DEF wakeVars
<1>15. CASE CallbackStore
  BY <1>15 DEF CallbackStore, CallbackGoes, mainVars, wakeVars, signalVars,
               mgrVars, runVars
<1>16. CASE CallbackCas
  <2>1. Running /\ main \notin NoSem
    BY <1>16 DEF CallbackCas, CallbackGoes, UpnpRuns, PlaceInv
  <2>2. /\ cb' = IF no_more_signals THEN "done" ELSE "release"
        /\ no_more_signals' /\ cb = "cas"
        /\ UNCHANGED <<main, psem, sem, handler, handled, pc>>
    BY <1>16 DEF CallbackCas, CallbackGoes, mainVars, signalVars, mgrVars, runVars
  <2> QED
    BY <2>1, <2>2
<1>17. CASE CallbackRelease
  BY <1>17 DEF CallbackRelease, CallbackGoes, ReleaseSem, mainVars, signalVars,
               mgrVars, runVars
<1>18. ASSUME NEW t \in Threads, HandlerCas(t) PROVE SemInv'
  <2>1. /\ handler' = [handler EXCEPT ![t] = IF no_more_signals THEN "none" ELSE "release"]
        /\ no_more_signals' /\ Running /\ handler[t] = "cas"
        /\ UNCHANGED <<main, psem, sem, cb, handled, pc>>
    BY <1>18 DEF HandlerCas, mainVars, mgrVars, runVars
  <2>2. main \notin NoSem
    BY <2>1
  <2> QED
    BY <2>1, <2>2
<1>19. ASSUME NEW t \in Threads, HandlerRelease(t) PROVE SemInv'
  BY <1>19 DEF HandlerRelease, ReleaseSem, mainVars, mgrVars, runVars
<1>20. ASSUME NEW sig, SignalKills(sig) PROVE SemInv'
  BY <1>20 DEF SignalKills, wakeVars, mgrVars, runVars
<1>21. ASSUME NEW sig, NEW t \in HandlerThreads, SignalHandled(sig, t)
       PROVE  SemInv'
  <2>1. t \in Threads /\ (t = "os" => ReadRestarts)
    BY CliUpnpAssumption DEF CliUpnpAssumption
  <2>2. /\ handler' = [handler EXCEPT ![t] = "cas"] /\ handler[t] = "none"
        /\ handled # {} /\ (t = "upnp" => pc \in LivePcs)
        /\ UNCHANGED <<psem, sem, no_more_signals, cb, pc>>
        /\ \/ main' = main
           \/ t = "main" /\ main = "wait" /\ ~ReadRestarts /\ main' = "interrupted"
    BY <1>21 DEF SignalHandled, Alive, Interrupts, wakeVars, mgrVars, runVars
  <2> QED
    BY <2>1, <2>2
<1>22. CASE Environment \/ Ended
  BY <1>22, <1>1 DEF Environment, Reboot, HostMoves, Ended, cliVars, vars,
                     mainVars, signalVars, mgrVars, runVars
<1> QED
  BY <1>2, <1>3, <1>4, <1>5, <1>6, <1>7, <1>8, <1>9, <1>10, <1>11, <1>12,
     <1>13, <1>14, <1>15, <1>16, <1>17, <1>18, <1>19, <1>20, <1>21, <1>22
     DEF Next, MainStep, CallbackStep, HandlerStep

-----------------------------------------------------------------------------
(* The handlers *)

\* All of them are installed while there may be a thread.
HandledInv ==
  /\ slot \in 0 .. Len(Signals) - 1
  /\ main \in NoSem => slot = 0 /\ handled = {}
  /\ main = "install" => handled = {Signals[i] : i \in 1 .. slot}
  /\ main \in {"start", "starting", "wait", "interrupted", "close", "stopping"} =>
       handled = Range(Signals)
  /\ main = "killed" => pc = "none"

\* What the proofs need to know of the list of signals.
LEMMA SignalsFacts ==
  /\ Len(Signals) \in Nat \ {0}
  /\ Range(Signals) = {Signals[i] : i \in 1 .. Len(Signals)}
<1>1. Signals \in Seq(Range(Signals)) /\ Signals # << >>
  BY CliUpnpAssumption DEF CliUpnpAssumption
<1> QED
  BY <1>1 DEF Range

\* Every step keeps handlers installed for as long as there may be a thread.
LEMMA HandledStep ==
  ASSUME HandlerPersists, PlaceInv, HandledInv, Next PROVE HandledInv'
<1> USE SignalsFacts DEF HandledInv, NoSem, Running, EndPcs, MainGoes
<1>1. CASE UNCHANGED <<main, slot, handled, pc>>
  BY <1>1
<1>2. CASE ParseArgs \/ StartNetworking \/ MakeSem
  BY <1>2 DEF ParseArgs, StartNetworking, MakeSem, Exit, signalVars
<1>3. CASE InstallHandler
  <2>1. /\ main = "install" /\ handled' = handled \cup {Signals[slot + 1]}
        /\ IF slot + 1 < Len(Signals) THEN main' = "install" /\ slot' = slot + 1
                                      ELSE main' = "start" /\ slot' = 0
    BY <1>3 DEF InstallHandler, EachSignal
  <2>2. handled' = {Signals[i] : i \in 1 .. slot + 1}
    BY <2>1
  <2>3. CASE slot + 1 < Len(Signals)
    BY <2>1, <2>2, <2>3
  <2>4. CASE ~(slot + 1 < Len(Signals))
    <3>1. slot + 1 = Len(Signals)
      BY <2>4
    <3> QED
      BY <2>1, <2>2, <2>4, <3>1
  <2> QED
    BY <2>3, <2>4
<1>4. CASE StartManager
  BY <1>4 DEF StartManager, signalVars
<1>5. CASE InManager
  <2>1. \/ main = "starting" /\ main' \in {"starting", "wait"}
        \/ main = "stopping" /\ main' \in {"stopping", "restore"}
        \/ main = "destroying" /\ main' \in {"destroying", "free"}
    BY <1>5 DEF InManager, ManagerPcs, AfterManager
  <2>2. UNCHANGED <<slot, handled>>
    BY <1>5 DEF InManager, signalVars
  <2> QED
    BY <2>1, <2>2
<1>6. CASE StartThrows \/ Acquire \/ AcquireFails \/ CloseScope
  BY <1>6 DEF StartThrows, Acquire, AcquireFails, CloseScope, signalVars
<1>7. CASE RestoreHandler
  BY <1>7 DEF RestoreHandler, EachSignal
<1>8. CASE ReadExitCode \/ DestroyManager \/ FreeSem
  BY <1>8 DEF ReadExitCode, DestroyManager, FreeSem, signalVars
<1>9. CASE UpnpStep
  BY <1>9 DEF UpnpStep, UpnpRuns, mainVars, signalVars
<1>10. ASSUME NEW sig \in Range(Signals), SignalKills(sig) PROVE HandledInv'
  <2>1. main \notin {"start", "starting", "wait", "interrupted", "close", "stopping"}
        /\ Running
    BY <1>10 DEF SignalKills
  <2>2. pc = "none"
    BY <2>1 DEF PlaceInv, MainPcs, BeforeWakeUp, BeforeStart, ManagerPcs, AfterJoin
  <2> QED
    BY <1>10, <2>2 DEF SignalKills, mgrVars, runVars
<1>11. ASSUME NEW sig, NEW t, SignalHandled(sig, t) PROVE HandledInv'
  BY <1>11 DEF SignalHandled, Interrupts, mgrVars, runVars
<1> QED
  BY <1>1, <1>2, <1>3, <1>4, <1>5, <1>6, <1>7, <1>8, <1>9, <1>10, <1>11
     DEF Next, MainStep, CallbackStep, CallbackStore, CallbackCas,
         CallbackRelease, HandlerStep, HandlerCas, HandlerRelease, Environment,
         Reboot, HostMoves, Ended, vars, cliVars, mgrVars, mainVars, signalVars,
         runVars

-----------------------------------------------------------------------------
(* The types that no part of the invariant above needs *)

FlagTypes == psem \in BOOLEAN /\ no_more_signals \in BOOLEAN

OtherTypes ==
  /\ slot \in 0 .. Len(Signals) - 1
  /\ code \in {"none", "success", "failure"}
  /\ handled \subseteq Range(Signals)
  /\ signals \in 0 .. MaxSignals

\* The flags stay Booleans.
LEMMA FlagTypesStep ==
  ASSUME FlagTypes, Next PROVE FlagTypes'
<1> USE DEF FlagTypes, wakeVars
<1>1. CASE MakeSem
  BY Zenon, <1>1 DEF MakeSem
<1>2. CASE CloseScope
  BY Zenon, <1>2 DEF CloseScope
<1>3. CASE FreeSem
  BY Zenon, <1>3 DEF FreeSem
<1>4. ASSUME NEW t \in Threads, HandlerCas(t) PROVE FlagTypes'
  BY Zenon, <1>4 DEF HandlerCas
<1>5. CASE CallbackCas
  BY Zenon, <1>5 DEF CallbackCas
<1>6. CASE UNCHANGED <<psem, no_more_signals>>
  BY <1>6
<1> QED
  BY <1>1, <1>2, <1>3, <1>4, <1>5, <1>6
     DEF Next, MainStep, ParseArgs, StartNetworking, InstallHandler,
         StartManager, StartThrows, InManager, Acquire, AcquireFails,
         RestoreHandler, ReadExitCode, DestroyManager, UpnpStep, CallbackStep,
         CallbackStore, CallbackRelease, HandlerStep, HandlerRelease,
         SignalKills, SignalHandled, Environment, Ended, vars, cliVars

\* The list of signals is not overrun, and neither is the bound.
LEMMA OtherTypesStep ==
  ASSUME ExitInv, OtherTypes, Next PROVE OtherTypes'
<1>1. MaxSignals \in Nat
  BY CliUpnpAssumption DEF CliUpnpAssumption
<1> USE <1>1, SignalsFacts DEF OtherTypes
<1>2. ASSUME NEW here, NEW next, EachSignal(here, next)
      PROVE  slot' \in 0 .. Len(Signals) - 1
  BY <1>2 DEF EachSignal
<1>3. CASE ParseArgs \/ StartNetworking
  BY <1>3 DEF ParseArgs, StartNetworking, Exit, MainGoes, exitVars, signalVars
<1>4. CASE InstallHandler
  <2>1. slot' \in 0 .. Len(Signals) - 1
    BY <1>2, <1>4 DEF InstallHandler
  <2>2. slot + 1 \in 1 .. Len(Signals)
    OBVIOUS
  <2> QED
    BY <1>4, <2>1, <2>2 DEF InstallHandler, exitVars
<1>5. CASE RestoreHandler
  BY <1>2, <1>5 DEF RestoreHandler, exitVars
<1>6. CASE ReadExitCode
  BY <1>6 DEF ReadExitCode, ExitInv, signalVars
<1>7. ASSUME NEW sig, SignalKills(sig) PROVE OtherTypes'
  BY <1>7 DEF SignalKills, exitVars
<1>8. ASSUME NEW sig, NEW t, SignalHandled(sig, t) PROVE OtherTypes'
  BY <1>8 DEF SignalHandled, exitVars
<1>9. CASE UNCHANGED <<slot, code, handled, signals>>
  BY <1>9
<1> QED
  BY <1>3, <1>4, <1>5, <1>6, <1>7, <1>8, <1>9
     DEF Next, MainStep, MakeSem, StartManager, StartThrows, InManager,
         Acquire, AcquireFails, CloseScope, DestroyManager, FreeSem, UpnpStep,
         CallbackStep, CallbackStore, CallbackCas, CallbackRelease,
         HandlerStep, HandlerCas, HandlerRelease, Environment, Ended, vars,
         cliVars, mainVars, exitVars, signalVars

-----------------------------------------------------------------------------
(* The theorems *)

CliIInv == PlaceInv /\ ExitInv /\ SemInv

\* The invariant of the program holds when main() begins.
LEMMA InitCliIInv == Init => CliIInv
<1> SUFFICES ASSUME Init PROVE CliIInv
  OBVIOUS
<1> USE DEF Init, MgrInit
<1>1. PlaceInv
  BY DEF PlaceInv, MainPcs, BeforeWakeUp, BeforeStart, ManagerPcs, AfterJoin
<1>2. ExitInv
  BY DEF ExitInv, Told
<1>3. SemInv
  BY DEF SemInv, Releasing, NoSem, BeforeWakeUp, BeforeStart, Running, EndPcs,
         Threads
<1> QED
  BY <1>1, <1>2, <1>3 DEF CliIInv

\* It is about the variables only.
LEMMA StutterCliIInv == CliIInv /\ UNCHANGED vars => CliIInv'
<1> SUFFICES ASSUME CliIInv, UNCHANGED vars PROVE CliIInv'
  OBVIOUS
<1> USE DEF CliIInv, vars, mgrVars, cliVars, clientVars, runVars, mainVars,
            wakeVars, exitVars, signalVars
<1>1. PlaceInv'
  BY DEF PlaceInv, Running
<1>2. ExitInv'
  BY DEF ExitInv, Told
<1>3. SemInv'
  BY DEF SemInv, Releasing, Running
<1> QED
  BY <1>1, <1>2, <1>3

\* The manager's invariant holds in the program.
LEMMA ManagerInvariance == Spec => []IInv
  BY UsesManager, Invariance, PTL

\* The program's own invariant holds in every behaviour.
LEMMA CliInvariance == Spec => []CliIInv
<1>1. IInv /\ CliIInv /\ [Next]_vars => CliIInv'
  BY PlaceStep, ExitStep, SemStep, StutterCliIInv DEF CliIInv
<1> QED
  BY <1>1, InitCliIInv, ManagerInvariance, PTL DEF Spec

\* The type invariant of the program.
THEOREM TypeCorrect == Spec => []TypeOK
<1>1. Init => FlagTypes /\ OtherTypes
  <2>1. Init => FlagTypes
    BY DEF Init, FlagTypes
  <2>2. Init => OtherTypes
    BY CliUpnpAssumption, SignalsFacts DEF Init, OtherTypes, CliUpnpAssumption
  <2> QED
    BY <2>1, <2>2
<1>2. CliIInv /\ FlagTypes /\ OtherTypes /\ [Next]_vars => (FlagTypes /\ OtherTypes)'
  <2>1. ASSUME FlagTypes, OtherTypes, UNCHANGED vars
        PROVE  FlagTypes' /\ OtherTypes'
    BY <2>1 DEF FlagTypes, OtherTypes, vars, cliVars, mainVars, wakeVars,
                exitVars, signalVars
  <2> QED
    BY <2>1, FlagTypesStep, OtherTypesStep DEF CliIInv
<1>3. MgrTypeOK /\ CliIInv /\ FlagTypes /\ OtherTypes => TypeOK
  BY DEF CliIInv, PlaceInv, ExitInv, SemInv, FlagTypes, OtherTypes, TypeOK
<1> QED
  BY <1>1, <1>2, <1>3, CliInvariance, UsesManager, MgrTypeCorrect, PTL DEF Spec

\* Whoever is about to write to the semaphore finds it there: main() does not
\* free it before the one write there is has been read (main.cpp:19, 79).
THEOREM SemNotUsedAfterFree == Spec => []SemAliveWhenUsed
<1>1. CliIInv => SemAliveWhenUsed
  BY DEF CliIInv, SemInv, Releasing, SemAliveWhenUsed
<1> QED
  BY <1>1, CliInvariance, PTL

\* At most one byte is ever written, whatever signals come and whether or not
\* the UPnP thread fails (main.cpp:36, 113), and none is left over where read()
\* is not interrupted.
THEOREM WokenUpOnce == Spec => []OneWakeUp
<1>1. CliIInv => OneWakeUp
  BY DEF CliIInv, SemInv, OneWakeUp, Running
<1> QED
  BY <1>1, CliInvariance, PTL

\* main() does not end its wait unless it has been told to, even if its read()
\* is interrupted (main.cpp:26-31, 36, 113).
THEOREM WaitsToBeTold == Spec => []EndsWhenTold
<1>1. CliIInv => EndsWhenTold
  BY DEF CliIInv, SemInv, EndsWhenTold, Running, EndPcs, BeforeWakeUp, BeforeStart
<1> QED
  BY <1>1, CliInvariance, PTL

\* The return code is right even if a signal comes while the UPnP thread fails
\* (main.cpp:99-101, 123).
THEOREM ExitCodeIsRight == Spec => []ExitCodeCorrect
<1>1. CliIInv => ExitCodeCorrect
  BY DEF CliIInv, ExitInv, Told, PlaceInv, AfterJoin, ExitCodeCorrect
<1> QED
  BY <1>1, CliInvariance, PTL

\* And so does that of the handlers, where they persist.
LEMMA HandledInvariance == ASSUME HandlerPersists PROVE Spec => []HandledInv
<1>1. Init => HandledInv
  BY SignalsFacts DEF Init, HandledInv, NoSem
<1>2. CliIInv /\ HandledInv /\ [Next]_vars => HandledInv'
  <2>1. ASSUME HandledInv, UNCHANGED vars PROVE HandledInv'
    BY <2>1 DEF HandledInv, vars, mgrVars, cliVars, runVars, mainVars, signalVars
  <2> QED
    BY <2>1, HandledStep DEF CliIInv
<1> QED
  BY <1>1, <1>2, CliInvariance, PTL DEF Spec

\* Where handlers stay installed, no signal kills the process while there is a
\* UPnP thread (main.cpp:87-108).
THEOREM SignalsDoNotKillARun ==
  ASSUME HandlerPersists PROVE Spec => []NotKilledInRun
<1>1. HandledInv => NotKilledInRun
  BY DEF HandledInv, NotKilledInRun
<1> QED
  BY <1>1, HandledInvariance, PTL

\* So CTRL-C closes the ports, however often and whenever it is pressed, as
\* long as handlers persist and the faults are harmless (README.md:22).
THEOREM CtrlCCloses ==
  ASSUME HandlerPersists, Harmless PROVE Spec => []InterruptCloses
<1>1. NotKilledInRun /\ ClosedAfterRun => InterruptCloses
  BY DEF NotKilledInRun, ClosedAfterRun, InterruptCloses
<1> QED
  BY <1>1, SignalsDoNotKillARun, NothingStaysOpen, UsesManager, PTL
=============================================================================
