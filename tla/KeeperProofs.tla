----------------------------- MODULE KeeperProofs -----------------------------
(***************************************************************************)
(* CliUpnp implements PortKeeper, for any ports, addresses, signals and    *)
(* numbers of faults, where handlers stay installed and the faults are     *)
(* harmless ones.                                                          *)
(***************************************************************************)
EXTENDS CliUpnpProofs

\* What is known in every state of a behaviour of the program.
KeeperInv == IInv /\ ClosedInv /\ HeededInv /\ CliIInv /\ HandledInv

\* All that PortKeeper sees.
Seen == <<Phase, Due, Opened, Status>>

\* Outside of the thread's loop nothing is open, and no pass is under way.
LEMMA NothingOpened ==
  ASSUME KeeperInv, pc \notin LoopPcs PROVE Opened = {} /\ Due = {}
BY AllClosed DEF KeeperInv, ClosedInv, Opened, Due, LoopPcs

\* Where there is no thread, main() has not started it or has joined it.
LEMMA PhaseWithoutThread ==
  ASSUME Running, pc = "none"
  PROVE  /\ Phase = IF main = "args" THEN "reading"
                    ELSE IF main \in BeforeStart THEN "preparing"
                    ELSE IF errorFlag THEN "failed" ELSE "closing"
         /\ Due = {}
BY DEF Phase, Due

\* Most steps only move what PortKeeper does not look at.
LEMMA QuietStep ==
  ASSUME UNCHANGED <<interrupt, ports, pc, errorFlag, todo, router>>,
         main' = main \/ (Running /\ Running'),
         main = "args" <=> main' = "args",
         main \in BeforeStart <=> main' \in BeforeStart,
         code' = code \/ Running'
  PROVE  UNCHANGED Seen
<1> USE DEF Running, EndPcs
<1>1. UNCHANGED <<Due, Opened>>
  BY DEF Due, Opened
<1>2. UNCHANGED <<Phase, Status>>
  BY DEF Phase, Status
<1> QED
  BY <1>1, <1>2 DEF Seen

\* main() up to its call of start().
LEMMA BeginningRefines ==
  ASSUME KeeperInv,
         \/ ParseArgs \/ StartNetworking \/ MakeSem \/ InstallHandler
         \/ StartManager \/ StartThrows
  PROVE  Keeper!Next \/ UNCHANGED Seen
<1> USE DEF MainGoes, mgrVars, memberVars, runVars, envVars
<1>1. main \in BeforeStart /\ Running
  BY DEF ParseArgs, StartNetworking, MakeSem, InstallHandler, EachSignal,
         StartManager, StartThrows, Exit, BeforeStart, Running, EndPcs
<1>2. pc = "none" /\ UNCHANGED <<pc, errorFlag, router>>
  BY <1>1 DEF KeeperInv, CliIInv, PlaceInv, ParseArgs, StartNetworking, MakeSem,
              InstallHandler, StartManager, CallStart, StartThrows, SpawnFails
<1>3. /\ Opened = {} /\ Due = {} /\ Opened' = {} /\ Due' = {}
      /\ Phase = IF main = "args" THEN "reading" ELSE "preparing"
      /\ Status = "none"
  BY <1>1, <1>2, NothingOpened DEF Opened, Due, LoopPcs, Phase, Status
<1>4. ASSUME main' \in {"exited", "aborted"}
      PROVE  Phase' = "ended" /\ Status' = IF main' = "exited" THEN code' ELSE main'
  BY <1>4 DEF Phase, Status, Running, EndPcs
<1>5. ASSUME main' \in BeforeStart, main' # "args"
      PROVE  Phase' = "preparing" /\ Status' = "none"
  BY <1>5 DEF Phase, Status, Running, EndPcs, BeforeStart
<1>6. CASE ParseArgs
  <2>1. CASE main' = "net"
    <3>1. Keeper!Accept
      BY <1>3, <1>5, <1>6, <2>1 DEF ParseArgs, Exit, Keeper!Accept, Keeper!Goes,
                                    BeforeStart
    <3> QED
      BY <3>1 DEF Keeper!Next
  <2>2. CASE main' = "exited"
    <3>1. Keeper!ShowUsage \/ Keeper!Refuse
      BY <1>3, <1>4, <1>6, <2>2 DEF ParseArgs, Exit, Keeper!ShowUsage,
                                    Keeper!Refuse, Keeper!Ends
    <3> QED
      BY <3>1 DEF Keeper!Next
  <2> QED
    BY <1>6, <2>1, <2>2 DEF ParseArgs, Exit
<1>7. ASSUME main # "args", main' \in BeforeStart, main' # "args" PROVE UNCHANGED Seen
  BY <1>3, <1>5, <1>7 DEF Seen
<1>8. ASSUME main # "args", main' = "aborted" \/ (main' = "exited" /\ code' = "failure")
      PROVE  Keeper!Next
  <2>1. Keeper!CannotStart
    BY <1>3, <1>4, <1>8 DEF Keeper!CannotStart, Keeper!Ends
  <2> QED
    BY <2>1 DEF Keeper!Next
<1>9. CASE StartNetworking \/ MakeSem
  BY <1>7, <1>8, <1>9 DEF StartNetworking, MakeSem, Exit, BeforeStart
<1>10. CASE InstallHandler \/ StartManager
  BY <1>7, <1>10 DEF InstallHandler, EachSignal, StartManager, BeforeStart
<1>11. CASE StartThrows
  BY <1>8, <1>11 DEF StartThrows
<1> QED
  BY <1>6, <1>9, <1>10, <1>11

\* The manager's calls: the thread is launched, and told to stop.
LEMMA InManagerRefines ==
  ASSUME KeeperInv, InManager PROVE Keeper!Next \/ UNCHANGED Seen
<1>1. /\ \/ main = "starting" /\ main' \in {"starting", "wait"}
         \/ main = "stopping" /\ main' \in {"stopping", "restore"}
         \/ main = "destroying" /\ main' \in {"destroying", "free"}
      /\ ClientStep
      /\ main' = IF client' = "idle" THEN AfterManager[main] ELSE main
      /\ UNCHANGED code
  BY DEF InManager, ManagerPcs, AfterManager, MainGoes, exitVars
<1> USE DEF EndPcs, BeforeStart, memberVars, runVars, envVars
<1>2. Running /\ Running' /\ Status = "none" /\ Status' = "none"
  BY <1>1 DEF Running, Status
<1>4. main = "starting" => pc = "none"
  BY DEF KeeperInv, CliIInv, PlaceInv
<1>5. CASE StartSpawn
  <2>1. main = "starting" /\ main' = "wait"
    BY <1>1, <1>5 DEF KeeperInv, CliIInv, PlaceInv, ManagerPcs, StartSpawn, AfterManager
  <2>2. /\ pc = "none" /\ pc' = "begin" /\ router' = router
        /\ interrupt' = interrupt /\ ~interrupt
    BY <1>4, <1>5, <2>1 DEF StartSpawn, KeeperInv, IInv, OwnershipInv
  <2>3. /\ Phase = "preparing" /\ Phase' = "probing"
        /\ Due = {} /\ Due' = {} /\ Opened' = Opened
    BY <1>2, <2>1, <2>2 DEF Phase, Due, Opened
  <2>4. Keeper!Launch
    BY <1>2, <2>3 DEF Keeper!Launch, Keeper!Goes
  <2> QED
    BY <2>4 DEF Keeper!Next
<1>6. CASE StopInterrupt
  <2>1. /\ UNCHANGED <<ports, pc, errorFlag, todo, router>> /\ main' = main
        /\ interrupt' = IF pc # "none" THEN TRUE ELSE interrupt
    BY <1>1, <1>6 DEF StopInterrupt, AfterManager
  <2>2. UNCHANGED <<Due, Opened>>
    BY <2>1 DEF Due, Opened
  <2>3. \/ Phase' = Phase
        \/ Phase = "probing" /\ Phase' = "leaving"
        \/ Phase = "keeping" /\ Phase' = "closing"
    BY <1>2, <1>4, <2>1 DEF Phase
  <2>4. CASE Phase' = Phase
    BY <1>2, <2>2, <2>4 DEF Seen
  <2>5. CASE Phase' # Phase
    <3>1. Keeper!Stop
      BY <1>2, <2>2, <2>3, <2>5 DEF Keeper!Stop, Keeper!Goes
    <3> QED
      BY <3>1 DEF Keeper!Next
  <2> QED
    BY <2>4, <2>5
<1>7. CASE StopJoin
  <2>1. /\ pc = "finished" /\ pc' = "none" /\ UNCHANGED <<interrupt, errorFlag, router>>
        /\ main' = main /\ main # "starting" /\ (interrupt \/ errorFlag)
    BY <1>1, <1>4, <1>7 DEF StopJoin, AfterManager, KeeperInv, HeededInv
  <2>2. UNCHANGED <<Phase, Due, Opened>>
    BY <1>1, <1>2, <2>1 DEF Phase, Due, Opened
  <2> QED
    BY <1>2, <2>2 DEF Seen
<1>8. CASE StopReset
  <2>1. pc = "none" /\ UNCHANGED <<pc, errorFlag, router>>
    BY <1>8 DEF StopReset, KeeperInv, IInv, OwnershipInv, ClientOwnsMembers
  <2>2. main = "starting" => main' = "starting"
    BY <1>1, <1>8 DEF StopReset, AfterManager, KeeperInv, CliIInv, PlaceInv
  <2>3. UNCHANGED <<Phase, Due, Opened>>
    BY <1>1, <1>2, <2>1, <2>2 DEF Phase, Due, Opened
  <2> QED
    BY <1>2, <2>3 DEF Seen
<1> QED
  BY <1>1, <1>5, <1>6, <1>7, <1>8 DEF ClientStep

\* main() from its wait to its end, which comes with nothing open.
LEMMA EndingRefines ==
  ASSUME KeeperInv,
         \/ Acquire \/ AcquireFails \/ CloseScope \/ RestoreHandler
         \/ ReadExitCode \/ DestroyManager \/ FreeSem
  PROVE  Keeper!Next \/ UNCHANGED Seen
<1> USE DEF MainGoes, mgrVars, memberVars, runVars, envVars
<1>1. CASE \/ Acquire \/ AcquireFails \/ CloseScope \/ RestoreHandler
           \/ ReadExitCode \/ DestroyManager
  BY <1>1, QuietStep
     DEF Acquire, AcquireFails, CloseScope, RestoreHandler, EachSignal,
         ReadExitCode, DestroyManager, CallStop, Running, EndPcs, BeforeStart
<1>2. CASE FreeSem
  <2>1. /\ main = "free" /\ main' = "exited" /\ UNCHANGED <<pc, router, code>>
        /\ pc = "none"
    BY <1>2 DEF FreeSem, exitVars, KeeperInv, CliIInv, PlaceInv, AfterJoin
  <2>2. Opened = {} /\ Opened' = {} /\ Due = {} /\ Due' = {}
    BY <2>1, NothingOpened DEF LoopPcs, Opened, Due
  <2>3. code = IF errorFlag THEN "failure" ELSE "success"
    BY <2>1 DEF KeeperInv, CliIInv, ExitInv, Told
  <2>4. /\ Phase = IF errorFlag THEN "failed" ELSE "closing"
        /\ Phase' = "ended" /\ Status' = code
    BY <2>1 DEF Phase, Status, Running, EndPcs, BeforeStart
  <2>5. Keeper!EndFailed \/ Keeper!End
    BY <2>2, <2>3, <2>4 DEF Keeper!EndFailed, Keeper!End, Keeper!Ends
  <2> QED
    BY <2>5 DEF Keeper!Next
<1> QED
  BY <1>1, <1>2

\* The UPnP thread.
LEMMA UpnpRefines ==
  ASSUME KeeperInv, UpnpStep PROVE Keeper!Next \/ UNCHANGED Seen
<1>1. /\ main' = main /\ main \notin BeforeStart /\ Running /\ Running'
      /\ RunStep
  BY RunStepFrame
     DEF UpnpStep, UpnpRuns, mainVars, Running, KeeperInv, CliIInv, PlaceInv,
         LivePcs, LoopPcs
<1>2. /\ pc \in LoopPcs => ~errorFlag
      /\ pc \in {"begin", "setup"} => errorFlag
      /\ pc \in {"unmap", "exit", "callback", "clear"} => interrupt \/ errorFlag
  BY DEF KeeperInv, IInv, ErrorInv, ErrorReportedOnce, HeededInv
<1>3. Status = "none" /\ Status' = "none"
  BY <1>1 DEF Status
<1>4. /\ Phase = IF pc \in {"begin", "setup"}
                   THEN IF interrupt THEN "leaving" ELSE "probing"
                 ELSE IF errorFlag THEN "failed"
                 ELSE IF interrupt THEN "closing" ELSE "keeping"
      /\ Phase' = IF pc' \in {"begin", "setup"}
                    THEN IF interrupt' THEN "leaving" ELSE "probing"
                  ELSE IF errorFlag' THEN "failed"
                  ELSE IF interrupt' THEN "closing" ELSE "keeping"
  BY <1>1, RunStepFrame DEF Phase, BeforeStart, LivePcs, LoopPcs
<1> USE DEF LoopPcs, memberVars, envVars, runVars
<1>5. ASSUME Phase' = Phase, Due' = Due, router' = router PROVE UNCHANGED Seen
  BY <1>3, <1>5 DEF Seen, Opened
<1>6. ASSUME Keeper!Fail \/ Keeper!GetReady \/ Keeper!BeginPass \/ Keeper!Skip
      PROVE  Keeper!Next
  BY <1>6 DEF Keeper!Next
<1>7. CASE RunBegin
  <2>1. Due = {} /\ Due' = {} /\ UNCHANGED Opened
    BY <1>7 DEF RunBegin, Due, Opened
  <2>2. CASE pc' = "setup"
    BY <1>2, <1>4, <1>5, <1>7, <2>1, <2>2 DEF RunBegin
  <2>3. CASE pc' = "exit"
    <3>1. Keeper!Fail
      BY <1>2, <1>3, <1>4, <1>7, <2>1, <2>3 DEF RunBegin, Keeper!Fail, Keeper!Goes
    <3> QED
      BY <1>6, <3>1
  <2> QED
    BY <1>7, <2>2, <2>3 DEF RunBegin
<1>8. CASE FirstSetup
  <2>1. Due = {} /\ Due' = {} /\ UNCHANGED Opened
    BY <1>8 DEF FirstSetup, Due, Opened
  <2>2. CASE pc' = "top"
    <3>1. Keeper!GetReady
      BY <1>3, <1>4, <1>8, <2>1, <2>2 DEF FirstSetup, Keeper!GetReady, Keeper!Goes
    <3> QED
      BY <1>6, <3>1
  <2>3. CASE pc' = "exit"
    <3>1. Keeper!Fail
      BY <1>2, <1>3, <1>4, <1>8, <2>1, <2>3 DEF FirstSetup, Keeper!Fail, Keeper!Goes
    <3> QED
      BY <1>6, <3>1
  <2> QED
    BY <1>8, <2>2, <2>3 DEF FirstSetup
<1>9. CASE LoopTop
  <2>1. /\ pc = "top" /\ ~errorFlag /\ Due = {}
        /\ UNCHANGED <<interrupt, errorFlag, ports, router>>
    BY <1>2, <1>9 DEF LoopTop, Due
  <2>2. CASE interrupt
    <3>1. pc' = "unmap" /\ Due' = {}
      BY <1>9, <2>2 DEF LoopTop, BeginUnmap, Due
    <3> QED
      BY <1>4, <1>5, <2>1, <2>2, <3>1
  <2>3. CASE ~interrupt
    <3>1. pc' \in {"redo", "map"} /\ Due' = ports
      BY <1>9, <2>1, <2>3 DEF LoopTop, Due
    <3>2. Phase = "keeping" /\ Phase' = "keeping" /\ UNCHANGED Opened
      BY <1>4, <2>1, <2>3, <3>1 DEF Opened
    <3>3. ports \subseteq Ports
      BY DEF KeeperInv, IInv, PortsOK
    <3>4. Keeper!BeginPass
      BY <1>3, <2>1, <3>1, <3>2, <3>3 DEF Keeper!BeginPass
    <3> QED
      BY <1>6, <3>4
  <2> QED
    BY <2>2, <2>3
<1>10. CASE RedoSetup
  <2>1. /\ pc = "redo" /\ pc' \in {"map", "wait"} /\ ~errorFlag
        /\ UNCHANGED <<interrupt, errorFlag, ports, router>>
    BY <1>2, <1>10 DEF RedoSetup
  <2>2. Phase' = Phase /\ Phase \in {"keeping", "closing"} /\ UNCHANGED Opened
    BY <1>4, <2>1 DEF Opened
  <2>3. CASE pc' = "map"
    BY <1>5, <1>10, <2>1, <2>2, <2>3 DEF RedoSetup, Due
  <2>4. CASE pc' = "wait"
    <3>1. Keeper!Skip
      BY <1>3, <2>1, <2>2, <2>4 DEF Keeper!Skip, Due
    <3> QED
      BY <1>6, <3>1
  <2> QED
    BY <2>1, <2>3, <2>4
<1>11. CASE MapPort
  <2>1. /\ pc = "map" /\ ~errorFlag /\ UNCHANGED <<interrupt, errorFlag, ports>>
        /\ pc' = IF todo' = {} THEN "wait" ELSE "map"
    BY <1>2, <1>11 DEF MapPort
  <2>2. PICK p \in todo : /\ todo' = todo \ {p}
                          /\ RouterAdds(p) \/ router' = router
    BY <1>11 DEF MapPort, RouterRefuses
  <2>3. Phase' = Phase /\ Phase \in {"keeping", "closing"}
    BY <1>4, <2>1
  <2>4. Due = todo /\ Due' = todo \ {p}
    BY <2>1, <2>2 DEF Due
  <2>5. CASE router' = router
    <3>1. Keeper!Skip
      BY <1>3, <2>3, <2>4, <2>5 DEF Keeper!Skip, Opened
    <3> QED
      BY <1>6, <3>1
  <2>6. CASE RouterAdds(p)
    <3>1. p \in Ports /\ router' = [router EXCEPT ![p] = ctx.lan]
      BY <2>6 DEF RouterAdds, KeeperInv, IInv, PortsOK
    <3>2. ctx.lan # NoAddr
      BY UpnpMgrAssumption, <2>1
         DEF UpnpMgrAssumption, KeeperInv, ClosedInv, OwnInv
    <3>3. router \in [Ports -> Addrs \cup {NoAddr}]
      BY DEF KeeperInv, IInv, RouterOK
    <3>4. Opened' = Opened \cup {p}
      BY <3>1, <3>2, <3>3 DEF Opened
    <3>5. Keeper!Open(p)
      BY <1>3, <2>2, <2>3, <2>4, <3>4 DEF Keeper!Open
    <3> QED
      BY <3>1, <3>5 DEF Keeper!Next
  <2> QED
    BY <2>2, <2>5, <2>6
<1>12. CASE Wake
  <2>1. /\ pc = "wait" /\ ~errorFlag /\ UNCHANGED <<interrupt, errorFlag, router>>
        /\ pc' \in {"unmap", "top"}
    BY <1>2, <1>12 DEF Wake, BeginUnmap
  <2> QED
    BY <1>4, <1>5, <2>1 DEF Due
<1>13. CASE UnmapPort
  <2>1. /\ pc = "unmap" /\ pc' = "unmap" /\ ~errorFlag
        /\ UNCHANGED <<interrupt, errorFlag>>
    BY <1>2, <1>13 DEF UnmapPort
  <2>2. Phase = "closing" /\ Phase' = "closing" /\ Due = {} /\ Due' = {}
    BY <1>2, <1>4, <2>1 DEF Due
  <2>3. CASE router' = router
    BY <1>5, <2>2, <2>3
  <2>4. ASSUME NEW p \in todo, router' = [router EXCEPT ![p] = NoAddr]
        PROVE  Keeper!Next
    <3>1. p \in Ports /\ router \in [Ports -> Addrs \cup {NoAddr}]
      BY DEF KeeperInv, IInv, PortsOK, RouterOK
    <3>2. Opened' = Opened \ {p}
      BY <2>4, <3>1 DEF Opened
    <3>3. Keeper!Close(p)
      BY <1>3, <2>2, <3>2 DEF Keeper!Close
    <3> QED
      BY <3>1, <3>3 DEF Keeper!Next
  <2> QED
    BY <1>13, <2>3, <2>4 DEF UnmapPort
<1>14. CASE UnmapDone
  BY <1>2, <1>4, <1>5, <1>14 DEF UnmapDone, Due
<1>15. CASE ExitInterrupt
  BY <1>2, <1>4, <1>5, <1>15 DEF ExitInterrupt, Due
<1>16. CASE CallbackReturns \/ ExitClear
  BY <1>2, <1>4, <1>5, <1>16 DEF CallbackReturns, ExitClear, Due
<1> QED
  BY <1>1, <1>7, <1>8, <1>9, <1>10, <1>11, <1>12, <1>13, <1>14, <1>15, <1>16
     DEF RunStep

\* A signal that kills the process finds nothing open, and no thread.
LEMMA KillRefines ==
  ASSUME HandlerPersists, KeeperInv, HandledInv',
         NEW sig \in Range(Signals), SignalKills(sig)
  PROVE  Keeper!Next
<1>1. /\ Running /\ main' = "killed" /\ UNCHANGED <<pc, router>>
  BY DEF SignalKills, mgrVars, runVars, envVars
<1>2. pc = "none"
  BY <1>1 DEF HandledInv
<1>3. Opened = {} /\ Opened' = {} /\ Due = {} /\ Due' = {}
  BY <1>1, <1>2, NothingOpened DEF LoopPcs, Opened, Due
<1>4. Phase \in {"reading", "preparing", "closing", "failed"}
  BY <1>1, <1>2, PhaseWithoutThread
<1>5. Phase' = "ended" /\ Status' = "killed"
  BY <1>1 DEF Phase, Status, Running, EndPcs
<1>6. Keeper!Kill
  BY <1>3, <1>4, <1>5 DEF Keeper!Kill, Keeper!Ends
<1> QED
  BY <1>6 DEF Keeper!Next

\* Every step of the program is one of PortKeeper's, or one it does not see.
LEMMA StepRefines ==
  ASSUME Harmless, HandlerPersists, KeeperInv, HandledInv', [Next]_vars
  PROVE  Keeper!Next \/ UNCHANGED Seen
<1>1. CASE \/ ParseArgs \/ StartNetworking \/ MakeSem \/ InstallHandler
           \/ StartManager \/ StartThrows
  BY <1>1, BeginningRefines
<1>2. CASE InManager
  BY <1>2, InManagerRefines
<1>3. CASE \/ Acquire \/ AcquireFails \/ CloseScope \/ RestoreHandler
           \/ ReadExitCode \/ DestroyManager \/ FreeSem
  BY <1>3, EndingRefines
<1>4. CASE UpnpStep
  BY <1>4, UpnpRefines
<1>5. CASE CallbackStep
  BY <1>5, QuietStep
     DEF CallbackStep, CallbackStore, CallbackCas, CallbackRelease, mgrVars,
         memberVars, runVars, envVars, mainVars, exitVars
<1>6. CASE HandlerStep
  BY <1>6, QuietStep
     DEF HandlerStep, HandlerCas, HandlerRelease, mgrVars, memberVars, runVars,
         envVars, mainVars, exitVars
<1>7. ASSUME NEW sig \in Range(Signals), SignalKills(sig) PROVE Keeper!Next
  BY <1>7, KillRefines
<1>8. ASSUME NEW sig, NEW t, SignalHandled(sig, t) PROVE UNCHANGED Seen
  BY <1>8, QuietStep
     DEF SignalHandled, Interrupts, mgrVars, memberVars, runVars, envVars,
         exitVars, Running, EndPcs, BeforeStart
<1>9. CASE Environment
  <2>1. UNCHANGED <<main, code, interrupt, ports, pc, errorFlag, todo>>
    BY <1>9 DEF Environment, Reboot, HostMoves, cliVars, mainVars, exitVars,
                memberVars, runVars
  <2>2. CASE Reboot
    <3>1. Keeper!LoseAll
      BY <2>1, <2>2 DEF Reboot, Keeper!LoseAll, Phase, Due, Opened, Status, Running
    <3> QED
      BY <3>1 DEF Keeper!Next
  <2>3. CASE HostMoves
    BY <2>1, <2>3, QuietStep DEF HostMoves
  <2> QED
    BY <1>9, <2>2, <2>3 DEF Environment
<1>10. CASE UNCHANGED vars
  BY <1>10, QuietStep
     DEF vars, cliVars, mgrVars, memberVars, runVars, envVars, mainVars, exitVars
<1> QED
  BY <1>1, <1>2, <1>3, <1>4, <1>5, <1>6, <1>7, <1>8, <1>9, <1>10
     DEF Next, MainStep, Ended

\* The program keeps its promise (README.md:21-23, upnpmgr.cpp:150-203,
\* main.cpp:57-123): from the moment the UPnP thread is told to stop, it finishes
\* the pass that is under way and begins no other, nothing is opened once it has
\* begun to close, nothing is left open at the end, and the exit status tells
\* whether a router was found; for any number of ports and signals, as long as
\* handlers persist and the faults are harmless.
THEOREM ProgramKeepsPromise ==
  ASSUME Harmless, HandlerPersists PROVE Spec => KeepsPromise
<1>1. Init => Keeper!Init
  BY DEF Init, MgrInit, Keeper!Init, Phase, Due, Opened, Status, Running, EndPcs
<1>2. KeeperInv /\ HandledInv' /\ [Next]_vars => [Keeper!Next]_(Keeper!keeperVars)
  BY StepRefines DEF Seen, Keeper!keeperVars
<1>3. MgrSpec => []ClosedInv
  BY ClosedInvariance
<1>4. KeeperInv <=> IInv /\ ClosedInv /\ HeededInv /\ CliIInv /\ HandledInv
  BY DEF KeeperInv
<1> QED
  BY <1>1, <1>2, <1>3, <1>4, UsesManager, ManagerInvariance, HeededInvariance,
     CliInvariance, HandledInvariance, PTL DEF Spec, KeepsPromise, Keeper!Spec
=============================================================================
