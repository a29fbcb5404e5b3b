---------------------------- MODULE UpnpMgrProofs ----------------------------
(***************************************************************************)
(* UpnpMgr, for any ports, addresses, faults and vectors given to start(). *)
(***************************************************************************)
EXTENDS UpnpMgr, FiniteSetTheorems, TLAPS

(* The inductive invariant *)

\* MgrTypeOK in parts that are preserved one without the other.
FlagsOK ==
  /\ interrupt \in BOOLEAN
  /\ errorCallback \in BOOLEAN
  /\ errorFlag \in BOOLEAN
  /\ again \in BOOLEAN

PlacesOK ==
  /\ client \in ClientPcs
  /\ request \in PortVecs \cup {NoRequest}
  /\ pc \in {"none", "finished"} \cup LivePcs
  /\ wait_time \in {ShortWait, LongWait}

\* Outside of the loop nothing is mapped or left to do, so that a start() which
\* fails may replace the ports.
PortsOK ==
  /\ ports \subseteq Ports
  /\ mappedPorts \subseteq ports
  /\ todo \subseteq ports
  /\ pc \notin LoopPcs => mappedPorts = {} /\ todo = {}

CtxOK == ctx \in [url : BOOLEAN, lan : Addrs \cup {NoAddr}]
RouterOK == router \in [Ports -> Addrs \cup {NoAddr}]
HostOK == host \in Addrs

CountersOK ==
  /\ faults \in 0 .. MaxFaults
  /\ dark \in 0 .. DarkCap

\* start() still has its vector when it is about to use it.
RequestThere == client = "spawn" => request \in PortVecs

\* The client and the thread keep out of each other's way.
OwnershipInv ==
  /\ ClientOwnsMembers
  /\ StopNotLost
  /\ NoStaleInterrupt
  /\ client = "spawn" => ~interrupt

\* There is a callback until the thread is through with it: ErrorReportedOnce
\* would not be preserved by ExitInterrupt without it.  A run has failed until
\* it is ready.
ErrorInv ==
  /\ callbacks \in {0, 1}
  /\ pc \in {"begin", "setup"} => errorFlag
  /\ pc \in LivePcs => errorCallback
  /\ ErrorReportedOnce

\* When the context may be thrown away, and that it is there where ports are
\* about to be mapped: what CleanupCanReach rests on.
ContextInv ==
  /\ pc \in {"begin", "setup", "redo"} => mappedPorts = {}
  /\ pc = "map" \/ (pc = "top" /\ ~again) => ctx.url
  /\ pc \in {"redo", "map", "wait"} => again
  /\ CleanupCanReach

IInv ==
  /\ FlagsOK /\ PlacesOK /\ PortsOK
  /\ CtxOK /\ RouterOK /\ HostOK /\ CountersOK
  /\ RequestThere
  /\ OwnershipInv
  /\ ErrorInv
  /\ ContextInv

-----------------------------------------------------------------------------
(* Each part is preserved by every step: by those that change its variables, *)
(* one by one, and by all the others because they do not.                    *)

\* The flags stay Booleans.
LEMMA FlagsStep ==
  ASSUME FlagsOK, MgrNext PROVE FlagsOK'
<1> USE DEF FlagsOK, clientVars, memberVars, runVars, envVars
<1>1. CASE StopInterrupt
  BY Zenon, <1>1 DEF StopInterrupt
<1>2. CASE StopReset
  BY Zenon, <1>2 DEF StopReset
<1>3. CASE StartSpawn
  BY Zenon, <1>3 DEF StartSpawn
<1>4. CASE FirstSetup
  BY Zenon, <1>4 DEF FirstSetup
<1>5. CASE LoopTop
  BY Zenon, <1>5 DEF LoopTop
<1>6. CASE ExitInterrupt
  BY Zenon, <1>6 DEF ExitInterrupt
<1>7. CASE ExitClear
  BY Zenon, <1>7 DEF ExitClear
<1>8. CASE SpawnFails
  BY Zenon, <1>8 DEF SpawnFails
<1>9. CASE UNCHANGED <<interrupt, errorCallback, errorFlag, again>>
  BY <1>9
<1> QED
  BY <1>1, <1>2, <1>3, <1>4, <1>5, <1>6, <1>7, <1>8, <1>9
     DEF MgrNext, ClientStep, RunStep, Fault, CallStart, CallStop, StopJoin,
         RunBegin, RedoSetup, MapPort, Wake, UnmapPort, UnmapDone,
         CallbackReturns, Reboot, HostMoves

\* Both threads stay in their code.
LEMMA PlacesStep ==
  ASSUME PlacesOK, MgrNext PROVE PlacesOK'
<1> USE DEF PlacesOK, ClientPcs, LivePcs, LoopPcs, clientVars, memberVars,
            runVars, envVars
<1>1. ASSUME NEW pv \in PortVecs, CallStart(pv) PROVE PlacesOK'
  BY <1>1 DEF CallStart
<1>2. CASE CallStop
  BY <1>2 DEF CallStop
<1>3. CASE StopInterrupt
  BY <1>3 DEF StopInterrupt
<1>4. CASE StopJoin
  BY <1>4 DEF StopJoin
<1>5. CASE StopReset
  BY <1>5 DEF StopReset
<1>6. CASE StartSpawn
  BY <1>6 DEF StartSpawn
<1>7. CASE RunBegin
  BY <1>7 DEF RunBegin
<1>8. CASE FirstSetup
  BY <1>8 DEF FirstSetup
<1>9. CASE LoopTop
  BY <1>9 DEF LoopTop, BeginUnmap
<1>10. CASE RedoSetup
  BY <1>10 DEF RedoSetup
<1>11. CASE MapPort
  BY <1>11 DEF MapPort, PickWait
<1>12. CASE Wake
  BY <1>12 DEF Wake, BeginUnmap
<1>13. CASE UnmapDone
  BY <1>13 DEF UnmapDone
<1>14. CASE ExitInterrupt
  BY <1>14 DEF ExitInterrupt
<1>15. CASE CallbackReturns
  BY <1>15 DEF CallbackReturns
<1>16. CASE ExitClear
  BY <1>16 DEF ExitClear
<1>17. CASE SpawnFails
  BY <1>17 DEF SpawnFails
<1>18. CASE UNCHANGED <<client, request, pc, wait_time>>
  BY <1>18
<1> QED
  BY <1>1, <1>2, <1>3, <1>4, <1>5, <1>6, <1>7, <1>8, <1>9, <1>10, <1>11,
     <1>12, <1>13, <1>14, <1>15, <1>16, <1>17, <1>18
     DEF MgrNext, ClientStep, RunStep, Fault, UnmapPort, Reboot, HostMoves

\* A request is there until it has been served.
LEMMA RequestStep ==
  ASSUME PlacesOK, RequestThere, MgrNext PROVE RequestThere'
<1> USE DEF PlacesOK, RequestThere, clientVars, memberVars, runVars, envVars
<1>1. ASSUME NEW pv \in PortVecs, CallStart(pv) PROVE RequestThere'
  BY <1>1 DEF CallStart
<1>2. CASE CallStop
  BY <1>2 DEF CallStop
<1>3. CASE StopInterrupt
  BY <1>3 DEF StopInterrupt
<1>4. CASE StopJoin
  BY <1>4 DEF StopJoin
<1>5. CASE StopReset
  BY <1>5 DEF StopReset
<1>6. CASE StartSpawn
  BY <1>6 DEF StartSpawn
<1>7. CASE SpawnFails
  BY <1>7 DEF SpawnFails
<1>8. CASE UNCHANGED <<client, request>>
  BY <1>8
<1> QED
  BY <1>1, <1>2, <1>3, <1>4, <1>5, <1>6, <1>7, <1>8
     DEF MgrNext, ClientStep, RunStep, Fault, RunBegin, FirstSetup, LoopTop,
         RedoSetup, MapPort, Wake, UnmapPort, UnmapDone, ExitInterrupt,
         CallbackReturns, ExitClear, Reboot, HostMoves

\* Only ports that were asked for are mapped.
LEMMA PortsStep ==
  ASSUME RequestThere, OwnershipInv, PortsOK, MgrNext PROVE PortsOK'
<1> USE DEF RequestThere, PortsOK, LoopPcs, clientVars, memberVars, runVars, envVars
<1>1. client = "spawn" => Range(request) \subseteq Ports /\ pc = "none"
  BY UpnpMgrAssumption DEF UpnpMgrAssumption, OwnershipInv, ClientOwnsMembers
<1>2. CASE StartSpawn
  BY <1>1, <1>2 DEF StartSpawn
<1>3. CASE SpawnFails
  BY <1>1, <1>3 DEF SpawnFails
<1>4. CASE StopJoin
  BY <1>4 DEF StopJoin
<1>5. CASE RunBegin
  BY <1>5 DEF RunBegin
<1>6. CASE FirstSetup
  BY <1>6 DEF FirstSetup
<1>7. CASE LoopTop
  BY <1>7 DEF LoopTop, BeginUnmap
<1>8. CASE RedoSetup
  BY <1>8 DEF RedoSetup
<1>9. CASE MapPort
  BY <1>9 DEF MapPort
<1>10. CASE Wake
  BY <1>10 DEF Wake, BeginUnmap
<1>11. CASE UnmapPort
  BY <1>11 DEF UnmapPort
<1>12. CASE UnmapDone
  BY <1>12 DEF UnmapDone
<1>13. CASE ExitInterrupt \/ CallbackReturns \/ ExitClear
  BY <1>13 DEF ExitInterrupt, CallbackReturns, ExitClear
<1>14. CASE UNCHANGED <<pc, ports, mappedPorts, todo>>
  BY <1>14
<1> QED
  BY <1>2, <1>3, <1>4, <1>5, <1>6, <1>7, <1>8, <1>9, <1>10, <1>11, <1>12,
     <1>13, <1>14
     DEF MgrNext, ClientStep, RunStep, Fault, CallStart, CallStop,
         StopInterrupt, StopReset, Reboot, HostMoves

\* The context.
LEMMA ContextTypeStep ==
  ASSUME CtxOK, HostOK, MgrNext PROVE CtxOK'
<1> USE DEF CtxOK, HostOK, clientVars, memberVars, runVars, envVars
<1>1. CASE StartSpawn
  BY <1>1 DEF StartSpawn, NoCtx
<1>2. CASE FirstSetup
  <2>1. CASE ctx' = [url |-> TRUE, lan |-> host]
    BY <2>1
  <2>2. CASE ctx' = NoCtx
    BY <2>2 DEF NoCtx
  <2> QED
    BY <1>2, <2>1, <2>2 DEF FirstSetup, SetupSucceeds
<1>3. CASE RedoSetup
  <2>1. CASE ctx' = [url |-> TRUE, lan |-> host]
    BY <2>1
  <2>2. CASE ctx' \in [url : BOOLEAN, lan : {NoAddr, host}]
    BY <2>2
  <2> QED
    BY <1>3, <2>1, <2>2 DEF RedoSetup, SetupSucceeds, SetupFails
<1>4. CASE UnmapDone
  BY <1>4 DEF UnmapDone, NoCtx
<1>5. CASE UNCHANGED <<ctx>>
  BY <1>5
<1> QED
  BY <1>1, <1>2, <1>3, <1>4, <1>5
     DEF MgrNext, ClientStep, SpawnFails, RunStep, Fault, CallStart, CallStop,
         StopInterrupt, StopJoin, StopReset, RunBegin, LoopTop, MapPort,
         Wake, UnmapPort, ExitInterrupt, CallbackReturns, ExitClear, Reboot,
         HostMoves

\* The router's table.
LEMMA RouterStep ==
  ASSUME CtxOK, RouterOK, MgrNext PROVE RouterOK'
<1> USE DEF CtxOK, RouterOK, clientVars, memberVars, runVars, envVars
<1>1. CASE MapPort
  BY <1>1 DEF MapPort, RouterAdds, RouterRefuses
<1>2. CASE UnmapPort
  BY <1>2 DEF UnmapPort
<1>3. CASE Reboot
  BY <1>3 DEF Reboot
<1>4. CASE UNCHANGED <<router>>
  BY <1>4
<1> QED
  BY <1>1, <1>2, <1>3, <1>4
     DEF MgrNext, ClientStep, SpawnFails, RunStep, Fault, CallStart, CallStop,
         StopInterrupt, StopJoin, StopReset, StartSpawn, RunBegin,
         FirstSetup, LoopTop, RedoSetup, Wake, UnmapDone, ExitInterrupt,
         CallbackReturns, ExitClear, HostMoves

\* The host's address.
LEMMA HostStep ==
  ASSUME HostOK, MgrNext PROVE HostOK'
<1> USE DEF HostOK, clientVars, memberVars, runVars, envVars
<1>1. CASE HostMoves
  BY <1>1 DEF HostMoves
<1>2. CASE UNCHANGED <<host>>
  BY <1>2
<1> QED
  BY <1>1, <1>2
     DEF MgrNext, ClientStep, SpawnFails, RunStep, Fault, CallStart, CallStop,
         StopInterrupt, StopJoin, StopReset, StartSpawn, RunBegin,
         FirstSetup, LoopTop, RedoSetup, MapPort, Wake, UnmapPort, UnmapDone,
         ExitInterrupt, CallbackReturns, ExitClear, Reboot

\* The bounded counters.
LEMMA CountersStep ==
  ASSUME PlacesOK, CountersOK, MgrNext PROVE CountersOK'
<1> USE DEF CountersOK, Fault, clientVars, memberVars, runVars, envVars
<1>1. CASE StartSpawn
  BY UpnpMgrAssumption, <1>1 DEF StartSpawn, UpnpMgrAssumption
<1>2. CASE FirstSetup
  BY UpnpMgrAssumption, <1>2 DEF FirstSetup, SetupSucceeds, UpnpMgrAssumption
<1>3. CASE RedoSetup
  BY UpnpMgrAssumption, <1>3 DEF RedoSetup, SetupFails, SetupSucceeds,
         UpnpMgrAssumption
<1>4. CASE MapPort
  BY UpnpMgrAssumption, <1>4 DEF MapPort, RouterAdds, RouterRefuses,
         UpnpMgrAssumption
<1>5. CASE Wake
  BY UpnpMgrAssumption, <1>5 DEF Wake, UpnpMgrAssumption, PlacesOK, LongWait,
         ShortWait
<1>6. CASE UnmapPort
  BY UpnpMgrAssumption, <1>6 DEF UnmapPort, UpnpMgrAssumption
<1>7. CASE Reboot
  BY UpnpMgrAssumption, <1>7 DEF Reboot, UpnpMgrAssumption
<1>8. CASE HostMoves
  BY UpnpMgrAssumption, <1>8 DEF HostMoves, UpnpMgrAssumption
<1>9. CASE SpawnFails
  BY UpnpMgrAssumption, <1>9 DEF SpawnFails, UpnpMgrAssumption
<1>10. CASE UNCHANGED <<faults, dark>>
  BY <1>10
<1> QED
  BY <1>1, <1>2, <1>3, <1>4, <1>5, <1>6, <1>7, <1>8, <1>9, <1>10
     DEF MgrNext, ClientStep, RunStep, Fault, CallStart, CallStop,
         StopInterrupt, StopJoin, StopReset, RunBegin, LoopTop, UnmapDone,
         ExitInterrupt, CallbackReturns, ExitClear

\* No step counts two faults.
LEMMA FaultsCounted ==
  ASSUME MgrNext PROVE faults' \in {faults, faults + 1}
BY DEF MgrNext, ClientStep, RunStep, Fault, CallStart, CallStop, StopInterrupt,
       StopJoin, StopReset, StartSpawn, SpawnFails, RunBegin, FirstSetup,
       SetupSucceeds, SetupFails, LoopTop, RedoSetup, MapPort, RouterAdds,
       RouterRefuses, Wake, UnmapPort, UnmapDone, ExitInterrupt, CallbackReturns,
       ExitClear, Reboot, HostMoves, envVars

\* The client and the thread keep out of each other's way.
LEMMA OwnershipStep ==
  ASSUME OwnershipInv, MgrNext PROVE OwnershipInv'
<1> USE DEF OwnershipInv, ClientOwnsMembers, StopNotLost, NoStaleInterrupt,
            LoopPcs, clientVars, memberVars, runVars, envVars
<1>1. ASSUME NEW pv \in PortVecs, CallStart(pv) PROVE OwnershipInv'
  BY <1>1 DEF CallStart
<1>2. CASE CallStop
  BY <1>2 DEF CallStop
<1>3. CASE StopInterrupt
  BY <1>3 DEF StopInterrupt
<1>4. CASE StopJoin
  BY <1>4 DEF StopJoin
<1>5. CASE StopReset
  BY <1>5 DEF StopReset
<1>6. CASE StartSpawn
  BY <1>6 DEF StartSpawn
<1>7. CASE RunBegin
  BY <1>7 DEF RunBegin
<1>8. CASE FirstSetup
  BY <1>8 DEF FirstSetup
<1>9. CASE LoopTop
  BY <1>9 DEF LoopTop
<1>10. CASE RedoSetup
  BY <1>10 DEF RedoSetup
<1>11. CASE MapPort
  BY <1>11 DEF MapPort
<1>12. CASE Wake
  BY <1>12 DEF Wake, BeginUnmap
<1>13. CASE UnmapDone
  BY <1>13 DEF UnmapDone
<1>14. CASE ExitInterrupt
  BY <1>14 DEF ExitInterrupt
<1>15. CASE CallbackReturns
  BY <1>15 DEF CallbackReturns
<1>16. CASE ExitClear
  BY <1>16 DEF ExitClear
<1>17. CASE SpawnFails
  BY <1>17 DEF SpawnFails
<1>18. CASE UNCHANGED <<client, pc, interrupt>>
  BY <1>18
<1> QED
  BY <1>1, <1>2, <1>3, <1>4, <1>5, <1>6, <1>7, <1>8, <1>9, <1>10, <1>11,
     <1>12, <1>13, <1>14, <1>15, <1>16, <1>17, <1>18
     DEF MgrNext, ClientStep, RunStep, Fault, UnmapPort, Reboot, HostMoves

\* The callback, and what it is told.
LEMMA ErrorStep ==
  ASSUME OwnershipInv, ErrorInv, MgrNext PROVE ErrorInv'
<1> USE DEF OwnershipInv, ErrorInv, ClientOwnsMembers, ErrorReportedOnce,
            LivePcs, LoopPcs, clientVars, memberVars, runVars, envVars
<1>1. CASE StopJoin
  BY <1>1 DEF StopJoin
<1>2. CASE StopReset
  BY <1>2 DEF StopReset
<1>3. CASE StartSpawn
  BY <1>3 DEF StartSpawn
<1>4. CASE RunBegin
  BY <1>4 DEF RunBegin
<1>5. CASE FirstSetup
  BY <1>5 DEF FirstSetup
<1>6. CASE LoopTop
  BY <1>6 DEF LoopTop, BeginUnmap
<1>7. CASE RedoSetup
  BY <1>7 DEF RedoSetup
<1>8. CASE MapPort
  BY <1>8 DEF MapPort
<1>9. CASE Wake
  BY <1>9 DEF Wake, BeginUnmap
<1>10. CASE UnmapDone
  BY <1>10 DEF UnmapDone
<1>11. CASE ExitInterrupt
  BY <1>11 DEF ExitInterrupt, ReportsError
<1>12. CASE CallbackReturns
  BY <1>12 DEF CallbackReturns
<1>13. CASE ExitClear
  BY <1>13 DEF ExitClear
<1>14. CASE SpawnFails
  BY <1>14 DEF SpawnFails
<1>15. CASE UNCHANGED <<pc, errorCallback, errorFlag, callbacks>>
  BY <1>15
<1> QED
  BY <1>1, <1>2, <1>3, <1>4, <1>5, <1>6, <1>7, <1>8, <1>9, <1>10, <1>11,
     <1>12, <1>13, <1>14, <1>15
     DEF MgrNext, ClientStep, RunStep, Fault, CallStart, CallStop,
         StopInterrupt, UnmapPort, Reboot, HostMoves

\* The context, and what is mapped through it.
LEMMA ContextStep ==
  ASSUME ContextInv, MgrNext PROVE ContextInv'
<1> USE DEF ContextInv, CleanupCanReach, clientVars, memberVars, runVars,
            envVars
<1>1. CASE StopJoin
  BY <1>1 DEF StopJoin
<1>2. CASE StartSpawn
  BY <1>2 DEF StartSpawn, NoCtx
<1>3. CASE RunBegin
  BY <1>3 DEF RunBegin
<1>4. CASE FirstSetup
  BY <1>4 DEF FirstSetup, SetupSucceeds, NoCtx
<1>5. CASE LoopTop
  BY <1>5 DEF LoopTop, BeginUnmap, MustRedo
<1>6. CASE RedoSetup
  BY <1>6 DEF RedoSetup, SetupSucceeds, SetupFails
<1>7. CASE MapPort
  BY <1>7 DEF MapPort
<1>8. CASE Wake
  BY <1>8 DEF Wake, BeginUnmap
<1>9. CASE UnmapDone
  BY <1>9 DEF UnmapDone, NoCtx
<1>10. CASE ExitInterrupt
  BY <1>10 DEF ExitInterrupt
<1>11. CASE CallbackReturns
  BY <1>11 DEF CallbackReturns
<1>12. CASE ExitClear
  BY <1>12 DEF ExitClear
<1>13. CASE UNCHANGED <<pc, again, mappedPorts, ctx>>
  BY <1>13
<1> QED
  BY <1>1, <1>2, <1>3, <1>4, <1>5, <1>6, <1>7, <1>8, <1>9, <1>10, <1>11,
     <1>12, <1>13
     DEF MgrNext, ClientStep, SpawnFails, RunStep, Fault, CallStart, CallStop,
         StopInterrupt, StopReset, UnmapPort, Reboot, HostMoves

-----------------------------------------------------------------------------
(* The theorems *)

\* A new manager, with no thread.
LEMMA InitIInv == MgrInit => IInv
<1> SUFFICES ASSUME MgrInit PROVE IInv
  OBVIOUS
<1> USE DEF MgrInit
<1>1. FlagsOK
  BY Zenon DEF FlagsOK
<1>2. PlacesOK /\ PortsOK /\ RequestThere
  BY DEF PlacesOK, PortsOK, RequestThere, ClientPcs
<1>3. CtxOK /\ HostOK
  BY DEF CtxOK, HostOK, NoCtx
<1>4. RouterOK
  BY DEF RouterOK
<1>5. CountersOK
  BY UpnpMgrAssumption DEF CountersOK, UpnpMgrAssumption
<1>6. OwnershipInv
  BY DEF OwnershipInv, ClientOwnsMembers, StopNotLost, NoStaleInterrupt, LoopPcs
<1>7. ErrorInv
  BY DEF ErrorInv, ErrorReportedOnce, LivePcs, LoopPcs
<1>8. ContextInv
  BY DEF ContextInv, CleanupCanReach
<1> QED
  BY <1>1, <1>2, <1>3, <1>4, <1>5, <1>6, <1>7, <1>8 DEF IInv

\* The invariant is about the variables only.
LEMMA StutterIInv == IInv /\ UNCHANGED mgrVars => IInv'
<1> SUFFICES ASSUME IInv, UNCHANGED mgrVars PROVE IInv'
  OBVIOUS
<1> USE DEF mgrVars, clientVars, memberVars, runVars, envVars
<1>1. (FlagsOK /\ PlacesOK /\ PortsOK /\ RequestThere)'
  BY DEF IInv, FlagsOK, PlacesOK, PortsOK, RequestThere
<1>2. (CtxOK /\ RouterOK /\ HostOK /\ CountersOK)'
  BY DEF IInv, CtxOK, RouterOK, HostOK, CountersOK
<1>3. (OwnershipInv /\ ErrorInv /\ ContextInv)'
  BY DEF IInv, OwnershipInv, ErrorInv, ContextInv, ClientOwnsMembers,
         StopNotLost, NoStaleInterrupt, ErrorReportedOnce, CleanupCanReach
<1> QED
  BY <1>1, <1>2, <1>3 DEF IInv

\* Every step preserves every part of the invariant.
LEMMA StepIInv == IInv /\ [MgrNext]_mgrVars => IInv'
<1>1. ASSUME IInv, MgrNext PROVE IInv'
  BY <1>1, FlagsStep, PlacesStep, RequestStep, PortsStep, ContextTypeStep,
     RouterStep, HostStep, CountersStep, OwnershipStep, ErrorStep, ContextStep
     DEF IInv
<1> QED
  BY <1>1, StutterIInv

\* The invariant holds in every behaviour.
LEMMA Invariance == MgrSpec => []IInv
  BY InitIInv, StepIInv, PTL DEF MgrSpec

\* The type invariant of the manager, its thread and its environment.
THEOREM MgrTypeCorrect == MgrSpec => []MgrTypeOK
<1>1. IInv => MgrTypeOK
  BY DEF IInv, MgrTypeOK, FlagsOK, PlacesOK, PortsOK, CtxOK, RouterOK, HostOK,
         CountersOK, ErrorInv
<1> QED
  BY <1>1, Invariance, PTL

\* As long as anything is believed to be mapped, the clean-up can unmap it
\* (upnpmgr.cpp:152-161), however often the context was redone (172-175).
THEOREM CleanupAlwaysReaches == MgrSpec => []CleanupCanReach
  BY Invariance, PTL DEF IInv, ContextInv

\* stop() and start() write the members that are not atomic, and reset the
\* flag, only while there is no thread (upnpmgr.cpp:18-47).
THEOREM MembersNotShared == MgrSpec => []ClientOwnsMembers
  BY Invariance, PTL DEF IInv, OwnershipInv

\* A stop() that waits for the thread has told it so, and nobody has taken it
\* back (upnpmgr.cpp:41-45, 53).
THEOREM StopRemembered == MgrSpec => []StopNotLost
  BY Invariance, PTL DEF IInv, OwnershipInv

\* A thread that works is not made to end by what an earlier one left behind,
\* whatever start() and stop() came before (upnpmgr.cpp:20, 45, 53).
THEOREM RunsNotCutShort == MgrSpec => []NoStaleInterrupt
  BY Invariance, PTL DEF IInv, OwnershipInv

\* Every run of the thread that fails to get ready invokes the callback once,
\* every other run never (upnpmgr.cpp:51-58, 148, 163).
THEOREM ErrorsReportedOnce == MgrSpec => []ErrorReportedOnce
  BY Invariance, PTL DEF IInv, ErrorInv

-----------------------------------------------------------------------------
(* Being told to stop *)

\* Every step of a thread that has been told to stop goes towards its end, and
\* no step of others takes it elsewhere.
LEMMA StopStep ==
  ASSUME IInv, interrupt, pc \in LivePcs, MgrNext
  PROVE  \/ UNCHANGED runVars
         \/ WayOut[pc'] < WayOut[pc]
         \/ pc' = pc /\ todo' \subseteq todo /\ todo' # todo
<1> USE DEF WayOut, LivePcs, LoopPcs
<1>1. CASE RunBegin \/ FirstSetup \/ LoopTop \/ RedoSetup \/ Wake
  BY <1>1 DEF RunBegin, FirstSetup, LoopTop, RedoSetup, Wake, BeginUnmap
<1>2. CASE MapPort
  BY <1>2 DEF MapPort
<1>3. CASE UnmapPort
  BY <1>3 DEF UnmapPort
<1>4. CASE UnmapDone \/ CallbackReturns \/ ExitClear
  <2>1. \/ pc = "unmap" /\ pc' = "exit"
        \/ pc = "callback" /\ pc' = "clear"
        \/ pc = "clear" /\ pc' = "finished"
    BY Zenon, <1>4 DEF UnmapDone, CallbackReturns, ExitClear
  <2> QED
    BY <2>1
<1>5. CASE ExitInterrupt
  <2>1. pc = "exit" /\ pc' \in {"callback", "clear"}
    BY Zenon, <1>5 DEF ExitInterrupt
  <2> QED
    BY <2>1
<1>6. ~StopJoin /\ ~StartSpawn
  BY DEF StopJoin, StartSpawn, IInv, OwnershipInv, ClientOwnsMembers
<1>7. CASE UNCHANGED runVars
  BY <1>7
<1> QED
  BY <1>1, <1>2, <1>3, <1>4, <1>5, <1>6, <1>7
     DEF MgrNext, ClientStep, SpawnFails, RunStep, CallStart, CallStop,
         StopInterrupt, StopReset, Reboot, HostMoves

\* A thread that has been told to stop only goes towards its end, for any
\* number of ports and whatever the router does (upnpmgr.cpp:169-203).
THEOREM StopsAreHeeded == MgrSpec => StopHeeded
<1>1. IInv /\ [MgrNext]_mgrVars =>
        [interrupt /\ pc \in LivePcs =>
           \/ UNCHANGED runVars
           \/ WayOut[pc'] < WayOut[pc]
           \/ pc' = pc /\ todo' \subseteq todo /\ todo' # todo]_mgrVars
  BY StopStep
<1> QED
  BY <1>1, Invariance, PTL DEF MgrSpec, StopHeeded

\* Only a thread that was told to stop, or never got ready, is on its way out.
HeededInv ==
  pc \in {"unmap", "exit", "callback", "clear", "finished"} => interrupt \/ errorFlag

\* Every step keeps it so: the flag is only reset when there is no thread.
LEMMA HeededStep ==
  ASSUME IInv, HeededInv, MgrNext PROVE HeededInv'
<1> USE DEF HeededInv, clientVars, memberVars, runVars, envVars
<1>1. CASE StopInterrupt
  BY <1>1 DEF StopInterrupt
<1>2. CASE StopReset
  BY <1>2 DEF StopReset, IInv, OwnershipInv, ClientOwnsMembers
<1>3. CASE StopJoin \/ StartSpawn
  BY <1>3 DEF StopJoin, StartSpawn
<1>4. CASE RunBegin \/ FirstSetup
  BY <1>4 DEF RunBegin, FirstSetup, IInv, ErrorInv
<1>5. CASE LoopTop \/ Wake
  BY <1>5 DEF LoopTop, Wake, BeginUnmap
<1>6. CASE RedoSetup \/ MapPort
  BY <1>6 DEF RedoSetup, MapPort
<1>7. CASE UnmapPort \/ UnmapDone
  BY <1>7 DEF UnmapPort, UnmapDone
<1>8. CASE ExitInterrupt
  BY <1>8 DEF ExitInterrupt
<1>9. CASE CallbackReturns \/ ExitClear
  BY <1>9 DEF CallbackReturns, ExitClear
<1>10. CASE UNCHANGED <<pc, interrupt, errorFlag>>
  BY <1>10
<1> QED
  BY <1>1, <1>2, <1>3, <1>4, <1>5, <1>6, <1>7, <1>8, <1>9, <1>10
     DEF MgrNext, ClientStep, SpawnFails, RunStep, CallStart, CallStop, Reboot,
         HostMoves

\* It holds in every behaviour.
LEMMA HeededInvariance == MgrSpec => []HeededInv
<1>1. MgrInit => HeededInv
  BY DEF MgrInit, HeededInv
<1>2. IInv /\ HeededInv /\ [MgrNext]_mgrVars => HeededInv'
  <2>1. ASSUME HeededInv, UNCHANGED mgrVars PROVE HeededInv'
    BY <2>1 DEF HeededInv, mgrVars, memberVars, runVars
  <2> QED
    BY <2>1, HeededStep
<1> QED
  BY <1>1, <1>2, Invariance, PTL DEF MgrSpec

-----------------------------------------------------------------------------
(* What stays open *)

\* A host with a new address can close what it has opened where the router does
\* not ask who is asking.
CanClose == SecureRouter => "hostMoves" \notin Faults

\* What is open can be closed by this host, the context has an address that may
\* be mapped whenever that matters, and it is the one that was mapped: a port that
\* is refused for the address it has been mapped for was forgotten before.
OwnInv ==
  /\ \A p \in Ports : router[p] # NoAddr => Authorised(router[p])
  /\ mappedPorts # {} \/ pc = "map" \/ (pc = "top" /\ ~again) =>
       ctx.lan \in Addrs /\ Authorised(ctx.lan)
  /\ \A p \in mappedPorts : router[p] \in {NoAddr, ctx.lan}

\* Where the host can close its ports, it always can.
LEMMA OwnStep ==
  ASSUME CanClose, IInv, OwnInv, MgrNext PROVE OwnInv'
<1> USE DEF OwnInv, Authorised, clientVars, memberVars, runVars, envVars
<1>0. mappedPorts \subseteq Ports
  BY DEF IInv, PortsOK
<1>1. CASE StopJoin
  BY <1>1 DEF StopJoin
<1>2. CASE StartSpawn
  BY <1>2 DEF StartSpawn
<1>3. CASE RunBegin
  BY <1>3 DEF RunBegin
<1>4. CASE FirstSetup
  BY <1>4 DEF FirstSetup, SetupSucceeds, IInv, HostOK, ContextInv
<1>5. CASE LoopTop
  BY <1>5 DEF LoopTop, BeginUnmap, MustRedo
<1>6. CASE RedoSetup
  BY <1>6 DEF RedoSetup, SetupSucceeds, SetupFails, IInv, HostOK, ContextInv
<1>7. CASE MapPort
  <2>1. ctx.lan \in Addrs /\ Authorised(ctx.lan) /\ UNCHANGED <<ctx, host>>
    BY <1>7 DEF MapPort
  <2>2. \A p \in Ports : router'[p] \in {router[p], ctx.lan}
    BY <1>7 DEF MapPort, RouterAdds, RouterRefuses, IInv, RouterOK
  <2>3. PICK p \in todo :
          \/ router' = [router EXCEPT ![p] = ctx.lan] /\ mappedPorts' = mappedPorts \cup {p}
          \/ mappedPorts' = mappedPorts \ {p}
    BY <1>7 DEF MapPort, RouterAdds
  <2>4. \A q \in mappedPorts' : router'[q] \in {NoAddr, ctx.lan}
    BY <1>0, <2>2, <2>3 DEF IInv, RouterOK, PortsOK
  <2> QED
    BY <2>1, <2>2, <2>4
<1>8. CASE Wake
  BY <1>8 DEF Wake, BeginUnmap, IInv, ContextInv
<1>9. CASE UnmapPort
  <2>1. UNCHANGED <<ctx, host, mappedPorts, pc>> /\ pc = "unmap"
    BY <1>9 DEF UnmapPort
  <2>2. \A p \in Ports : router'[p] \in {router[p], NoAddr}
    BY <1>9 DEF UnmapPort, IInv, RouterOK
  <2> QED
    BY <1>0, <2>1, <2>2
<1>10. CASE UnmapDone
  BY <1>10 DEF UnmapDone
<1>11. CASE ExitInterrupt
  BY <1>11 DEF ExitInterrupt
<1>12. CASE CallbackReturns
  BY <1>12 DEF CallbackReturns
<1>13. CASE ExitClear
  BY <1>13 DEF ExitClear
<1>14. CASE Reboot
  BY <1>0, <1>14 DEF Reboot
<1>15. CASE HostMoves
  <2>1. ~SecureRouter
    BY <1>15 DEF HostMoves, Fault, CanClose
  <2> QED
    BY <1>15, <2>1 DEF HostMoves
<1>16. CASE UNCHANGED <<pc, again, mappedPorts, ctx, router, host>>
  BY <1>16
<1> QED
  BY <1>1, <1>2, <1>3, <1>4, <1>5, <1>6, <1>7, <1>8, <1>9, <1>10, <1>11,
     <1>12, <1>13, <1>14, <1>15, <1>16
     DEF MgrNext, ClientStep, SpawnFails, RunStep, CallStart, CallStop,
         StopInterrupt, StopReset

\* What run() still means to close, and what is open although it does not.
ToClose == IF pc = "unmap" THEN todo ELSE mappedPorts
Forgotten == {p \in Ports : router[p] # NoAddr /\ p \notin ToClose}

\* The faults that make run() forget a port.
Forgetting == {"refuseRefresh", "lostReply", "deleteFails"}

\* Each of them makes it forget one at most, and nothing else makes it forget any.
LEMMA ForgetStep ==
  ASSUME CanClose, IInv, OwnInv, MgrNext
  PROVE  \/ Forgotten' \subseteq Forgotten
         \/ \E p \in Ports, kind \in Forgetting :
              Fault(kind) /\ Forgotten' \subseteq Forgotten \cup {p}
<1> USE DEF Forgotten, ToClose, clientVars, memberVars, runVars, envVars
<1>1. CASE StartSpawn
  BY <1>1 DEF StartSpawn, IInv, PortsOK, LoopPcs, OwnershipInv, ClientOwnsMembers
<1>2. CASE LoopTop
  BY <1>2 DEF LoopTop, BeginUnmap, IInv, ContextInv, CleanupCanReach
<1>3. CASE MapPort
  <2>1. Authorised(ctx.lan) /\ pc = "map" /\ pc' \in {"map", "wait"}
    BY <1>3 DEF MapPort, OwnInv
  <2>2. PICK p \in todo :
          \/ RouterAdds(p) /\ mappedPorts' = mappedPorts \cup {p}
          \/ /\ UNCHANGED router
             /\ p \notin mappedPorts \/ router[p] = NoAddr \/ Fault("refuseRefresh")
             /\ mappedPorts' = mappedPorts \ {p}
          \/ RouterAdds(p) /\ Fault("lostReply") /\ mappedPorts' = mappedPorts \ {p}
    BY <1>3, <2>1 DEF MapPort, RouterRefuses, Conflicts, OwnInv
  <2>3. p \in Ports
    BY DEF IInv, PortsOK
  <2>4. RouterAdds(p) => \A q \in Ports \ {p} : router'[q] = router[q]
    BY DEF RouterAdds, IInv, RouterOK
  <2>5. CASE RouterAdds(p) /\ mappedPorts' = mappedPorts \cup {p}
    BY <2>1, <2>4, <2>5
  <2>6. CASE /\ UNCHANGED router
             /\ p \notin mappedPorts \/ router[p] = NoAddr \/ Fault("refuseRefresh")
             /\ mappedPorts' = mappedPorts \ {p}
    <3>1. Forgotten' \subseteq Forgotten \cup {p}
      BY <2>1, <2>6
    <3>2. CASE p \notin mappedPorts \/ router[p] = NoAddr
      BY <2>1, <2>6, <3>2
    <3>3. CASE Fault("refuseRefresh")
      BY <2>3, <3>1, <3>3 DEF Forgetting
    <3> QED
      BY <2>6, <3>2, <3>3
  <2>7. CASE RouterAdds(p) /\ Fault("lostReply") /\ mappedPorts' = mappedPorts \ {p}
    <3>1. Forgotten' \subseteq Forgotten \cup {p}
      BY <2>1, <2>4, <2>7
    <3> QED
      BY <2>3, <2>7, <3>1 DEF Forgetting
  <2> QED
    BY <2>2, <2>5, <2>6, <2>7
<1>4. CASE Wake
  BY <1>4 DEF Wake, BeginUnmap, IInv, ContextInv, CleanupCanReach
<1>5. CASE UnmapPort
  <2>1. pc = "unmap" /\ pc' = "unmap"
    BY <1>5 DEF UnmapPort
  <2>2. PICK p \in todo :
          /\ todo' = todo \ {p}
          /\ \/ router' = [router EXCEPT ![p] = NoAddr]
             \/ UNCHANGED router /\ ~Authorised(router[p])
             \/ UNCHANGED router /\ Fault("deleteFails")
    BY <1>5 DEF UnmapPort
  <2>3. p \in Ports /\ router \in [Ports -> Addrs \cup {NoAddr}]
    BY DEF IInv, PortsOK, RouterOK
  <2>4. CASE router' = [router EXCEPT ![p] = NoAddr]
    BY <2>1, <2>2, <2>3, <2>4
  <2>5. CASE UNCHANGED router /\ ~Authorised(router[p])
    <3>1. router[p] = NoAddr
      BY <2>3, <2>5 DEF OwnInv
    <3> QED
      BY <2>1, <2>2, <2>5, <3>1
  <2>6. CASE UNCHANGED router /\ Fault("deleteFails")
    <3>1. Forgotten' \subseteq Forgotten \cup {p}
      BY <2>1, <2>2, <2>6
    <3> QED
      BY <2>3, <2>6, <3>1 DEF Forgetting
  <2> QED
    BY <2>2, <2>4, <2>5, <2>6
<1>6. CASE UnmapDone
  BY <1>6 DEF UnmapDone
<1>7. CASE Reboot
  BY <1>7 DEF Reboot
<1>8. CASE RunBegin \/ FirstSetup \/ RedoSetup \/ StopJoin
  BY <1>8 DEF RunBegin, FirstSetup, RedoSetup, StopJoin
<1>9. CASE ExitInterrupt \/ CallbackReturns \/ ExitClear
  BY <1>9 DEF ExitInterrupt, CallbackReturns, ExitClear
<1>10. CASE UNCHANGED <<pc, mappedPorts, todo, router>>
  BY <1>10
<1> QED
  BY <1>1, <1>2, <1>3, <1>4, <1>5, <1>6, <1>7, <1>8, <1>9, <1>10
     DEF MgrNext, ClientStep, SpawnFails, RunStep, CallStart, CallStop,
         StopInterrupt, StopReset, HostMoves

\* Once for both theorems that follow: what this host can close stays so.
LEMMA OwnInvariance == ASSUME CanClose PROVE MgrSpec => []OwnInv
<1>1. MgrInit => OwnInv
  BY DEF MgrInit, OwnInv
<1>2. IInv /\ OwnInv /\ [MgrNext]_mgrVars => OwnInv'
  <2>1. ASSUME OwnInv, UNCHANGED mgrVars PROVE OwnInv'
    BY <2>1 DEF OwnInv, Authorised, mgrVars, clientVars, memberVars, runVars, envVars
  <2> QED
    BY <2>1, OwnStep
<1> QED
  BY <1>1, <1>2, Invariance, PTL DEF MgrSpec

\* The faults after which run() still knows what is open, and can close it.
Harmless == CanClose /\ Faults \cap Forgetting = {}

\* Nothing is open that run() does not mean to close, or cannot.
ClosedInv == OwnInv /\ Forgotten = {}

\* Outside of the loop that is to say that nothing is open.
LEMMA AllClosed ==
  ASSUME IInv, pc \notin LoopPcs
  PROVE  Forgotten = {p \in Ports : router[p] # NoAddr}
BY DEF IInv, PortsOK, Forgotten, ToClose, LoopPcs

\* Harmless faults leave nothing open that run() does not know of.
LEMMA ClosedInvariance == ASSUME Harmless PROVE MgrSpec => []ClosedInv
<1>1. MgrInit => Forgotten = {}
  BY DEF MgrInit, Forgotten
<1>2. IInv /\ OwnInv /\ Forgotten = {} /\ [MgrNext]_mgrVars => (Forgotten = {})'
  <2>1. ASSUME IInv, OwnInv, MgrNext PROVE Forgotten' \subseteq Forgotten
    BY <2>1, ForgetStep DEF Harmless, Fault
  <2>2. UNCHANGED mgrVars => Forgotten' = Forgotten
    BY DEF Forgotten, ToClose, mgrVars, runVars, envVars
  <2> QED
    BY <2>1, <2>2
<1>3. MgrSpec => []OwnInv
  BY OwnInvariance DEF Harmless
<1>4. ClosedInv <=> OwnInv /\ Forgotten = {}
  BY DEF ClosedInv
<1> QED
  BY <1>1, <1>2, <1>3, <1>4, Invariance, PTL DEF MgrSpec

\* As long as refreshes and deletions do not fail and no answer is lost, and the
\* host keeps its address or the router lets any host close any port, no port
\* outlives the run that opened it (upnpmgr.cpp:150-161).
THEOREM NothingStaysOpen == ASSUME Harmless PROVE MgrSpec => []ClosedAfterRun
<1>1. IInv /\ ClosedInv => ClosedAfterRun
  BY AllClosed DEF ClosedInv, ClosedAfterRun, LoopPcs
<1> QED
  BY <1>1, ClosedInvariance, Invariance, PTL

\* Each port that run() has forgotten has cost a fault.
ForgottenInv == IsFiniteSet(Forgotten) /\ Cardinality(Forgotten) <= faults

\* Whatever else goes wrong, in any number of runs, no more ports are ever left
\* open by them than there were faults (upnpmgr.cpp:152-161, 193-199): erasing a
\* port that may still be open costs that port, and no other.
THEOREM LeftOpenPaidFor == ASSUME CanClose PROVE MgrSpec => []LeftOpenBounded
<1>1. MgrInit => ForgottenInv
  <2>1. MgrInit => Forgotten = {} /\ faults = 0
    BY DEF MgrInit, Forgotten
  <2> QED
    BY <2>1, FS_EmptySet DEF ForgottenInv
<1>2. ASSUME IInv, OwnInv, ForgottenInv, MgrNext PROVE ForgottenInv'
  <2>1. /\ faults \in Nat /\ faults' \in {faults, faults + 1}
        /\ IsFiniteSet(Forgotten) /\ Cardinality(Forgotten) <= faults
    BY <1>2, FaultsCounted, UpnpMgrAssumption
       DEF IInv, CountersOK, ForgottenInv, UpnpMgrAssumption
  <2>2. CASE Forgotten' \subseteq Forgotten
    <3>1. IsFiniteSet(Forgotten') /\ Cardinality(Forgotten') <= Cardinality(Forgotten)
      BY <2>1, <2>2, FS_Subset
    <3>2. Cardinality(Forgotten') \in Nat /\ Cardinality(Forgotten) \in Nat
      BY <2>1, <3>1, FS_CardinalityType
    <3> QED
      BY <2>1, <3>1, <3>2 DEF ForgottenInv
  <2>3. ASSUME NEW p, NEW kind, Fault(kind), Forgotten' \subseteq Forgotten \cup {p}
        PROVE  ForgottenInv'
    <3>1. /\ IsFiniteSet(Forgotten \cup {p})
          /\ \/ Cardinality(Forgotten \cup {p}) = Cardinality(Forgotten)
             \/ Cardinality(Forgotten \cup {p}) = Cardinality(Forgotten) + 1
      BY <2>1, FS_AddElement
    <3>2. /\ IsFiniteSet(Forgotten')
          /\ Cardinality(Forgotten') <= Cardinality(Forgotten \cup {p})
      BY <2>3, <3>1, FS_Subset
    <3>3. Cardinality(Forgotten') \in Nat /\ Cardinality(Forgotten) \in Nat
      BY <2>1, <3>2, FS_CardinalityType
    <3>4. faults' = faults + 1
      BY <2>3 DEF Fault
    <3> QED
      BY <2>1, <3>1, <3>2, <3>3, <3>4 DEF ForgottenInv
  <2> QED
    BY <1>2, <2>2, <2>3, ForgetStep
<1>3. ASSUME ForgottenInv, UNCHANGED mgrVars PROVE ForgottenInv'
  BY <1>3 DEF ForgottenInv, Forgotten, ToClose, mgrVars, runVars, envVars
<1>4. IInv /\ ForgottenInv => LeftOpenBounded
  BY AllClosed DEF ForgottenInv, LeftOpenBounded
<1> QED
  BY <1>1, <1>2, <1>3, <1>4, OwnInvariance, Invariance, PTL DEF MgrSpec

-----------------------------------------------------------------------------
(* The length of an outage *)

\* What each place in the loop knows of the outage.  A long sleep begins only
\* when a port has just been opened, a short one only after a fault that has
\* not been paid for yet; a context that does not hold the host's address is
\* one fault, and so is every port refused to one that does.
OutageInv ==
  /\ OutageBounded
  /\ pc \in {"setup"} \cup LoopPcs => ports # {}
  /\ pc \in {"begin", "setup"} \/ (pc = "top" /\ ~again) => dark = 0
  /\ pc \in {"top", "redo", "map", "wait"} => ctx.lan = host \/ faults > 0
  /\ pc = "top" /\ mappedPorts # {} => dark <= LongWait
  /\ pc = "map" =>
       /\ dark < LongWait + ShortWait * faults \/ (ctx.lan = host /\ todo # {})
       /\ mappedPorts \ todo # {} => dark = 0
  /\ pc = "wait" =>
       IF mappedPorts # {}
         THEN dark = 0 /\ wait_time = LongWait
         ELSE dark < LongWait + ShortWait * faults /\ wait_time = ShortWait

\* One turn of the loop over the ports either ends the outage, or is paid for.
LEMMA OutageMapStep ==
  ASSUME SecureRouter, ~RefusesConflicts, IInv, OutageInv, MapPort PROVE OutageInv'
<1> USE DEF OutageInv, OutageBounded, LongWait, ShortWait, LoopPcs
<1>1. PICK p \in todo :
        /\ todo' = todo \ {p}
        /\ \/ RouterAdds(p) /\ mappedPorts' = mappedPorts \cup {p} /\ faults' = faults
           \/ RouterRefuses(p) /\ mappedPorts' = mappedPorts \ {p}
           \/ RouterAdds(p) /\ Fault("lostReply") /\ mappedPorts' = mappedPorts \ {p}
  BY DEF MapPort
<1>2. /\ pc = "map" /\ UNCHANGED <<ctx, host, ports, again>>
      /\ IF todo' = {} THEN pc' = "wait" /\ PickWait ELSE UNCHANGED <<pc, wait_time>>
  BY DEF MapPort, memberVars
<1>3. dark \in Nat /\ faults \in Nat /\ mappedPorts \subseteq ports
  BY UpnpMgrAssumption DEF IInv, CountersOK, PortsOK, UpnpMgrAssumption
<1>4. CASE RouterAdds(p)
  <2>1. /\ dark' = 0 /\ ctx.lan = host
        /\ faults' = faults \/ faults' = faults + 1
    BY <1>1, <1>4 DEF RouterAdds, RouterRefuses, Authorised, Fault
  <2>2. dark' < LongWait + ShortWait * faults'
    BY <1>3, <2>1
  <2>3. CASE todo' = {}
    <3>1. pc' = "wait" /\ wait_time' = IF mappedPorts' = {} THEN 1 ELSE 20
      BY <1>2, <2>3 DEF PickWait
    <3>2. (ctx.lan = host)' /\ (ports # {})'
      BY <1>2, <2>1
    <3>3. (dark <= 20 + 1 * faults)'
      BY <1>3, <2>1
    <3> QED
      BY <2>1, <2>2, <3>1, <3>2, <3>3
  <2>4. CASE todo' # {}
    <3>1. pc' = "map"
      BY <1>2, <2>4
    <3>2. (ctx.lan = host)' /\ (ports # {})'
      BY <1>2, <2>1
    <3>3. (dark <= 20 + 1 * faults)'
      BY <1>3, <2>1
    <3> QED
      BY <2>1, <2>2, <2>4, <3>1, <3>2, <3>3
  <2> QED
    BY <2>3, <2>4
<1>5. CASE RouterRefuses(p) /\ mappedPorts' = mappedPorts \ {p}
  <2>1. dark' = dark
    BY <1>5 DEF RouterRefuses
  <2>2. mappedPorts' \ todo' = mappedPorts \ todo
    BY <1>1, <1>5
  <2>3. \/ faults' = faults + 1
        \/ faults' = faults /\ dark < LongWait + ShortWait * faults
    BY <1>2, <1>5 DEF RouterRefuses, Conflicts, Authorised, Fault
  <2> QED
    BY <1>2, <1>3, <2>1, <2>2, <2>3 DEF PickWait
<1> QED
  BY <1>1, <1>4, <1>5

\* Every step keeps the outage within what has been paid for.
LEMMA OutageStep ==
  ASSUME SecureRouter, ~RefusesConflicts, IInv, OutageInv, MgrNext PROVE OutageInv'
<1> USE DEF OutageInv, OutageBounded, LongWait, ShortWait, LoopPcs, clientVars,
            memberVars, runVars, envVars
<1>1. dark \in Nat /\ faults \in Nat /\ mappedPorts \subseteq ports
  BY UpnpMgrAssumption DEF IInv, CountersOK, PortsOK, UpnpMgrAssumption
<1>2. CASE StartSpawn
  BY <1>1, <1>2 DEF StartSpawn
<1>3. CASE SpawnFails
  <2>1. pc = "none"
    BY <1>3 DEF SpawnFails, IInv, OwnershipInv, ClientOwnsMembers
  <2> QED
    BY <1>1, <1>3, <2>1 DEF SpawnFails, Fault
<1>4. CASE StopJoin
  BY <1>4 DEF StopJoin
<1>5. CASE RunBegin
  BY <1>5 DEF RunBegin
<1>6. CASE FirstSetup
  BY <1>1, <1>6 DEF FirstSetup, SetupSucceeds, Fault
<1>7. CASE LoopTop
  BY <1>1, <1>7 DEF LoopTop, BeginUnmap, MustRedo
<1>8. CASE RedoSetup
  BY <1>1, <1>8 DEF RedoSetup, SetupSucceeds, SetupFails, Fault, IInv, ContextInv
<1>9. CASE MapPort
  BY <1>9, OutageMapStep
<1>10. CASE Wake
  BY UpnpMgrAssumption, <1>1, <1>10
     DEF Wake, BeginUnmap, UpnpMgrAssumption, IInv, ContextInv
<1>11. CASE UnmapPort
  BY <1>1, <1>11 DEF UnmapPort, Fault
<1>12. CASE UnmapDone
  BY <1>12 DEF UnmapDone
<1>13. CASE ExitInterrupt
  BY <1>13 DEF ExitInterrupt
<1>14. CASE CallbackReturns \/ ExitClear
  BY <1>14 DEF CallbackReturns, ExitClear
<1>15. CASE Reboot \/ HostMoves
  BY <1>1, <1>15 DEF Reboot, HostMoves, Fault
<1>16. CASE UNCHANGED <<ports, pc, again, mappedPorts, ctx, todo, wait_time,
                        host, faults, dark>>
  BY <1>16
<1> QED
  BY <1>2, <1>3, <1>4, <1>5, <1>6, <1>7, <1>8, <1>9, <1>10, <1>11, <1>12,
     <1>13, <1>14, <1>15, <1>16
     DEF MgrNext, ClientStep, RunStep, CallStart, CallStop, StopInterrupt,
         StopReset

\* A router that lets a host map only for itself, and take over what is mapped
\* for another one, is asked again often enough: no outage outlasts one long sleep
\* and one short one for every fault, however many ports, addresses and faults
\* there are (upnpmgr.cpp:168-202).
THEOREM OutagesBounded ==
  ASSUME SecureRouter, ~RefusesConflicts PROVE MgrSpec => []OutageBounded
<1>1. MgrInit => OutageInv
  BY UpnpMgrAssumption
     DEF MgrInit, OutageInv, OutageBounded, LoopPcs, LongWait, ShortWait
<1>2. IInv /\ OutageInv /\ [MgrNext]_mgrVars => OutageInv'
  <2>1. ASSUME OutageInv, UNCHANGED mgrVars PROVE OutageInv'
    BY <2>1 DEF OutageInv, OutageBounded, mgrVars, clientVars, memberVars,
                runVars, envVars
  <2> QED
    BY <2>1, OutageStep
<1>3. OutageInv => OutageBounded
  BY DEF OutageInv
<1> QED
  BY <1>1, <1>2, <1>3, Invariance, PTL DEF MgrSpec
=============================================================================
