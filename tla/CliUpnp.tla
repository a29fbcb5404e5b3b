------------------------------- MODULE CliUpnp -------------------------------
(***************************************************************************)
(* The program (src/src/main.cpp): main() between its arguments and its    *)
(* exit status, the semaphore it sleeps on (AsyncSignalSafe::Sem), the     *)
(* signal handlers and the error callback that wake it, and the UpnpMgr it *)
(* starts and stops, whose variables and steps are those of the module     *)
(* UpnpMgr.                                                                *)
(*                                                                         *)
(* main is main()'s place.  A handler runs on main's thread or on the UPnP *)
(* thread, which cannot go on until it returns, or on a thread of its own  *)
(* (Windows).  A handler on top of another one, on the same thread, is     *)
(* left out: all they share is the compare-exchange, so the outcome is the *)
(* one of running them one after the other.                                *)
(***************************************************************************)
EXTENDS UpnpMgr, Sequences

CONSTANTS
  Signals,          \* the signals main() handles, in the order of its calls
  HandlerThreads,   \* the threads the system runs handlers on
  HandlerPersists,  \* does a handler stay installed once it has been invoked?
  ReadRestarts,     \* is a read() that a signal interrupts begun again?
  MaxSignals        \* bound: how many signals the process gets

Threads == {"main", "upnp", "os"}

\* A handler that has a thread of its own interrupts nobody's read().
ASSUME CliUpnpAssumption ==
  /\ Signals # << >>
  /\ Signals \in Seq(Range(Signals))
  /\ HandlerThreads \subseteq Threads
  /\ HandlerPersists \in BOOLEAN
  /\ ReadRestarts \in BOOLEAN
  /\ "os" \in HandlerThreads => ReadRestarts
  /\ MaxSignals \in Nat

VARIABLES
  main,             \* where main() is
  slot,             \* how far main() is in its list of signals
  psem,             \* does psem hold a Sem?
  sem,              \* bytes in the Sem's pipe
  no_more_signals,
  exitCode,
  code,             \* main()'s return value, "none" before it has one
  handled,          \* the signals whose handler is sigHandler
  handler,          \* handler[t]: where t is inside sigHandler
  cb,               \* where the next or current error callback is
  signals           \* history: signals the process got

mainVars == <<main, slot>>
wakeVars == <<psem, sem, no_more_signals>>
exitVars == <<exitCode, code>>
signalVars == <<handled, handler, signals>>
cliVars == <<mainVars, wakeVars, exitVars, signalVars, cb>>
vars == <<mgrVars, cliVars>>

EndPcs == {"exited", "killed", "aborted"}
ManagerPcs == {"starting", "stopping", "destroying"}
BeforeStart == {"args", "net", "sem", "install", "start", "starting"}
BeforeWakeUp == BeforeStart \cup {"wait", "interrupted"}
MainPcs == BeforeWakeUp \cup ManagerPcs \cup EndPcs
           \cup {"close", "restore", "return", "destroy", "free"}

Running == main \notin EndPcs

TypeOK ==
  /\ MgrTypeOK
  /\ main \in MainPcs
  /\ slot \in 0 .. Len(Signals) - 1
  /\ psem \in BOOLEAN
  /\ sem \in Nat
  /\ no_more_signals \in BOOLEAN
  /\ exitCode \in {"success", "failure"}
  /\ code \in {"none", "success", "failure"}
  /\ handled \subseteq Range(Signals)
  /\ handler \in [Threads -> {"none", "cas", "release"}]
  /\ cb \in {"store", "cas", "release", "done"}
  /\ signals \in 0 .. MaxSignals

Init ==
  /\ MgrInit
  /\ main = "args"
  /\ slot = 0
  /\ psem = FALSE
  /\ sem = 0
  /\ no_more_signals = FALSE
  /\ exitCode = "success"
  /\ code = "none"
  /\ handled = {}
  /\ handler = [t \in Threads |-> "none"]
  /\ cb = "store"
  /\ signals = 0

-----------------------------------------------------------------------------
(* Sem: a byte written to a pipe, and a byte read from it *)

ReleaseSem == sem' = sem + 1
AcquireSem == sem > 0 /\ sem' = sem - 1

-----------------------------------------------------------------------------
(* main() *)

MainGoes(from, to) ==
  /\ handler["main"] = "none"
  /\ main = from
  /\ main' = to

Exit(from, status) ==
  /\ MainGoes(from, "exited")
  /\ code' = status

\* Bad arguments end the program with EXIT_FAILURE, --help and --version with
\* success.
ParseArgs ==
  /\ \/ MainGoes("args", "net") /\ UNCHANGED code
     \/ \E status \in {"success", "failure"} : Exit("args", status)
  /\ UNCHANGED <<mgrVars, slot, wakeVars, exitCode, signalVars, cb>>

\* Whether there is a network: on Windows, WSAStartup may fail.
SetupNetworking == BOOLEAN

StartNetworking ==
  /\ \E ok \in SetupNetworking :
       IF ok THEN MainGoes("net", "sem") /\ UNCHANGED code ELSE Exit("net", "failure")
  /\ UNCHANGED <<mgrVars, slot, wakeVars, exitCode, signalVars, cb>>

\* Whether there is a pipe to be had: Sem's constructor throws without one.
PipeOpens == BOOLEAN

\* Nobody catches what Sem's constructor throws.
MakeSem ==
  /\ \E ok \in PipeOpens :
       IF ok THEN MainGoes("sem", "install") /\ psem' = TRUE
             ELSE MainGoes("sem", "aborted") /\ UNCHANGED psem
  /\ UNCHANGED <<mgrVars, slot, sem, no_more_signals, exitVars, signalVars, cb>>

\* One turn of a loop over the signals; the last one leads on to next.
EachSignal(here, next) ==
  IF slot + 1 < Len(Signals)
    THEN MainGoes(here, here) /\ slot' = slot + 1
    ELSE MainGoes(here, next) /\ slot' = 0

InstallHandler ==
  /\ EachSignal("install", "start")
  /\ handled' = handled \cup {Signals[slot + 1]}
  /\ UNCHANGED <<mgrVars, wakeVars, exitVars, handler, cb, signals>>

\* The arguments hold at least one port.
StartManager ==
  /\ MainGoes("start", "starting")
  /\ \E pv \in PortVecs : Range(pv) # {} /\ CallStart(pv)
  /\ UNCHANGED <<slot, wakeVars, exitVars, signalVars, cb>>

AfterManager ==
  [starting |-> "wait", stopping |-> "restore", destroying |-> "free"]

\* Nobody catches what start() throws.
StartThrows ==
  /\ MainGoes("starting", "aborted")
  /\ SpawnFails
  /\ UNCHANGED <<slot, wakeVars, exitVars, signalVars, cb>>

\* The steps of UpnpMgr::start() and stop().
InManager ==
  /\ main \in ManagerPcs
  /\ ClientStep
  /\ MainGoes(main, IF client' = "idle" THEN AfterManager[main] ELSE main)
  /\ UNCHANGED <<slot, wakeVars, exitVars, signalVars, cb>>

\* waitSem()
Acquire ==
  /\ MainGoes("wait", "close")
  /\ AcquireSem
  /\ UNCHANGED <<mgrVars, slot, psem, no_more_signals, exitVars, signalVars, cb>>

\* The read() has failed: waitSem() logs that, and main() goes on all the same.
AcquireFails ==
  /\ MainGoes("interrupted", "close")
  /\ UNCHANGED <<mgrVars, slot, wakeVars, exitVars, signalVars, cb>>

\* A mutation: the handlers are restored before the manager is stopped.
CloseScopeRestoreFirst ==
  /\ MainGoes("close", "stopping")
  /\ no_more_signals' = TRUE
  /\ handled' = {}
  /\ CallStop
  /\ UNCHANGED <<slot, psem, sem, exitVars, handler, cb, signals>>

\* A mutation: the manager is not stopped before the scope ends, only by its
\* destructor.
CloseScopeNoStop ==
  /\ MainGoes("close", "restore")
  /\ no_more_signals' = TRUE
  /\ UNCHANGED <<mgrVars, slot, psem, sem, exitVars, signalVars, cb>>

\* The end of the nested scope.
CloseScope ==
  /\ MainGoes("close", "stopping")
  /\ no_more_signals' = TRUE
  /\ CallStop
  /\ UNCHANGED <<slot, psem, sem, exitVars, signalVars, cb>>

RestoreHandler ==
  /\ EachSignal("restore", "return")
  /\ handled' = handled \ {Signals[slot + 1]}
  /\ UNCHANGED <<mgrVars, wakeVars, exitVars, handler, cb, signals>>

ReadExitCode ==
  /\ MainGoes("return", "destroy")
  /\ code' = exitCode
  /\ UNCHANGED <<mgrVars, slot, wakeVars, exitCode, signalVars, cb>>

\* ~UpnpMgr
DestroyManager ==
  /\ MainGoes("destroy", "destroying")
  /\ CallStop
  /\ UNCHANGED <<slot, wakeVars, exitVars, signalVars, cb>>

FreeSem ==
  /\ MainGoes("free", "exited")
  /\ psem' = FALSE
  /\ UNCHANGED <<mgrVars, slot, sem, no_more_signals, exitVars, signalVars, cb>>

MainStep ==
  \/ ParseArgs \/ StartNetworking \/ MakeSem \/ InstallHandler \/ StartManager
  \/ StartThrows \/ InManager \/ Acquire \/ AcquireFails \/ CloseScope
  \/ RestoreHandler \/ ReadExitCode \/ DestroyManager \/ FreeSem

-----------------------------------------------------------------------------
(* The signals, and sigHandler *)

Alive(t) == t = "upnp" => pc \in LivePcs

\* A read() that waits for its byte may fail if its thread runs a handler.
Interrupts(t) == t = "main" /\ main = "wait" /\ sem = 0 /\ ~ReadRestarts

SignalHandled(sig, t) ==
  /\ Running
  /\ signals < MaxSignals
  /\ sig \in handled
  /\ Alive(t)
  /\ handler[t] = "none"
  /\ signals' = signals + 1
  /\ handler' = [handler EXCEPT ![t] = "cas"]
  /\ handled' = IF HandlerPersists THEN handled ELSE handled \ {sig}
  /\ \/ UNCHANGED main
     \/ Interrupts(t) /\ main' = "interrupted"
  /\ UNCHANGED <<mgrVars, slot, wakeVars, exitVars, cb>>

\* A signal without a handler ends the process.
SignalKills(sig) ==
  /\ Running
  /\ signals < MaxSignals
  /\ sig \notin handled
  /\ signals' = signals + 1
  /\ main' = "killed"
  /\ UNCHANGED <<mgrVars, slot, wakeVars, exitVars, handled, handler, cb>>

\* A mutation: sigHandler signals every time, whatever no_more_signals says.
HandlerCasAlways(t) ==
  /\ Running
  /\ handler[t] = "cas"
  /\ no_more_signals' = TRUE
  /\ handler' = [handler EXCEPT ![t] = "release"]
  /\ UNCHANGED <<mgrVars, mainVars, psem, sem, exitVars, handled, signals, cb>>

\* no_more_signals.compare_exchange_strong(false, true)
HandlerCas(t) ==
  /\ Running
  /\ handler[t] = "cas"
  /\ no_more_signals' = TRUE
  /\ handler' = [handler EXCEPT ![t] = IF no_more_signals THEN "none" ELSE "release"]
  /\ UNCHANGED <<mgrVars, mainVars, psem, sem, exitVars, handled, signals, cb>>

\* signalSem()
HandlerRelease(t) ==
  /\ Running
  /\ handler[t] = "release"
  /\ ReleaseSem
  /\ handler' = [handler EXCEPT ![t] = "none"]
  /\ UNCHANGED <<mgrVars, mainVars, psem, no_more_signals, exitVars, handled,
                 signals, cb>>

HandlerStep == \E t \in Threads : HandlerCas(t) \/ HandlerRelease(t)

-----------------------------------------------------------------------------
(* The UPnP thread, and the error callback it invokes *)

UpnpRuns == Running /\ handler["upnp"] = "none"

UpnpStep ==
  /\ UpnpRuns
  /\ RunStep
  /\ IF pc = "callback" THEN cb = "done" /\ cb' = "store" ELSE UNCHANGED cb
  /\ UNCHANGED <<mainVars, wakeVars, exitVars, signalVars>>

CallbackGoes(from, to) ==
  /\ UpnpRuns
  /\ pc = "callback"
  /\ cb = from
  /\ cb' = to

CallbackStore ==
  /\ CallbackGoes("store", "cas")
  /\ exitCode' = "failure"
  /\ UNCHANGED <<mgrVars, mainVars, wakeVars, code, signalVars>>

\* A mutation: the callback looks at the flag and does not set it.
CallbackCasNoStore ==
  /\ CallbackGoes("cas", IF no_more_signals THEN "done" ELSE "release")
  /\ UNCHANGED <<mgrVars, mainVars, wakeVars, exitVars, signalVars>>

CallbackCas ==
  /\ CallbackGoes("cas", IF no_more_signals THEN "done" ELSE "release")
  /\ no_more_signals' = TRUE
  /\ UNCHANGED <<mgrVars, mainVars, psem, sem, exitVars, signalVars>>

\* A mutation: the callback does not wake main() up.
CallbackReleaseNot ==
  /\ CallbackGoes("release", "done")
  /\ UNCHANGED <<mgrVars, mainVars, wakeVars, exitVars, signalVars>>

CallbackRelease ==
  /\ CallbackGoes("release", "done")
  /\ ReleaseSem
  /\ UNCHANGED <<mgrVars, mainVars, psem, no_more_signals, exitVars, signalVars>>

CallbackStep == CallbackStore \/ CallbackCas \/ CallbackRelease

-----------------------------------------------------------------------------

Environment == (Reboot \/ HostMoves) /\ UNCHANGED cliVars

Ended == ~Running /\ UNCHANGED vars

Next ==
  \/ MainStep
  \/ UpnpStep
  \/ CallbackStep
  \/ HandlerStep
  \/ \E sig \in Range(Signals) :
       SignalKills(sig) \/ \E t \in HandlerThreads : SignalHandled(sig, t)
  \/ Environment
  \/ Ended

Spec == Init /\ [][Next]_vars

\* Every thread of the process, the one that runs a handler among them, goes
\* on when it can.  No signal, fault or error is ever certain.
FairSpec ==
  /\ Spec
  /\ WF_vars(MainStep)
  /\ WF_vars(UpnpStep \/ CallbackStep)
  /\ WF_vars(HandlerStep)

-----------------------------------------------------------------------------
(* Properties *)

\* main.cpp:19 asserts that psem is there when it is used.  A handler or a
\* callback that has won the compare-exchange is never overtaken by the end
\* of main(), which frees the Sem.
SemAliveWhenUsed ==
  cb = "release" \/ (\E t \in Threads : handler[t] = "release") => psem

\* However many signals come, and whether or not the UPnP thread fails, main()
\* is woken up once: releasing never fills the pipe, so it never blocks.  The
\* byte is left in the pipe only if its read() failed.
OneWakeUp ==
  sem <= IF ReadRestarts /\ Running /\ main \notin BeforeWakeUp THEN 0 ELSE 1

\* Whatever ends the wait, a failing read() included (main.cpp:28), the program
\* has been told to end: no_more_signals is set before main() sets it itself.
EndsWhenTold == main = "close" => no_more_signals

\* main.cpp:100-101: "This guarantees the return code will be correct even in
\* the corner case the user hits CTRL-C but also upnp had an error".  From
\* the moment main() has read it, it is right for good.
ExitCodeCorrect ==
  main \in {"destroy", "destroying", "free"} =>
    code = IF errorFlag THEN "failure" ELSE "success"

\* A signal never ends the process while there is a thread that keeps ports
\* open: from the first handler to the last restored one.
NotKilledInRun == main = "killed" => pc = "none"

\* README.md:22: "interrupt the program (with `CTRL-C`) to close them".  However
\* often one does, nothing is left open.
InterruptCloses ==
  main = "killed" => \A p \in Ports : router[p] = NoAddr

\* Once a signal or an error has told the program to end, it ends.
ShutdownCompletes == (no_more_signals \/ pc = "callback") ~> ~Running

\* The program seen by the one who runs it.  What tells it to stop is stop(),
\* which sets the thread's flag.
Phase ==
  IF ~Running THEN "ended"
  ELSE IF main = "args" THEN "reading"
  ELSE IF main \in BeforeStart THEN "preparing"
  ELSE IF pc \in {"begin", "setup"} THEN IF interrupt THEN "leaving" ELSE "probing"
  ELSE IF errorFlag THEN "failed"
  ELSE IF interrupt \/ pc = "none" THEN "closing"
  ELSE "keeping"

Due == IF pc = "redo" THEN ports ELSE IF pc = "map" THEN todo ELSE {}

Opened == {p \in Ports : router[p] # NoAddr}

Status == IF Running THEN "none" ELSE IF main = "exited" THEN code ELSE main

Keeper == INSTANCE PortKeeper WITH
  phase <- Phase, due <- Due, opened <- Opened, status <- Status

\* Away from the faults that leave a mapping behind, the program keeps its
\* promise.  A stop may find its thread anywhere: nothing the thread does from
\* then on opens a port that the pass under way would not have opened, nothing
\* is opened behind the clean-up, and the exit status tells a run that found no
\* router from one that did, from a mere usage and from a start that failed
\* (upnpmgr.cpp:150-203, main.cpp:57-123).
KeepsPromise == Keeper!Spec
=============================================================================
