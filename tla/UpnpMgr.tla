------------------------------- MODULE UpnpMgr -------------------------------
(***************************************************************************)
(* UpnpMgr (src/src/upnpmgr.{h,cpp}): a client thread that calls start()   *)
(* and stop(), the UPnP thread that start() spawns and that runs run(),    *)
(* and, outside the program, the router and the address of the host.       *)
(*                                                                         *)
(* pc is the UPnP thread's place in run(), "none" when there is no thread  *)
(* (not joinable) and "finished" when it has returned and is not joined.   *)
(* client is the calling thread's place in start() or stop().  The sleep   *)
(* of line 203 is the one InterruptibleSleep promises; ThreadInterrupt     *)
(* models how it is built.                                                 *)
(*                                                                         *)
(* The router and miniupnpc are external: a call of miniupnpc is one step  *)
(* that takes effect, is refused, or takes effect although its answer is   *)
(* lost.  Each misbehaviour is a kind of fault, allowed by Faults and      *)
(* counted against MaxFaults.                                              *)
(***************************************************************************)
EXTENDS Naturals, FiniteSets, Functions

CONSTANTS
  Ports,            \* port numbers (uint16_t); only their order matters here
  PortVecs,         \* the vectors of ports start() may be given
  NoRequest,        \* "stop() was not called by start()"
  Addrs,            \* addresses the host may have in the LAN
  NoAddr,           \* "not mapped" in the router, "empty" in lanaddr
  SecureRouter,     \* does the router only let a host map and unmap for itself?
  RefusesConflicts, \* does it refuse a port it has mapped for another address?
  Faults,           \* the kinds of fault the environment may show
  MaxFaults,        \* bound: how many faults it may show in all
  DarkCap           \* bound: the outage clock stops here

FaultKinds == {"noIGD", "refuseNew", "refuseRefresh", "lostReply",
               "deleteFails", "reboot", "hostMoves", "noThread"}

ASSUME UpnpMgrAssumption ==
  /\ Ports \subseteq Nat
  /\ \A pv \in PortVecs : Range(pv) \subseteq Ports
  /\ NoRequest \notin PortVecs
  /\ NoAddr \notin Addrs
  /\ SecureRouter \in BOOLEAN
  /\ RefusesConflicts \in BOOLEAN
  /\ Faults \subseteq FaultKinds
  /\ MaxFaults \in Nat
  /\ DarkCap \in Nat

VARIABLES
  client,         \* the caller's place in start() or stop(), "idle" outside
  request,        \* the vector of the start() in progress, or NoRequest
  interrupt,      \* UpnpMgr::interrupt, its flag
  ports,          \* UpnpMgr::ports
  errorCallback,  \* UpnpMgr::errorCallback: is there a function in it?
  pc,             \* UpnpMgr::thread and its place in run()
  errorFlag,      \* run()'s errorFlag; keeps its last value after the run
  again,          \* run()'s iters, all that matters of it: is it above zero?
  mappedPorts,    \* run()'s mappedPorts
  ctx,            \* run()'s ctx: is controlURL set, and lanaddr
  todo,           \* what is left of the loop over ports or over mappedPorts
  wait_time,      \* run()'s wait_time, in minutes
  callbacks,      \* history: error callbacks invoked in this run
  router,         \* router[p]: the host p is forwarded to, or NoAddr
  host,           \* the host's current address
  faults,         \* history: faults shown so far
  dark            \* history: minutes slept since a port was last opened,
                  \* while none was routed to the host

clientVars == <<client, request>>
memberVars == <<interrupt, ports, errorCallback>>
runVars == <<pc, errorFlag, again, mappedPorts, ctx, todo, wait_time, callbacks>>
envVars == <<router, host, faults, dark>>
mgrVars == <<clientVars, memberVars, runVars, envVars>>

LongWait == 20
ShortWait == 1

NoCtx == [url |-> FALSE, lan |-> NoAddr]

ClientPcs == {"idle", "stop", "join", "reset", "spawn"}

\* The part of run() between the first successful setup and the end of the
\* clean-up.
LoopPcs == {"top", "redo", "map", "wait", "unmap"}
LivePcs == {"begin", "setup", "exit", "callback", "clear"} \cup LoopPcs

MgrTypeOK ==
  /\ client \in ClientPcs
  /\ request \in PortVecs \cup {NoRequest}
  /\ interrupt \in BOOLEAN
  /\ ports \subseteq Ports
  /\ errorCallback \in BOOLEAN
  /\ pc \in {"none", "finished"} \cup LivePcs
  /\ errorFlag \in BOOLEAN
  /\ again \in BOOLEAN
  /\ mappedPorts \subseteq ports
  /\ ctx \in [url : BOOLEAN, lan : Addrs \cup {NoAddr}]
  /\ todo \subseteq ports
  /\ wait_time \in {ShortWait, LongWait}
  /\ callbacks \in {0, 1}
  /\ router \in [Ports -> Addrs \cup {NoAddr}]
  /\ host \in Addrs
  /\ faults \in 0 .. MaxFaults
  /\ dark \in 0 .. DarkCap

MgrInit ==
  /\ client = "idle"
  /\ request = NoRequest
  /\ interrupt = FALSE
  /\ ports = {}
  /\ errorCallback = FALSE
  /\ pc = "none"
  /\ errorFlag = FALSE
  /\ again = FALSE
  /\ mappedPorts = {}
  /\ ctx = NoCtx
  /\ todo = {}
  /\ wait_time = ShortWait
  /\ callbacks = 0
  /\ router = [p \in Ports |-> NoAddr]
  /\ host \in Addrs
  /\ faults = 0
  /\ dark = 0

-----------------------------------------------------------------------------
(* The environment *)

Fault(kind) ==
  /\ kind \in Faults
  /\ faults < MaxFaults
  /\ faults' = faults + 1

\* The router loses its table of mappings.
Reboot ==
  /\ Fault("reboot")
  /\ router' = [p \in Ports |-> NoAddr]
  /\ UNCHANGED <<clientVars, memberVars, runVars, host, dark>>

\* The host gets another address.
HostMoves ==
  /\ Fault("hostMoves")
  /\ host' \in Addrs \ {host}
  /\ UNCHANGED <<clientVars, memberVars, runVars, router, dark>>

Authorised(addr) == SecureRouter => addr = host

-----------------------------------------------------------------------------
(* start() and stop(), called by one client thread *)

CallStart(pv) ==
  /\ client = "idle"
  /\ client' = "stop"
  /\ request' = pv
  /\ UNCHANGED <<memberVars, runVars, envVars>>

CallStop ==
  /\ client = "idle"
  /\ client' = "stop"
  /\ UNCHANGED <<request, memberVars, runVars, envVars>>

\* A mutation: stop() joins the thread without interrupting it.
StopInterruptNot ==
  /\ client = "stop"
  /\ client' = IF pc # "none" THEN "join" ELSE "reset"
  /\ UNCHANGED <<request, memberVars, runVars, envVars>>

\* if (thread.joinable()) interrupt()
StopInterrupt ==
  /\ client = "stop"
  /\ \/ /\ pc # "none"
        /\ interrupt' = TRUE
        /\ client' = "join"
     \/ /\ pc = "none"
        /\ client' = "reset"
        /\ UNCHANGED interrupt
  /\ UNCHANGED <<request, ports, errorCallback, runVars, envVars>>

\* A mutation: stop() does not wait for the thread.
StopNoJoin ==
  /\ client = "join"
  /\ client' = "reset"
  /\ UNCHANGED <<request, memberVars, runVars, envVars>>

StopJoin ==
  /\ client = "join"
  /\ pc = "finished"
  /\ client' = "reset"
  /\ pc' = "none"
  /\ UNCHANGED <<request, memberVars, errorFlag, again, mappedPorts, ctx, todo,
                 wait_time, callbacks, envVars>>

\* A mutation: stop() does not reset the flag.
StopResetNot ==
  /\ client = "reset"
  /\ errorCallback' = FALSE
  /\ client' = IF request = NoRequest THEN "idle" ELSE "spawn"
  /\ UNCHANGED <<interrupt, request, ports, runVars, envVars>>

\* interrupt.reset(), and the callback is cleared.
StopReset ==
  /\ client = "reset"
  /\ interrupt' = FALSE
  /\ errorCallback' = FALSE
  /\ client' = IF request = NoRequest THEN "idle" ELSE "spawn"
  /\ UNCHANGED <<request, ports, runVars, envVars>>

\* What start() does after its stop().  Its vector is sorted and loses its
\* duplicates, so the loops over it visit the elements in ascending order.
\* The program always passes a callback.
StartSpawn ==
  /\ client = "spawn"
  /\ client' = "idle"
  /\ request' = NoRequest
  /\ errorCallback' = TRUE
  /\ ports' = Range(request)
  /\ pc' = "begin"
  /\ errorFlag' = TRUE
  /\ again' = FALSE
  /\ mappedPorts' = {}
  /\ ctx' = NoCtx
  /\ todo' = {}
  /\ callbacks' = 0
  /\ dark' = 0
  /\ UNCHANGED <<interrupt, wait_time, router, host, faults>>

\* The constructor of std::thread throws, and start() is left by its exception.
SpawnFails ==
  /\ client = "spawn"
  /\ Fault("noThread")
  /\ client' = "idle"
  /\ request' = NoRequest
  /\ errorCallback' = TRUE
  /\ ports' = Range(request)
  /\ UNCHANGED <<interrupt, runVars, router, host, dark>>

ClientStep == StopInterrupt \/ StopJoin \/ StopReset \/ StartSpawn

-----------------------------------------------------------------------------
(* run(): getting ready *)

\* UpnpCtx::setup() throws the old context away and looks for a router.
SetupSucceeds ==
  /\ ctx' = [url |-> TRUE, lan |-> host]
  /\ UNCHANGED faults

\* One that is found but has no connection may still fill in controlURL and
\* lanaddr.
SetupFails ==
  /\ Fault("noIGD")
  /\ ctx' \in [url : BOOLEAN, lan : {NoAddr, host}]

\* A mutation: the thread clears the flag when it starts.
RunBeginResets ==
  /\ pc = "begin"
  /\ pc' = IF ports = {} THEN "exit" ELSE "setup"
  /\ interrupt' = FALSE
  /\ UNCHANGED <<clientVars, ports, errorCallback, errorFlag, again, mappedPorts,
                 ctx, todo, wait_time, callbacks, envVars>>

RunBegin ==
  /\ pc = "begin"
  /\ pc' = IF ports = {} THEN "exit" ELSE "setup"
  /\ UNCHANGED <<clientVars, memberVars, errorFlag, again, mappedPorts, ctx, todo,
                 wait_time, callbacks, envVars>>

\* On failure run() returns and ~UpnpCtx frees what setup() left behind.
FirstSetup ==
  /\ pc = "setup"
  /\ \/ /\ SetupSucceeds
        /\ errorFlag' = FALSE
        /\ pc' = "top"
     \/ /\ Fault("noIGD")
        /\ ctx' = NoCtx
        /\ pc' = "exit"
        /\ UNCHANGED errorFlag
  /\ UNCHANGED <<clientVars, memberVars, again, mappedPorts, todo, wait_time,
                 callbacks, router, host, dark>>

-----------------------------------------------------------------------------
(* run(): the loop *)

\* A mutation: the clean-up's early return has its condition inverted.
BeginUnmapInverted ==
  /\ pc' = "unmap"
  /\ todo' = IF ctx.url THEN {} ELSE mappedPorts

\* Leaving the loop: the clean-up does nothing without a controlURL.
BeginUnmap ==
  /\ pc' = "unmap"
  /\ todo' = IF ctx.url THEN mappedPorts ELSE {}

\* A mutation: the context is redone in every turn but the first.
RedoAlways == again

\* A mutation: the context is never redone.
RedoNever == FALSE

\* Only when nothing is mapped is the context redone.
MustRedo == again /\ mappedPorts = {}

\* A mutation: the flag is not read at the top of the loop.
LoopTopUnchecked ==
  /\ pc = "top"
  /\ again' = TRUE
  /\ IF MustRedo
       THEN pc' = "redo" /\ UNCHANGED todo
       ELSE pc' = "map" /\ todo' = ports
  /\ UNCHANGED <<clientVars, memberVars, errorFlag, mappedPorts, ctx, wait_time,
                 callbacks, envVars>>

LoopTop ==
  /\ pc = "top"
  /\ \/ /\ interrupt
        /\ BeginUnmap
        /\ UNCHANGED again
     \/ /\ ~interrupt
        /\ again' = TRUE
        /\ IF MustRedo
             THEN pc' = "redo" /\ UNCHANGED todo
             ELSE pc' = "map" /\ todo' = ports
  /\ UNCHANGED <<clientVars, memberVars, errorFlag, mappedPorts, ctx, wait_time,
                 callbacks, envVars>>

RedoSetup ==
  /\ pc = "redo"
  /\ \/ /\ SetupSucceeds
        /\ pc' = "map"
        /\ todo' = ports
        /\ UNCHANGED wait_time
     \/ /\ SetupFails
        /\ pc' = "wait"
        /\ wait_time' = ShortWait
        /\ UNCHANGED todo
  /\ UNCHANGED <<clientVars, memberVars, errorFlag, again, mappedPorts, callbacks,
                 router, host, dark>>

\* 718 ConflictInMappingEntry, where the router does not replace the old entry.
Conflicts(p) == RefusesConflicts /\ router[p] \notin {NoAddr, ctx.lan}

\* UPNP_AddPortMapping(p) takes effect in the router.
RouterAdds(p) ==
  /\ Authorised(ctx.lan)
  /\ ~Conflicts(p)
  /\ router' = [router EXCEPT ![p] = ctx.lan]
  /\ dark' = IF ctx.lan = host THEN 0 ELSE dark

\* It has no effect, for a reason of the router's or the network's.
RouterRefuses(p) ==
  /\ \/ ~Authorised(ctx.lan) /\ UNCHANGED faults
     \/ Conflicts(p) /\ UNCHANGED faults
     \/ router[p] = NoAddr /\ Fault("refuseNew")
     \/ router[p] # NoAddr /\ Fault("refuseRefresh")
  /\ UNCHANGED <<router, dark>>

IsFirst(p, S) == p \in S /\ \A q \in S : p <= q

\* A mutation: the wait is long even if nothing could be mapped.
PickLongWait == wait_time' = LongWait

\* A mutation: no wait at all before the next attempt.
PickNoWait == wait_time' = IF mappedPorts' = {} THEN 0 ELSE LongWait

PickWait == wait_time' = IF mappedPorts' = {} THEN ShortWait ELSE LongWait

\* One turn of the loop over ports.  The last one also picks the wait.
MapPort ==
  /\ pc = "map"
  /\ \E p \in todo :
       /\ IsFirst(p, todo)
       /\ todo' = todo \ {p}
       /\ \/ /\ RouterAdds(p)
             /\ mappedPorts' = mappedPorts \cup {p}
             /\ UNCHANGED faults
          \/ /\ RouterRefuses(p)
             /\ mappedPorts' = mappedPorts \ {p}
          \/ /\ RouterAdds(p)
             /\ Fault("lostReply")
             /\ mappedPorts' = mappedPorts \ {p}
  /\ IF todo' = {}
       THEN pc' = "wait" /\ PickWait
       ELSE UNCHANGED <<pc, wait_time>>
  /\ UNCHANGED <<clientVars, memberVars, errorFlag, again, ctx, callbacks, host>>

Routed == \E p \in ports : router[p] = host

\* interrupt.wait(wait_time) returns the flag: at once when it is set, else
\* after wait_time.
Wake ==
  /\ pc = "wait"
  /\ \/ /\ interrupt
        /\ BeginUnmap
        /\ UNCHANGED dark
     \/ /\ ~interrupt
        /\ pc' = "top"
        /\ dark' = IF Routed THEN dark
                   ELSE IF dark + wait_time > DarkCap THEN DarkCap
                   ELSE dark + wait_time
        /\ UNCHANGED todo
  /\ UNCHANGED <<clientVars, memberVars, errorFlag, again, mappedPorts, ctx,
                 wait_time, callbacks, router, host, faults>>

-----------------------------------------------------------------------------
(* run(): clean-up and the end of the thread *)

\* A mutation: the clean-up ends with the first deletion that fails.
UnmapPortOrStop ==
  /\ pc = "unmap"
  /\ \E p \in todo :
       /\ IsFirst(p, todo)
       /\ \/ /\ Authorised(router[p])
             /\ router' = [router EXCEPT ![p] = NoAddr]
             /\ todo' = todo \ {p}
             /\ UNCHANGED faults
          \/ /\ \/ ~Authorised(router[p]) /\ UNCHANGED faults
                \/ Fault("deleteFails")
             /\ todo' = {}
             /\ UNCHANGED router
  /\ UNCHANGED <<clientVars, memberVars, pc, errorFlag, again, mappedPorts, ctx,
                 wait_time, callbacks, host, dark>>

\* UPNP_DeletePortMapping(p); its result is only logged.
UnmapPort ==
  /\ pc = "unmap"
  /\ \E p \in todo :
       /\ IsFirst(p, todo)
       /\ todo' = todo \ {p}
       /\ \/ /\ Authorised(router[p])
             /\ router' = [router EXCEPT ![p] = NoAddr]
             /\ UNCHANGED faults
          \/ /\ ~Authorised(router[p])
             /\ UNCHANGED <<router, faults>>
          \/ /\ Fault("deleteFails")
             /\ UNCHANGED router
  /\ UNCHANGED <<clientVars, memberVars, pc, errorFlag, again, mappedPorts, ctx,
                 wait_time, callbacks, host, dark>>

\* mappedPorts and ctx are destroyed.
UnmapDone ==
  /\ pc = "unmap"
  /\ todo = {}
  /\ pc' = "exit"
  /\ mappedPorts' = {}
  /\ ctx' = NoCtx
  /\ UNCHANGED <<clientVars, memberVars, errorFlag, again, todo, wait_time,
                 callbacks, envVars>>

\* A mutation: the callback is invoked whether or not there was an error.
AlwaysReports == errorCallback

ReportsError == errorCallback /\ errorFlag

\* The outermost Defer: interrupt(), then the callback if there was an error.
ExitInterrupt ==
  /\ pc = "exit"
  /\ interrupt' = TRUE
  /\ IF ReportsError
       THEN pc' = "callback" /\ callbacks' = callbacks + 1
       ELSE pc' = "clear" /\ UNCHANGED callbacks
  /\ UNCHANGED <<clientVars, ports, errorCallback, errorFlag, again, mappedPorts,
                 ctx, todo, wait_time, envVars>>

CallbackReturns ==
  /\ pc = "callback"
  /\ pc' = "clear"
  /\ UNCHANGED <<clientVars, memberVars, errorFlag, again, mappedPorts, ctx, todo,
                 wait_time, callbacks, envVars>>

ExitClear ==
  /\ pc = "clear"
  /\ errorCallback' = FALSE
  /\ pc' = "finished"
  /\ UNCHANGED <<clientVars, interrupt, ports, errorFlag, again, mappedPorts, ctx,
                 todo, wait_time, callbacks, envVars>>

RunStep ==
  \/ RunBegin \/ FirstSetup \/ LoopTop \/ RedoSetup \/ MapPort \/ Wake
  \/ UnmapPort \/ UnmapDone \/ ExitInterrupt \/ CallbackReturns \/ ExitClear

-----------------------------------------------------------------------------

MgrNext ==
  \/ \E pv \in PortVecs : CallStart(pv)
  \/ CallStop
  \/ ClientStep
  \/ SpawnFails
  \/ RunStep
  \/ Reboot
  \/ HostMoves

MgrSpec == MgrInit /\ [][MgrNext]_mgrVars

\* Both threads run whenever they can: every call of miniupnpc returns (it
\* has timeouts of its own) and time passes for a sleeping thread.  Nothing
\* is assumed of the client's calls and of the environment.
MgrFairSpec ==
  /\ MgrSpec
  /\ WF_mgrVars(ClientStep \/ SpawnFails)
  /\ WF_mgrVars(RunStep)

-----------------------------------------------------------------------------
(* Properties *)

\* Whatever is believed to be mapped can be unmapped: as long as mappedPorts
\* is not empty the context has a controlURL, so that the clean-up of lines
\* 152-161 never takes its early return with ports still open.
CleanupCanReach == mappedPorts # {} => ctx.url

\* errorCallback and ports are not atomic.  The client writes them only while
\* there is no thread, so run() and the client never race on them, and the
\* flag is never reset under a thread that has yet to see it.
ClientOwnsMembers == client \in {"reset", "spawn"} => pc = "none"

\* A request to stop is not forgotten before the thread has acted on it.
StopNotLost == client = "join" => interrupt

\* A thread is told to stop by a stop() that waits for it and by nothing else,
\* although every run() sets the flag when it ends (upnpmgr.cpp:53), a start()
\* may follow anything, and one that failed may have come in between.
NoStaleInterrupt ==
  pc \in {"begin", "setup"} \cup LoopPcs /\ interrupt => client = "join"

\* The error callback is invoked once in a run that never got ready, and not
\* at all in one that did, whatever happened to its ports.
ErrorReportedOnce ==
  /\ pc \in LoopPcs => ~errorFlag
  /\ pc \in {"begin", "setup", "exit"} \cup LoopPcs => callbacks = 0
  /\ pc \in {"callback", "clear", "finished"} =>
       callbacks = IF errorFlag THEN 1 ELSE 0

\* Nothing stays open behind a thread that has ended (README.md:22: interrupt
\* the program "to close them").
ClosedAfterRun ==
  pc \in {"exit", "callback", "clear", "finished", "none"} =>
    \A p \in Ports : router[p] = NoAddr

\* Whatever else goes wrong, in any number of runs, no more ports are ever left
\* open by them than there were faults: run() may forget the port that a fault
\* is about, and no other, if the host can close what it has opened.
LeftOpenBounded ==
  pc \notin LoopPcs =>
    LET open == {p \in Ports : router[p] # NoAddr}
    IN  IsFiniteSet(open) /\ Cardinality(open) <= faults

\* The places of a thread that has been told to stop, and how far from the end
\* each of them is.
WayOut ==
  [begin |-> 10, setup |-> 9, redo |-> 8, map |-> 7, wait |-> 6, top |-> 5,
   unmap |-> 4, exit |-> 3, callback |-> 2, clear |-> 1, finished |-> 0]

\* Wherever the flag finds the thread, from then on every step brings it nearer
\* to its end: it finishes what it is at, one setup or the rest of one pass
\* over the ports, but begins no other, never sleeps, and closes each port at
\* most once.  So stop() waits for a bounded number of calls of miniupnpc.
StopHeeded ==
  [][interrupt /\ pc \in LivePcs =>
       \/ UNCHANGED runVars
       \/ WayOut[pc'] < WayOut[pc]
       \/ pc' = pc /\ todo' \subseteq todo /\ todo' # todo]_mgrVars

\* How long no port at all may be routed to the host: one long sleep that
\* began in good faith, and one short one for every fault.
OutageBounded == dark <= LongWait + ShortWait * faults

\* stop() and start() return.
CallsReturn == client # "idle" ~> client = "idle"

\* Every port of a running manager gets routed to the host, again and again,
\* until it is told to stop or fails at the start.
KeptOpen ==
  \A p \in Ports :
    (pc \in LivePcs /\ p \in ports)
      ~> (router[p] = host \/ interrupt \/ pc \notin LivePcs)
=============================================================================
