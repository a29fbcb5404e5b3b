# cliupnp in TLA+

cliupnp opens TCP ports on a UPnP router and keeps them open until it is
interrupted. `src/README.md:21-23` states what it promises: it keeps the ports
"open and routed to your computer's IP", CTRL-C closes them, and without a UPnP
router the program ends with an error. This directory holds TLA+ models of the
program, TLC configurations that check them on small instances, and proofs of
the results that matter most for every instance.

Paths below are relative to the repository in `src/`, so the code is in
`src/src/`.

## The system

| component | state | operations | used by |
|---|---|---|---|
| `ThreadInterrupt` (threadinterrupt.{h,cpp}) | an atomic flag, a mutex, a condition variable | `operator()`, `reset()`, `wait()` with and without a timeout | UpnpMgr |
| `UpnpMgr` (upnpmgr.{h,cpp}) | `ports`, `errorCallback`, `thread`, `interrupt`; in `run()` the context (`controlURL`, `lanaddr`), `mappedPorts`, `errorFlag`, `iters`, `wait_time` | `start()`, `stop()`, the destructor, `run()` on a thread of its own | main |
| `main`, `sigHandler`, the error callback (main.cpp) | `psem`, `no_more_signals`, `exitCode`, the handlers installed | the program's life; the handler on any thread; the callback on the UPnP thread | - |
| `AsyncSignalSafe::Sem` (util.h, util.cpp) | a pipe | construction, `release()`, `acquire()` | main, handlers, callback |
| `Defer`, `RAII` (util.h) | a function, whether it is still to run | construction, move, `disable()`, destruction | main, UpnpMgr (`RAII`: nobody) |
| `Log`, `Debug`, `Error`... (util.h, util.cpp) | a level, two options, a mutex around the stream | one line per object, written by the destructor | all |
| `AsyncSignalSafe::SBuf`, `writeStdErr` | a bounded buffer | appending strings and numbers | the handler |
| thread names, `SetupNetworking` | - | - | main, UpnpMgr |
| argparse.hpp, tinyformat.h (vendored) | the declared arguments | parsing the command line, formatting | main, Log |

How they interact. `main()` parses its arguments, makes the Sem, installs
`sigHandler` for each signal in turn, starts the manager and sleeps in
`Sem::acquire()`. Whoever first turns `no_more_signals` from false to true, a
handler on whatever thread the system picked or the error callback on the UPnP
thread, writes the byte that wakes it. It then sets `no_more_signals` itself,
stops the manager (interrupt, then join), restores the handlers, reads the exit
code and runs the destructors. The UPnP thread finds a router, maps every port,
sleeps 20 minutes (or 1 when it could map nothing), does it again, and unmaps
what it believes to be mapped when the sleep is interrupted.

What is hard in it:

* *Interleaving.* Two threads plus handlers that run on top of either of them;
  the sleep's flag is set under the mutex, reset without it, and notified after
  it is released; plain members shared by `stop()`, `start()` and `run()`.
* *Failure.* Discovery, mapping and unmapping fail independently, a mapping may
  be made although its answer is lost, the router may forget everything, the
  host may change its address. `run()` keeps a belief (`mappedPorts`, `lanaddr`)
  about state it does not own.
* *Ordering at the end.* The exit code must be read after the thread is joined,
  the handlers restored after the ports are closed, the Sem freed after the last
  writer is done.
* *Time.* A lost wake-up or a wrong choice of the wait costs 20 minutes.

What makes each component correct: for ThreadInterrupt, no lost wake-up and the
promise of `InterruptibleSleep`; for UpnpMgr, that belief is good enough to
clean up with, that the threads do not share members, that a stop is not
forgotten, that errors are reported exactly once and that outages are bounded;
for the program, one wake-up, no use of a freed Sem, a correct exit code, and
`PortKeeper`; for Defer, that every clean-up function is called once unless it
was disabled; for SBuf, that it holds the beginning of what it was given and
writes nowhere else; for Log, that lines are not mixed and that its destructor
may log and still returns; for the parser, that what it makes of a command line
is what the line means. `PROJECT.json` lists each hazard with the line where it bites and
the properties aimed at it.

## The modules

| module | models | proofs |
|---|---|---|
| `InterruptibleSleep` | abstract: what ThreadInterrupt promises | |
| `ThreadInterrupt` | threadinterrupt.{h,cpp}, one step per access | `ThreadInterruptProofs` |
| `UpnpMgr` | upnpmgr.{h,cpp} with router and network | `UpnpMgrProofs` |
| `PortKeeper` | abstract: what the program promises its user | |
| `CliUpnp` | main.cpp and Sem, EXTENDS UpnpMgr | `CliUpnpProofs`, `KeeperProofs` (that it implements PortKeeper) |
| `CommandLine` | argparse.hpp as main.cpp:43-68 uses it | `CommandLineProofs` |
| `Defer` | `Defer` and `RAII` of util.h | `DeferProofs` |
| `SBuf` | `SBuf` of util.h | `SBufProofs` |
| `Log` | `Log` and its subclasses, util.{h,cpp} | `LogProofs` |
| `MC...` | values of constants and symmetry for TLC | |

Some operators are preceded by the comment "A mutation": each is a plausible
bug in the definition that follows it, and no specification uses it. It shows
that the property it is paired with in `PROJECT.json` can fail.

### ThreadInterrupt and InterruptibleSleep

`pc[t]` is a thread's place inside `operator()` (`i_...`) or `wait()` (`w_...`);
`flag` and `mut` are the members. `wait()` is lock, the first reading of the
flag (line 18-19), the loop that `cond.wait` or `cond.wait_for` runs, and for an
untimed wait the last reading of line 24. The condition variable is the C++
one: blocking releases the mutex atomically, `notify_all` wakes whoever is
blocked at that moment, wake-ups may be spurious, a timeout may come at any
time, and waking takes the mutex again. `reset()` is a bare store. The class
does not forbid calling it while another thread is in `wait()`, so
`ConcurrentReset` selects between "any time" and the discipline UpnpMgr follows,
which is to reset after the join.

`InterruptibleSleep` has a latching flag and sleeps that end when it is set or
when their time is up, with a result that says which. The refinement maps a
thread inside `wait()` to asleep. So `WakeUp`, which returns the flag, must be
one of the points where `wait()` returns, and the untimed wait's result is
always true, as the comment of threadinterrupt.cpp:24 claims.

### UpnpMgr

The client's place in `start()` and `stop()` is `client`; `pc` is the UPnP
thread's place in `run()`. `StopInterrupt`, `StopJoin`, `StopReset` and
`StartSpawn` are the statements of lines 18-47, and `SpawnFails` is `start()` left
by the exception of `std::thread`'s constructor, when the callback and the ports
have been set but there is no thread: a client that catches it may call `start()`
or `stop()` again. `run()` is `RunBegin`,
`FirstSetup`, then `LoopTop`, `RedoSetup`, one `MapPort` per call of
`UPNP_AddPortMapping`, `Wake`, one `UnmapPort` per call of
`UPNP_DeletePortMapping`, and the outer `Defer` as `ExitInterrupt`, the callback
and `ExitClear`. The `Defer` objects have no variable of their own: their
functions are the steps at the places where the destructors run. The interrupt
in `run()` is the sleep of `InterruptibleSleep`: `Wake` returns at once under the
flag, or after `wait_time`. This is justified because UpnpMgr keeps the
discipline under which ThreadInterrupt implements that module
(`ClientOwnsMembers`: no reset while there is a thread).

`iters` matters only as "is it above zero", so it is the Boolean `again`; it
cannot wrap (64 bits, one turn a minute). `lanaddr` and `controlURL` are `ctx`.
`dark` is a history variable: the minutes slept since a port was last opened,
while none was routed to the host.

The environment is external. Each misbehaviour is a kind of fault:

| fault | meaning |
|---|---|
| `noIGD` | `setup()` finds no usable router; it may leave part of the context behind |
| `refuseNew`, `refuseRefresh` | `AddPortMapping` fails for a port that is not, or is, in the router's table; the table stays as it is |
| `lostReply` | the mapping is made and the call fails |
| `deleteFails` | `DeletePortMapping` fails and its port stays |
| `reboot` | the router forgets its table |
| `hostMoves` | the host gets another address |
| `noThread` | a thread cannot be started |

`SecureRouter` says whether the router only accepts mappings for, and deletes
by, the host that asks. Both kinds exist. `RefusesConflicts` says what it does with a
port that it has mapped for another address than the one asked for, which here can
only be the host's own old one: replace the entry, or answer 718
(ConflictInMappingEntry). UPnP's IGD specification asks for the latter; routers of
either kind exist. In both respects the router does what it is built to do, so it is
no fault.

### CliUpnp and PortKeeper

`CliUpnp` extends `UpnpMgr`: each of its steps is a step of main, of a handler,
of the callback or of the UPnP thread, and the manager's variables change only
by UpnpMgr's own actions. `main` is the place in `main()`; while it is in a call
of the manager (`starting`, `stopping`, `destroying`) it takes UpnpMgr's client
steps. The nested scope's `Defer` is `CloseScope` (line 104), the steps of
`stop()`, and one `RestoreHandler` per signal. A handler is two steps, the
compare-exchange and the write. It runs on main's thread or the UPnP thread,
which cannot go on until it is done, or on one of its own (Windows). The Sem is
the number of bytes in its pipe, so a write never blocks as long as `OneWakeUp`
holds. With `ReadRestarts = FALSE`, a handler on main's thread may make the
`read()` it interrupts fail: `SignalHandled` sends main to `interrupted`, from where
`AcquireFails` goes on as `waitSem()` does, with a line in the log and without
the byte. Whether a `read()` restarts is the system's choice. `StartThrows` is
main() when `start()` throws, which nobody catches. Arguments, `SetupNetworking` and the pipe's creation have their outcomes
as choices, the early exits included.

`PortKeeper` is the program for its user, in phases:

    reading -> preparing -> probing ----> keeping
                               |             |
                               V             V
                            leaving ----> closing -> ended

and `failed`, from `probing` and `leaving`, if there is no router. The steps down are
the stop. Passes over the ports begin in `keeping` only; the pass that is under way
at the stop (`due` is what it has yet to visit) may be finished in `closing`, since
the loop over the ports does not look at the flag (upnpmgr.cpp:177-200); ports are
closed when nothing is due any more, and the program ends with none open. The exit
status is that of the phase it ends in: a usage is a success and a bad command line
a failure, from `reading`; a start that fails is a failure or aborts, from
`preparing`; a run that found no router is a failure, and only one that found one a
success.

`Phase`, `Due`, `Opened` and `Status` map the program's state to it. The stop is
`stop()` setting the thread's flag (`interrupt`), not the signal that precedes it:
between a signal, which only sets `no_more_signals` and writes a byte, and main()'s
call of `stop()` the thread is not told anything, and a sleep that ends just then is
followed by another pass. That main() gets there after every signal is
`ShutdownCompletes`.

### CommandLine

The parser as the program sets it up: one positional argument `port` of one or
more values and the flags `-d`, `-h`, `-v` with their long names. `Preprocess`
splits `--name=value`; then each turn of the loop of `parse_args_internal` is one
of `Positional` (which consumes all words up to the next option and converts
them), `Flag`, `Compound` followed by one `Letter` per character, or `Unknown`,
and `Validate` is what `parse_args` does after the loop. Words are sequences of
characters, because what the parser takes a word for depends on them; the
operators around `IsDecimalLiteral` are the labels of that function's gotos.
`Meaning` says what a command line asks for without a parser: which items its
words stand for, which of them cannot be, and that the first one that cannot be,
or that asks for help or the version, decides.

Its three outcomes are the three disjuncts of CliUpnp's `ParseArgs`: go on with
the ports, return EXIT_FAILURE, or exit with success. The state spaces are kept
apart because nothing the parser does can interleave with anything: there is no
other thread yet, and a signal just ends the process.

### Defer

`Guards` are places for objects of type `Defer` or `RAII`, which are made, moved,
assigned, disabled and destroyed in any order. `func` and `valid` are their
members (`valid` as the set of the guards for which it is true); `giver`, `runs`
and `off` are history: how a function got into a guard, how often it has run,
whether it was disabled while pending. What a `std::function` holds after it was
moved from is not specified, so `AfterMove` has both outcomes. `RAII`'s
constructors differ in whether the clean-up is copied or moved; both ask the
parameter afterwards whether there is one. That they ask is what keeps a guard without
a function from being valid, which `TypeOK` says of all guards.

`Throwers` may throw when they are called. In an assignment the exception comes
before anything has been changed, and both guards stay as they are
(`MoveAssignThrows`); out of a destructor it ends the program (`DestroyThrows`). An
`initFunc` that throws (`InitFails`, `EmptyInitFails`) leaves RAII's constructor when
the base class is complete and `valid`, so that the base's destructor calls the
clean-up, an empty one included, which ends the program.

### SBuf

`strBuf` and `len` are the members, characters are their codes, and `Junk` is
what an element holds that nothing was written to; `asked` is a history of what has been appended since the last `clear()`,
as far as it can fit. `AppendInt` renders its number as the code does, digit by
digit from the last, with the special case for the least value of the type,
which has no positive counterpart. Texts contain no 0, since `strncpy` would stop
there; no caller has one that does. `Decimal` is the reference: the decimal form
of a number by its definition, most significant digit first, with no regard to
the width of a type. The assumption on `low` is that of C++: a type is unsigned, or
signed and of at least 8 bits, so that its least value has a last digit and more.

### Log

`lines[t]` is the stack of the destructors thread t is in: one that cannot stamp
its line logs an `Error` from inside (util.cpp:86), and the callback for a fatal
line may log. A destructor is `ReadTimeStamps`, `FormatTime` or `FormatFails`,
`LockMut`, `PutText`, `PutNewLine`, `UnlockMut` and `Callback`, one step per write to
a stream. Reading the setting and formatting the time are steps of their own, so
that two threads may both find time stamps on and both fail. `out` is the last
chunk each stream got. Time stamps are on or off when it begins, and nobody turns
them on later: main() does that before there is a second thread
(main.cpp:81). The callback is any code that logs at most a line that is not
fatal, as its last act; a destructor that has called it has nothing left to do, so
that line's destructor takes its place in `lines[t]`.

## What TLC checks

| run | constants | shows |
|---|---|---|
| `thread_interrupt` | 3 threads, 2 calls each, reset disciplined, fair | `TypeOK`, `NoLostWakeup`, `KeepsPromise` (implements InterruptibleSleep), `InterruptEndsSleep` |
| `upnp_mgr` | 2 ports, 3 vectors (empty, one port, unsorted with a duplicate), a router that accepts only the host's own address and replaces entries, all faults, 4 of them, fair | `MgrTypeOK`, `CleanupCanReach`, `ClientOwnsMembers`, `StopNotLost`, `NoStaleInterrupt`, `ErrorReportedOnce`, `OutageBounded`, `StopHeeded`, `CallsReturn`, `KeptOpen` |
| `upnp_mgr_forgotten` | one `refuseRefresh` | violation of `ClosedAfterRun` |
| `upnp_mgr_stale` | one `hostMoves`, a router that accepts any address, fair | violation of `KeptOpen` |
| `command_line` | all lists of up to 3 words out of 19; every single word of `-` and up to 5 of the characters `0 1 . e -` | `TypeOK`, `PositionalAsDocumented`, `OutcomeAsMeant`, `AlwaysEnds` |
| `cliupnp` | 2 ports, 2 signals, 4 deliveries on main's and the UPnP thread, reads that signals interrupt, a router that accepts any address and refuses conflicts, all faults, 3 of them | `TypeOK`, `SemAliveWhenUsed`, `OneWakeUp`, `EndsWhenTold`, `ExitCodeCorrect`, `NotKilledInRun`, `LeftOpenBounded` |
| `cliupnp_promise` | 2 ports, 2 signals, 3 deliveries on any thread (one of the system's own included), a router that accepts any address and refuses conflicts, 4 faults out of `noIGD`, `refuseNew`, `reboot`, `hostMoves`, `noThread`, fair | `OneWakeUp`, `ClosedAfterRun`, `InterruptCloses`, `KeepsPromise` (implements PortKeeper), `ShutdownCompletes` |
| `cliupnp_killed` | handlers that are removed when invoked, 2 deliveries | violation of `InterruptCloses` |
| `defer` | 3 guards, 3 functions, 2 of which may throw, an `initFunc` that may throw, all constructors, symmetry | `TypeOK`, `OneFate`, `KeptUnlessMovedFrom` |
| `defer_forgotten` | 1 guard, 1 function | violation of `NothingForgotten` |
| `sbuf` | a buffer of 6; texts, characters and numbers of 8 and 16 bits | `TypeOK`, `HoldsBeginning`, `EndsWithText` |
| `log` | 2 threads, 2 lines each, two streams, a callback, fair | `TypeOK`, `NestsOnce`, `LinesWhole`, `EveryLineEnds` |

The bounds, and why they are enough:

* `MaxCalls = 2` with three threads: one thread waits twice while a second
  interrupts, resets or waits, and a third comes between any two of their steps.
  A lost wake-up takes one waiter and one interrupter. `ConcurrentReset = TRUE`,
  a reset at any time, needs no run: `WakeupsNotLost` is proved for it, and the
  promise is not made there.
* Two ports: one can be mapped while the other is refused, and the loops have a
  first and a last turn. Nothing relates a port to another one except
  `mappedPorts` being empty or not.
* Two addresses: the old and the new one. A host can move back, too.
* `MaxFaults = 4` (3 in the run of the whole program with all faults): enough
  for a mapping that is refused, forgotten and moved away from before the next
  turn, or for a thread that does not start between two of these.
  A run without faults is among the behaviours, since no fault is ever certain.
* `SecureRouter` is TRUE in `upnp_mgr`, where `OutageBounded` needs it, and FALSE in
  the runs of the whole program, where `LeftOpenBounded` and the promise include a
  host that moves: it must still be allowed to close what it has opened. With the
  other kind of router a single move may leave every port open. A router that
  accepts anything has all the behaviours of the other kind while the host stays.
* `RefusesConflicts` is FALSE in `upnp_mgr`: `OutageBounded` and `KeptOpen` say that the
  program recovers from a move of the host, which it does only where the router
  replaces the old entry (see the remark on conflicts below). It is TRUE in the
  runs of the whole program, whose properties are about what is left open and hold
  with both; the theorems other than `OutagesBounded` do not depend on it.
* `DarkCap = 60` is above what four faults can cost when the code is right
  (20 + 4), so an outage that breaks `OutageBounded` is not hidden by the cap.
  Runs that do not look at the clock switch it off with 0.
* `MaxSignals` is 4 with two signals where reads are interrupted, 3 elsewhere:
  the same signal twice, and one on top of each thread, while a third has ended
  main's wait. Reads that restart and handlers on a thread of their own are in
  `cliupnp_promise`, reads that fail in `cliupnp`: the two do not go together, as
  the systems that interrupt a read run the handler on one of the program's threads.
  `start()` and `stop()` are not bounded at all.
* Three words, 19 of them: the empty word, `-`, ports at and above 65535, a
  negative number, flags in both spellings, compounds that exit, repeat a flag or
  hold an unknown one, and split words with a good, an empty and an unknown part.
  Three words are enough for ports, a flag, and ports again; two flags and a port
  in any order. The grammar of literals is checked on every word of the
  characters that occur in it, long enough for an integer part, a point, a
  fraction and an exponent with its sign.
* Three guards: one moved into a second, while a third comes or goes. Two
  functions can be mixed up; the third is one that was not yet given. Two throw
  and one does not, so that both kinds can be moved over each other.
* A buffer of 6 is filled by one number of 16 bits with its sign, reached exactly
  by some, and passed by others, from every length below it.
* Two lines per thread: one that fails to be stamped and nests another, and one
  that follows it, against the same on the other thread.

### Fairness

`FairSpec` of ThreadInterrupt is weak fairness of each thread's own steps, that
is, a scheduler that runs every runnable thread; calls, spurious wake-ups and
timeouts are never assumed to come. With at most `MaxCalls` calls, a thread
waiting for the mutex is not overtaken for ever. `MgrFairSpec` and CliUpnp's
`FairSpec` are weak fairness of the client (or main), of the UPnP thread, and of
a running handler. The UPnP thread's steps include the calls of miniupnpc, which
have timeouts of their own, and the passing of the minutes it sleeps. Nothing is
assumed of the router, the network, signals or the client's wish to start or
stop, so the liveness properties hold for a program that is left alone as well.
CommandLine is sequential code, and its only fairness is that it goes on. In Log
it is each thread's destructors; with a bounded number of lines, a thread that
waits for the mutex is not overtaken for ever.

`KeptOpen` is about a manager that goes on; it allows the thread's end, and
needs that faults are finite in number, which `MaxFaults` provides.

### Where the code and its documentation disagree

* `upnp_mgr_forgotten`: a port whose refresh fails is erased from `mappedPorts`
  (upnpmgr.cpp:195) though the router may keep the mapping, whose lease does not
  expire (line 190, "0"). The clean-up will not unmap it, and CTRL-C leaves it
  open. A lost reply has the same effect.
* `upnp_mgr_stale`: the context is redone only when nothing is mapped (line
  172). With a router that accepts any internal address, the refresh with the
  old address succeeds for ever after the host has moved. With a router that
  only accepts the host's own and replaces what it had, the refresh fails and the
  code recovers: `upnp_mgr` shows that, and `OutageBounded` how long it takes.
* `cliupnp_killed`: `std::signal` on Windows removes the handler when it is
  invoked, and `sigHandler` does not install it again (main.cpp:35-40, 89). A
  second CTRL-C while `stop()` is at work ends the process with ports open. With
  the BSD semantics of the other platforms `NotKilledInRun` holds.
* `defer_forgotten`: util.h:400 says "cleanupFunc called in this instance's
  destructor", and the example above it (util.h:386-389) passes a lambda, an
  rvalue. The constructor for rvalues moves it into the base class and then sets
  `valid` from what it was moved out of (util.h:401), so where moving empties a
  `std::function` the clean-up is never called. Nothing in the program uses
  `RAII`.

A remark on conflicts: with a router that only accepts the host's own address and
answers 718 to a port mapped for another, the program does not recover from a move.
The refresh fails, the port is erased from `mappedPorts` and the context redone (line
172), but the router keeps the entry of the old address, whose lease does not expire
(line 190), and refuses the new one, minute after minute. `upnp_mgr` with
`RefusesConflicts = TRUE` and `hostMoves` alone shows it as a violation of `KeptOpen`.
The comment at lines 169-170 means to handle "a new IP address" by redoing the
context, which is enough for the other routers.

A remark on `RAII`: util.h:383-391 calls it equivalent to running the initialiser
and then making a `Defer`. When the initialiser throws, it is not: the equivalent
code would not have made the `Defer` yet, whereas RAII's base class calls the
clean-up (`InitFails`). Nothing in the program uses it, and no run is about it.

A remark on ThreadInterrupt: a `reset()` while another thread is in `wait()` can
take back an interrupt that has been signalled but not yet seen. The header does
not rule that out; the program resets only after the join.

## What TLAPS proves

For every value of the constants allowed by the named assumptions:

* `ThreadInterruptProofs`: `TypeCorrect` and `WakeupsNotLost`, for any set of
  threads, any number of calls and with `reset()` at any time, and `PromiseKept`:
  with `~ConcurrentReset`, Spec implements InterruptibleSleep.
* `UpnpMgrProofs`: `MgrTypeCorrect`, `CleanupAlwaysReaches`, `MembersNotShared`,
  `StopRemembered`, `RunsNotCutShort`, `ErrorsReportedOnce`, for any set of ports,
  any vectors, any addresses, both kinds of router and any faults;
  and `StopsAreHeeded`: from the moment the flag is set, every step of the thread
  brings it nearer to its end;
  `OutagesBounded`, for any number of any faults with a `SecureRouter` that does not
  refuse conflicts (with the other kinds it is false, see `upnp_mgr_stale` and the
  remark on conflicts above). Where the host keeps its address
  or the router does not ask who is asking (`CanClose`): `LeftOpenPaidFor`, for any
  number of any faults, and `NothingStaysOpen`, for any number of those that do not
  make `run()` forget a port (`Harmless`: all but `refuseRefresh`, `lostReply` and
  `deleteFails`). Without `CanClose` both are false: a host that has moved away is
  not heard when it wants to close its ports.
* `CliUpnpProofs`: `UsesManager` (the program's Spec implies MgrSpec, so all that
  is proved of the manager holds in the program), `TypeCorrect`,
  `SemNotUsedAfterFree`, `WokenUpOnce`, `WaitsToBeTold` and `ExitCodeIsRight`, for
  any list of signals, any number of deliveries on any thread, reads that restart
  or fail, and any faults; `SignalsDoNotKillARun` where handlers stay installed
  (`HandlerPersists`); and `CtrlCCloses` where they do and the faults are `Harmless`.
* `KeeperProofs`: `ProgramKeepsPromise`: under these two conditions the program
  implements PortKeeper.
* `CommandLineProofs`, for any number of words of any length and any characters:
  `TypeCorrect`; `PositionalsAsDocumented`: the automaton of gotos in
  `is_decimal_literal` accepts exactly the grammar in the comment above it;
  `OutcomesAsMeant`: the parser accepts, refuses or exits as the command line means,
  with its ports and its log level; and `ParserAlwaysAdvances`: each step reads a
  word or a letter more, or ends the parsing. Of the lemmas, two say something of
  the code by themselves: `FromCharsIsTheNumber` (a port is the number its digits
  write, or an error if that is out of range) and `SplitAsMeant` (`--name=value`
  is split where a name of an option says so).
* `DeferProofs`: `TypeCorrect`, `CleanUpsHaveOneFate` and `CleanUpsAreKept`, for any
  number of guards and functions, whatever throws, and
  `NothingForgottenWithoutMove` without the constructor of the finding above.
* `SBufProofs`: `TypeCorrect`, `BufferHoldsBeginning` and `BufferEndsWithText`, for a
  buffer of any size, texts of any length and integers of any width.
* `LogProofs`: `TypeCorrect`, `StampsNestOnce` and `LinesAreWhole`, for any number of
  threads, lines and kinds of line, with and without a callback.

The argument for `NoLostWakeup`. The property alone is not inductive: nothing in
it says that the flag cannot be set between the reading at the top of the loop
and blocking. `IInv` adds that the thread which is at a place that holds the
mutex is the mutex's holder (`MutexHeld`, a part of `TypeOK`), and that a thread about to block has
seen the flag clear (`BlockSawClear`), which the store under the mutex preserves.
For `PromiseKept`, `LastInv` says that at the last reading the flag is set or the
wait is timed; it survives because the disciplined reset has no wait under way.
Each step of a call then maps to one step of InterruptibleSleep or to a stutter.

The argument for the manager. `IInv` is a conjunction of parts, each preserved by
a lemma of its own: the steps that change a part's variables one by one, and all
the others because they do not. `ClientOwnsMembers` needs `StopNotLost` and the
join. `ErrorReportedOnce` needs that there is a callback until the thread
is through with it. `CleanupCanReach` needs to know where the context may be
thrown away (`mappedPorts` is empty at `redo`) and that it is there where ports
get mapped, including the first turn, where `again` is still false.
What stays open is `Forgotten`: the ports that are open but not in `ToClose`, which
is `mappedPorts` and, in the clean-up, what is left of its loop. `OwnInv` says that
this host may close what is open, and that the context has an address that may be
mapped whenever that matters. With it, `ForgetStep` shows that a step adds one port
at most to `Forgotten`, and only with one of the three faults in `Forgetting`. So
without these there is never any (`NothingStaysOpen`), and otherwise no more of them
than faults (`LeftOpenPaidFor`). `StopsAreHeeded` orders the thread's places
(`WayOut`) and needs `ClientOwnsMembers`, so that no `start()` comes in between.
`OutagesBounded` adds `OutageInv`, which follows an outage through a turn of the
loop: a long wait is begun only with a port that was just mapped, hence with no
outage under way; and a turn that maps nothing has met a fault since the last one,
which pays for the short wait that follows. For that it needs that the
context has the host's address unless a fault has come since.

The argument for the program. Every step is one of the manager's or leaves its
variables alone (`StepIsMgrStep`). `PlaceInv` ties main()'s place to the client's:
the manager's client is idle unless main() is in one of its three calls, and
after `stop()` there is no thread. `ExitInv` compares the exit code with what the
callback has been told (`Told`); it is right when main() reads it because by then
the thread is gone. `SemInv` says that at most one of the handlers and the
callback is about to write or one byte is there, never both, and that main() is
still before its wake-up then, so the Sem is alive. `HandledInv` follows the loops
that install and restore handlers, signal by signal: every signal in the list is
handled whenever there may be a thread. A `read()` that fails changes none of that:
main is interrupted by a handler, which has set `no_more_signals` or found it set
before main can go on, and main stays behind the join until the writer is done.

The promise follows from these invariants by simulation. Each step is mapped to
one of PortKeeper's or to a stutter. A pass begins where the top of the loop has
found the flag clear, which is in `keeping`; that the clean-up is reached only under
the flag, or after an error, is `HeededInv`, so it is in `closing`. `Open` and `Close`
are those steps of the UPnP thread that change the router; that everything is closed
at the end is `ClosedInv`, that the exit code is that of the phase `ExitInv` and the
join, and that no signal kills a run `HandledInv`.

The argument for Defer. No function is held as pending by two guards, and one
nobody was given yet is nowhere (`Fresh`), without which a new guard could repeat
one. Moving, copying into and assigning are all the passing of a function from
one holder to another (`Passes`), proved once. One that has thrown stays with its
guard, or the program has ended.

The argument for the automaton has one lemma per label: what is accepted from
there on is a part of the grammar, for any rest of a word. The digits that are
skipped are the longest run of them (`DropDigitsStops`), and a grammar that splits
the same word differently cannot accept more, because what follows the digits must
begin with something else.

The argument for the parser. `IInv` says that the words before the parser's place
have been read, and nothing more: `ItemsUpTo` are the items they ask for, a
beginning (`Begins`) of the items of the whole line, and `Read` relates these to
`used` and `values`: none of them is bad or asks for help or the version, `used` has
the flags among them, `values` the ports' numbers. Within a compound word the
letters read so far are such a beginning, too. What a step refuses, or exits for, is
the next item, so it is the first that decides, whatever comes after
(`BadDecides`, `ExitDecides`). Ports are the hard case: one step reads all that stand
together, and only the first of them that is no number decides (`PortsCome`); that a
later port is bad because they do not stand together is `PortComesAgain`. Recursive
functions (`FromChars`, `NumberOf`, the library's `FlattenSeq`) are shown to be
defined, and facts about them for every length, by a least counterexample
(`CountingUp`, `StepByStep`), as the induction theorems cannot be used.

The argument for SBuf has two halves. That the loop which renders a number is
well defined for every integer, ends, and gives the reverse of the decimal form is
shown without an induction rule, by a least counterexample (`LeastOf`, from the
well-foundedness of the naturals): functions that do what the loop does exist
below every bound and agree where both are defined, so their union is one. The
least value of a type loses its last digit first and is then like any other. The
invariant `IInv` says that the array up to `len` is what was asked for, with a 0
behind it, and every way to append is one case of `PutKeeps` or `FullKeeps`.

The argument for Log. A thread's stack of destructors has one that is running and,
below it at most one, which is about to lock (`StackInv`); so the holder of the mutex
is inside with its innermost line and no other thread is (`MutexInv`), and a text
that still waits for its newline is that line's (`OutInv`). For `StampsNestOnce`, a
second destructor is there only since time stamps were turned off, for good, and
is itself past the point where it would format one.

Only model-checked: the liveness properties (`InterruptEndsSleep`, `CallsReturn`,
`KeptOpen`, `AlwaysEnds`, `ShutdownCompletes`, `EveryLineEnds`), because fairness and
ENABLED are beyond the prover. Of `CallsReturn` and `AlwaysEnds`, the part that needs
no fairness, that every step is one towards the end, is proved: `StopsAreHeeded` and
`ParserAlwaysAdvances`. Every invariant and every other action property or
refinement that a passing run checks has a theorem.

## What is not modelled

* What argparse can do and the program does not use: subparsers, choices, parent
  parsers, other numbers of arguments, other conversions, `parse_known_args`; and
  its help text. `argv[0]` is taken to be no option.
* The wording of lines: colours, prefixes, thread names, the format of the time,
  tinyformat. `isaTTY` and `writeStdErr`, which only talk to the system.
  `Log::fatalCallback` is set by main(), but nothing logs a fatal line.
* Errors of `write` on the pipe: its one byte always has room (`OneWakeUp`), and a
  write that need not wait is not interrupted. Errors of `read` other than that of a
  signal cannot come from a pipe that is open at both ends.
* The Sem for platforms that are neither Windows nor UNIX (util.cpp:269-282), which
  no platform of the README compiles: a condition variable that is waited for
  without a condition, so that a release before the wait would be lost.
* A router that has the port mapped for another host or by another program (what
  the host itself mapped under an old address is modelled), and a process that is killed by a signal nobody can handle.
* UPNP_GetExternalIPAddress, whose result is only logged.

## Plan

Done, in this order: ThreadInterrupt and its promise; UpnpMgr; CliUpnp, Sem and
PortKeeper; the proofs of the first two; CommandLine; the proofs of CliUpnp; Defer
with its proofs; SBuf; Log; then the faults that were missing (a thread that
does not start, reads that signals interrupt, functions that throw, time stamps
that fail on two threads), and the proofs of the outage bound, of the program's
promise, of Log, of SBuf and of the whole parser; then, for the manager, how many
ports can be left open and what follows a request to stop. To do:

1. The same order of places for `ShutdownCompletes`: main()'s steps from its wake-up to
   its end, those of the callback, and for `EveryLineEnds` the steps of a destructor.
2. A composition of UpnpMgr with InterruptibleSleep, so that `Wake` is a step of it by
   refinement and not by the argument above.
