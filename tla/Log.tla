--------------------------------- MODULE Log ---------------------------------
(***************************************************************************)
(* Log and the classes derived from it (util.h:45-209, util.cpp:49-217).   *)
(* A temporary object collects a line and its destructor prints it.  The   *)
(* destructor logs a line of its own when the time cannot be formatted,    *)
(* and the callback for fatal lines may log one, so a thread can be inside *)
(* several destructors at once.  Colours and wording are left out.         *)
(***************************************************************************)
EXTENDS Naturals, Sequences

CONSTANTS
  Threads,
  NoThread,        \* the holder of a mutex that is free
  Kinds,           \* the classes that threads log with
  HasCallback,     \* is fatalCallback set?
  MaxLines         \* bound on the lines a thread logs by itself

AllKinds == {"Log", "Debug", "Trace", "Warning", "Error", "Fatal"}
Streams == {"cout", "cerr"}

\* enum Level.
Info == 0
DebugLevel == 4
TraceLevel == 5

ASSUME LogAssumption ==
  /\ NoThread \notin Threads
  /\ Kinds \subseteq AllKinds
  /\ HasCallback \in BOOLEAN
  /\ MaxLines \in Nat

VARIABLES
  logLevel, logTimeStamps,   \* the app-global settings
  mut,                       \* the holder of the mutex around the streams
  lines,                     \* the destructors a thread is in, the innermost last
  count,                     \* how many lines a thread has logged by itself
  out                        \* the last that went to each stream

vars == <<logLevel, logTimeStamps, mut, lines, count, out>>

Inside == {"text", "newline", "unlock"}   \* the block with the lock
Places == {"stamp", "format", "lock", "callback"} \cup Inside

\* A line, and how far its destructor has got with it.
Lines == [kind : AllKinds, to : Streams, autoNewLine : BOOLEAN, at : Places]

\* What a stream gets: the text of a line that will or will not have a newline,
\* or that newline.
Chunks == [by : Threads \cup {NoThread}, part : {"open", "text", "newline"}]

\* Types, and the mutex is held by whoever is inside of the block.
TypeOK ==
  /\ logLevel \in {Info, DebugLevel} /\ logTimeStamps \in BOOLEAN
  /\ mut \in Threads \cup {NoThread}
  /\ lines \in [Threads -> Seq(Lines)]
  /\ count \in [Threads -> 0 .. MaxLines]
  /\ out \in [Streams -> Chunks]
  /\ \A t \in Threads : mut = t <=> \E i \in DOMAIN lines[t] : lines[t][i].at \in Inside

Init ==
  /\ logLevel \in {Info, DebugLevel}   \* main.cpp:63
  /\ logTimeStamps \in BOOLEAN
  /\ mut = NoThread
  /\ lines = [t \in Threads |-> << >>]
  /\ count = [t \in Threads |-> 0]
  /\ out = [s \in Streams |-> [by |-> NoThread, part |-> "text"]]

Line(kind, to, autoNewLine) ==
  [kind |-> kind, to |-> to, autoNewLine |-> autoNewLine, at |-> "stamp"]

\* Debug::~Debug and Trace::~Trace clear doprt when their level is not enabled.
IsEnabled(kind) ==
  CASE kind = "Debug" -> logLevel >= DebugLevel
    [] kind = "Trace" -> logLevel >= TraceLevel
    [] OTHER          -> TRUE

\* A statement that logs a line ends, and the temporary is destroyed.
Say(t, kind, to, autoNewLine) ==
  /\ lines[t] = << >> /\ count[t] < MaxLines
  /\ IsEnabled(kind)
  /\ lines' = [lines EXCEPT ![t] = <<Line(kind, to, autoNewLine)>>]
  /\ count' = [count EXCEPT ![t] = @ + 1]
  /\ UNCHANGED <<logLevel, logTimeStamps, mut, out>>

Depth(t) == Len(lines[t])
Innermost(t) == lines[t][Depth(t)]
IsAt(t, place) == lines[t] # << >> /\ Innermost(t).at = place

Goto(t, place) == lines' = [lines EXCEPT ![t][Depth(t)].at = place]
Leave(t) == lines' = [lines EXCEPT ![t] = SubSeq(@, 1, Len(@) - 1)]

\* Whether a time stamp is wanted.
ReadTimeStamps(t) ==
  /\ IsAt(t, "stamp")
  /\ Goto(t, IF logTimeStamps THEN "format" ELSE "lock")
  /\ UNCHANGED <<logLevel, logTimeStamps, mut, count, out>>

FormatTime(t) ==
  /\ IsAt(t, "format")
  /\ Goto(t, "lock")
  /\ UNCHANGED <<logLevel, logTimeStamps, mut, count, out>>

\* What a destructor is left with that logs an Error from inside.
Nest(t) ==
  lines' = [lines EXCEPT ![t] =
              Append([@ EXCEPT ![Depth(t)].at = "lock"], Line("Error", "cout", TRUE))]

\* A mutation: time stamps stay on.
FormatFailsAgain(t) ==
  /\ IsAt(t, "format")
  /\ Nest(t)
  /\ UNCHANGED <<logLevel, logTimeStamps, mut, count, out>>

\* The time zone database lets us down: no more time stamps, and an Error.
FormatFails(t) ==
  /\ IsAt(t, "format")
  /\ logTimeStamps' = FALSE
  /\ Nest(t)
  /\ UNCHANGED <<logLevel, mut, count, out>>

\* A mutation: each stream is locked for itself, and not at all for cerr.
LockOnlyCout(t) ==
  /\ IsAt(t, "lock")
  /\ IF Innermost(t).to = "cout" THEN mut = NoThread /\ mut' = t ELSE UNCHANGED mut
  /\ Goto(t, "text")
  /\ UNCHANGED <<logLevel, logTimeStamps, count, out>>

LockMut(t) ==
  /\ IsAt(t, "lock")
  /\ mut = NoThread
  /\ mut' = t
  /\ Goto(t, "text")
  /\ UNCHANGED <<logLevel, logTimeStamps, count, out>>

Put(t, part) == out' = [out EXCEPT ![Innermost(t).to] = [by |-> t, part |-> part]]

PutText(t) ==
  /\ IsAt(t, "text")
  /\ IF Innermost(t).autoNewLine
       THEN Put(t, "open") /\ Goto(t, "newline")
       ELSE Put(t, "text") /\ Goto(t, "unlock")
  /\ UNCHANGED <<logLevel, logTimeStamps, mut, count>>

PutNewLine(t) ==
  /\ IsAt(t, "newline")
  /\ Put(t, "newline")
  /\ Goto(t, "unlock")
  /\ UNCHANGED <<logLevel, logTimeStamps, mut, count>>

CallsBack(t) == Innermost(t).kind = "Fatal" /\ HasCallback

\* A mutation: the callback is called inside of the block with the lock.
UnlockAfterCallback(t) ==
  /\ IsAt(t, "unlock")
  /\ IF CallsBack(t) THEN Goto(t, "callback") /\ UNCHANGED mut
                     ELSE Leave(t) /\ mut' = NoThread
  /\ UNCHANGED <<logLevel, logTimeStamps, count, out>>

\* The end of the block with the lock.
UnlockMut(t) ==
  /\ IsAt(t, "unlock")
  /\ mut' = NoThread
  /\ IF CallsBack(t) THEN Goto(t, "callback") ELSE Leave(t)
  /\ UNCHANGED <<logLevel, logTimeStamps, count, out>>

\* fatalCallback, the user's code: it may log a line that is not fatal.  There
\* is nothing left to do for the destructor that called it.
Callback(t) ==
  /\ IsAt(t, "callback")
  /\ \/ Leave(t)
     \/ lines' = [lines EXCEPT ![t][Depth(t)] = Line("Log", "cout", TRUE)]
  /\ UNCHANGED <<logLevel, logTimeStamps, mut, count, out>>

Destructor(t) ==
  \/ ReadTimeStamps(t) \/ FormatTime(t) \/ FormatFails(t)
  \/ LockMut(t) \/ PutText(t) \/ PutNewLine(t) \/ UnlockMut(t)
  \/ Callback(t)

Next ==
  \E t \in Threads :
    \/ \E kind \in Kinds, to \in Streams, autoNewLine \in BOOLEAN :
         Say(t, kind, to, autoNewLine)
    \/ Destructor(t)

Spec == Init /\ [][Next]_vars

\* A thread that can run does.  Threads log a bounded number of lines, so one
\* that waits for the mutex is not overtaken for ever.
FairSpec == Spec /\ \A t \in Threads : WF_vars(Destructor(t))

-----------------------------------------------------------------------------
(* Properties *)

\* Lines are not mixed (util.cpp:97-103): on either stream, the text of a line
\* that ends with a newline is followed by that newline, and a newline by
\* another line's text.
NotMixed ==
  \A s \in Streams : out'[s] # out[s] =>
    IF out[s].part = "open"
      THEN out'[s] = [out[s] EXCEPT !.part = "newline"]
      ELSE out'[s].part # "newline"

LinesWhole == [][NotMixed]_out

\* A destructor that logs because it cannot stamp its line does not do so again
\* for that line (util.cpp:79-89), although another thread may have found time
\* stamps on before they were turned off.
NestsOnce == \A t \in Threads : Depth(t) <= 2

\* Every line gets printed and its destructor returns, although it may log by
\* itself and its callback may, and there is only one mutex (util.cpp:97-108).
EveryLineEnds == \A t \in Threads : lines[t] # << >> ~> lines[t] = << >>
=============================================================================
