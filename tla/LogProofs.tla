------------------------------ MODULE LogProofs ------------------------------
(***************************************************************************)
(* Log, for any threads, kinds of lines and number of lines.               *)
(***************************************************************************)
EXTENDS Log, SequenceTheorems, TLAPS

(* The stack of destructors a thread is in *)

StacksOK == lines \in [Threads -> Seq(Lines)]

\* The top of a stack that is not empty is a line.
LEMMA TopIsLine ==
  ASSUME StacksOK, NEW t \in Threads, lines[t] # << >>
  PROVE  Depth(t) \in Nat \ {0} /\ Innermost(t) \in Lines
<1>1. lines[t] \in Seq(Lines)
  BY DEF StacksOK
<1>2. Len(lines[t]) \in Nat \ {0}
  BY <1>1, EmptySeq
<1> QED
  BY <1>1, <1>2, ElementOfSeq DEF Depth, Innermost

\* Replacing the top.
LEMMA ReplaceTop ==
  ASSUME StacksOK, NEW t \in Threads, lines[t] # << >>, NEW l \in Lines,
         lines' = [lines EXCEPT ![t] = [lines[t] EXCEPT ![Depth(t)] = l]]
  PROVE  /\ StacksOK'
         /\ Depth(t)' = Depth(t)
         /\ lines'[t] # << >>
         /\ Innermost(t)' = l
         /\ \A i \in 1 .. Depth(t) - 1 : lines'[t][i] = lines[t][i]
         /\ \A u \in Threads \ {t} : lines'[u] = lines[u]
<1>1. lines[t] \in Seq(Lines) /\ Depth(t) \in 1 .. Len(lines[t])
  BY TopIsLine DEF StacksOK, Depth
<1> DEFINE s == [lines[t] EXCEPT ![Depth(t)] = l]
<1>2. /\ s \in Seq(Lines) /\ Len(s) = Len(lines[t])
      /\ \A j \in 1 .. Len(lines[t]) : s[j] = IF j = Depth(t) THEN l ELSE lines[t][j]
  BY <1>1, ExceptSeq
<1>3. lines'[t] = s /\ \A u \in Threads \ {t} : lines'[u] = lines[u]
  BY DEF StacksOK
<1>4. StacksOK'
  BY <1>2 DEF StacksOK
<1>5. Depth(t)' = Depth(t) /\ lines'[t] # << >>
  <2>1. Len(s) # 0
    BY <1>1, <1>2
  <2> QED
    BY <1>2, <1>3, <2>1, EmptySeq DEF Depth
<1>6. Innermost(t)' = l
  BY <1>1, <1>2, <1>3, <1>5 DEF Innermost, Depth
<1>7. \A i \in 1 .. Depth(t) - 1 : lines'[t][i] = lines[t][i]
  BY <1>1, <1>2, <1>3
<1> QED
  BY <1>3, <1>4, <1>5, <1>6, <1>7

\* Going on to the next place.
LEMMA GotoMovesTop ==
  ASSUME StacksOK, NEW t \in Threads, lines[t] # << >>, NEW place \in Places,
         Goto(t, place)
  PROVE  /\ StacksOK'
         /\ Depth(t)' = Depth(t)
         /\ lines'[t] # << >>
         /\ Innermost(t)' = [Innermost(t) EXCEPT !.at = place]
         /\ \A i \in 1 .. Depth(t) - 1 : lines'[t][i] = lines[t][i]
         /\ \A u \in Threads \ {t} : lines'[u] = lines[u]
<1> DEFINE l == [Innermost(t) EXCEPT !.at = place]
<1>1. l \in Lines
  BY TopIsLine DEF Lines
<1>2. lines' = [lines EXCEPT ![t] = [lines[t] EXCEPT ![Depth(t)] = l]]
  BY DEF Goto, Innermost
<1> HIDE DEF l
<1>3. QED
  BY <1>1, <1>2, ReplaceTop DEF l

\* Logging an Error from inside.
LEMMA NestPushes ==
  ASSUME StacksOK, NEW t \in Threads, lines[t] # << >>, Nest(t)
  PROVE  /\ StacksOK'
         /\ Depth(t)' = Depth(t) + 1
         /\ lines'[t] # << >>
         /\ Innermost(t)' = Line("Error", "cout", TRUE)
         /\ lines'[t][Depth(t)].at = "lock"
         /\ \A i \in 1 .. Depth(t) - 1 : lines'[t][i] = lines[t][i]
         /\ \A u \in Threads \ {t} : lines'[u] = lines[u]
<1> DEFINE l == [Innermost(t) EXCEPT !.at = "lock"]
           e == Line("Error", "cout", TRUE)
           s == [lines[t] EXCEPT ![Depth(t)] = l]
<1>1. l \in Lines /\ l.at = "lock" /\ e \in Lines
  BY TopIsLine DEF Lines, Line, AllKinds, Streams, Places
<1>2. lines' = [lines EXCEPT ![t] = Append(s, e)]
  BY DEF Nest, Innermost
<1> HIDE DEF l, e
<1>3. lines[t] \in Seq(Lines) /\ Depth(t) \in 1 .. Len(lines[t])
  BY TopIsLine DEF StacksOK, Depth
<1>4. /\ s \in Seq(Lines) /\ Len(s) = Len(lines[t])
      /\ \A j \in 1 .. Len(lines[t]) : s[j] = IF j = Depth(t) THEN l ELSE lines[t][j]
  BY <1>1, <1>3, ExceptSeq
<1> HIDE DEF s
<1>5. /\ Append(s, e) \in Seq(Lines) /\ Len(Append(s, e)) = Len(s) + 1
      /\ \A j \in 1 .. Len(s) : Append(s, e)[j] = s[j]
      /\ Append(s, e)[Len(s) + 1] = e
  BY <1>1, <1>4, AppendProperties
<1>6. lines'[t] = Append(s, e) /\ \A u \in Threads \ {t} : lines'[u] = lines[u]
  BY <1>2 DEF StacksOK
<1>7. StacksOK'
  BY <1>2, <1>5 DEF StacksOK
<1>8. Depth(t) = Len(lines[t]) /\ Depth(t) \in Nat
  BY TopIsLine DEF Depth
<1>9. Depth(t)' = Depth(t) + 1
  BY <1>4, <1>5, <1>6, <1>8 DEF Depth
<1>10. lines'[t] # << >>
  BY <1>5, <1>6, <1>8, <1>9, EmptySeq DEF Depth
<1>11. Innermost(t)' = e
  BY <1>4, <1>5, <1>6, <1>8, <1>9 DEF Innermost
<1>12. lines'[t][Depth(t)].at = "lock"
  BY <1>1, <1>3, <1>4, <1>5, <1>6
<1>13. \A i \in 1 .. Depth(t) - 1 : lines'[t][i] = lines[t][i]
  BY <1>3, <1>4, <1>5, <1>6
<1> QED
  BY <1>6, <1>7, <1>9, <1>10, <1>11, <1>12, <1>13 DEF e

\* Returning from the innermost destructor.
LEMMA LeavePops ==
  ASSUME StacksOK, NEW t \in Threads, lines[t] # << >>, Leave(t)
  PROVE  /\ StacksOK'
         /\ Depth(t)' = Depth(t) - 1
         /\ lines'[t] # << >> => Depth(t) > 1 /\ Innermost(t)' = lines[t][Depth(t) - 1]
         /\ \A i \in 1 .. Depth(t) - 1 : lines'[t][i] = lines[t][i]
         /\ \A u \in Threads \ {t} : lines'[u] = lines[u]
<1> DEFINE s == SubSeq(lines[t], 1, Len(lines[t]) - 1)
<1>1. lines[t] \in Seq(Lines) /\ Depth(t) = Len(lines[t]) /\ Depth(t) \in Nat \ {0}
  BY TopIsLine DEF StacksOK, Depth
<1>2. \A i \in 1 .. Len(lines[t]) - 1 : lines[t][i] \in Lines
  BY <1>1, ElementOfSeq
<1>3. /\ s \in Seq(Lines) /\ Len(s) = Depth(t) - 1
      /\ \A i \in 1 .. Depth(t) - 1 : s[i] = lines[t][i]
  BY <1>1, <1>2, SubSeqProperties
<1>4. lines' = [lines EXCEPT ![t] = s]
  BY DEF Leave
<1> HIDE DEF s
<1>5. lines'[t] = s /\ \A u \in Threads \ {t} : lines'[u] = lines[u]
  BY <1>4 DEF StacksOK
<1>6. StacksOK'
  BY <1>3, <1>4 DEF StacksOK
<1>7. Depth(t)' = Depth(t) - 1
  BY <1>3, <1>5 DEF Depth
<1>8. lines'[t] # << >> => Depth(t) > 1 /\ Innermost(t)' = lines[t][Depth(t) - 1]
  <2>1. lines'[t] # << >> => Len(s) \in Nat \ {0}
    BY <1>3, <1>5, EmptySeq
  <2> QED
    BY <1>1, <1>3, <1>5, <1>7, <2>1 DEF Innermost
<1> QED
  BY <1>3, <1>5, <1>6, <1>7, <1>8

-----------------------------------------------------------------------------
(* The inductive invariant *)

\* The destructors a thread will return to are about to lock, and there is at
\* most one, which is there because time stamps have been turned off.
StackInv ==
  \A t \in Threads :
    /\ Depth(t) <= 2
    /\ \A i \in 1 .. Depth(t) - 1 : lines[t][i].at = "lock"
    /\ Depth(t) = 2 => logTimeStamps = FALSE /\ Innermost(t).at # "format"

\* The mutex belongs to the thread that is inside of the block, if any.
MutexInv ==
  /\ mut \in Threads \cup {NoThread}
  /\ \A t \in Threads : mut = t <=> lines[t] # << >> /\ Innermost(t).at \in Inside

\* A line without its newline is that of a thread that is about to put it.
OutInv ==
  /\ out \in [Streams -> Chunks]
  /\ \A s \in Streams : out[s].part = "open" =>
       \E t \in Threads : IsAt(t, "newline")
  /\ \A t \in Threads : IsAt(t, "newline") =>
       out[Innermost(t).to] = [by |-> t, part |-> "open"]
  /\ \A s \in Streams, t \in Threads :
       out[s].part = "open" /\ IsAt(t, "newline") => Innermost(t).to = s

LogInv == StacksOK /\ StackInv /\ MutexInv /\ OutInv

\* What a step of a thread's own looks like to the others.
LEMMA OthersUnmoved ==
  ASSUME NEW t \in Threads, NEW u \in Threads \ {t},
         \A v \in Threads \ {t} : lines'[v] = lines[v]
  PROVE  /\ Depth(u)' = Depth(u) /\ Innermost(u)' = Innermost(u)
         /\ \A place : IsAt(u, place)' = IsAt(u, place)
BY DEF Depth, Innermost, IsAt

\* The stacks stay as they should when a thread's keeps its depth and it does
\* not go on to format a time with time stamps off.
LEMMA StackStep ==
  ASSUME LogInv, NEW t \in Threads, Depth(t)' = Depth(t),
         \A i \in 1 .. Depth(t) - 1 : lines'[t][i] = lines[t][i],
         Innermost(t)'.at = "format" => logTimeStamps # FALSE,
         \A u \in Threads \ {t} : lines'[u] = lines[u],
         logTimeStamps' = logTimeStamps
  PROVE  StackInv'
<1> SUFFICES ASSUME NEW u \in Threads
             PROVE  /\ Depth(u)' <= 2
                    /\ \A i \in 1 .. Depth(u)' - 1 : lines'[u][i].at = "lock"
                    /\ Depth(u)' = 2 =>
                         logTimeStamps' = FALSE /\ Innermost(u)'.at # "format"
  BY DEF StackInv
<1>1. CASE u = t
  BY <1>1 DEF LogInv, StackInv
<1>2. CASE u # t
  <2>1. Depth(u)' = Depth(u) /\ Innermost(u)' = Innermost(u) /\ lines'[u] = lines[u]
    BY <1>2, OthersUnmoved
  <2> QED
    BY <2>1 DEF LogInv, StackInv
<1> QED
  BY <1>1, <1>2

\* The stacks stay as they should when one gets shallower.
LEMMA PoppedStack ==
  ASSUME LogInv, NEW t \in Threads, Depth(t) \in {1, 2}, Depth(t)' = Depth(t) - 1,
         \A u \in Threads \ {t} : lines'[u] = lines[u],
         logTimeStamps' = logTimeStamps
  PROVE  StackInv'
<1> SUFFICES ASSUME NEW u \in Threads
             PROVE  /\ Depth(u)' <= 2
                    /\ \A i \in 1 .. Depth(u)' - 1 : lines'[u][i].at = "lock"
                    /\ Depth(u)' = 2 =>
                         logTimeStamps' = FALSE /\ Innermost(u)'.at # "format"
  BY DEF StackInv
<1>1. CASE u = t
  BY <1>1
<1>2. CASE u # t
  <2>1. Depth(u)' = Depth(u) /\ Innermost(u)' = Innermost(u) /\ lines'[u] = lines[u]
    BY <1>2, OthersUnmoved
  <2> QED
    BY <2>1 DEF LogInv, StackInv
<1> QED
  BY <1>1, <1>2

\* A step that begins and ends outside of the block leaves the mutex and the
\* streams alone.
LEMMA OutsideStep ==
  ASSUME LogInv, NEW t \in Threads, StacksOK', StackInv',
         lines[t] # << >> => Innermost(t).at \notin Inside,
         lines'[t] # << >> => Innermost(t)'.at \notin Inside,
         \A u \in Threads \ {t} : lines'[u] = lines[u],
         UNCHANGED <<mut, out>>
  PROVE  LogInv' /\ NotMixed
<1> USE DEF LogInv
<1>1. \A u \in Threads \ {t} :
        /\ Innermost(u)' = Innermost(u) /\ IsAt(u, "newline")' = IsAt(u, "newline")
  BY OthersUnmoved
<1>2. ~IsAt(t, "newline") /\ ~IsAt(t, "newline")'
  BY DEF IsAt, Inside
<1>3. MutexInv'
  BY <1>1 DEF MutexInv
<1>4. OutInv'
  BY <1>1, <1>2 DEF OutInv
<1> QED
  BY <1>3, <1>4 DEF NotMixed

\* The steps outside of the block that leave their thread's stack as deep as it
\* is: the callback's line takes the place of the fatal one.
LEMMA StepsAtTop ==
  ASSUME LogInv, NEW t \in Threads,
         \/ ReadTimeStamps(t) \/ FormatTime(t)
         \/ IsAt(t, "callback") /\ UNCHANGED <<logTimeStamps, mut, out>>
            /\ lines' = [lines EXCEPT ![t][Depth(t)] = Line("Log", "cout", TRUE)]
  PROVE  LogInv' /\ NotMixed
<1> USE DEF LogInv
<1>1. lines[t] # << >>
  BY DEF ReadTimeStamps, FormatTime, IsAt
<1>2. CASE ReadTimeStamps(t) \/ FormatTime(t)
  <2>1. PICK place \in {"format", "lock"} :
          Goto(t, place) /\ (place = "format" => logTimeStamps # FALSE)
    BY <1>2 DEF ReadTimeStamps, FormatTime
  <2>2. /\ StacksOK' /\ Depth(t)' = Depth(t)
        /\ lines'[t] # << >>
        /\ Innermost(t)'.at = place
        /\ \A i \in 1 .. Depth(t) - 1 : lines'[t][i] = lines[t][i]
        /\ \A u \in Threads \ {t} : lines'[u] = lines[u]
    BY <1>1, <2>1, GotoMovesTop, TopIsLine DEF Places, Lines
  <2>3. UNCHANGED <<logTimeStamps, mut, out>> /\ Innermost(t).at \notin Inside
    BY <1>2 DEF ReadTimeStamps, FormatTime, IsAt, Inside
  <2>4. StackInv'
    BY <2>1, <2>2, <2>3, StackStep
  <2> QED
    BY <2>1, <2>2, <2>3, <2>4, OutsideStep DEF Inside
<1>3. CASE /\ IsAt(t, "callback") /\ UNCHANGED <<logTimeStamps, mut, out>>
           /\ lines' = [lines EXCEPT ![t][Depth(t)] = Line("Log", "cout", TRUE)]
  <2> DEFINE l == Line("Log", "cout", TRUE)
  <2>1. l \in Lines /\ l.at = "stamp"
    BY DEF Line, Lines, AllKinds, Streams, Places
  <2> HIDE DEF l
  <2>2. lines' = [lines EXCEPT ![t] = [lines[t] EXCEPT ![Depth(t)] = l]]
    BY <1>3 DEF l
  <2>3. /\ StacksOK' /\ Depth(t)' = Depth(t)
        /\ lines'[t] # << >>
        /\ Innermost(t)' = l
        /\ \A i \in 1 .. Depth(t) - 1 : lines'[t][i] = lines[t][i]
        /\ \A u \in Threads \ {t} : lines'[u] = lines[u]
    BY <1>1, <2>1, <2>2, ReplaceTop
  <2>4. UNCHANGED <<logTimeStamps, mut, out>> /\ Innermost(t).at \notin Inside
    BY <1>3 DEF IsAt, Inside
  <2>5. StackInv'
    BY <2>1, <2>3, <2>4, StackStep
  <2> QED
    BY <2>1, <2>3, <2>4, <2>5, OutsideStep DEF Inside
<1> QED
  BY <1>2, <1>3

\* The steps outside of the block that make a stack deeper or shallower.
LEMMA StepsUpAndDown ==
  ASSUME LogInv, NEW t \in Threads,
         FormatFails(t) \/ (IsAt(t, "callback") /\ Leave(t)
                            /\ UNCHANGED <<logTimeStamps, mut, out>>)
  PROVE  LogInv' /\ NotMixed
<1>1. lines[t] # << >> /\ Innermost(t).at \in {"format", "callback"}
  BY DEF FormatFails, IsAt
<1>2. Depth(t) \in {1, 2} /\ StacksOK
  BY <1>1, TopIsLine DEF LogInv, StackInv
<1>3. CASE FormatFails(t)
  <2>1. logTimeStamps' = FALSE /\ UNCHANGED <<mut, out>> /\ Innermost(t).at = "format"
    BY <1>3 DEF FormatFails, IsAt
  <2>2. Depth(t) = 1
    BY <1>2, <2>1 DEF LogInv, StackInv
  <2>3. /\ StacksOK' /\ Depth(t)' = 2
        /\ Innermost(t)'.at = "stamp"
        /\ lines'[t][1].at = "lock"
        /\ \A u \in Threads \ {t} : lines'[u] = lines[u]
    BY <1>1, <1>2, <1>3, <2>2, NestPushes DEF FormatFails, Line
  <2>4. StackInv'
    <3> SUFFICES ASSUME NEW u \in Threads
                 PROVE  /\ Depth(u)' <= 2
                        /\ \A i \in 1 .. Depth(u)' - 1 : lines'[u][i].at = "lock"
                        /\ Depth(u)' = 2 =>
                             logTimeStamps' = FALSE /\ Innermost(u)'.at # "format"
      BY DEF StackInv
    <3>1. CASE u = t
      BY <2>1, <2>3, <3>1
    <3>2. CASE u # t
      <4>1. /\ Depth(u)' = Depth(u) /\ Innermost(u)' = Innermost(u)
            /\ lines'[u] = lines[u]
        BY <2>3, <3>2, OthersUnmoved
      <4> QED
        BY <2>1, <4>1 DEF LogInv, StackInv
    <3> QED
      BY <3>1, <3>2
  <2> QED
    BY <2>1, <2>3, <2>4, OutsideStep DEF Inside
<1>4. CASE IsAt(t, "callback") /\ Leave(t) /\ UNCHANGED <<logTimeStamps, mut, out>>
  <2>1. /\ StacksOK' /\ Depth(t)' = Depth(t) - 1
        /\ lines'[t] # << >> =>
             Depth(t) > 1 /\ Innermost(t)' = lines[t][Depth(t) - 1]
        /\ \A i \in 1 .. Depth(t) - 1 : lines'[t][i] = lines[t][i]
        /\ \A u \in Threads \ {t} : lines'[u] = lines[u]
    BY <1>1, <1>2, <1>4, LeavePops
  <2>2. lines'[t] # << >> => Innermost(t)'.at = "lock"
    <3>1. Depth(t) > 1 => lines[t][Depth(t) - 1].at = "lock"
      BY <1>2 DEF LogInv, StackInv
    <3> QED
      BY <2>1, <3>1
  <2>3. StackInv'
    BY <1>2, <1>4, <2>1, PoppedStack
  <2>4. Innermost(t).at \notin Inside
    BY <1>4 DEF IsAt, Inside
  <2> QED
    BY <1>4, <2>1, <2>2, <2>3, <2>4, OutsideStep DEF Inside
<1> QED
  BY <1>3, <1>4

\* A thread logs a line.
LEMMA SayKeepsLogInv ==
  ASSUME LogInv, NEW t \in Threads, NEW kind \in AllKinds, NEW to \in Streams,
         NEW autoNewLine \in BOOLEAN, Say(t, kind, to, autoNewLine)
  PROVE  LogInv' /\ NotMixed
<1> DEFINE l == Line(kind, to, autoNewLine)
<1>1. l \in Lines /\ l.at = "stamp"
  BY DEF Line, Lines, Places
<1> HIDE DEF l
<1>2. lines' = [lines EXCEPT ![t] = <<l>>] /\ lines[t] = << >>
  BY DEF Say, l
<1>3. StacksOK' /\ lines'[t] = <<l>> /\ \A u \in Threads \ {t} : lines'[u] = lines[u]
  BY <1>1, <1>2 DEF LogInv, StacksOK
<1>4. Depth(t)' = 1 /\ Innermost(t)' = l
  BY <1>3 DEF Depth, Innermost
<1>5. UNCHANGED <<logTimeStamps, mut, out>>
  BY DEF Say
<1>6. StackInv'
  <2> SUFFICES ASSUME NEW u \in Threads
               PROVE  /\ Depth(u)' <= 2
                      /\ \A i \in 1 .. Depth(u)' - 1 : lines'[u][i].at = "lock"
                      /\ Depth(u)' = 2 =>
                           logTimeStamps' = FALSE /\ Innermost(u)'.at # "format"
    BY DEF StackInv
  <2>1. CASE u = t
    BY <1>4, <2>1
  <2>2. CASE u # t
    <3>1. Depth(u)' = Depth(u) /\ Innermost(u)' = Innermost(u) /\ lines'[u] = lines[u]
      BY <1>3, <2>2, OthersUnmoved
    <3> QED
      BY <1>5, <3>1 DEF LogInv, StackInv
  <2> QED
    BY <2>1, <2>2
<1> QED
  BY <1>1, <1>2, <1>3, <1>4, <1>5, <1>6, OutsideStep DEF Inside

-----------------------------------------------------------------------------
(* The block with the lock *)

\* Nobody else is in the block when the mutex is free or one's own.
LEMMA AloneInside ==
  ASSUME LogInv, NEW t \in Threads, mut \in {t, NoThread}
  PROVE  \A u \in Threads \ {t} :
           ~IsAt(u, "newline") /\ (lines[u] # << >> => Innermost(u).at \notin Inside)
BY LogAssumption DEF LogInv, MutexInv, IsAt, Inside

\* The thread at the newline is the one that left a line open.
LEMMA OpenMeansNewLine ==
  ASSUME LogInv, NEW t \in Threads, mut \in {t, NoThread}, NEW s \in Streams,
         out[s].part = "open"
  PROVE  IsAt(t, "newline")
BY AloneInside DEF LogInv, OutInv

\* The mutex is taken and given back with no line open.
LEMMA LockKeepsLogInv ==
  ASSUME LogInv, NEW t \in Threads, LockMut(t)
  PROVE  LogInv' /\ NotMixed
<1>1. /\ lines[t] # << >> /\ Innermost(t).at = "lock" /\ StacksOK
      /\ mut = NoThread /\ mut' = t
      /\ Goto(t, "text") /\ UNCHANGED <<logTimeStamps, out>>
  BY DEF LockMut, IsAt, LogInv
<1>2. /\ StacksOK' /\ Depth(t)' = Depth(t) /\ lines'[t] # << >>
      /\ Innermost(t)'.at = "text"
      /\ \A i \in 1 .. Depth(t) - 1 : lines'[t][i] = lines[t][i]
      /\ \A u \in Threads \ {t} : lines'[u] = lines[u]
  BY <1>1, GotoMovesTop, TopIsLine DEF Places, Inside, Lines
<1>3. StackInv'
  BY <1>1, <1>2, StackStep
<1>4. \A u \in Threads \ {t} :
        /\ Innermost(u)' = Innermost(u) /\ IsAt(u, "newline")' = IsAt(u, "newline")
        /\ ~IsAt(u, "newline") /\ (lines[u] # << >> => Innermost(u).at \notin Inside)
  BY <1>1, <1>2, OthersUnmoved, AloneInside
<1>5. MutexInv'
  BY <1>1, <1>2, <1>4, LogAssumption DEF MutexInv, Inside
<1>6. ~IsAt(t, "newline") /\ ~IsAt(t, "newline")'
  BY <1>1, <1>2 DEF IsAt
<1>7. \A s \in Streams : out[s].part # "open"
  BY <1>1, <1>6, OpenMeansNewLine
<1>8. OutInv'
  BY <1>1, <1>4, <1>6, <1>7 DEF OutInv, LogInv
<1> QED
  BY <1>1, <1>2, <1>3, <1>5, <1>8 DEF LogInv, NotMixed

\* What a step from one place of the block to another leaves as it is.
LEMMA MoveInside ==
  ASSUME LogInv, NEW t \in Threads, lines[t] # << >>, Innermost(t).at \in Inside,
         NEW place \in Inside, Goto(t, place), UNCHANGED <<logTimeStamps, mut>>
  PROVE  /\ StacksOK' /\ StackInv' /\ MutexInv' /\ mut = t
         /\ lines'[t] # << >>
         /\ Innermost(t)' = [Innermost(t) EXCEPT !.at = place]
         /\ \A u \in Threads \ {t} : ~IsAt(u, "newline") /\ ~IsAt(u, "newline")'
<1>1. StacksOK /\ mut = t /\ place \in Places /\ Innermost(t) \in Lines
  BY TopIsLine DEF LogInv, MutexInv, Places
<1>2. /\ StacksOK' /\ Depth(t)' = Depth(t) /\ lines'[t] # << >>
      /\ Innermost(t)' = [Innermost(t) EXCEPT !.at = place]
      /\ \A i \in 1 .. Depth(t) - 1 : lines'[t][i] = lines[t][i]
      /\ \A u \in Threads \ {t} : lines'[u] = lines[u]
  BY <1>1, GotoMovesTop
<1>3. Innermost(t)'.at = place /\ place # "format"
  BY <1>1, <1>2 DEF Lines, Inside
<1>4. StackInv'
  BY <1>2, <1>3, StackStep
<1>5. \A u \in Threads \ {t} :
        /\ Innermost(u)' = Innermost(u) /\ IsAt(u, "newline")' = IsAt(u, "newline")
        /\ ~IsAt(u, "newline") /\ (lines[u] # << >> => Innermost(u).at \notin Inside)
  BY <1>1, <1>2, OthersUnmoved, AloneInside
<1>6. MutexInv'
  BY <1>1, <1>2, <1>3, <1>5 DEF LogInv, MutexInv
<1> QED
  BY <1>1, <1>2, <1>4, <1>5, <1>6

\* The text of a line follows a line that was ended.
LEMMA PutTextKeepsLogInv ==
  ASSUME LogInv, NEW t \in Threads, PutText(t)
  PROVE  LogInv' /\ NotMixed
<1> DEFINE to == Innermost(t).to
<1>1. /\ lines[t] # << >> /\ Innermost(t).at = "text" /\ Innermost(t).at \in Inside
      /\ Innermost(t) \in Lines /\ to \in Streams /\ UNCHANGED <<logTimeStamps, mut>>
  BY TopIsLine DEF PutText, IsAt, Inside, LogInv, Lines
<1>2. out \in [Streams -> Chunks]
  BY DEF LogInv, OutInv
<1>3. mut = t /\ ~IsAt(t, "newline")
  BY <1>1 DEF LogInv, MutexInv, IsAt
<1>4. \A s \in Streams : out[s].part # "open"
  BY <1>3, OpenMeansNewLine
<1>5. CASE Put(t, "open") /\ Goto(t, "newline")
  <2>1. /\ StacksOK' /\ StackInv' /\ MutexInv'
        /\ lines'[t] # << >>
        /\ Innermost(t)' = [Innermost(t) EXCEPT !.at = "newline"]
        /\ \A u \in Threads \ {t} : ~IsAt(u, "newline") /\ ~IsAt(u, "newline")'
    BY <1>1, <1>5, MoveInside DEF Inside
  <2>2. IsAt(t, "newline")' /\ Innermost(t)'.to = to
    BY <1>1, <2>1 DEF IsAt, Lines
  <2>3. out' = [out EXCEPT ![to] = [by |-> t, part |-> "open"]]
    BY <1>5 DEF Put
  <2> HIDE DEF to
  <2>4. [by |-> t, part |-> "open"] \in Chunks
    BY DEF Chunks
  <2>5. OutInv'
    <3>1. out' \in [Streams -> Chunks]
      BY <1>2, <2>3, <2>4
    <3>2. \A s \in Streams : out'[s].part = "open" => s = to
      BY <1>1, <1>2, <1>4, <2>3
    <3>3. out'[to] = [by |-> t, part |-> "open"]
      BY <1>1, <1>2, <2>3
    <3> QED
      BY <2>1, <2>2, <3>1, <3>2, <3>3 DEF OutInv
  <2>6. NotMixed
    BY <1>1, <1>2, <1>4, <2>3 DEF NotMixed
  <2> QED
    BY <2>1, <2>5, <2>6 DEF LogInv
<1>6. CASE Put(t, "text") /\ Goto(t, "unlock")
  <2>1. /\ StacksOK' /\ StackInv' /\ MutexInv'
        /\ lines'[t] # << >>
        /\ Innermost(t)' = [Innermost(t) EXCEPT !.at = "unlock"]
        /\ \A u \in Threads \ {t} : ~IsAt(u, "newline") /\ ~IsAt(u, "newline")'
    BY <1>1, <1>6, MoveInside DEF Inside
  <2>2. ~IsAt(t, "newline")'
    BY <1>1, <2>1 DEF IsAt, Lines
  <2>3. out' = [out EXCEPT ![to] = [by |-> t, part |-> "text"]]
    BY <1>6 DEF Put
  <2> HIDE DEF to
  <2>4. [by |-> t, part |-> "text"] \in Chunks
    BY DEF Chunks
  <2>5. OutInv'
    <3>1. out' \in [Streams -> Chunks]
      BY <1>2, <2>3, <2>4
    <3>2. \A s \in Streams : out'[s].part # "open"
      BY <1>1, <1>2, <1>4, <2>3
    <3> QED
      BY <2>1, <2>2, <3>1, <3>2 DEF OutInv
  <2>6. NotMixed
    BY <1>1, <1>2, <1>4, <2>3 DEF NotMixed
  <2> QED
    BY <2>1, <2>5, <2>6 DEF LogInv
<1> QED
  BY <1>5, <1>6 DEF PutText

\* A newline follows the text it belongs to.
LEMMA PutNewLineKeepsLogInv ==
  ASSUME LogInv, NEW t \in Threads, PutNewLine(t)
  PROVE  LogInv' /\ NotMixed
<1> DEFINE to == Innermost(t).to
<1>1. /\ lines[t] # << >> /\ Innermost(t).at = "newline" /\ IsAt(t, "newline")
      /\ Innermost(t).at \in Inside
      /\ Innermost(t) \in Lines /\ to \in Streams /\ UNCHANGED <<logTimeStamps, mut>>
      /\ Goto(t, "unlock")
  BY TopIsLine DEF PutNewLine, IsAt, Inside, LogInv, Lines
<1>2. /\ out \in [Streams -> Chunks]
      /\ out[to] = [by |-> t, part |-> "open"]
      /\ \A s \in Streams : out[s].part = "open" => s = to
  BY <1>1 DEF LogInv, OutInv
<1>3. /\ StacksOK' /\ StackInv' /\ MutexInv'
      /\ lines'[t] # << >>
      /\ Innermost(t)' = [Innermost(t) EXCEPT !.at = "unlock"]
      /\ \A u \in Threads \ {t} : ~IsAt(u, "newline") /\ ~IsAt(u, "newline")'
  BY <1>1, MoveInside DEF Inside
<1>4. ~IsAt(t, "newline")'
  BY <1>1, <1>3 DEF IsAt, Lines
<1>5. out' = [out EXCEPT ![to] = [by |-> t, part |-> "newline"]]
  BY DEF PutNewLine, Put
<1> HIDE DEF to
<1>6. [by |-> t, part |-> "newline"] \in Chunks
  BY DEF Chunks
<1>7. out' \in [Streams -> Chunks]
  BY <1>2, <1>5, <1>6
<1>8. \A s \in Streams : out'[s].part # "open"
  BY <1>1, <1>2, <1>5
<1>9. OutInv'
  BY <1>3, <1>4, <1>7, <1>8 DEF OutInv
<1>10. NotMixed
  <2> SUFFICES ASSUME NEW s \in Streams, out'[s] # out[s]
               PROVE  IF out[s].part = "open"
                        THEN out'[s] = [out[s] EXCEPT !.part = "newline"]
                        ELSE out'[s].part # "newline"
    BY DEF NotMixed
  <2>1. s = to
    BY <1>2, <1>5
  <2> QED
    BY <1>1, <1>2, <1>5, <2>1
<1> QED
  BY <1>3, <1>9, <1>10 DEF LogInv

\* The end of the block: either the callback is next, or the destructor returns
\* to one that is about to lock.
LEMMA UnlockKeepsLogInv ==
  ASSUME LogInv, NEW t \in Threads, UnlockMut(t)
  PROVE  LogInv' /\ NotMixed
<1>1. /\ lines[t] # << >> /\ Innermost(t).at = "unlock" /\ StacksOK
      /\ Innermost(t) \in Lines /\ Depth(t) \in {1, 2}
      /\ mut' = NoThread /\ UNCHANGED <<logTimeStamps, out>>
  BY TopIsLine DEF UnlockMut, IsAt, LogInv, StackInv
<1>2. mut = t
  BY <1>1 DEF LogInv, MutexInv, Inside
<1>3. /\ StacksOK' /\ StackInv'
      /\ lines'[t] # << >> => Innermost(t)'.at \in {"callback", "lock"}
      /\ \A u \in Threads \ {t} : lines'[u] = lines[u]
  <2>1. CASE Goto(t, "callback")
    <3>1. /\ StacksOK' /\ Depth(t)' = Depth(t)
          /\ Innermost(t)'.at = "callback"
          /\ \A i \in 1 .. Depth(t) - 1 : lines'[t][i] = lines[t][i]
          /\ \A u \in Threads \ {t} : lines'[u] = lines[u]
      BY <1>1, <2>1, GotoMovesTop DEF Places, Lines
    <3>2. StackInv'
      BY <1>1, <3>1, StackStep
    <3> QED
      BY <3>1, <3>2
  <2>2. CASE Leave(t)
    <3>1. /\ StacksOK' /\ Depth(t)' = Depth(t) - 1
          /\ lines'[t] # << >> =>
               Depth(t) > 1 /\ Innermost(t)' = lines[t][Depth(t) - 1]
          /\ \A u \in Threads \ {t} : lines'[u] = lines[u]
      BY <1>1, <2>2, LeavePops
    <3>2. StackInv'
      BY <1>1, <3>1, PoppedStack
    <3>3. Depth(t) > 1 => lines[t][Depth(t) - 1].at = "lock"
      BY <1>1 DEF LogInv, StackInv
    <3> QED
      BY <3>1, <3>2, <3>3
  <2> QED
    BY <2>1, <2>2 DEF UnlockMut
<1>4. \A u \in Threads \ {t} :
        /\ Innermost(u)' = Innermost(u) /\ IsAt(u, "newline")' = IsAt(u, "newline")
        /\ ~IsAt(u, "newline") /\ (lines[u] # << >> => Innermost(u).at \notin Inside)
  BY <1>2, <1>3, OthersUnmoved, AloneInside
<1>5. MutexInv'
  BY <1>1, <1>3, <1>4, LogAssumption DEF MutexInv, Inside
<1>6. ~IsAt(t, "newline") /\ ~IsAt(t, "newline")'
  BY <1>1, <1>3 DEF IsAt
<1>7. \A s \in Streams : out[s].part # "open"
  BY <1>2, <1>6, OpenMeansNewLine
<1>8. OutInv'
  BY <1>1, <1>4, <1>6, <1>7 DEF OutInv, LogInv
<1> QED
  BY <1>1, <1>3, <1>5, <1>8 DEF LogInv, NotMixed

-----------------------------------------------------------------------------
(* The invariant is inductive *)

SettingsInv ==
  /\ logLevel \in {Info, DebugLevel} /\ logTimeStamps \in BOOLEAN
  /\ count \in [Threads -> 0 .. MaxLines]

IInv == LogInv /\ SettingsInv

\* IInv holds at the beginning.
LEMMA InitEstablishesIInv == Init => IInv
<1> SUFFICES ASSUME Init PROVE IInv
  OBVIOUS
<1>1. StacksOK /\ \A t \in Threads : lines[t] = << >> /\ Depth(t) = 0
  BY DEF Init, StacksOK, Depth
<1>2. StackInv
  <2> SUFFICES ASSUME NEW t \in Threads
               PROVE  /\ Depth(t) <= 2
                      /\ \A i \in 1 .. Depth(t) - 1 : lines[t][i].at = "lock"
                      /\ Depth(t) = 2 =>
                           logTimeStamps = FALSE /\ Innermost(t).at # "format"
    BY DEF StackInv
  <2>1. Depth(t) = 0
    BY <1>1
  <2> QED
    BY <2>1
<1>3. MutexInv
  BY <1>1, LogAssumption DEF Init, MutexInv
<1>4. OutInv
  BY <1>1 DEF Init, OutInv, Chunks, IsAt
<1>5. SettingsInv
  BY LogAssumption DEF Init, SettingsInv
<1> QED
  BY <1>1, <1>2, <1>3, <1>4, <1>5 DEF IInv, LogInv

\* A stutter changes nothing of it.
LEMMA StutterKeepsLogInv == LogInv /\ UNCHANGED vars => LogInv' /\ NotMixed
<1> SUFFICES ASSUME LogInv, UNCHANGED vars PROVE LogInv' /\ NotMixed
  OBVIOUS
<1>1. UNCHANGED <<logTimeStamps, mut, lines, out>>
  BY DEF vars
<1> QED
  BY <1>1 DEF LogInv, StacksOK, StackInv, MutexInv, OutInv, NotMixed,
              Depth, Innermost, IsAt

\* One step per action.
LEMMA StepKeepsLogInv == LogInv /\ [Next]_vars => LogInv' /\ NotMixed
<1> SUFFICES ASSUME LogInv, [Next]_vars PROVE LogInv' /\ NotMixed
  OBVIOUS
<1>1. CASE UNCHANGED vars
  BY <1>1, StutterKeepsLogInv
<1>2. CASE Next
  <2>1. PICK t \in Threads :
          \/ \E kind \in Kinds, to \in Streams, autoNewLine \in BOOLEAN :
               Say(t, kind, to, autoNewLine)
          \/ Destructor(t)
    BY <1>2 DEF Next
  <2>2. ASSUME NEW kind \in Kinds, NEW to \in Streams, NEW autoNewLine \in BOOLEAN,
               Say(t, kind, to, autoNewLine)
        PROVE  LogInv' /\ NotMixed
    <3>1. kind \in AllKinds
      BY LogAssumption
    <3> QED
      BY <2>2, <3>1, SayKeepsLogInv
  <2>3. CASE ReadTimeStamps(t) \/ FormatTime(t)
    BY <2>3, StepsAtTop
  <2>4. CASE FormatFails(t)
    BY <2>4, StepsUpAndDown
  <2>5. CASE LockMut(t)
    BY <2>5, LockKeepsLogInv
  <2>6. CASE PutText(t)
    BY <2>6, PutTextKeepsLogInv
  <2>7. CASE PutNewLine(t)
    BY <2>7, PutNewLineKeepsLogInv
  <2>8. CASE UnlockMut(t)
    BY <2>8, UnlockKeepsLogInv
  <2>9. CASE Callback(t)
    <3>1. IsAt(t, "callback") /\ UNCHANGED <<logTimeStamps, mut, out>>
      BY <2>9 DEF Callback
    <3>2. CASE Leave(t)
      BY <3>1, <3>2, StepsUpAndDown
    <3>3. CASE lines' = [lines EXCEPT ![t][Depth(t)] = Line("Log", "cout", TRUE)]
      BY <3>1, <3>3, StepsAtTop
    <3> QED
      BY <2>9, <3>2, <3>3 DEF Callback
  <2> QED
    BY <2>1, <2>2, <2>3, <2>4, <2>5, <2>6, <2>7, <2>8, <2>9 DEF Destructor
<1> QED
  BY <1>1, <1>2

\* Every step preserves what is known of the settings.
LEMMA StepKeepsSettingsInv == SettingsInv /\ [Next]_vars => SettingsInv'
<1> SUFFICES ASSUME SettingsInv, [Next]_vars PROVE SettingsInv'
  OBVIOUS
<1>1. CASE UNCHANGED <<logLevel, logTimeStamps, count>>
  BY <1>1 DEF SettingsInv
<1>2. ASSUME NEW t \in Threads, FormatFails(t) PROVE SettingsInv'
  BY <1>2 DEF FormatFails, SettingsInv
<1>3. ASSUME NEW t \in Threads, NEW kind \in Kinds, NEW to \in Streams,
             NEW autoNewLine \in BOOLEAN, Say(t, kind, to, autoNewLine)
      PROVE  SettingsInv'
  <2>1. count' = [count EXCEPT ![t] = count[t] + 1] /\ count[t] < MaxLines
    BY <1>3 DEF Say
  <2>2. count[t] \in 0 .. MaxLines /\ MaxLines \in Nat
    BY LogAssumption DEF SettingsInv
  <2>3. count[t] + 1 \in 0 .. MaxLines
    BY <2>1, <2>2
  <2> QED
    BY <1>3, <2>1, <2>3 DEF Say, SettingsInv
<1>4. ASSUME NEW t \in Threads, Destructor(t), ~FormatFails(t)
      PROVE  UNCHANGED <<logLevel, logTimeStamps, count>>
  BY <1>4 DEF Destructor, ReadTimeStamps, FormatTime, LockMut, PutText, PutNewLine,
              UnlockMut, Callback
<1>5. CASE UNCHANGED vars
  BY <1>1, <1>5 DEF vars
<1>6. CASE Next
  <2>1. PICK t \in Threads :
          \/ \E kind \in Kinds, to \in Streams, autoNewLine \in BOOLEAN :
               Say(t, kind, to, autoNewLine)
          \/ Destructor(t)
    BY <1>6 DEF Next
  <2>2. CASE Destructor(t)
    BY <1>1, <1>2, <1>4, <2>2
  <2> QED
    BY <1>3, <2>1, <2>2
<1> QED
  BY <1>5, <1>6

\* So IInv holds in every state.
LEMMA AlwaysIInv == Spec => []IInv
<1>1. IInv /\ [Next]_vars => IInv'
  BY StepKeepsLogInv, StepKeepsSettingsInv DEF IInv
<1> QED
  BY <1>1, InitEstablishesIInv, PTL DEF Spec

-----------------------------------------------------------------------------
(* Theorems *)

\* The settings, stacks, counts and streams have their types, and the mutex is
\* held by exactly the thread with a destructor inside of the block
\* (util.cpp:97-103): a destructor further down its stack is never in there.
THEOREM TypeCorrect == Spec => []TypeOK
<1>1. IInv => TypeOK
  <2> SUFFICES ASSUME IInv PROVE TypeOK
    OBVIOUS
  <2>1. ASSUME NEW t \in Threads
        PROVE  mut = t <=> \E i \in DOMAIN lines[t] : lines[t][i].at \in Inside
    <3>1. lines[t] \in Seq(Lines) /\ DOMAIN lines[t] = 1 .. Depth(t)
      BY LenProperties DEF IInv, LogInv, StacksOK, Depth
    <3>2. lines[t] # << >> <=> Depth(t) \in Nat \ {0}
      BY <3>1, EmptySeq, LenProperties DEF Depth
    <3>3. \A i \in DOMAIN lines[t] :
            lines[t][i].at \in Inside => i = Depth(t) /\ lines[t] # << >>
      <4> SUFFICES ASSUME NEW i \in DOMAIN lines[t], lines[t][i].at \in Inside
                   PROVE  i = Depth(t) /\ lines[t] # << >>
        OBVIOUS
      <4>1. Depth(t) \in Nat
        BY <3>1, LenProperties DEF Depth
      <4>2. lines[t][i].at # "lock"
        BY DEF Inside
      <4>3. i \notin 1 .. Depth(t) - 1
        BY <4>2 DEF IInv, LogInv, StackInv
      <4> QED
        BY <3>1, <3>2, <4>1, <4>3
    <3>4. mut = t <=> lines[t] # << >> /\ lines[t][Depth(t)].at \in Inside
      BY DEF IInv, LogInv, MutexInv, Innermost
    <3> QED
      BY <3>1, <3>2, <3>3, <3>4
  <2> QED
    BY <2>1 DEF TypeOK, IInv, LogInv, StacksOK, MutexInv, OutInv, SettingsInv
<1> QED
  BY <1>1, AlwaysIInv, PTL

\* A destructor that logs because it cannot stamp its line does not do so again
\* for that line, whatever the other threads do to the setting
\* (util.cpp:76-89).
THEOREM StampsNestOnce == Spec => []NestsOnce
<1>1. IInv => NestsOnce
  BY DEF IInv, LogInv, StackInv, NestsOnce
<1> QED
  BY <1>1, AlwaysIInv, PTL

\* No line is printed into another one, on either stream (util.cpp:97-103).
THEOREM LinesAreWhole == Spec => LinesWhole
<1>1. IInv /\ [Next]_vars => [NotMixed]_out
  BY StepKeepsLogInv DEF IInv
<1> QED
  BY <1>1, AlwaysIInv, PTL DEF Spec, LinesWhole

=============================================================================
