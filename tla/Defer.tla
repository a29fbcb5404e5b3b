-------------------------------- MODULE Defer --------------------------------
(***************************************************************************)
(* Defer and RAII (util.h:340-402): objects that call a clean-up function  *)
(* when they are destroyed.  Any number of them are made, moved, assigned, *)
(* disabled and destroyed in any order the language allows, each for a     *)
(* function of its own.  A clean-up function stands for the resource it    *)
(* gives back.  RAII's initFunc runs in the constructor, so it has run for *)
(* every guard that there is.  An exception ends the expression it comes   *)
(* from, and the program when it would leave a destructor.                 *)
(***************************************************************************)
EXTENDS Naturals

CONSTANTS
  Guards,        \* places for objects of type Defer or RAII
  Funcs,         \* clean-up functions
  NoFunc,        \* an empty std::function
  Throwers,      \* the functions that may throw when they are called
  InitThrows,    \* may an initFunc throw?
  Constructors   \* the ways in which guards are made

AllConstructors == {"Defer", "RAII_copy", "RAII_move"}

ASSUME DeferAssumption ==
  /\ NoFunc \notin Funcs
  /\ Throwers \subseteq Funcs
  /\ InitThrows \in BOOLEAN
  /\ Constructors \subseteq AllConstructors

VARIABLES
  alive,   \* the guards that exist
  func,    \* what a guard holds
  valid,   \* the guards whose `valid` is true
  giver,   \* the constructor a function was given to, or "none"
  program, \* "running", or "terminated" by an exception
  runs,    \* history: how often a function has been called and has returned
  failed,  \* history: the functions that have thrown
  off      \* history: those whose guard was disabled while they were pending

vars == <<alive, func, valid, giver, program, runs, failed, off>>

\* The types, and the class invariant: a guard whose `valid` is true has a
\* function to call.  The destructor asks `valid` alone, and calling an empty
\* std::function throws, which there ends the program (util.h:353, 401).
TypeOK ==
  /\ alive \subseteq Guards
  /\ func \in [Guards -> Funcs \cup {NoFunc}]
  /\ valid \subseteq alive
  /\ \A g \in valid : func[g] \in Funcs
  /\ giver \in [Funcs -> Constructors \cup {"none"}]
  /\ program \in {"running", "terminated"}
  /\ runs \in [Funcs -> Nat]
  /\ failed \subseteq Throwers
  /\ off \subseteq Funcs

Init ==
  /\ alive = {}
  /\ func = [g \in Guards |-> NoFunc]
  /\ valid = {}
  /\ giver = [f \in Funcs |-> "none"]
  /\ program = "running"
  /\ runs = [f \in Funcs |-> 0]
  /\ failed = {}
  /\ off = {}

\* `if (valid) func()`, when it returns, and when it throws.
Calls(g) ==
  runs' = IF g \in valid
            THEN [runs EXCEPT ![func[g]] = @ + 1] ELSE runs

CallThrows(g) ==
  /\ g \in valid
  /\ func[g] \in Throwers
  /\ failed' = failed \cup {func[g]}

\* What moving a std::function leaves behind: nothing, or the same function
\* when the library keeps small ones in place.  The standard does not say.
AfterMove(f) == {f, NoFunc}

\* A guard comes into being with f.
Make(g, f, v) ==
  /\ g \notin alive
  /\ alive' = alive \cup {g}
  /\ func' = [func EXCEPT ![g] = f]
  /\ valid' = IF v THEN valid \cup {g} ELSE valid
  /\ UNCHANGED <<program, runs, failed, off>>

Give(f, constructor) ==
  /\ constructor \in Constructors
  /\ giver[f] = "none"
  /\ giver' = [giver EXCEPT ![f] = constructor]

\* Defer d(f), with a function that can be called (util.h:351-352).
MakeDefer(g, f) == Give(f, "Defer") /\ Make(g, f, TRUE)

\* RAII r(init, cleanup): `valid` is whether there is a clean-up function.  It
\* asks the parameter, after the base class has copied it, or moved from it.
MakeRAII(g, f) ==
  \/ Give(f, "RAII_copy") /\ Make(g, f, TRUE)
  \/ /\ Give(f, "RAII_move")
     /\ \E left \in AfterMove(f) : Make(g, f, left # NoFunc)

\* A mutation: RAII leaves `valid` as the base class has set it.
MakeEmptyRAIIValid(g) ==
  /\ Constructors # {"Defer"}
  /\ Make(g, NoFunc, TRUE)
  /\ UNCHANGED giver

MakeEmptyRAII(g) ==
  /\ Constructors # {"Defer"}
  /\ Make(g, NoFunc, FALSE)
  /\ UNCHANGED giver

\* RAII r(init, cleanup) with an initFunc that throws: the base class has been
\* constructed and is valid, so that its destructor calls the clean-up.
InitFails(f) ==
  /\ InitThrows
  /\ \E constructor \in Constructors \ {"Defer"} : Give(f, constructor)
  /\ \/ runs' = [runs EXCEPT ![f] = @ + 1] /\ UNCHANGED <<program, failed>>
     \/ /\ f \in Throwers
        /\ failed' = failed \cup {f}
        /\ program' = "terminated"
        /\ UNCHANGED runs
  /\ UNCHANGED <<alive, func, valid, off>>

\* It calls an empty clean-up, too, which throws.
EmptyInitFails ==
  /\ InitThrows
  /\ Constructors # {"Defer"}
  /\ program' = "terminated"
  /\ UNCHANGED <<alive, func, valid, giver, runs, failed, off>>

\* A mutation: the guard that is moved from stays valid.
MoveConstructTwice(g, o) ==
  /\ g \notin alive /\ o \in alive
  /\ alive' = alive \cup {g}
  /\ func' = [func EXCEPT ![g] = func[o]]
  /\ valid' = IF o \in valid THEN valid \cup {g} ELSE valid
  /\ UNCHANGED <<giver, program, runs, failed, off>>

\* Defer d(std::move(o)).
MoveConstruct(g, o) ==
  /\ g \notin alive /\ o \in alive
  /\ alive' = alive \cup {g}
  /\ \E left \in AfterMove(func[o]) :
       func' = [func EXCEPT ![g] = func[o], ![o] = left]
  /\ valid' = IF o \in valid THEN (valid \ {o}) \cup {g} ELSE valid \ {g}
  /\ UNCHANGED <<giver, program, runs, failed, off>>

\* d = std::move(o): what d was to do is done now.  Assigning a guard to
\* itself does nothing.
MoveAssign(g, o) ==
  /\ g \in alive /\ o \in alive /\ g # o
  /\ Calls(g)
  /\ \E left \in AfterMove(func[o]) :
       func' = [func EXCEPT ![g] = func[o], ![o] = left]
  /\ valid' = IF o \in valid THEN (valid \ {o}) \cup {g} ELSE valid \ {g}
  /\ UNCHANGED <<alive, giver, program, failed, off>>

\* A mutation: what is about to be called is let go of first.
MoveAssignThrowsAway(g, o) ==
  /\ g \in alive /\ o \in alive /\ g # o
  /\ CallThrows(g)
  /\ valid' = valid \ {g}
  /\ UNCHANGED <<alive, func, giver, program, runs, off>>

\* The exception leaves both guards as they are.
MoveAssignThrows(g, o) ==
  /\ g \in alive /\ o \in alive /\ g # o
  /\ CallThrows(g)
  /\ UNCHANGED <<alive, func, valid, giver, program, runs, off>>

\* disable().
Disable(g) ==
  /\ g \in alive
  /\ valid' = valid \ {g}
  /\ off' = IF g \in valid THEN off \cup {func[g]} ELSE off
  /\ UNCHANGED <<alive, func, giver, program, runs, failed>>

\* ~Defer().
Destroy(g) ==
  /\ g \in alive
  /\ Calls(g)
  /\ alive' = alive \ {g}
  /\ func' = [func EXCEPT ![g] = NoFunc]
  /\ valid' = valid \ {g}
  /\ UNCHANGED <<giver, program, failed, off>>

\* A destructor does not let an exception out.
DestroyThrows(g) ==
  /\ g \in alive
  /\ CallThrows(g)
  /\ program' = "terminated"
  /\ UNCHANGED <<alive, func, valid, giver, runs, off>>

Next ==
  /\ program = "running"
  /\ \/ \E g \in Guards :
          \/ \E f \in Funcs : MakeDefer(g, f) \/ MakeRAII(g, f)
          \/ MakeEmptyRAII(g)
          \/ \E o \in Guards :
               MoveConstruct(g, o) \/ MoveAssign(g, o) \/ MoveAssignThrows(g, o)
          \/ Disable(g)
          \/ Destroy(g) \/ DestroyThrows(g)
     \/ \E f \in Funcs : InitFails(f)
     \/ EmptyInitFails

Spec == Init /\ [][Next]_vars

-----------------------------------------------------------------------------
(* Properties *)

\* g is to call f.
WillCall(g, f) == g \in valid /\ func[g] = f

\* Somebody is to call f.
Pending(f) == \E g \in Guards : WillCall(g, f)

\* A clean-up function is called by one guard, and returns once, or was
\* disabled: however guards are moved and assigned, and whatever is thrown, no
\* resource is given back twice, and none after disable() (util.h:350-375).
OneFate ==
  \A f \in Funcs :
    /\ \A g, h \in Guards : WillCall(g, f) /\ WillCall(h, f) => g = h
    /\ runs[f] <= 1
    /\ runs[f] = 1 => ~Pending(f)
    /\ f \in off => ~Pending(f) /\ runs[f] = 0

\* A function nobody was given yet is nowhere.
Fresh ==
  \A f \in Funcs :
    giver[f] = "none" => ~Pending(f) /\ runs[f] = 0 /\ f \notin off \cup failed

IsKept(f) ==
  giver[f] # "none" =>
    Pending(f) \/ runs[f] = 1 \/ f \in off \/ program = "terminated"

\* util.h:400, "cleanupFunc called in this instance's destructor", and the same
\* for Defer: a function that has been given to a guard is pending until it
\* is called or disabled.
NothingForgotten == \A f \in Funcs : IsKept(f)

\* The same without the constructor that moves: as long as functions get into
\* guards in the other ways, moving and assigning the guards loses none, and
\* neither does an exception.  One that has thrown is not lost in any case: the
\* guard that called it, if there still is one, will call it again.
KeptUnlessMovedFrom ==
  \A f \in Funcs : giver[f] # "RAII_move" \/ f \in failed => IsKept(f)

\* The inductive invariant behind them.
IInv == TypeOK /\ OneFate /\ Fresh /\ KeptUnlessMovedFrom
=============================================================================
