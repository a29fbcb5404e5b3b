----------------------------- MODULE DeferProofs -----------------------------
(***************************************************************************)
(* Defer and RAII, for any number of guards and functions.                 *)
(***************************************************************************)
EXTENDS Defer, TLAPS

\* Nothing is there yet.
LEMMA InitIInv == Init => IInv
  BY DEF Init, IInv, TypeOK, OneFate, Fresh, KeptUnlessMovedFrom, IsKept, Pending,
         WillCall

\* The invariant is about the variables only.
LEMMA StutterIInv == IInv /\ UNCHANGED vars => IInv'
  BY DEF IInv, TypeOK, OneFate, Fresh, KeptUnlessMovedFrom, IsKept, Pending,
         WillCall, vars

\* A new guard without a function changes nothing for the others.
LEMMA MakeEmptyKeepsIInv ==
  ASSUME IInv, NEW g \in Guards, MakeEmptyRAII(g)
  PROVE  IInv'
<1> USE DEF IInv, TypeOK, OneFate, Fresh, KeptUnlessMovedFrom, IsKept
<1>1. TypeOK' /\ UNCHANGED <<runs, off, giver, failed, program>>
  BY DEF MakeEmptyRAII, Make
<1>2. \A h \in valid' : func'[h] \in Funcs
  BY DEF MakeEmptyRAII, Make
<1>3. \A h \in Guards, e \in Funcs : WillCall(h, e)' = WillCall(h, e)
  BY DEF MakeEmptyRAII, Make, WillCall
<1>4. \A e \in Funcs : Pending(e)' = Pending(e)
  BY <1>3 DEF Pending
<1> QED
  BY <1>1, <1>2, <1>3, <1>4

\* A new guard gets a function that was nowhere before.
LEMMA MakeKeepsIInv ==
  ASSUME IInv, NEW g \in Guards, NEW f \in Funcs,
         MakeDefer(g, f) \/ MakeRAII(g, f)
  PROVE  IInv'
<1> USE DEF IInv, TypeOK, OneFate, Fresh, KeptUnlessMovedFrom, IsKept
<1>1. ASSUME NEW how \in Constructors, NEW v \in BOOLEAN,
             Give(f, how), Make(g, f, v), how # "RAII_move" => v
      PROVE  IInv'
  <2>1. /\ giver'[f] = how /\ giver[f] = "none"
        /\ \A e \in Funcs : e # f => giver'[e] = giver[e]
        /\ UNCHANGED <<runs, off, failed, program>>
    BY <1>1 DEF Give, Make
  <2>2. how # "none"
    BY DeferAssumption DEF DeferAssumption, AllConstructors
  <2>3. TypeOK'
    BY <1>1 DEF Give, Make
  <2>4. \A h \in valid' : func'[h] \in Funcs
    BY <1>1 DEF Make
  <2>5. \A h \in Guards, e \in Funcs :
          WillCall(h, e)' <=> (WillCall(h, e) \/ (h = g /\ e = f /\ v = TRUE))
    <3>1. /\ g \notin valid /\ func'[g] = f
          /\ \A h \in Guards : h # g => func'[h] = func[h]
      BY <1>1 DEF Make
    <3>2. CASE v = TRUE
      BY <1>1, <3>1, <3>2 DEF Make, WillCall
    <3>3. CASE v = FALSE
      BY <1>1, <3>1, <3>3 DEF Make, WillCall
    <3> QED
      BY <3>2, <3>3
  <2>6. \A e \in Funcs : Pending(e)' <=> (Pending(e) \/ (e = f /\ v = TRUE))
    BY <2>5 DEF Pending
  <2>7. \A h \in Guards : ~WillCall(h, f)
    BY <2>1 DEF Pending
  <2>8. OneFate'
    <3>1. \A e \in Funcs, h, i \in Guards :
            WillCall(h, e)' /\ WillCall(i, e)' => h = i
      BY <2>5, <2>7
    <3>2. ~Pending(f) /\ runs[f] = 0 /\ f \notin off
      BY <2>1
    <3> QED
      BY <2>1, <2>4, <2>6, <3>1, <3>2
  <2>9. Fresh' /\ KeptUnlessMovedFrom'
    BY <1>1, <2>1, <2>2, <2>6
  <2> QED
    BY <2>3, <2>8, <2>9
<1>2. CASE MakeDefer(g, f)
  BY <1>1, <1>2 DEF MakeDefer, Give
<1>3. CASE Give(f, "RAII_copy") /\ Make(g, f, TRUE)
  BY <1>1, <1>3 DEF Give
<1>4. CASE Give(f, "RAII_move") /\ \E left \in AfterMove(f) : Make(g, f, left # NoFunc)
  BY <1>1, <1>4 DEF Give
<1> QED
  BY <1>2, <1>3, <1>4 DEF MakeRAII

\* Where g is to call nothing any more and somebody may be to call what o was,
\* and g's function is called if it was to be called.
Passes(g, o) ==
  /\ \A f \in Funcs :
       runs'[f] = IF WillCall(g, f) THEN runs[f] + 1 ELSE runs[f]
  /\ \A h \in Guards, f \in Funcs :
       WillCall(h, f)' <=> \/ h \notin {g, o} /\ WillCall(h, f)
                           \/ h = g /\ o # g /\ WillCall(o, f)
  /\ UNCHANGED <<giver, off, failed, program>>

\* However a function is passed on, the invariant is kept.
LEMMA PassesKeepsIInv ==
  ASSUME IInv, NEW g \in Guards, NEW o \in Guards, Passes(g, o), TypeOK',
         \A h \in valid' : func'[h] \in Funcs
  PROVE  IInv'
<1> USE DEF IInv, TypeOK, OneFate, Fresh, KeptUnlessMovedFrom, IsKept
<1>1. \A f \in Funcs :
        Pending(f)' <=> Pending(f) /\ ~WillCall(g, f)
  BY DEF Passes, Pending
<1>2. \A h, i \in Guards, f \in Funcs :
        WillCall(h, f)' /\ WillCall(i, f)' => h = i
  BY DEF Passes
<1>3. \A f \in Funcs : WillCall(g, f) => Pending(f) /\ runs[f] = 0 /\ f \notin off
  <2> SUFFICES ASSUME NEW f \in Funcs, WillCall(g, f)
               PROVE  Pending(f) /\ runs[f] = 0 /\ f \notin off
    OBVIOUS
  <2>1. Pending(f)
    BY DEF Pending
  <2> QED
    BY <2>1
<1>4. OneFate'
  BY <1>1, <1>2, <1>3 DEF Passes
<1>5. Fresh'
  BY <1>1, <1>3 DEF Passes
<1>6. KeptUnlessMovedFrom'
  BY <1>1, <1>3 DEF Passes
<1> QED
  BY <1>4, <1>5, <1>6

\* Moving takes the function and the duty to call it along; assigning calls
\* what the target was to call.
LEMMA MoveKeepsIInv ==
  ASSUME IInv, NEW g \in Guards, NEW o \in Guards,
         MoveConstruct(g, o) \/ MoveAssign(g, o)
  PROVE  IInv'
<1> USE DEF IInv, TypeOK, OneFate
<1>1. PICK left \in AfterMove(func[o]) :
        func' = [func EXCEPT ![g] = func[o], ![o] = left]
  BY DEF MoveConstruct, MoveAssign
<1>2. /\ g # o /\ left \in Funcs \cup {NoFunc} /\ o \in alive
      /\ valid' = IF o \in valid THEN (valid \ {o}) \cup {g} ELSE valid \ {g}
      /\ alive' = alive \cup {g}
      /\ UNCHANGED <<giver, off, failed, program>>
  BY DEF MoveConstruct, MoveAssign, AfterMove
<1>3. \A h \in valid' : func'[h] \in Funcs
  BY <1>1, <1>2
<1>4. \A h \in Guards, f \in Funcs :
        WillCall(h, f)' <=> \/ h \notin {g, o} /\ WillCall(h, f)
                            \/ h = g /\ o # g /\ WillCall(o, f)
  BY <1>1, <1>2 DEF WillCall
<1>5. /\ runs' \in [Funcs -> Nat]
      /\ \A f \in Funcs : runs'[f] = IF WillCall(g, f) THEN runs[f] + 1 ELSE runs[f]
  <2>1. CASE MoveConstruct(g, o)
    BY <2>1 DEF MoveConstruct, WillCall
  <2>2. CASE MoveAssign(g, o)
    BY <2>2 DEF MoveAssign, Calls, WillCall
  <2> QED
    BY <2>1, <2>2
<1>6. TypeOK'
  BY <1>1, <1>2, <1>5
<1> QED
  BY <1>2, <1>3, <1>4, <1>5, <1>6, PassesKeepsIInv DEF Passes

\* A guard that is destroyed calls its function and is gone.
LEMMA DestroyKeepsIInv ==
  ASSUME IInv, NEW g \in Guards, Destroy(g)
  PROVE  IInv'
<1> USE DEF IInv, TypeOK, OneFate, Destroy
<1>1. \A h \in valid' : func'[h] \in Funcs
  OBVIOUS
<1>2. \A h \in Guards, f \in Funcs :
        WillCall(h, f)' <=> h # g /\ WillCall(h, f)
  BY DEF WillCall
<1>3. /\ runs' \in [Funcs -> Nat]
      /\ \A f \in Funcs : runs'[f] = IF WillCall(g, f) THEN runs[f] + 1 ELSE runs[f]
  BY DEF Calls, WillCall
<1>4. TypeOK'
  BY <1>3
<1> QED
  BY <1>1, <1>2, <1>3, <1>4, PassesKeepsIInv DEF Passes

\* A guard that is disabled lets go of its function.
LEMMA DisableKeepsIInv ==
  ASSUME IInv, NEW g \in Guards, Disable(g)
  PROVE  IInv'
<1> USE DEF IInv, TypeOK, OneFate, Fresh, KeptUnlessMovedFrom, IsKept
<1>1. TypeOK' /\ UNCHANGED <<giver, runs, failed, program>>
  BY DEF Disable
<1>2. \A h \in valid' : func'[h] \in Funcs
  BY DEF Disable
<1>3. \A h \in Guards, f \in Funcs :
        WillCall(h, f)' <=> h # g /\ WillCall(h, f)
  BY DEF Disable, WillCall
<1>4. \A f \in Funcs : f \in off' <=> f \in off \/ WillCall(g, f)
  BY DEF Disable, WillCall
<1>5. \A f \in Funcs : Pending(f)' <=> Pending(f) /\ ~WillCall(g, f)
  BY <1>3 DEF Pending
<1>6. \A f \in Funcs : WillCall(g, f) => Pending(f) /\ runs[f] = 0
  <2> SUFFICES ASSUME NEW f \in Funcs, WillCall(g, f)
               PROVE  Pending(f) /\ runs[f] = 0
    OBVIOUS
  <2>1. Pending(f)
    BY DEF Pending
  <2>2. runs[f] \in Nat /\ runs[f] <= 1 /\ runs[f] # 1
    BY <2>1
  <2> QED
    BY <2>1, <2>2
<1>7. OneFate'
  BY <1>1, <1>2, <1>3, <1>4, <1>5, <1>6
<1>8. Fresh' /\ KeptUnlessMovedFrom'
  BY <1>1, <1>4, <1>5, <1>6
<1> QED
  BY <1>1, <1>7, <1>8

\* A call that throws leaves its function with the guard that called it.
LEMMA ThrowKeepsIInv ==
  ASSUME IInv, NEW g \in Guards,
         DestroyThrows(g) \/ \E o \in Guards : MoveAssignThrows(g, o)
  PROVE  IInv'
<1> USE DEF IInv, TypeOK, OneFate, Fresh, KeptUnlessMovedFrom, IsKept
<1>1. /\ CallThrows(g) /\ program' \in {program, "terminated"}
      /\ UNCHANGED <<alive, func, valid, giver, runs, off>>
  BY DEF DestroyThrows, MoveAssignThrows
<1>2. \A h \in Guards, f \in Funcs : WillCall(h, f)' = WillCall(h, f)
  BY <1>1 DEF WillCall
<1>3. \A f \in Funcs : Pending(f)' = Pending(f)
  BY <1>2 DEF Pending
<1>4. func[g] \in Funcs /\ Pending(func[g]) /\ failed' = failed \cup {func[g]}
  BY <1>1 DEF CallThrows, Pending, WillCall
<1>5. TypeOK'
  BY <1>1 DEF CallThrows
<1>6. OneFate'
  BY <1>1, <1>2, <1>3
<1>7. Fresh'
  BY <1>1, <1>3, <1>4
<1>8. KeptUnlessMovedFrom'
  BY <1>1, <1>3, <1>4
<1> QED
  BY <1>5, <1>6, <1>7, <1>8

\* An initFunc that throws has the clean-up called, or the program terminated.
LEMMA InitFailsKeepsIInv ==
  ASSUME IInv, (\E f \in Funcs : InitFails(f)) \/ EmptyInitFails
  PROVE  IInv'
<1> USE DEF IInv, TypeOK, OneFate, Fresh, KeptUnlessMovedFrom, IsKept
<1>1. UNCHANGED <<alive, func, valid, off>>
  BY DEF InitFails, EmptyInitFails
<1>2. \A h \in Guards, e \in Funcs : WillCall(h, e)' = WillCall(h, e)
  BY <1>1 DEF WillCall
<1>3. \A e \in Funcs : Pending(e)' = Pending(e)
  BY <1>2 DEF Pending
<1>4. CASE EmptyInitFails
  BY <1>1, <1>2, <1>3, <1>4 DEF EmptyInitFails
<1>5. ASSUME NEW f \in Funcs, InitFails(f) PROVE IInv'
  <2>1. PICK how \in Constructors : Give(f, how)
    BY <1>5 DEF InitFails
  <2>2. /\ giver[f] = "none" /\ giver' = [giver EXCEPT ![f] = how]
        /\ how # "none"
    BY <2>1, DeferAssumption DEF Give, DeferAssumption, AllConstructors
  <2>3. ~Pending(f) /\ runs[f] = 0 /\ f \notin off \cup failed
    BY <2>2
  <2>4. CASE runs' = [runs EXCEPT ![f] = @ + 1] /\ UNCHANGED <<program, failed>>
    <3>1. /\ runs'[f] = 1 /\ runs' \in [Funcs -> Nat]
          /\ \A e \in Funcs : e # f => runs'[e] = runs[e]
      BY <2>3, <2>4
    <3>2. OneFate'
      BY <1>1, <1>2, <1>3, <2>3, <3>1
    <3>3. TypeOK' /\ Fresh' /\ KeptUnlessMovedFrom'
      BY <1>1, <1>3, <2>2, <2>4, <3>1
    <3> QED
      BY <3>2, <3>3
  <2>5. CASE /\ f \in Throwers /\ failed' = failed \cup {f}
             /\ program' = "terminated" /\ UNCHANGED runs
    BY <1>1, <1>2, <1>3, <2>2, <2>3, <2>5
  <2> QED
    BY <1>5, <2>4, <2>5 DEF InitFails
<1> QED
  BY <1>4, <1>5

\* Every step preserves the invariant.
LEMMA StepIInv == IInv /\ [Next]_vars => IInv'
  BY StutterIInv, MakeEmptyKeepsIInv, MakeKeepsIInv, MoveKeepsIInv,
     DestroyKeepsIInv, DisableKeepsIInv, ThrowKeepsIInv, InitFailsKeepsIInv
     DEF Next

\* The invariant holds in every behaviour.
LEMMA Invariance == Spec => []IInv
  BY InitIInv, StepIInv, PTL DEF Spec

\* The types, and that a guard whose `valid` is true has something to call
\* (util.h:351-371, 399-401).
THEOREM TypeCorrect == Spec => []TypeOK
<1>1. IInv => TypeOK
  BY DEF IInv
<1> QED
  BY <1>1, Invariance, PTL

\* However guards are moved, assigned, disabled and destroyed, and whichever
\* functions throw, a clean-up returns at most once and is never called after
\* disable() (util.h:350-375).
THEOREM CleanUpsHaveOneFate == Spec => []OneFate
<1>1. IInv => OneFate
  BY DEF IInv
<1> QED
  BY <1>1, Invariance, PTL

\* No clean-up function is lost by moving, assigning or destroying guards, nor
\* by an exception, unless it was RAII's constructor that moved it in
\* (util.h:351-371, 397-402).
THEOREM CleanUpsAreKept == Spec => []KeptUnlessMovedFrom
<1>1. IInv => KeptUnlessMovedFrom
  BY DEF IInv
<1> QED
  BY <1>1, Invariance, PTL

\* So without that constructor, every one is pending until it is called or
\* disabled, or the program ends (util.h:351-371).
COROLLARY NothingForgottenWithoutMove ==
  ASSUME "RAII_move" \notin Constructors PROVE Spec => []NothingForgotten
<1>1. IInv => NothingForgotten
  BY DEF IInv, TypeOK, KeptUnlessMovedFrom, NothingForgotten, IsKept
<1> QED
  BY <1>1, Invariance, PTL
=============================================================================
