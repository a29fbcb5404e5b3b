SPECIFICATION Spec
CONSTANTS
  Guards = {g1}
  Funcs = {f1}
  NoFunc = NoFunc
  Throwers = {}
  InitThrows = FALSE
  Constructors = {"Defer", "RAII_move"}
SYMMETRY DeferSymmetry
INVARIANTS
  NothingForgotten
\* Everything may have been given, and the guards be gone.
CHECK_DEADLOCK FALSE
