SPECIFICATION Spec
CONSTANTS
  Guards = {g1, g2, g3}
  Funcs = {f1, f2, f3}
  NoFunc = NoFunc
  Throwers = {f1, f2}
  InitThrows = TRUE
  Constructors = {"Defer", "RAII_copy", "RAII_move"}
SYMMETRY DeferSymmetry
INVARIANTS
  TypeOK
  OneFate
  KeptUnlessMovedFrom
\* Everything may have been given, and the guards be gone.
CHECK_DEADLOCK FALSE
