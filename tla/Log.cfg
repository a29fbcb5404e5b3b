SPECIFICATION FairSpec
CONSTANTS
  Threads = {t1, t2}
  NoThread = NoThread
  Kinds = {"Debug", "Trace", "Fatal"}
  HasCallback = TRUE
  MaxLines = 2
INVARIANTS
  TypeOK
  NestsOnce
PROPERTIES
  LinesWhole
  EveryLineEnds
\* Threads stop when they have logged MaxLines lines each.
CHECK_DEADLOCK FALSE
