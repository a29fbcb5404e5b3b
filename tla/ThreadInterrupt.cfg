SPECIFICATION FairSpec
CONSTANTS
  Threads = {t1, t2, t3}
  NoThread = NoThread
  ConcurrentReset = FALSE
  MaxCalls = 2
INVARIANTS
  TypeOK
  NoLostWakeup
PROPERTIES
  KeepsPromise
  InterruptEndsSleep
\* Threads stop when they have made MaxCalls calls each.
CHECK_DEADLOCK FALSE
