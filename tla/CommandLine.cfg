SPECIFICATION FairSpec
CONSTANTS
  ArgLists <- Lists
INVARIANTS
  TypeOK
  PositionalAsDocumented
  OutcomeAsMeant
PROPERTIES
  AlwaysEnds
\* The parser stops when it is done.
CHECK_DEADLOCK FALSE
