SPECIFICATION Spec
CONSTANTS
  MaxLen = 6
  Texts <- TextsDef
  Chars = {97}
  Ints <- IntsDef
INVARIANTS
  TypeOK
  HoldsBeginning
  EndsWithText
