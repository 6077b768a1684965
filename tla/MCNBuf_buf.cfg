CONSTANTS
  Bytes = {nul, nl, x}
  Nul = nul
  NewLine = nl
  Junk = junk
  Sizes = {0, 1, 2}
  PrintfSize = 2
  Cleans = {"buffer", "nobody"}
  MaxRefs = 1
  MaxSize = 3
SPECIFICATION Spec
CHECK_DEADLOCK FALSE
INVARIANTS
  TypeOK
  NoJunk
  LongerThanText
PROPERTY
  IsAText
