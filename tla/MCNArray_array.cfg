CONSTANTS
  d1 = d1
  d2 = d2
  d3 = d3
  Data = {d1, d2, d3}
  NULL = NULL
  KeyOf <- TwoEqual
  Places = {0, 2, 4}
  Rows <- ShortRows
  InitSizes = {1}
  MaxAlloc = 4
  CtlFlags = {"AUTOSORTED", "CONSTSIZE", "FROZEN"}
  Hooks = {TRUE, FALSE}
  Misuse = {}
SPECIFICATION Spec
SYMMETRY Twins
INVARIANTS
  MemoryOK
  SortedInOrder
PROPERTY IsASequence
