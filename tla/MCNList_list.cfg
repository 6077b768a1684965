CONSTANTS
  n1 = n1
  n2 = n2
  n3 = n3
  n4 = n4
  d1 = d1
  d2 = d2
  d3 = d3
  d4 = d4
  Nodes = {n1, n2, n3}
  Data = {d1, d2, d3}
  NULL = NULL
  KeyOf <- TwoEqual
  Places = {0, 1, 2, 3}
  MaxRefs = 1
  MallocMayFail = TRUE
  UnshiftOnEmpty = FALSE
SPECIFICATION FairSpec
INVARIANTS
  MemoryOK
  ChainOK
  IteratorAhead
PROPERTIES
  IsASequence
  CallsReturn
