CONSTANTS
  k1 = k1
  k2 = k2
  k3 = k3
  k4 = k4
  d1 = d1
  Keys = {k1, k2, k3, k4}
  Data = {d1}
  NULL = NULL
  HashOf <- HashV
  ShiftOf <- ShiftV
  InitSizes = {4}
  MaxSize = 16
  CtlFlags = {"REHASH", "NOREPLACE"}
  MaxRefs = 1
  CallocMayFail = TRUE
  Misuse = {}
SPECIFICATION FairSpec
INVARIANTS
  TableOK
  MemoryOK
  VisitsEach
  WalksAgree
PROPERTIES
  IsAMap
