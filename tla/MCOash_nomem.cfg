CONSTANTS
  k1 = k1
  k2 = k2
  k3 = k3
  k4 = k4
  k5 = k5
  Keys = {k1, k2, k3, k4, k5}
  Data = {}
  NULL = NULL
  HashOf <- CrowdHash
  KLen <- CrowdLen
  Prefix <- Prefix5
  InitCaps = {4}
  MaxCap = 8
  CtlFlags = {"REHASH"}
  PslMod = 8
  DsizeMod = 8
  CallocMayFail = TRUE
SPECIFICATION Spec
SYMMETRY Twins
INVARIANTS
  FixedOK
PROPERTIES
  NeverWrong
CHECK_DEADLOCK FALSE
