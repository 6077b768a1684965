CONSTANTS
  k1 = k1
  k2 = k2
  k3 = k3
  k4 = k4
  k5 = k5
  Keys = {k1, k2, k3, k4}
  Data = {}
  NULL = NULL
  HashOf <- ClashHash
  KLen <- ClashLen
  Prefix <- ClashPrefix
  InitCaps = {4}
  MaxCap = 4
  CtlFlags = {}
  PslMod = 16
  DsizeMod = 8
  CallocMayFail = FALSE
SPECIFICATION Spec
INVARIANTS
  NeverDead
