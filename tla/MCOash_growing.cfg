CONSTANTS
  k1 = k1
  k2 = k2
  k3 = k3
  k4 = k4
  k5 = k5
  Keys = {k1, k2, k4}
  Data = {d1}
  NULL = NULL
  HashOf <- Hash3
  KLen <- Len3
  Prefix <- Prefix3
  InitCaps = {4}
  MaxCap = 8
  CtlFlags = {"REHASH", "NOREPLACE"}
  PslMod = 16
  DsizeMod = 8
  CallocMayFail = FALSE
SPECIFICATION FairSpec
INVARIANTS
  IndInv
  WalksAgree
PROPERTIES
  IsAMap
