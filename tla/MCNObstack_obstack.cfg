CONSTANTS
  Bytes = {nul, x}
  Nul = nul
  Junk = junk
  Lens = {0, 1, 3}
  Header = 2
  Alignment = 2
  Extra = 2
  FirstSize = 4
  ChunkSize = 4
  MallocMayFail = TRUE
  Top = 14
  MaxObjs = 2
SPECIFICATION ObstackSpec
CHECK_DEADLOCK FALSE
INVARIANTS
  WellPlaced
PROPERTY
  IsAStack
