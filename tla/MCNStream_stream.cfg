CONSTANTS
  B = 4
  NewLine = 1
  Ints <- AroundMax
  Texts <- FewTexts
  LineSizes = {2, 4}
  PrintSize = 9
  LongPrints = FALSE
  Suffixes = {"gz", "zst"}
  Libs = {"zlib", "zlib-ng"}
  MaxRecords = 2
SPECIFICATION StreamSpec
CHECK_DEADLOCK FALSE
INVARIANTS
  RoundTrip
  LineFits
