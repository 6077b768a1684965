CONSTANTS
  BufSize = 2
  SkipSize = 2
  Sizes = {0, 1, 3}
  EndOfLine <- ShortLines
  MaxFile = 5
SPECIFICATION FairSpec
INVARIANTS
  TypeOK
  AtItsPlace
PROPERTIES
  IsAFile
  CallsReturn
