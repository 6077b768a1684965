CONSTANTS
  u1 = u1
  u2 = u2
  u3 = u3
  u4 = u4
  u5 = u5
  short = short
  long = long
  Users = {u1, u2, u3, u4, u5}
  Strings = {short, long}
  LenOf <- Lengths
  Requests <- Widths
  Mod8 = 2
  Mod16 = 5
  Items = {1, 2, 3}
  KeyOf <- TwoEqual
  MaxRefs = 2
  MaxTuple = 4
SPECIFICATION Spec
SYMMETRY AnyUser
CHECK_DEADLOCK FALSE
INVARIANTS
  TypeOK
  SharedWell
  SortsRight
PROPERTIES
  FirstOfEquals
