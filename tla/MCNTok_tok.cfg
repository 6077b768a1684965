CONSTANTS
  Plain = plain
  White = white
  Break = break
  Quotes = {single, double}
  Escape = escape
  Fns = {"tokl", "etokl"}
  MaxLine = 5
  TokLens = {1}
  TokensSize = 2
SPECIFICATION Spec
CHECK_DEADLOCK FALSE
INVARIANTS
  Inside
  TokensRight
  CharactersKept
  HelpersRight
PROPERTY
  Ends
