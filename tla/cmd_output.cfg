SPECIFICATION Spec
CONSTANTS
  Chars = {a, b}
  CR = CR
  LF = LF
  MaxOutput = 6
CHECK_DEADLOCK FALSE
INVARIANTS TypeOK  LinesSplit
