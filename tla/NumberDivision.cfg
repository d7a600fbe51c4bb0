CONSTANTS
  W = 4
  Ten = 3
  BlockDigits = 2
  MaxInt = 5
  MaxSize = 6
  MaxScale = 2
SPECIFICATION Spec
INVARIANT QuotientRight
CHECK_DEADLOCK FALSE
