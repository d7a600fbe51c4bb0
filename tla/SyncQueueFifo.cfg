SPECIFICATION Spec
CONSTANTS
  Threads = {t1, t2}
  Values = {v1, v2}
  NoItem = NoItem
  Size = 2
  Timeouts <- SomeTimeouts
  Ops <- AllOps
INVARIANTS NoSleepOverItems NoSleepAfterCancel
PROPERTIES TimedCallsStayTimed ImplementsFifo
SYMMETRY Symmetry
