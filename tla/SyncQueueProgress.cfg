SPECIFICATION FairSpec
CONSTANTS
  Threads = {t1, t2, t3}
  Values = {v1}
  NoItem = NoItem
  Size = 1
  Timeouts <- NoTimeouts
  Ops <- WorkQueueOps
INVARIANT NoSleepOverRoom
PROPERTIES CancelEndsCalls CallsProceed
