SPECIFICATION Spec
CONSTANTS
  Threads = {t1, t2}
  Values = {v1}
  NoItem = NoItem
  Size = 1
  Timeouts <- NoTimeouts
  Ops <- WorkQueueOps
PROPERTY PutAnswersStored
