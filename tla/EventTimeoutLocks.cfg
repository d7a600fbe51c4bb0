SPECIFICATION FairSpec
CONSTANTS
  Threads = {t1, t2}
  NoThread = NoThread
  Ops <- AllOps
PROPERTY SetReturns
CHECK_DEADLOCK FALSE
