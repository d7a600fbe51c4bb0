SPECIFICATION FairOneSpec
CONSTANTS
  Threads = {t1, t2, t3}
  NoThread = NoThread
  MaxDepth = 2
  Ops = {"set", "reset", "wait", "poll", "timedWait"}
  Keys = {k1}
  NoKey = NoKey
  Values = {zero, a}
  Default = zero
  NoData = NoData
  Workers = {w1, w2}
  NoWorker = NoWorker
INVARIANTS HolderIsOwner HolderNeverBlocks NoSleepOverSetEvent OneInitializer KeyWhenInitialized ValueKept NoTouchAfterFree ReleasedOnce SettledStatus
PROPERTIES OnlyHolderWrites AcquireReturns WaiterReleased CallReturns
