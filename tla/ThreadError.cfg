SPECIFICATION OneSpec
CONSTANTS
  Threads = {t1}
  NoThread = NoThread
  MaxDepth = 1
  Ops = {"set"}
  Keys = {k1}
  NoKey = NoKey
  Values = {zero}
  Default = zero
  NoData = NoData
  Workers = {w1}
  NoWorker = NoWorker
INVARIANT ErrorReported
