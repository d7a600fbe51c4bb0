SPECIFICATION Spec
CONSTANTS
  t1 = t1
  t2 = t2
  Nobody = Nobody
  Root = Root
  Web = Web
  NoNode = NoNode
  Threads <- MCThreads
  Setters <- MCSetters
  Loggers <- MCLoggers
  Paths <- MCPaths
  GroupOf <- MCGroupOf
  IdOf <- MCIdOf
  Levels = {1, 5}
  Formats = {"default"}
  MaxWriters = 2
INVARIANT WritersCounted
PROPERTIES ImplementsSettings CallReturns
