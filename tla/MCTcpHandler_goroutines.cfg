CONSTANTS
  Conns <- MCConn
  Scripts <- MCScriptsBad
  MaxInvoke = 0
  QueueCap = 1
  ReadTimeout = 1
  IdleTimeout = 2
  NoPool = NoPool
  CanShutdown = TRUE
SPECIFICATION Spec
INVARIANT FramesIntact
INVARIANT ParseLoopChunkingInvariant
PROPERTY ReadersStopAfterShutdown
PROPERTY ImplementsRequestStream
