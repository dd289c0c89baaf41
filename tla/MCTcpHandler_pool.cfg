CONSTANTS
  Conns <- MCConns
  Scripts <- MCScriptsOne
  MaxInvoke = 1
  QueueCap = 1
  ReadTimeout = 0
  IdleTimeout = 1
  NoPool = NoPool
  CanShutdown = FALSE
SPECIFICATION Spec
INVARIANT TypeOK
INVARIANT FramesIntact
PROPERTY RepliesDelivered
PROPERTY ImplementsRequestStream
