CONSTANTS
  Conns <- MCConn
  Scripts <- MCScriptsOne
  MaxInvoke = 1
  QueueCap = 1
  ReadTimeout = 0
  IdleTimeout = 1
  NoPool = NoPool
  CanShutdown = TRUE
SPECIFICATION Spec
INVARIANT PoolsReleased
