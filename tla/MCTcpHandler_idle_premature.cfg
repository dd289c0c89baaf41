CONSTANTS
  Conns <- MCConn
  Scripts <- MCScripts
  MaxInvoke = 0
  QueueCap = 1
  ReadTimeout = 2
  IdleTimeout = 1
  NoPool = NoPool
  CanShutdown = FALSE
SPECIFICATION Spec
INVARIANT IdleCloseOnlyWhenIdle
