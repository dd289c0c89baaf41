CONSTANTS
  Conns <- MCConn
  Scripts <- MCScripts
  MaxInvoke = 1
  QueueCap = 1
  ReadTimeout = 1
  IdleTimeout = 2
  NoPool = NoPool
  CanShutdown = TRUE
SPECIFICATION Spec
PROPERTY ReadersStopAfterShutdown
