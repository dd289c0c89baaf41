CONSTANTS
  Conns <- MCConn
  Scripts <- MCScripts
  MaxInvoke = 0
  QueueCap = 1
  ReadTimeout = 1
  IdleTimeout = 2
  NoPool = NoPool
  CanShutdown = FALSE
SPECIFICATION Spec
PROPERTY IdleConnectionsClosed
