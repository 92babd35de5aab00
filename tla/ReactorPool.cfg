SPECIFICATION FairSpec
CONSTANTS
  WorkerCount = 2
  Streams <- TwoStreams
  Threads <- NoThreads
  Size = 1
  MaxSent = 1
  MaxPending = 1
  SocketRoom = 1
  Transports <- Tcp
  TlsRoom = 1
  Environment <- PoolEvents
  s1 = s1
  s2 = s2
  t1 = t1
INVARIANT HostOkClosedAll
PROPERTY ConnectedIsServed
PROPERTY ShutdownReturns
CHECK_DEADLOCK FALSE
