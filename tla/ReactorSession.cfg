SPECIFICATION FairSpec
CONSTANTS
  WorkerCount = 1
  Streams <- OneStream
  Threads <- OneThread
  Size = 2
  MaxSent = 4
  MaxPending = 3
  SocketRoom = 1
  Transports <- TcpAndTls
  TlsRoom = 2
  Environment <- SessionEvents
  s1 = s1
  s2 = s2
  t1 = t1
INVARIANT BytesInOrder
PROPERTY ClosedForCause
PROPERTY SentBeforeClose
PROPERTY SentIsWritten
PROPERTY EndedIsKilled
PROPERTY WorkerWaits
CHECK_DEADLOCK FALSE
