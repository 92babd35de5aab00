SPECIFICATION FairSpec
CONSTANTS
  Items = {1, 2, 3}
  NoItem = NoItem
  Capacity = 2
  Posters = {p1}
  Killers = {k1}
  Wakers = {w1, w2}
  w1 = w1
  d1 = d1
  d2 = d2
  Dispatchers = {d1}
  Owner = d1
  NoDispatcher = NoDispatcher
  Home <- HomeNowhere
CHECK_DEADLOCK FALSE
INVARIANTS PendingReceiveStopsActor MailNotStranded WakeNotLost KilledOnce
PROPERTIES AcceptedIsReceived KillCompletes
