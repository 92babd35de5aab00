SPECIFICATION AwaitSpec
CONSTANTS
  Callers = {c1, c2}
  Worker = w
  Tasks = {"join", "yield", "poll"}
  Origin = c1
  NoCallback = NoCallback
INVARIANTS NoLostSignal DispatcherInv ContinuationKept
PROPERTIES ScheduledIsExecuted DisposeReturns JoinCompletes
CHECK_DEADLOCK FALSE
