SPECIFICATION Spec
CONSTANTS
  Posters = {p1, p2}
  Dispatcher = Dispatcher
  MailCount = 4
SYMMETRY Symmetry
INVARIANTS ScheduledOnce NextPostSchedules
CHECK_DEADLOCK FALSE
