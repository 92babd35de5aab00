SPECIFICATION Spec
CONSTANTS
  Posters = {p1, p2}
  Dispatcher = Dispatcher
  MailCount = 2
SYMMETRY Symmetry
INVARIANTS PostedIsProcessed
CHECK_DEADLOCK FALSE
