SPECIFICATION FairSpec
CONSTANTS
  Asks = {a1, a2}
  Repliers = {r1}
  Sweeper = Sweeper
  Stopper = Stopper
  SlotCount = 1
  NoAsk = NoAsk
INVARIANTS CompletionWakes TimeoutTracked
PROPERTIES AskCompletes FirstCompletionStands
CHECK_DEADLOCK FALSE
