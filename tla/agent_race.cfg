SPECIFICATION LoopSpec
CONSTANTS
  RingCapacity = 3
  Batch = 2
  MaxCommands = 1
INVARIANTS
  DetachedBeforeFooter
CHECK_DEADLOCK FALSE
