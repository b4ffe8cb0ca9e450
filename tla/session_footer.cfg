SPECIFICATION Spec
CONSTANTS
  Backlog = 1
  None = None
  InboxCapacity = 2
  PipeCapacity = 1
  MaxEvents = 1
  MaxSessions = 1
CHECK_DEADLOCK FALSE
INVARIANT FooterBalances
