SPECIFICATION FairSpec
CONSTANTS
  Backlog = 1
  None = None
  InboxCapacity = 2
  PipeCapacity = 1
  MaxEvents = 1
  MaxSessions = 2
INVARIANTS SessionsAreApart GracefulIsComplete
PROPERTY CaptureEnds
CHECK_DEADLOCK FALSE
