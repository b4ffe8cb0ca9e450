SPECIFICATION SpecBoth
CONSTANTS
  RingCapacity = 3
  Batch = 2
  MaxCommands = 1
  NumMaps = 2
  Values = {"v", "w"}
  KeyCapacity <- MCTight
  ConfigCapacity = 4
  Requests <- MCRequests
  ConsecutiveWindows = 2
  ArmingTimeout = 1
  DeepDuration = 1
  Cooldown = 1
  MaxPipe = 1
  MaxControl = 1
  None = None
INVARIANTS
  DetachedIsDrained
  FilterIsAsked
  OthersFollow
PROPERTIES
  LoopGoesOn
  
CHECK_DEADLOCK FALSE
