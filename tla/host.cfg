SPECIFICATION HostSpec
CONSTANTS
  Devices = {d1, d2}
  None = None
  Pids = {1, 2}
  MaxTicks = 1
  MaxBoots = 1
  MaxForeign = 1
  MaxErrors = 1
INVARIANTS  ActivityIsMeasured  
PROPERTY CaptureIsOwned
SYMMETRY Symmetry
CHECK_DEADLOCK FALSE
