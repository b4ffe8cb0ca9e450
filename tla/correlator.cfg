SPECIFICATION SpecAll
CONSTANTS
  Requests <- MCRequests
  Keys <- MCKeys
  Devices <- MCDevices
  KeyOf <- MCReused
  DeviceOf <- MCDeviceOf
  Ttl = 1
  Exclusive = TRUE
  MaxTime = 3
  MaxSkew = 1
  MaxAttempts = 2
  MaxLost = 1
  Worker = Worker
  None = None
INVARIANTS  DepthIsInFlight SummaryIsExact
PROPERTY DetailCorrelated
CHECK_DEADLOCK FALSE
