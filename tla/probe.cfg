SPECIFICATION Spec
CONSTANTS
  Requests = {1, 2, 3}
  Ptrs <- MCPtrs
  PtrOf <- MCPtrOf
  Size <- MCSize
  Worker = Worker
  Contexts <- MCTask
  Cpus = {"c1"}
  CpuOf <- MCOneCpu
  Above <- MCOneAbove
  Probe = "raw"
  Counters = {"observed", "filter_passed", "key_reused"}
  ConfigOf <- MCConfigOf
  MaxGeneration = 1
  RawCapacity = 1
  StartsCapacity = 1
  RingCapacity = 1
  MaxAttempts <- MCAttempts
  MaxMissed = 0
  MaxMerged = 1
  None = None
INVARIANTS JoinsAreOwn NoLeak AccountsAreExact
CHECK_DEADLOCK FALSE
