SPECIFICATION Spec
CONSTANTS
  Threads = {Task, Worker}
  Workers = {Worker}
  MaxDepth = 2
  Files = {f1, f2}
  Bios = {b1, b2, b3}
  Requests = {r1, r2}
  MaxRequestOrigins = 1
  ActiveCapacity = 1
  BioCapacity = 2
  CountCapacity = 1
  RingCapacity = 1
  None = None
INVARIANTS OriginIsSubmitters OriginsAreWhole
CHECK_DEADLOCK FALSE
SYMMETRY Symmetry
