SPECIFICATION Spec
CONSTANTS
  None = None
INVARIANTS GraphIsSound   LinesAreIndependent AttributionIsOwn
CHECK_DEADLOCK FALSE
