SPECIFICATION WorkersSpec
CONSTANTS
  None = None
  Pages = {"Overview", "Compare"}
  Paths = {"a", "b"}
  Ranges = {"range"}
  MaxWrites = 1
  MaxLoads = 2
PROPERTY ReanalysisIsAnswered
CHECK_DEADLOCK FALSE
