SPECIFICATION CollectorSpec
CONSTANTS
  Worker = Worker
  None = None
  Collectors = {"c1", "c2", "c3"}
INVARIANTS AttachmentIsSound SwitchRestored StagesAreTrue RecentOriginsFound TopIsHonest RecorderIsHonest
INVARIANT FileIoIsTrue
PROPERTY SnapshotExact
CHECK_DEADLOCK FALSE
