SPECIFICATION FairSpec
CONSTANTS
  Spawns = {s1}
  DenyLines = 1
  GrantLines = 1
  None = None
INVARIANTS
  RunsConfined
  NothingRunsAfterRelease
  LitterIsRecorded
PROPERTIES
  ImplementsContract
  OrphansAreSwept
CHECK_DEADLOCK FALSE
