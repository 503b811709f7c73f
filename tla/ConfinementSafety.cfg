SPECIFICATION FairSpec
CONSTANTS
  Window = 2
  MaxFaults = 2
INVARIANTS
  ProvedControlsAct
  WorkingControlsAreProved
  NothingRunsAfterProbe
CHECK_DEADLOCK FALSE
PROPERTY
  ProbeEnds
