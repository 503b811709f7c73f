SPECIFICATION FairSpec
CONSTANTS
  Dwell = 1
  Window = 3
  MaxFaults = 2
INVARIANTS
  ProvedLimitsAct
  WorkingKillTreeIsProved
  NoMemberOutlivesProbe
CHECK_DEADLOCK FALSE
PROPERTY
  ProbeEnds
