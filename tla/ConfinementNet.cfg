SPECIFICATION Spec
CONSTANTS
  Window = 1
  MaxFaults = 0
INVARIANT
  DenialIsConfinement
CHECK_DEADLOCK FALSE
