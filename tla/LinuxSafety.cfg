SPECIFICATION Spec
CONSTANTS
  Paths <- Tree
  FileLeaves <- Leaves
  Hosts <- AllHosts
  MaxWrites = 2
  MaxReads = 1
INVARIANTS
  DeniesHold
  HostUntouched
  SealsKeepContents
  PlansCanBeMounted
  NeverWidened
CONSTRAINT TwoBinds
CHECK_DEADLOCK FALSE
