SPECIFICATION Spec
CONSTANTS
  p = p  q = q
  DefaultCpu = 600  CpuPerWall = 4  MinCpu = 4
  FileBlocks = 8388608  OpenFiles = 1024  Headroom = 1024
  MaxSafe = 1000000000  Unlimited = 2000000000
  Hosts <- MCHosts
  Requests <- MCRequests
  MaxFaults = 1
  Fds = {1, 2}
  Places = {p, q}
  Above <- MCAbove
  Rulesets <- MCRulesets
CONSTRAINT Focus
INVARIANT DescriptorReachesBwrap
