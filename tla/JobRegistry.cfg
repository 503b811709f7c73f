SPECIFICATION Spec
CONSTANTS
  r1 = r1
  r2 = r2
  r3 = r3
  pidA = pidA
  pidB = pidB
  Roots = {r1, r2, r3}
  Children = {c1, c2}
  Pids = {pidA, pidB}
  PidOf <- SharedPid
  MaxJobs = 3
  None = None
INVARIANTS
  RegistriesAgree
  UnreachableOnlyByReuse
  TreeEndsWithItsJob
PROPERTY
  ClosesOnlyItsOwn
CHECK_DEADLOCK FALSE
