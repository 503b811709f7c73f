SPECIFICATION FairSpec
CONSTANTS
  home = home  a = a  b = b  x = x  sys = sys  data = data  tmp = tmp
  private = private  bin = bin  sysx = sysx  t = t  d1 = d1
  Paths <- MCPaths
  Configs <- MCConfigs
  LargeConfigs <- MCLarge
  SystemDirs <- MCSystemDirs
  TempDirs <- MCTempDirs
  RootLinks <- MCRootLinks
  Private <- MCPrivate
  DataVolume <- MCDataVolume
  Sensitive <- MCSensitive
  Floor <- MCFloor
  Lookalikes <- MCLookalikes
  CommandDirs <- MCCommandDirs
  Dirs = {d1}
  MaxOthers = 1
INVARIANTS DeniedIsHidden NothingUngranted GrantedIsUsable
PROPERTY ProfileDirsGo
CHECK_DEADLOCK FALSE
