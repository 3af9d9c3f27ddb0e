\* One HAL thread; a camera that has been deleted twice leaves nothing to do.
CONSTANTS
  h1 = h1  f1 = f1  f2 = f2  f3 = f3
  ActiveArray <- Sensor
  CompRange <- Comp
  HalThreads = {h1}
  Flags <- MCFlags
  UpdateOrders <- MCUpdateOrders
  Template <- MCTemplate
  ResultTags <- MCResultTags
  Measured = {0, 1}
  MetaOptions <- MCMetaOptions
  Classes = {"base", "preview_video", "video"}
  Paths = {"test1.log", "other.log"}
  DefaultPath = "test1.log"
  Unwritable = {}
  Files = {f1, f2, f3}
  stderr = stderr
  NULL = NULL
  Lives = 2
  CommandBound = 2
SPECIFICATION Spec
CHECK_DEADLOCK FALSE
INVARIANTS
  TypeOK
  LogFileOpen
  LogFollowsStat
PROPERTIES
  SettingReported
