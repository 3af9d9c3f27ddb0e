\* A mode that U sets, as the user typed it
CONSTANTS
  h1 = h1  f1 = f1  f2 = f2  f3 = f3
  ActiveArray <- Sensor
  CompRange <- Comp
  HalThreads = {h1}
  Flags <- MCFlags
  UpdateOrders <- ModeOrders
  Template <- MCTemplate
  ResultTags <- MCResultTags
  Measured = {0, 1}
  MetaOptions <- MCMetaOptions
  Classes = {"base"}
  Paths = {"test1.log", "other.log"}
  DefaultPath = "test1.log"
  Unwritable = {}
  Files = {f1, f2, f3}
  stderr = stderr
  NULL = NULL
  Lives = 1
  CommandBound = 1
SPECIFICATION Spec
CHECK_DEADLOCK FALSE
INVARIANT ModesAsAsked
