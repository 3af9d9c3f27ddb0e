\* Every class but video only; the program may stop, after Q or a fault.
CONSTANTS
  Cameras = {0, 1}
  Counts = {1, 2}
  Intervals = {0, 2}
  Word = 8
  Hal <- MCHal
  AddOrders <- MCAddOrders
  SwitchOrders <- MCSwitchOrders
  CommandBound = 3
  Impatient = FALSE
  DumpClasses = {"PREVIEW", "SNAPSHOT", "PREVIEW_VIDEO_ONLY", "VIDEO", "DEPTH"}
  FromFile = FALSE
  OpenFails = TRUE
SPECIFICATION FairSpec
CHECK_DEADLOCK FALSE
INVARIANTS
  TypeOK
  SlotAgrees
  DeviceFollowsSlot
  CleanExit
  StreamsAsAsked
  CasePools
  CaseSensorMode
  AllPicturesSaved
  DumpNotExceeded
PROPERTIES
  CountedDumpsEnd
  EndsWithInput
