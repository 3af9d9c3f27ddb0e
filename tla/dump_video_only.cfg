\* Cases for video only; the program may stop, after Q or a fault.
CONSTANTS
  Cameras = {0, 1}
  Counts = {1, 2}
  Intervals = {0, 2}
  Word = 8
  Hal <- MCHal
  AddOrders <- VideoOnlyOrders
  SwitchOrders <- MCSwitchOrders
  CommandBound = 3
  Impatient = TRUE
  DumpClasses = {"VIDEO_ONLY"}
  FromFile = TRUE
  OpenFails = FALSE
SPECIFICATION Spec
CHECK_DEADLOCK FALSE
INVARIANTS
  DumpNotExceeded
