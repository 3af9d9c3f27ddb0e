\* QCamxPreviewSnapshotCase with a late HAL, wake-ups without a signal and refused
\* requests, which may end the process
CONSTANTS
  p1 = p1  p2 = p2  q1 = q1  q2 = q2
  Streams <- TwoStreams
  Buffers <- Pools11
  StreamOf <- StreamOf11
  InitRequests <- SnapshotRequests
  SkipPattern <- NoSkip
  PendingLimit = 1
  SyncMode = "internal"
  CaseReturns = {}
  EncoderTakes = {}
  CaseDrops = {}
  StopsEncoder = FALSE
  HalThreads = {h1}
  PartialResults = 1
  DrainTries = 1
  CaptureMsgs <- SnapshotMsgs
  FrameBound = 3
  PostBound = 1
  SettingBound = 1
  Spurious = TRUE
  HalStalls = TRUE
  HalRejects = TRUE
  StopOvertakes = FALSE
SPECIFICATION Spec
CHECK_DEADLOCK FALSE
INVARIANTS TypeOK OwnedOnce
