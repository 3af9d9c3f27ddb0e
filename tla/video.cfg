\* QCamxPreviewVideoCase at a high frame rate: the case returns the preview
\* buffers, the encoder the video buffers; the HAL has two threads and may refuse a
\* request, and the encoder's queue may be gone when a frame is handed over, which
\* ends the process
CONSTANTS
  p1 = p1  p2 = p2  q1 = q1  q2 = q2
  Streams <- TwoStreams
  Buffers <- Pools21
  StreamOf <- StreamOf21
  InitRequests <- VideoRequests
  SkipPattern <- HfrSkip
  PendingLimit = 2
  SyncMode = "external"
  CaseReturns = {0}
  EncoderTakes = {1}
  CaseDrops = {}
  StopsEncoder = TRUE
  HalThreads = {h1, h2}
  PartialResults = 2
  DrainTries = 1
  CaptureMsgs <- NoMsgs
  FrameBound = 3
  PostBound = 0
  SettingBound = 0
  Spurious = FALSE
  HalStalls = FALSE
  HalRejects = TRUE
  StopOvertakes = TRUE
SPECIFICATION Spec
CHECK_DEADLOCK FALSE
SYMMETRY VideoSymmetry
INVARIANTS PendingBounded OwnedOnce PendingIffOwed StopDrains NoResultBehindStop NoEmptyRequest PoolsWhole
