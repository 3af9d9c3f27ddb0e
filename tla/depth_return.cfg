\* QCamxHAL3TestDepth: the case and the device both return each buffer
CONSTANTS
  p1 = p1  p2 = p2  q1 = q1  q2 = q2
  Streams <- TwoStreams
  Buffers <- Pools22
  StreamOf <- StreamOf22
  InitRequests <- VideoRequests
  SkipPattern <- NoSkip
  PendingLimit = 2
  SyncMode = "internal"
  CaseReturns = {0, 1}
  EncoderTakes = {}
  CaseDrops = {}
  StopsEncoder = FALSE
  HalThreads = {h1}
  PartialResults = 1
  DrainTries = 1
  CaptureMsgs <- NoMsgs
  FrameBound = 3
  PostBound = 0
  SettingBound = 0
  Spurious = FALSE
  HalStalls = FALSE
  HalRejects = FALSE
  StopOvertakes = FALSE
SPECIFICATION Spec
INVARIANT OwnedOnce
