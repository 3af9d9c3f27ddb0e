\* A result that overtakes the end of process_one_capture_request
CONSTANTS
  p1 = p1  p2 = p2  q1 = q1  q2 = q2
  Streams <- OneStream
  Buffers <- Pool2
  StreamOf <- StreamOfP2
  InitRequests <- PreviewRequests
  SkipPattern <- NoSkip1
  PendingLimit = 2
  SyncMode = "internal"
  CaseReturns = {}
  EncoderTakes = {}
  CaseDrops = {}
  StopsEncoder = FALSE
  HalThreads = {h1}
  PartialResults = 1
  DrainTries = 1
  CaptureMsgs <- NoMsgs
  FrameBound = 3
  PostBound = 0
  SettingBound = 1
  Spurious = FALSE
  HalStalls = FALSE
  HalRejects = FALSE
  StopOvertakes = FALSE
SPECIFICATION Spec
PROPERTY SettingInForce
