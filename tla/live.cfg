\* Two streams whose request_number[] keep their default 0, the second one
\* encoded: every request is a capture on demand, and the request thread waits
\* between them.  One buffer per stream and a limit of one: the gate closes.
CONSTANTS
  p1 = p1  p2 = p2  q1 = q1  q2 = q2
  Streams <- TwoStreams
  Buffers <- Pools11
  StreamOf <- StreamOf11
  InitRequests <- DefaultRequests
  SkipPattern <- NoSkip
  PendingLimit = 1
  SyncMode = "external"
  CaseReturns = {0}
  EncoderTakes = {1}
  CaseDrops = {}
  StopsEncoder = TRUE
  HalThreads = {h1}
  PartialResults = 1
  DrainTries = 1
  CaptureMsgs <- OnDemandMsgs
  FrameBound = 4
  PostBound = 2
  SettingBound = 0
  Spurious = FALSE
  HalStalls = FALSE
  HalRejects = FALSE
  StopOvertakes = FALSE
SPECIFICATION FairSpec
INVARIANT CaptureAccounting
PROPERTIES StopReturns PlannedIsSubmitted RequestsRetire CapturesServed WindowSpec
