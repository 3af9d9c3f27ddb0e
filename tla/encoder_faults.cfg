\* gaps between frames, a slow component whose calls fail
CONSTANTS
  v1 = v1  v2 = v2  v3 = v3
  Frames <- TwoFrames
  m_nInputBufferCount = 2
  m_nOutputBufferCount = 1
  Gaps = TRUE
  SlowConfig = TRUE
  OmxStalls = TRUE
  OmxRejects = TRUE
SPECIFICATION FairSpec
INVARIANTS TypeOK HeaderOnce
PROPERTIES StopEnds HolderSpec
