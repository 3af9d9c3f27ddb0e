\* gaps of a second between frames
CONSTANTS
  v1 = v1  v2 = v2  v3 = v3
  Frames <- TwoFrames
  m_nInputBufferCount = 2
  m_nOutputBufferCount = 1
  Gaps = TRUE
  SlowConfig = FALSE
  OmxStalls = FALSE
  OmxRejects = FALSE
SPECIFICATION FairSpec
PROPERTY FramesComeBack
