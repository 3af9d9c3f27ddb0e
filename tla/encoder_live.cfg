\* recording without gaps, a component in time
CONSTANTS
  v1 = v1  v2 = v2  v3 = v3
  Frames <- TwoFrames
  m_nInputBufferCount = 2
  m_nOutputBufferCount = 1
  Gaps = FALSE
  SlowConfig = FALSE
  OmxStalls = FALSE
  OmxRejects = FALSE
SPECIFICATION FairSpec
INVARIANT FreedWhenIdle
PROPERTY FramesComeBack
