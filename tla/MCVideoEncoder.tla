--------------------------- MODULE MCVideoEncoder ---------------------------
(***************************************************************************)
(* Instances of VideoEncoder for TLC.                                      *)
(***************************************************************************)
EXTENDS VideoEncoder, TLC

CONSTANTS v1, v2, v3   \* buffers of the video stream

TwoFrames   == {v1, v2}
ThreeFrames == {v1, v2, v3}

FrameSymmetry == Permutations(ThreeFrames)
=============================================================================
