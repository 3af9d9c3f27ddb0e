-------------------------- MODULE MCCaptureDevice --------------------------
(***************************************************************************)
(* Instances of CaptureDevice for TLC: the stream layouts of the test      *)
(* cases with small pools.                                                 *)
(***************************************************************************)
EXTENDS CaptureDevice, TLC

CONSTANTS p1, p2, q1, q2   \* buffers of stream 0 and of stream 1

OneStream  == {0}
TwoStreams == {0, 1}

Pools22 == {p1, p2, q1, q2}
Pools21 == {p1, p2, q1}
Pool2 == {p1, p2}
Pools11 == {p1, q1}

StreamOfP2 == [b \in Pool2 |-> 0]
StreamOf11 == [b \in Pools11 |-> IF b = p1 THEN 0 ELSE 1]
StreamOf22 == [b \in Pools22 |-> IF b \in {p1, p2} THEN 0 ELSE 1]
StreamOf21 == [b \in Pools21 |-> IF b \in {p1, p2} THEN 0 ELSE 1]

\* run() of the preview case, of preview + snapshot and of preview + video
PreviewRequests  == 0 :> -1
SnapshotRequests == (0 :> -1) @@ (1 :> 0)
\* CameraThreadData as constructed: nothing is requested until asked for
DefaultRequests  == (0 :> 0) @@ (1 :> 0)
VideoRequests    == (0 :> -1) @@ (1 :> -1)

NoSkip1 == 0 :> 1
NoSkip  == (0 :> 1) @@ (1 :> 1)
\* high frame rate: the preview is requested with every second frame only
HfrSkip == (0 :> 2) @@ (1 :> 1)

NoMsgs == {}
\* the s command: one or two captures
SnapshotMsgs == [mask : {{1}}, count : {1, 2}]

\* captures on either stream
OnDemandMsgs == [mask : {{0}, {1}}, count : {1, 2}]

VideoSymmetry == Permutations(Pool2) \cup Permutations(HalThreads)
=============================================================================
