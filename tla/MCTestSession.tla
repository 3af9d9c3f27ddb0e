---------------------------- MODULE MCTestSession ----------------------------
(***************************************************************************)
(* Two cameras and orders of every class, for TLC.                         *)
(***************************************************************************)
EXTENDS TestSession

opt(o, v) == [opt |-> o, value |-> v]

HD   == <<1280, 720>>
FHD  == <<1920, 1080>>
UHD  == <<3840, 2160>>
ToF  == <<640, 480>>

\* The camera of camera 0 is fast, that of camera 1 has one mode only.
MCHal ==
  [c \in 0 .. 1 |->
     [outputs |-> {<<f, s>> : f \in {"YCBCR_420_888", "BLOB"}, s \in {HD, FHD}}
                    \cup {<<"RAW16", ToF>>},
      modes   |-> IF c = 0
                  THEN <<[size |-> UHD, fps |-> 30], [size |-> HD, fps |-> 240],
                         [size |-> FHD, fps |-> 120], [size |-> FHD, fps |-> 240],
                         [size |-> UHD, fps |-> 60]>>
                  ELSE <<[size |-> UHD, fps |-> 30]>>,
      active  |-> UHD]]

preview(c) == <<opt("id", c), opt("psize", FHD), opt("pformat", "yuv420")>>
picture    == <<opt("ssize", FHD), opt("sformat", "jpeg")>>
video      == <<opt("vsize", FHD)>>
raw        == <<opt("enableRawFormat", 37)>>
fps(n)     == <<opt("fpsrange", <<n, 30>>)>>

MCAddOrders ==
  { preview(0),                                   \* PREVIEW
    preview(1) \o picture,                        \* SNAPSHOT
    preview(0) \o video \o fps(90),               \* PREVIEW_VIDEO_ONLY, fast
    preview(1) \o video \o picture \o fps(30)     \* VIDEO with raw pictures
      \o raw,
    <<opt("id", 0), opt("tofdepthsize", ToF), opt("tofirsize", ToF),
      opt("tofdepthformat", "raw16"), opt("tofmode", 0)>>,  \* DEPTH
    <<opt("id", 1)>> \o video \o fps(60),         \* VIDEO_ONLY
    <<opt("id", 0), opt("psize", ToF)>>,          \* no such output: idle
    <<opt("id", 0)>> \o picture }                 \* refused

\* v to a fast video, to one on another camera, to raw pictures with and without
\* pictures, and without a video size.
MCSwitchOrders ==
  { video \o picture \o <<opt("psize", FHD), opt("fpsrange", <<60, 120>>)>>,
    <<opt("id", 1), opt("psize", FHD)>> \o video \o picture,
    video \o picture \o raw,
    video \o raw,
    <<opt("psize", FHD)>> }

VideoOnlyOrders ==
  { <<opt("id", 0)>> \o video \o fps(90), <<opt("id", 1)>> \o video \o fps(60) }
=============================================================================
