------------------------------ MODULE TestCases ------------------------------
(***************************************************************************)
(* The classes of test case as operators: the streams that pre_init_stream *)
(* sets up, what the init functions check and configure, and with which    *)
(* counters and limit run() starts the threads.                            *)
(*                                                                         *)
(* A class is named by its test mode.  Usage flags, data spaces and the    *)
(* contents of the metadata are left out.                                  *)
(***************************************************************************)
EXTENDS TestConfig, FiniteSetsExt

REQUEST_NUMBER_UMLIMIT == -1

\* The size of a stream's pool, max_buffers.
PREVIEW_STREAM_BUFFER_MAX     == 12
HFR_PREVIEW_STREAM_BUFFER_MAX == 15
SNAPSHOT_STREAM_BUFFER_MAX    == 8
VIDEO_STREAM_BUFFER_MAX       == 18
HFR_VIDEO_STREAM_BUFFER_MAX   == 40

VideoClasses == {"PREVIEW_VIDEO_ONLY", "VIDEO", "VIDEO_ONLY"}

----------------------------------------------------------------------------
(* Faulty variants *)

PoolForFrom120(fps, normal, high) == IF fps >= 120 THEN high ELSE normal

\* As SensorMode, but a later mode with more frames per second replaces one.
SensorModeLast(table, size, fps) ==
  Max({-1} \cup {i \in 0 .. Len(table) - 1 :
                   /\ table[i + 1].size[1] >= size[1]
                   /\ table[i + 1].size[2] >= size[2]
                   /\ table[i + 1].fps >= fps})

----------------------------------------------------------------------------
(* Frame rates *)

MaxFps(conf) == conf.fps_range[2]

\* Above 480, as up to 30, the mode stays VIDEO_MODE_NORMAL.
VideoMode(fps) ==
  IF fps \in 31 .. 480 THEN Min({m \in {60, 90, 120, 240, 480} : fps <= m})
                       ELSE 30

PoolFor(fps, normal, high) == IF fps > 60 THEN high ELSE normal

\* The rate divided by that of HFR60, rounded up.
PreviewSkip(fps) ==
  IF VideoMode(fps) > 60 THEN (VideoMode(fps) + 59) \div 60 ELSE 1

CAMX_LIVING_REQUEST_MAX   == 5
LIVING_REQUEST_APPEND     == 7
HFR_LIVING_REQUEST_APPEND == 35

\* The limit of _pending_vector, with what run() appends for video.
LivingRequestMax(class, conf) ==
  CAMX_LIVING_REQUEST_MAX +
  CASE class \notin VideoClasses -> 0
    [] class \in VideoClasses /\ VideoMode(MaxFps(conf)) <= 60 ->
         LIVING_REQUEST_APPEND
    [] OTHER -> HFR_LIVING_REQUEST_APPEND

----------------------------------------------------------------------------
(* Streams, in the order of their indices *)

StreamOf(type, info, max_buffers, request_number, skip_pattern) ==
  [type |-> type, size |-> info.size, format |-> info.format,
   max_buffers |-> max_buffers, request_number |-> request_number,
   skip_pattern |-> skip_pattern]

Continuous(type, info, max_buffers) ==
  StreamOf(type, info, max_buffers, REQUEST_NUMBER_UMLIMIT, 1)

PreviewStreams(conf) ==
  <<Continuous("PREVIEW", conf.preview, PREVIEW_STREAM_BUFFER_MAX)>>

\* Pictures are taken on demand if they are JPEG, otherwise all the time.
PreviewSnapshotStreams(conf) ==
  <<Continuous("PREVIEW", conf.preview, PREVIEW_STREAM_BUFFER_MAX),
    StreamOf("SNAPSHOT", conf.snapshot, SNAPSHOT_STREAM_BUFFER_MAX,
             IF conf.snapshot.format = "BLOB" THEN 0 ELSE REQUEST_NUMBER_UMLIMIT,
             1)>>

SkippedPreview(conf) ==
  StreamOf("PREVIEW", conf.preview,
           PoolFor(MaxFps(conf), PREVIEW_STREAM_BUFFER_MAX,
                   HFR_PREVIEW_STREAM_BUFFER_MAX),
           REQUEST_NUMBER_UMLIMIT, PreviewSkip(MaxFps(conf)))

VideoStream(conf) ==
  Continuous("VIDEO", conf.video,
             PoolFor(MaxFps(conf), VIDEO_STREAM_BUFFER_MAX,
                     HFR_VIDEO_STREAM_BUFFER_MAX))

PreviewVideoStreams(conf) == <<SkippedPreview(conf), VideoStream(conf)>>

VideoOnlyStreams(conf) == <<VideoStream(conf)>>

\* A raw size with a zero in it stands for the sensor's.
RawInfo(conf, active) ==
  [conf.raw EXCEPT !.size = IF 0 \notin {@[1], @[2]} THEN @ ELSE active,
                   !.format = conf.rawformat]

\* Pictures beside a video only up to 60 frames per second.
VideoTestStreams(conf, active) ==
  PreviewVideoStreams(conf)
  \o (IF VideoMode(MaxFps(conf)) <= 60
      THEN <<StreamOf("SNAPSHOT", conf.snapshot, 12, 0, 1)>> ELSE <<>>)
  \o (IF VideoMode(MaxFps(conf)) <= 60 /\ conf.rawformat # 0
      THEN <<StreamOf("RAW", RawInfo(conf, active), SNAPSHOT_STREAM_BUFFER_MAX,
                      0, 1)>> ELSE <<>>)

DepthStreams(conf) ==
  <<Continuous("DEPTH", conf.depth, PREVIEW_STREAM_BUFFER_MAX)>>
  \o (IF conf.irbg_enabled
      THEN <<Continuous("IRBG", conf.irbg, PREVIEW_STREAM_BUFFER_MAX)>> ELSE <<>>)

Streams(class, conf, active) ==
  CASE class = "PREVIEW"            -> PreviewStreams(conf)
    [] class = "SNAPSHOT"           -> PreviewSnapshotStreams(conf)
    [] class = "PREVIEW_VIDEO_ONLY" -> PreviewVideoStreams(conf)
    [] class = "VIDEO_ONLY"         -> VideoOnlyStreams(conf)
    [] class = "VIDEO"              -> VideoTestStreams(conf, active)
    [] class = "DEPTH"              -> DepthStreams(conf)

----------------------------------------------------------------------------
(* Configuration: the HAL's characteristics are a record of its output     *)
(* streams, its sensor modes and the size of its sensor.                   *)

\* get_valid_output_streams: the exact format and size must be on the list.
Valid(s, hal) == <<s.format, s.size>> \in hal.outputs

\* The streams an init function asks for.  Next to a raw stream the one for
\* pictures is not checked, and neither are the raw and the IR stream.
CheckedStreams(class, streams) ==
  IF class = "VIDEO" /\ Len(streams) = 4 THEN SubSeq(streams, 1, 2)
  ELSE IF class = "DEPTH" THEN SubSeq(streams, 1, 1)
  ELSE streams

\* Otherwise the init function returns before config_streams, run() goes on
\* regardless, and its threads have no stream to work on.
Configured(class, streams, hal) ==
  \A s \in ToSet(CheckedStreams(class, streams)) : Valid(s, hal)

Large(mode, size) == mode.size[1] >= size[1] /\ mode.size[2] >= size[2]

\* A mode that is large and fast enough, and not faster than the best so far,
\* is the best.
BestMode(best, i, table, size, fps) ==
  IF Large(table[i], size) /\ table[i].fps \in fps .. best.matched_fps
  THEN [matched_fps |-> table[i].fps, sensor_mode |-> i - 1]
  ELSE best

\* What the loop over the table has found after each number of modes.
ModeSearch(table, size, fps) ==
  LET best[i \in 0 .. Len(table)] ==
        IF i = 0 THEN [matched_fps |-> 480, sensor_mode |-> -1]
                 ELSE BestMode(best[i - 1], i, table, size, fps)
  IN best

\* select_operate_mode: the index of the slowest mode that will do, and of those
\* the last; -1 if there is none.
SensorMode(table, size, fps) == ModeSearch(table, size, fps)[Len(table)].sensor_mode

Pixels(s) == s.size[1] * s.size[2]

\* The first of the largest streams.
LargestStream(streams) ==
  streams[SelectInSeq(streams, LAMBDA s :
            \A t \in ToSet(streams) : Pixels(s) >= Pixels(t))]

\* What an operation mode says: the kind, and the sensor modes (counted from
\* 1) whose numbers are combined in its bits 16 and up.  Mode 0 of the table
\* is never asked for.
VideoOperationMode(class, conf, streams, hal) ==
  IF class \in VideoClasses /\ VideoMode(MaxFps(conf)) >= 60
  THEN LET mode == SensorMode(hal.modes, LargestStream(streams).size, MaxFps(conf))
       IN [kind |-> "high_speed", sensor |-> IF mode > 0 THEN {mode + 1} ELSE {}]
  ELSE [kind |-> IF class = "DEPTH" THEN "depth" ELSE "normal", sensor |-> {}]

\* config_streams adds the mode of a time-of-flight sensor, and forceopmode
\* replaces it all.
OperationMode(class, conf, streams, hal) ==
  LET video == VideoOperationMode(class, conf, streams, hal)
      tof   == conf.range_mode * 5 + conf.image_type + 1
  IN CASE conf.force_opmode # 0 -> [kind |-> "forced", sensor |-> {}]
       [] conf.force_opmode = 0 /\ -1 \notin {conf.range_mode, conf.image_type} ->
            [video EXCEPT !.sensor = @ \cup {tof}]
       [] OTHER -> video

----------------------------------------------------------------------------
(* A case *)

\* Constructor, pre_init_stream and run() up to the start of the threads.
NewCase(class, conf, hal) ==
  LET streams == Streams(class, conf, hal.active)
      ready   == Configured(class, streams, hal)
  IN [class |-> class, conf |-> conf,
      streams |-> IF ready THEN streams ELSE <<>>,
      operation_mode |-> IF ready THEN OperationMode(class, conf, streams, hal)
                                  ELSE [kind |-> "none", sensor |-> {}]]

\* A pool covers the window of requests in flight: a stream that is in every
\* request never waits for a buffer while the HAL holds no more than it may.
PoolsCoverWindow(case) ==
  \A s \in ToSet(case.streams) :
    s.request_number = REQUEST_NUMBER_UMLIMIT /\ s.skip_pattern = 1
      => s.max_buffers >= LivingRequestMax(case.class, case.conf)

\* A sensor mode that is asked for can do what the stream needs, and no slower
\* mode of the table could.
SensorModeFits(case, hal) ==
  case.class \in VideoClasses /\ case.operation_mode.kind = "high_speed"
  /\ case.conf.range_mode = -1 =>
    \A m \in case.operation_mode.sensor :
      LET size == LargestStream(case.streams).size
          able == {i \in DOMAIN hal.modes :
                     /\ Large(hal.modes[i], size)
                     /\ hal.modes[i].fps >= MaxFps(case.conf)}
      IN m \in able /\ \A i \in able : hal.modes[m].fps <= hal.modes[i].fps
=============================================================================
