---------------------------- MODULE CaseProofs ------------------------------
(***************************************************************************)
(* Facts about TestConfig and TestCases, for orders and tables of any      *)
(* length: what the loop over the options keeps, and what the search for a *)
(* sensor mode finds.                                                      *)
(***************************************************************************)
EXTENDS TestCases, SequenceTheorems, LoopProofs

----------------------------------------------------------------------------
(* The loop over the options *)

Start(conf) == [conf |-> conf, mode_config |-> {}, err_found |-> FALSE]

\* The loop does what its definition says.
LEMMA ReadingIs ==
  ASSUME NEW conf, NEW order, Len(order) \in Nat
  PROVE  /\ Reading(conf, order)[0] = Start(conf)
         /\ \A i \in 1 .. Len(order) :
              Reading(conf, order)[i] = ReadOption(Reading(conf, order)[i - 1], order[i])
<1> DEFINE n == Len(order)
           Rounds(f, m) == [i \in 0 .. m |-> IF i = 0 THEN Start(conf)
                                             ELSE ReadOption(f[i - 1], order[i])]
           Ready(m) == \E f : f = Rounds(f, m)
           S == {m \in 0 .. n : Ready(m)}
<1>1. Ready(0)
  <2> DEFINE f == [i \in 0 .. 0 |-> Start(conf)]
  <2>1. f = Rounds(f, 0)
    OBVIOUS
  <2> HIDE DEF f
  <2> WITNESS f
  <2> QED
    BY <2>1
<1>2. ASSUME NEW m \in 1 .. n, Ready(m - 1) PROVE Ready(m)
  <2>1. PICK f : f = Rounds(f, m - 1)
    BY <1>2
  <2> DEFINE g == [i \in 0 .. m |-> IF i = m THEN ReadOption(f[m - 1], order[m]) ELSE f[i]]
  <2>2. \A i \in 0 .. m - 1 : g[i] = f[i]
    OBVIOUS
  <2>3. \A i \in 0 .. m : g[i] = IF i = 0 THEN Start(conf) ELSE ReadOption(g[i - 1], order[i])
    <3> SUFFICES ASSUME NEW i \in 0 .. m
                 PROVE  g[i] = IF i = 0 THEN Start(conf) ELSE ReadOption(g[i - 1], order[i])
      OBVIOUS
    <3>1. CASE i = m
      BY <2>2, <3>1
    <3>2. CASE i # m
      <4>1. i \in 0 .. m - 1 /\ (i # 0 => i - 1 \in 0 .. m - 1)
        BY <3>2
      <4>2. f[i] = IF i = 0 THEN Start(conf) ELSE ReadOption(f[i - 1], order[i])
        BY <2>1, <4>1
      <4> QED
        BY <2>2, <4>1, <4>2
    <3> QED
      BY <3>1, <3>2
  <2>4. g = Rounds(g, m)
    BY <2>3
  <2> HIDE DEF g
  <2> WITNESS g
  <2> QED
    BY <2>4
<1>3. Ready(n)
  <2> HIDE DEF Ready
  <2>1. 0 .. n \subseteq S
    <3>1. 0 \in S
      BY <1>1
    <3>2. \A m \in 1 .. n : m - 1 \in S => m \in S
      BY <1>2
    <3> HIDE DEF S
    <3> QED
      BY <3>1, <3>2, LoopKeeps
  <2> QED
    BY <2>1
<1> DEFINE a == Reading(conf, order)
<1>4. a = Rounds(a, n)
  BY <1>3 DEF Reading, Start
<1> QED
  BY <1>4

----------------------------------------------------------------------------
(* One option *)

Infos == {"preview", "snapshot", "video", "raw", "depth", "irbg"}

\* The fields of a configuration.
WellFormed(conf) ==
  /\ conf = [f \in DOMAIN DefaultConfig |-> conf[f]]
  /\ \A s \in Infos : DOMAIN conf[s] = DOMAIN StreamInfo0
  /\ conf.fps_range \in Int \X Int

LEMMA DefaultWellFormed ==
  /\ WellFormed(DefaultConfig)
  /\ DefaultConfig.test_mode = "none" /\ DefaultConfig.rawformat = 0
  /\ DefaultConfig.preview.size = NoSize /\ DefaultConfig.snapshot.size = NoSize
  /\ DefaultConfig.video.size = NoSize
BY DEF WellFormed, DefaultConfig, Infos, StreamInfo0

\* What an option does to the fields that matter below.
OptionDoes(conf, o, new) ==
  /\ WellFormed(new)
  /\ new.test_mode = conf.test_mode
  /\ new.camera_id = IF o.opt = "id" THEN o.value ELSE conf.camera_id
  /\ o.opt # "enableRawFormat" => new.rawformat = conf.rawformat
  /\ new.preview.size = IF o.opt = "psize" THEN o.value ELSE conf.preview.size
  /\ new.snapshot.size = IF o.opt = "ssize" THEN o.value ELSE conf.snapshot.size
  /\ new.video.size = IF o.opt = "vsize" THEN o.value ELSE conf.video.size

LEMMA OptionRead ==
  ASSUME NEW conf, WellFormed(conf), NEW o \in Options
  PROVE  OptionDoes(conf, o, WithOption(conf, o))
<1> DEFINE new == WithOption(conf, o)
<1> USE DEF OptionDoes
<1> DEFINE Sizes == {"psize", "ssize", "vsize", "rawsize", "tofdepthsize", "tofirsize"}
           Words == {"pformat", "sformat", "vformat", "tofdepthformat"}
           Numbers == {"id", "forceopmode", "enableRawFormat", "tofmode", "tofimageype"}
<1>0. DOMAIN SizeOf = Sizes /\ DOMAIN FormatStreams = Words /\ DOMAIN NumberOf = Numbers
  BY DEF SizeOf, FormatStreams, NumberOf
<1>a. \A f : f \in DOMAIN conf <=> f \in DOMAIN DefaultConfig
  BY DEF WellFormed
<1>b. DOMAIN DefaultConfig = Infos \cup
        {"camera_id", "test_mode", "fps_range", "irbg_enabled", "rawformat",
         "range_mode", "image_type", "force_opmode"}
  BY DEF DefaultConfig, Infos
<1>1. CASE o.opt \in Sizes
  <2> DEFINE s == SizeOf[o.opt]
             format == CASE o.opt = "vsize"   -> "YCBCR_420_888"
                         [] o.opt = "rawsize" -> "RAW10"
                         [] OTHER             -> conf[s].format
             info == [[conf[s] EXCEPT !.size = o.value] EXCEPT !.format = format]
             enabled == conf.irbg_enabled \/ o.opt = "tofirsize"
  <2>1. s \in Infos
        /\ (s = "preview" <=> o.opt = "psize") /\ (s = "snapshot" <=> o.opt = "ssize")
        /\ (s = "video" <=> o.opt = "vsize")
    BY <1>1 DEF SizeOf, Infos
  <2>2. new = WithSize(conf, o)
    BY <1>0, <1>1 DEF WithOption
  <2>3. new = [conf EXCEPT ![s].size = o.value, ![s].format = format,
                           !.irbg_enabled = enabled]
    BY <2>2 DEF WithSize
  <2> HIDE DEF s, format, enabled, new
  <2>4. new = [f \in DOMAIN DefaultConfig |-> IF f = s THEN info
                     ELSE IF f = "irbg_enabled" THEN enabled ELSE conf[f]]
    BY <2>1, <2>3, <1>b DEF WellFormed, Infos
  <2>5. info.size = o.value /\ DOMAIN info = DOMAIN StreamInfo0
    BY <2>1 DEF WellFormed, StreamInfo0
  <2> HIDE DEF info
  <2> QED
    BY <1>1, <1>b, <2>1, <2>4, <2>5 DEF WellFormed, Infos, new
<1>2. CASE o.opt \in Words
  <2> DEFINE Info(f) == [conf[f] EXCEPT
                 !.format = IF o.value \in KnownFormats[o.opt]
                            THEN FormatOf[o.value] ELSE @,
                 !.template = TemplateAfter(o, @)]
  <2>1. new = WithFormat(conf, o)
    BY <1>0, <1>2 DEF WithOption
  <2>2. new = [f \in DOMAIN DefaultConfig |->
                 IF f \in FormatStreams[o.opt] THEN Info(f) ELSE conf[f]]
    BY <2>1, <1>a DEF WithFormat, WellFormed
  <2>3. FormatStreams[o.opt] \subseteq Infos
    BY <1>2 DEF FormatStreams, Infos
  <2>4. \A f \in Infos : Info(f).size = conf[f].size /\ DOMAIN Info(f) = DOMAIN StreamInfo0
    BY DEF WellFormed, StreamInfo0
  <2> HIDE DEF Info, new
  <2> QED
    BY <1>2, <1>b, <2>2, <2>3, <2>4 DEF WellFormed, Infos, new
<1>3. CASE o.opt = "fpsrange"
  <2>1. new = WithFpsRange(conf, o)
    BY <1>0, <1>3 DEF WithOption
  <2>2. o.value \in Int \X Int
    BY <1>0, <1>3 DEF Options
  <2>3. \E r \in Int \X Int : new = [conf EXCEPT !.fps_range = r]
    BY <2>1, <2>2 DEF WithFpsRange
  <2> HIDE DEF new
  <2> QED
    BY <1>3, <1>b, <2>3 DEF WellFormed, Infos, new
<1>4. CASE o.opt \in Numbers
  <2>1. new = [conf EXCEPT ![NumberOf[o.opt]] = o.value]
    BY <1>0, <1>4 DEF WithOption
  <2>2. /\ NumberOf[o.opt] \in {"camera_id", "force_opmode", "rawformat", "range_mode",
                               "image_type"}
        /\ NumberOf[o.opt] = "camera_id" <=> o.opt = "id"
        /\ NumberOf[o.opt] = "rawformat" <=> o.opt = "enableRawFormat"
    BY <1>4 DEF NumberOf
  <2> DEFINE k == NumberOf[o.opt]
  <2> HIDE DEF new, k
  <2>3. new = [f \in DOMAIN DefaultConfig |-> IF f = k THEN o.value ELSE conf[f]]
    BY <1>b, <2>1, <2>2 DEF WellFormed, k
  <2> QED
    BY <1>4, <1>b, <2>2, <2>3 DEF WellFormed, Infos, new, k
<1> QED
  BY <1>0, <1>1, <1>2, <1>3, <1>4 DEF Options

----------------------------------------------------------------------------
(* The options of an order *)

\* What is known when i options have been read.
ReadInv(conf, order, Ids, acc, i) ==
  /\ DOMAIN acc = {"conf", "mode_config", "err_found"}
  /\ WellFormed(acc.conf)
  /\ \/ acc.conf.camera_id \in Ids
     \/ /\ acc.conf.camera_id = conf.camera_id
        /\ acc.err_found \/ \A j \in 1 .. i : order[j].opt # "id"
  /\ "PREVIEW" \in acc.mode_config \/ acc.conf.preview.size = conf.preview.size
  /\ "SNAPSHOT" \in acc.mode_config \/ acc.conf.snapshot.size = conf.snapshot.size
  /\ "VIDEO" \in acc.mode_config \/ acc.conf.video.size = conf.video.size

LEMMA ReadStep ==
  ASSUME NEW conf, NEW order \in Seq(Options), NEW Ids,
         \A i \in DOMAIN order : order[i].opt = "id" => order[i].value \in Ids,
         NEW i \in 1 .. Len(order), NEW acc, ReadInv(conf, order, Ids, acc, i - 1)
  PROVE  ReadInv(conf, order, Ids, ReadOption(acc, order[i]), i)
<1> DEFINE o == order[i]
           new == ReadOption(acc, o)
<1>1. o \in Options /\ i \in DOMAIN order
  OBVIOUS
<1>2. CASE acc.err_found \/ Refused(o)
  <2>1. new = [acc EXCEPT !.err_found = TRUE]
    BY <1>2 DEF ReadOption
  <2>2. /\ DOMAIN new = DOMAIN acc /\ new.err_found = TRUE
        /\ new.conf = acc.conf /\ new.mode_config = acc.mode_config
    BY <2>1 DEF ReadInv
  <2> HIDE DEF new
  <2> QED
    BY <2>2 DEF ReadInv, new
<1>3. CASE ~(acc.err_found \/ Refused(o))
  <2> DEFINE c == WithOption(acc.conf, o)
             bits == IF o.opt \in DOMAIN ModeBit
                     THEN acc.mode_config \cup ModeBit[o.opt] ELSE acc.mode_config
  <2>1. new = [acc EXCEPT !.conf = c, !.mode_config = bits]
    BY <1>3 DEF ReadOption
  <2>2. /\ DOMAIN new = DOMAIN acc /\ new.err_found = acc.err_found
        /\ new.conf = c /\ new.mode_config = bits
    BY <2>1 DEF ReadInv
  <2>3. OptionDoes(acc.conf, o, c)
    BY <1>1, OptionRead DEF ReadInv
  <2>4. /\ acc.mode_config \subseteq bits
        /\ o.opt = "psize" => "PREVIEW" \in bits
        /\ o.opt = "ssize" => "SNAPSHOT" \in bits
        /\ o.opt = "vsize" => "VIDEO" \in bits
    BY DEF ModeBit
  <2>5. 1 .. i = (1 .. i - 1) \cup {i}
    OBVIOUS
  <2> HIDE DEF new, c, bits
  <2>6. ReadInv(conf, order, Ids, new, i)
    BY <1>1, <1>3, <2>2, <2>3, <2>4, <2>5 DEF ReadInv, OptionDoes
  <2> QED
    BY <2>6 DEF new
<1> QED
  BY <1>2, <1>3

LEMMA ReadAll ==
  ASSUME NEW conf, WellFormed(conf), NEW order \in Seq(Options), NEW Ids,
         \A i \in DOMAIN order : order[i].opt = "id" => order[i].value \in Ids
  PROVE  LET end == Reading(conf, order)[Len(order)]
         IN ReadInv(conf, order, Ids, end, Len(order))
<1> DEFINE n == Len(order)
           after == Reading(conf, order)
           Inv(i) == ReadInv(conf, order, Ids, after[i], i)
           S == {i \in 0 .. n : Inv(i)}
<1>1. n \in Nat
  OBVIOUS
<1>2. after[0] = Start(conf) /\ \A i \in 1 .. n : after[i] = ReadOption(after[i - 1], order[i])
  BY <1>1, ReadingIs
<1> HIDE DEF after
<1>3. Inv(0)
  BY <1>2 DEF Start, ReadInv
<1>4. ASSUME NEW i \in 1 .. n, Inv(i - 1) PROVE Inv(i)
  BY <1>2, <1>4, ReadStep
<1>5. Inv(n)
  <2> HIDE DEF Inv
  <2>1. 0 \in S /\ \A i \in 1 .. n : i - 1 \in S => i \in S
    BY <1>1, <1>3, <1>4
  <2> HIDE DEF S
  <2>2. 0 .. n \subseteq S
    BY <1>1, <2>1, LoopKeeps
  <2> QED
    BY <1>1, <2>2 DEF S
<1> QED
  BY <1>5 DEF after

\* The classes of case.
TestModes == {"PREVIEW", "SNAPSHOT", "PREVIEW_VIDEO_ONLY", "VIDEO", "VIDEO_ONLY", "DEPTH"}

LEMMA ModeOfSizes ==
  ASSUME NEW bits \in DOMAIN TestMode
  PROVE  /\ TestMode[bits] \in TestModes
         /\ TestMode[bits] \in {"PREVIEW", "SNAPSHOT", "DEPTH"} => "VIDEO" \notin bits
         /\ TestMode[bits] \in {"PREVIEW", "PREVIEW_VIDEO_ONLY", "VIDEO_ONLY", "DEPTH"} =>
              "SNAPSHOT" \notin bits
         /\ TestMode[bits] \in {"VIDEO_ONLY", "DEPTH"} => "PREVIEW" \notin bits
<1>1. TestMode[bits] \in DOMAIN SizesFor /\ SizesFor[TestMode[bits]] = bits
  BY DEF TestMode
<1>2. DOMAIN SizesFor = TestModes
  BY DEF SizesFor, TestModes
<1> QED
  BY <1>1, <1>2 DEF SizesFor, TestModes

\* The sizes that were given are those of the mode.
SizesOfMode(conf) ==
  /\ conf.test_mode \in {"PREVIEW", "SNAPSHOT", "DEPTH"} => conf.video.size = NoSize
  /\ conf.test_mode \in {"PREVIEW", "PREVIEW_VIDEO_ONLY", "VIDEO_ONLY", "DEPTH"} =>
       conf.snapshot.size = NoSize
  /\ conf.test_mode \in {"VIDEO_ONLY", "DEPTH"} => conf.preview.size = NoSize

\* An order read into a configuration.
LEMMA OrderRead ==
  ASSUME NEW conf, WellFormed(conf), NEW order \in Seq(Options), NEW Ids,
         \A i \in DOMAIN order : order[i].opt = "id" => order[i].value \in Ids
  PROVE  LET new == ParseAdd(conf, order).conf
         IN /\ WellFormed(new)
            /\ new.camera_id \in Ids \cup {conf.camera_id}
<1> DEFINE end == Reading(conf, order)[Len(order)]
           new == ParseAdd(conf, order).conf
<1>1. ReadInv(conf, order, Ids, end, Len(order))
  BY ReadAll
<1>2. \/ new = end.conf
      \/ new = [end.conf EXCEPT !.test_mode = TestMode[end.mode_config]]
  BY DEF ParseAdd
<1> HIDE DEF end, new
<1>3. \A f \in DOMAIN DefaultConfig \ {"test_mode"} : new[f] = end.conf[f]
  BY <1>1, <1>2 DEF ReadInv, WellFormed
<1>4. new = [f \in DOMAIN DefaultConfig |-> new[f]]
  BY <1>1, <1>2 DEF ReadInv, WellFormed
<1>5. Infos \cup {"camera_id", "fps_range", "rawformat"} \subseteq
        DOMAIN DefaultConfig \ {"test_mode"}
  BY DEF Infos, DefaultConfig
<1>6. WellFormed(new)
  BY <1>1, <1>3, <1>4, <1>5 DEF ReadInv, WellFormed
<1>7. new.camera_id = end.conf.camera_id
  BY <1>3, <1>5
<1> QED
  BY <1>1, <1>6, <1>7 DEF ReadInv, new

\* An accepted order, read into the default configuration.
LEMMA OrderAccepted ==
  ASSUME NEW order \in Seq(Options), NEW Ids, ParseAdd(DefaultConfig, order).ok,
         \A i \in DOMAIN order : order[i].opt = "id" => order[i].value \in Ids,
         \E i \in DOMAIN order : order[i].opt = "id"
  PROVE  LET new == ParseAdd(DefaultConfig, order).conf
         IN /\ new.camera_id \in Ids
            /\ new.test_mode \in TestModes
            /\ SizesOfMode(new)
<1> DEFINE conf == DefaultConfig
           end == Reading(conf, order)[Len(order)]
           new == ParseAdd(conf, order).conf
<1>1. ReadInv(conf, order, Ids, end, Len(order))
  BY ReadAll, DefaultWellFormed
<1>2. /\ new = [end.conf EXCEPT !.test_mode = TestMode[end.mode_config]]
      /\ end.mode_config \in DOMAIN TestMode /\ ~end.err_found
  BY DEF ParseAdd
<1> HIDE DEF end, new
<1>3. /\ \A f \in DOMAIN DefaultConfig \ {"test_mode"} : new[f] = end.conf[f]
      /\ new.test_mode = TestMode[end.mode_config]
  BY <1>1, <1>2 DEF ReadInv, WellFormed, DefaultConfig
<1>4. {"camera_id", "preview", "snapshot", "video"} \subseteq
        DOMAIN DefaultConfig \ {"test_mode"}
  BY DEF DefaultConfig
<1>5. /\ new.camera_id = end.conf.camera_id /\ new.preview = end.conf.preview
      /\ new.snapshot = end.conf.snapshot /\ new.video = end.conf.video
  BY <1>3, <1>4
<1>6. new.camera_id \in Ids
  BY <1>1, <1>2, <1>5 DEF ReadInv
<1>7. SizesOfMode(new) /\ new.test_mode \in TestModes
  BY <1>1, <1>2, <1>3, <1>5, ModeOfSizes, DefaultWellFormed DEF ReadInv, SizesOfMode
<1> QED
  BY <1>6, <1>7 DEF new

----------------------------------------------------------------------------
(* The search for a sensor mode *)

NoMode == [matched_fps |-> 480, sensor_mode |-> -1]

LEMMA ModeSearchIs ==
  ASSUME NEW table, Len(table) \in Nat, NEW size, NEW fps
  PROVE  /\ ModeSearch(table, size, fps)[0] = NoMode
         /\ \A i \in 1 .. Len(table) :
              ModeSearch(table, size, fps)[i] =
                BestMode(ModeSearch(table, size, fps)[i - 1], i, table, size, fps)
<1> DEFINE n == Len(table)
           Best(b, i) == BestMode(b, i, table, size, fps)
           Rounds(f, m) == [i \in 0 .. m |-> IF i = 0 THEN NoMode ELSE Best(f[i - 1], i)]
           Ready(m) == \E f : f = Rounds(f, m)
           S == {m \in 0 .. n : Ready(m)}
<1> HIDE DEF Best
<1>1. Ready(0)
  <2> DEFINE f == [i \in 0 .. 0 |-> NoMode]
  <2>1. f = Rounds(f, 0)
    OBVIOUS
  <2> HIDE DEF f
  <2> WITNESS f
  <2> QED
    BY <2>1
<1>2. ASSUME NEW m \in 1 .. n, Ready(m - 1) PROVE Ready(m)
  <2>1. PICK f : f = Rounds(f, m - 1)
    BY <1>2
  <2> DEFINE g == [i \in 0 .. m |-> IF i = m THEN Best(f[m - 1], m) ELSE f[i]]
  <2>2. \A i \in 0 .. m - 1 : g[i] = f[i]
    OBVIOUS
  <2>3. \A i \in 0 .. m : g[i] = IF i = 0 THEN NoMode ELSE Best(g[i - 1], i)
    <3> SUFFICES ASSUME NEW i \in 0 .. m
                 PROVE  g[i] = IF i = 0 THEN NoMode ELSE Best(g[i - 1], i)
      OBVIOUS
    <3>1. CASE i = m
      BY <2>2, <3>1
    <3>2. CASE i # m
      <4>1. i \in 0 .. m - 1 /\ (i # 0 => i - 1 \in 0 .. m - 1)
        BY <3>2
      <4>2. f[i] = IF i = 0 THEN NoMode ELSE Best(f[i - 1], i)
        BY <2>1, <4>1
      <4> QED
        BY <2>2, <4>1, <4>2
    <3> QED
      BY <3>1, <3>2
  <2>4. g = Rounds(g, m)
    BY <2>3
  <2> HIDE DEF g
  <2> WITNESS g
  <2> QED
    BY <2>4
<1>3. Ready(n)
  <2> HIDE DEF Ready
  <2>1. 0 \in S /\ \A m \in 1 .. n : m - 1 \in S => m \in S
    BY <1>1, <1>2
  <2> HIDE DEF S
  <2>2. 0 .. n \subseteq S
    BY <2>1, LoopKeeps
  <2> QED
    BY <2>2 DEF S
<1> DEFINE a == ModeSearch(table, size, fps)
<1>4. a = Rounds(a, n)
  BY <1>3 DEF ModeSearch, NoMode, Best
<1> QED
  BY <1>4 DEF Best

\* The modes that are large and fast enough for a stream.
Able(table, size, fps, i) == Large(table[i], size) /\ table[i].fps >= fps

\* The tables of sensor modes.
Modes == [size : Int \X Int, fps : Int]
Tables == Seq(Modes)

LEMMA TableTypes ==
  ASSUME NEW table \in Tables
  PROVE  /\ Len(table) \in Nat /\ DOMAIN table = 1 .. Len(table)
         /\ \A i \in 1 .. Len(table) : table[i].fps \in Int
<1>1. Len(table) \in Nat /\ DOMAIN table = 1 .. Len(table)
  BY DEF Tables
<1>2. ASSUME NEW i \in 1 .. Len(table) PROVE table[i].fps \in Int
  <2>1. table[i] \in Modes
    BY DEF Tables
  <2> QED
    BY <2>1 DEF Modes
<1> QED
  BY <1>1, <1>2

\* What is known when i modes have been looked at.
SearchInv(table, size, fps, best, i) ==
  /\ best.matched_fps \in Int /\ best.matched_fps <= 480
  /\ best.sensor_mode = -1 \/
       /\ best.sensor_mode \in 0 .. i - 1
       /\ Able(table, size, fps, best.sensor_mode + 1)
       /\ table[best.sensor_mode + 1].fps = best.matched_fps
  /\ \A j \in 1 .. i : Able(table, size, fps, j) /\ table[j].fps <= 480 =>
       best.matched_fps <= table[j].fps

LEMMA SearchStep ==
  ASSUME NEW table \in Tables, NEW size, NEW fps \in Int, NEW best,
         NEW i \in 1 .. Len(table), SearchInv(table, size, fps, best, i - 1)
  PROVE  SearchInv(table, size, fps, BestMode(best, i, table, size, fps), i)
<1> DEFINE new == BestMode(best, i, table, size, fps)
           this == table[i].fps
           Fps(j) == table[j].fps
           A(j) == Able(table, size, fps, j)
<1>1. this \in Int /\ 1 .. i = (1 .. i - 1) \cup {i} /\ i \in Int
      /\ \A j \in 1 .. i - 1 : Fps(j) \in Int
  BY TableTypes
<1>2. best.matched_fps \in Int /\ best.matched_fps <= 480
  BY DEF SearchInv
<1>3. \A j \in 1 .. i - 1 : A(j) /\ Fps(j) <= 480 => best.matched_fps <= Fps(j)
  BY DEF SearchInv
<1>4. CASE Large(table[i], size) /\ this \in fps .. best.matched_fps
  <2>1. new.matched_fps = this /\ new.sensor_mode = i - 1
    BY <1>4 DEF BestMode
  <2>2. A(i) /\ this <= best.matched_fps
    BY <1>1, <1>2, <1>4 DEF Able
  <2> HIDE DEF new, A, Fps, this
  <2>3. \A j \in 1 .. i - 1 : A(j) /\ Fps(j) <= 480 => this <= Fps(j)
    BY <1>1, <1>2, <1>3, <2>2
  <2>4. \A j \in 1 .. i : A(j) /\ Fps(j) <= 480 => new.matched_fps <= Fps(j)
    BY <1>1, <2>1, <2>3 DEF this, Fps
  <2>5. /\ i - 1 \in 0 .. i - 1 /\ A(new.sensor_mode + 1)
        /\ Fps(new.sensor_mode + 1) = new.matched_fps
    <3>1. new.sensor_mode + 1 = i
      BY <2>1
    <3> QED
      BY <2>1, <2>2, <3>1 DEF Fps, this
  <2>6. new.matched_fps \in Int /\ new.matched_fps <= 480
    BY <1>1, <1>2, <2>1, <2>2
  <2> QED
    BY <2>1, <2>4, <2>5, <2>6 DEF SearchInv, A, Fps, new
<1>5. CASE ~(Large(table[i], size) /\ this \in fps .. best.matched_fps)
  <2>1. new = best
    BY <1>5 DEF BestMode
  <2>2. A(i) => best.matched_fps <= this
    BY <1>1, <1>2, <1>5 DEF Able
  <2> HIDE DEF new, A, Fps, this
  <2>3. \A j \in 1 .. i : A(j) /\ Fps(j) <= 480 => best.matched_fps <= Fps(j)
    BY <1>1, <1>3, <2>2 DEF this, Fps
  <2>4. 0 .. i - 1 - 1 \subseteq 0 .. i - 1
    BY <1>1
  <2> QED
    BY <1>2, <2>1, <2>3, <2>4 DEF SearchInv, A, Fps, new
<1> QED
  BY <1>4, <1>5

\* A mode that is found will do, and none of the table that would do is slower.
LEMMA SensorModeIs ==
  ASSUME NEW table \in Tables, NEW size, NEW fps \in Int,
         SensorMode(table, size, fps) # -1
  PROVE  LET m == SensorMode(table, size, fps) + 1
         IN /\ m \in DOMAIN table /\ Able(table, size, fps, m)
            /\ \A i \in DOMAIN table :
                 Able(table, size, fps, i) => table[m].fps <= table[i].fps
<1> DEFINE n == Len(table)
           found == ModeSearch(table, size, fps)
           Inv(i) == SearchInv(table, size, fps, found[i], i)
           S == {i \in 0 .. n : Inv(i)}
<1>1. n \in Nat /\ DOMAIN table = 1 .. n /\ \A i \in 1 .. n : table[i].fps \in Int
  BY TableTypes
<1>2. /\ found[0] = NoMode
      /\ \A i \in 1 .. n : found[i] = BestMode(found[i - 1], i, table, size, fps)
  BY <1>1, ModeSearchIs
<1>3. SensorMode(table, size, fps) = found[n].sensor_mode
  BY DEF SensorMode
<1> HIDE DEF found
<1>4. Inv(0)
  BY <1>2 DEF NoMode, SearchInv
<1>5. ASSUME NEW i \in 1 .. n, Inv(i - 1) PROVE Inv(i)
  BY <1>2, <1>5, SearchStep
<1>6. Inv(n)
  <2> HIDE DEF Inv
  <2>1. 0 \in S /\ \A i \in 1 .. n : i - 1 \in S => i \in S
    BY <1>1, <1>4, <1>5
  <2> HIDE DEF S
  <2>2. 0 .. n \subseteq S
    BY <1>1, <2>1, LoopKeeps
  <2> QED
    BY <1>1, <2>2 DEF S
<1> DEFINE best == found[n]
           m == best.sensor_mode + 1
           Fps(j) == table[j].fps
           A(j) == Able(table, size, fps, j)
<1>b. /\ best.sensor_mode # -1
      /\ SearchInv(table, size, fps, best, n)
  BY <1>3, <1>6
<1> HIDE DEF best
<1>7. m \in 1 .. n /\ A(m) /\ Fps(m) = best.matched_fps /\ Fps(m) <= 480
      /\ \A j \in 1 .. n : A(j) /\ Fps(j) <= 480 => Fps(m) <= Fps(j)
  BY <1>1, <1>b DEF SearchInv
<1> HIDE DEF m, A, Fps
<1>8. \A j \in 1 .. n : Fps(j) \in Int
  BY <1>1 DEF Fps
<1>9. \A j \in 1 .. n : A(j) => Fps(m) <= Fps(j)
  BY <1>7, <1>8
<1> QED
  BY <1>1, <1>3, <1>7, <1>9 DEF best, m, A, Fps

----------------------------------------------------------------------------
(* Frame rates and the streams of each class *)

\* The values of a video mode.
Rates == {30, 60, 90, 120, 240, 480}

LEMMA VideoModeIs ==
  ASSUME NEW fps \in Int
  PROVE  /\ VideoMode(fps) \in Rates
         /\ fps <= 60 => VideoMode(fps) <= 60
<1> DEFINE M == {m \in {60, 90, 120, 240, 480} : fps <= m}
<1>1. CASE fps \notin 31 .. 480
  BY <1>1 DEF VideoMode, Rates
<1>2. CASE fps \in 31 .. 480
  <2> DEFINE m == CHOOSE x \in M : \A y \in M : x <= y
  <2>1. VideoMode(fps) = m
    BY <1>2 DEF VideoMode, Min
  <2>2. \E x \in M : \A y \in M : x <= y
    <3>1. fps <= 60 => 60 \in M /\ \A y \in M : 60 <= y
      OBVIOUS
    <3>2. fps \in 61 .. 90 => 90 \in M /\ \A y \in M : 90 <= y
      OBVIOUS
    <3>3. fps \in 91 .. 120 => 120 \in M /\ \A y \in M : 120 <= y
      OBVIOUS
    <3>4. fps \in 121 .. 240 => 240 \in M /\ \A y \in M : 240 <= y
      OBVIOUS
    <3>5. fps \in 241 .. 480 => 480 \in M /\ \A y \in M : 480 <= y
      OBVIOUS
    <3> HIDE DEF M
    <3> QED
      BY <1>2, <3>1, <3>2, <3>3, <3>4, <3>5
  <2>3. m \in M /\ \A y \in M : m <= y
    BY <2>2
  <2>4. fps <= 60 => 60 \in M
    OBVIOUS
  <2> HIDE DEF m
  <2> QED
    BY <2>1, <2>3, <2>4 DEF Rates
<1> QED
  BY <1>1, <1>2

\* The preview skips no request up to 60 frames per second.
LEMMA SkipIs ==
  ASSUME NEW fps \in Int
  PROVE  PreviewSkip(fps) = 1 <=> VideoMode(fps) <= 60
<1>1. VideoMode(fps) \in Rates
  BY VideoModeIs
<1>2. (90 + 59) \div 60 = 2 /\ (120 + 59) \div 60 = 2 /\ (240 + 59) \div 60 = 4
      /\ (480 + 59) \div 60 = 8
  OBVIOUS
<1>3. CASE VideoMode(fps) <= 60
  BY <1>1, <1>3 DEF PreviewSkip, Rates
<1>4. CASE ~(VideoMode(fps) <= 60)
  BY <1>1, <1>2, <1>4 DEF PreviewSkip, Rates
<1> QED
  BY <1>3, <1>4

\* Appending to short tuples.
LEMMA OneMore ==
  ASSUME NEW S, NEW s \in Seq(S), NEW t \in Seq(S), NEW x \in S,
         Len(t) = Len(s) + 1, \A i \in 1 .. Len(s) : t[i] = s[i], t[Len(s) + 1] = x
  PROVE  s \o <<x>> = t
<1>1. s \o <<x>> = Append(s, x)
  BY AppendIsConcat
<1>2. Append(s, x) \in Seq(S) /\ Len(Append(s, x)) = Len(t)
  OBVIOUS
<1>3. \A i \in 1 .. Len(t) : Append(s, x)[i] = t[i]
  OBVIOUS
<1> QED
  BY <1>1, <1>2, <1>3, SeqEqual

LEMMA Appended ==
  ASSUME NEW a, NEW b, NEW c, NEW d
  PROVE  /\ <<a>> \o <<b>> = <<a, b>> /\ <<a>> \o <<>> = <<a>>
         /\ <<a, b>> \o <<c>> = <<a, b, c>> /\ <<a, b>> \o <<>> = <<a, b>>
         /\ <<a, b, c>> \o <<d>> = <<a, b, c, d>>
         /\ <<a, b, c>> \o <<>> = <<a, b, c>>
<1> DEFINE S == {a, b, c, d}
           one   == <<a>>
           two   == <<a, b>>
           three == <<a, b, c>>
           four  == <<a, b, c, d>>
<1>1. /\ one \in Seq(S) /\ two \in Seq(S) /\ three \in Seq(S) /\ four \in Seq(S)
      /\ b \in S /\ c \in S /\ d \in S
  OBVIOUS
<1>2. /\ Len(one) = 1 /\ one[1] = a
      /\ Len(two) = 2 /\ two[1] = a /\ two[2] = b
      /\ Len(three) = 3 /\ three[1] = a /\ three[2] = b /\ three[3] = c
      /\ Len(four) = 4 /\ four[1] = a /\ four[2] = b /\ four[3] = c /\ four[4] = d
  OBVIOUS
<1>3. /\ \A i \in 1 .. 1 : i = 1
      /\ \A i \in 1 .. 2 : i \in {1, 2}
      /\ \A i \in 1 .. 3 : i \in {1, 2, 3}
  OBVIOUS
<1> HIDE DEF S, one, two, three, four
<1>4. one \o <<>> = one /\ two \o <<>> = two /\ three \o <<>> = three
  BY <1>1, ConcatEmptySeq
<1>5. /\ Len(two) = Len(one) + 1 /\ \A i \in 1 .. Len(one) : two[i] = one[i]
      /\ two[Len(one) + 1] = b
  BY <1>2, <1>3
<1>6. /\ Len(three) = Len(two) + 1 /\ \A i \in 1 .. Len(two) : three[i] = two[i]
      /\ three[Len(two) + 1] = c
  BY <1>2, <1>3
<1>7. /\ Len(four) = Len(three) + 1 /\ \A i \in 1 .. Len(three) : four[i] = three[i]
      /\ four[Len(three) + 1] = d
  BY <1>2, <1>3
<1>8. one \o <<b>> = two
  BY <1>1, <1>5, OneMore
<1>9. two \o <<c>> = three
  BY <1>1, <1>6, OneMore
<1>10. three \o <<d>> = four
  BY <1>1, <1>7, OneMore
<1> QED
  BY <1>4, <1>8, <1>9, <1>10 DEF one, two, three, four

\* The streams of the case for video.
Picture(conf) == StreamOf("SNAPSHOT", conf.snapshot, 12, 0, 1)
RawPicture(conf, active) ==
  StreamOf("RAW", RawInfo(conf, active), SNAPSHOT_STREAM_BUFFER_MAX, 0, 1)

LEMMA VideoStreamsAre ==
  ASSUME NEW conf, NEW active
  PROVE  VideoTestStreams(conf, active) =
           IF ~(VideoMode(MaxFps(conf)) <= 60)
           THEN <<SkippedPreview(conf), VideoStream(conf)>>
           ELSE IF conf.rawformat = 0
           THEN <<SkippedPreview(conf), VideoStream(conf), Picture(conf)>>
           ELSE <<SkippedPreview(conf), VideoStream(conf), Picture(conf),
                  RawPicture(conf, active)>>
<1> DEFINE p == SkippedPreview(conf)
           v == VideoStream(conf)
           s == Picture(conf)
           r == RawPicture(conf, active)
           slow == VideoMode(MaxFps(conf)) <= 60
           ss == IF slow THEN <<s>> ELSE <<>>
           rs == IF slow /\ conf.rawformat # 0 THEN <<r>> ELSE <<>>
<1>1. VideoTestStreams(conf, active) = (<<p, v>> \o ss) \o rs
  BY DEF VideoTestStreams, PreviewVideoStreams, Picture, RawPicture
<1> HIDE DEF p, v, s, r, slow
<1>2. CASE ~slow
  <2>1. VideoTestStreams(conf, active) = <<p, v>>
    BY <1>1, <1>2, Appended
  <2> QED
    BY <1>2, <2>1 DEF p, v, slow
<1>3. CASE slow /\ conf.rawformat = 0
  <2>1. ss = <<s>> /\ rs = <<>>
    BY <1>3
  <2> HIDE DEF ss, rs
  <2>2. <<p, v>> \o ss = <<p, v, s>>
    BY ONLY <2>1, Appended, ZenonT(30)
  <2>3. <<p, v, s>> \o rs = <<p, v, s>>
    BY ONLY <2>1, Appended, ZenonT(30)
  <2>4. VideoTestStreams(conf, active) = <<p, v, s>> \o rs
    BY ONLY <1>1, <2>2, ZenonT(30)
  <2>5. VideoTestStreams(conf, active) = <<p, v, s>>
    BY ONLY <2>3, <2>4, ZenonT(30)
  <2> QED
    BY <1>3, <2>5 DEF p, v, s, slow
<1>4. CASE slow /\ conf.rawformat # 0
  <2>1. ss = <<s>> /\ rs = <<r>>
    BY <1>4
  <2> HIDE DEF ss, rs
  <2>2. <<p, v>> \o ss = <<p, v, s>>
    BY ONLY <2>1, Appended, ZenonT(30)
  <2>3. <<p, v, s>> \o rs = <<p, v, s, r>>
    BY ONLY <2>1, Appended, ZenonT(30)
  <2>4. VideoTestStreams(conf, active) = <<p, v, s>> \o rs
    BY ONLY <1>1, <2>2, ZenonT(30)
  <2>5. VideoTestStreams(conf, active) = <<p, v, s, r>>
    BY ONLY <2>3, <2>4, ZenonT(30)
  <2> QED
    BY <1>4, <2>5 DEF p, v, s, r, slow
<1> QED
  BY <1>2, <1>3, <1>4

\* The HAL has no streams of size 0.
SizedOutputs(hal) == \A output \in hal.outputs : output[2] # NoSize

\* The pool of a stream that is in every request covers the window.
Covers(s, class, conf) ==
  s.request_number = REQUEST_NUMBER_UMLIMIT /\ s.skip_pattern = 1
    => s.max_buffers >= LivingRequestMax(class, conf)

\* The window of a class.
LEMMA Limits ==
  ASSUME NEW conf, MaxFps(conf) \in Int, NEW class
  PROVE  LivingRequestMax(class, conf) =
           IF class \notin VideoClasses THEN 5
           ELSE IF VideoMode(MaxFps(conf)) <= 60 THEN 12 ELSE 40
<1>1. CASE class \notin VideoClasses
  BY <1>1 DEF LivingRequestMax, CAMX_LIVING_REQUEST_MAX
<1>2. CASE class \in VideoClasses /\ VideoMode(MaxFps(conf)) <= 60
  BY <1>2 DEF LivingRequestMax, CAMX_LIVING_REQUEST_MAX, LIVING_REQUEST_APPEND
<1>3. CASE class \in VideoClasses /\ ~(VideoMode(MaxFps(conf)) <= 60)
  BY <1>3 DEF LivingRequestMax, CAMX_LIVING_REQUEST_MAX, HFR_LIVING_REQUEST_APPEND
<1> QED
  BY <1>1, <1>2, <1>3

\* The streams of a video at any frame rate have large enough pools.
LEMMA VideoPools ==
  ASSUME NEW conf, MaxFps(conf) \in Int, NEW class \in VideoClasses
  PROVE  Covers(SkippedPreview(conf), class, conf) /\ Covers(VideoStream(conf), class, conf)
<1> DEFINE fps == MaxFps(conf)
           limit == LivingRequestMax(class, conf)
<1>1. limit = IF VideoMode(fps) <= 60 THEN 12 ELSE 40
  BY Limits
<1>2. fps <= 60 => VideoMode(fps) <= 60
  BY VideoModeIs
<1>3. PoolFor(fps, 18, 40) >= limit
  BY <1>1, <1>2 DEF PoolFor
<1>4. VideoMode(fps) <= 60 => PoolFor(fps, 12, 15) >= limit
  BY <1>1 DEF PoolFor
<1>5. PreviewSkip(fps) = 1 => PoolFor(fps, 12, 15) >= limit
  BY <1>4, SkipIs
<1> HIDE DEF fps, limit
<1>6. /\ VideoStream(conf).max_buffers = PoolFor(fps, 18, 40)
      /\ SkippedPreview(conf).max_buffers = PoolFor(fps, 12, 15)
      /\ SkippedPreview(conf).skip_pattern = PreviewSkip(fps)
  BY DEF VideoStream, SkippedPreview, Continuous, StreamOf, VIDEO_STREAM_BUFFER_MAX,
         HFR_VIDEO_STREAM_BUFFER_MAX, PREVIEW_STREAM_BUFFER_MAX,
         HFR_PREVIEW_STREAM_BUFFER_MAX, fps
<1> QED
  BY <1>3, <1>5, <1>6 DEF Covers, limit

\* So do those of every class.
LEMMA StreamsFit ==
  ASSUME NEW class \in TestModes, NEW conf, NEW active, WellFormed(conf),
         NEW s \in ToSet(Streams(class, conf, active))
  PROVE  Covers(s, class, conf)
<1>0. MaxFps(conf) \in Int
  BY DEF WellFormed, MaxFps
<1>1. CASE class \in {"PREVIEW", "SNAPSHOT"}
  <2>1. s \in ToSet(PreviewStreams(conf)) \cup ToSet(PreviewSnapshotStreams(conf))
    BY <1>1 DEF Streams
  <2>2. s.max_buffers >= 5
    BY <2>1 DEF ToSet, PreviewStreams, PreviewSnapshotStreams, Continuous, StreamOf,
                PREVIEW_STREAM_BUFFER_MAX, SNAPSHOT_STREAM_BUFFER_MAX
  <2> QED
    BY <1>0, <1>1, <2>2, Limits DEF Covers, VideoClasses
<1>2. CASE class = "DEPTH"
  <2> DEFINE d == Continuous("DEPTH", conf.depth, PREVIEW_STREAM_BUFFER_MAX)
             r == Continuous("IRBG", conf.irbg, PREVIEW_STREAM_BUFFER_MAX)
  <2>1. Streams(class, conf, active) = DepthStreams(conf)
    BY <1>2 DEF Streams
  <2>2. DepthStreams(conf) \in {<<d>>, <<d, r>>}
    <3> HIDE DEF d, r
    <3>1. DepthStreams(conf) \in {<<d>> \o <<r>>, <<d>> \o <<>>}
      BY DEF DepthStreams, d, r
    <3> QED
      BY <3>1, Appended, Zenon
  <2>3. s \in {d, r}
    <3> HIDE DEF d, r
    <3> QED
      BY <2>1, <2>2 DEF ToSet
  <2>4. s.max_buffers = 12
    BY <2>3 DEF Continuous, StreamOf, PREVIEW_STREAM_BUFFER_MAX
  <2> QED
    BY <1>0, <1>2, <2>4, Limits DEF Covers, VideoClasses
<1>3. CASE class \in {"PREVIEW_VIDEO_ONLY", "VIDEO_ONLY"}
  <2>1. s \in {SkippedPreview(conf), VideoStream(conf)}
    BY <1>3 DEF Streams, ToSet, PreviewVideoStreams, VideoOnlyStreams
  <2> QED
    BY <1>0, <1>3, <2>1, VideoPools DEF VideoClasses
<1>4. CASE class = "VIDEO"
  <2>1. s \in ToSet(VideoTestStreams(conf, active))
    BY <1>4 DEF Streams
  <2>2. s \in {SkippedPreview(conf), VideoStream(conf), Picture(conf),
               RawPicture(conf, active)}
    BY <2>1, VideoStreamsAre DEF ToSet
  <2>3. Covers(Picture(conf), class, conf) /\ Covers(RawPicture(conf, active), class, conf)
    BY DEF Covers, Picture, RawPicture, StreamOf, REQUEST_NUMBER_UMLIMIT
  <2> QED
    BY <1>0, <1>4, <2>2, <2>3, VideoPools DEF VideoClasses
<1> QED
  BY <1>1, <1>2, <1>3, <1>4 DEF TestModes

LEMMA NewCaseCovers ==
  ASSUME NEW class \in TestModes, NEW conf, NEW hal, WellFormed(conf)
  PROVE  PoolsCoverWindow(NewCase(class, conf, hal))
<1> DEFINE case == NewCase(class, conf, hal)
<1>1. /\ case.class = class /\ case.conf = conf
      /\ case.streams = <<>> \/ case.streams = Streams(class, conf, hal.active)
  BY DEF NewCase
<1>2. \A s \in ToSet(case.streams) : Covers(s, class, conf)
  BY <1>1, StreamsFit DEF ToSet
<1> HIDE DEF case
<1>3. PoolsCoverWindow(case)
  BY <1>1, <1>2 DEF PoolsCoverWindow, Covers
<1> QED
  BY <1>3 DEF case

\* A stream that is checked has a size.
LEMMA CheckedSizes ==
  ASSUME NEW class \in TestModes, NEW conf, NEW hal, SizedOutputs(hal),
         Configured(class, Streams(class, conf, hal.active), hal)
  PROVE  /\ class \notin {"VIDEO_ONLY", "DEPTH"} => conf.preview.size # NoSize
         /\ class \in VideoClasses => conf.video.size # NoSize
         /\ class = "SNAPSHOT" => conf.snapshot.size # NoSize
         /\ /\ class = "VIDEO" /\ VideoMode(MaxFps(conf)) <= 60
            /\ conf.rawformat = 0
            => conf.snapshot.size # NoSize
<1> DEFINE streams == Streams(class, conf, hal.active)
           p == SkippedPreview(conf)
           v == VideoStream(conf)
<1>1. \A s \in ToSet(CheckedStreams(class, streams)) : s.size # NoSize
  BY DEF Configured, Valid, SizedOutputs
<1>2. p.size = conf.preview.size /\ v.size = conf.video.size
  BY DEF SkippedPreview, VideoStream, Continuous, StreamOf
<1>3. CASE class \in {"PREVIEW", "SNAPSHOT", "PREVIEW_VIDEO_ONLY", "VIDEO_ONLY"}
  <2>1. CheckedStreams(class, streams) = streams
    BY <1>3 DEF CheckedStreams
  <2>2. CASE class = "PREVIEW"
    <3>1. streams = <<Continuous("PREVIEW", conf.preview, PREVIEW_STREAM_BUFFER_MAX)>>
      BY <2>2 DEF Streams, PreviewStreams
    <3> QED
      BY <1>1, <2>1, <2>2, <3>1 DEF ToSet, Continuous, StreamOf, VideoClasses
  <2>3. CASE class = "SNAPSHOT"
    <3>1. /\ DOMAIN streams = 1 .. 2 /\ streams[1].size = conf.preview.size
          /\ streams[2].size = conf.snapshot.size
      BY <2>3 DEF Streams, PreviewSnapshotStreams, Continuous, StreamOf
    <3> QED
      BY <1>1, <2>1, <2>3, <3>1 DEF ToSet, VideoClasses
  <2>4. CASE class \in {"PREVIEW_VIDEO_ONLY", "VIDEO_ONLY"}
    <3>1. streams = IF class = "VIDEO_ONLY" THEN <<v>> ELSE <<p, v>>
      BY <2>4 DEF Streams, PreviewVideoStreams, VideoOnlyStreams
    <3> HIDE DEF streams, p, v
    <3> QED
      BY <1>1, <1>2, <2>1, <2>4, <3>1 DEF ToSet, VideoClasses
  <2> QED
    BY <1>3, <2>2, <2>3, <2>4
<1>4. CASE class = "VIDEO"
  <2> DEFINE s == Picture(conf)
             r == RawPicture(conf, hal.active)
  <2>1. s.size = conf.snapshot.size
    BY DEF Picture, StreamOf
  <2>2. streams = VideoTestStreams(conf, hal.active)
    BY <1>4 DEF Streams
  <2>3. streams \in {<<p, v>>, <<p, v, s>>, <<p, v, s, r>>}
    BY <2>2, VideoStreamsAre
  <2>4. VideoMode(MaxFps(conf)) <= 60 /\ conf.rawformat = 0 => streams = <<p, v, s>>
    BY <2>2, VideoStreamsAre
  <2> HIDE DEF streams, p, v, s, r
  <2>5. CheckedStreams("VIDEO", streams) =
          IF Len(streams) = 4 THEN SubSeq(streams, 1, 2) ELSE streams
    BY DEF CheckedStreams
  <2>6. {p, v} \subseteq ToSet(CheckedStreams("VIDEO", streams))
    <3>1. CASE streams \in {<<p, v>>, <<p, v, s>>}
      <4>1. Len(streams) # 4
        BY <3>1
      <4> QED
        BY <2>5, <3>1, <4>1 DEF ToSet
    <3>2. CASE streams = <<p, v, s, r>>
      <4> DEFINE t == SubSeq(streams, 1, 2)
                 S == {p, v, s, r}
      <4>1. /\ streams \in Seq(S) /\ Len(streams) = 4
            /\ streams[1] = p /\ streams[2] = v
        BY <3>2
      <4>2. Len(t) = 2 /\ t \in Seq(S) /\ t[1] = streams[1] /\ t[2] = streams[2]
        BY <4>1, SubSeqProperties
      <4> HIDE DEF t
      <4>3. {p, v} \subseteq ToSet(t)
        BY <4>1, <4>2 DEF ToSet
      <4> QED
        BY <2>5, <4>1, <4>3 DEF t
    <3> QED
      BY <2>3, <3>1, <3>2
  <2>7. streams = <<p, v, s>> => s \in ToSet(CheckedStreams("VIDEO", streams))
    BY <2>5 DEF ToSet
  <2> QED
    BY <1>1, <1>2, <1>4, <2>1, <2>4, <2>6, <2>7
<1>5. CASE class = "DEPTH"
  BY <1>5 DEF VideoClasses
<1> QED
  BY <1>3, <1>4, <1>5 DEF TestModes

----------------------------------------------------------------------------
(* A new case *)

\* The sensor mode it asks for, if any, fits.
LEMMA NewCaseSensor ==
  ASSUME NEW class, NEW conf, NEW hal, WellFormed(conf), hal.modes \in Tables
  PROVE  SensorModeFits(NewCase(class, conf, hal), hal)
<1> DEFINE case == NewCase(class, conf, hal)
           streams == Streams(class, conf, hal.active)
           size == LargestStream(streams).size
           fps == MaxFps(conf)
           mode == SensorMode(hal.modes, size, fps)
           ready == Configured(class, streams, hal)
<1>1. fps \in Int
  BY DEF WellFormed, MaxFps
<1>2. /\ case.class = class /\ case.conf = conf
      /\ case.streams = IF ready THEN streams ELSE <<>>
      /\ case.operation_mode = IF ready THEN OperationMode(class, conf, streams, hal)
                                        ELSE [kind |-> "none", sensor |-> {}]
  BY DEF NewCase
<1> HIDE DEF case, streams, size, fps, mode, ready
<1>3. ASSUME class \in VideoClasses, case.operation_mode.kind = "high_speed",
             conf.range_mode = -1, NEW m \in case.operation_mode.sensor
      PROVE  case.streams = streams /\ mode > 0 /\ m = mode + 1
  <2> DEFINE video == VideoOperationMode(class, conf, streams, hal)
  <2>1. ready /\ case.operation_mode = OperationMode(class, conf, streams, hal)
    BY <1>2, <1>3
  <2>2. OperationMode(class, conf, streams, hal) \in {[kind |-> "forced", sensor |-> {}], video}
    BY <1>3, Zenon DEF OperationMode
  <2>3. case.operation_mode = video
    BY <1>3, <2>1, <2>2
  <2>4. video = IF class \in VideoClasses /\ VideoMode(fps) >= 60
                THEN [kind |-> "high_speed", sensor |-> IF mode > 0 THEN {mode + 1} ELSE {}]
                ELSE [kind |-> IF class = "DEPTH" THEN "depth" ELSE "normal", sensor |-> {}]
    BY DEF VideoOperationMode, mode, size, fps
  <2> HIDE DEF video
  <2> QED
    BY <1>2, <1>3, <2>1, <2>3, <2>4
<1>4. ASSUME mode > 0
      PROVE  LET able == {i \in DOMAIN hal.modes : Able(hal.modes, size, fps, i)}
             IN /\ mode + 1 \in able
                /\ \A i \in able : hal.modes[mode + 1].fps <= hal.modes[i].fps
  BY <1>1, <1>4, SensorModeIs DEF mode
<1>5. ASSUME class \in VideoClasses, case.operation_mode.kind = "high_speed",
             conf.range_mode = -1, NEW m \in case.operation_mode.sensor
      PROVE  LET s == LargestStream(case.streams).size
                 able == {i \in DOMAIN hal.modes :
                            /\ Large(hal.modes[i], s) /\ hal.modes[i].fps >= fps}
             IN m \in able /\ \A i \in able : hal.modes[m].fps <= hal.modes[i].fps
  BY <1>3, <1>4, <1>5 DEF Able, size
<1>6. SensorModeFits(case, hal)
  BY <1>2, <1>5 DEF SensorModeFits, fps
<1> QED
  BY <1>6 DEF case
=============================================================================
