----------------------------- MODULE TestConfig -----------------------------
(***************************************************************************)
(* QCamxConfig::parse_commandline_add as operators: what the options of an *)
(* A or v command make of a configuration, and which test mode they ask    *)
(* for.                                                                    *)
(*                                                                         *)
(* An order is a sequence of options in the order they are typed, each a   *)
(* record of its token and its value as read by sscanf or atoi.  The codec *)
(* and log options, which only set fields of the encoder, are left out.    *)
(***************************************************************************)
EXTENDS Integers, SequencesExt, TLC

NoSize == <<0, 0>>
StreamInfo0 == [size |-> NoSize, format |-> "none", template |-> "none"]

\* The configuration before any option; fps_range is 60-60.
DefaultConfig ==
  [camera_id |-> -1, test_mode |-> "none", fps_range |-> <<60, 60>>,
   preview |-> StreamInfo0, snapshot |-> StreamInfo0, video |-> StreamInfo0,
   raw |-> StreamInfo0, depth |-> StreamInfo0, irbg |-> StreamInfo0,
   irbg_enabled |-> FALSE, rawformat |-> 0,
   range_mode |-> -1, image_type |-> -1, force_opmode |-> 0]

----------------------------------------------------------------------------
(* Faulty variants of the definitions below: each of them replaces its     *)
(* original to see that a property notices.                                *)

TestModeIgnoresVideo ==
  {"PREVIEW"} :> "PREVIEW" @@ {"PREVIEW", "VIDEO"} :> "PREVIEW" @@
  {"PREVIEW", "SNAPSHOT"} :> "SNAPSHOT" @@ {"DEPTH"} :> "DEPTH" @@
  {"PREVIEW", "SNAPSHOT", "VIDEO"} :> "PREVIEW" @@ {"VIDEO"} :> "VIDEO_ONLY"

----------------------------------------------------------------------------
(* Options *)

\* The stream a size is for.
SizeOf == [psize |-> "preview", ssize |-> "snapshot", vsize |-> "video",
           rawsize |-> "raw", tofdepthsize |-> "depth", tofirsize |-> "irbg"]

\* The bit a size sets in mode_config.
ModeBit == [psize |-> {"PREVIEW"}, ssize |-> {"SNAPSHOT"}, vsize |-> {"VIDEO"},
            rawsize |-> {}, tofdepthsize |-> {"DEPTH"}, tofirsize |-> {"DEPTH"}]

\* A video size also resets the video format, whatever vformat said before.
WithSize(conf, o) ==
  LET s == SizeOf[o.opt]
  IN [conf EXCEPT ![s].size = o.value,
                  ![s].format = CASE o.opt = "vsize"   -> "YCBCR_420_888"
                                  [] o.opt = "rawsize" -> "RAW10"
                                  [] OTHER             -> @,
                  !.irbg_enabled = @ \/ o.opt = "tofirsize"]

FormatOf == [yuv420 |-> "YCBCR_420_888", jpeg |-> "BLOB", y16 |-> "Y16",
             raw10 |-> "RAW10", raw12 |-> "RAW12", raw16 |-> "RAW16",
             yuv_ubwc |-> "IMPLEMENTATION_DEFINED",
             yuv_ubwc_enc |-> "IMPLEMENTATION_DEFINED",
             ubwctp10 |-> "IMPLEMENTATION_DEFINED",
             p010 |-> "IMPLEMENTATION_DEFINED",
             heic |-> "IMPLEMENTATION_DEFINED"]

RawNames == {"raw10", "raw12", "raw16"}
UbwcNames == {"yuv_ubwc", "yuv_ubwc_enc"}
KnownFormats ==
  [pformat |-> RawNames \cup UbwcNames \cup {"yuv420", "y16"},
   sformat |-> RawNames \cup {"yuv420", "jpeg", "heic"},
   vformat |-> RawNames \cup UbwcNames \cup {"yuv420", "y16", "ubwctp10", "p010"},
   tofdepthformat |-> RawNames]

FormatStreams == [pformat |-> {"preview"}, sformat |-> {"snapshot"},
                  vformat |-> {"video"}, tofdepthformat |-> {"depth", "irbg"}]

\* The template goes with the option; an unknown format leaves the old one.
TemplateAfter(o, old) ==
  CASE o.opt = "pformat" /\ o.value = "yuv_ubwc_enc" -> "VIDEO_RECORD"
    [] o.opt = "pformat" /\ o.value # "yuv_ubwc_enc" -> "PREVIEW"
    [] o.opt = "vformat" -> "VIDEO_RECORD"
    [] OTHER -> old

WithFormat(conf, o) ==
  [f \in DOMAIN conf |->
     IF f \in FormatStreams[o.opt]
     THEN [conf[f] EXCEPT
             !.format = IF o.value \in KnownFormats[o.opt]
                        THEN FormatOf[o.value] ELSE @,
             !.template = TemplateAfter(o, @)]
     ELSE conf[f]]

\* A range in the wrong order is turned round.
WithFpsRange(conf, o) ==
  [conf EXCEPT !.fps_range = IF o.value[1] > o.value[2]
                             THEN <<o.value[2], o.value[1]>> ELSE o.value]

NumberOf == [id |-> "camera_id", forceopmode |-> "force_opmode",
             enableRawFormat |-> "rawformat", tofmode |-> "range_mode",
             tofimageype |-> "image_type"]

\* Options with a checked value: another one ends the parse.
Allowed == [enableRawFormat |-> {32, 37, 38}, tofmode |-> {0, 1},
            tofimageype |-> 0 .. 4]

Refused(o) == o.opt \in DOMAIN Allowed /\ o.value \notin Allowed[o.opt]

\* What is read for each option: two numbers, a word or a number.
Options ==
  [opt : DOMAIN SizeOf \cup {"fpsrange"}, value : Int \X Int]
  \cup [opt : DOMAIN FormatStreams, value : STRING]
  \cup [opt : DOMAIN NumberOf, value : Int]

WithOption(conf, o) ==
  CASE o.opt \in DOMAIN SizeOf        -> WithSize(conf, o)
    [] o.opt \in DOMAIN FormatStreams -> WithFormat(conf, o)
    [] o.opt = "fpsrange"             -> WithFpsRange(conf, o)
    [] o.opt \in DOMAIN NumberOf      -> [conf EXCEPT ![NumberOf[o.opt]] = o.value]
    [] OTHER                          -> conf

----------------------------------------------------------------------------
(* The parser *)

\* The sizes that ask for each mode; no other combination asks for one.
SizesFor ==
  [PREVIEW |-> {"PREVIEW"}, PREVIEW_VIDEO_ONLY |-> {"PREVIEW", "VIDEO"},
   SNAPSHOT |-> {"PREVIEW", "SNAPSHOT"}, DEPTH |-> {"DEPTH"},
   VIDEO |-> {"PREVIEW", "SNAPSHOT", "VIDEO"}, VIDEO_ONLY |-> {"VIDEO"}]

TestMode ==
  [bits \in {SizesFor[m] : m \in DOMAIN SizesFor} |->
     CHOOSE m \in DOMAIN SizesFor : SizesFor[m] = bits]

ReadOption(acc, o) ==
  IF acc.err_found \/ Refused(o)
  THEN [acc EXCEPT !.err_found = TRUE]
  ELSE [acc EXCEPT !.conf = WithOption(@, o),
                   !.mode_config = IF o.opt \in DOMAIN ModeBit
                                   THEN @ \cup ModeBit[o.opt] ELSE @]

\* What the loop over the options has after each number of them.
Reading(conf, order) ==
  LET after[i \in 0 .. Len(order)] ==
        IF i = 0 THEN [conf |-> conf, mode_config |-> {}, err_found |-> FALSE]
                 ELSE ReadOption(after[i - 1], order[i])
  IN after

\* The configuration after an order and whether parse_commandline_add returns
\* 0; a refused option does not undo the ones before it.
ParseAdd(conf, order) ==
  LET end   == Reading(conf, order)[Len(order)]
      known == end.mode_config \in DOMAIN TestMode
  IN [conf |-> IF known
               THEN [end.conf EXCEPT !.test_mode = TestMode[end.mode_config]]
               ELSE end.conf,
      ok |-> known /\ ~end.err_found]
=============================================================================
