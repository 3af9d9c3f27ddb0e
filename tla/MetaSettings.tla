---------------------------- MODULE MetaSettings ----------------------------
(***************************************************************************)
(* QCamxConfig::parse_commandline_meta_update as operators: what the       *)
(* options of a U or E command make of the settings of a camera.           *)
(*                                                                         *)
(* Settings are a function from the tags they hold to values.  A tag has   *)
(* the name of the flag of M that prints it, where there is one.  An order *)
(* is a sequence of options, each a record of its token and the number (or *)
(* the four numbers of a region) that the user typed.                      *)
(***************************************************************************)
EXTENDS Integers, SequencesExt, TLC

CONSTANTS
  ActiveArray,  \* width and height of the sensor
  CompRange     \* lowest and highest exposure compensation

ASSUME SensorAssumption ==
  /\ ActiveArray \in Nat \X Nat
  /\ CompRange \in Int \X Int

----------------------------------------------------------------------------
(* Values *)

\* Options that sscanf reads as a number and that are stored as it is.
AsNumber ==
  [manualwb_mode |-> "mwbMode", manualwb_cct |-> "mwbCct",
   manualwb_gains |-> "mwbGains", numframes |-> "numFrames",
   expmetering |-> "expMetering", selPriority |-> "selPriority",
   expPriority |-> "expPriority", compensation_ratio |-> "compRatio"]

\* Options that sscanf reads with %c: the first character that was typed.
AsCharacter ==
  [antimode |-> "aeAntiMode", manualantimode |-> "aeAntiMode",
   manualawbmode |-> "awbMode", manualafmode |-> "afMode",
   manualaemode |-> "aeMode", manualcorcorrectionmode |-> "colorCorrectMode",
   manualctrmode |-> "controlMode", manualzslmode |-> "zslMode",
   jpegquality |-> "jpegquality"]

FirstDigit(n) ==
  CHOOSE d \in 0 .. 9 : /\ d = 0 => n = 0
                        /\ \E p \in {1, 10, 100} : n \div p = d

Character(n) == 48 + FirstDigit(n)

\* The exposure time (ms) that goes with a sensitivity; others leave it alone.
ExposureFor ==
  [iso \in {100, 200, 400, 800, 1600} |->
     CASE iso = 100 -> 10 [] iso = 200 -> 20 [] iso = 400 -> 40 [] iso = 800 -> 60
       [] OTHER -> 80]

----------------------------------------------------------------------------
(* Regions of the sensor: left, top, width, height *)

InSensor(r) ==
  /\ \A k \in 1 .. 4 : r[k] >= 0
  /\ r[1] + r[3] <= ActiveArray[1] /\ r[2] + r[4] <= ActiveArray[2]

\* The middle of the sensor; a factor of 0 is a division by zero.
ZoomRegion(zoom) ==
  LET w == ActiveArray[1] \div zoom
      h == ActiveArray[2] \div zoom
  IN <<(ActiveArray[1] - w) \div 2, (ActiveArray[2] - h) \div 2, w, h>>

----------------------------------------------------------------------------
(* Orders *)

InCompRange(v) == v \in CompRange[1] .. CompRange[2]

\* What is read for each option: a number, the digits of a mode, a region.
SettingOptions ==
  [opt : DOMAIN AsNumber
           \cup {"manual_exp", "manual_iso", "manualsens", "manual_exp_comp"},
   value : Int]
  \cup [opt : {"zoom"}, value : Nat \ {0}]
  \cup [opt : DOMAIN AsCharacter, value : 0 .. 999]
  \cup [opt : {"cropregion"}, value : Int \X Int \X Int \X Int]

\* One tag and its value.
Only(tag, v) == [t \in {tag} |-> v]

\* The tags an option sets, with their values; one that is refused sets none.
Setting(o) ==
  CASE o.opt \in DOMAIN AsNumber    -> Only(AsNumber[o.opt], o.value)
    [] o.opt \in DOMAIN AsCharacter -> Only(AsCharacter[o.opt], Character(o.value))
    [] o.opt = "manual_exp" -> [aeMode |-> 0, exposureValue |-> o.value]
    [] o.opt = "manual_iso" -> [aeMode |-> 0, isoValue |-> o.value]
    [] o.opt = "manualsens" ->
         IF o.value \in DOMAIN ExposureFor
         THEN [isoValue |-> o.value, exposureValue |-> ExposureFor[o.value]]
         ELSE [isoValue |-> o.value]
    [] o.opt = "zoom" -> [cropregion |-> ZoomRegion(o.value)]
    [] o.opt = "cropregion" ->
         IF InSensor(o.value) THEN [cropregion |-> o.value] ELSE << >>
    [] o.opt = "manual_exp_comp" ->
         IF InCompRange(o.value) THEN [aeComp |-> o.value] ELSE << >>
    [] OTHER -> << >>

\* CameraMetadata::update for each of the new tags.
Updated(settings, new) ==
  [t \in DOMAIN settings \cup DOMAIN new |->
     IF t \in DOMAIN new THEN new[t] ELSE settings[t]]

\* The settings after each number of options; nothing ends an order early.
Updating(settings, order) ==
  LET after[i \in 0 .. Len(order)] ==
        IF i = 0 THEN settings ELSE Updated(after[i - 1], Setting(order[i]))
  IN after

WithOrder(settings, order) == Updating(settings, order)[Len(order)]

\* What the user typed for each mode.
TypedModes(order) ==
  LET modes == SelectSeq(order, LAMBDA o : o.opt \in DOMAIN AsCharacter)
  IN FoldLeft(LAMBDA acc, o : AsCharacter[o.opt] :> o.value @@ acc, << >>, modes)
=============================================================================
