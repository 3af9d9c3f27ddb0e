------------------------------ MODULE MCMetaLog ------------------------------
(* Instances of MetaLog. *)
EXTENDS MetaLog

Sensor == <<8, 6>>
Comp   == <<-2, 2>>

\* Flags of each kind: a value stored before it is printed, a mode with a name,
\* a tag looked at only when present, one printed when absent, and two flags
\* for one tag.
MCFlags == <<"exposureValue", "aeMode", "sceneMode", "zoomValue",
             "showCropRegion", "temperature">>
MCMetaOptions == {"exposureValue", "aeMode", "sceneMode", "zoomValue",
                  "showCropRegion"}

MCTemplate == "exposureValue" :> 1 @@ "aeMode" :> 1

AllTags == {"exposureValue", "aeMode", "sceneMode", "cropregion", "temperature"}
MCResultTags == {AllTags, {"aeMode"}}

Option(o, v) == [opt |-> o, value |-> v]

MCUpdateOrders == {
  <<Option("manual_exp", 10), Option("zoom", 2)>>,
  <<Option("manualsens", 200), Option("cropregion", <<1, 1, 4, 4>>),
    Option("cropregion", <<5, 0, 4, 4>>), Option("manual_exp_comp", 3),
    Option("manualaemode", 1)>> }

ModeOrders == {<<Option("manual_iso", 100), Option("manualaemode", 1)>>}
=============================================================================
