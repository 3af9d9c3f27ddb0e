------------------------------- MODULE MetaLog -------------------------------
(***************************************************************************)
(* The metadata of one camera: the user changes settings (U), the requests *)
(* carry them to the HAL, the HAL's results come back to handle_metadata,  *)
(* which compares each tag the user has chosen (M) with its last value and *)
(* prints the changes to a log, whose file the user may change meanwhile.  *)
(*                                                                         *)
(* The threads are main and those on which the HAL calls back.  Nothing    *)
(* here is locked but the list of settings.  The camera may be deleted and *)
(* added again, each time with a configuration and a log of its own.       *)
(***************************************************************************)
EXTENDS MetaSettings, FiniteSets

CONSTANTS
  HalThreads,    \* threads that call ProcessCaptureResult
  Flags,         \* the flags of M, in the order handle_metadata takes them
  UpdateOrders,  \* orders of U commands
  Template,      \* the settings the HAL's default request comes with
  ResultTags,    \* the sets of tags that a result may have
  Measured,      \* values the HAL reports for tags that no setting holds
  MetaOptions,   \* the flags that M is used for
  Classes,       \* which handle_metadata: "base", "preview_video" or "video"
  Paths,         \* log files that M may name
  DefaultPath,   \* the one a configuration starts with
  Unwritable,    \* those that fopen cannot create
  Files,         \* bound: FILE objects that fopen may return
  stderr, NULL,  \* the other values of _file_handle
  Lives,         \* bound: how often a camera is added
  CommandBound   \* bound: U and M commands for each of them

Printed == {Flags[i] : i \in DOMAIN Flags}

ASSUME MetaAssumption ==
  /\ stderr # NULL /\ stderr \notin Files /\ NULL \notin Files
  /\ Flags \in Seq(Printed)
  /\ Printed \cap {"camId", "activeArray", "cropRegion"} = {}
  /\ MetaOptions \subseteq Printed \ {"temperature"}
  /\ Lives \in Nat /\ CommandBound \in Nat

\* The HAL's defaults and what it measures are numbers, but for the region.
ASSUME ValueAssumption ==
  /\ Template = [t \in DOMAIN Template |-> Template[t]]
  /\ \A t \in DOMAIN Template :
       Template[t] \in IF t = "cropregion" THEN Seq(Int) ELSE Int
  /\ Measured \subseteq Int
  /\ UpdateOrders \subseteq Seq(SettingOptions)

VARIABLES
  meta_dump,    \* the flags that are set
  meta_stat,    \* last value of each tag
  log_type, path, is_new_path, file_handle,  \* fields of QCamxLog
  open_files,   \* log files that are open
  handler,      \* what each HAL thread does
  current,      \* _current_metadata, which U edits
  setting_list, \* settings posted to the request thread
  setting,      \* settings of the last request that the HAL took
  requesting,   \* has the HAL refused no request?
  mainPc, new_path,
  class, commands, lives,
  reported,     \* history: the value in the last line about each tag
  ignored,      \* were the settings taken from the list last ignored?
  typed         \* history: the mode the user typed last, for each tag

logVars  == <<log_type, path, is_new_path, file_handle, open_files>>
statVars == <<meta_stat, reported>>
requestVars == <<setting, requesting, ignored>>
settingVars == <<current, setting_list, requestVars, typed>>
mainVars == <<mainPc, new_path, class, commands, lives>>
vars == <<meta_dump, statVars, logVars, handler, settingVars, mainVars>>

----------------------------------------------------------------------------
(* Tags *)

\* Two flags print the same tag and share its last value.
Tag(f) == IF f \in {"zoomValue", "showCropRegion"} THEN "cropregion" ELSE f

\* Flags whose tag is only looked at when the result has it.  The others take a
\* missing tag for 0.
WhenPresent == {"zslMode", "numFrames", "expMetering", "selPriority",
                "expPriority", "temperature"}

\* Modes, and the values of them that have a name to print.
Named == [aeMode |-> 0 .. 1, awbMode |-> 0 .. 1, afMode |-> 0 .. 4,
          aeAntiMode |-> 0 .. 3, colorCorrectMode |-> 0 .. 2,
          controlMode |-> 0 .. 2]

HasLine(f, v) == f \in DOMAIN Named => v \in Named[f]

SatTags  == {"camId", "activeArray", "cropRegion"}
StatTags == {Tag(f) : f \in Printed} \cup {"cropregion"} \cup SatTags

\* The cases for video keep arrays, of which two numbers stand for four.
NoRegion == <<0, 0, 0, 0>>
Zero(t) == CASE t = "cropregion" -> NoRegion
             [] t \in {"activeArray", "cropRegion"} -> <<0, 0>>
             [] OTHER -> 0

Value(f, result) ==
  IF Tag(f) \in DOMAIN result THEN result[Tag(f)] ELSE Zero(Tag(f))

\* The scene is printed with each result that has no scene in it.
Changed(f, result) ==
  \/ /\ f \in WhenPresent => f \in DOMAIN result
     /\ Value(f, result) # meta_stat[Tag(f)]
  \/ f = "sceneMode" /\ f \notin DOMAIN result

----------------------------------------------------------------------------
(* Initial states: no camera yet *)

\* A HAL thread at a step, with the tags that are left and the result in hand.
At(pc, left, result, file) ==
  [pc |-> pc, left |-> left, result |-> result, file |-> file]

Idle == At("idle", << >>, << >>, stderr)

\* Faulty variant: a flag that nothing clears
NotCleared == {"temperature", "rawsize"}

\* M has no token for the temperature, which is always printed.
FirstFlags == {"temperature"}

FirstStat == [t \in StatTags |-> Zero(t)]

Init ==
  /\ meta_dump = FirstFlags
  /\ meta_stat = FirstStat /\ reported = FirstStat
  /\ log_type = "FILE" /\ path = DefaultPath /\ is_new_path = TRUE
  /\ file_handle = stderr /\ open_files = {}
  /\ handler = [h \in HalThreads |-> Idle]
  /\ current = Template /\ setting_list = << >> /\ setting = << >>
  /\ requesting = TRUE /\ ignored = FALSE
  /\ typed = << >>
  /\ mainPc = "none" /\ new_path = DefaultPath /\ class \in Classes
  /\ commands = 0 /\ lives = 0

Running == mainPc \in {"run", "newPath", "storePath"}

----------------------------------------------------------------------------
(* Parts of the actions, and faulty variants of them *)

\* update_metadata_for_next_request
PostedInFront(settings) == <<settings>> \o setting_list
Posted(settings) == Append(setting_list, settings)

\* What print closes when it has opened a file
AfterAssignment(opened) == opened
Replaced(opened) == file_handle

----------------------------------------------------------------------------
(* handle_metadata, on a HAL thread *)

Becomes(h, r) == handler' = [handler EXCEPT ![h] = r]
Goto(h, pc, file) ==
  Becomes(h, At(pc, handler[h].left, handler[h].result, file))

\* The tag in hand, and its value in the result.
This(h)      == Head(handler[h].left)
ThisTag(h)   == Tag(This(h))
ThisValue(h) == Value(This(h), handler[h].result)

StatKept(h)  == meta_stat  \* faulty variant
StatAfter(h) == [meta_stat EXCEPT ![ThisTag(h)] = ThisValue(h)]

\* The HAL reports the settings it was given, and measures the rest.
FullRegion == <<0, 0, ActiveArray[1], ActiveArray[2]>>

Reports(tags, m) ==
  [t \in tags |-> CASE t \in DOMAIN setting -> setting[t]
                   [] t \notin DOMAIN setting /\ t = "cropregion" -> FullRegion
                   [] OTHER -> m]

\* A result comes with all of a request's tags or some of them, until the
\* camera is closed.
Result(h, tags) ==
  /\ class = "base" /\ setting # << >>
  /\ Running \/ mainPc = "stopped"
  /\ handler[h].pc = "idle"
  /\ \E m \in Measured :
       Becomes(h, At("tag", Flags, Reports(tags, m), stderr))
  /\ UNCHANGED <<meta_dump, statVars, logVars, settingVars, mainVars>>

\* On to the next tag.
Advance(h) ==
  Becomes(h, At("tag", Tail(handler[h].left), handler[h].result, stderr))

Skip(h) ==
  /\ handler[h].pc = "tag" /\ handler[h].left # << >>
  /\ \/ This(h) \notin meta_dump
     \/ ~Changed(This(h), handler[h].result)
  /\ Advance(h)
  /\ UNCHANGED <<meta_dump, statVars, logVars, settingVars, mainVars>>

\* A change.  A mode without a name has no line; the exposure time is stored
\* before its line is printed, everything else after it.
Compare(h) ==
  /\ handler[h].pc = "tag" /\ handler[h].left # << >>
  /\ This(h) \in meta_dump /\ Changed(This(h), handler[h].result)
  /\ IF HasLine(This(h), ThisValue(h)) THEN Goto(h, "print", stderr)
     ELSE Advance(h)
  /\ meta_stat' = IF This(h) = "exposureValue" \/ ~HasLine(This(h), ThisValue(h))
                  THEN StatAfter(h) ELSE meta_stat
  /\ UNCHANGED <<meta_dump, reported, logVars, settingVars, mainVars>>

Return(h) ==
  /\ handler[h].pc = "tag" /\ handler[h].left = << >>
  /\ Becomes(h, Idle)
  /\ UNCHANGED <<meta_dump, statVars, logVars, settingVars, mainVars>>

----------------------------------------------------------------------------
(* QCamxLog::print, on a HAL thread *)

\* The line is out, and handle_metadata stores the value.
Emit(h) ==
  /\ reported' = [reported EXCEPT ![ThisTag(h)] = ThisValue(h)]
  /\ meta_stat' = StatAfter(h)
  /\ Advance(h)
  /\ UNCHANGED <<meta_dump, logVars, settingVars, mainVars>>

PrintStd(h) ==
  /\ handler[h].pc = "print" /\ log_type # "FILE"
  /\ Emit(h)

PrintFile(h) ==
  /\ handler[h].pc = "print" /\ log_type = "FILE"
  /\ Goto(h, IF is_new_path THEN "open" ELSE "write", stderr)
  /\ UNCHANGED <<meta_dump, statVars, logVars, settingVars, mainVars>>

\* The new file is opened and the old one closed; standard error counts as one
\* that is always open.
Open(h) ==
  /\ handler[h].pc = "open" /\ Files \ open_files # {}
  /\ LET opened == IF path \in Unwritable THEN NULL
                   ELSE CHOOSE f \in Files : f \notin open_files
     IN /\ Goto(h, "assign", opened)
        /\ open_files' = (open_files \cup ({opened} \ {NULL})) \ {Replaced(opened)}
  /\ UNCHANGED <<meta_dump, statVars, log_type, path, is_new_path, file_handle,
                 settingVars, mainVars>>

Assign(h) ==
  /\ handler[h].pc = "assign"
  /\ file_handle' = handler[h].file /\ is_new_path' = FALSE
  /\ Goto(h, "write", stderr)
  /\ UNCHANGED <<meta_dump, statVars, log_type, path, open_files, settingVars,
                 mainVars>>

Write(h) ==
  /\ handler[h].pc = "write"
  /\ Emit(h)

HandlerStep(h) ==
  \/ Skip(h) \/ Compare(h) \/ Return(h)
  \/ PrintStd(h) \/ PrintFile(h) \/ Open(h) \/ Assign(h) \/ Write(h)

----------------------------------------------------------------------------
(* The cases for video *)

\* They do not look at the flags of M and print to no log.  The case without a
\* snapshot copies whole arrays, the other one their first number.
SatArray(old, m) ==
  IF class = "preview_video" THEN <<m, m>> ELSE <<m, old[2]>>

SatResult ==
  /\ class # "base" /\ setting # << >>
  /\ Running \/ mainPc = "stopped"
  /\ \E m \in Measured, tags \in SUBSET SatTags :
       meta_stat' = [t \in StatTags |->
                       CASE t \notin tags -> meta_stat[t]
                         [] t \in tags /\ t = "camId" -> m
                         [] OTHER -> SatArray(meta_stat[t], m)]
  /\ UNCHANGED <<meta_dump, reported, logVars, handler, settingVars, mainVars>>

----------------------------------------------------------------------------
(* The request thread *)

\* A request with the next settings.  CameraMetadata ignores the assignment while it
\* is locked, which any request but the first may find it: the last callback may
\* have deleted the one before, when it was read to unlock the settings (the lock
\* is in CaptureDevice).  Requests without new settings only lock and unlock.
Request ==
  /\ Running /\ requesting /\ setting_list # << >>
  /\ setting_list' = Tail(setting_list)
  /\ ignored' \in IF setting = << >> THEN {FALSE} ELSE BOOLEAN
  /\ setting' = IF ignored' THEN setting ELSE Head(setting_list)
  /\ UNCHANGED <<meta_dump, statVars, logVars, handler, current, requesting, typed,
                 mainVars>>

\* The HAL refuses a request, with new settings or without, and the thread ends.
RequestRefused ==
  /\ Running /\ requesting
  /\ setting_list' = IF setting_list = << >> THEN << >> ELSE Tail(setting_list)
  /\ requesting' = FALSE
  /\ UNCHANGED <<meta_dump, statVars, logVars, handler, current, setting, ignored,
                 typed, mainVars>>

----------------------------------------------------------------------------
(* Commands, on main *)

\* A: a configuration, its log and the default settings
Add ==
  /\ mainPc = "none" /\ lives < Lives
  /\ mainPc' = "run" /\ lives' = lives + 1 /\ commands' = 0
  /\ class' \in Classes
  /\ meta_dump' = FirstFlags /\ meta_stat' = FirstStat /\ reported' = FirstStat
  /\ log_type' = "FILE" /\ path' = DefaultPath /\ is_new_path' = TRUE
  /\ file_handle' = stderr
  /\ current' = Template /\ setting_list' = <<Template>> /\ setting' = << >>
  /\ requesting' = TRUE /\ ignored' = FALSE
  /\ typed' = << >>
  /\ UNCHANGED <<open_files, handler, new_path>>

\* A bound on the commands for one camera
Command ==
  /\ mainPc = "run" /\ commands < CommandBound
  /\ commands' = commands + 1
  /\ UNCHANGED <<class, lives>>

Update(order) ==
  /\ Command
  /\ current' = WithOrder(current, order)
  /\ setting_list' = Posted(current')
  /\ typed' = TypedModes(order) @@ typed
  /\ UNCHANGED <<meta_dump, statVars, logVars, handler, requestVars, mainPc,
                 new_path>>

\* M, one option at a time
SetFlag(f, on) ==
  /\ Command
  /\ meta_dump' = IF on THEN meta_dump \cup {f} ELSE meta_dump \ {f}
  /\ UNCHANGED <<statVars, logVars, handler, settingVars, mainPc, new_path>>

\* set_path
SetStd(type) ==
  /\ Command
  /\ log_type' = type
  /\ UNCHANGED <<meta_dump, statVars, path, is_new_path, file_handle, open_files,
                 handler, settingVars, mainPc, new_path>>

SetPath(p) ==
  /\ Command
  /\ log_type' = "FILE" /\ new_path' = p
  /\ mainPc' = IF p # path THEN "newPath" ELSE "run"
  /\ UNCHANGED <<meta_dump, statVars, path, is_new_path, file_handle, open_files,
                 handler, settingVars>>

MarkNewPath ==
  /\ mainPc = "newPath" /\ mainPc' = "storePath"
  /\ is_new_path' = TRUE
  /\ UNCHANGED <<meta_dump, statVars, log_type, path, file_handle, open_files,
                 handler, settingVars, new_path, class, commands, lives>>

StorePath ==
  /\ mainPc = "storePath" /\ mainPc' = "run"
  /\ path' = new_path
  /\ UNCHANGED <<meta_dump, statVars, log_type, is_new_path, file_handle,
                 open_files, handler, settingVars, new_path, class, commands, lives>>

\* D: the case is stopped, the camera closed and the configuration deleted.  The
\* HAL may call back until close returns.
Stop ==
  /\ mainPc = "run" /\ mainPc' = "stopped"
  /\ UNCHANGED <<meta_dump, statVars, logVars, handler, settingVars, new_path,
                 class, commands, lives>>

Close ==
  /\ mainPc = "stopped" /\ mainPc' = "closed"
  /\ \A h \in HalThreads : handler[h].pc = "idle"
  /\ UNCHANGED <<meta_dump, statVars, logVars, handler, settingVars, new_path,
                 class, commands, lives>>

\* The destructor of the log closes its file unless it prints elsewhere now.
Delete ==
  /\ mainPc = "closed" /\ mainPc' = "none"
  /\ open_files' = IF log_type = "FILE" THEN open_files \ {file_handle}
                   ELSE open_files
  /\ is_new_path' = FALSE
  /\ UNCHANGED <<meta_dump, statVars, log_type, path, file_handle, handler,
                 settingVars, new_path, class, commands, lives>>

----------------------------------------------------------------------------
Next ==
  \/ \E h \in HalThreads, tags \in ResultTags : Result(h, tags)
  \/ \E h \in HalThreads : HandlerStep(h)
  \/ SatResult \/ Request \/ RequestRefused \/ Add
  \/ \E order \in UpdateOrders : Update(order)
  \/ \E f \in MetaOptions, on \in BOOLEAN : SetFlag(f, on)
  \/ \E type \in {"STDIO", "ALOGE"} : SetStd(type)
  \/ \E p \in Paths : SetPath(p)
  \/ MarkNewPath \/ StorePath \/ Stop \/ Close \/ Delete

\* Requests go on, and the HAL has threads that run and, again and again, complete
\* results, as long as it refuses no request.
Fairness ==
  /\ WF_vars(Request) /\ WF_vars(MarkNewPath \/ StorePath)
  /\ \A h \in HalThreads : WF_vars(HandlerStep(h))
  /\ SF_vars(requesting /\ \E h \in HalThreads : Result(h, UNION ResultTags))

Spec == Init /\ [][Next]_vars /\ Fairness

----------------------------------------------------------------------------
(* Properties *)

Printing == {"print", "open", "assign", "write"}

\* Variables and the records of HAL threads keep their types
\* (qcamx_config.h:30-75, qcamx_log.h:17-40).
TypeOK ==
  /\ meta_dump \subseteq Printed \cup {"temperature"}
  /\ DOMAIN meta_stat = StatTags /\ DOMAIN reported = StatTags
  /\ \A t \in StatTags \ {"cropregion", "activeArray", "cropRegion"} :
       meta_stat[t] \in Int
  /\ log_type \in {"FILE", "STDIO", "ALOGE"}
  /\ path \in Paths \cup {DefaultPath} /\ new_path \in Paths \cup {DefaultPath}
  /\ is_new_path \in BOOLEAN /\ open_files \subseteq Files
  /\ file_handle \in Files \cup {stderr, NULL}
  /\ \A h \in HalThreads :
       /\ handler[h].pc \in {"idle", "tag"} \cup Printing
       /\ handler[h].pc \in Printing => handler[h].left # << >>
       /\ handler[h].file \in Files \cup {stderr, NULL}
  /\ mainPc \in {"none", "run", "newPath", "storePath", "stopped", "closed"}
  /\ class \in Classes /\ commands \in 0 .. CommandBound /\ lives \in 0 .. Lives
  /\ requesting \in BOOLEAN /\ ignored \in BOOLEAN

\* print never writes to, and neither print nor the log's destructor ever
\* closes, a log file that is closed already or was never opened, whatever path
\* and type the user sets meanwhile (qcamx_log.cpp:47-53, 70).
LogFileOpen ==
  /\ \A h \in HalThreads :
       handler[h].pc \in {"open", "write"} => file_handle \in open_files \cup {stderr}
  /\ mainPc = "closed" /\ log_type = "FILE" => file_handle \in open_files \cup {stderr}

\* The log tells every change and nothing else: the last line about a value is
\* the value the next result is compared with, and a line that is being printed
\* differs from the line before it.  Modes without a name have no line, and the
\* scene is printed without a change (qcamx_case.cpp:66-73, 330-339).
LogFollowsStat ==
  \A f \in Printed \ (DOMAIN Named \cup {"sceneMode"}) :
    IF \E h \in HalThreads : handler[h].pc \in Printing /\ This(h) = f
    THEN \A h \in HalThreads : handler[h].pc \in Printing /\ This(h) = f =>
            ThisValue(h) # reported[Tag(f)]
    ELSE reported[Tag(f)] = meta_stat[Tag(f)]

\* A setting the user makes (U) of a value that is printed (M) is in the log in
\* the end, through the list of settings, a request, a result and
\* handle_metadata, unless the user stops or chooses otherwise, the HAL refuses a
\* request, or the request thread ignores the settings (SettingInForce of
\* CaptureDevice); settings posted later are the ones that count then
\* (QCamxHAL3TestMain.cpp:508-515, qcamx_device.cpp:353-361, 379-392).
Wanted(f) ==
  /\ Running /\ requesting /\ ~ignored
  /\ class = "base" /\ f \in meta_dump
  /\ Tag(f) \in DOMAIN current /\ current[Tag(f)] # reported[Tag(f)]

SettingReported == \A f \in Printed \ DOMAIN Named : Wanted(f) ~> ~Wanted(f)

\* What the parser prints for the user ("ae mode:%d 0:off 1:on") is what a mode is
\* set to: the number that was typed (qcamx_config.cpp:248-254).
ModesAsAsked == \A t \in DOMAIN typed : current[t] = typed[t]
=============================================================================
