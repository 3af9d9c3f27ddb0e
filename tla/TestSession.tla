----------------------------- MODULE TestSession -----------------------------
(***************************************************************************)
(* The command loop of main: the table of cases, one per camera, what the  *)
(* commands do to it and to the cameras, and the clean-up at the end.      *)
(*                                                                         *)
(* A command is one step up to the next stop() of a case, which waits for  *)
(* the case's threads; stop_streams itself is in CaptureDevice.  U, M and  *)
(* W only reach settings, flags and the clock; of E its picture is here.   *)
(*                                                                         *)
(* The user is one who gives no camera a second case: A and v do not look  *)
(* at the slot, and a case in it would stay alive, out of reach.           *)
(***************************************************************************)
EXTENDS TestCases, DumpControl

CONSTANTS
  Hal,           \* the characteristics of each camera
  AddOrders,     \* orders of A commands
  SwitchOrders,  \* orders of v commands
  CommandBound,  \* how many commands the user gives
  Impatient,     \* may a picture be asked for before the last ones are saved?
  DumpClasses,   \* the classes of case whose frames the user has dumped
  FromFile,      \* are the commands read from a file?
  OpenFails      \* may the HAL refuse to open a camera?

ASSUME SessionAssumption ==
  /\ Max(Cameras) \in Nat /\ Cameras = 0 .. Max(Cameras)
                                   \* MAX_CAMERA is one more
  /\ CommandBound \in Nat
  /\ {Impatient, FromFile, OpenFails} \subseteq BOOLEAN

\* The orders name cameras that exist, those of A name one.
ASSUME OrdersAssumption ==
  /\ AddOrders \cup SwitchOrders \subseteq Seq(Options)
  /\ \A order \in AddOrders \cup SwitchOrders : \A i \in DOMAIN order :
       order[i].opt = "id" => order[i].value \in Cameras
  /\ \A order \in AddOrders : \E i \in DOMAIN order : order[i].opt = "id"

\* The sensor modes of a camera.
ASSUME HalAssumption ==
  \A c \in Cameras : Hal[c].modes \in Seq([size : Int \X Int, fps : Int])

VARIABLES
  s_HAL3_test,        \* the case in each slot
  current_camera_id,
  opened, running,    \* per camera: open devices, cases with live threads
  switched,           \* per camera: how often v has taken its case away
  mainPc,             \* where main is
  switching,          \* the case that v is making
  next,               \* the slot that the clean-up comes to
  commands            \* commands given

tableVars  == <<s_HAL3_test, current_camera_id>>
cameraVars == <<opened, running, switched>>
vars == <<tableVars, cameraVars, mainPc, switching, next, commands, dumpVars>>

NoCase == [class |-> "none", conf |-> DefaultConfig, streams |-> <<>>,
           operation_mode |-> [kind |-> "none", sensor |-> {}]]

Taken(c) == s_HAL3_test[c] # NoCase

Init ==
  /\ s_HAL3_test = [c \in Cameras |-> NoCase] /\ current_camera_id = 0
  /\ opened = [c \in Cameras |-> 0] /\ running = [c \in Cameras |-> 0]
  /\ switched = [c \in Cameras |-> 0]
  /\ mainPc = "loop" /\ switching = NoCase /\ next = 0 /\ commands = 0
  /\ DumpInit

----------------------------------------------------------------------------
(* Faulty variants *)

SlotOfCurrent(conf) == current_camera_id
DeletedRunning(c) == running
SkipsLastSlot == next >= Max(Cameras)
StaysAfterInput == "loop"

----------------------------------------------------------------------------
(* Commands *)

\* The loop reads a command.
Command ==
  /\ mainPc = "loop" /\ trigger.pc = "none" /\ commands < CommandBound
  /\ commands' = commands + 1

StreamTypes(case) == {case.streams[i].type : i \in DOMAIN case.streams}

\* Are the pictures of a case made on demand?
OnDemand(case) ==
  \E i \in DOMAIN case.streams : /\ case.streams[i].type = "SNAPSHOT"
                                 /\ case.streams[i].request_number = 0

SlotOf(conf) == conf.camera_id

\* open_camera that succeeds.
Opened(c) == [opened EXCEPT ![c] = @ + 1]

\* open_camera, run() and the entry in the table.
Enter(case) ==
  LET c == SlotOf(case.conf)
  IN /\ opened' = Opened(case.conf.camera_id)
     /\ running' = [running EXCEPT ![case.conf.camera_id] = @ + 1]
     /\ s_HAL3_test' = [s_HAL3_test EXCEPT ![c] = case]

\* A: an order that cannot be parsed changes nothing.
AddRefused ==
  /\ Command
  /\ \E order \in AddOrders : ~ParseAdd(DefaultConfig, order).ok
  /\ UNCHANGED <<tableVars, cameraVars, mainPc, switching, next, dumpVars>>

\* The code has no such guard: it is the user who names no camera that has another
\* case.
Free(c) == ~Taken(c)

Add ==
  /\ Command
  /\ \E order \in AddOrders :
       LET conf == ParseAdd(DefaultConfig, order).conf
           c    == conf.camera_id
       IN /\ ParseAdd(DefaultConfig, order).ok
          /\ Free(c)
          /\ current_camera_id' = c
          /\ Enter(NewCase(conf.test_mode, conf, Hal[c]))
  /\ UNCHANGED <<switched, mainPc, switching, next, dumpVars>>

\* Neither A nor v looks at what open_camera returns: when it fails, run() goes on
\* with a device pointer that was never set.
AddUnopened ==
  /\ OpenFails /\ Command
  /\ \E order \in AddOrders :
       /\ ParseAdd(DefaultConfig, order).ok
       /\ current_camera_id' = ParseAdd(DefaultConfig, order).conf.camera_id
  /\ mainPc' = "fault"
  /\ UNCHANGED <<s_HAL3_test, cameraVars, switching, next, dumpVars>>

\* v on a preview: the new options go into the configuration of the running
\* preview, and a case for video is made of it whatever they say.
Switch ==
  /\ Command
  /\ s_HAL3_test[current_camera_id].conf.test_mode = "PREVIEW"
  /\ \E order \in SwitchOrders :
       LET conf == ParseAdd(s_HAL3_test[current_camera_id].conf, order).conf
       IN /\ conf.camera_id = current_camera_id \/ Free(conf.camera_id)
          /\ s_HAL3_test' = [s_HAL3_test EXCEPT ![current_camera_id].conf = conf]
          /\ switching' = NewCase("VIDEO", conf, Hal[conf.camera_id])
  /\ mainPc' = "switchStop"
  /\ UNCHANGED <<current_camera_id, cameraVars, next, dumpVars>>

\* The preview is stopped and deleted; its device is not closed.
SwitchStop ==
  /\ mainPc = "switchStop" /\ post[current_camera_id] = NoFrame
  /\ running' = [running EXCEPT ![current_camera_id] = @ - 1]
  /\ switched' = [switched EXCEPT ![current_camera_id] = @ + 1]
  /\ s_HAL3_test' = [s_HAL3_test EXCEPT ![current_camera_id] = NoCase]
  /\ ResetDump(current_camera_id)
  /\ mainPc' = "switchStart"
  /\ UNCHANGED <<current_camera_id, opened, switching, next, commands>>

SwitchStart ==
  /\ mainPc = "switchStart"
  /\ Enter(switching)
  /\ switching' = NoCase
  /\ mainPc' = "loop"
  /\ UNCHANGED <<current_camera_id, switched, next, commands, dumpVars>>

SwitchUnopened ==
  /\ OpenFails /\ mainPc = "switchStart"
  /\ mainPc' = "fault"
  /\ UNCHANGED <<tableVars, cameraVars, switching, next, commands, dumpVars>>

\* The user's patience: the pictures of a case have been saved.
Saved(c) ==
  snapshot_num[c] = 0 /\ pictures[c] = 0 /\ post[c].counter # "snapshot"

Capture(c, n) ==
  /\ Impatient \/ Saved(c)
  /\ RequestCapture(c, s_HAL3_test[c].class, OnDemand(s_HAL3_test[c]), n)

\* s, and v on a case that is no preview, which is read as s with no number.
Snapshot ==
  /\ Command
  /\ \/ \E c \in Cameras, n \in Counts : Taken(c) /\ Capture(c, n)
     \/ /\ Taken(current_camera_id)
        /\ s_HAL3_test[current_camera_id].conf.test_mode # "PREVIEW"
        /\ Capture(current_camera_id, 0)
  /\ UNCHANGED <<tableVars, cameraVars, mainPc, switching, next, preview_num,
                 video_num, interval, post, trigger, asked, dumped>>

\* S on any camera, and E on the current one, whatever camera it names.
SnapshotAndDump ==
  /\ Command
  /\ \E c \in Cameras, n \in Counts \cup {1} :
       /\ n \in Counts \/ c = current_camera_id
       /\ Taken(c) /\ s_HAL3_test[c].class \in DumpClasses
       /\ Capture(c, n) /\ TriggerDump(c, n, 0)
  /\ UNCHANGED <<tableVars, cameraVars, mainPc, switching, next, preview_num,
                 video_num, interval, post, asked, dumped>>

\* P
Dump ==
  /\ Command
  /\ \E c \in Cameras, n \in Counts, i \in Intervals :
       /\ Taken(c) /\ s_HAL3_test[c].class \in DumpClasses
       /\ TriggerDump(c, n, i)
  /\ UNCHANGED <<tableVars, cameraVars, mainPc, switching, next, counterVars,
                 pictures, post, asked, dumped>>

\* Any of the commands above on a slot without a case: a null pointer.
NoSuchCase ==
  /\ Command
  /\ \E c \in Cameras : ~Taken(c)
  /\ mainPc' = "fault"
  /\ UNCHANGED <<tableVars, cameraVars, switching, next, dumpVars>>

----------------------------------------------------------------------------
(* The end of a case, and of the program *)

\* stop(), close_camera() and delete; stop() waits for the result thread.
Stopped(c) == [running EXCEPT ![c] = @ - 1]

EndCase(c) ==
  /\ post[c] = NoFrame
  /\ running' = Stopped(c)
  /\ opened' = [opened EXCEPT ![c] = @ - 1]
  /\ s_HAL3_test' = [s_HAL3_test EXCEPT ![c] = NoCase]
  /\ ResetDump(c)

\* D; on a slot without a case it only says so.
Delete ==
  /\ Command
  /\ \E c \in Cameras : Taken(c) /\ EndCase(c)
  /\ UNCHANGED <<current_camera_id, switched, mainPc, switching, next>>

Quit ==
  /\ Command
  /\ mainPc' = "cleanup"
  /\ UNCHANGED <<tableVars, cameraVars, switching, next, dumpVars>>

\* At the end of a file getline gives an empty line for ever, which the loop
\* skips; at the end of the terminal's input the loop ends.
AfterInput == IF FromFile THEN "loop" ELSE "cleanup"

EndOfInput ==
  /\ mainPc = "loop" /\ trigger.pc = "none"
  /\ commands' = CommandBound
  /\ mainPc' = AfterInput
  /\ UNCHANGED <<tableVars, cameraVars, switching, next, dumpVars>>

CleanupDone == next > Max(Cameras)

Cleanup ==
  /\ mainPc = "cleanup" /\ ~CleanupDone
  /\ IF Taken(next) THEN EndCase(next)
     ELSE UNCHANGED <<s_HAL3_test, opened, running, dumpVars>>
  /\ next' = next + 1
  /\ UNCHANGED <<current_camera_id, switched, mainPc, switching, commands>>

Exit ==
  /\ mainPc = "cleanup" /\ CleanupDone
  /\ mainPc' = "exit"
  /\ UNCHANGED <<tableVars, cameraVars, switching, next, commands, dumpVars>>

----------------------------------------------------------------------------
(* The threads of a case *)

sessionVars == <<tableVars, cameraVars, mainPc, switching, next, commands>>

ResultFrame(c, type) ==
  /\ type \in StreamTypes(s_HAL3_test[c])
  /\ Frame(c, s_HAL3_test[c].class, type,
           type = "SNAPSHOT" /\ OnDemand(s_HAL3_test[c]))
  /\ UNCHANGED sessionVars

\* Frames of the raw stream are neither counted nor dumped.
DumpedTypes == {"PREVIEW", "SNAPSHOT", "VIDEO", "DEPTH", "IRBG"}

ResultThread(c) ==
  \/ \E type \in DumpedTypes : ResultFrame(c, type)
  \/ FileWritten(c) /\ UNCHANGED sessionVars
  \/ CountDown(c) /\ UNCHANGED sessionVars

Trigger ==
  /\ TriggerPreview \/ TriggerVideo \/ TriggerInterval
  /\ UNCHANGED sessionVars

\* The steps main takes without waiting for the user.
Main == SwitchStop \/ SwitchStart \/ Cleanup \/ Exit \/ Trigger

UserCommand ==
  \/ AddRefused \/ Add \/ AddUnopened \/ Switch \/ Snapshot \/ SnapshotAndDump \/ Dump
  \/ NoSuchCase \/ Delete \/ Quit \/ EndOfInput

\* A fault ends the process with all its threads.
Next ==
  \/ Main
  \/ UserCommand
  \/ SwitchUnopened
  \/ mainPc # "fault" /\ \E c \in Cameras : ResultThread(c)

Spec == Init /\ [][Next]_vars

\* A frame of the stream for a counter.
CountedFrame(c, k) ==
  /\ mainPc # "fault"
  /\ \E type \in DumpedTypes : CounterTested(type) = k /\ ResultFrame(c, type)

\* A started file is finished, frames for each counter keep coming, and main goes
\* on whenever stop() returns (StopReturns of CaptureDevice).  The user owes
\* nothing.
FairSpec ==
  /\ Spec
  /\ \A c \in Cameras :
       /\ WF_vars((FileWritten(c) \/ CountDown(c)) /\ UNCHANGED sessionVars)
       /\ \A k \in {"preview", "video"} : SF_vars(CountedFrame(c, k))
  /\ SF_vars(Main)

----------------------------------------------------------------------------
(* Properties *)

TypeOK ==
  /\ DumpTypeOK
  /\ current_camera_id \in Cameras
  /\ {opened, running, switched} \subseteq [Cameras -> 0 .. CommandBound]
  /\ mainPc \in {"loop", "switchStop", "switchStart", "cleanup", "exit", "fault"}
  /\ next \in 0 .. Max(Cameras) + 1
  /\ commands \in 0 .. CommandBound
  /\ DOMAIN s_HAL3_test = Cameras

\* A case stands in the slot of the camera it drives, also after v has moved
\* it to another camera: the commands on a camera reach that camera.  (The user
\* names no camera that has another case.)
SlotAgrees ==
  \A c \in Cameras : Taken(c) /\ mainPc # "switchStop" =>
    s_HAL3_test[c].conf.camera_id = c

\* Cases and cameras go together: a camera has live threads exactly as long as
\* its slot is taken, and its open devices are that one and those v left open,
\* for a user who adds no case to a camera that has one, nor moves one there:
\* main does not test it (QCamxHAL3TestMain.cpp:353-437).
DeviceFollowsSlot ==
  \A c \in Cameras :
    /\ running[c] = IF Taken(c) THEN 1 ELSE 0
    /\ opened[c] = running[c] + switched[c]

\* When main returns no case is left, in no slot (of a user who names no camera
\* that has another case).
CleanExit == mainPc = "exit" => \A c \in Cameras : ~Taken(c) /\ running[c] = 0

\* The streams of a configured case are those of the sizes it was given; pictures
\* beside a video of more than 60 frames per second are the exception.  An idle
\* case has no streams to speak of.
AsAsked(case) ==
  LET fast  == case.class = "VIDEO" /\ VideoMode(MaxFps(case.conf)) > 60
      types == StreamTypes(case)
  IN case.streams # <<>> /\ case.class # "DEPTH" =>
       /\ ("PREVIEW" \in types) = (case.conf.preview.size # NoSize)
       /\ ("VIDEO" \in types) = (case.conf.video.size # NoSize)
       /\ ("SNAPSHOT" \in types) = (case.conf.snapshot.size # NoSize /\ ~fast)

\* The user has pictures made wherever raw ones are: next to a raw stream the one
\* for pictures is not checked (QCamxHAL3TestVideo.cpp:331).
RawWithPictures(case) ==
  case.class = "VIDEO" /\ case.conf.rawformat # 0 => case.conf.snapshot.size # NoSize

\* A case that is configured has a stream for every size it was given and for
\* no other, if raw pictures were asked for together with pictures only.
StreamsAsAsked ==
  \A c \in Cameras :
    mainPc # "switchStop" /\ RawWithPictures(s_HAL3_test[c]) => AsAsked(s_HAL3_test[c])

\* The number of buffers and the window of requests are chosen in different
\* places from the same frame rate, and they fit in every running case.
CasePools ==
  \A c \in Cameras : mainPc # "switchStop" => PoolsCoverWindow(s_HAL3_test[c])

\* So is the sensor mode.
CaseSensorMode ==
  \A c \in Cameras :
    mainPc # "switchStop" => SensorModeFits(s_HAL3_test[c], Hal[c])

\* A user who waits for the pictures of a case before asking for more has every
\* one of them in a file, whatever is dumped or deleted meanwhile.
AllPicturesSaved ==
  \A c \in Cameras :
    s_HAL3_test[c].class = "SNAPSHOT" /\ OnDemand(s_HAL3_test[c]) => PicturesSaved(c)

\* A dump without an interval comes to an end, for each counter the streams of
\* the case have.
CountedDumpsEnd ==
  \A c \in Cameras, k \in {"preview", "video"} :
    ( /\ Counter(c, k) > 0 /\ interval[c] = 0
      /\ k \in {CounterTested(type) :
                type \in DumpedTypes \cap StreamTypes(s_HAL3_test[c])} )
      ~> (Counter(c, k) = 0 \/ interval[c] > 0 \/ ~Taken(c) \/ mainPc = "fault")

\* A terminal's input that ends, with or without Q, ends the program.  (That of a
\* command file must have a Q: FromFile.)
EndsWithInput == WF_vars(EndOfInput) => <>(mainPc \in {"exit", "fault"})
=============================================================================
