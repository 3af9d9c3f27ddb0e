---------------------------- MODULE SessionProofs ----------------------------
(***************************************************************************)
(* Proofs about TestSession, for any number of cameras, commands, orders   *)
(* and characteristics of the HAL: types; cases and cameras go together,   *)
(* and cases stand in their camera's slot; a session leaves nothing        *)
(* behind; pictures are saved and dumps counted; the pools and streams of  *)
(* a case are those of its configuration.                                  *)
(***************************************************************************)
EXTENDS TestSession, CaseProofs

\* A configuration that names a camera.
IsConf(conf) == WellFormed(conf) /\ conf.camera_id \in Cameras

\* The orders give such configurations; those of A that are accepted name a class
\* of case, and give the sizes of that class and no other.
LEMMA OrdersFit ==
  /\ \A order \in AddOrders : ParseAdd(DefaultConfig, order).ok =>
       LET conf == ParseAdd(DefaultConfig, order).conf
       IN IsConf(conf) /\ conf.test_mode \in TestModes /\ SizesOfMode(conf)
  /\ \A order \in SwitchOrders : \A conf :
       IsConf(conf) => IsConf(ParseAdd(conf, order).conf)
<1>1. ASSUME NEW order \in AddOrders, ParseAdd(DefaultConfig, order).ok
      PROVE  LET conf == ParseAdd(DefaultConfig, order).conf
             IN IsConf(conf) /\ conf.test_mode \in TestModes /\ SizesOfMode(conf)
  <2>1. /\ order \in Seq(Options) /\ \E i \in DOMAIN order : order[i].opt = "id"
        /\ \A i \in DOMAIN order : order[i].opt = "id" => order[i].value \in Cameras
    BY OrdersAssumption
  <2> QED
    BY <1>1, <2>1, OrderAccepted, OrderRead, DefaultWellFormed DEF IsConf
<1>2. ASSUME NEW order \in SwitchOrders, NEW conf, IsConf(conf)
      PROVE  IsConf(ParseAdd(conf, order).conf)
  <2>1. /\ order \in Seq(Options)
        /\ \A i \in DOMAIN order : order[i].opt = "id" => order[i].value \in Cameras
    BY OrdersAssumption
  <2> QED
    BY <1>2, <2>1, OrderRead DEF IsConf
<1> QED
  BY <1>1, <1>2

----------------------------------------------------------------------------
(* Cases *)

IsCase(case) ==
  /\ DOMAIN case = {"class", "conf", "streams", "operation_mode"}
  /\ case.class # "none"
  /\ IsConf(case.conf)

LEMMA NoCaseIsNone ==
  /\ NoCase.class = "none"
  /\ NoCase.conf.test_mode = "none"
BY DEF NoCase, DefaultConfig

LEMMA NewCaseIsCase ==
  ASSUME NEW class, NEW conf, NEW hal, class # "none", IsConf(conf)
  PROVE  /\ IsCase(NewCase(class, conf, hal))
         /\ NewCase(class, conf, hal).conf = conf
         /\ NewCase(class, conf, hal) # NoCase
<1> DEFINE case == NewCase(class, conf, hal)
<1>1. case.class = class /\ case.conf = conf
      /\ DOMAIN case = {"class", "conf", "streams", "operation_mode"}
  BY DEF NewCase
<1> QED
  BY <1>1, NoCaseIsNone DEF IsCase

\* v changes the configuration of a case and nothing else.
LEMMA ConfChanged ==
  ASSUME NEW case, IsCase(case), NEW conf, IsConf(conf)
  PROVE  /\ IsCase([case EXCEPT !.conf = conf])
         /\ [case EXCEPT !.conf = conf] # NoCase
         /\ [case EXCEPT !.conf = conf].class = case.class
         /\ [case EXCEPT !.conf = conf].streams = case.streams
<1>1. /\ [case EXCEPT !.conf = conf].class = case.class
      /\ [case EXCEPT !.conf = conf].streams = case.streams
      /\ [case EXCEPT !.conf = conf].conf = conf
      /\ DOMAIN [case EXCEPT !.conf = conf] = DOMAIN case
  BY DEF IsCase
<1> QED
  BY <1>1, NoCaseIsNone DEF IsCase

----------------------------------------------------------------------------
(* The invariant *)

Functions ==
  /\ s_HAL3_test = [c \in Cameras |-> s_HAL3_test[c]]
  /\ opened \in [Cameras -> Int] /\ running \in [Cameras -> Int]
  /\ switched \in [Cameras -> Int]
  /\ current_camera_id \in Cameras /\ next \in Nat

\* During a v the case being made has a camera whose slot is free, or will be.
SwitchInv ==
  /\ mainPc = "switchStop" => Taken(current_camera_id)
  /\ mainPc \in {"switchStop", "switchStart"} =>
       /\ IsCase(switching) /\ switching # NoCase
       /\ Taken(switching.conf.camera_id) =>
            mainPc = "switchStop" /\ switching.conf.camera_id = current_camera_id

\* While v waits for the preview to stop, its configuration may name another
\* camera already.
SlotInv ==
  \A c \in Cameras : Taken(c) =>
    /\ IsCase(s_HAL3_test[c])
    /\ \/ s_HAL3_test[c].conf.camera_id = c
       \/ mainPc = "switchStop" /\ c = current_camera_id

SessionInv == Functions /\ SwitchInv /\ SlotInv /\ DeviceFollowsSlot

LEMMA SessionInit == SessionAssumption /\ Init => SessionInv
<1> SUFFICES ASSUME SessionAssumption, Init PROVE SessionInv
  OBVIOUS
<1>1. 0 \in Cameras
  BY DEF SessionAssumption
<1> QED
  BY <1>1 DEF Init, SessionInv, Functions, SwitchInv, SlotInv, DeviceFollowsSlot, Taken

\* A step that leaves the table and the cameras alone.
LEMMA TableKept ==
  ASSUME SessionInv, UNCHANGED <<tableVars, cameraVars, switching>>,
         next' \in Nat, UNCHANGED mainPc \/ mainPc' \notin {"switchStop", "switchStart"},
         mainPc = "switchStop" => mainPc' = "switchStop"
  PROVE  SessionInv'
BY DEF SessionInv, Functions, SwitchInv, SlotInv, DeviceFollowsSlot, Taken,
       tableVars, cameraVars

\* A case that starts.
LEMMA Starts ==
  ASSUME SessionInv, NEW case, IsCase(case), case # NoCase,
         ~Taken(case.conf.camera_id),
         mainPc # "switchStop", mainPc' = "loop", next' \in Nat,
         current_camera_id' \in Cameras,
         Enter(case), UNCHANGED switched
  PROVE  SessionInv'
<1> DEFINE c == case.conf.camera_id
<1> c \in Cameras
  BY DEF IsCase, IsConf
<1>1. /\ opened' = [opened EXCEPT ![c] = @ + 1]
      /\ running' = [running EXCEPT ![c] = @ + 1]
      /\ s_HAL3_test' = [s_HAL3_test EXCEPT ![c] = case]
  BY DEF Enter, SlotOf, Opened
<1>2. running[c] = 0
  BY DEF SessionInv, DeviceFollowsSlot
<1>3. Functions'
  BY <1>1 DEF SessionInv, Functions
<1>4. \A d \in Cameras : d # c => /\ s_HAL3_test'[d] = s_HAL3_test[d]
                                  /\ opened'[d] = opened[d] /\ running'[d] = running[d]
  BY <1>1 DEF SessionInv, Functions
<1>5. s_HAL3_test'[c] = case /\ running'[c] = 1 /\ opened'[c] = opened[c] + 1
  BY <1>1, <1>2 DEF SessionInv, Functions
<1>6. SwitchInv'
  BY DEF SwitchInv
<1>7. SlotInv' /\ DeviceFollowsSlot'
  <2> SUFFICES ASSUME NEW d \in Cameras
      PROVE  /\ Taken(d)' => IsCase(s_HAL3_test'[d]) /\ s_HAL3_test'[d].conf.camera_id = d
             /\ running'[d] = IF Taken(d)' THEN 1 ELSE 0
             /\ opened'[d] = running'[d] + switched'[d]
    BY DEF SlotInv, DeviceFollowsSlot
  <2>1. CASE d = c
    BY <1>2, <1>5, <2>1 DEF SessionInv, DeviceFollowsSlot, Functions, Taken
  <2>2. CASE d # c
    BY <1>4, <2>2 DEF SessionInv, SlotInv, DeviceFollowsSlot, Taken
  <2> QED
    BY <2>1, <2>2
<1> QED
  BY <1>3, <1>6, <1>7 DEF SessionInv

\* A case that ends.
LEMMA Ends ==
  ASSUME SessionInv, NEW c \in Cameras, Taken(c), EndCase(c),
         mainPc \notin {"switchStop", "switchStart"}, UNCHANGED mainPc,
         next' \in Nat, UNCHANGED <<current_camera_id, switched>>
  PROVE  SessionInv'
<1>1. /\ opened' = [opened EXCEPT ![c] = @ - 1]
      /\ running' = [running EXCEPT ![c] = @ - 1]
      /\ s_HAL3_test' = [s_HAL3_test EXCEPT ![c] = NoCase]
  BY DEF EndCase, Stopped
<1>2. running[c] = 1
  BY DEF SessionInv, DeviceFollowsSlot
<1>3. Functions'
  BY <1>1 DEF SessionInv, Functions
<1>4. \A d \in Cameras : d # c => /\ s_HAL3_test'[d] = s_HAL3_test[d]
                                  /\ opened'[d] = opened[d] /\ running'[d] = running[d]
  BY <1>1 DEF SessionInv, Functions
<1>5. s_HAL3_test'[c] = NoCase /\ running'[c] = 0 /\ opened'[c] = opened[c] - 1
  BY <1>1, <1>2 DEF SessionInv, Functions
<1>6. SwitchInv'
  BY DEF SwitchInv
<1>7. SlotInv' /\ DeviceFollowsSlot'
  <2> SUFFICES ASSUME NEW d \in Cameras
      PROVE  /\ Taken(d)' => IsCase(s_HAL3_test'[d]) /\ s_HAL3_test'[d].conf.camera_id = d
             /\ running'[d] = IF Taken(d)' THEN 1 ELSE 0
             /\ opened'[d] = running'[d] + switched'[d]
    BY DEF SlotInv, DeviceFollowsSlot
  <2>1. CASE d = c
    BY <1>2, <1>5, <2>1 DEF SessionInv, DeviceFollowsSlot, Functions, Taken
  <2>2. CASE d # c
    BY <1>4, <2>2 DEF SessionInv, SlotInv, DeviceFollowsSlot, Taken
  <2> QED
    BY <2>1, <2>2
<1> QED
  BY <1>3, <1>6, <1>7 DEF SessionInv

\* A camera that the HAL does not open.
LEMMA Unopened ==
  ASSUME SessionInv, AddUnopened \/ SwitchUnopened
  PROVE  /\ UNCHANGED <<s_HAL3_test, cameraVars, switching, next, dumpVars>>
         /\ current_camera_id' \in Cameras /\ mainPc' = "fault"
         /\ mainPc \in {"loop", "switchStart"}
         /\ commands' = commands \/ (commands < CommandBound /\ commands' = commands + 1)
<1>1. CASE AddUnopened
  BY <1>1, OrdersFit DEF AddUnopened, Command, IsConf
<1>2. CASE SwitchUnopened
  BY <1>2 DEF SwitchUnopened, SessionInv, Functions, tableVars
<1> QED
  BY <1>1, <1>2

LEMMA SessionNext ==
  ASSUME SessionAssumption, SessionInv, [Next]_vars
  PROVE  SessionInv'
<1> USE DEF Command
<1>1. CASE UNCHANGED <<tableVars, cameraVars, switching>> /\ next' \in Nat
           /\ (UNCHANGED mainPc \/ mainPc' \notin {"switchStop", "switchStart"})
           /\ (mainPc = "switchStop" => mainPc' = "switchStop")
  BY <1>1, TableKept
<1>2. CASE UNCHANGED sessionVars
  BY <1>1, <1>2 DEF sessionVars, SessionInv, Functions
<1>3. CASE AddRefused \/ Snapshot \/ SnapshotAndDump \/ Dump
  BY <1>1, <1>3 DEF AddRefused, Snapshot, SnapshotAndDump, Dump, SessionInv, Functions
<1>4. CASE NoSuchCase \/ Quit \/ EndOfInput
  BY <1>1, <1>4 DEF NoSuchCase, Quit, EndOfInput, AfterInput, SessionInv, Functions
<1>5. CASE Exit
  BY <1>1, <1>5 DEF Exit, SessionInv, Functions
<1>6. CASE Add
  <2>1. PICK order \in AddOrders :
          LET conf == ParseAdd(DefaultConfig, order).conf
          IN /\ ParseAdd(DefaultConfig, order).ok
             /\ Free(conf.camera_id)
             /\ current_camera_id' = conf.camera_id
             /\ Enter(NewCase(conf.test_mode, conf, Hal[conf.camera_id]))
    BY <1>6 DEF Add
  <2> DEFINE conf == ParseAdd(DefaultConfig, order).conf
             case == NewCase(conf.test_mode, conf, Hal[conf.camera_id])
  <2>2. IsConf(conf) /\ conf.test_mode # "none" /\ conf.camera_id \in Cameras
    BY <2>1, OrdersFit DEF IsConf, TestModes
  <2>3. IsCase(case) /\ case.conf = conf /\ case # NoCase
    BY <2>2, NewCaseIsCase
  <2>4. mainPc = "loop" /\ mainPc' = "loop" /\ UNCHANGED <<switched, next>>
    BY <1>6 DEF Add
  <2>5. next' \in Nat
    BY <2>4 DEF SessionInv, Functions
  <2> HIDE DEF conf, case
  <2> QED
    BY <2>1, <2>2, <2>3, <2>4, <2>5, Starts DEF conf, case, Free
<1>7. CASE Switch
  <2> DEFINE k == current_camera_id
             Parsed(order) == ParseAdd(s_HAL3_test[k].conf, order).conf
  <2>1. PICK order \in SwitchOrders :
          /\ Parsed(order).camera_id = k \/ Free(Parsed(order).camera_id)
          /\ s_HAL3_test' = [s_HAL3_test EXCEPT ![k].conf = Parsed(order)]
          /\ switching' = NewCase("VIDEO", Parsed(order), Hal[Parsed(order).camera_id])
    BY <1>7 DEF Switch
  <2> DEFINE conf == Parsed(order)
  <2>2. /\ mainPc = "loop" /\ mainPc' = "switchStop" /\ k' = k
        /\ UNCHANGED <<current_camera_id, opened, running, switched, next>>
        /\ s_HAL3_test[k].conf.test_mode = "PREVIEW" /\ k \in Cameras
    BY <1>7 DEF Switch, cameraVars, SessionInv, Functions
  <2>3. Taken(k)
    BY <2>2, NoCaseIsNone DEF Taken
  <2>4. IsCase(s_HAL3_test[k]) /\ s_HAL3_test[k].conf.camera_id = k
    BY <2>2, <2>3 DEF SessionInv, SlotInv
  <2>5. IsConf(conf) /\ conf.camera_id \in Cameras
    BY <2>2, <2>4, OrdersFit DEF IsCase, IsConf
  <2>6. /\ IsCase(switching') /\ switching' # NoCase /\ switching'.conf = conf
    BY <2>1, <2>5, NewCaseIsCase
  <2>7. /\ s_HAL3_test'[k] = [s_HAL3_test[k] EXCEPT !.conf = conf]
        /\ \A d \in Cameras : d # k => s_HAL3_test'[d] = s_HAL3_test[d]
        /\ s_HAL3_test' = [d \in Cameras |-> s_HAL3_test'[d]]
    BY <2>1, <2>2 DEF SessionInv, Functions
  <2>8. IsCase(s_HAL3_test'[k]) /\ s_HAL3_test'[k] # NoCase
    BY <2>4, <2>5, <2>7, ConfChanged
  <2>14. Taken(conf.camera_id) => conf.camera_id = k
    BY <2>1 DEF Free
  <2> HIDE DEF Parsed, conf
  <2>9. \A d \in Cameras : Taken(d)' <=> Taken(d)
    BY <2>3, <2>7, <2>8 DEF Taken
  <2>10. Functions'
    <3>1. s_HAL3_test' = [d \in Cameras |-> s_HAL3_test'[d]]
      BY <2>7
    <3> QED
      BY <2>2, <3>1 DEF SessionInv, Functions
  <2>11. SlotInv'
    <3> SUFFICES ASSUME NEW d \in Cameras, Taken(d)'
        PROVE  /\ IsCase(s_HAL3_test'[d])
               /\ s_HAL3_test'[d].conf.camera_id = d \/ d = k
      BY <2>2 DEF SlotInv
    <3>1. CASE d = k
      BY <2>8, <3>1
    <3>2. CASE d # k
      BY <2>2, <2>7, <2>9, <3>2 DEF SessionInv, SlotInv
    <3> QED
      BY <3>1, <3>2
  <2>12. SwitchInv'
    <3>1. Taken(k)'
      BY <2>2, <2>3, <2>9
    <3>2. switching'.conf.camera_id \in Cameras
      BY <2>5, <2>6
    <3>3. Taken(switching.conf.camera_id)' => switching'.conf.camera_id = k
      BY <2>5, <2>6, <2>9, <2>14 DEF Taken
    <3> QED
      BY <2>2, <2>6, <3>1, <3>2, <3>3 DEF SwitchInv, Taken
  <2>13. DeviceFollowsSlot'
    BY <2>2, <2>9 DEF SessionInv, DeviceFollowsSlot
  <2> QED
    BY <2>2, <2>10, <2>11, <2>12, <2>13 DEF SessionInv
<1>8. CASE SwitchStop
  <2> DEFINE k == current_camera_id
  <2>1. /\ mainPc = "switchStop" /\ mainPc' = "switchStart" /\ k \in Cameras
        /\ UNCHANGED <<current_camera_id, opened, switching, next>>
        /\ running' = [running EXCEPT ![k] = @ - 1]
        /\ switched' = [switched EXCEPT ![k] = @ + 1]
        /\ s_HAL3_test' = [s_HAL3_test EXCEPT ![k] = NoCase]
    BY <1>8 DEF SwitchStop, SessionInv, Functions
  <2>2. Taken(k) /\ running[k] = 1
    BY <2>1 DEF SessionInv, SwitchInv, DeviceFollowsSlot
  <2>3. /\ \A d \in Cameras : d # k =>
             /\ s_HAL3_test'[d] = s_HAL3_test[d] /\ running'[d] = running[d]
             /\ switched'[d] = switched[d]
        /\ s_HAL3_test'[k] = NoCase /\ running'[k] = 0
        /\ switched'[k] = switched[k] + 1
    BY <2>1, <2>2 DEF SessionInv, Functions
  <2>4. Functions'
    <3>1. s_HAL3_test' = [d \in Cameras |-> s_HAL3_test'[d]]
      BY <2>1 DEF SessionInv, Functions
    <3>2. running' \in [Cameras -> Int] /\ switched' \in [Cameras -> Int]
      BY <2>1 DEF SessionInv, Functions
    <3> QED
      BY <2>1, <3>1, <3>2 DEF SessionInv, Functions
  <2>5. SlotInv' /\ SwitchInv'
    <3>1. \A d \in Cameras : Taken(d)' <=> d # k /\ Taken(d)
      BY <2>3 DEF Taken
    <3>2. SlotInv'
      BY <2>1, <2>3, <3>1 DEF SessionInv, SlotInv
    <3>3. /\ IsCase(switching) /\ switching # NoCase
          /\ switching.conf.camera_id \in Cameras
          /\ Taken(switching.conf.camera_id) => switching.conf.camera_id = k
      BY <2>1 DEF SessionInv, SwitchInv, IsCase, IsConf
    <3>4. ~Taken(switching.conf.camera_id)'
      BY <2>1, <3>1, <3>3 DEF Taken
    <3> QED
      BY <2>1, <3>2, <3>3, <3>4 DEF SwitchInv
  <2>6. DeviceFollowsSlot'
    BY <2>1, <2>2, <2>3 DEF SessionInv, DeviceFollowsSlot, Taken, Functions
  <2> QED
    BY <2>1, <2>4, <2>5, <2>6 DEF SessionInv
<1>9. CASE SwitchStart
  <2>1. /\ mainPc = "switchStart" /\ mainPc' = "loop" /\ Enter(switching)
        /\ UNCHANGED <<current_camera_id, switched, next>>
    BY <1>9 DEF SwitchStart
  <2>2. /\ IsCase(switching) /\ switching # NoCase
        /\ switching.conf.camera_id \in Cameras
        /\ ~Taken(switching.conf.camera_id)
    BY <2>1 DEF SessionInv, SwitchInv, IsCase, IsConf
  <2>3. next' \in Nat /\ current_camera_id' \in Cameras
    BY <2>1 DEF SessionInv, Functions
  <2> QED
    BY <2>1, <2>2, <2>3, Starts
<1>10. CASE Delete
  <2>1. PICK c \in Cameras : Taken(c) /\ EndCase(c)
    BY <1>10 DEF Delete
  <2> QED
    BY <1>10, <2>1, Ends DEF Delete, SessionInv, Functions
<1>11. CASE Cleanup
  <2>1. /\ mainPc = "cleanup" /\ next' = next + 1 /\ next' \in Nat
        /\ UNCHANGED <<current_camera_id, switched, mainPc, switching>>
    BY <1>11 DEF Cleanup, SessionInv, Functions
  <2>2. next \in Cameras
    BY <1>11 DEF Cleanup, CleanupDone, SessionAssumption, SessionInv, Functions
  <2>3. CASE Taken(next)
    <3>1. EndCase(next)
      BY <1>11, <2>3 DEF Cleanup
    <3> QED
      BY <2>1, <2>2, <2>3, <3>1, Ends
  <2>4. CASE ~Taken(next)
    BY <1>1, <1>11, <2>1, <2>4 DEF Cleanup, tableVars, cameraVars
  <2> QED
    BY <2>3, <2>4
<1>12. CASE UNCHANGED vars
  BY <1>2, <1>12 DEF vars, sessionVars
<1>13. CASE Trigger
  BY <1>2, <1>13 DEF Trigger
<1>14. CASE \E c \in Cameras : ResultThread(c)
  BY <1>2, <1>14 DEF ResultThread, ResultFrame
<1>15. CASE AddUnopened \/ SwitchUnopened
  <2>1. /\ UNCHANGED <<s_HAL3_test, opened, running, switched, next>>
        /\ current_camera_id' \in Cameras
        /\ mainPc \in {"loop", "switchStart"} /\ mainPc' = "fault"
    BY <1>15, Unopened DEF cameraVars
  <2> QED
    BY <2>1 DEF SessionInv, Functions, SwitchInv, SlotInv, DeviceFollowsSlot, Taken
<1> QED
  BY <1>3, <1>4, <1>5, <1>6, <1>7, <1>8, <1>9, <1>10, <1>11, <1>12, <1>13, <1>14, <1>15
     DEF Next, Main, UserCommand

\* Whatever the commands, a camera has live threads exactly as long as its slot
\* is taken, and its open devices are that case's and those v has left
\* (QCamxHAL3TestMain.cpp:398-437, 487-507, 566-576).
THEOREM DevicesFollowSlots == Spec => []DeviceFollowsSlot
<1>1. Init => SessionInv
  BY SessionInit, SessionAssumption
<1>2. SessionInv /\ [Next]_vars => SessionInv'
  BY SessionNext, SessionAssumption
<1>3. SessionInv => DeviceFollowsSlot
  BY DEF SessionInv
<1> QED
  BY <1>1, <1>2, <1>3, PTL DEF Spec

\* A case stands in the slot of the camera it drives, also after a v that names
\* another camera (QCamxHAL3TestMain.cpp:420-436).
THEOREM SlotsAgree == Spec => []SlotAgrees
<1>1. Init => SessionInv
  BY SessionInit, SessionAssumption
<1>2. SessionInv /\ [Next]_vars => SessionInv'
  BY SessionNext, SessionAssumption
<1>3. SessionInv => SlotAgrees
  BY DEF SessionInv, SlotInv, SlotAgrees
<1> QED
  BY <1>1, <1>2, <1>3, PTL DEF Spec

LEMMA SessionInvariance == Spec => []SessionInv
<1>1. Init => SessionInv
  BY SessionInit, SessionAssumption
<1>2. SessionInv /\ [Next]_vars => SessionInv'
  BY SessionNext, SessionAssumption
<1> QED
  BY <1>1, <1>2, PTL DEF Spec

----------------------------------------------------------------------------
(* The end of the program *)

\* The clean-up starts at slot 0 and leaves nothing behind it.
CleanInv ==
  /\ mainPc \notin {"cleanup", "exit"} => next = 0
  /\ mainPc \in {"cleanup", "exit"} => \A c \in Cameras : c < next => ~Taken(c)
  /\ mainPc = "exit" => next > Max(Cameras)

\* Where main goes, and which slots change on the way.
LEMMA MainSteps ==
  ASSUME [Next]_vars
  PROVE  \/ mainPc \notin {"cleanup", "exit"} /\ UNCHANGED next
            /\ mainPc' \in {"loop", "switchStop", "switchStart", "cleanup", "fault", mainPc}
         \/ UNCHANGED <<s_HAL3_test, mainPc, next>>
         \/ Cleanup \/ Exit
BY DEF Next, Main, UserCommand, Command, AddRefused, Add, AddUnopened, Switch, SwitchStop,
   SwitchStart, SwitchUnopened,
   Snapshot, SnapshotAndDump, Dump, NoSuchCase, Delete, Quit, EndOfInput, AfterInput,
   Trigger, ResultThread, ResultFrame, vars, tableVars, sessionVars

LEMMA CleanStep ==
  ASSUME SessionAssumption, SessionInv, CleanInv, [Next]_vars
  PROVE  CleanInv'
<1>0. next \in Nat /\ Max(Cameras) \in Nat /\ Cameras = 0 .. Max(Cameras)
  BY DEF SessionInv, Functions, SessionAssumption
<1>1. CASE mainPc \notin {"cleanup", "exit"} /\ UNCHANGED next
           /\ mainPc' \in {"loop", "switchStop", "switchStart", "cleanup", "fault", mainPc}
  BY <1>0, <1>1 DEF CleanInv
<1>2. CASE UNCHANGED <<s_HAL3_test, mainPc, next>>
  BY <1>2 DEF CleanInv, Taken
<1>3. CASE Cleanup
  <2>1. mainPc = "cleanup" /\ mainPc' = "cleanup" /\ next' = next + 1 /\ next \in Cameras
    BY <1>0, <1>3 DEF Cleanup, CleanupDone
  <2>2. s_HAL3_test' = [s_HAL3_test EXCEPT ![next] = NoCase] \/ s_HAL3_test' = s_HAL3_test
    BY <1>3 DEF Cleanup, EndCase
  <2>3. \A c \in Cameras : Taken(c)' => Taken(c) /\ c # next
    BY <1>3, <2>1, <2>2 DEF Cleanup, EndCase, Taken, SessionInv, Functions
  <2>4. \A c \in Cameras : c < next + 1 => c < next \/ c = next
    BY <1>0
  <2> QED
    BY <2>1, <2>3, <2>4 DEF CleanInv
<1>4. CASE Exit
  BY <1>4 DEF Exit, CleanupDone, CleanInv, tableVars, Taken
<1> QED
  BY <1>1, <1>2, <1>3, <1>4, MainSteps

LEMMA CleanInvariance == Spec => []CleanInv
<1>1. Init => CleanInv
  BY DEF Init, CleanInv
<1>2. SessionInv /\ CleanInv /\ [Next]_vars => CleanInv'
  BY CleanStep, SessionAssumption
<1> QED
  BY <1>1, <1>2, SessionInvariance, PTL DEF Spec

\* When main returns, by Q or at the end of the input, no case is left in any slot
\* and no camera has live threads (QCamxHAL3TestMain.cpp:566-576).
THEOREM NothingLeftAtExit == Spec => []CleanExit
<1>1. ASSUME SessionInv, CleanInv, mainPc = "exit", NEW c \in Cameras
      PROVE  ~Taken(c) /\ running[c] = 0
  <2>1. c < next
    BY <1>1, SessionAssumption DEF CleanInv, SessionAssumption, SessionInv, Functions
  <2> QED
    BY <1>1, <2>1 DEF CleanInv, SessionInv, DeviceFollowsSlot
<1>2. SessionInv /\ CleanInv => CleanExit
  BY <1>1 DEF CleanExit
<1> QED
  BY <1>2, SessionInvariance, CleanInvariance, PTL

----------------------------------------------------------------------------
(* What a step does to the counters of the cases *)

\* The case of a slot stays what it is, apart from its configuration.
SameCase(c) ==
  /\ Taken(c)' <=> Taken(c)
  /\ s_HAL3_test'[c].class = s_HAL3_test[c].class
  /\ s_HAL3_test'[c].streams = s_HAL3_test[c].streams

TriggerOn(c) == trigger.pc # "none" /\ trigger.camera = c

\* A case ends, in D, v or the clean-up.
Resets(c) ==
  /\ post[c] = NoFrame /\ (mainPc = "loop" => trigger.pc = "none")
  /\ ResetDump(c) /\ ~Taken(c)'
  /\ \A d \in Cameras \ {c} : SameCase(d)

\* s, S, E or v asks a case for pictures, S and E for a dump as well.
Asks(c, n) ==
  /\ Taken(c) /\ Capture(c, n)
  /\ \/ UNCHANGED trigger
     \/ /\ trigger.pc = "none" /\ mainPc = "loop" /\ mainPc' = "loop"
        /\ s_HAL3_test[c].class \in DumpClasses
        /\ n \in Counts \cup {1} /\ TriggerDump(c, n, 0)
  /\ UNCHANGED <<s_HAL3_test, preview_num, video_num, interval, post, asked, dumped>>

\* P
Dumps(c, n, i) ==
  /\ Taken(c) /\ s_HAL3_test[c].class \in DumpClasses
  /\ trigger.pc = "none" /\ mainPc = "loop" /\ mainPc' = "loop"
  /\ TriggerDump(c, n, i)
  /\ UNCHANGED <<s_HAL3_test, counterVars, pictures, post, asked, dumped>>

LEMMA EmptySlot ==
  ASSUME SessionInv, NEW c \in Cameras, s_HAL3_test' = [s_HAL3_test EXCEPT ![c] = NoCase]
  PROVE  ~Taken(c)' /\ \A d \in Cameras \ {c} : SameCase(d)
BY DEF SessionInv, Functions, Taken, SameCase

\* The steps that concern the counters, and those that do not: these at most put a
\* case into a free slot.
LEMMA DumpSteps ==
  ASSUME SessionAssumption, SessionInv, [Next]_vars
  PROVE  \/ UNCHANGED dumpVars /\ \A c \in Cameras : SameCase(c) \/ ~Taken(c)
         \/ \E c \in Cameras : Resets(c)
         \/ \E c \in Cameras, n \in Counts \cup {0, 1} : Asks(c, n)
         \/ \E c \in Cameras, n \in Counts, i \in Intervals : Dumps(c, n, i)
         \/ Trigger
         \/ \E c \in Cameras : ResultThread(c)
<1> USE DEF Command
<1>1. CASE UNCHANGED <<s_HAL3_test, dumpVars>>
  BY <1>1 DEF SameCase, Taken
<1>2. CASE AddRefused \/ NoSuchCase \/ Quit \/ EndOfInput \/ Exit \/ UNCHANGED vars
  BY <1>1, <1>2 DEF AddRefused, NoSuchCase, Quit, EndOfInput, Exit, tableVars, vars
<1>12. CASE AddUnopened \/ SwitchUnopened
  BY <1>1, <1>12, Unopened
<1>3. CASE Add
  <2>1. PICK c \in Cameras :
          ~Taken(c) /\ \E case : s_HAL3_test' = [s_HAL3_test EXCEPT ![c] = case]
    <3>1. PICK order \in AddOrders :
            LET conf == ParseAdd(DefaultConfig, order).conf
            IN /\ ParseAdd(DefaultConfig, order).ok
               /\ Free(conf.camera_id)
               /\ Enter(NewCase(conf.test_mode, conf, Hal[conf.camera_id]))
      BY <1>3 DEF Add
    <3> DEFINE conf == ParseAdd(DefaultConfig, order).conf
               case == NewCase(conf.test_mode, conf, Hal[conf.camera_id])
    <3>2. IsConf(conf) /\ conf.test_mode # "none" /\ conf.camera_id \in Cameras
      BY <3>1, OrdersFit DEF IsConf, TestModes
    <3>3. case.conf = conf
      BY <3>2, NewCaseIsCase
    <3>4. ~Taken(conf.camera_id) /\ Enter(case)
      BY <3>1 DEF Free
    <3> HIDE DEF conf, case
    <3> QED
      BY <3>2, <3>3, <3>4 DEF Enter, SlotOf
  <2>2. \A d \in Cameras \ {c} : SameCase(d)
    BY <2>1 DEF SessionInv, Functions, SameCase, Taken
  <2>3. UNCHANGED dumpVars
    BY <1>3 DEF Add
  <2> QED
    BY <2>1, <2>2, <2>3
<1>4. CASE SwitchStart
  <2> DEFINE c == switching.conf.camera_id
  <2>1. c \in Cameras /\ ~Taken(c)
    BY <1>4 DEF SwitchStart, SessionInv, SwitchInv, IsCase, IsConf
  <2>2. s_HAL3_test' = [s_HAL3_test EXCEPT ![c] = switching] /\ UNCHANGED dumpVars
    BY <1>4 DEF SwitchStart, Enter, SlotOf
  <2>3. \A d \in Cameras \ {c} : SameCase(d)
    BY <2>1, <2>2 DEF SessionInv, Functions, SameCase, Taken
  <2> QED
    BY <2>1, <2>2, <2>3
<1>5. CASE Switch
  <2> PICK k \in Cameras : k = current_camera_id
    BY DEF SessionInv, Functions
  <2> DEFINE Parsed(order) == ParseAdd(s_HAL3_test[k].conf, order).conf
  <2>1. PICK order \in SwitchOrders :
          s_HAL3_test' = [s_HAL3_test EXCEPT ![k].conf = Parsed(order)]
    BY <1>5 DEF Switch
  <2> DEFINE conf == Parsed(order)
  <2>2. s_HAL3_test[k].conf.test_mode = "PREVIEW" /\ k \in Cameras /\ mainPc # "switchStop"
        /\ UNCHANGED dumpVars
    BY <1>5 DEF Switch, SessionInv, Functions
  <2>3. Taken(k)
    BY <2>2, NoCaseIsNone DEF Taken
  <2>4. IsCase(s_HAL3_test[k])
    BY <2>2, <2>3 DEF SessionInv, SlotInv
  <2>5. IsConf(conf)
    BY <2>4, OrdersFit DEF IsCase
  <2>6. /\ s_HAL3_test'[k] = [s_HAL3_test[k] EXCEPT !.conf = conf]
        /\ \A d \in Cameras \ {k} : s_HAL3_test'[d] = s_HAL3_test[d]
    BY <2>1, <2>2 DEF SessionInv, Functions
  <2> HIDE DEF conf
  <2>7. /\ s_HAL3_test'[k] # NoCase
        /\ s_HAL3_test'[k].class = s_HAL3_test[k].class
        /\ s_HAL3_test'[k].streams = s_HAL3_test[k].streams
    BY <2>4, <2>5, <2>6, ConfChanged
  <2>8. SameCase(k)
    BY <2>2, <2>3, <2>7 DEF SameCase, Taken
  <2>9. \A d \in Cameras \ {k} : SameCase(d)
    BY <2>6 DEF SameCase, Taken
  <2> QED
    BY <2>2, <2>8, <2>9
<1>6. CASE SwitchStop
  <2>1. current_camera_id \in Cameras /\ mainPc # "loop"
    BY <1>6 DEF SwitchStop, SessionInv, Functions
  <2>2. Resets(current_camera_id)
    BY <1>6, <2>1, EmptySlot DEF SwitchStop, Resets
  <2> QED
    BY <2>1, <2>2
<1>7. CASE Delete
  BY <1>7, EmptySlot DEF Delete, EndCase, Resets
<1>8. CASE Cleanup
  <2>1. next \in Cameras /\ mainPc # "loop"
    BY <1>8 DEF Cleanup, CleanupDone, SessionAssumption, SessionInv, Functions
  <2>2. CASE Taken(next)
    BY <1>8, <2>1, <2>2, EmptySlot DEF Cleanup, EndCase, Resets
  <2>3. CASE ~Taken(next)
    BY <1>1, <1>8, <2>3 DEF Cleanup
  <2> QED
    BY <2>2, <2>3
<1>9. CASE Snapshot
  <2>1. UNCHANGED <<s_HAL3_test, preview_num, video_num, interval, post, trigger, asked,
                   dumped>>
    BY <1>9 DEF Snapshot, tableVars
  <2>2. \E c \in Cameras, n \in Counts \cup {0, 1} : Taken(c) /\ Capture(c, n)
    BY <1>9 DEF Snapshot, SessionInv, Functions
  <2> QED
    BY <2>1, <2>2 DEF Asks
<1>10. CASE SnapshotAndDump
  <2>1. /\ UNCHANGED <<s_HAL3_test, preview_num, video_num, interval, post, asked, dumped>>
        /\ mainPc = "loop" /\ mainPc' = "loop" /\ trigger.pc = "none"
    BY <1>10 DEF SnapshotAndDump, tableVars
  <2>2. PICK c \in Cameras, n \in Counts \cup {1} :
          Taken(c) /\ s_HAL3_test[c].class \in DumpClasses /\ Capture(c, n)
          /\ TriggerDump(c, n, 0)
    BY <1>10 DEF SnapshotAndDump
  <2> QED
    BY <2>1, <2>2 DEF Asks
<1>11. CASE Dump
  BY <1>11 DEF Dump, Dumps, tableVars
<1> QED
  BY <1>2, <1>3, <1>4, <1>5, <1>6, <1>7, <1>8, <1>9, <1>10, <1>11, <1>12
     DEF Next, Main, UserCommand

----------------------------------------------------------------------------
(* Types *)

\* The type of a dump command, and what a picture's counter may be.
DumpTyped ==
  /\ DumpTypeOK
  /\ trigger \in [pc : {"none", "preview", "video", "interval"}, camera : Cameras,
                  count : Counts \cup {0, 1}, interval : Intervals]
  /\ trigger.pc # "none" => mainPc = "loop"
  /\ \A c \in Cameras :
       /\ snapshot_num[c] < Word
       /\ post[c].pc # "idle" => post[c].counter # "none"
       /\ post[c].pc = "file" /\ post[c].counter = "snapshot" => snapshot_num[c] >= 0

LEMMA DumpFacts ==
  /\ Word \in Nat /\ 0 \in Intervals /\ Intervals \subseteq Nat
  /\ Counts \cup {0, 1} \subseteq 0 .. Word - 1
  /\ \A n \in Counts \cup {0, 1} : n \in Nat
<1>1. Word \in Nat /\ 1 + 1 < Word
  BY DumpAssumption DEF DumpAssumption
<1>2. \A n \in Counts : n \in Nat /\ n + 1 < Word
  BY DumpAssumption DEF DumpAssumption
<1> QED
  BY <1>1, <1>2, DumpAssumption DEF DumpAssumption

LEMMA MaxOfTwo ==
  ASSUME NEW a \in Int, NEW b \in Int
  PROVE  Max({a, b}) = IF a >= b THEN a ELSE b
BY DEF Max

LEMMA MinOfTwo ==
  ASSUME NEW a \in Int, NEW b \in Int
  PROVE  Min({a, b}) = IF a <= b THEN a ELSE b
BY DEF Min

\* The counters of a stream by name.
LEMMA CounterIs ==
  /\ \A c : /\ Counter(c, "preview") = preview_num[c]
            /\ Counter(c, "video") = video_num[c]
            /\ Counter(c, "snapshot") = snapshot_num[c]
  /\ \A type \in DumpedTypes :
       /\ CounterTested(type) \in {"preview", "video", "snapshot"}
       /\ CounterTested(type) = "snapshot" <=> type = "SNAPSHOT"
  /\ \A class, type : class # "VIDEO_ONLY" =>
       CounterReduced(class, type) = CounterTested(type)
  /\ \A type : CounterReduced("VIDEO_ONLY", type) = "preview"
BY DEF Counter, DumpedTypes, CounterTested, CounterReduced

\* The effect of a frame on one camera, and none on the others.
LEMMA FrameEffect ==
  ASSUME NEW c \in Cameras, NEW class, NEW type \in DumpedTypes,
         NEW onDemand \in BOOLEAN, Frame(c, class, type, onDemand)
  PROVE  /\ UNCHANGED <<counterVars, trigger, asked>>
         /\ post[c].pc = "idle"
         /\ pictures' = IF onDemand THEN [pictures EXCEPT ![c] = @ - 1] ELSE pictures
         /\ onDemand => pictures[c] > 0
         /\ \/ UNCHANGED <<post, dumped>>
               /\ (type = "SNAPSHOT" => ~(Counter(c, "snapshot") > 0))
            \/ /\ Counter(c, CounterTested(type)) > 0
               /\ post' = [post EXCEPT ![c] =
                             [pc |-> "file", value |-> 0,
                              counter |-> CounterReduced(class, type)]]
               /\ dumped' = [dumped EXCEPT ![c] = FileCounted(c, CounterTested(type))]
BY CounterIs DEF Frame, Wanted

LEMMA ResultType ==
  ASSUME DumpTyped, NEW c \in Cameras, ResultThread(c)
  PROVE  DumpTyped'
<1> USE DEF DumpTyped
<1>0. DumpTypeOK /\ post[c] \in [pc : {"idle", "file", "store"},
                                 counter : {"none", "preview", "video", "snapshot"},
                                 value : 0 .. Word - 1]
  BY DEF DumpTypeOK
<1>1. mainPc' = mainPc
  BY DEF ResultThread, ResultFrame, sessionVars
<1>2. ASSUME NEW type \in DumpedTypes, ResultFrame(c, type) PROVE DumpTyped'
  <2> PICK class : class = s_HAL3_test[c].class
    OBVIOUS
  <2> PICK onDemand \in BOOLEAN : onDemand = (type = "SNAPSHOT" /\ OnDemand(s_HAL3_test[c]))
    OBVIOUS
  <2>1. Frame(c, class, type, onDemand)
    BY <1>2 DEF ResultFrame
  <2> DEFINE k == CounterTested(type)
  <2>2. /\ UNCHANGED <<counterVars, trigger, asked>>
        /\ pictures' = IF onDemand THEN [pictures EXCEPT ![c] = @ - 1] ELSE pictures
        /\ onDemand => pictures[c] > 0
        /\ \/ UNCHANGED <<post, dumped>>
           \/ /\ Counter(c, k) > 0
              /\ post' = [post EXCEPT ![c] = [pc |-> "file", value |-> 0,
                                              counter |-> CounterReduced(class, type)]]
              /\ dumped' = [dumped EXCEPT ![c] = FileCounted(c, k)]
    BY <2>1, CounterIs DEF Frame, Wanted
  <2>3. pictures' \in [Cameras -> Nat]
    BY <1>0, <2>2 DEF DumpTypeOK
  <2>4. k \in {"preview", "video", "snapshot"}
    BY CounterIs
  <2>5. CounterReduced(class, type) \in {"preview", k}
    BY CounterIs
  <2> HIDE DEF k
  <2>6. CASE UNCHANGED <<post, dumped>>
    BY <1>0, <1>1, <2>2, <2>3, <2>6 DEF DumpTypeOK, counterVars
  <2>7. CASE /\ Counter(c, k) > 0
             /\ post' = [post EXCEPT ![c] = [pc |-> "file", value |-> 0,
                                             counter |-> CounterReduced(class, type)]]
             /\ dumped' = [dumped EXCEPT ![c] = FileCounted(c, k)]
    <3>1. post' \in [Cameras -> [pc : {"idle", "file", "store"},
                                 counter : {"none", "preview", "video", "snapshot"},
                                 value : 0 .. Word - 1]]
      BY <1>0, <2>4, <2>5, <2>7, DumpFacts DEF DumpTypeOK
    <3>2. FileCounted(c, k) \in [preview : Nat, video : Nat]
      <4>1. dumped[c] \in [preview : Nat, video : Nat] /\ asked[c] \in Nat
        BY <1>0, DumpFacts DEF DumpTypeOK
      <4>2. CASE k = "snapshot"
        BY <4>1, <4>2 DEF FileCounted
      <4>3. CASE k \in {"preview", "video"}
        <5>1. dumped[c][k] \in Nat
          BY <4>1, <4>3
        <5>2. Min({dumped[c][k] + 1, asked[c] + 2}) \in Nat
          BY <4>1, <5>1, MinOfTwo
        <5> QED
          BY <4>1, <4>3, <5>2 DEF FileCounted
      <4> QED
        BY <2>4, <4>2, <4>3
    <3>3. dumped' \in [Cameras -> [preview : Nat, video : Nat]]
      BY <1>0, <2>7, <3>2 DEF DumpTypeOK
    <3>4. \A d \in Cameras :
            /\ post'[d].pc # "idle" => post'[d].counter # "none"
            /\ post'[d].pc = "file" /\ post'[d].counter = "snapshot" => snapshot_num[d] >= 0
      <4>1. \A d \in Cameras \ {c} : post'[d] = post[d]
        BY <1>0, <2>7 DEF DumpTypeOK
      <4>2. post'[c].pc = "file" /\ post'[c].counter = CounterReduced(class, type)
        BY <1>0, <2>7 DEF DumpTypeOK
      <4>3. k = "snapshot" => snapshot_num[c] > 0
        BY <2>7, CounterIs
      <4>4. snapshot_num[c] \in Int
        BY <1>0 DEF DumpTypeOK
      <4> QED
        BY <2>4, <2>5, <4>1, <4>2, <4>3, <4>4
    <3> QED
      BY <1>0, <1>1, <2>2, <2>3, <3>1, <3>3, <3>4 DEF DumpTypeOK, counterVars
  <2> QED
    BY <2>2, <2>6, <2>7
<1>3. ASSUME FileWritten(c) PROVE DumpTyped'
  <2>1. /\ post[c].pc = "file" /\ UNCHANGED <<counterVars, pictures, trigger, asked, dumped>>
        /\ post' = [post EXCEPT ![c] =
             IF post[c].counter # "snapshot" /\ interval[c] > 0 THEN NoFrame
             ELSE [@ EXCEPT !.pc = "store", !.value = Counter(c, post[c].counter)]]
    BY <1>3 DEF FileWritten
  <2>2. Counter(c, post[c].counter) \in 0 .. Word - 1
    <3>1. post[c].counter \in {"preview", "video", "snapshot"}
      BY <1>0, <2>1
    <3>2. preview_num[c] \in 0 .. Word - 1 /\ video_num[c] \in 0 .. Word - 1
          /\ snapshot_num[c] \in Int
      BY <1>0 DEF DumpTypeOK
    <3> QED
      BY <2>1, <3>1, <3>2, CounterIs, DumpFacts
  <2>3. \/ post'[c] = NoFrame
        \/ post'[c] = [pc |-> "store", counter |-> post[c].counter,
                       value |-> Counter(c, post[c].counter)]
    BY <1>0, <2>1 DEF DumpTypeOK
  <2>4. \A d \in Cameras \ {c} : post'[d] = post[d]
    BY <1>0, <2>1 DEF DumpTypeOK
  <2>5. post'[c] \in [pc : {"idle", "file", "store"},
                      counter : {"none", "preview", "video", "snapshot"},
                      value : 0 .. Word - 1]
    BY <1>0, <2>2, <2>3, DumpFacts DEF NoFrame
  <2>6. post' \in [Cameras -> [pc : {"idle", "file", "store"},
                               counter : {"none", "preview", "video", "snapshot"},
                               value : 0 .. Word - 1]]
    BY <1>0, <2>1, <2>4, <2>5 DEF DumpTypeOK
  <2> QED
    BY <1>0, <1>1, <2>1, <2>3, <2>4, <2>6 DEF DumpTypeOK, counterVars, NoFrame
<1>4. ASSUME CountDown(c) PROVE DumpTyped'
  <2> DEFINE k == post[c].counter
             v == post[c].value
  <2>1. /\ UNCHANGED <<interval, pictures, trigger, asked, dumped>>
        /\ post' = [post EXCEPT ![c] = NoFrame]
        /\ preview_num' = preview_num \/ preview_num' = [preview_num EXCEPT ![c] = CountedDown(v)]
        /\ video_num' = video_num \/ video_num' = [video_num EXCEPT ![c] = CountedDown(v)]
        /\ snapshot_num' = snapshot_num \/ snapshot_num' = [snapshot_num EXCEPT ![c] = v - 1]
    BY <1>4 DEF CountDown
  <2>2. v \in 0 .. Word - 1 /\ Word \in Nat \ {0}
    BY <1>0, DumpFacts
  <2>3. CountedDown(v) \in 0 .. Word - 1 /\ v - 1 \in Int /\ v - 1 < Word
    BY <2>2 DEF CountedDown
  <2>4. NoFrame \in [pc : {"idle", "file", "store"},
                     counter : {"none", "preview", "video", "snapshot"},
                     value : 0 .. Word - 1]
    BY <2>2 DEF NoFrame
  <2> HIDE DEF k, v
  <2>5. DumpTypeOK'
    <3>1. preview_num' \in [Cameras -> 0 .. Word - 1] /\ video_num' \in [Cameras -> 0 .. Word - 1]
      <4>1. preview_num \in [Cameras -> 0 .. Word - 1] /\ video_num \in [Cameras -> 0 .. Word - 1]
        BY <1>0 DEF DumpTypeOK
      <4> QED
        BY <2>1, <2>3, <4>1
    <3>2. snapshot_num' \in [Cameras -> Int]
      BY <1>0, <2>1, <2>3 DEF DumpTypeOK
    <3>3. post' \in [Cameras -> [pc : {"idle", "file", "store"},
                                 counter : {"none", "preview", "video", "snapshot"},
                                 value : 0 .. Word - 1]]
      BY <1>0, <2>1, <2>4 DEF DumpTypeOK
    <3> QED
      BY <1>0, <2>1, <3>1, <3>2, <3>3 DEF DumpTypeOK
  <2>6. \A d \in Cameras :
          /\ snapshot_num'[d] < Word
          /\ post'[d].pc # "idle" => post'[d].counter # "none"
          /\ post'[d].pc = "file" /\ post'[d].counter = "snapshot" => snapshot_num'[d] >= 0
    BY <1>0, <2>1, <2>3 DEF DumpTypeOK, NoFrame
  <2> QED
    BY <1>1, <2>1, <2>5, <2>6
<1> QED
  BY <1>2, <1>3, <1>4 DEF ResultThread

LEMMA ResetType ==
  ASSUME DumpTyped, NEW c \in Cameras, Resets(c)
  PROVE  DumpTyped'
<1>1. /\ preview_num' = [preview_num EXCEPT ![c] = 0]
      /\ video_num' = [video_num EXCEPT ![c] = 0]
      /\ interval' = [interval EXCEPT ![c] = 0]
      /\ snapshot_num' = [snapshot_num EXCEPT ![c] = 0]
      /\ pictures' = [pictures EXCEPT ![c] = 0]
      /\ asked' = [asked EXCEPT ![c] = 0]
      /\ dumped' = [dumped EXCEPT ![c] = NothingDumped]
      /\ UNCHANGED <<post, trigger>>
  BY DEF Resets, ResetDump
<1>2. 0 \in 0 .. Word - 1 /\ 0 \in Intervals /\ 0 < Word
  BY DumpFacts
<1>3. preview_num' \in [Cameras -> 0 .. Word - 1] /\ video_num' \in [Cameras -> 0 .. Word - 1]
  <2>1. preview_num \in [Cameras -> 0 .. Word - 1] /\ video_num \in [Cameras -> 0 .. Word - 1]
    BY DEF DumpTyped, DumpTypeOK
  <2> QED
    BY <1>1, <1>2, <2>1
<1>4. DumpTypeOK'
  BY <1>1, <1>2, <1>3 DEF DumpTyped, DumpTypeOK, NothingDumped
<1>5. trigger.pc # "none" => mainPc = "loop" /\ mainPc' = "loop"
  BY <1>1 DEF DumpTyped, Resets
<1>6. \A d \in Cameras : snapshot_num'[d] = IF d = c THEN 0 ELSE snapshot_num[d]
  BY <1>1 DEF DumpTyped, DumpTypeOK
<1> QED
  BY <1>1, <1>2, <1>4, <1>5, <1>6 DEF DumpTyped

LEMMA AskType ==
  ASSUME DumpTyped, NEW c \in Cameras, NEW n \in Counts \cup {0, 1}, Asks(c, n),
         trigger.pc # "none" => mainPc' = mainPc
  PROVE  DumpTyped'
<1>1. /\ snapshot_num' = snapshot_num \/ snapshot_num' = [snapshot_num EXCEPT ![c] = n]
      /\ pictures' = pictures \/ pictures' = [pictures EXCEPT ![c] = @ + n]
      /\ \/ UNCHANGED trigger
         \/ /\ mainPc' = "loop" /\ n \in Counts \cup {1}
            /\ trigger' = [pc |-> "preview", camera |-> c, count |-> n, interval |-> 0]
      /\ UNCHANGED <<preview_num, video_num, interval, post, asked, dumped>>
  BY DEF Asks, Capture, RequestCapture, SnapshotNum, TriggerDump
<1>2. n \in 0 .. Word - 1 /\ n \in Nat /\ 0 \in Intervals /\ n < Word
  BY DumpFacts
<1>3. DumpTypeOK'
  BY <1>1, <1>2 DEF DumpTyped, DumpTypeOK
<1>4. \A d \in Cameras : snapshot_num'[d] \in {n, snapshot_num[d]}
  BY <1>1 DEF DumpTyped, DumpTypeOK
<1>5. /\ trigger' \in [pc : {"none", "preview", "video", "interval"}, camera : Cameras,
                      count : Counts \cup {0, 1}, interval : Intervals]
      /\ trigger'.pc # "none" => mainPc' = "loop"
  BY <1>1, <1>2 DEF DumpTyped
<1> QED
  BY <1>1, <1>2, <1>3, <1>4, <1>5 DEF DumpTyped

LEMMA DumpsType ==
  ASSUME DumpTyped, NEW c \in Cameras, NEW n \in Counts, NEW i \in Intervals,
         Dumps(c, n, i)
  PROVE  DumpTyped'
BY DEF Dumps, TriggerDump, DumpTyped, DumpTypeOK, counterVars

LEMMA TriggerType ==
  ASSUME DumpTyped, 0 \in Cameras, Trigger
  PROVE  DumpTyped'
<1> DEFINE c == trigger.camera
           n == trigger.count
<1>1. /\ c \in Cameras /\ n \in 0 .. Word - 1 /\ n \in Counts \cup {0, 1}
      /\ trigger.interval \in Intervals /\ 0 \in Intervals /\ trigger.pc # "none"
  BY DumpFacts DEF DumpTyped, Trigger, TriggerPreview, TriggerVideo, TriggerInterval
<1>2. mainPc = "loop" /\ mainPc' = "loop" /\ UNCHANGED <<snapshot_num, pictures, post>>
  BY <1>1 DEF DumpTyped, Trigger, sessionVars, TriggerPreview, TriggerVideo, TriggerInterval
<1>3. /\ preview_num' = preview_num \/ preview_num' = [preview_num EXCEPT ![c] = n]
      /\ video_num' = video_num \/ video_num' = [video_num EXCEPT ![c] = n]
      /\ interval' = interval \/ interval' = [interval EXCEPT ![c] = trigger.interval]
      /\ asked' = asked \/ asked' = [asked EXCEPT ![c] = Max({@, n})]
      /\ dumped' = dumped \/ dumped' = [dumped EXCEPT ![c] = NothingDumped]
  BY DEF Trigger, TriggerPreview, TriggerVideo, TriggerInterval
<1>4. \/ trigger' = NoTrigger
      \/ \E pc \in {"video", "interval"} : trigger' = [trigger EXCEPT !.pc = pc]
  BY DEF Trigger, TriggerPreview, TriggerVideo, TriggerInterval
<1>5. Max({asked[c], n}) \in Counts \cup {0, 1}
  <2>1. asked[c] \in Counts \cup {0, 1}
    BY <1>1 DEF DumpTyped, DumpTypeOK
  <2>2. asked[c] \in Int /\ n \in Int
    BY <1>1, <2>1, DumpFacts
  <2> HIDE DEF n
  <2> QED
    BY <1>1, <2>1, <2>2, MaxOfTwo
<1>6. preview_num' \in [Cameras -> 0 .. Word - 1] /\ video_num' \in [Cameras -> 0 .. Word - 1]
  <2>1. preview_num \in [Cameras -> 0 .. Word - 1] /\ video_num \in [Cameras -> 0 .. Word - 1]
    BY DEF DumpTyped, DumpTypeOK
  <2> QED
    BY <1>1, <1>3, <2>1
<1>7. trigger' \in [pc : {"none", "preview", "video", "interval"}, camera : Cameras,
                   count : Counts \cup {0, 1}, interval : Intervals]
  BY <1>1, <1>4 DEF DumpTyped, NoTrigger
<1> HIDE DEF c, n
<1>8. interval' \in [Cameras -> Intervals] /\ asked' \in [Cameras -> Counts \cup {0, 1}]
  <2>1. interval \in [Cameras -> Intervals] /\ asked \in [Cameras -> Counts \cup {0, 1}]
    BY DEF DumpTyped, DumpTypeOK
  <2>2. interval' \in [Cameras -> Intervals]
    BY <1>1, <1>3, <2>1
  <2>3. asked' = asked \/ asked' = [asked EXCEPT ![c] = Max({asked[c], n})]
    BY <1>3
  <2> QED
    BY <1>1, <1>5, <2>1, <2>2, <2>3
<1>9. dumped' \in [Cameras -> [preview : Nat, video : Nat]]
  <2>1. dumped \in [Cameras -> [preview : Nat, video : Nat]]
    BY DEF DumpTyped, DumpTypeOK
  <2>2. NothingDumped \in [preview : Nat, video : Nat]
    BY DEF NothingDumped
  <2> QED
    BY <1>1, <1>3, <2>1, <2>2
<1>10. DumpTypeOK'
  BY <1>2, <1>6, <1>8, <1>9 DEF DumpTyped, DumpTypeOK
<1> QED
  BY <1>2, <1>7, <1>10 DEF DumpTyped

\* Main reads no command while it is in trigger_dump.
LEMMA MainInTrigger ==
  ASSUME [Next]_vars, trigger.pc # "none", mainPc = "loop"
  PROVE  mainPc' = mainPc
BY DEF Next, Main, UserCommand, Command, AddRefused, Add, AddUnopened, Switch, SwitchStop,
   SwitchStart, SwitchUnopened,
   Snapshot, SnapshotAndDump, Dump, NoSuchCase, Delete, Quit, EndOfInput, Cleanup, Exit,
   Trigger, ResultThread, ResultFrame, vars, sessionVars

LEMMA TypeStep ==
  ASSUME SessionAssumption, SessionInv, DumpTyped, [Next]_vars
  PROVE  DumpTyped'
<1>1. trigger.pc # "none" => mainPc' = mainPc
  BY MainInTrigger DEF DumpTyped
<1>2. CASE UNCHANGED dumpVars
  BY <1>1, <1>2 DEF dumpVars, counterVars, DumpTyped, DumpTypeOK
<1>3. CASE \E c \in Cameras : Resets(c)
  BY <1>3, ResetType
<1>4. CASE \E c \in Cameras, n \in Counts \cup {0, 1} : Asks(c, n)
  BY <1>1, <1>4, AskType
<1>5. CASE \E c \in Cameras, n \in Counts, i \in Intervals : Dumps(c, n, i)
  BY <1>5, DumpsType
<1>6. CASE Trigger
  BY <1>6, TriggerType DEF SessionAssumption
<1>7. CASE \E c \in Cameras : ResultThread(c)
  BY <1>7, ResultType
<1> QED
  BY <1>2, <1>3, <1>4, <1>5, <1>6, <1>7, DumpSteps

LEMMA TypeInvariance == Spec => []DumpTyped
<1>1. Init => DumpTyped
  <2> SUFFICES ASSUME Init PROVE DumpTyped
    OBVIOUS
  <2>1. /\ 0 \in 0 .. Word - 1 /\ 0 \in Intervals /\ 0 < Word /\ 0 \in Cameras
    BY DumpFacts, SessionAssumption DEF SessionAssumption
  <2>2. {preview_num, video_num} \subseteq [Cameras -> 0 .. Word - 1]
    BY <2>1 DEF Init, DumpInit
  <2>3. post = [c \in Cameras |-> NoFrame] /\ post \in [Cameras ->
          [pc : {"idle", "file", "store"}, counter : {"none", "preview", "video", "snapshot"},
           value : 0 .. Word - 1]]
    BY <2>1 DEF Init, DumpInit, NoFrame
  <2>4. dumped \in [Cameras -> [preview : Nat, video : Nat]]
    BY DEF Init, DumpInit, NothingDumped
  <2>5. DumpTypeOK
    BY <2>1, <2>2, <2>3, <2>4 DEF Init, DumpInit, DumpTypeOK
  <2>6. trigger.pc = "none" /\ trigger \in
          [pc : {"none", "preview", "video", "interval"}, camera : Cameras,
           count : Counts \cup {0, 1}, interval : Intervals]
    BY <2>1 DEF Init, DumpInit, NoTrigger
  <2>7. \A c \in Cameras : snapshot_num[c] = 0 /\ post[c].pc = "idle"
    BY <2>3 DEF Init, DumpInit, NoFrame
  <2> QED
    BY <2>1, <2>5, <2>6, <2>7 DEF DumpTyped
<1>2. SessionInv /\ DumpTyped /\ [Next]_vars => DumpTyped'
  BY TypeStep, SessionAssumption
<1> QED
  BY <1>1, <1>2, SessionInvariance, PTL DEF Spec

Switching == mainPc \in {"switchStop", "switchStart"}

\* Every opened device has cost a command, and so has the one a v will open.
BoundInv ==
  /\ mainPc \in {"loop", "switchStop", "switchStart", "cleanup", "exit", "fault"}
  /\ next \in 0 .. Max(Cameras) + 1
  /\ commands \in 0 .. CommandBound
  /\ \A c \in Cameras :
       switched[c] >= 0 /\ opened[c] + (IF Switching THEN 1 ELSE 0) <= commands

LEMMA BoundStep ==
  ASSUME SessionAssumption, SessionInv, BoundInv, [Next]_vars
  PROVE  BoundInv'
<1> USE DEF Command
<1>0. /\ commands \in 0 .. CommandBound /\ CommandBound \in Nat /\ next \in Nat
      /\ Max(Cameras) \in Nat
      /\ opened \in [Cameras -> Int] /\ switched \in [Cameras -> Int]
  BY DEF BoundInv, SessionAssumption, SessionInv, Functions
<1>1. CASE /\ UNCHANGED <<opened, switched, next>> /\ mainPc' \in {mainPc, "loop", "cleanup", "exit", "fault"}
           /\ commands' \in commands .. CommandBound
  BY <1>0, <1>1 DEF BoundInv, Switching
<1>2. CASE Snapshot \/ SnapshotAndDump \/ Dump \/ NoSuchCase \/ Quit \/ AddRefused \/ EndOfInput \/ Exit
  <2>1. UNCHANGED <<opened, switched, next>>
    BY <1>2 DEF Snapshot, SnapshotAndDump, Dump, NoSuchCase, Quit, AddRefused, EndOfInput, Exit, cameraVars
  <2>2. mainPc' \in {mainPc, "loop", "cleanup", "exit", "fault"}
    BY <1>2 DEF Snapshot, SnapshotAndDump, Dump, NoSuchCase, Quit, AddRefused, EndOfInput, Exit, AfterInput
  <2>3. commands' \in commands .. CommandBound
    BY <1>0, <1>2 DEF Snapshot, SnapshotAndDump, Dump, NoSuchCase, Quit, AddRefused, EndOfInput, Exit
  <2> QED
    BY <1>1, <2>1, <2>2, <2>3
<1>8. CASE AddUnopened \/ SwitchUnopened
  <2>1. /\ UNCHANGED <<opened, switched, next>> /\ mainPc' = "fault"
        /\ commands' = commands \/ (commands < CommandBound /\ commands' = commands + 1)
    BY <1>8, Unopened DEF cameraVars
  <2> QED
    BY <1>0, <1>1, <2>1
<1>3. CASE UNCHANGED vars \/ Trigger \/ \E c \in Cameras : ResultThread(c)
  BY <1>0, <1>1, <1>3 DEF vars, Trigger, ResultThread, ResultFrame, sessionVars, cameraVars
<1>4. CASE Switch
  <2>1. /\ UNCHANGED <<opened, switched, next>> /\ ~Switching /\ mainPc' = "switchStop"
        /\ commands' = commands + 1 /\ commands < CommandBound
    BY <1>4 DEF Switch, Switching, cameraVars
  <2> QED
    BY <1>0, <2>1 DEF BoundInv, Switching
<1>5. CASE Add \/ SwitchStart
  <2>1. PICK k \in Cameras : opened' = [opened EXCEPT ![k] = @ + 1]
    <3>1. CASE Add
      BY <3>1, OrdersFit DEF Add, Enter, Opened, IsConf, NewCase
    <3>2. CASE SwitchStart
      BY <3>2 DEF SwitchStart, Enter, Opened, SessionInv, SwitchInv, IsCase, IsConf
    <3> QED
      BY <1>5, <3>1, <3>2
  <2>2. /\ UNCHANGED <<switched, next>> /\ mainPc' = "loop"
        /\ \/ commands' = commands + 1 /\ commands < CommandBound
           \/ UNCHANGED commands /\ Switching
    BY <1>5 DEF Add, SwitchStart, Switching
  <2>3. \A c \in Cameras : /\ opened[c] \in Int
                           /\ opened'[c] = opened[c] \/ opened'[c] = opened[c] + 1
    BY <1>0, <2>1
  <2>4. \A c \in Cameras : opened[c] + (IF Switching THEN 1 ELSE 0) <= commands
    BY DEF BoundInv
  <2>5. \A c \in Cameras : opened'[c] <= commands'
    <3>1. CASE commands' = commands + 1
      BY <1>0, <2>3, <2>4, <3>1
    <3>2. CASE UNCHANGED commands /\ Switching
      <4> TAKE c \in Cameras
      <4>1. opened[c] + 1 <= commands
        BY <2>4, <3>2
      <4>2. opened'[c] = opened[c] \/ opened'[c] = opened[c] + 1
        BY <2>3
      <4>3. opened[c] \in Int /\ commands \in Int /\ commands' = commands
        BY <1>0, <2>3, <3>2
      <4> QED
        BY <4>1, <4>2, <4>3
    <3> QED
      BY <2>2, <3>1, <3>2
  <2>6. ~Switching'
    BY <2>2 DEF Switching
  <2>7. \A c \in Cameras : opened'[c] + (IF Switching' THEN 1 ELSE 0) <= commands'
    <3>1. \A c \in Cameras : opened'[c] \in Int
      BY <2>3
    <3> QED
      BY <2>5, <2>6, <3>1
  <2>8. next' \in 0 .. Max(Cameras) + 1 /\ commands' \in 0 .. CommandBound
    BY <1>0, <2>2 DEF BoundInv
  <2> QED
    BY <2>2, <2>7, <2>8 DEF BoundInv
<1>6. CASE SwitchStop
  <2>1. /\ UNCHANGED <<opened, next, commands>> /\ mainPc' = "switchStart" /\ Switching
        /\ switched' = [switched EXCEPT ![current_camera_id] = @ + 1]
    BY <1>6 DEF SwitchStop, Switching
  <2>2. \A c \in Cameras : /\ switched[c] \in Int
                           /\ switched'[c] = switched[c] \/ switched'[c] = switched[c] + 1
    BY <1>0, <2>1
  <2>3. Switching' /\ Switching
    BY <2>1 DEF Switching
  <2>4. \A c \in Cameras : switched'[c] >= 0
    BY <2>2 DEF BoundInv
  <2>5. \A c \in Cameras : opened'[c] + (IF Switching' THEN 1 ELSE 0) <= commands'
    BY <2>1, <2>3 DEF BoundInv
  <2>6. /\ mainPc' \in {"loop", "switchStop", "switchStart", "cleanup", "exit", "fault"}
        /\ next' \in 0 .. Max(Cameras) + 1 /\ commands' \in 0 .. CommandBound
    BY <2>1 DEF BoundInv
  <2> QED
    BY <2>4, <2>5, <2>6 DEF BoundInv
<1>7. CASE Delete \/ Cleanup
  <2>1. \/ UNCHANGED opened
        \/ \E k \in Cameras : opened' = [opened EXCEPT ![k] = @ - 1]
    <3>1. next \in Cameras \/ ~Cleanup
      BY <1>0 DEF SessionAssumption, Cleanup, CleanupDone
    <3> QED
      BY <1>7, <3>1 DEF Delete, Cleanup, EndCase
  <2>2. UNCHANGED <<switched, mainPc>> /\ commands' \in commands .. CommandBound
    <3>1. CASE Delete
      BY <1>0, <3>1 DEF Delete
    <3>2. CASE Cleanup
      BY <1>0, <3>2 DEF Cleanup
    <3> QED
      BY <1>7, <3>1, <3>2
  <2>3. next' \in 0 .. Max(Cameras) + 1
    BY <1>0, <1>7 DEF Delete, Cleanup, CleanupDone, BoundInv
  <2>4. \A c \in Cameras : /\ opened[c] \in Int
                           /\ opened'[c] = opened[c] \/ opened'[c] = opened[c] - 1
    BY <1>0, <2>1
  <2>5. Switching' <=> Switching
    BY <2>2 DEF Switching
  <2>6. \A c \in Cameras : opened'[c] + (IF Switching THEN 1 ELSE 0) <= commands'
    <3>1. \A c \in Cameras : opened[c] + (IF Switching THEN 1 ELSE 0) <= commands
      BY DEF BoundInv
    <3>2. commands \in Int /\ commands' \in Int /\ commands <= commands'
      BY <1>0, <2>2
    <3> QED
      BY <2>4, <3>1, <3>2
  <2>7. \A c \in Cameras :
          switched'[c] >= 0 /\ opened'[c] + (IF Switching' THEN 1 ELSE 0) <= commands'
    BY <2>2, <2>5, <2>6 DEF BoundInv
  <2>8. commands' \in 0 .. CommandBound
    BY <1>0, <2>2
  <2> QED
    BY <2>2, <2>3, <2>7, <2>8 DEF BoundInv
<1> QED
  BY <1>2, <1>3, <1>4, <1>5, <1>6, <1>7, <1>8 DEF Next, Main, UserCommand

\* Types of a whole session: no counter leaves its word, no camera is open more
\* often than commands were given, none less than never.
THEOREM SessionTypes == Spec => []TypeOK
<1>1. Init => BoundInv
  BY SessionAssumption DEF Init, BoundInv, Switching, SessionAssumption
<1>2. SessionInv /\ BoundInv /\ [Next]_vars => BoundInv'
  BY BoundStep, SessionAssumption
<1>3. ASSUME SessionInv, DumpTyped, BoundInv PROVE TypeOK
  <2>1. \A c \in Cameras :
          /\ opened[c] \in Int /\ running[c] \in Int /\ switched[c] \in Int
          /\ running[c] \in {0, 1} /\ opened[c] = running[c] + switched[c]
          /\ switched[c] >= 0 /\ opened[c] <= CommandBound /\ CommandBound \in Nat
    <3> SUFFICES ASSUME NEW c \in Cameras
        PROVE  /\ opened[c] \in Int /\ running[c] \in Int /\ switched[c] \in Int
               /\ running[c] \in {0, 1} /\ opened[c] = running[c] + switched[c]
               /\ switched[c] >= 0 /\ opened[c] <= CommandBound /\ CommandBound \in Nat
      OBVIOUS
    <3>1. opened[c] \in Int /\ running[c] \in Int /\ switched[c] \in Int
      BY <1>3 DEF SessionInv, Functions
    <3>2. running[c] \in {0, 1} /\ opened[c] = running[c] + switched[c]
      BY <1>3 DEF SessionInv, DeviceFollowsSlot
    <3>3. CommandBound \in Nat
      BY SessionAssumption DEF SessionAssumption
    <3>4. switched[c] >= 0 /\ opened[c] <= CommandBound
      BY <1>3, <3>1, <3>3 DEF BoundInv
    <3> QED
      BY <3>1, <3>2, <3>3, <3>4
  <2>2. \A c \in Cameras :
          {opened[c], running[c], switched[c]} \subseteq 0 .. CommandBound
    BY <2>1
  <2>3. {opened, running, switched} \subseteq [Cameras -> 0 .. CommandBound]
    BY <1>3, <2>2 DEF SessionInv, Functions
  <2> QED
    BY <1>3, <2>3 DEF TypeOK, SessionInv, Functions, DumpTyped, BoundInv
<1> QED
  BY <1>1, <1>2, <1>3, SessionInvariance, TypeInvariance, PTL DEF Spec

----------------------------------------------------------------------------
(* The counters of one camera *)

\* No file is being written, and none is asked for.
Quiet(c) ==
  /\ preview_num[c] = 0 /\ video_num[c] = 0 /\ snapshot_num[c] = 0
  /\ post[c] = NoFrame /\ ~TriggerOn(c)

\* The same counters as before.
SameCounters(c) ==
  /\ preview_num'[c] = preview_num[c] /\ video_num'[c] = video_num[c]
  /\ snapshot_num'[c] = snapshot_num[c] /\ interval'[c] = interval[c]
  /\ pictures'[c] = pictures[c] /\ post'[c] = post[c]
  /\ asked'[c] = asked[c] /\ dumped'[c] = dumped[c]

\* And main asks for no other dump than before.
Untouched(c) ==
  /\ SameCounters(c)
  /\ TriggerOn(c)' <=> TriggerOn(c)
  /\ TriggerOn(c) => trigger'.count = trigger.count
  /\ SameCase(c) \/ ~Taken(c)

CounterTypes(c) ==
  /\ preview_num[c] \in 0 .. Word - 1 /\ video_num[c] \in 0 .. Word - 1
  /\ snapshot_num[c] \in Int /\ interval[c] \in Nat /\ pictures[c] \in Nat
  /\ post[c] \in [pc : {"idle", "file", "store"},
                  counter : {"none", "preview", "video", "snapshot"},
                  value : 0 .. Word - 1]
  /\ asked[c] \in Nat /\ dumped[c] \in [preview : Nat, video : Nat]
  /\ Word \in Nat
  /\ trigger.count \in Nat

LEMMA CameraTypes == DumpTyped => \A c \in Cameras : CounterTypes(c)
<1> SUFFICES ASSUME DumpTyped, NEW c \in Cameras PROVE CounterTypes(c)
  OBVIOUS
<1>1. asked[c] \in Counts \cup {0, 1} /\ trigger.count \in Counts \cup {0, 1}
      /\ interval[c] \in Intervals
  BY DEF DumpTyped, DumpTypeOK
<1>2. asked[c] \in Nat /\ trigger.count \in Nat /\ interval[c] \in Nat /\ Word \in Nat
  BY <1>1, DumpFacts
<1>3. preview_num[c] \in 0 .. Word - 1 /\ video_num[c] \in 0 .. Word - 1
  <2>1. preview_num \in [Cameras -> 0 .. Word - 1] /\ video_num \in [Cameras -> 0 .. Word - 1]
    BY DEF DumpTyped, DumpTypeOK
  <2> QED
    BY <2>1
<1> QED
  BY <1>2, <1>3 DEF DumpTyped, DumpTypeOK, CounterTypes

\* What the result thread does to its own camera: it tests the counter for a frame,
\* reads one again after the file, and writes it back.
FrameAt(c, type, onDemand) ==
  /\ post[c].pc = "idle" /\ type \in StreamTypes(s_HAL3_test[c])
  /\ onDemand = (type = "SNAPSHOT" /\ OnDemand(s_HAL3_test[c]))
  /\ onDemand => pictures[c] > 0
  /\ pictures'[c] = pictures[c] - (IF onDemand THEN 1 ELSE 0)
  /\ UNCHANGED counterVars
  /\ \/ /\ type = "SNAPSHOT" => ~(snapshot_num[c] > 0)
        /\ UNCHANGED <<post, dumped>>
     \/ /\ Counter(c, CounterTested(type)) > 0
        /\ post'[c] = [pc |-> "file", value |-> 0,
                       counter |-> CounterReduced(s_HAL3_test[c].class, type)]
        /\ dumped'[c] = FileCounted(c, CounterTested(type))

WrittenAt(c) ==
  /\ post[c].pc = "file" /\ UNCHANGED <<counterVars, pictures, dumped>>
  /\ \/ post'[c] = NoFrame /\ interval[c] > 0 /\ post[c].counter # "snapshot"
     \/ post'[c] = [pc |-> "store", counter |-> post[c].counter,
                    value |-> Counter(c, post[c].counter)]

CountedAt(c) ==
  LET k == post[c].counter
      v == post[c].value
  IN /\ post[c].pc = "store" /\ post'[c] = NoFrame
     /\ UNCHANGED <<interval, pictures, dumped>>
     /\ preview_num'[c] = IF k = "preview" THEN CountedDown(v) ELSE preview_num[c]
     /\ video_num'[c] = IF k = "video" THEN CountedDown(v) ELSE video_num[c]
     /\ snapshot_num'[c] = IF k = "snapshot" THEN v - 1 ELSE snapshot_num[c]

LEMMA ResultEffect ==
  ASSUME DumpTyped, NEW c \in Cameras, ResultThread(c)
  PROVE  /\ UNCHANGED <<s_HAL3_test, trigger, asked>>
         /\ \A d \in Cameras \ {c} : Untouched(d)
         /\ \/ WrittenAt(c) \/ CountedAt(c)
            \/ \E type \in DumpedTypes, onDemand \in BOOLEAN : FrameAt(c, type, onDemand)
<1>1. DumpTypeOK
  BY DEF DumpTyped
<1>2. UNCHANGED <<s_HAL3_test, trigger, asked>>
  BY DEF ResultThread, ResultFrame, Frame, FileWritten, CountDown, sessionVars, tableVars
<1>3. ASSUME NEW type \in DumpedTypes, ResultFrame(c, type)
      PROVE  /\ \E onDemand \in BOOLEAN : FrameAt(c, type, onDemand)
             /\ \A d \in Cameras \ {c} : SameCounters(d)
  <2> PICK class : class = s_HAL3_test[c].class
    OBVIOUS
  <2> PICK onDemand \in BOOLEAN : onDemand = (type = "SNAPSHOT" /\ OnDemand(s_HAL3_test[c]))
    OBVIOUS
  <2>1. Frame(c, class, type, onDemand) /\ type \in StreamTypes(s_HAL3_test[c])
    BY <1>3 DEF ResultFrame
  <2>2. type = "SNAPSHOT" =>
          Counter(c, CounterTested(type)) = snapshot_num[c]
    BY CounterIs
  <2>3. FrameAt(c, type, onDemand) /\ \A d \in Cameras \ {c} : SameCounters(d)
    <3> DEFINE file == [pc |-> "file", value |-> 0, counter |-> CounterReduced(class, type)]
               count == FileCounted(c, CounterTested(type))
    <3>1. /\ UNCHANGED <<counterVars, asked>> /\ post[c].pc = "idle"
          /\ onDemand => pictures[c] > 0
          /\ pictures' = IF onDemand THEN [pictures EXCEPT ![c] = @ - 1] ELSE pictures
          /\ \/ /\ UNCHANGED <<post, dumped>>
                /\ type = "SNAPSHOT" => ~(snapshot_num[c] > 0)
             \/ /\ Counter(c, CounterTested(type)) > 0
                /\ post' = [post EXCEPT ![c] = file]
                /\ dumped' = [dumped EXCEPT ![c] = count]
      BY <2>1, <2>2 DEF Frame, Wanted
    <3> HIDE DEF file, count
    <3>2. /\ pictures'[c] = pictures[c] - (IF onDemand THEN 1 ELSE 0)
          /\ \A d \in Cameras \ {c} : pictures'[d] = pictures[d]
      BY <1>1, <3>1 DEF DumpTypeOK
    <3>3. /\ \/ /\ UNCHANGED <<post, dumped>>
                /\ type = "SNAPSHOT" => ~(snapshot_num[c] > 0)
             \/ /\ Counter(c, CounterTested(type)) > 0
                /\ post'[c] = file /\ dumped'[c] = count
          /\ \A d \in Cameras \ {c} : post'[d] = post[d] /\ dumped'[d] = dumped[d]
      BY <1>1, <3>1 DEF DumpTypeOK
    <3>4. FrameAt(c, type, onDemand)
      BY <2>1, <3>1, <3>2, <3>3 DEF FrameAt, file, count
    <3> QED
      BY <3>1, <3>2, <3>3, <3>4 DEF SameCounters, counterVars
  <2> QED
    BY <2>3
<1>4. ASSUME FileWritten(c)
      PROVE  WrittenAt(c) /\ \A d \in Cameras \ {c} : SameCounters(d)
  <2>1. /\ post[c].pc = "file" /\ UNCHANGED <<counterVars, pictures, asked, dumped>>
        /\ post' = [post EXCEPT ![c] =
             IF post[c].counter # "snapshot" /\ interval[c] > 0 THEN NoFrame
             ELSE [@ EXCEPT !.pc = "store", !.value = Counter(c, post[c].counter)]]
    BY <1>4 DEF FileWritten
  <2>2. \/ post'[c] = NoFrame /\ interval[c] > 0 /\ post[c].counter # "snapshot"
        \/ post'[c] = [pc |-> "store", counter |-> post[c].counter,
                       value |-> Counter(c, post[c].counter)]
    BY <1>1, <2>1 DEF DumpTypeOK
  <2>3. \A d \in Cameras \ {c} : post'[d] = post[d]
    BY <1>1, <2>1 DEF DumpTypeOK
  <2> QED
    BY <2>1, <2>2, <2>3 DEF WrittenAt, SameCounters, counterVars
<1>5. ASSUME CountDown(c)
      PROVE  CountedAt(c) /\ \A d \in Cameras \ {c} : SameCounters(d)
  <2> DEFINE k == post[c].counter
             v == post[c].value
  <2>1. /\ preview_num' = IF k = "preview" THEN [preview_num EXCEPT ![c] = CountedDown(v)]
                          ELSE preview_num
        /\ video_num' = IF k = "video" THEN [video_num EXCEPT ![c] = CountedDown(v)]
                        ELSE video_num
        /\ snapshot_num' = IF k = "snapshot" THEN [snapshot_num EXCEPT ![c] = v - 1]
                           ELSE snapshot_num
        /\ post[c].pc = "store" /\ post' = [post EXCEPT ![c] = NoFrame]
        /\ UNCHANGED <<interval, pictures, asked, dumped>>
    BY <1>5 DEF CountDown
  <2> HIDE DEF k, v
  <2>2. /\ preview_num'[c] = IF k = "preview" THEN CountedDown(v) ELSE preview_num[c]
        /\ \A d \in Cameras \ {c} : preview_num'[d] = preview_num[d]
    <3>1. preview_num \in [Cameras -> 0 .. Word - 1]
      BY <1>1 DEF DumpTypeOK
    <3> QED
      BY <2>1, <3>1
  <2>3. /\ video_num'[c] = IF k = "video" THEN CountedDown(v) ELSE video_num[c]
        /\ \A d \in Cameras \ {c} : video_num'[d] = video_num[d]
    <3>1. video_num \in [Cameras -> 0 .. Word - 1]
      BY <1>1 DEF DumpTypeOK
    <3> QED
      BY <2>1, <3>1
  <2>4. /\ snapshot_num'[c] = IF k = "snapshot" THEN v - 1 ELSE snapshot_num[c]
        /\ \A d \in Cameras \ {c} : snapshot_num'[d] = snapshot_num[d]
    BY <1>1, <2>1 DEF DumpTypeOK
  <2>5. post'[c] = NoFrame /\ \A d \in Cameras \ {c} : post'[d] = post[d]
    BY <1>1, <2>1 DEF DumpTypeOK
  <2> QED
    BY <2>1, <2>2, <2>3, <2>4, <2>5 DEF CountedAt, SameCounters, k, v
<1>6. \A d \in Cameras : SameCounters(d) => Untouched(d)
  BY <1>2 DEF Untouched, TriggerOn, SameCase, Taken
<1> QED
  BY <1>2, <1>3, <1>4, <1>5, <1>6 DEF ResultThread

LEMMA ResetEffect ==
  ASSUME DumpTyped, NEW c \in Cameras, Resets(c)
  PROVE  /\ preview_num'[c] = 0 /\ video_num'[c] = 0 /\ snapshot_num'[c] = 0
         /\ pictures'[c] = 0 /\ asked'[c] = 0 /\ dumped'[c] = NothingDumped
         /\ post'[c] = NoFrame /\ ~Taken(c)' /\ trigger.pc = "none" /\ UNCHANGED trigger
         /\ \A d \in Cameras \ {c} : Untouched(d)
<1>1. /\ preview_num' = [preview_num EXCEPT ![c] = 0]
      /\ video_num' = [video_num EXCEPT ![c] = 0]
      /\ interval' = [interval EXCEPT ![c] = 0]
      /\ snapshot_num' = [snapshot_num EXCEPT ![c] = 0]
      /\ pictures' = [pictures EXCEPT ![c] = 0]
      /\ asked' = [asked EXCEPT ![c] = 0]
      /\ dumped' = [dumped EXCEPT ![c] = NothingDumped]
      /\ UNCHANGED <<post, trigger>>
  BY DEF Resets, ResetDump
<1>2. trigger.pc = "none"
  BY DEF Resets, DumpTyped
<1>3. /\ preview_num'[c] = 0 /\ video_num'[c] = 0
      /\ \A d \in Cameras \ {c} :
           preview_num'[d] = preview_num[d] /\ video_num'[d] = video_num[d]
  <2>1. preview_num \in [Cameras -> 0 .. Word - 1] /\ video_num \in [Cameras -> 0 .. Word - 1]
    BY DEF DumpTyped, DumpTypeOK
  <2> QED
    BY <1>1, <2>1
<1>4. /\ snapshot_num'[c] = 0 /\ pictures'[c] = 0 /\ asked'[c] = 0 /\ dumped'[c] = NothingDumped
      /\ \A d \in Cameras \ {c} :
           /\ snapshot_num'[d] = snapshot_num[d] /\ pictures'[d] = pictures[d]
           /\ asked'[d] = asked[d] /\ dumped'[d] = dumped[d] /\ interval'[d] = interval[d]
  BY <1>1 DEF DumpTyped, DumpTypeOK
<1> QED
  BY <1>1, <1>2, <1>3, <1>4 DEF Resets, Untouched, SameCounters, TriggerOn

LEMMA AskEffect ==
  ASSUME DumpTyped, NEW c \in Cameras, NEW n \in Counts \cup {0, 1}, Asks(c, n)
  PROVE  /\ Taken(c) /\ (Impatient \/ Saved(c))
         /\ snapshot_num'[c] = IF s_HAL3_test[c].class = "SNAPSHOT" THEN n ELSE snapshot_num[c]
         /\ pictures'[c] = pictures[c] + (IF OnDemand(s_HAL3_test[c]) THEN n ELSE 0)
         /\ \/ UNCHANGED trigger
            \/ /\ trigger.pc = "none" /\ n \in Counts \cup {1}
               /\ s_HAL3_test[c].class \in DumpClasses
               /\ trigger' = [pc |-> "preview", camera |-> c, count |-> n, interval |-> 0]
         /\ UNCHANGED <<s_HAL3_test, preview_num, video_num, interval, post, asked, dumped>>
         /\ \A d \in Cameras \ {c} : Untouched(d)
<1>1. /\ Taken(c) /\ (Impatient \/ Saved(c))
      /\ snapshot_num' = IF s_HAL3_test[c].class = "SNAPSHOT" THEN [snapshot_num EXCEPT ![c] = n]
                         ELSE snapshot_num
      /\ pictures' = IF OnDemand(s_HAL3_test[c]) THEN [pictures EXCEPT ![c] = @ + n]
                     ELSE pictures
      /\ \/ UNCHANGED trigger
         \/ /\ trigger.pc = "none" /\ n \in Counts \cup {1}
            /\ s_HAL3_test[c].class \in DumpClasses
            /\ trigger' = [pc |-> "preview", camera |-> c, count |-> n, interval |-> 0]
      /\ UNCHANGED <<s_HAL3_test, preview_num, video_num, interval, post, asked, dumped>>
  BY DEF Asks, Capture, RequestCapture, SnapshotNum, TriggerDump
<1>2. /\ snapshot_num'[c] = IF s_HAL3_test[c].class = "SNAPSHOT" THEN n ELSE snapshot_num[c]
      /\ \A d \in Cameras \ {c} : snapshot_num'[d] = snapshot_num[d]
  BY <1>1 DEF DumpTyped, DumpTypeOK
<1>3. /\ pictures'[c] = pictures[c] + (IF OnDemand(s_HAL3_test[c]) THEN n ELSE 0)
      /\ \A d \in Cameras \ {c} : pictures'[d] = pictures[d]
  BY <1>1 DEF DumpTyped, DumpTypeOK
<1>4. \A d \in Cameras \ {c} : TriggerOn(d)' <=> TriggerOn(d)
  BY <1>1 DEF TriggerOn
<1>5. \A d \in Cameras \ {c} : Untouched(d)
  BY <1>1, <1>2, <1>3, <1>4 DEF Untouched, SameCounters, SameCase, Taken, TriggerOn
<1> QED
  BY <1>1, <1>2, <1>3, <1>5

LEMMA DumpsEffect ==
  ASSUME NEW c \in Cameras, NEW n, NEW i, Dumps(c, n, i)
  PROVE  /\ Taken(c) /\ trigger.pc = "none" /\ s_HAL3_test[c].class \in DumpClasses
         /\ trigger' = [pc |-> "preview", camera |-> c, count |-> n, interval |-> i]
         /\ UNCHANGED s_HAL3_test /\ \A d \in Cameras : SameCounters(d)
         /\ \A d \in Cameras \ {c} : Untouched(d)
<1>1. /\ Taken(c) /\ trigger.pc = "none" /\ s_HAL3_test[c].class \in DumpClasses
      /\ trigger' = [pc |-> "preview", camera |-> c, count |-> n, interval |-> i]
      /\ UNCHANGED <<s_HAL3_test, counterVars, pictures, post, asked, dumped>>
  BY DEF Dumps, TriggerDump
<1>2. \A d \in Cameras : SameCounters(d)
  BY <1>1 DEF SameCounters, counterVars
<1>3. \A d \in Cameras \ {c} : Untouched(d)
  BY <1>1, <1>2 DEF Untouched, SameCase, Taken, TriggerOn
<1> QED
  BY <1>1, <1>2, <1>3

\* trigger_dump sets the counter of previews or that of videos, or it ends.
LEMMA TriggerEffect ==
  ASSUME DumpTyped, Trigger, NEW c \in Cameras, c = trigger.camera
  PROVE  /\ TriggerOn(c) /\ UNCHANGED <<s_HAL3_test, snapshot_num, pictures, post>>
         /\ \A d \in Cameras \ {c} : Untouched(d)
         /\ \/ /\ TriggerOn(c)' /\ trigger'.count = trigger.count
               /\ UNCHANGED <<interval, asked, dumped>>
               /\ preview_num'[c] \in {preview_num[c], trigger.count}
               /\ video_num'[c] \in {video_num[c], trigger.count}
            \/ /\ trigger' = NoTrigger /\ UNCHANGED <<preview_num, video_num>>
               /\ asked'[c] = Max({asked[c], trigger.count})
               /\ dumped'[c] = NothingDumped
<1> DEFINE n == trigger.count
<1>1. /\ preview_num \in [Cameras -> 0 .. Word - 1] /\ video_num \in [Cameras -> 0 .. Word - 1]
      /\ interval \in [Cameras -> Intervals] /\ asked \in [Cameras -> Counts \cup {0, 1}]
      /\ dumped \in [Cameras -> [preview : Nat, video : Nat]]
      /\ DOMAIN trigger = {"pc", "camera", "count", "interval"}
  BY DEF DumpTyped, DumpTypeOK
<1>2. TriggerOn(c) /\ UNCHANGED <<s_HAL3_test, snapshot_num, pictures, post>>
  BY DEF Trigger, TriggerPreview, TriggerVideo, TriggerInterval, TriggerOn, sessionVars,
         tableVars
<1>3. CASE TriggerPreview \/ TriggerVideo
  <2>1. /\ preview_num' = [preview_num EXCEPT ![c] = n] \/ preview_num' = preview_num
        /\ video_num' = [video_num EXCEPT ![c] = n] \/ video_num' = video_num
        /\ UNCHANGED <<interval, asked, dumped>>
        /\ \E pc \in {"video", "interval"} : trigger' = [trigger EXCEPT !.pc = pc]
    BY <1>3 DEF TriggerPreview, TriggerVideo
  <2>2. TriggerOn(c)' /\ trigger'.count = n /\ trigger'.camera = c
    BY <1>1, <2>1 DEF TriggerOn
  <2> HIDE DEF n
  <2>3. /\ preview_num'[c] \in {preview_num[c], n} /\ video_num'[c] \in {video_num[c], n}
        /\ \A d \in Cameras \ {c} :
             preview_num'[d] = preview_num[d] /\ video_num'[d] = video_num[d]
    BY <1>1, <2>1
  <2>4. \A d \in Cameras \ {c} : Untouched(d)
    BY <1>2, <2>1, <2>2, <2>3 DEF Untouched, SameCounters, SameCase, Taken, TriggerOn
  <2> QED
    BY <1>2, <2>1, <2>2, <2>3, <2>4 DEF n
<1>4. CASE TriggerInterval
  <2>1. /\ interval' = [interval EXCEPT ![c] = trigger.interval]
        /\ asked' = [asked EXCEPT ![c] = Max({asked[c], n})]
        /\ dumped' = [dumped EXCEPT ![c] = NothingDumped]
        /\ trigger' = NoTrigger /\ UNCHANGED <<preview_num, video_num>>
    BY <1>4 DEF TriggerInterval
  <2> HIDE DEF n
  <2>2. /\ asked'[c] = Max({asked[c], n}) /\ dumped'[c] = NothingDumped
        /\ \A d \in Cameras \ {c} :
             interval'[d] = interval[d] /\ asked'[d] = asked[d] /\ dumped'[d] = dumped[d]
    BY <1>1, <2>1
  <2>3. \A d \in Cameras \ {c} : Untouched(d)
    BY <1>2, <2>1, <2>2 DEF Untouched, SameCounters, SameCase, Taken, TriggerOn, NoTrigger
  <2> QED
    BY <1>2, <2>1, <2>2, <2>3 DEF n
<1> QED
  BY <1>3, <1>4 DEF Trigger

----------------------------------------------------------------------------
(* Pictures *)

\* A result thread that is between two frames keeps nothing, and a slot without a
\* case has no counter running.
SlotAt(c) ==
  /\ post[c].pc = "idle" => post[c] = NoFrame
  /\ ~Taken(c) => Quiet(c) /\ pictures[c] = 0

FreeInv == \A c \in Cameras : SlotAt(c)

LEMMA NoFrameOfNoCase ==
  ASSUME NEW c, ~Taken(c)
  PROVE  StreamTypes(s_HAL3_test[c]) = {}
BY DEF Taken, NoCase, StreamTypes

LEMMA FreeStep ==
  ASSUME SessionAssumption, SessionInv, DumpTyped, FreeInv, [Next]_vars
  PROVE  FreeInv'
<1> SUFFICES ASSUME NEW d \in Cameras PROVE SlotAt(d)'
  BY DEF FreeInv
<1> USE DEF SlotAt
<1>0. SlotAt(d)
  BY DEF FreeInv
<1>1. CASE Untouched(d)
  BY <1>0, <1>1 DEF Untouched, SameCounters, SameCase, Quiet
<1>2. CASE UNCHANGED dumpVars /\ \A c \in Cameras : SameCase(c) \/ ~Taken(c)
  BY <1>1, <1>2 DEF Untouched, SameCounters, TriggerOn, dumpVars, counterVars
<1>3. ASSUME NEW c \in Cameras, Resets(c) PROVE SlotAt(d)'
  BY <1>1, <1>3, ResetEffect DEF Quiet, TriggerOn
<1>4. ASSUME NEW c \in Cameras, NEW n \in Counts \cup {0, 1}, Asks(c, n) PROVE SlotAt(d)'
  BY <1>0, <1>1, <1>4, AskEffect DEF Taken
<1>5. ASSUME NEW c \in Cameras, NEW n, NEW i, Dumps(c, n, i) PROVE SlotAt(d)'
  BY <1>0, <1>1, <1>5, DumpsEffect DEF Taken, SameCounters
<1>6. CASE Trigger
  <2>1. PICK c \in Cameras : c = trigger.camera
    BY DEF DumpTyped
  <2> QED
    BY <1>0, <1>1, <1>6, <2>1, TriggerEffect DEF Quiet, Taken
<1>7. ASSUME NEW c \in Cameras, ResultThread(c) PROVE SlotAt(d)'
  <2>1. CASE d # c
    BY <1>1, <1>7, <2>1, ResultEffect
  <2>2. CASE d = c
    <3>0. /\ UNCHANGED s_HAL3_test
          /\ \/ WrittenAt(c) \/ CountedAt(c)
             \/ \E type \in DumpedTypes, onDemand \in BOOLEAN : FrameAt(c, type, onDemand)
      BY <1>7, ResultEffect
    <3>1. Taken(c)
      <4> SUFFICES ASSUME ~Taken(c) PROVE FALSE
        OBVIOUS
      <4>1. post[c].pc = "idle"
        BY <1>0, <2>2 DEF Quiet, NoFrame
      <4>2. \A type \in DumpedTypes, onDemand \in BOOLEAN : ~FrameAt(c, type, onDemand)
        BY NoFrameOfNoCase DEF FrameAt
      <4> QED
        BY <3>0, <4>1, <4>2 DEF WrittenAt, CountedAt
    <3>2. Taken(c)'
      BY <3>0, <3>1 DEF Taken
    <3>3. post'[c].pc = "idle" => post'[c] = NoFrame
      <4>1. CASE WrittenAt(c)
        BY <4>1 DEF WrittenAt
      <4>2. CASE CountedAt(c)
        BY <4>2 DEF CountedAt
      <4>3. ASSUME NEW type \in DumpedTypes, NEW onDemand \in BOOLEAN,
                   FrameAt(c, type, onDemand)
            PROVE  post'[c].pc = "idle" => post'[c] = NoFrame
        BY <1>0, <2>2, <4>3 DEF FrameAt
      <4> QED
        BY <3>0, <4>1, <4>2, <4>3
    <3> QED
      BY <2>2, <3>2, <3>3
  <2> QED
    BY <2>1, <2>2
<1> QED
  BY <1>2, <1>3, <1>4, <1>5, <1>6, <1>7, DumpSteps

LEMMA FreeInvariance == Spec => []FreeInv
<1>1. Init => FreeInv
  BY DEF Init, DumpInit, FreeInv, SlotAt, Quiet, TriggerOn, NoTrigger
<1>2. SessionInv /\ DumpTyped /\ FreeInv /\ [Next]_vars => FreeInv'
  BY FreeStep, SessionAssumption
<1> QED
  BY <1>1, <1>2, SessionInvariance, TypeInvariance, PTL DEF Spec

\* What was read is what the counter still stands at when it is written back.
PictureAt(c) ==
  s_HAL3_test[c].class = "SNAPSHOT" /\ OnDemand(s_HAL3_test[c]) =>
    /\ PicturesSaved(c)
    /\ post[c].counter = "snapshot" /\ post[c].pc = "store" =>
         post[c].value = snapshot_num[c]

PictureInv == \A c \in Cameras : PictureAt(c)

LEMMA PictureStep ==
  ASSUME SessionAssumption, ~Impatient, SessionInv, DumpTyped, FreeInv, FreeInv',
         PictureInv, [Next]_vars
  PROVE  PictureInv'
<1> SUFFICES ASSUME NEW d \in Cameras PROVE PictureAt(d)'
  BY DEF PictureInv
<1> USE DEF PictureAt
<1>0. PictureAt(d) /\ SlotAt(d) /\ SlotAt(d)' /\ CounterTypes(d)
  BY CameraTypes DEF PictureInv, FreeInv
<1>1. CASE Untouched(d)
  <2>1. CASE SameCase(d)
    BY <1>0, <1>1, <2>1 DEF Untouched, SameCounters, SameCase, OnDemand, PicturesSaved
  <2>2. CASE ~Taken(d)
    BY <1>0, <1>1, <2>2 DEF Untouched, SameCounters, SlotAt, Quiet, PicturesSaved, NoFrame
  <2> QED
    BY <1>1, <2>1, <2>2 DEF Untouched
<1>2. CASE UNCHANGED dumpVars /\ \A c \in Cameras : SameCase(c) \/ ~Taken(c)
  BY <1>1, <1>2 DEF Untouched, SameCounters, TriggerOn, dumpVars, counterVars
<1>3. ASSUME NEW c \in Cameras, Resets(c) PROVE PictureAt(d)'
  BY <1>1, <1>3, ResetEffect DEF PicturesSaved, NoFrame
<1>4. ASSUME NEW c \in Cameras, NEW n \in Counts \cup {0, 1}, Asks(c, n) PROVE PictureAt(d)'
  <2>1. CASE d # c
    BY <1>1, <1>4, <2>1, AskEffect
  <2>2. CASE d = c
    <3>1. /\ Saved(c) /\ UNCHANGED <<s_HAL3_test, post>>
          /\ s_HAL3_test[c].class = "SNAPSHOT" => snapshot_num'[c] = n
          /\ OnDemand(s_HAL3_test[c]) => pictures'[c] = pictures[c] + n
      BY <1>4, AskEffect
    <3>2. n \in Nat
      BY DumpFacts
    <3> QED
      BY <2>2, <3>1, <3>2 DEF Saved, PicturesSaved
  <2> QED
    BY <2>1, <2>2
<1>5. ASSUME NEW c \in Cameras, NEW n, NEW i, Dumps(c, n, i) PROVE PictureAt(d)'
  BY <1>0, <1>5, DumpsEffect DEF SameCounters, PicturesSaved
<1>6. CASE Trigger
  <2>1. PICK c \in Cameras : c = trigger.camera
    BY DEF DumpTyped
  <2> QED
    BY <1>0, <1>6, <2>1, TriggerEffect DEF PicturesSaved
<1>7. ASSUME NEW c \in Cameras, ResultThread(c) PROVE PictureAt(d)'
  <2>1. CASE d # c
    BY <1>1, <1>7, <2>1, ResultEffect
  <2>2. ASSUME d = c, s_HAL3_test[c].class = "SNAPSHOT", OnDemand(s_HAL3_test[c])
        PROVE  PicturesSaved(c)' /\ (post'[c].counter = "snapshot" /\ post'[c].pc = "store" =>
                                       post'[c].value = snapshot_num'[c])
    <3>0. /\ snapshot_num[c] = pictures[c] + (IF post[c].counter = "snapshot" THEN 1 ELSE 0)
          /\ post[c].counter = "snapshot" /\ post[c].pc = "store" =>
               post[c].value = snapshot_num[c]
      BY <1>0, <2>2 DEF PicturesSaved
    <3>1. ASSUME NEW type \in DumpedTypes, NEW onDemand \in BOOLEAN,
                 FrameAt(c, type, onDemand)
          PROVE  PicturesSaved(c)' /\ post'[c].pc # "store"
      <4>1. post[c] = NoFrame /\ snapshot_num[c] = pictures[c] /\ pictures[c] \in Nat
        BY <1>0, <2>2, <3>0, <3>1 DEF FrameAt, SlotAt, NoFrame, CounterTypes
      <4>2. CASE type = "SNAPSHOT"
        <5>1. /\ pictures[c] > 0 /\ pictures'[c] = pictures[c] - 1
              /\ UNCHANGED snapshot_num
              /\ post'[c] = [pc |-> "file", value |-> 0, counter |-> "snapshot"]
          BY <2>2, <3>1, <4>1, <4>2, CounterIs
             DEF FrameAt, counterVars, CounterReduced, CounterTested
        <5> QED
          BY <4>1, <5>1 DEF PicturesSaved
      <4>3. CASE type # "SNAPSHOT"
        <5>1. /\ pictures'[c] = pictures[c] /\ UNCHANGED snapshot_num
              /\ \/ post'[c] = NoFrame
                 \/ post'[c].counter # "snapshot" /\ post'[c].pc = "file"
          BY <2>2, <3>1, <4>1, <4>3, CounterIs DEF FrameAt, counterVars, CounterReduced
        <5> QED
          BY <4>1, <5>1 DEF PicturesSaved, NoFrame
      <4> QED
        BY <4>2, <4>3
    <3>2. CASE WrittenAt(c)
      BY <1>0, <2>2, <3>0, <3>2, CounterIs
         DEF WrittenAt, PicturesSaved, counterVars, NoFrame, CounterTypes
    <3>3. CASE CountedAt(c)
      BY <1>0, <2>2, <3>0, <3>3 DEF CountedAt, PicturesSaved, NoFrame, CounterTypes
    <3>4. \/ WrittenAt(c) \/ CountedAt(c)
          \/ \E type \in DumpedTypes, onDemand \in BOOLEAN : FrameAt(c, type, onDemand)
      BY <1>7, ResultEffect
    <3> QED
      BY <3>1, <3>2, <3>3, <3>4
  <2>3. UNCHANGED s_HAL3_test
    BY <1>7, ResultEffect
  <2> QED
    BY <2>1, <2>2, <2>3
<1> QED
  BY <1>2, <1>3, <1>4, <1>5, <1>6, <1>7, DumpSteps

\* A user who waits for the pictures of a case before asking for more has every one
\* of them in a file (qcamx_preview_snapshot_case.cpp:25-49, 127-144), on every
\* camera and whatever other commands come meanwhile.
THEOREM PicturesAllSaved == ~Impatient => (Spec => []AllPicturesSaved)
<1> SUFFICES ASSUME ~Impatient PROVE Spec => []AllPicturesSaved
  OBVIOUS
<1>1. Init => PictureInv
  BY NoCaseIsNone DEF Init, PictureInv, PictureAt
<1>2. SessionInv /\ DumpTyped /\ FreeInv /\ FreeInv' /\ PictureInv /\ [Next]_vars => PictureInv'
  BY PictureStep, SessionAssumption
<1>3. PictureInv => AllPicturesSaved
  BY DEF PictureInv, PictureAt, AllPicturesSaved
<1> QED
  BY <1>1, <1>2, <1>3, SessionInvariance, TypeInvariance, FreeInvariance, PTL DEF Spec

----------------------------------------------------------------------------
(* Dumps *)

\* The two exceptions the checks know of: a case for video only counts down another
\* counter than the one it tests (the run dump_video_only), and a count of zero that
\* comes while a file is being written is counted down past zero.
DumpsFit == "VIDEO_ONLY" \notin DumpClasses /\ 0 \notin Counts

Dumped == {"preview", "video"}

\* No more than was asked for so far, or is being asked for.
Bounded(c, n) == n <= asked[c] \/ (TriggerOn(c) /\ n <= trigger.count)

\* A count that will be written back is one that was asked for.
BoundedAt(c, k) ==
  /\ Bounded(c, Counter(c, k))
  /\ post[c].counter = k =>
       /\ post[c].pc = "file" => Counter(c, k) >= 1
       /\ post[c].pc = "store" => post[c].value >= 1 /\ Bounded(c, post[c].value)

\* The files that are still to be counted for a dump.
Left(c, k) ==
  IF post[c].counter # k THEN Counter(c, k)
  ELSE IF post[c].pc = "file" THEN Counter(c, k) - 1 ELSE post[c].value - 1

AccountAt(c, k) ==
  interval[c] = 0 /\ ~TriggerOn(c) => dumped[c][k] + Left(c, k) <= asked[c]

DumpInv ==
  /\ trigger.pc # "none" => trigger.count >= 1
  /\ \A c \in Cameras :
       /\ s_HAL3_test[c].class = "VIDEO_ONLY" => Quiet(c)
       /\ \A k \in Dumped : BoundedAt(c, k) /\ AccountAt(c, k)

LEMMA CounterNow ==
  ASSUME NEW c, NEW k \in Dumped
  PROVE  /\ Counter(c, k) = IF k = "preview" THEN preview_num[c] ELSE video_num[c]
         /\ Counter(c, k)' = IF k = "preview" THEN preview_num'[c] ELSE video_num'[c]
BY DEF Counter, Dumped

LEMMA CounterNat ==
  ASSUME DumpTyped, NEW c \in Cameras, NEW k \in Dumped
  PROVE  /\ Counter(c, k) \in 0 .. Word - 1 /\ dumped[c][k] \in Nat /\ asked[c] \in Nat
         /\ post[c].value \in 0 .. Word - 1 /\ trigger.count \in Nat /\ Word \in Nat
<1>1. CounterTypes(c)
  BY CameraTypes
<1> QED
  BY <1>1, CounterNow DEF CounterTypes, Dumped

\* Nothing changes for a camera that a step leaves alone.
LEMMA DumpKept ==
  ASSUME NEW c \in Cameras, NEW k \in Dumped, Untouched(c), BoundedAt(c, k), AccountAt(c, k)
  PROVE  BoundedAt(c, k)' /\ AccountAt(c, k)'
<1>1. Counter(c, k)' = Counter(c, k)
  BY CounterNow DEF Untouched, SameCounters
<1>2. /\ post'[c] = post[c] /\ asked'[c] = asked[c] /\ dumped'[c] = dumped[c]
      /\ interval'[c] = interval[c]
      /\ TriggerOn(c)' <=> TriggerOn(c)
      /\ TriggerOn(c) => trigger'.count = trigger.count
  BY DEF Untouched, SameCounters
<1>3. \A n : Bounded(c, n)' <=> Bounded(c, n)
  BY <1>2 DEF Bounded
<1>4. Left(c, k)' = Left(c, k)
  BY <1>1, <1>2 DEF Left
<1>5. BoundedAt(c, k)'
  BY <1>1, <1>2, <1>3 DEF BoundedAt
<1>6. AccountAt(c, k)'
  BY <1>2, <1>4 DEF AccountAt
<1> QED
  BY <1>5, <1>6

\* The result thread counts down what was asked for.
LEMMA DumpResult ==
  ASSUME DumpTyped, FreeInv, NEW c \in Cameras, NEW k \in Dumped, ResultThread(c),
         s_HAL3_test[c].class # "VIDEO_ONLY", BoundedAt(c, k), AccountAt(c, k)
  PROVE  BoundedAt(c, k)' /\ AccountAt(c, k)'
<1>1. /\ UNCHANGED <<trigger, asked>>
      /\ \/ WrittenAt(c) \/ CountedAt(c)
         \/ \E type \in DumpedTypes, onDemand \in BOOLEAN : FrameAt(c, type, onDemand)
  BY ResultEffect
<1>2. /\ Counter(c, k) \in 0 .. Word - 1 /\ dumped[c][k] \in Nat /\ asked[c] \in Nat
      /\ post[c].value \in 0 .. Word - 1 /\ trigger.count \in Nat /\ Word \in Nat
  BY CounterNat
<1>3. \A n : Bounded(c, n)' <=> Bounded(c, n)
  BY <1>1 DEF Bounded, TriggerOn
<1>4. TriggerOn(c)' <=> TriggerOn(c)
  BY <1>1 DEF TriggerOn
<1>5. CASE WrittenAt(c)
  <2>1. /\ post[c].pc = "file" /\ Counter(c, k)' = Counter(c, k)
        /\ interval'[c] = interval[c] /\ dumped'[c] = dumped[c]
        /\ \/ post'[c] = NoFrame /\ interval[c] > 0
           \/ post'[c] = [pc |-> "store", counter |-> post[c].counter,
                          value |-> Counter(c, post[c].counter)]
    BY <1>5, CounterNow DEF WrittenAt, counterVars
  <2>2. CASE post[c].counter = k
    BY <1>1, <1>2, <1>3, <1>4, <2>1, <2>2 DEF BoundedAt, AccountAt, Left, NoFrame, Dumped
  <2>3. CASE post[c].counter # k
    BY <1>1, <1>2, <1>3, <1>4, <2>1, <2>3 DEF BoundedAt, AccountAt, Left, NoFrame, Dumped
  <2> QED
    BY <2>2, <2>3
<1>6. CASE CountedAt(c)
  <2>1. /\ post[c].pc = "store" /\ post'[c] = NoFrame
        /\ interval'[c] = interval[c] /\ dumped'[c] = dumped[c]
        /\ Counter(c, k)' = IF post[c].counter = k THEN CountedDown(post[c].value)
                            ELSE Counter(c, k)
    BY <1>6, CounterNow DEF CountedAt, Dumped
  <2>2. CASE post[c].counter = k
    <3>1. CountedDown(post[c].value) = post[c].value - 1
      BY <1>2, <2>1, <2>2 DEF BoundedAt, CountedDown
    <3> QED
      BY <1>1, <1>2, <1>3, <1>4, <2>1, <2>2, <3>1
         DEF BoundedAt, AccountAt, Left, NoFrame, Dumped, Bounded
  <2>3. CASE post[c].counter # k
    BY <1>1, <1>2, <1>3, <1>4, <2>1, <2>3 DEF BoundedAt, AccountAt, Left, NoFrame, Dumped
  <2> QED
    BY <2>2, <2>3
<1>7. ASSUME NEW type \in DumpedTypes, NEW onDemand \in BOOLEAN, FrameAt(c, type, onDemand)
      PROVE  BoundedAt(c, k)' /\ AccountAt(c, k)'
  <2> DEFINE t == CounterTested(type)
  <2>1. /\ post[c] = NoFrame /\ Counter(c, k)' = Counter(c, k) /\ interval'[c] = interval[c]
        /\ \/ UNCHANGED <<post, dumped>>
           \/ /\ Counter(c, t) > 0 /\ dumped'[c] = FileCounted(c, t)
              /\ post'[c] = [pc |-> "file", value |-> 0, counter |-> t]
    BY <1>7, CounterNow, CounterIs DEF FrameAt, counterVars, FreeInv, SlotAt
  <2>2. t \in {"preview", "video", "snapshot"}
    BY CounterIs
  <2> HIDE DEF t
  <2>3. CASE UNCHANGED <<post, dumped>>
    BY <1>1, <1>2, <1>3, <1>4, <2>1, <2>3 DEF BoundedAt, AccountAt, Left
  <2>4. CASE /\ Counter(c, t) > 0 /\ dumped'[c] = FileCounted(c, t)
             /\ post'[c] = [pc |-> "file", value |-> 0, counter |-> t]
    <3>1. dumped[c] \in [preview : Nat, video : Nat]
      BY CameraTypes DEF CounterTypes
    <3>2. interval[c] = 0 => /\ dumped'[c][k] \in Int
                             /\ t # k => dumped'[c][k] = dumped[c][k]
                             /\ t = k => dumped'[c][k] <= dumped[c][k] + 1
      <4>1. CASE t # k
        BY <2>2, <2>4, <3>1, <4>1 DEF FileCounted, Dumped
      <4>2. ASSUME t = k, interval[c] = 0
            PROVE  dumped'[c][k] \in Int /\ dumped'[c][k] <= dumped[c][k] + 1
        <5>1. dumped'[c] = [dumped[c] EXCEPT ![k] = Min({dumped[c][k] + 1, asked[c] + 2})]
          BY <2>4, <4>2 DEF FileCounted, Dumped
        <5>2. dumped'[c][k] = Min({dumped[c][k] + 1, asked[c] + 2})
          BY <3>1, <5>1 DEF Dumped
        <5>3. PICK n, m \in Int : n = dumped[c][k] + 1 /\ m = asked[c] + 2
          BY <1>2
        <5>4. Min({n, m}) \in Int /\ Min({n, m}) <= n
          BY MinOfTwo
        <5> QED
          BY <5>2, <5>3, <5>4
      <4> QED
        BY <4>1, <4>2
    <3>3. CASE t = k
      <4>1. BoundedAt(c, k)'
        BY <1>2, <1>3, <2>1, <2>4, <3>3 DEF BoundedAt
      <4>2. AccountAt(c, k)'
        BY <1>1, <1>2, <1>4, <2>1, <2>2, <2>4, <3>2, <3>3 DEF AccountAt, Left, NoFrame
      <4> QED
        BY <4>1, <4>2
    <3>4. CASE t # k
      <4>1. BoundedAt(c, k)'
        BY <1>3, <2>1, <2>4, <3>4 DEF BoundedAt
      <4>2. AccountAt(c, k)'
        BY <1>1, <1>2, <1>4, <2>1, <2>4, <3>2, <3>4 DEF AccountAt, Left, NoFrame, Dumped
      <4> QED
        BY <4>1, <4>2
    <3> QED
      BY <3>3, <3>4
  <2> QED
    BY <2>1, <2>3, <2>4
<1> QED
  BY <1>1, <1>5, <1>6, <1>7

\* trigger_dump replaces the counts by the one that is asked for, and its last step
\* makes that one count.
LEMMA DumpTrigger ==
  ASSUME DumpTyped, FreeInv, Trigger, NEW c \in Cameras, c = trigger.camera,
         NEW k \in Dumped, trigger.count >= 1, BoundedAt(c, k)
  PROVE  BoundedAt(c, k)' /\ AccountAt(c, k)'
<1> DEFINE n == trigger.count
<1>1. /\ Counter(c, k) \in 0 .. Word - 1 /\ dumped[c][k] \in Nat /\ asked[c] \in Nat
      /\ post[c].value \in 0 .. Word - 1 /\ n \in Nat /\ Word \in Nat
  BY CounterNat
<1>2. /\ TriggerOn(c) /\ UNCHANGED post
      /\ \/ /\ TriggerOn(c)' /\ trigger'.count = n /\ UNCHANGED asked
            /\ Counter(c, k)' \in {Counter(c, k), n}
         \/ /\ trigger' = NoTrigger /\ Counter(c, k)' = Counter(c, k)
            /\ asked'[c] = Max({asked[c], n}) /\ dumped'[c] = NothingDumped
  BY TriggerEffect, CounterNow
<1>3. Max({asked[c], n}) \in Nat /\ Max({asked[c], n}) >= asked[c] /\ Max({asked[c], n}) >= n
  <2>1. PICK a, b \in Int : a = asked[c] /\ b = n
    BY <1>1
  <2>2. Max({a, b}) \in {a, b} /\ Max({a, b}) >= a /\ Max({a, b}) >= b
    BY MaxOfTwo
  <2> QED
    BY <1>1, <2>1, <2>2
<1> HIDE DEF n
<1>4. CASE TriggerOn(c)' /\ trigger'.count = n /\ UNCHANGED asked
           /\ Counter(c, k)' \in {Counter(c, k), n}
  BY <1>1, <1>2, <1>4 DEF BoundedAt, Bounded, AccountAt, n
<1>5. CASE /\ trigger' = NoTrigger /\ Counter(c, k)' = Counter(c, k)
           /\ asked'[c] = Max({asked[c], n}) /\ dumped'[c] = NothingDumped
  <2>1. ~TriggerOn(c)' /\ dumped'[c][k] = 0
    BY <1>5 DEF TriggerOn, NoTrigger, NothingDumped, Dumped
  <2>2. \A m \in Nat : Bounded(c, m) => m <= asked'[c]
    BY <1>1, <1>2, <1>3, <1>5 DEF Bounded, n
  <2>3. Counter(c, k) <= asked'[c]
    BY <1>1, <2>2 DEF BoundedAt
  <2>4. post[c].counter = k /\ post[c].pc = "store" => post[c].value <= asked'[c]
    BY <1>1, <2>2 DEF BoundedAt
  <2>5. BoundedAt(c, k)'
    BY <1>1, <1>2, <1>5, <2>3, <2>4 DEF BoundedAt, Bounded
  <2>6. Left(c, k)' <= asked'[c] /\ Left(c, k)' \in Int
    <3>1. post[c].counter = k => post[c].pc \in {"file", "store"}
      BY CameraTypes DEF CounterTypes, FreeInv, SlotAt, NoFrame, Dumped
    <3> QED
      BY <1>1, <1>2, <1>3, <1>5, <2>3, <2>4, <3>1 DEF Left
  <2> QED
    BY <2>1, <2>5, <2>6 DEF AccountAt
<1> QED
  BY <1>2, <1>4, <1>5

\* A command that only asks leaves the counters to trigger_dump.
LEMMA DumpAsked ==
  ASSUME NEW c \in Cameras, NEW k \in Dumped, BoundedAt(c, k), AccountAt(c, k),
         UNCHANGED <<preview_num, video_num, interval, post, asked, dumped>>,
         UNCHANGED trigger \/ (trigger.pc = "none" /\ TriggerOn(c)')
  PROVE  BoundedAt(c, k)' /\ AccountAt(c, k)'
<1>1. Counter(c, k)' = Counter(c, k)
  BY CounterNow
<1>2. \A n : Bounded(c, n) => Bounded(c, n)'
  BY DEF Bounded, TriggerOn
<1>3. TriggerOn(c) => TriggerOn(c)'
  BY DEF TriggerOn
<1>4. BoundedAt(c, k)'
  BY <1>1, <1>2 DEF BoundedAt
<1>5. Left(c, k)' = Left(c, k)
  BY <1>1 DEF Left
<1> QED
  BY <1>3, <1>4, <1>5 DEF AccountAt

DumpFine(c) ==
  /\ s_HAL3_test[c].class = "VIDEO_ONLY" => Quiet(c)
  /\ \A k \in Dumped : BoundedAt(c, k) /\ AccountAt(c, k)

LEMMA DumpStep ==
  ASSUME SessionAssumption, DumpsFit, SessionInv, DumpTyped, FreeInv, DumpInv, [Next]_vars
  PROVE  DumpInv'
<1>0. "VIDEO_ONLY" \notin DumpClasses /\ 0 \notin Counts
  BY DEF DumpsFit
<1>1. \A c \in Cameras : SlotAt(c)
  BY DEF FreeInv
<1>10. 0 \in Cameras
  BY DEF SessionAssumption
<1> SUFFICES ASSUME NEW d \in Cameras
    PROVE  (trigger'.pc # "none" => trigger'.count >= 1) /\ DumpFine(d)'
  BY <1>10 DEF DumpInv, DumpFine
<1>2. DumpFine(d) /\ (trigger.pc # "none" => trigger.count >= 1)
  BY DEF DumpInv, DumpFine
<1>3. ASSUME Untouched(d) PROVE DumpFine(d)'
  <2>1. \A k \in Dumped : BoundedAt(d, k)' /\ AccountAt(d, k)'
    BY <1>2, <1>3, DumpKept DEF DumpFine
  <2>2. Quiet(d) => Quiet(d)'
    BY <1>3 DEF Untouched, SameCounters, Quiet
  <2>3. s_HAL3_test'[d].class = "VIDEO_ONLY" => Quiet(d)
    BY <1>1, <1>2, <1>3 DEF Untouched, SameCase, SlotAt, DumpFine
  <2> QED
    BY <2>1, <2>2, <2>3 DEF DumpFine
<1>4. CASE UNCHANGED dumpVars /\ \A c \in Cameras : SameCase(c) \/ ~Taken(c)
  <2>1. Untouched(d) /\ UNCHANGED trigger
    BY <1>4 DEF Untouched, SameCounters, TriggerOn, dumpVars, counterVars
  <2> QED
    BY <1>2, <1>3, <2>1
<1>5. CASE \E c \in Cameras : Resets(c)
  <2> PICK c \in Cameras : Resets(c)
    BY <1>5
  <2>1. /\ preview_num'[c] = 0 /\ video_num'[c] = 0 /\ asked'[c] = 0
        /\ dumped'[c] = NothingDumped /\ post'[c] = NoFrame /\ ~Taken(c)'
        /\ trigger'.pc = "none"
        /\ d # c => Untouched(d)
    BY ResetEffect
  <2>2. CASE d = c
    <3>1. s_HAL3_test'[c].class # "VIDEO_ONLY"
      BY <2>1, NoCaseIsNone DEF Taken
    <3>2. ASSUME NEW k \in Dumped PROVE BoundedAt(c, k)' /\ AccountAt(c, k)'
      <4>1. Counter(c, k)' = 0
        BY <2>1, CounterNow
      <4>2. post'[c].counter # k /\ dumped'[c][k] = 0
        BY <2>1 DEF NoFrame, NothingDumped, Dumped
      <4> QED
        BY <2>1, <4>1, <4>2 DEF BoundedAt, AccountAt, Bounded, Left
    <3> QED
      BY <2>1, <2>2, <3>1, <3>2 DEF DumpFine
  <2> QED
    BY <1>3, <2>1, <2>2
<1>6. CASE \E c \in Cameras, n \in Counts \cup {0, 1} : Asks(c, n)
  <2> PICK c \in Cameras, n \in Counts \cup {0, 1} : Asks(c, n)
    BY <1>6
  <2>1. /\ UNCHANGED <<s_HAL3_test, preview_num, video_num, interval, post, asked, dumped>>
        /\ snapshot_num'[c] = IF s_HAL3_test[c].class = "SNAPSHOT" THEN n ELSE snapshot_num[c]
        /\ \/ UNCHANGED trigger
           \/ /\ trigger.pc = "none" /\ n \in Counts \cup {1}
              /\ s_HAL3_test[c].class \in DumpClasses
              /\ trigger' = [pc |-> "preview", camera |-> c, count |-> n, interval |-> 0]
        /\ d # c => Untouched(d)
    BY AskEffect
  <2>2. trigger'.pc # "none" => trigger'.count >= 1
    BY <1>0, <1>2, <2>1, DumpFacts
  <2>3. CASE d = c
    <3>1. s_HAL3_test'[c].class = "VIDEO_ONLY" => Quiet(c)'
      BY <1>0, <1>2, <2>1, <2>3 DEF Quiet, TriggerOn, DumpFine
    <3>2. UNCHANGED trigger \/ (trigger.pc = "none" /\ TriggerOn(c)')
      BY <2>1 DEF TriggerOn
    <3>3. \A k \in Dumped : BoundedAt(c, k)' /\ AccountAt(c, k)'
      BY <1>2, <2>1, <2>3, <3>2, DumpAsked DEF DumpFine
    <3> QED
      BY <2>2, <2>3, <3>1, <3>3 DEF DumpFine
  <2> QED
    BY <1>3, <2>1, <2>2, <2>3
<1>7. CASE \E c \in Cameras, n \in Counts, i \in Intervals : Dumps(c, n, i)
  <2> PICK c \in Cameras, n \in Counts, i \in Intervals : Dumps(c, n, i)
    BY <1>7
  <2>1. /\ trigger.pc = "none" /\ s_HAL3_test[c].class \in DumpClasses
        /\ trigger' = [pc |-> "preview", camera |-> c, count |-> n, interval |-> i]
        /\ d # c => Untouched(d)
    BY DumpsEffect
  <2>2. UNCHANGED <<s_HAL3_test, preview_num, video_num, interval, post, asked, dumped>>
    BY DEF Dumps, counterVars
  <2>3. trigger'.count >= 1
    BY <1>0, <2>1, DumpFacts
  <2>4. CASE d = c
    <3>1. s_HAL3_test'[c].class # "VIDEO_ONLY" /\ TriggerOn(c)'
      BY <1>0, <2>1, <2>2 DEF TriggerOn
    <3>2. \A k \in Dumped : BoundedAt(c, k)' /\ AccountAt(c, k)'
      BY <1>2, <2>1, <2>2, <2>4, <3>1, DumpAsked DEF DumpFine
    <3> QED
      BY <2>3, <2>4, <3>1, <3>2 DEF DumpFine
  <2> QED
    BY <1>3, <2>1, <2>3, <2>4
<1>8. CASE Trigger
  <2> PICK c \in Cameras : c = trigger.camera
    BY DEF DumpTyped
  <2>1. /\ TriggerOn(c) /\ UNCHANGED s_HAL3_test
        /\ d # c => Untouched(d)
        /\ trigger'.count = trigger.count \/ trigger' = NoTrigger
    BY <1>8, TriggerEffect
  <2>2. trigger'.pc # "none" => trigger'.count >= 1
    BY <1>2, <2>1 DEF TriggerOn, NoTrigger
  <2>3. CASE d = c
    <3>1. s_HAL3_test'[c].class # "VIDEO_ONLY"
      BY <1>2, <2>1, <2>3 DEF Quiet, DumpFine
    <3>2. \A k \in Dumped : BoundedAt(c, k)' /\ AccountAt(c, k)'
      BY <1>2, <1>8, <2>1, <2>3, DumpTrigger DEF DumpFine, TriggerOn
    <3> QED
      BY <2>2, <2>3, <3>1, <3>2 DEF DumpFine
  <2> QED
    BY <1>3, <2>1, <2>2, <2>3
<1>9. CASE \E c \in Cameras : ResultThread(c)
  <2> PICK c \in Cameras : ResultThread(c)
    BY <1>9
  <2>1. /\ UNCHANGED <<s_HAL3_test, trigger>>
        /\ d # c => Untouched(d)
        /\ \/ WrittenAt(c) \/ CountedAt(c)
           \/ \E type \in DumpedTypes, onDemand \in BOOLEAN : FrameAt(c, type, onDemand)
    BY ResultEffect
  <2>2. CASE d = c /\ s_HAL3_test[c].class # "VIDEO_ONLY"
    <3>1. \A k \in Dumped : BoundedAt(c, k)' /\ AccountAt(c, k)'
      BY <1>2, <2>2, DumpResult DEF DumpFine
    <3> QED
      BY <1>2, <2>1, <2>2, <3>1 DEF DumpFine
  <2>3. CASE d = c /\ s_HAL3_test[c].class = "VIDEO_ONLY"
    <3>1. Quiet(c)
      BY <1>2, <2>3 DEF DumpFine
    <3>2. ~WrittenAt(c) /\ ~CountedAt(c)
      BY <3>1 DEF Quiet, NoFrame, WrittenAt, CountedAt
    <3>3. PICK type \in DumpedTypes, onDemand \in BOOLEAN : FrameAt(c, type, onDemand)
      BY <2>1, <3>2
    <3>4. ~(Counter(c, CounterTested(type)) > 0)
      BY <3>1, CounterIs DEF Quiet
    <3>5. UNCHANGED <<counterVars, post, dumped>>
      BY <3>3, <3>4 DEF FrameAt
    <3>6. UNCHANGED asked
      BY ResultEffect
    <3>7. \A k \in Dumped : BoundedAt(c, k)' /\ AccountAt(c, k)'
      BY <1>2, <2>1, <2>3, <3>5, <3>6, DumpAsked DEF DumpFine, counterVars
    <3>8. Quiet(c)'
      BY <2>1, <3>1, <3>5 DEF Quiet, TriggerOn, counterVars
    <3> QED
      BY <1>2, <2>1, <2>3, <3>7, <3>8 DEF DumpFine
  <2> QED
    BY <1>2, <1>3, <2>1, <2>2, <2>3
<1> QED
  BY <1>0, <1>4, <1>5, <1>6, <1>7, <1>8, <1>9, DumpSteps

\* A command that asks for n dumped frames of a stream gets no more of them than the
\* largest count it or an earlier one named, although the command thread sets the
\* counters one after the other while the result thread counts them down without a
\* lock (qcamx_case.cpp:490-496 and, of the cases, capture_post_process, for
\* instance qcamx_preview_only_case.cpp:11-41).
THEOREM DumpsAsAsked == DumpsFit => (Spec => []DumpNotExceeded)
<1> SUFFICES ASSUME DumpsFit PROVE Spec => []DumpNotExceeded
  OBVIOUS
<1>1. Init => DumpInv
  <2> SUFFICES ASSUME Init, NEW c \in Cameras, NEW k \in Dumped
      PROVE  /\ trigger.pc = "none" /\ s_HAL3_test[c].class # "VIDEO_ONLY"
             /\ BoundedAt(c, k) /\ AccountAt(c, k)
    BY NoCaseIsNone DEF DumpInv, Init, DumpInit, NoTrigger
  <2>1. /\ Counter(c, k) = 0 /\ post[c] = NoFrame /\ asked[c] = 0
        /\ dumped[c] = NothingDumped /\ trigger = NoTrigger
    BY CounterNow DEF Init, DumpInit
  <2>2. post[c].counter # k /\ dumped[c][k] = 0 /\ trigger.pc = "none"
    BY <2>1 DEF NoFrame, NothingDumped, Dumped, NoTrigger
  <2> QED
    BY <2>1, <2>2, NoCaseIsNone DEF Init, BoundedAt, AccountAt, Bounded, Left
<1>2. SessionInv /\ DumpTyped /\ FreeInv /\ DumpInv /\ [Next]_vars => DumpInv'
  BY DumpStep, SessionAssumption
<1>3. ASSUME DumpTyped, FreeInv, DumpInv PROVE DumpNotExceeded
  <2> SUFFICES ASSUME NEW c \in Cameras, interval[c] = 0, ~TriggerOn(c), NEW k \in Dumped
      PROVE  dumped[c][k] <= asked[c]
    BY DEF DumpNotExceeded, TriggerOn, Dumped
  <2>1. dumped[c][k] + Left(c, k) <= asked[c] /\ BoundedAt(c, k)
    BY <1>3 DEF DumpInv, AccountAt
  <2>2. /\ Counter(c, k) \in Nat /\ dumped[c][k] \in Nat /\ asked[c] \in Nat
        /\ post[c].value \in Nat
    BY <1>3, CounterNat
  <2>3. post[c].counter = k => post[c].pc \in {"file", "store"}
    BY <1>3, CameraTypes DEF CounterTypes, FreeInv, SlotAt, NoFrame, Dumped
  <2>4. Left(c, k) \in Nat
    BY <2>1, <2>2, <2>3 DEF Left, BoundedAt
  <2> QED
    BY <2>1, <2>2, <2>4
<1> QED
  BY <1>1, <1>2, <1>3, SessionInvariance, TypeInvariance, FreeInvariance, PTL DEF Spec

----------------------------------------------------------------------------
(* The streams of a case *)

\* The types of the streams of each class.
LEMMA TypesOf ==
  ASSUME NEW case, NEW conf, NEW active, NEW class \in TestModes,
         case.streams = Streams(class, conf, active)
  PROVE  LET types == StreamTypes(case)
             slow  == VideoMode(MaxFps(conf)) <= 60
         IN /\ "PREVIEW" \in types <=> class \notin {"VIDEO_ONLY", "DEPTH"}
            /\ "VIDEO" \in types <=> class \in VideoClasses
            /\ "SNAPSHOT" \in types <=> class = "SNAPSHOT" \/ (class = "VIDEO" /\ slow)
<1>1. CASE class \in {"PREVIEW", "SNAPSHOT", "PREVIEW_VIDEO_ONLY", "VIDEO_ONLY"}
  <2> USE DEF Streams, StreamTypes, VideoClasses, Continuous, StreamOf
  <2>1. CASE class = "PREVIEW"
    BY <2>1 DEF PreviewStreams
  <2>2. CASE class = "SNAPSHOT"
    BY <2>2 DEF PreviewSnapshotStreams
  <2>3. CASE class = "PREVIEW_VIDEO_ONLY"
    BY <2>3 DEF PreviewVideoStreams, SkippedPreview, VideoStream
  <2>4. CASE class = "VIDEO_ONLY"
    BY <2>4 DEF VideoOnlyStreams, VideoStream
  <2> QED
    BY <1>1, <2>1, <2>2, <2>3, <2>4
<1>2. CASE class = "VIDEO"
  <2>1. /\ SkippedPreview(conf).type = "PREVIEW" /\ VideoStream(conf).type = "VIDEO"
        /\ Picture(conf).type = "SNAPSHOT" /\ RawPicture(conf, active).type = "RAW"
    BY DEF SkippedPreview, VideoStream, Continuous, Picture, RawPicture, StreamOf
  <2>2. case.streams = VideoTestStreams(conf, active)
    BY <1>2 DEF Streams
  <2> QED
    BY <1>2, <2>1, <2>2, VideoStreamsAre DEF StreamTypes, VideoClasses
<1>3. CASE class = "DEPTH"
  <2> DEFINE d == Continuous("DEPTH", conf.depth, PREVIEW_STREAM_BUFFER_MAX)
             r == Continuous("IRBG", conf.irbg, PREVIEW_STREAM_BUFFER_MAX)
  <2>1. d.type = "DEPTH" /\ r.type = "IRBG"
    BY DEF Continuous, StreamOf
  <2> HIDE DEF d, r
  <2>2. DepthStreams(conf) \in {<<d>> \o <<r>>, <<d>> \o <<>>}
    BY DEF DepthStreams, d, r
  <2>3. DepthStreams(conf) \in {<<d>>, <<d, r>>}
    BY <2>2, Appended, Zenon
  <2>4. case.streams = DepthStreams(conf)
    BY <1>3 DEF Streams
  <2> QED
    BY <1>3, <2>1, <2>3, <2>4 DEF StreamTypes, VideoClasses
<1> QED
  BY <1>1, <1>2, <1>3 DEF TestModes

\* A new case has the streams that were asked for.
LEMMA NewCaseAsAsked ==
  ASSUME NEW class \in TestModes, NEW conf, NEW hal, WellFormed(conf), SizedOutputs(hal),
         RawWithPictures(NewCase(class, conf, hal)), class = "VIDEO" \/ (class = conf.test_mode /\ SizesOfMode(conf))
  PROVE  AsAsked(NewCase(class, conf, hal))
<1> DEFINE case == NewCase(class, conf, hal)
           streams == Streams(class, conf, hal.active)
<1>1. /\ case.class = class /\ case.conf = conf
      /\ case.streams # <<>> => case.streams = streams /\ Configured(class, streams, hal)
      /\ class = "VIDEO" /\ conf.rawformat # 0 => conf.snapshot.size # NoSize
  BY DEF NewCase, RawWithPictures
<1> HIDE DEF case
<1>2. ASSUME case.streams # <<>>, class # "DEPTH"
      PROVE  LET fast  == class = "VIDEO" /\ VideoMode(MaxFps(conf)) > 60
                 types == StreamTypes(case)
             IN /\ ("PREVIEW" \in types) <=> (conf.preview.size # NoSize)
                /\ ("VIDEO" \in types) <=> (conf.video.size # NoSize)
                /\ ("SNAPSHOT" \in types) <=> (conf.snapshot.size # NoSize /\ ~fast)
  <2> DEFINE types == StreamTypes(case)
             slow  == VideoMode(MaxFps(conf)) <= 60
  <2>1. /\ class \notin {"VIDEO_ONLY", "DEPTH"} => conf.preview.size # NoSize
        /\ class \in VideoClasses => conf.video.size # NoSize
        /\ class = "SNAPSHOT" => conf.snapshot.size # NoSize
        /\ class = "VIDEO" /\ slow /\ conf.rawformat = 0
             => conf.snapshot.size # NoSize
    BY <1>1, <1>2, CheckedSizes
  <2>2. /\ ("PREVIEW" \in types) <=> class \notin {"VIDEO_ONLY", "DEPTH"}
        /\ ("VIDEO" \in types) <=> class \in VideoClasses
        /\ ("SNAPSHOT" \in types) <=> (class = "SNAPSHOT" \/ (class = "VIDEO" /\ slow))
    BY <1>1, <1>2, TypesOf
  <2>3. slow <=> ~(VideoMode(MaxFps(conf)) > 60)
    <3>1. MaxFps(conf) \in Int
      BY DEF WellFormed, MaxFps
    <3> QED
      BY <3>1, VideoModeIs DEF Rates
  <2>4. /\ class = "VIDEO_ONLY" => conf.preview.size = NoSize
        /\ class \in {"PREVIEW", "SNAPSHOT"} => conf.video.size = NoSize
        /\ class \in {"PREVIEW", "PREVIEW_VIDEO_ONLY", "VIDEO_ONLY"} =>
             conf.snapshot.size = NoSize
    BY DEF SizesOfMode
  <2>5. class = "VIDEO" /\ slow => conf.snapshot.size # NoSize
    BY <1>1, <2>1
  <2> HIDE DEF types, slow
  <2>6. ("PREVIEW" \in types) <=> (conf.preview.size # NoSize)
    BY <1>2, <2>1, <2>2, <2>4
  <2>7. ("VIDEO" \in types) <=> (conf.video.size # NoSize)
    BY <1>2, <2>1, <2>2, <2>4 DEF TestModes, VideoClasses
  <2>8. ("SNAPSHOT" \in types) <=>
          (conf.snapshot.size # NoSize /\ ~(class = "VIDEO" /\ ~slow))
    BY <1>2, <2>1, <2>2, <2>4, <2>5 DEF TestModes
  <2> QED
    BY <2>3, <2>6, <2>7, <2>8 DEF types
<1>3. AsAsked(case)
  <2> DEFINE types == StreamTypes(case)
             fast  == class = "VIDEO" /\ VideoMode(MaxFps(conf)) > 60
  <2>1. CASE case.streams = <<>> \/ class = "DEPTH"
    BY <1>1, <2>1 DEF AsAsked
  <2>2. CASE case.streams # <<>> /\ class # "DEPTH"
    <3>1. /\ ("PREVIEW" \in types) = (conf.preview.size # NoSize)
          /\ ("VIDEO" \in types) = (conf.video.size # NoSize)
          /\ ("SNAPSHOT" \in types) = (conf.snapshot.size # NoSize /\ ~fast)
      BY <1>2, <2>2
    <3> QED
      BY <1>1, <2>2, <3>1 DEF AsAsked
  <2> QED
    BY <2>1, <2>2
<1> QED
  BY <1>3 DEF case

----------------------------------------------------------------------------
(* What the configurations of the cases hold *)

\* That the HAL has no streams of size 0 is needed for the streams of a case only.
SizedHal == \A c \in Cameras : SizedOutputs(Hal[c])

CaseFits(case) ==
  /\ PoolsCoverWindow(case)
  /\ SensorModeFits(case, Hal[case.conf.camera_id])
  /\ SizedHal /\ RawWithPictures(case) => AsAsked(case)

\* While v stops a preview, its configuration is already that of the case for
\* video which is being made.
FitInv ==
  /\ \A c \in Cameras : Taken(c) => IsConf(s_HAL3_test[c].conf)
  /\ \A c \in Cameras :
       CaseFits(s_HAL3_test[c]) \/ (mainPc = "switchStop" /\ c = current_camera_id)
  /\ Switching => CaseFits(switching) /\ IsConf(switching.conf)

LEMMA NewCaseFits ==
  ASSUME NEW class \in TestModes, NEW conf, IsConf(conf),
         class = "VIDEO" \/ (class = conf.test_mode /\ SizesOfMode(conf))
  PROVE  /\ CaseFits(NewCase(class, conf, Hal[conf.camera_id]))
         /\ NewCase(class, conf, Hal[conf.camera_id]).conf = conf
<1> DEFINE hal == Hal[conf.camera_id]
           case == NewCase(class, conf, hal)
<1>1. case.conf = conf
  BY DEF NewCase
<1>2. WellFormed(conf) /\ conf.camera_id \in Cameras
  BY DEF IsConf
<1>3. hal.modes \in Tables /\ (SizedHal => SizedOutputs(hal))
  BY <1>2, HalAssumption DEF Tables, Modes, SizedHal
<1> HIDE DEF hal
<1>4. PoolsCoverWindow(case) /\ SensorModeFits(case, hal)
  BY <1>2, <1>3, NewCaseCovers, NewCaseSensor
<1>5. SizedHal /\ RawWithPictures(case) => AsAsked(case)
  BY <1>2, <1>3, NewCaseAsAsked
<1> HIDE DEF case
<1> QED
  BY <1>1, <1>4, <1>5 DEF CaseFits, case, hal

LEMMA NoCaseFits == CaseFits(NoCase) /\ \A hal : SensorModeFits(NoCase, hal)
<1>1. NoCase.streams = <<>> /\ NoCase.class \notin VideoClasses
  BY DEF NoCase, VideoClasses
<1>2. \A hal : SensorModeFits(NoCase, hal)
  BY <1>1 DEF SensorModeFits
<1> QED
  BY <1>1, <1>2 DEF CaseFits, PoolsCoverWindow, AsAsked, ToSet

\* A case that is put in its slot.
LEMMA FitEntered ==
  ASSUME SessionInv, FitInv, NEW case, CaseFits(case), IsConf(case.conf),
         Enter(case), mainPc # "switchStop", mainPc' = "loop"
  PROVE  FitInv'
<1> DEFINE c == case.conf.camera_id
<1>1. s_HAL3_test' = [s_HAL3_test EXCEPT ![c] = case] /\ c \in Cameras
  BY DEF Enter, SlotOf, IsConf
<1>2. \A d \in Cameras : s_HAL3_test'[d] = IF d = c THEN case ELSE s_HAL3_test[d]
  BY <1>1 DEF SessionInv, Functions
<1>3. \A d \in Cameras : Taken(d)' => d = c \/ Taken(d)
  BY <1>2 DEF Taken
<1>4. ~Switching'
  BY DEF Switching
<1> QED
  BY <1>2, <1>3, <1>4 DEF FitInv

\* A slot that is emptied.
LEMMA FitEmptied ==
  ASSUME SessionInv, FitInv, NEW c \in Cameras,
         s_HAL3_test' = [s_HAL3_test EXCEPT ![c] = NoCase],
         mainPc = "switchStop" => c = current_camera_id,
         Switching' => Switching /\ UNCHANGED switching
  PROVE  FitInv'
<1>1. \A d \in Cameras : s_HAL3_test'[d] = IF d = c THEN NoCase ELSE s_HAL3_test[d]
  BY DEF SessionInv, Functions
<1>2. \A d \in Cameras : Taken(d)' => d # c /\ Taken(d)
  BY <1>1 DEF Taken
<1>3. \A d \in Cameras : CaseFits(s_HAL3_test'[d])
  BY <1>1, NoCaseFits DEF FitInv
<1> QED
  BY <1>1, <1>2, <1>3 DEF FitInv

LEMMA FitStep ==
  ASSUME SessionAssumption, SessionInv, FitInv, [Next]_vars
  PROVE  FitInv'
<1> USE DEF Command
<1>1. CASE UNCHANGED <<s_HAL3_test, switching>>
           /\ (UNCHANGED <<mainPc, current_camera_id>>
               \/ (~Switching /\ ~Switching'))
  BY <1>1 DEF FitInv, Taken, Switching
<1>2. CASE UNCHANGED sessionVars
  BY <1>1, <1>2 DEF sessionVars, tableVars
<1>3. CASE AddRefused \/ Snapshot \/ SnapshotAndDump \/ Dump
  BY <1>1, <1>3 DEF AddRefused, Snapshot, SnapshotAndDump, Dump, tableVars
<1>4. CASE NoSuchCase \/ Quit \/ EndOfInput \/ Exit
  BY <1>1, <1>4 DEF NoSuchCase, Quit, EndOfInput, AfterInput, Exit, tableVars, Switching
<1>5. CASE Add
  <2>1. PICK order \in AddOrders :
          LET conf == ParseAdd(DefaultConfig, order).conf
          IN /\ ParseAdd(DefaultConfig, order).ok
             /\ Enter(NewCase(conf.test_mode, conf, Hal[conf.camera_id]))
    BY <1>5 DEF Add
  <2> DEFINE conf == ParseAdd(DefaultConfig, order).conf
             case == NewCase(conf.test_mode, conf, Hal[conf.camera_id])
  <2>2. IsConf(conf) /\ SizesOfMode(conf) /\ conf.test_mode \in TestModes
    BY <2>1, OrdersFit
  <2>4. mainPc = "loop" /\ mainPc' = "loop" /\ Enter(case)
    BY <1>5, <2>1 DEF Add
  <2> HIDE DEF conf
  <2>5. CaseFits(case) /\ case.conf = conf
    BY <2>2, NewCaseFits
  <2> HIDE DEF case
  <2> QED
    BY <2>2, <2>4, <2>5, FitEntered
<1>6. CASE Switch
  <2> DEFINE k == current_camera_id
             Parsed(order) == ParseAdd(s_HAL3_test[k].conf, order).conf
  <2>1. PICK order \in SwitchOrders :
          /\ s_HAL3_test' = [s_HAL3_test EXCEPT ![k].conf = Parsed(order)]
          /\ switching' = NewCase("VIDEO", Parsed(order), Hal[Parsed(order).camera_id])
    BY <1>6 DEF Switch
  <2> DEFINE conf == Parsed(order)
  <2>2. /\ mainPc = "loop" /\ mainPc' = "switchStop" /\ k' = k /\ k \in Cameras
        /\ s_HAL3_test[k].conf.test_mode = "PREVIEW"
    BY <1>6 DEF Switch, SessionInv, Functions
  <2>3. IsConf(s_HAL3_test[k].conf)
    BY <2>2, NoCaseIsNone DEF FitInv, Taken
  <2>4. IsConf(conf)
    BY <2>3, OrdersFit
  <2>6. Taken(k) /\ IsCase(s_HAL3_test[k])
    BY <2>2, NoCaseIsNone DEF Taken, SessionInv, SlotInv
  <2> HIDE DEF Parsed, conf
  <2>7. CaseFits(switching') /\ switching'.conf = conf
    BY <2>1, <2>4, NewCaseFits DEF conf, TestModes
  <2>8. /\ s_HAL3_test'[k].conf = conf
        /\ \A d \in Cameras : d # k => s_HAL3_test'[d] = s_HAL3_test[d]
    <3>1. /\ s_HAL3_test'[k] = [s_HAL3_test[k] EXCEPT !.conf = conf]
          /\ \A d \in Cameras : d # k => s_HAL3_test'[d] = s_HAL3_test[d]
      BY <2>1, <2>2 DEF conf, SessionInv, Functions
    <3> QED
      BY <2>6, <3>1 DEF IsCase
  <2> QED
    BY <2>2, <2>4, <2>7, <2>8 DEF FitInv, Taken
<1>7. CASE SwitchStop
  <2>1. /\ mainPc = "switchStop" /\ UNCHANGED switching /\ current_camera_id \in Cameras
        /\ s_HAL3_test' = [s_HAL3_test EXCEPT ![current_camera_id] = NoCase]
    BY <1>7 DEF SwitchStop, SessionInv, Functions
  <2> QED
    BY <2>1, FitEmptied DEF Switching
<1>8. CASE SwitchStart
  <2>1. mainPc = "switchStart" /\ mainPc' = "loop" /\ Enter(switching)
    BY <1>8 DEF SwitchStart
  <2>2. CaseFits(switching) /\ IsConf(switching.conf)
    BY <2>1 DEF FitInv, Switching
  <2> QED
    BY <2>1, <2>2, FitEntered
<1>9. CASE Delete
  <2>1. PICK c \in Cameras : EndCase(c)
    BY <1>9 DEF Delete
  <2>2. mainPc = "loop" /\ mainPc' = "loop"
    BY <1>9 DEF Delete
  <2> QED
    BY <2>1, <2>2, FitEmptied DEF EndCase, Switching
<1>10. CASE Cleanup
  <2>1. mainPc = "cleanup" /\ mainPc' = "cleanup" /\ next \in Cameras
        /\ UNCHANGED <<current_camera_id, switching>>
    BY <1>10 DEF Cleanup, CleanupDone, SessionAssumption, SessionInv, Functions
  <2>2. CASE Taken(next)
    BY <1>10, <2>1, <2>2, FitEmptied DEF Cleanup, EndCase, Switching
  <2>3. CASE ~Taken(next)
    BY <1>1, <1>10, <2>1, <2>3 DEF Cleanup, tableVars
  <2> QED
    BY <2>2, <2>3
<1>11. CASE UNCHANGED vars
  BY <1>2, <1>11 DEF vars, sessionVars
<1>14. CASE AddUnopened \/ SwitchUnopened
  BY <1>1, <1>14, Unopened DEF Switching, FitInv, Taken
<1>12. CASE Trigger
  BY <1>2, <1>12 DEF Trigger
<1>13. CASE \E c \in Cameras : ResultThread(c)
  BY <1>2, <1>13 DEF ResultThread, ResultFrame
<1> QED
  BY <1>3, <1>4, <1>5, <1>6, <1>7, <1>8, <1>9, <1>10, <1>11, <1>12, <1>13, <1>14
     DEF Next, Main, UserCommand

LEMMA FitInvariance == Spec => []FitInv
<1>1. Init => FitInv
  BY NoCaseFits DEF Init, FitInv, Taken, Switching
<1>2. SessionInv /\ FitInv /\ [Next]_vars => FitInv'
  BY FitStep, SessionAssumption
<1> QED
  BY <1>1, <1>2, SessionInvariance, PTL DEF Spec

\* In every running case the pool of a stream that each request has is as large as
\* the window of requests, at any frame rate, also after a v to another rate
\* (qcamx_case.h:18-23, qcamx_preview_video_case.cpp:128-253,
\* QCamxHAL3TestVideo.cpp:643-670).
THEOREM PoolsCoverWindows == Spec => []CasePools
<1>1. FitInv => CasePools
  BY DEF FitInv, CasePools, CaseFits
<1> QED
  BY <1>1, FitInvariance, PTL

\* The sensor mode that a running case asks for is large and fast enough for its
\* largest stream, and none of the sensor's modes that are is slower, whatever table
\* the HAL has and also after a v to another size or rate
\* (qcamx_preview_video_case.cpp:409-444).
THEOREM SensorModesFit == Spec => []CaseSensorMode
<1>1. SessionInv /\ FitInv => CaseSensorMode
  <2> SUFFICES ASSUME SessionInv, FitInv, mainPc # "switchStop", NEW c \in Cameras
      PROVE  SensorModeFits(s_HAL3_test[c], Hal[c])
    BY DEF CaseSensorMode
  <2>1. CASE Taken(c)
    <3>1. s_HAL3_test[c].conf.camera_id = c
      BY <2>1 DEF SessionInv, SlotInv
    <3> QED
      BY <3>1 DEF FitInv, CaseFits
  <2>2. CASE ~Taken(c)
    BY <2>2, NoCaseFits DEF Taken
  <2> QED
    BY <2>1, <2>2
<1> QED
  BY <1>1, SessionInvariance, FitInvariance, PTL

\* In a session whose user names no camera twice and has pictures made wherever raw
\* ones are, a case that is configured has a stream for each size it was given and
\* for no other; pictures beside a fast video are the exception
\* (QCamxHAL3TestMain.cpp:352-437, QCamxHAL3TestVideo.cpp:331).
THEOREM CasesHaveStreamsAsked == SizedHal => (Spec => []StreamsAsAsked)
<1> SUFFICES ASSUME SizedHal PROVE Spec => []StreamsAsAsked
  OBVIOUS
<1>1. FitInv => StreamsAsAsked
  BY DEF FitInv, StreamsAsAsked, CaseFits
<1> QED
  BY <1>1, FitInvariance, PTL
=============================================================================
