# camx_hal3_test: TLA+ models of the capture pipeline and its test sessions

`camx_hal3_test` drives a Qualcomm camera HAL3 from a command line: it opens
cameras, configures streams, sends capture requests, and previews, records or
dumps the results. The modules in this directory model the part where its
threads meet (requests, results, buffers, settings, metadata, dumps, the encoder
and the stop of a camera) and the command loop that starts and ends it all.

## Inventory

| Component | Source | State | Operations | Talks to |
|---|---|---|---|---|
| Command loop | `QCamxHAL3TestMain.cpp` | table of cases per camera, current camera | `A` add, `v` switch, `s`/`S` snapshot, `P` dump, `U`/`E` settings, `D` delete, `Q` quit | cases |
| Test cases | `qcamx_preview_only_case`, `qcamx_preview_snapshot_case`, `qcamx_preview_video_case`, `qcamx_video_only_case`, `QCamxHAL3TestVideo`, `QCamxHAL3TestDepth` | stop flag, dump counters, streams | `run`, `stop`, `request_capture`, `capture_post_process` | device, encoder |
| Device: request thread | `qcamx_device.cpp` 566-663, 312-401 | message queue, `request_number[]`, `skip_pattern[]`, `frame_number`, `_pending_vector` | loop, `process_one_capture_request` | HAL, pools |
| Device: result path | `qcamx_device.cpp` 503-556, 668-712 | message queue, `stopped`, `_pending_vector` | `ProcessCaptureResult`, `do_capture_post_process` | HAL, cases, pools |
| Device: stop | `qcamx_device.cpp` 164-228 | `tryCount` | `stop_streams` | both threads |
| Device: settings | `qcamx_device.cpp` 350-361, 445-458 | `_setting_metadata_list`, `setting` and its lock | `update_metadata_for_next_request`, `set_current_meta` | request thread |
| Buffer pools | `qcamx_buffer_manager.h` 126-143 | `_buffers_free` | `get_buffer`, `return_buffer` | everybody |
| Video encoder queue | `QCamxHAL3TestVideoEncoder.cpp` | `mBufferQueue` | `EnqueueFrameBuffer`, `Read`, `stop` | pools, OMX encoder |
| OMX encoder | `QCamxHAL3TestOMXEncoder.cpp` | two message queues, two threads, state | `start`, `flush`, `stop`, callbacks | OMX component |
| Case base class | `qcamx_case.cpp` | dump counters, frame counters | `handle_metadata`, `trigger_dump`, `dump_frame`, `show_fps` | HAL, log, files |
| Configuration | `qcamx_config.cpp` | fields of the camera to add, tags to print (`_meta_dump`) and their last values (`_meta_stat`) | parsers of `A`, `U` and `M` | command loop, cases |
| Allocation | `qcamx_buffer_manager.cpp` | buffers | `allocate_buffers`, `free_all_buffers` | gralloc, ion, gbm |
| Log of metadata | `qcamx_log.cpp` | type, path, flag for a new path, file handle | `set_path`, `print`, constructor, destructor | `handle_metadata`, `M` |
| Signals | `qcamx_signal_monitor.cpp` | - | - | - |

A running camera has at least four threads: the command thread (`main`), the
request thread, the result thread and the threads on which the HAL calls
`ProcessCaptureResult`; with the video encoder there are two OMX loops and the
component's callback threads as well. They share the two message queues, each
under the mutex of its thread, `_pending_vector` under `_pending_lock`, the
settings under `_setting_metadata_lock`, the pools under their own mutex, and
the stop flag of the case, the tags to print, their last values and the log
under nothing.

What makes the code hard, and what would make it correct:

- *Request thread.* The limit of `_pending_vector` is tested under one lock,
  the entry is added under another one after a wait for buffers. Correct when
  the limit holds, planned requests are eventually submitted, counters agree
  with what was asked for, and no request is empty.
- *Result path.* Buffers go to the result thread before the request is counted
  as complete. Correct when a request is retired exactly when the HAL owes
  no buffer of it.
- *Pools.* A buffer is given back by the device, by the case or by the encoder,
  depending on `_sync_buffer_mode`, the stream and the stop flag. Correct when
  every buffer is in one place.
- *Stop.* Request thread, result thread and outstanding requests end one after
  the other, each wait depending on another thread. Correct when it returns,
  leaves no result behind, and frees nothing that the HAL or the encoder still
  uses.
- *Dumps.* Three counters are set by the command thread and tested and counted
  down by the result thread, without a lock. Correct when no more frames are
  written than were asked for, and the dump ends.
- *Sessions.* A table of cases, one per camera, follows commands that create,
  switch and delete cases. Correct when the table, the cameras and the threads
  agree, and the end of the input ends everything.
- *Configuration.* Streams, pool sizes, the window of requests and the sensor
  mode come from the same options in different places. Correct when they fit.
- *Settings.* They are unlocked through an object the callback may have
  deleted. Correct when settings taken from the list come into force.
- *Metadata.* `U` changes settings on the command thread, `M` the tags to print
  and the file of the log; `handle_metadata` reads all of it on the HAL's
  threads. Correct when a change is told once, the file is open when it is
  written, and a setting is seen in the log in the end.

The hazards, each at its line and with the property that watches it, are in
`PROJECT.json`.

## Modules

| Module | Contents |
|---|---|
| `CaptureDevice` | The pipeline: request thread, HAL callbacks, result thread, pools, settings, commands, `stop_streams` |
| `RequestWindow` | What the pipeline promises: a window of numbered requests |
| `MCCaptureDevice` | Instances of `CaptureDevice` for TLC |
| `CaptureDeviceProofs` | Proofs: types, the limit of `_pending_vector`, the order of the result thread's messages; every capture is counted, every request has an output |
| `WindowProofs` | Proof that `CaptureDevice` implements `RequestWindow` |
| `OwnerProofs` | Proofs about `CaptureDevice`: every buffer is in one place, and in its pool when the pools are freed; `_pending_vector` and the stop follow what the HAL still owes |
| `VideoEncoder` | The video encoder: frame queue, the two OMX loops, the component and its callbacks, `run` and `stop`, and the thread that hands frames over |
| `FrameHolder` | What the pipeline expects of the encoder: a holder of frames that is empty when it is shut |
| `MCVideoEncoder` | Instances of `VideoEncoder` for TLC |
| `EncoderProofs` | Proofs: types, `FrameHolder`, headers in one place, and freed under an idle component |
| `TestConfig` | Operators: what the options of `A` and `v` make of a configuration |
| `TestCases` | Operators: streams, pools, window, checks and sensor mode of each class of case |
| `DumpControl` | The counters for pictures and dumps between the command and the result threads |
| `TestSession` | The command loop and the table of cases, over `TestCases` and `DumpControl` |
| `MCTestSession` | Two cameras and orders of every class, for TLC |
| `LoopProofs` | Lemmas: a set of numbers has a least one, so what each round of a loop keeps holds in the end |
| `CaseProofs` | Lemmas about `TestConfig` and `TestCases`: what an order makes of a configuration, a configuration of a case, and what the search for a sensor mode finds |
| `SessionProofs` | Proofs: types, cases and cameras go together, nothing is left behind, pictures and dumps, streams, pools and sensor modes |
| `MetaSettings` | Operators: what the options of `U` and `E` make of the settings |
| `MetaLog` | Metadata of a camera: settings, requests, results, `handle_metadata` and the log |
| `MCMetaLog` | Instances of `MetaLog` for TLC |
| `MetaLogProofs` | Proofs: types, the log's file is open when it is used, and the log tells every change once |

### CaptureDevice

A critical section without a wait is one step, and so are consecutive sections
that commute with every other thread; a wait on a condition variable ends a
step. The program counters name where a thread is:

- `rqPc`: `loop` is the head of `do_process_capture_request`, `idle` its timed
  wait; `gate`, `gateWait`, `collect`, `submit` and `submitted` are the stages
  of `process_one_capture_request` before the limit, in the wait on
  `_pending_cond`, in `get_buffer`, before and after the HAL call; `reduce` is
  the countdown after it; `exit` the end of the thread.
- `callback[t]`: the `ProcessCaptureResult` running on HAL thread `t`, before
  (`push`) and after (`account`) the hand-over to the result thread.
- `resPc`: `loop`, then `post` (`capture_post_process`), `handover` (the stop
  flag has been tested, the frame not yet enqueued) and `recycle`.
- `mnPc`: the command thread; `run`, then `encoder` (the case has set its stop
  flag and is stopping its encoder), and `post`, `joinRequest`, `joinResult`,
  `drain` and `freed` in `stop_streams`.
- `fault` in any of them is undefined behaviour reached: `front()` of an empty
  list, or an object that has been freed. The thread stays there.

Buffers are model values. `buffers_free` counts how often each is in its free
list, so that a double return shows; `held`, `halBuffers`, `callback`,
`resQueue`, `resBuffers` and `encoder` are the places outside. `dropped` holds
the buffers of results that arrive after the stop, which the code leaves alone
and the release of the pool frees. Settings are numbers in the order they were
posted. `asked` and `issued` are history variables for `CaptureAccounting`.

The test cases are constants: which streams there are and with which counters
and skip pattern they start (`InitRequests`, `SkipPattern`), the mode
(`SyncMode`), and what `capture_post_process` does with the buffers of a stream:
returns them (`CaseReturns`), hands them to the encoder (`EncoderTakes`) or to
nobody (`CaseDrops`). From the pipeline the encoder is seen as a holder of frames,
which is what `VideoEncoder` implements (`FrameHolder`): it takes a frame as long
as its queue is there, also while it is being stopped, gives back one buffer at a
time (`Read` copies the frame and returns its buffer, the default
`DISABLE_META_MODE`), and has deleted its queue when it is empty and `stop()` goes on.

`StopsEncoder` says whether the case's `stop()` sets the flag and stops the encoder
before the streams, as `QCamxPreviewVideoCase` and `QCamxHAL3TestVideo` do.
`QCamxVideoOnlyCase::stop` (`qcamx_video_only_case.cpp:134-136`) does neither: with
`StopsEncoder = FALSE` in `video.cfg` TLC finds `PoolsWhole` violated, as
`stop_streams` frees the pools while the encoder has frames of them. No document or
comment promises otherwise, so this is listed as a hazard and has no run.

Four constants say how hostile the surroundings are: `Spurious` (a wait on a
condition variable may end without a signal, as POSIX and C++ allow),
`HalStalls` (the HAL may be later than the timeouts of the gate and of
`stop_streams`), `HalRejects` (`process_capture_request` may fail) and
`StopOvertakes` (the encoder's queue may be deleted between the test of the stop
flag and the hand-over of a frame, which then is a call through a null pointer:
`fault`).

Abstracted: the contents of buffers and metadata, fences, `handle_metadata`
(in `MetaLog`) and the dumps (in `DumpControl`), which touch no state of the
pipeline, the order of a free list, the AE compensation log. The five second timeouts of idle waits only lead back to
the head of a loop and are the step `IdleWake` or no step at all.

### RequestWindow

Three variables: the numbers in flight, the retired ones, and whether the
streams are closed. `Issue` takes the next number if there is room, `Retire`
takes any number out, `Withdraw` undoes the last `Issue` when the HAL refuses,
`Close` needs an empty window. `CaptureDevice` implements it with
`inflight <- pending_vector`, `retired` the numbers below `frame_number` that
are not pending any more, and `closed <- (mnPc = "freed")`. `Arm` is `Issue`,
`SubmitRejected` is `Withdraw`, the completing `Account` is `Retire`, `DrainEnd`
is `Close`, and everything else stutters.

### VideoEncoder and FrameHolder

`mBufferQueue`, `m_infightQ` and `m_outfightQ` are the queues of the code, the
last two with messages of its types. `inPc` follows `inFilghtFunc`: `loop`, then
`read` (in `Read`, waiting for a frame), `copy` (it has one) and `empty` (before
`OMX_EmptyThisBuffer`); `outPc` follows `outFilghtFunc`. The component is a set
of headers per port, a state and the commands it has not completed; it gives
headers back in any order, and completes the command for the idle state from
executing only without headers. `mainPc` follows `start` and `stop` of both
classes; `start` queues its headers one by one (`queued`) while the loops run.
`callerPc` is the result thread: `TestStop` is the case's test of its stop flag,
`EnqueueFrameBuffer` tests nothing and may come at any time after it, while
`stop()` joins the loops, deletes the coder or drains the queue, and once the queue
is deleted it is a `fault` (`EnqueueLate`). Without a component (`OMX_GetHandle`
failed) `start` returns at once and `stop` calls through a null handle, a `fault`
as well. Both build files define `DISABLE_META_MODE`, so `Read` copies the frame
and `EmptyDone` does nothing. Codec parameters, timestamps and the output file
are left out; setConfig's last command is in `Init`.

`Gaps`, `SlowConfig`, `OmxStalls` and `OmxRejects` say what may go wrong outside:
a second without a frame, `start` before setConfig's state change is complete, a
component later than the five seconds of `stop`, failing calls.

`FrameHolder` has the frames inside, those outside and a flag for the deleted
queue. `VideoEncoder` implements it (`HolderSpec`) with no guard on the hand-over
but that the queue is there: that it is deleted only when it is empty, though frames
may come between the steps of `stop()`, is what the lock around the last test of
the queue is for.

### TestConfig and TestCases

An order is the sequence of its options, each with its token and the value that
`sscanf` or `atoi` reads; `Reading` is the loop over the options, a function of
how many have been read, and `ParseAdd` has the configuration at its end with the
result of `parse_commandline_add`. What the code does in passing is kept: `vsize`
resets the video format, an unknown format leaves the old one, an error does not
undo the options before it. A stream size that is read with one number only,
codec, log and frame rate display options are left out.

`Streams` has one operator per class for what `pre_init_stream` sets up;
`Configured` is what the `init_*` functions check before `config_streams`. When a
check fails they return -1, which `run()` ignores: the threads start without a
stream, and the case stays idle until it is deleted. `ModeSearch` is the loop of
`select_operate_mode`, which is the same in three classes, and `SensorMode` its
end; `SensorModeFits` is its reference definition: a mode that is asked for is
able to do it, and no slower mode is. Mode 0 of the table is never asked for,
because the code tests `sensor_mode > 0`; `SensorModeFits` says nothing then.

### DumpControl

`trigger_dump` is three steps, one per field (`TriggerPreview`, `TriggerVideo`,
`TriggerInterval`). A frame is three steps of the result thread: the test of its
counter (`Frame`), the file and the test of the interval together with the load
of the counter (`FileWritten`), and the store of one less (`CountDown`). The
compiler may load the interval twice in the first test or once for both; the
model loads it once per step. `Word` stands for 2^32. `pictures` counts the
pictures asked of the device and not yet come; `asked` and `dumped` are history
variables for `DumpNotExceeded`.

Since nothing is locked, a count may be lost: the result thread loads the old
counter, the command sets a new one, the result thread stores the old one less
one. That is why `DumpNotExceeded` has the largest count the case was asked for
as its bound, and not the last.

### TestSession

A command is one step up to the next `stop()`, which waits for the case's threads
and is a step of its own: `v` is `Switch`, `SwitchStop` and `SwitchStart`, and the
clean-up takes one step per slot. `opened` and `running` count, per camera, the
open devices and the cases with live threads; they are what the calls
`open_camera`, `close_camera`, `run` and `stop` do, and not functions of the
table. `switched` counts the devices that `v` has left open: `deinit` deletes the
device object, but only `close_camera` closes the device.

`mainPc` is `fault` after a command on a slot without a case, which is a null
pointer, and after an `A` or a `v` whose camera the HAL does not open (`OpenFails`:
`main` ignores what `open_camera` returns, and `run` uses a device pointer that was
never set); the process ends there. Commands are bounded by `CommandBound`.

Two things are the user's and not the code's. `A` and `v` name no camera that has
another case (`Free`): `main` (`QCamxHAL3TestMain.cpp:353-437`) does not look at the
slot, and the case in it would stay alive, out of reach. All that is said of a
session, in the runs and in the proofs, is said of such a user. With
`Impatient = FALSE` the user asks for pictures when the ones before are saved.

`StreamsAsAsked` is about cases that are configured. An order of `v` without a video
size is refused by the checks and makes an idle case without streams; for one that
asks for raw pictures without pictures the property has a premise
(`RawWithPictures`): next to a raw stream there are four streams, so that the check
of the picture's stream (`QCamxHAL3TestVideo.cpp:331`, three streams) is passed over,
and a stream of size 0 is configured. The orders of `session` have a `v` with raw
pictures of both kinds; without the premise TLC finds `StreamsAsAsked` violated.

### MetaSettings and MetaLog

Settings are a function from tags to values, as `CameraMetadata` is a map;
`Setting` is what each option of `parse_commandline_meta_update` puts there, and
`Updating` is the loop over the options and `WithOrder` its end. What the parser
does in passing is kept: `manual_exp` and `manual_iso` switch the exposure mode
off, `manualsens` comes with an exposure time for five sensitivities, a region or
a compensation out of range changes nothing, and nine options are read with `%c`
and stored as the code of a character. A zoom of 0, a division by zero, is not
among the orders.

`MetaLog` is one camera, deleted and added again. `Update` is `U`; `Request` takes the
next settings from the list and hands them to the HAL, unless the assignment is
ignored because the settings before are still locked, which may happen to any
request but the first (`ignored`; how it comes about is in `CaptureDevice`);
`RequestRefused` ends the request thread (`requesting`). `Result` calls `handle_metadata` with tags whose values
are the settings, where there is one, or measured. `handler[h]` is the
`handle_metadata` on HAL thread `h`: `tag` with the flags that are still to be looked
at, `print` before `QCamxLog::print` tests the type of the log, `open` before
`fopen` and the `fclose` of the old file, `assign` before the new handle is stored
and the flag cleared, `write` before `fprintf`. The tags are one of each kind: one
whose value is stored before it is printed (all others after), a mode whose
values without a name have no line, the scene (printed with each result that
has none), a tag that two flags print, one that is looked at only when the
result has it, and the temperature, which has a flag but no option. `set_path` is
three steps, as it raises the flag before it stores the path. `Stop`, `Close` and
`Delete` are `D`: the HAL may call back until `close_camera` returns.

The two cases for video have a `handle_metadata` of their own (`SatResult`), which
looks at no flag and prints to no log; that of `QCamxHAL3TestVideo` copies the
first number of its arrays four times, so three of them stay 0.

`open_files` are the `FILE` objects that are open. Standard error, the first value of
the handle, counts as always open; the code closes it as if it were its own.

## Runs

`tlc -config <run>.cfg MCCaptureDevice`, `MCVideoEncoder` for `encoder_*`,
`MCTestSession` for `session` and `dump_video_only`, and `MCMetaLog` for `metadata`
and `mode_as_asked`

| Run | Configuration | Shows |
|---|---|---|
| `video` | preview with every second frame (2 buffers), video to the encoder (1 buffer), limit 2, two HAL threads, two metadata results per request, 3 requests; refused requests, and `stop()` may overtake a hand-over | `PendingBounded`, `OwnedOnce`, `PendingIffOwed`, `StopDrains`, `NoResultBehindStop`, `NoEmptyRequest`, `PoolsWhole` |
| `live` | two streams with the default `request_number` 0 and one buffer each, the second one encoded, limit 1 (so that the gate closes), two messages of one or two captures, 4 requests, fair threads | `CaptureAccounting`, `StopReturns`, `PlannedIsSubmitted`, `RequestsRetire`, `CapturesServed`, `WindowSpec` |
| `faults` | preview and snapshot, one `s` and one `U` command; late HAL, wake-ups without a signal, refused requests | `TypeOK`, `OwnedOnce` on every error path |
| `setting_lost` | one `U` command | `SettingInForce` is violated: settings stay locked |
| `depth_return` | internal mode, case returns too | `OwnedOnce` is violated: a buffer is twice in the pool |
| `encoder_live` | encoder: 2 frames, 2 input headers and 1 output header, no gaps, fair threads | `FreedWhenIdle`, `FramesComeBack` |
| `encoder_faults` | gaps, setConfig still under way in `start()`, late component, failing calls, possibly no component, fair threads | `TypeOK`, `HeaderOnce`, `StopEnds`, `HolderSpec` |
| `encoder_gap` | gaps of a second, fair threads | `FramesComeBack` is violated: each gap costs an input header |
| `session` | two cameras, three commands, orders of all six classes, one refused and one no camera can do; `v` to a fast video, to another camera, to raw pictures with and without pictures and without a video size; a HAL that may not open a camera; counts 1 and 2, with and without an interval; fair threads | `TypeOK`, `SlotAgrees`, `DeviceFollowsSlot`, `CleanExit`, `StreamsAsAsked`, `CasePools`, `CaseSensorMode`, `AllPicturesSaved`, `DumpNotExceeded`, `CountedDumpsEnd`, `EndsWithInput` |
| `dump_video_only` | cases for video only, commands from a file, an impatient user | `DumpNotExceeded` is violated: the wrong counter is counted down |
| `metadata` | one HAL thread, six flags, two orders, results with all tags or one of them, settings that may be ignored and requests that may be refused, two log files besides standard output and ALOGE, two lives of the camera with two commands each; fair threads | `TypeOK`, `LogFileOpen`, `LogFollowsStat`, `SettingReported` |
| `mode_as_asked` | one `U` command with a mode | `ModesAsAsked` is violated: the HAL gets the code of the digit |

The bounds are `FrameBound` (requests), `PostBound` (messages) and
`SettingBound` (settings). A limit of two with three requests, or of one with
four, makes the gate close and open again; with two buffers in a pool, and one
in another, the request thread waits for each pool and for the gate; two
messages add to a counter that is being counted down. Two HAL threads are needed
for results of the same request that overtake each other; more add no new pair
of interleaved steps, as the callback has no state beyond `_pending_vector` and
the queue. The preview buffers are interchangeable and so are the HAL threads,
hence the symmetry of `video`, which checks safety only; no run that checks
liveness has one.

`video` and `faults` do not check for deadlock: there undefined behaviour ends the
process, which is what they are about. `session` and `dump_video_only` do not
either, as a program that has quit does nothing, nor do `metadata` and
`mode_as_asked`, as a camera that is not added again does nothing. All others do
check it.

In `video` a frame may be handed over to an encoder whose queue `stop()` has deleted
since the stop flag was tested (`fault`); the process ends there, and the properties
say what holds up to that moment. A frame that comes before that, while `stop()` is
under way, is taken and returned. In `encoder_faults` setConfig may still be under way
in `start()`; with `SlowConfig = TRUE` in `encoder_live.cfg` TLC finds
`FreedWhenIdle` violated, because `stop()` takes setConfig's idle event for its own.

Three commands in `session` are one to have a case and two that meet on it, or
a case on each camera and one command: a dump over a dump, a picture during a
dump, a deletion during either, `v` with the other camera in use. A count of 2
is counted down over two frames, with a new command in between. `DumpClasses`
leaves the video only class out, whose counting is wrong; `dump_video_only` is
about it. With `Impatient = TRUE` `AllPicturesSaved` fails in `session`
(`request_capture` replaces the count of the pictures still to come), with
`FromFile = TRUE` `EndsWithInput` (at the end of a file the loop reads empty lines
for ever), and with a count of 0 `DumpNotExceeded` (a counter that is set to 0
between its test and its decrement wraps).

Two headers on the input port are enough for one to be in the component while
the other is being filled, and for the loop to lose them one by one; two frames
for one to wait while the other is read.

In `metadata` two commands for a camera are a setting and the flag that shows it, a
change of the log's file and one back while a line is printed, or two settings of
which one overtakes the other. Two lives are needed for a log that is closed with
its configuration. Three `FILE` objects are what two lives need: one that the
first leaves open (a log that prints elsewhere when it is deleted does not close
its file), the old and the new one of the second.
With two HAL threads TLC finds `LogFileOpen` violated (both close the old file)
and `LogFollowsStat` too (both tell one change); with a path in `Unwritable` it
finds `LogFileOpen` violated, as print stores what `fopen` returned and writes to
it. The code relies on a HAL that calls back on one thread. `SettingReported` is about
settings that are in force: a user who waits for one that was ignored waits for
ever, until the next is posted and taken, and one whose request the HAL refused waits
for ever (`Wanted` leaves both out). That settings may be ignored at all is what
`setting_lost` shows.

`live` is the device as its header describes it, with the default
`request_number` of 0 for every stream; the cases in the repository all have an
unlimited stream, with which the request thread does not go idle. The gate, the
pools and the result path are the same for both.

Fairness (`live`): weak fairness of the request thread, the
result thread, the encoder and `stop_streams`, which are threads the system schedules, and of
the HAL's deliveries and callbacks, since a HAL must answer every request. No
fairness makes the user post anything or stop. Without `HalStalls` the
timeouts do not fire, which is what their length of seconds is for. Fairness of
the encoder runs is the same: both loops, the callbacks of the component and the
steps of `stop`, once called, but neither frames nor the call of `stop`.

In `session`, weak fairness of a result thread that is writing a file, and strong
fairness of the frames for each counter and of main: the HAL delivers frames of
every continuous stream again and again while `stop()` is waiting for the result
thread, and that wait ends (`StopReturns` in `live`). The user owes nothing;
`EndsWithInput` has the end of the input as its premise.

In `metadata`, weak fairness of the request thread's step, of the two steps of
`set_path` and of `handle_metadata`, once they are under way; and strong fairness of
results with all tags, as a HAL reports the whole metadata of a request in its last
partial result and requests keep coming while the camera runs, as long as none is
refused. The user owes nothing.

## Proofs

`tlapm <module>.tla` with `CaptureDeviceProofs`, `WindowProofs`, `OwnerProofs`,
`EncoderProofs`, `LoopProofs`, `MetaLogProofs`, `CaseProofs` and `SessionProofs`

| Theorem | Statement | Assumes |
|---|---|---|
| `TypeCorrect` | `Spec => []TypeOK` | - |
| `PendingLimitHolds` | `Spec => []PendingBounded` | `~Spurious` |
| `ResultsHandledBeforeStop` | `Spec => []NoResultBehindStop` | - |
| `ImplementsWindow` | `Spec => WindowSpec` | `~Spurious`, `~HalStalls`, `DrainTries > 0` |
| `BuffersOwnedOnce` | `Spec => []OwnedOnce` | `PoolsFit` |
| `AllBuffersBack` | `Spec => []PoolsWhole` | `HalAnswers`, `PoolsFit`, `StopsEncoder` |
| `PendingWhileOwed` | `Spec => []PendingIffOwed` | `HalAnswers` |
| `StopLeavesNothingOut` | `Spec => []StopDrains` | `HalAnswers` |
| `CapturesAccounted` | `Spec => []CaptureAccounting` | `CountsGiven` |
| `RequestsHaveOutputs` | `Spec => []NoEmptyRequest` | `PlanNeverEmpty` |
| `EncoderTypeCorrect` | `Spec => []TypeOK` of the encoder | - |
| `EncoderHoldsFrames` | `Spec => HolderSpec` | - |
| `HeadersFreedWhenIdle` | `Spec => []FreedWhenIdle` | `~SlowConfig`, `~OmxStalls`, `~OmxRejects` |
| `HeadersOnce` | `Spec => []HeaderOnce` | - |
| `MetaTypes` | `Spec => []TypeOK` of the log | - |
| `LogFilesOpen` | `Spec => []LogFileOpen` | one HAL thread, `Unwritable = {}` |
| `LogTellsChanges` | `Spec => []LogFollowsStat` | one HAL thread |
| `SessionTypes` | `Spec => []TypeOK` of a session | - |
| `DevicesFollowSlots` | `Spec => []DeviceFollowsSlot` | - |
| `SlotsAgree` | `Spec => []SlotAgrees` | - |
| `NothingLeftAtExit` | `Spec => []CleanExit` | - |
| `PicturesAllSaved` | `Spec => []AllPicturesSaved` | `~Impatient` |
| `DumpsAsAsked` | `Spec => []DumpNotExceeded` | `DumpsFit` |
| `PoolsCoverWindows` | `Spec => []CasePools` | - |
| `SensorModesFit` | `Spec => []CaseSensorMode` | - |
| `CasesHaveStreamsAsked` | `Spec => []StreamsAsAsked` | `SizedHal` |

All of them hold for any streams, pools, headers, limits and bounds that satisfy
the assumptions in the modules, for any flags, orders, results and files, and for
any number of cameras and commands. The hypotheses are the circumstances in which
the code works, and the runs that pass satisfy them:

- `~Spurious`: with `Spurious = TRUE` in `video.cfg` TLC finds `PendingBounded`
  violated (the gate waits under an `if`).
- `HalAnswers`: the HAL is in time (`~HalStalls`, `DrainTries > 0`) and sends metadata
  for every request. With `HalStalls = TRUE` TLC finds `StopDrains` violated (streams
  are freed under the HAL); a HAL without metadata never completes a request.
- `PoolsFit`: in internal mode the device alone returns buffers, in external mode
  each stream has the case or the encoder to do it. The run `depth_return` shows a
  case that does not fit, with a buffer twice in its pool.
- `CountsGiven`: the commands ask for a number of captures that is not negative.
- `PlanNeverEmpty`: no stream is skipped, or one is in every request, which is so in
  every case, as only the preview of a video is ever skipped. A device whose streams
  are all skipped at some frame would send a request without a buffer.
- `~SlowConfig`, `~OmxStalls`, `~OmxRejects`, one HAL thread, `Unwritable = {}`: TLC
  finds the property violated without them, as described with the runs.
- `StopsEncoder`: the case stops its encoder before its streams; with
  `StopsEncoder = FALSE` in `video.cfg` TLC finds `PoolsWhole` violated.
- `SizedHal`: the HAL offers no output of size 0.
- `DumpsFit`: the two known exceptions, the video only class (the run
  `dump_video_only`) and a count of 0, with which TLC finds `DumpNotExceeded`
  violated.

About orders and tables nothing else is assumed than what the modules say of their
constants, which TLC evaluates: an order is a sequence of options of the types the
parser reads, of any length (`OrdersAssumption`, `ValueAssumption`); it names cameras
that exist, and that of an `A` names one, since the default of -1 would be used as
an index of the table; the HAL's table of modes has numbers in it
(`HalAssumption`), and its defaults and measurements are numbers.

What the loops of the program compute is proved without induction over data: each
loop is a function from the number of its rounds (`Reading`, `Updating`,
`ModeSearch`), of which one lemma says that it exists and does what its definition
says, and `LoopKeeps` says that a set of numbers which has 0 and, with the number
before, each number up to `n` has all of them, as there would be a least one
missing. `ReadAll` has by this what an order keeps: a configuration is well
formed, its camera exists, and the streams with a size are those whose bits
`mode_config` has, so that an accepted order has a class and the sizes of that class
(`OrderAccepted`). `SensorModeIs` has it for the table of modes: the best mode so
far is able to do it, and no mode before it that is able to is slower.

What `main` does not test stays in the model as the user's choice (`Free`) and what
an order may lack as a premise of the property (`RawWithPictures`): the theorems about
sessions hold under the same two premises as the runs.

The invariants:

- `TypeInv` adds to `TypeOK` that a request in the making has a number below the
  bound, without which `Arm` could leave `pend`'s domain.
- `PendingInv` adds to the limit that there is room for one more while the
  request thread collects buffers (`RoomForOne`): the gate sees the room, only
  the request thread takes it, and whoever wakes it up has just made some.
- `StopIsLast` says where a stop message can be (last) and when (after the flag
  is set), which is why an exit leaves an empty queue.
- `WindowInv` says that numbers in flight have been given out, that the HAL
  knows only requests that were submitted to it, and that `stop_streams` goes on
  only after the request thread has ended. With it each action is mapped to a
  step of the window or to a stutter.
- `OwnerInv` gives each buffer one place, a kind and, for the HAL, the callbacks and
  the queue, which of them; all other places do not have it. Its count in the free
  list is 1 in place of `free` and 0 elsewhere, so that neither a loss nor a second
  return keeps it. A step moves buffers from one place to another, and one lemma
  turns a place into the sum that `OwnedOnce` speaks of.
- `OwedInv` says of each request that the buffers its entry has not counted are those
  at the HAL and in callbacks (`Counted`), that no two callbacks have the same
  buffer (`OutOnce`), and that a request that is not pending has none out. Only
  `PendingIffOwed` with this is inductive: the entry is erased by a callback that sees
  its counters alone.
- `HandsEmpty` says that each thread, once it has ended or gone past its step, has no
  buffer left in its hands, and the encoder none once it is stopped. With it, with
  `OwnerInv`, and with `StopDrains` and `NoResultBehindStop` for the HAL and the
  queue, the only places left at the end are the pool and `dropped`.
- `CountInv` keeps an account per stream along the message queue (`Ledger`): it opens
  with what has been requested and what the counter holds, each message adds its
  count, and it closes with what was asked for. A sum over the queue would need
  induction; an account that exists needs only a new entry at its end or a shift.
- `OutputInv` says that the stream which is in every request stays planned for, and
  that the request thread has a buffer once it submits.
- `HolderInv` says that a frame is in the encoder's queue at most once and not in
  `Read` or the pool as well, and that only a running input loop has one outside
  the queue. Two lemmas say what taking the head and appending do to the frames
  of a queue without duplicates.
- `StateInv` ties the commands under way to where `start` and `stop` are: with
  setConfig finished, `m_State` can become idle only by the command of `stop`,
  which completes when the component has given everything back.
- `HeaderInv` says for each input header where it is (queue, loop or component), and
  that none is anywhere while `start` has not queued them.
- `FileInv` says which file is open at each step of print: the handle's, and the new
  one besides between `fopen` and the assignment. `ThreadInv` has the shape of what a
  HAL thread does, on which the other two rest.
- `LogInv` ties the last line about a tag to its stored value: they are equal but
  while a line about that tag is being printed. It needs `Flags` to be a sequence
  whose printed tags are not those of the cases for video.
- `SessionInv` adds to the two invariants that during a `v` the case being made has
  a camera whose slot is free or will be (`SwitchInv`), and that only the preview
  that `v` is stopping may name another camera than its slot (`SlotInv`). One lemma
  each says what a case that starts and one that ends do to the table and the
  cameras, so that each command is one of them or leaves the table alone.
- `CleanInv` says that the clean-up has emptied the slots it has passed, and
  `BoundInv` that each open device, and the one a `v` is about to open, has cost a
  command.
- `FreeInv` says that a camera without a case has no counters, no frame and no
  picture under way. `PictureInv` rests on it: in a case for pictures the value the
  result thread is about to store is that of the counter, since a patient user sets
  no new one meanwhile.
- `DumpInv` has two parts for each counter: what it holds, and what the result thread
  will store, is no more than was asked for or is being asked for (`BoundedAt`); and
  what has been dumped and what is left to dump make no more than was asked for, but
  during a `trigger_dump` or with an interval (`AccountAt`). The bound is the largest
  count, because a stored value may be an old one.
- `FitInv` says that the configuration of each case, and of the one `v` makes, gives it
  the pools and streams the two theorems are about. While `v` stops a preview, its
  configuration is already the new one, so this case is left out, as it is in the
  properties.

Every invariant that a passing run checks is stated by a theorem. Only model-checked
are the liveness properties, which need fairness and ENABLED and stay with TLC:
`StopReturns`, `PlannedIsSubmitted`, `RequestsRetire`, `CapturesServed`,
`FramesComeBack`, `StopEnds`, `CountedDumpsEnd`, `EndsWithInput` and
`SettingReported`. TLC also has the violations that five runs show.

## Plan

Done: all modules in the table, their runs and the proofs above. What is left are the
hazards without a property, listed in `PROJECT.json` each with its reason.

Not planned any more: the encoder in meta mode, which both build files switch off
(`DISABLE_META_MODE`), and the layout of frames, whose strides and sizes come from
GBM and not from code here.

Not modelled:

- Allocation (`qcamx_buffer_manager.cpp`): each branch is a sequence of calls of
  a system allocator, of which neither build file compiles the ones for gralloc and
  ION; what the rest of the program sees of it, a pool with a number of buffers, is
  in `CaptureDevice` and `TestCases`.
- The signal monitor: a handler that writes traces and ends the process.
- The contents of frame dumps and the frame rate display: output of data that no
  other part reads. The raw size that `M` prints goes to the system's log only and
  is left out as well.
- Loading of the HAL module, usage flags, the codec's parameters and the metadata
  values that `run` sets: straight-line calls that keep no state.

The case for `QCamxHAL3TestVideo` built with `ENABLE_VIDEO_ENCODER`, which keeps
its video buffers from everybody, has no run of its own: with `EncoderTakes = {}`
and `CaseDrops = {1}` in `live.cfg` the system deadlocks and `StopReturns`
fails, because the pool runs dry and `stop_streams` joins a thread that waits
for a buffer.
