--------------------------- MODULE CaptureDevice ---------------------------
(***************************************************************************)
(* The capture pipeline of QCamxDevice (qcamx_device.cpp): the request     *)
(* thread, the camera HAL, its ProcessCaptureResult callback, the result   *)
(* thread, the buffer pools and the command thread that posts captures and *)
(* settings and finally calls stop_streams.                                *)
(*                                                                         *)
(* A critical section that cannot block is one step; a wait on a condition *)
(* variable ends a step.  Frame numbers are cut off at FrameBound.         *)
(***************************************************************************)
EXTENDS Integers, Sequences, FiniteSets

CONSTANTS
  Streams,        \* indexes of the configured streams, ascending
  Buffers,        \* all the buffers of all the pools
  StreamOf,       \* the stream whose pool a buffer belongs to
  InitRequests,   \* request_number[] set by run(), -1 for unlimited
  SkipPattern,    \* skip_pattern[] set by run()
  PendingLimit,   \* CAMX_LIVING_REQUEST_MAX + _living_request_ext_append
  SyncMode,       \* _sync_buffer_mode: "internal" or "external"
  CaseReturns,    \* streams whose buffers capture_post_process returns
  EncoderTakes,   \* streams whose buffers it hands to the video encoder
  CaseDrops,      \* streams whose buffers it hands to nobody
  StopsEncoder,   \* does the case's stop() set the stop flag and stop the encoder
                  \* before the streams? (not in QCamxVideoOnlyCase)
  HalThreads,     \* threads on which the HAL calls ProcessCaptureResult
  PartialResults, \* metadata results the HAL sends for one request
  DrainTries,     \* tryCount of stop_streams
  CaptureMsgs,    \* REQUEST_CHANGE messages the commands can post
  FrameBound,     \* bound: frame numbers issued
  PostBound,      \* bound: REQUEST_CHANGE messages posted
  SettingBound,   \* bound: settings posted
  Spurious,       \* may a condition variable wake without a signal?
  HalStalls,      \* may the HAL be later than the timeouts?
  HalRejects,     \* may process_capture_request fail?
  StopOvertakes   \* may the encoder's queue be deleted between the test of the
                  \* stop flag and the hand-over of a frame?

Unlimited == -1   \* REQUEST_NUMBER_UMLIMIT
Frames    == 0 .. (FrameBound - 1)
Settings  == 0 .. (SettingBound + 1)

ASSUME StreamAssumption ==
  /\ Streams \subseteq Nat
  /\ StreamOf \in [Buffers -> Streams]
  /\ InitRequests \in [Streams -> Nat \cup {Unlimited}]
  /\ SkipPattern \in [Streams -> Nat \ {0}]
  /\ CaseReturns \cup EncoderTakes \cup CaseDrops \subseteq Streams
ASSUME FiniteAssumption == IsFiniteSet(Streams) /\ IsFiniteSet(Buffers)
ASSUME BoundAssumption ==
  /\ PendingLimit \in Nat \ {0}
  /\ FrameBound \in Nat \ {0}
  /\ {PartialResults, DrainTries, PostBound, SettingBound} \subseteq Nat
ASSUME CommandAssumption ==
  /\ SyncMode \in {"internal", "external"}
  /\ CaptureMsgs \subseteq [mask : SUBSET Streams, count : Int]
  /\ {StopsEncoder, Spurious, HalStalls, HalRejects, StopOvertakes}
       \subseteq BOOLEAN

VARIABLES
  \* request thread (CameraThreadData and locals of its loop)
  rqPc, rqQueue, request_number, frame_number, planned, held,
  \* request settings
  setting_list, setting, setting_locked,
  \* _pending_vector: the keys, and the RequestPending of each key
  pending_vector, pend,
  \* free lists of the buffer managers: how often each buffer is in one
  buffers_free,
  \* HAL: outputs and metadata it still owes per frame, running callbacks
  halBuffers, halMeta, callback,
  \* result thread
  resPc, resQueue, resBuffers, resStopped,
  \* buffers inside the video encoder; results dropped because of the stop
  encoder, dropped,
  \* command thread in stop() and stop_streams; what it has posted so far
  mnPc, tryCount, posted, lastSetting,
  \* history: captures asked for and buffers requested, per counted stream
  asked, issued

requestVars == <<rqPc, rqQueue, request_number, frame_number, planned, held>>
settingVars == <<setting_list, setting, setting_locked>>
pendingVars == <<pending_vector, pend>>
halVars     == <<halBuffers, halMeta, callback>>
resultVars  == <<resPc, resQueue, resBuffers, resStopped>>
ownerVars   == <<encoder, dropped>>
mainVars    == <<mnPc, tryCount, posted, lastSetting>>
historyVars == <<asked, issued>>
vars == <<requestVars, settingVars, pendingVars, buffers_free, halVars,
          resultVars, ownerVars, mainVars, historyVars>>

----------------------------------------------------------------------------
(* Messages and records *)

Result(B) == [stop |-> FALSE, bufs |-> B]
ResultMsg == [stop : BOOLEAN, bufs : SUBSET Buffers]

StopRequest == [mask |-> {}, count |-> 0, stop |-> TRUE]
RequestMsg  == [mask : SUBSET Streams, count : Int, stop : BOOLEAN]

RequestPending == [need : Nat, got : Nat, meta : BOOLEAN]
NoPending == [need |-> 0, got |-> 0, meta |-> FALSE]

NoCallback == [pc |-> "none", frame |-> 0, bufs |-> {}, meta |-> FALSE]
Callback == [pc : {"none", "push", "account", "fault"}, frame : Frames,
             bufs : SUBSET Buffers, meta : BOOLEAN]

RequestPc == {"loop", "idle", "gate", "gateWait", "collect", "submit",
              "submitted", "reduce", "exit", "fault"}

Init ==
  /\ rqPc = "loop" /\ rqQueue = <<>> /\ frame_number = 0
  /\ request_number = InitRequests
  /\ planned = {} /\ held = {}
  /\ setting_list = <<1>> /\ setting = 0 /\ setting_locked = FALSE
  /\ pending_vector = {} /\ pend = [f \in Frames |-> NoPending]
  /\ buffers_free = [b \in Buffers |-> 1]
  /\ halBuffers = [f \in Frames |-> {}] /\ halMeta = [f \in Frames |-> 0]
  /\ callback = [t \in HalThreads |-> NoCallback]
  /\ resPc = "loop" /\ resQueue = <<>> /\ resBuffers = {} /\ resStopped = FALSE
  /\ encoder = {} /\ dropped = {}
  /\ mnPc = "run" /\ tryCount = DrainTries /\ posted = 0 /\ lastSetting = 1
  /\ asked = [s \in Streams |-> InitRequests[s]]
  /\ issued = [s \in Streams |-> 0]

----------------------------------------------------------------------------
(* Faulty variants of the definitions below.  No specification uses them: each *)
(* one replaces its definition to show that a property notices the fault.      *)

PlanFirstSkip == {s \in Streams : /\ request_number[s] # 0
                                  /\ frame_number % SkipPattern[0] = 0}
ChangedNumberAssigned(n, msg) ==
  [s \in Streams |-> IF s \in msg.mask THEN msg.count ELSE n[s]]
HasRequestFirst == request_number[0] # 0
WindowFullLate == Cardinality(pending_vector) > PendingLimit
RecycledNever == buffers_free
AcceptingAlways == TRUE
CompleteOnMetadata(p) == p.meta
CompleteNever(p) == p.got > p.need /\ p.meta
SignalledNobody == rqPc
DeviceReturnsAlways == TRUE
MayRetryForever == TRUE
DrainedAnyway == TRUE
CaseStopVideoOnly ==
  /\ mnPc = "run" /\ mnPc' = "post"
  /\ UNCHANGED <<requestVars, settingVars, pendingVars, buffers_free, halVars,
                 resultVars, ownerVars, tryCount, posted, lastSetting,
                 historyVars>>
StopMsgUnset == [stop |-> FALSE, bufs |-> {}]

----------------------------------------------------------------------------
(* Request thread: the loop of do_process_capture_request *)

\* Steps that touch nothing but the request thread, or nothing but its pc.
OnlyRequest == UNCHANGED <<settingVars, pendingVars, buffers_free, halVars,
                           resultVars, ownerVars, mainVars, historyVars>>
OnlyPc == /\ UNCHANGED <<rqQueue, request_number, frame_number, planned, held>>
          /\ OnlyRequest

HasRequest == \E s \in Streams : request_number[s] # 0

\* Streams that get a buffer in the next request.
Plan == {s \in Streams : /\ request_number[s] # 0
                         /\ frame_number % SkipPattern[s] = 0}

\* No message and nothing to capture: wait for at most 5 seconds.
Idle ==
  /\ rqPc = "loop" /\ rqQueue = <<>> /\ ~HasRequest
  /\ rqPc' = "idle"
  /\ OnlyPc

\* A signal, a timeout or a spurious wake-up: all of them look again.
IdleWake ==
  /\ rqPc = "idle"
  /\ rqPc' = "loop"
  /\ OnlyPc

TakeStop ==
  /\ rqPc = "loop" /\ rqQueue # <<>> /\ Head(rqQueue).stop
  /\ rqQueue' = Tail(rqQueue)
  /\ rqPc' = "exit"
  /\ UNCHANGED <<request_number, frame_number, planned, held>>
  /\ OnlyRequest

\* An unlimited stream takes the new count, a counted one adds it.
ChangedNumber(n, msg) ==
  [s \in Streams |-> IF s \notin msg.mask THEN n[s]
                     ELSE IF n[s] = Unlimited THEN msg.count
                     ELSE n[s] + msg.count]

TakeChange ==
  /\ rqPc = "loop" /\ rqQueue # <<>> /\ ~Head(rqQueue).stop
  /\ request_number' = ChangedNumber(request_number, Head(rqQueue))
  /\ rqQueue' = Tail(rqQueue)
  /\ UNCHANGED <<rqPc, frame_number, planned, held>>
  /\ OnlyRequest

PlanRequest ==
  /\ rqPc = "loop" /\ rqQueue = <<>> /\ HasRequest
  /\ frame_number < FrameBound
  /\ planned' = Plan
  /\ rqPc' = "gate"
  /\ UNCHANGED <<rqQueue, request_number, frame_number, held>>
  /\ OnlyRequest

----------------------------------------------------------------------------
(* Request thread: process_one_capture_request *)

WindowFull == Cardinality(pending_vector) >= PendingLimit

\* The gate: an if, not a while, around the wait on _pending_cond.
Gate ==
  /\ rqPc = "gate"
  /\ rqPc' = IF WindowFull THEN "gateWait" ELSE "collect"
  /\ OnlyPc

\* Five seconds without a completed request: the thread returns.
GateTimeout ==
  /\ HalStalls /\ rqPc = "gateWait"
  /\ rqPc' = "exit"
  /\ OnlyPc

\* A wake-up nobody signalled passes the gate unchecked.
GateSpurious ==
  /\ Spurious /\ rqPc = "gateWait"
  /\ rqPc' = "collect"
  /\ OnlyPc

Missing == planned \ {StreamOf[b] : b \in held}
NextStream == CHOOSE s \in Missing : \A r \in Missing : s <= r
FreeOf(s) == {b \in Buffers : StreamOf[b] = s /\ buffers_free[b] > 0}

\* return_buffer of each buffer of B (push_back and notify_all).
Returned(B) == [b \in Buffers |-> buffers_free[b] + (IF b \in B THEN 1 ELSE 0)]

Taken(b) == [buffers_free EXCEPT ![b] = @ - 1]

\* get_buffer: it waits without timeout, so the step needs a free buffer; the
\* order of the free list is left open.
GetBuffer ==
  /\ rqPc = "collect" /\ Missing # {}
  /\ \E b \in FreeOf(NextStream) :
       /\ buffers_free' = Taken(b)
       /\ held' = held \cup {b}
  /\ UNCHANGED <<rqPc, rqQueue, request_number, frame_number, planned>>
  /\ UNCHANGED <<settingVars, pendingVars, halVars, resultVars, ownerVars,
                 mainVars, historyVars>>

\* A wake-up nobody signalled takes front() of an empty free list.
GetBufferSpurious ==
  /\ Spurious /\ rqPc = "collect" /\ Missing # {} /\ FreeOf(NextStream) = {}
  /\ rqPc' = "fault"
  /\ OnlyPc

\* Take the next settings, if any (CameraMetadata ignores an assignment while
\* it is locked), lock them, and enter the request in _pending_vector.  The
\* two critical sections commute with every step of the other threads.
Arm ==
  /\ rqPc = "collect" /\ Missing = {}
  /\ IF setting_list = <<>>
     THEN UNCHANGED <<setting_list, setting>>
     ELSE /\ setting_list' = Tail(setting_list)
          /\ setting' = IF setting_locked THEN setting ELSE Head(setting_list)
  /\ setting_locked' = TRUE
  /\ pending_vector' = pending_vector \cup {frame_number}
  /\ pend' = [pend EXCEPT ![frame_number] =
                [need |-> Cardinality(held), got |-> 0, meta |-> FALSE]]
  /\ rqPc' = "submit"
  /\ UNCHANGED <<rqQueue, request_number, frame_number, planned, held>>
  /\ UNCHANGED <<buffers_free, halVars, resultVars, ownerVars, mainVars,
                 historyVars>>

SubmitOk ==
  /\ rqPc = "submit"
  /\ halBuffers' = [halBuffers EXCEPT ![frame_number] = held]
  /\ halMeta' = [halMeta EXCEPT ![frame_number] = PartialResults]
  /\ held' = {}
  /\ issued' = [s \in Streams |->
                  IF InitRequests[s] # Unlimited /\ s \in planned
                  THEN issued[s] + 1 ELSE issued[s]]
  /\ rqPc' = "submitted"
  /\ UNCHANGED <<rqQueue, request_number, frame_number, planned, callback,
                 asked>>
  /\ UNCHANGED <<settingVars, pendingVars, buffers_free, resultVars, ownerVars,
                 mainVars>>

Recycled == Returned(held)

\* The HAL refuses: buffers go back, the entry goes, the thread returns.
SubmitRejected ==
  /\ HalRejects /\ rqPc = "submit"
  /\ buffers_free' = Recycled
  /\ held' = {}
  /\ pending_vector' = pending_vector \ {frame_number}
  /\ pend' = [pend EXCEPT ![frame_number] = NoPending]
  /\ rqPc' = "exit"
  /\ UNCHANGED <<rqQueue, request_number, frame_number, planned>>
  /\ UNCHANGED <<settingVars, halVars, resultVars, ownerVars, mainVars,
                 historyVars>>

\* The accepted request is read again to unlock its settings.  The callback
\* may have deleted it by now: what the freed memory holds decides.
Unlock ==
  /\ rqPc = "submitted"
  /\ frame_number' = frame_number + 1
  /\ \/ setting_locked' = FALSE
     \/ frame_number \notin pending_vector /\ UNCHANGED setting_locked
  /\ rqPc' = "reduce"
  /\ UNCHANGED <<rqQueue, request_number, planned, held, setting_list, setting>>
  /\ UNCHANGED <<pendingVars, buffers_free, halVars, resultVars, ownerVars,
                 mainVars, historyVars>>

Reduced(n, P) == [s \in Streams |-> IF n[s] > 0 /\ s \in P THEN n[s] - 1
                                                           ELSE n[s]]

Reduce ==
  /\ rqPc = "reduce"
  /\ request_number' = Reduced(request_number, planned)
  /\ planned' = {}
  /\ rqPc' = "loop"
  /\ UNCHANGED <<rqQueue, frame_number, held>>
  /\ OnlyRequest

RequestThread ==
  \/ Idle \/ IdleWake \/ TakeStop \/ TakeChange \/ PlanRequest \/ Gate
  \/ GateTimeout \/ GateSpurious \/ GetBuffer \/ GetBufferSpurious \/ Arm
  \/ SubmitOk \/ SubmitRejected \/ Unlock \/ Reduce

----------------------------------------------------------------------------
(* The HAL, and ProcessCaptureResult on one of its threads *)

\* The HAL hands over some of what it owes of one frame (environment).
HalResult(t) ==
  /\ callback[t].pc = "none"
  /\ \E f \in Frames : \E B \in SUBSET halBuffers[f], m \in BOOLEAN :
       /\ B # {} \/ m
       /\ m => halMeta[f] > 0
       /\ callback' = [callback EXCEPT ![t] =
            [pc |-> IF B = {} THEN "account" ELSE "push",
             frame |-> f, bufs |-> B, meta |-> m]]
       /\ halBuffers' = [halBuffers EXCEPT ![f] = @ \ B]
       /\ halMeta' = [halMeta EXCEPT ![f] = @ - (IF m THEN 1 ELSE 0)]
  /\ UNCHANGED <<requestVars, settingVars, pendingVars, buffers_free,
                 resultVars, ownerVars, mainVars, historyVars>>

Accepting == ~resStopped

\* Buffers go to the result thread, unless it has been told to stop.
Push(t) ==
  /\ callback[t].pc = "push" /\ mnPc # "freed"
  /\ \/ /\ Accepting
        /\ resQueue' = Append(resQueue, Result(callback[t].bufs))
        /\ UNCHANGED dropped
     \/ /\ ~Accepting
        /\ dropped' = dropped \cup callback[t].bufs
        /\ UNCHANGED resQueue
  /\ callback' = [callback EXCEPT ![t].pc = "account"]
  /\ UNCHANGED <<requestVars, settingVars, pendingVars, buffers_free,
                 halBuffers, halMeta, resPc, resBuffers, resStopped, encoder,
                 mainVars, historyVars>>

\* stop_streams has deleted _result_thread: its mutex is gone.
PushAfterFree(t) ==
  /\ callback[t].pc = "push" /\ mnPc = "freed"
  /\ callback' = [callback EXCEPT ![t].pc = "fault"]
  /\ UNCHANGED <<requestVars, settingVars, pendingVars, buffers_free,
                 halBuffers, halMeta, resultVars, ownerVars, mainVars,
                 historyVars>>

Accounted(p, c) == [need |-> p.need, got |-> p.got + Cardinality(c.bufs),
                    meta |-> p.meta \/ c.meta]
Complete(p) == p.got >= p.need /\ p.meta
Signalled == IF rqPc = "gateWait" THEN "collect" ELSE rqPc

\* Count the result; the last one removes the request and signals the gate.
Account(t) ==
  LET c == callback[t]
      p == Accounted(pend[c.frame], c)
  IN /\ c.pc = "account"
     /\ callback' = [callback EXCEPT ![t] = NoCallback]
     /\ \/ /\ c.frame \notin pending_vector
           /\ UNCHANGED <<rqPc, pendingVars>>
        \/ /\ c.frame \in pending_vector /\ ~Complete(p)
           /\ pend' = [pend EXCEPT ![c.frame] = p]
           /\ UNCHANGED <<rqPc, pending_vector>>
        \/ /\ c.frame \in pending_vector /\ Complete(p)
           /\ pending_vector' = pending_vector \ {c.frame}
           /\ pend' = [pend EXCEPT ![c.frame] = NoPending]
           /\ rqPc' = Signalled
     /\ UNCHANGED <<rqQueue, request_number, frame_number, planned, held>>
     /\ UNCHANGED <<settingVars, buffers_free, halBuffers, halMeta, resultVars,
                    ownerVars, mainVars, historyVars>>

Hal == \E t \in HalThreads :
         HalResult(t) \/ Push(t) \/ PushAfterFree(t) \/ Account(t)

----------------------------------------------------------------------------
(* Result thread: do_capture_post_process *)

\* An empty queue is waited for; the 5 second timeout only looks again.
ResTake ==
  /\ resPc = "loop" /\ resQueue # <<>>
  /\ resQueue' = Tail(resQueue)
  /\ resBuffers' = Head(resQueue).bufs
  /\ resPc' = IF Head(resQueue).stop THEN "exit" ELSE "post"
  /\ UNCHANGED <<requestVars, settingVars, pendingVars, buffers_free, halVars,
                 resStopped, ownerVars, mainVars, historyVars>>

\* A wake-up nobody signalled takes front() of an empty queue.
ResSpurious ==
  /\ Spurious /\ resPc = "loop" /\ resQueue = <<>>
  /\ resPc' = "fault"
  /\ UNCHANGED <<requestVars, settingVars, pendingVars, buffers_free, halVars,
                 resQueue, resBuffers, resStopped, ownerVars, mainVars,
                 historyVars>>

Outgoing  == {b \in resBuffers : StreamOf[b] \in EncoderTakes \cup CaseDrops}
ToEncoder == {b \in resBuffers : StreamOf[b] \in EncoderTakes}

\* The case's _stop; and its encoder's mBufferQueue, until the encoder is stopped.
StopFlag   == StopsEncoder /\ mnPc # "run"
QueueThere == StopsEncoder => mnPc \in {"run", "encoder"}

\* The case's capture_post_process: it returns the buffers of some streams and
\* hands others over, unless its stop flag is set: then it returns them too.
ResCase ==
  /\ resPc = "post"
  /\ \/ /\ ~StopFlag /\ Outgoing # {}
        /\ buffers_free' = Returned({b \in resBuffers :
                                       StreamOf[b] \in CaseReturns})
        /\ resPc' = "handover"
     \/ /\ StopFlag \/ Outgoing = {}
        /\ buffers_free' = Returned(Outgoing \cup
                             {b \in resBuffers : StreamOf[b] \in CaseReturns})
        /\ resPc' = "recycle"
  /\ UNCHANGED <<requestVars, settingVars, pendingVars, halVars, resQueue,
                 resBuffers, resStopped, ownerVars, mainVars, historyVars>>

\* enqueue_frame_buffer, also while the encoder is being stopped: stop() returns
\* what is queued before it deletes the queue.
ResHandOver ==
  /\ resPc = "handover" /\ (QueueThere \/ ToEncoder = {})
  /\ encoder' = encoder \cup ToEncoder
  /\ resPc' = "recycle"
  /\ UNCHANGED <<requestVars, settingVars, pendingVars, buffers_free, halVars,
                 resQueue, resBuffers, resStopped, dropped, mainVars,
                 historyVars>>

\* The encoder's queue has been deleted since the flag was tested: the program
\* ends in a call through a null pointer.
ResHandOverLate ==
  /\ resPc = "handover" /\ ~QueueThere /\ ToEncoder # {}
  /\ resPc' = "fault"
  /\ UNCHANGED <<requestVars, settingVars, pendingVars, buffers_free, halVars,
                 resQueue, resBuffers, resStopped, ownerVars, mainVars,
                 historyVars>>

DeviceReturns == SyncMode = "internal"

\* The device returns every buffer unless the case does (external mode).
ResRecycle ==
  /\ resPc = "recycle"
  /\ buffers_free' = IF DeviceReturns THEN Returned(resBuffers)
                                      ELSE buffers_free
  /\ resBuffers' = {}
  /\ resPc' = "loop"
  /\ UNCHANGED <<requestVars, settingVars, pendingVars, halVars, resQueue,
                 resStopped, ownerVars, mainVars, historyVars>>

ResultThread == \/ ResTake \/ ResSpurious \/ ResCase \/ ResHandOver
                \/ ResHandOverLate \/ ResRecycle

\* The encoder has copied a frame, or drains its queue, and returns the buffer.
EncoderReturn ==
  \E b \in encoder :
    /\ encoder' = encoder \ {b}
    /\ buffers_free' = Returned({b})
    /\ UNCHANGED <<requestVars, settingVars, pendingVars, halVars, resultVars,
                   dropped, mainVars, historyVars>>

----------------------------------------------------------------------------
(* Command thread: request_capture, update_metadata_for_next_request, stop *)

PostChange ==
  /\ mnPc = "run" /\ posted < PostBound
  /\ \E m \in CaptureMsgs :
       /\ rqQueue' = Append(rqQueue, [mask |-> m.mask, count |-> m.count,
                                      stop |-> FALSE])
       /\ asked' = [s \in Streams |-> IF s \in m.mask THEN asked[s] + m.count
                                                     ELSE asked[s]]
  /\ posted' = posted + 1
  /\ UNCHANGED <<rqPc, request_number, frame_number, planned, held>>
  /\ UNCHANGED <<settingVars, pendingVars, buffers_free, halVars, resultVars,
                 ownerVars, mnPc, tryCount, lastSetting, issued>>

PostSetting ==
  /\ mnPc = "run" /\ lastSetting <= SettingBound
  /\ setting_list' = Append(setting_list, lastSetting + 1)
  /\ lastSetting' = lastSetting + 1
  /\ UNCHANGED <<requestVars, setting, setting_locked, pendingVars,
                 buffers_free, halVars, resultVars, ownerVars, mnPc, tryCount,
                 posted, historyVars>>

\* The case sets its stop flag and stops the encoder, if it does that.
CaseStop ==
  /\ mnPc = "run"
  /\ mnPc' = IF StopsEncoder THEN "encoder" ELSE "post"
  /\ UNCHANGED <<requestVars, settingVars, pendingVars, buffers_free, halVars,
                 resultVars, ownerVars, tryCount, posted, lastSetting,
                 historyVars>>

\* The encoder has returned all its frames and deletes its queue, as VideoEncoder
\* has it in detail.
EncoderStopped ==
  /\ mnPc = "encoder" /\ encoder = {}
  /\ resPc = "handover" /\ ToEncoder # {} => StopOvertakes
  /\ mnPc' = "post"
  /\ UNCHANGED <<requestVars, settingVars, pendingVars, buffers_free, halVars,
                 resultVars, ownerVars, tryCount, posted, lastSetting,
                 historyVars>>

PostStop ==
  /\ mnPc = "post"
  /\ rqQueue' = Append(rqQueue, StopRequest)
  /\ mnPc' = "joinRequest"
  /\ UNCHANGED <<rqPc, request_number, frame_number, planned, held>>
  /\ UNCHANGED <<settingVars, pendingVars, buffers_free, halVars, resultVars,
                 ownerVars, tryCount, posted, lastSetting, historyVars>>

StopMsg == [stop |-> TRUE, bufs |-> {}]

\* The request thread has returned and is deleted; stop the result thread.
JoinRequest ==
  /\ mnPc = "joinRequest" /\ rqPc = "exit"
  /\ resStopped' = TRUE
  /\ resQueue' = Append(resQueue, StopMsg)
  /\ mnPc' = "joinResult"
  /\ UNCHANGED <<requestVars, settingVars, pendingVars, buffers_free, halVars,
                 resPc, resBuffers, ownerVars, tryCount, posted, lastSetting,
                 historyVars>>

JoinResult ==
  /\ mnPc = "joinResult" /\ resPc = "exit"
  /\ mnPc' = "drain"
  /\ UNCHANGED <<requestVars, settingVars, pendingVars, buffers_free, halVars,
                 resultVars, ownerVars, tryCount, posted, lastSetting,
                 historyVars>>

MayRetry == tryCount > 0
Drained  == pending_vector = {} \/ tryCount = 0

\* One second without a completed request.
DrainTimeout ==
  /\ HalStalls /\ mnPc = "drain" /\ pending_vector # {} /\ MayRetry
  /\ tryCount' = tryCount - 1
  /\ UNCHANGED <<requestVars, settingVars, pendingVars, buffers_free, halVars,
                 resultVars, ownerVars, mnPc, posted, lastSetting, historyVars>>

\* Everything is back, or given up: free the result thread and the streams.
DrainEnd ==
  /\ mnPc = "drain"
  /\ Drained
  /\ pending_vector' = {}
  /\ pend' = [f \in Frames |-> NoPending]
  /\ mnPc' = "freed"
  /\ UNCHANGED <<requestVars, settingVars, buffers_free, halVars, resultVars,
                 ownerVars, tryCount, posted, lastSetting, historyVars>>

Commands == PostChange \/ PostSetting \/ CaseStop
StopStreams == \/ EncoderStopped \/ PostStop \/ JoinRequest \/ JoinResult
               \/ DrainTimeout \/ DrainEnd

Terminated == mnPc = "freed" /\ UNCHANGED vars

Next == \/ RequestThread \/ Hal \/ ResultThread \/ EncoderReturn
        \/ Commands \/ StopStreams \/ Terminated

Spec == Init /\ [][Next]_vars

\* Threads that can run do run; the HAL answers; the encoder returns.  Nothing
\* makes the user post or stop.
Fairness ==
  /\ WF_vars(RequestThread) /\ WF_vars(ResultThread) /\ WF_vars(StopStreams)
  /\ WF_vars(EncoderReturn)
  /\ \A t \in HalThreads : /\ WF_vars(HalResult(t))
                           /\ WF_vars(Push(t) \/ Account(t))

FairSpec == Spec /\ Fairness

----------------------------------------------------------------------------
(* Properties *)

\* Every variable stays in its range; in particular a stopped counter, a free
\* list and a frame number never leave the naturals.
TypeOK ==
  /\ rqPc \in RequestPc /\ rqQueue \in Seq(RequestMsg)
  /\ request_number \in [Streams -> Int]
  /\ frame_number \in 0 .. FrameBound
  /\ planned \subseteq Streams /\ held \subseteq Buffers
  /\ setting_list \in Seq(Settings) /\ setting \in Settings
  /\ setting_locked \in BOOLEAN
  /\ pending_vector \subseteq Frames /\ pend \in [Frames -> RequestPending]
  /\ buffers_free \in [Buffers -> Nat]
  /\ halBuffers \in [Frames -> SUBSET Buffers] /\ halMeta \in [Frames -> Nat]
  /\ callback \in [HalThreads -> Callback]
  /\ resPc \in {"loop", "post", "handover", "recycle", "exit", "fault"}
  /\ resQueue \in Seq(ResultMsg) /\ resBuffers \subseteq Buffers
  /\ resStopped \in BOOLEAN
  /\ encoder \subseteq Buffers /\ dropped \subseteq Buffers
  /\ mnPc \in {"run", "encoder", "post", "joinRequest", "joinResult", "drain",
               "freed"}
  /\ tryCount \in 0 .. DrainTries /\ posted \in Nat /\ lastSetting \in Settings
  /\ asked \in [Streams -> Int] /\ issued \in [Streams -> Nat]

\* _pending_vector never holds more than its limit, although the request
\* thread checks the limit before it waits for buffers and adds only later.
PendingBounded == Cardinality(pending_vector) <= PendingLimit

\* Where a buffer is: one element per copy in a free list, per request, result,
\* message or holder that has it.  The case gives it back before "recycle" in
\* external mode, the device after it in internal mode.
Places(b) ==
       {"free"} \X (1 .. buffers_free[b])
  \cup (IF b \in held THEN {<<"held", 0>>} ELSE {})
  \cup (IF b \in encoder THEN {<<"encoder", 0>>} ELSE {})
  \cup (IF b \in dropped THEN {<<"dropped", 0>>} ELSE {})
  \cup (IF /\ b \in resBuffers
           /\ \/ resPc = "post" \/ SyncMode = "internal"
              \/ resPc \in {"handover", "fault"} /\ b \in Outgoing
        THEN {<<"result", 0>>} ELSE {})
  \cup {"hal"} \X {f \in Frames : b \in halBuffers[f]}
  \cup {"callback"} \X {t \in HalThreads : /\ callback[t].pc \in {"push", "fault"}
                                           /\ b \in callback[t].bufs}
  \cup {"queue"} \X {i \in DOMAIN resQueue : b \in resQueue[i].bufs}

\* Every buffer is in exactly one place: none is lost between the threads, and
\* none is twice in a free list, where two requests would fill it at once.
OwnedOnce == \A b \in Buffers : Cardinality(Places(b)) = 1

Busy(t, f) == callback[t].pc # "none" /\ callback[t].frame = f

\* A request leaves _pending_vector when the HAL owes no buffer of it: not while a
\* buffer is out or on its way through the callback, and not never, when all of
\* its results have been counted.  (Metadata may still come: the first is enough.)
PendingIffOwed ==
  \A f \in Frames :
    /\ f \notin pending_vector =>
         /\ halBuffers[f] = {}
         /\ \A t \in HalThreads : Busy(t, f) => callback[t].bufs = {}
    /\ f \in pending_vector /\ ~(f = frame_number /\ rqPc = "submit") =>
         \/ halBuffers[f] # {} \/ halMeta[f] > 0
         \/ \E t \in HalThreads : Busy(t, f)

\* When stop_streams frees the result thread and the streams, no buffer is at
\* the HAL and no callback is on its way to the freed mutex.
StopDrains ==
  mnPc = "freed" => /\ \A f \in Frames : halBuffers[f] = {}
                    /\ \A t \in HalThreads : callback[t].pc \notin {"push", "fault"}

\* The result thread ends on the last message of its queue: every result that
\* was queued before the stop has been handled and none is queued behind it.
NoResultBehindStop == resPc = "exit" => resQueue = <<>>

\* Counted captures: what the commands asked for is what was requested from the
\* HAL plus what is still to be requested.
CaptureAccounting ==
  rqQueue = <<>> =>
    \A s \in {r \in Streams : InitRequests[r] # Unlimited} :
      asked[s] + (IF rqPc \in {"submitted", "reduce"} /\ s \in planned
                  THEN 1 ELSE 0)
        = request_number[s] + issued[s]

\* No request without an output buffer is sent, whatever streams the skip
\* pattern and the counters leave out of a frame (the HAL would refuse it and
\* the request thread would end).
NoEmptyRequest == rqPc = "submit" => held # {}

\* Settings taken from _setting_metadata_list are the settings of the request.
SettingInForce ==
  [][Len(setting_list') < Len(setting_list) => setting' = Head(setting_list)]_vars

\* When stop_streams frees the streams with their pools, every buffer is back in
\* its pool: none is with the request or the result thread, in a queue, at the HAL
\* or inside the encoder, whose loop would return it to a pool that is gone.  Only
\* results that come after the stop message are dropped.
PoolsWhole ==
  mnPc = "freed" => \A b \in Buffers : buffers_free[b] = 1 \/ b \in dropped

\* The stop command returns: the encoder gives back what it has, both joins and
\* the wait for the pending requests end.
StopReturns == (mnPc # "run") ~> (mnPc = "freed")

\* A planned request reaches the HAL: neither the gate nor a pool starves it.
PlannedIsSubmitted == (rqPc = "gate") ~> (rqPc = "submitted")

\* Every submitted request is eventually retired.
RequestsRetire == \A f \in Frames : f \in pending_vector ~> f \notin pending_vector

\* Captures that were asked for are requested, without a further command, even
\* when the request thread has gone to wait for messages; only a stop cuts them.
CapturesServed ==
  \A s \in Streams : (asked[s] > issued[s]) ~> (asked[s] = issued[s] \/ mnPc # "run")

\* The pipeline is a window of at most PendingLimit requests in flight.
Retired == {f \in Frames : f < frame_number /\ f \notin pending_vector}
           \cup (IF rqPc = "submitted" /\ frame_number \notin pending_vector
                 THEN {frame_number} ELSE {})
Window == INSTANCE RequestWindow
            WITH Limit <- PendingLimit, inflight <- pending_vector,
                 retired <- Retired, closed <- (mnPc = "freed")
WindowSpec == Window!Spec
=============================================================================
