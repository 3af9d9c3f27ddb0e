---------------------------- MODULE VideoEncoder ----------------------------
(***************************************************************************)
(* QCamxTestVideoEncoder and QCamxHAL3TestOMXEncoder: the queue of frames, *)
(* the loops that feed the input and the output port of the OMX component, *)
(* the component with its callbacks, the caller of run() and stop(), and   *)
(* the thread that hands the frames over.                                  *)
(*                                                                         *)
(* Built as CMakeLists.txt does, with DISABLE_META_MODE: Read copies the   *)
(* frame and returns its buffer.  A loop whose queue is empty only looks   *)
(* again after its wait, however that ends.                                *)
(***************************************************************************)
EXTENDS Integers, Sequences, FiniteSets

CONSTANTS
  Frames,               \* buffers of the video stream's pool
  m_nInputBufferCount,  \* buffer headers of the input port
  m_nOutputBufferCount, \* buffer headers of the output port
  Gaps,        \* may a second pass without a frame while recording?
  SlowConfig,  \* may setConfig's state change still be under way in start()?
  OmxStalls,   \* may the component be later than stop() waits?
  OmxRejects   \* may a call of the component fail?

ASSUME EncoderAssumption ==
  /\ {m_nInputBufferCount, m_nOutputBufferCount} \subseteq Nat \ {0}
  /\ {Gaps, SlowConfig, OmxStalls, OmxRejects} \subseteq BOOLEAN

InBufs  == 1 .. m_nInputBufferCount    \* m_inbufs
OutBufs == 1 .. m_nOutputBufferCount   \* m_outbufs

VARIABLES
  mBufferQueue, deleted, reading, pool,  \* frames: queue, in Read, elsewhere
  callerPc,                              \* the result thread, between two steps
  m_infightQ, m_outfightQ,               \* messages to the two loops
  inPc, inBuf, outPc, outBuf,            \* the two loops
  queued,                                \* headers that start() has queued
  m_State, freed,                        \* what the encoder keeps of the state
  omxState, omxCmds, omxIn, omxOut,      \* the component
  mainPc                                 \* the caller of run() and stop()

frameVars  == <<mBufferQueue, deleted, reading, pool, callerPc>>
inVars     == <<inPc, inBuf>>
outVars    == <<outPc, outBuf>>
msgVars    == <<m_infightQ, m_outfightQ>>
stateVars  == <<queued, m_State, freed>>
omxVars    == <<omxState, omxCmds, omxIn, omxOut>>
vars == <<frameVars, inVars, outVars, msgVars, stateVars, omxVars, mainPc>>

----------------------------------------------------------------------------
(* Messages *)

Exit     == [type |-> "LOOP_EXIT", buf |-> 1]
Read(h)  == [type |-> "READ", buf |-> h]
Write(h) == [type |-> "WRITE", buf |-> h]
EmptyBuf(h) == [type |-> "EMPTYBUF_TO_OUTPUTIDX", buf |-> h]

InMsg  == [type : {"LOOP_EXIT", "READ"}, buf : InBufs]
OutMsg == [type : {"LOOP_EXIT", "WRITE", "EMPTYBUF_TO_OUTPUTIDX"}, buf : OutBufs]

\* setConfig has allocated the headers and asked for the idle state, or
\* OMX_GetHandle failed and there is no component.
Init ==
  /\ mBufferQueue = <<>> /\ deleted = FALSE /\ reading = {} /\ pool = Frames
  /\ callerPc = "ready"
  /\ m_infightQ = <<>> /\ m_outfightQ = <<>>
  /\ inPc = "none" /\ inBuf = 1 /\ outPc = "none" /\ outBuf = 1
  /\ queued = 0 /\ m_State = "none" /\ freed = FALSE
  /\ \/ omxState = "loaded" /\ omxCmds = <<"idle">>
     \/ OmxRejects /\ omxState = "none" /\ omxCmds = <<>>
  /\ omxIn = {} /\ omxOut = {}
  /\ mainPc = "start"

----------------------------------------------------------------------------
(* Faulty variants of the definitions below, as in CaptureDevice. *)

FirstBufOnly == Read(1)
NotQueuedAgain(h) == m_infightQ
OneLoopEnded == inPc = "exit"
NeverGivesUp == FALSE
DeletedAnyway == TRUE
ReadsPastEnd == Read(queued - m_nOutputBufferCount + 2)

----------------------------------------------------------------------------
(* start() and EnqueueFrameBuffer *)

m_OmxHandle == omxState # "none"

\* Both threads are created and the executing state is asked for; a failure is
\* only logged.  Without a component start() returns.
StartThreads ==
  /\ mainPc = "start" /\ (SlowConfig \/ omxCmds = <<>>)
  /\ inPc' = "loop" /\ outPc' = "loop"
  /\ \/ m_OmxHandle /\ mainPc' = "queue" /\ omxCmds' = Append(omxCmds, "executing")
     \/ m_OmxHandle /\ mainPc' = "queue" /\ OmxRejects /\ UNCHANGED omxCmds
     \/ ~m_OmxHandle /\ mainPc' = "run" /\ UNCHANGED omxCmds
  /\ UNCHANGED <<frameVars, inBuf, outBuf, msgVars, stateVars, omxState, omxIn,
                 omxOut>>

\* The headers of the output port are queued one by one, then those of the input
\* port; the loops may be emptying the queues.
QueueOutput ==
  /\ mainPc = "queue" /\ queued < m_nOutputBufferCount
  /\ m_outfightQ' = Append(m_outfightQ, EmptyBuf(queued + 1))
  /\ queued' = queued + 1
  /\ UNCHANGED <<frameVars, inVars, outVars, m_infightQ, m_State, freed, omxVars,
                 mainPc>>

NextRead == Read(queued - m_nOutputBufferCount + 1)
AllQueued == queued = m_nOutputBufferCount + m_nInputBufferCount

QueueInput ==
  /\ mainPc = "queue" /\ queued >= m_nOutputBufferCount /\ ~AllQueued
  /\ m_infightQ' = Append(m_infightQ, NextRead)
  /\ queued' = queued + 1
  /\ UNCHANGED <<frameVars, inVars, outVars, m_outfightQ, m_State, freed, omxVars,
                 mainPc>>

StartState ==
  /\ mainPc = "queue" /\ AllQueued
  /\ m_State' = "start"
  /\ mainPc' = "run"
  /\ UNCHANGED <<frameVars, inVars, outVars, msgVars, queued, freed, omxVars>>

Start == StartThreads \/ QueueOutput \/ QueueInput \/ StartState

\* The result thread has found the case's flag unset, which is set just before
\* stop() is called.
TestStop ==
  /\ callerPc = "ready" /\ mainPc = "run" /\ pool # {}
  /\ callerPc' = "handover"
  /\ UNCHANGED <<mBufferQueue, deleted, reading, pool, inVars, outVars, msgVars,
                 stateVars, omxVars, mainPc>>

\* Wherever stop() has got to by now: nothing is tested here.
EnqueueFrameBuffer ==
  /\ callerPc = "handover" /\ ~deleted
  /\ \E b \in pool : /\ mBufferQueue' = Append(mBufferQueue, b)
                     /\ pool' = pool \ {b}
  /\ callerPc' = "ready"
  /\ UNCHANGED <<deleted, reading, inVars, outVars, msgVars, stateVars, omxVars,
                 mainPc>>

\* mBufferQueue is null: the program ends.
EnqueueLate ==
  /\ callerPc = "handover" /\ deleted
  /\ callerPc' = "fault"
  /\ UNCHANGED <<mBufferQueue, deleted, reading, pool, inVars, outVars, msgVars,
                 stateVars, omxVars, mainPc>>

Caller == TestStop \/ EnqueueFrameBuffer \/ EnqueueLate

----------------------------------------------------------------------------
(* inFilghtFunc, and Read *)

InTake ==
  /\ inPc = "loop" /\ m_infightQ # <<>>
  /\ m_infightQ' = Tail(m_infightQ)
  /\ inBuf' = Head(m_infightQ).buf
  /\ inPc' = IF Head(m_infightQ).type = "READ" THEN "read" ELSE "exit"
  /\ UNCHANGED <<frameVars, outVars, m_outfightQ, stateVars, omxVars, mainPc>>

ReadFrame ==
  /\ inPc = "read" /\ mBufferQueue # <<>>
  /\ reading' = {Head(mBufferQueue)}
  /\ mBufferQueue' = Tail(mBufferQueue)
  /\ inPc' = "copy"
  /\ UNCHANGED <<deleted, pool, callerPc, inBuf, outVars, msgVars, stateVars, omxVars,
                 mainPc>>

\* While frames arrive the wait of a second does not end without one.
GivesUp == Gaps \/ mainPc \in {"exit", "join"}

\* No frame for a second: Read fails, and the message with its header is gone.
ReadTimeout ==
  /\ inPc = "read" /\ mBufferQueue = <<>> /\ GivesUp
  /\ inPc' = "loop"
  /\ UNCHANGED <<frameVars, inBuf, outVars, msgVars, stateVars, omxVars, mainPc>>

\* The frame is copied into the header and its buffer returned.
ReadReturn ==
  /\ inPc = "copy"
  /\ pool' = pool \cup reading
  /\ reading' = {}
  /\ inPc' = "empty"
  /\ UNCHANGED <<mBufferQueue, deleted, callerPc, inBuf, outVars, msgVars,
                 stateVars, omxVars, mainPc>>

\* OMX_EmptyThisBuffer; a failure is only logged.
EmptyThisBuffer ==
  /\ inPc = "empty"
  /\ \/ omxIn' = omxIn \cup {inBuf}
     \/ OmxRejects /\ UNCHANGED omxIn
  /\ inPc' = "loop"
  /\ UNCHANGED <<frameVars, inBuf, outVars, msgVars, stateVars, omxState,
                 omxCmds, omxOut, mainPc>>

InLoop == InTake \/ ReadFrame \/ ReadTimeout \/ ReadReturn \/ EmptyThisBuffer

----------------------------------------------------------------------------
(* outFilghtFunc *)

OutTake ==
  /\ outPc = "loop" /\ m_outfightQ # <<>>
  /\ m_outfightQ' = Tail(m_outfightQ)
  /\ outBuf' = Head(m_outfightQ).buf
  /\ outPc' = IF Head(m_outfightQ).type = "LOOP_EXIT" THEN "exit" ELSE "fill"
  /\ UNCHANGED <<frameVars, inVars, m_infightQ, stateVars, omxVars, mainPc>>

\* The data of a WRITE is written to the file; then the header is to be filled.
FillThisBuffer ==
  /\ outPc = "fill"
  /\ \/ omxOut' = omxOut \cup {outBuf}
     \/ OmxRejects /\ UNCHANGED omxOut
  /\ outPc' = "loop"
  /\ UNCHANGED <<frameVars, inVars, outBuf, msgVars, stateVars, omxState,
                 omxCmds, omxIn, mainPc>>

OutLoop == OutTake \/ FillThisBuffer

----------------------------------------------------------------------------
(* The component and its callbacks, until ~QCamxHAL3TestOMXEncoder *)

Alive == mainPc \notin {"drain", "stopped"}

\* A component that is asked to be idle has given all headers back.
Idle == omxState = "executing" => omxIn = {} /\ omxOut = {}

\* onOmxEvent for a completed OMX_CommandStateSet.
StateAfter(cmd) ==
  IF cmd = "idle" /\ m_State = "start" THEN "idle"
  ELSE IF cmd = "loaded" /\ m_State = "idle" THEN "loaded" ELSE m_State

OmxStateSet ==
  /\ Alive /\ omxCmds # <<>> /\ (Head(omxCmds) = "idle" => Idle)
  /\ omxState' = Head(omxCmds)
  /\ omxCmds' = Tail(omxCmds)
  /\ m_State' = StateAfter(Head(omxCmds))
  /\ UNCHANGED <<frameVars, inVars, outVars, msgVars, queued, freed, omxIn, omxOut,
                 mainPc>>

ReadAgain(h) == Append(m_infightQ, Read(h))

\* EmptyBufferDone: onBufEmptyDone.
OmxEmptied ==
  /\ Alive /\ omxState = "executing"
  /\ \E h \in omxIn : omxIn' = omxIn \ {h} /\ m_infightQ' = ReadAgain(h)
  /\ UNCHANGED <<frameVars, inVars, outVars, m_outfightQ, stateVars, omxState,
                 omxCmds, omxOut, mainPc>>

\* FillBufferDone: onFillBufDone.
OmxFilled ==
  /\ Alive /\ omxState = "executing"
  /\ \E h \in omxOut : /\ omxOut' = omxOut \ {h}
                       /\ m_outfightQ' = Append(m_outfightQ, Write(h))
  /\ UNCHANGED <<frameVars, inVars, outVars, m_infightQ, stateVars, omxState,
                 omxCmds, omxIn, mainPc>>

Component == OmxStateSet \/ OmxEmptied \/ OmxFilled

----------------------------------------------------------------------------
(* stop() *)

StopFlush ==
  /\ mainPc = "run"
  /\ m_infightQ' = <<>>
  /\ mainPc' = "exit"
  /\ UNCHANGED <<frameVars, inVars, outVars, m_outfightQ, stateVars, omxVars>>

StopLoops ==
  /\ mainPc = "exit"
  /\ m_infightQ' = Append(m_infightQ, Exit)
  /\ m_outfightQ' = Append(m_outfightQ, Exit)
  /\ mainPc' = "join"
  /\ UNCHANGED <<frameVars, inVars, outVars, stateVars, omxVars>>

LoopsEnded == inPc = "exit" /\ outPc = "exit"

\* Both threads are joined and the idle state is asked for; without a component
\* this is a call through a null handle.
JoinLoops ==
  /\ mainPc = "join" /\ LoopsEnded
  /\ \/ m_OmxHandle /\ omxCmds' = Append(omxCmds, "idle") /\ mainPc' = "idle"
     \/ m_OmxHandle /\ OmxRejects /\ mainPc' = "drain" /\ UNCHANGED omxCmds
     \/ ~m_OmxHandle /\ mainPc' = "fault" /\ UNCHANGED omxCmds
  /\ UNCHANGED <<frameVars, inVars, outVars, msgVars, stateVars, omxState, omxIn,
                 omxOut>>

\* At most one wait of five seconds, and none if m_State is STATE_IDLE already;
\* then all headers are freed, unless a call fails.
FreeBuffers ==
  /\ mainPc = "idle" /\ (m_State = "idle" \/ OmxStalls)
  /\ \/ freed' = TRUE /\ omxCmds' = Append(omxCmds, "loaded")
     \/ OmxRejects /\ UNCHANGED <<freed, omxCmds>>
  /\ mainPc' = "drain"
  /\ UNCHANGED <<frameVars, inVars, outVars, msgVars, queued, m_State, omxState,
                 omxIn, omxOut>>

\* mCoder has been deleted; the frames left are returned one by one, and the
\* queue is deleted under the lock under which it was found empty.
Drain ==
  /\ mainPc = "drain" /\ mBufferQueue # <<>>
  /\ mBufferQueue' = Tail(mBufferQueue)
  /\ pool' = pool \cup {Head(mBufferQueue)}
  /\ UNCHANGED <<deleted, reading, callerPc, inVars, outVars, msgVars, stateVars,
                 omxVars, mainPc>>

QueueDrained == mBufferQueue = <<>>

DeleteQueue ==
  /\ mainPc = "drain" /\ QueueDrained
  /\ deleted' = TRUE
  /\ mainPc' = "stopped"
  /\ UNCHANGED <<mBufferQueue, reading, pool, callerPc, inVars, outVars,
                 msgVars, stateVars, omxVars>>

Stop == StopLoops \/ JoinLoops \/ FreeBuffers \/ Drain \/ DeleteQueue

Stopped == mainPc \in {"stopped", "fault"} /\ UNCHANGED vars

Next == \/ Start \/ Caller \/ InLoop \/ OutLoop \/ Component
        \/ StopFlush \/ Stop \/ Stopped

Spec == Init /\ [][Next]_vars

\* The threads run, the component works; nothing makes the user stop.
FairSpec == Spec /\ WF_vars(InLoop) /\ WF_vars(OutLoop) /\ WF_vars(Stop)
                 /\ WF_vars(OmxStateSet) /\ WF_vars(OmxEmptied)
                 /\ WF_vars(OmxFilled)

----------------------------------------------------------------------------
(* Properties *)

TypeOK ==
  /\ mBufferQueue \in Seq(Frames) /\ deleted \in BOOLEAN
  /\ reading \subseteq Frames /\ pool \subseteq Frames
  /\ callerPc \in {"ready", "handover", "fault"}
  /\ m_infightQ \in Seq(InMsg) /\ m_outfightQ \in Seq(OutMsg)
  /\ inPc \in {"none", "loop", "read", "copy", "empty", "exit"}
  /\ inBuf \in InBufs
  /\ outPc \in {"none", "loop", "fill", "exit"} /\ outBuf \in OutBufs
  /\ queued \in 0 .. m_nOutputBufferCount + m_nInputBufferCount
  /\ m_State \in {"none", "start", "idle", "loaded"} /\ freed \in BOOLEAN
  /\ omxState \in {"none", "loaded", "idle", "executing"}
  /\ omxCmds \in Seq({"loaded", "idle", "executing"})
  /\ omxIn \subseteq InBufs /\ omxOut \subseteq OutBufs
  /\ mainPc \in {"start", "queue", "run", "exit", "join", "idle", "drain",
                 "stopped", "fault"}

\* Where an input header is: as many elements as there are users of it.
UsersOf(h) ==
       {"queue"} \X {i \in DOMAIN m_infightQ : m_infightQ[i] = Read(h)}
  \cup {"loop"} \X (IF inPc \in {"read", "copy", "empty"} /\ inBuf = h
                    THEN {1} ELSE {})
  \cup {"omx"} \X (IF h \in omxIn THEN {1} ELSE {})

\* An input header has one user at a time: a frame is never copied into a
\* header that the component is reading.
HeaderOnce == \A h \in InBufs : Cardinality(UsersOf(h)) <= 1

\* stop() frees the headers only when the component is idle and holds none.
FreedWhenIdle == freed => omxState = "idle" /\ omxIn = {} /\ omxOut = {}

Inside == {mBufferQueue[i] : i \in DOMAIN mBufferQueue} \cup reading

\* stop() returns, wherever the loops, the component and a frame on its way to
\* the queue are when it is called, if the component could be opened.
StopEnds == (mainPc = "exit" /\ m_OmxHandle) ~> (mainPc = "stopped")

\* A frame handed to the encoder is given back to the pool.
FramesComeBack == \A b \in Frames : (b \in Inside) ~> (b \in pool)

\* For the pipeline the encoder is a holder of frames, empty when it is shut: a
\* frame that comes while stop() joins the loops or drains is returned as well.
Holder == INSTANCE FrameHolder WITH inside <- Inside, shut <- deleted
HolderSpec == Holder!Spec
=============================================================================
