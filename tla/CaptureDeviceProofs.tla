------------------------ MODULE CaptureDeviceProofs ------------------------
(***************************************************************************)
(* Proofs about CaptureDevice for any streams, pools, limits and bounds:   *)
(* type correctness, and what the counters promise: every capture that was *)
(* asked for is requested once, and no request is without an output.       *)
(***************************************************************************)
EXTENDS CaptureDevice, FiniteSetTheorems, TLAPS

\* While a request is being put together its frame number is below the bound.
FrameInRange ==
  rqPc \in {"gate", "gateWait", "collect", "submit", "submitted"}
    => frame_number < FrameBound

TypeInv == TypeOK /\ FrameInRange

LEMMA FramesFinite ==
  /\ Frames \subseteq Nat /\ IsFiniteSet(Frames) /\ 0 \in Frames
  /\ \A f \in Nat : f < FrameBound => f \in Frames
<1>1. Frames \subseteq Nat /\ 0 \in Frames
  BY BoundAssumption DEF Frames
<1>2. IsFiniteSet(Frames)
  BY BoundAssumption, FS_Interval DEF Frames
<1>3. \A f \in Nat : f < FrameBound => f \in Frames
  BY BoundAssumption DEF Frames
<1>4. QED  BY <1>1, <1>2, <1>3

LEMMA CountBuffers ==
  ASSUME NEW B \in SUBSET Buffers PROVE Cardinality(B) \in Nat
BY FiniteAssumption, FS_Subset, FS_CardinalityType

LEMMA QueueStep ==
  ASSUME NEW S, NEW q \in Seq(S), q # <<>>
  PROVE  Head(q) \in S /\ Tail(q) \in Seq(S)
OBVIOUS

LEMMA QueueAppend ==
  ASSUME NEW S, NEW q \in Seq(S), NEW e \in S
  PROVE  Append(q, e) \in Seq(S)
OBVIOUS

LEMMA InitType == Init => TypeInv
<1> SUFFICES ASSUME Init PROVE TypeInv  OBVIOUS
<1> USE DEF Init
<1>1. FrameInRange  BY DEF FrameInRange
<1>2. TypeOK
  <2>1. rqQueue \in Seq(RequestMsg) /\ resQueue \in Seq(ResultMsg)
    OBVIOUS
  <2>2. setting_list \in Seq(Settings) /\ setting \in Settings /\ lastSetting \in Settings
    BY BoundAssumption DEF Settings
  <2>3. request_number \in [Streams -> Int] /\ asked \in [Streams -> Int]
    BY StreamAssumption DEF Unlimited
  <2>4. callback \in [HalThreads -> Callback] /\ pend \in [Frames -> RequestPending]
    BY FramesFinite DEF NoCallback, Callback, NoPending, RequestPending
  <2>5. frame_number \in 0 .. FrameBound /\ tryCount \in 0 .. DrainTries
    BY BoundAssumption
  <2>6. buffers_free \in [Buffers -> Nat] /\ issued \in [Streams -> Nat]
        /\ halBuffers \in [Frames -> SUBSET Buffers] /\ halMeta \in [Frames -> Nat]
    OBVIOUS
  <2>7. QED
    BY <2>1, <2>2, <2>3, <2>4, <2>5, <2>6 DEF TypeOK, RequestPc
<1>3. QED  BY <1>1, <1>2 DEF TypeInv

LEMMA RequestType == ASSUME TypeInv, RequestThread PROVE TypeInv'
<1> USE DEF TypeInv
<1>1. CASE Idle \/ IdleWake \/ Gate \/ GateTimeout \/ GateSpurious \/ GetBufferSpurious
  <2>1. rqPc' \in RequestPc /\ FrameInRange'
    BY <1>1 DEF Idle, IdleWake, Gate, GateTimeout, GateSpurious, GetBufferSpurious,
       OnlyPc, RequestPc, FrameInRange
  <2>2. QED
    BY <1>1, <2>1 DEF Idle, IdleWake, Gate, GateTimeout, GateSpurious,
       GetBufferSpurious, OnlyPc, OnlyRequest, TypeOK, settingVars, pendingVars,
       halVars, resultVars, ownerVars, mainVars, historyVars
<1>2. CASE TakeStop
  BY <1>2 DEF TakeStop, OnlyRequest, TypeOK, FrameInRange, RequestPc, settingVars,
     pendingVars, halVars, resultVars, ownerVars, mainVars, historyVars
<1>3. CASE TakeChange
  <2>1. request_number' \in [Streams -> Int]
    <3>1. Head(rqQueue) \in RequestMsg  BY <1>3, QueueStep DEF TakeChange, TypeOK
    <3>2. Head(rqQueue).count \in Int  BY <3>1 DEF RequestMsg
    <3>3. QED  BY <1>3, <3>2 DEF TakeChange, ChangedNumber, TypeOK
  <2>2. rqQueue' \in Seq(RequestMsg)
    BY <1>3, QueueStep DEF TakeChange, TypeOK
  <2>3. QED
    BY <1>3, <2>1, <2>2 DEF TakeChange, OnlyRequest, TypeOK, FrameInRange, RequestPc,
       settingVars, pendingVars, halVars, resultVars, ownerVars, mainVars, historyVars
<1>4. CASE PlanRequest
  BY <1>4 DEF PlanRequest, Plan, OnlyRequest, TypeOK, FrameInRange, RequestPc,
     settingVars, pendingVars, halVars, resultVars, ownerVars, mainVars, historyVars
<1>5. CASE GetBuffer
  <2>1. PICK b \in FreeOf(NextStream) : buffers_free' = Taken(b) /\ held' = held \cup {b}
    BY <1>5 DEF GetBuffer
  <2>2. b \in Buffers /\ buffers_free[b] > 0
    BY <2>1 DEF FreeOf
  <2>3. buffers_free' \in [Buffers -> Nat] /\ held' \subseteq Buffers
    BY <2>1, <2>2 DEF Taken, TypeOK
  <2>4. QED
    BY <1>5, <2>3 DEF GetBuffer, TypeOK, FrameInRange, settingVars, pendingVars,
       halVars, resultVars, ownerVars, mainVars, historyVars
<1>6. CASE Arm
  <2>1. frame_number \in Frames
    BY <1>6, FramesFinite, BoundAssumption DEF Arm, FrameInRange, TypeOK
  <2>2. pending_vector' \subseteq Frames /\ pend' \in [Frames -> RequestPending]
    BY <1>6, <2>1, CountBuffers DEF Arm, TypeOK, RequestPending
  <2>3. setting_list' \in Seq(Settings) /\ setting' \in Settings
    <3>1. CASE setting_list = <<>>  BY <1>6, <3>1 DEF Arm, TypeOK
    <3>2. CASE setting_list # <<>>
      <4>1. Head(setting_list) \in Settings /\ Tail(setting_list) \in Seq(Settings)
        BY <3>2, QueueStep DEF TypeOK
      <4>2. QED  BY <1>6, <3>2, <4>1 DEF Arm, TypeOK
    <3>3. QED  BY <3>1, <3>2
  <2>4. FrameInRange' /\ rqPc' \in RequestPc /\ setting_locked' \in BOOLEAN
    BY <1>6 DEF Arm, FrameInRange, RequestPc
  <2>5. UNCHANGED <<rqQueue, request_number, frame_number, planned, held,
                   buffers_free, halVars, resultVars, ownerVars, mainVars, historyVars>>
    BY <1>6 DEF Arm
  <2>6. QED
    BY <2>2, <2>3, <2>4, <2>5 DEF TypeOK, halVars, resultVars, ownerVars, mainVars,
       historyVars
<1>7. CASE SubmitOk
  <2>1. halBuffers' \in [Frames -> SUBSET Buffers] /\ halMeta' \in [Frames -> Nat]
    BY <1>7, BoundAssumption DEF SubmitOk, TypeOK
  <2>2. issued' \in [Streams -> Nat]
    BY <1>7 DEF SubmitOk, TypeOK
  <2>3. QED
    BY <1>7, <2>1, <2>2 DEF SubmitOk, TypeOK, FrameInRange, RequestPc, settingVars,
       pendingVars, resultVars, ownerVars, mainVars
<1>8. CASE SubmitRejected
  <2>1. buffers_free' \in [Buffers -> Nat]
    BY <1>8 DEF SubmitRejected, Recycled, Returned, TypeOK
  <2>2. pend' \in [Frames -> RequestPending]
    BY <1>8 DEF SubmitRejected, TypeOK, NoPending, RequestPending
  <2>3. QED
    BY <1>8, <2>1, <2>2 DEF SubmitRejected, TypeOK, FrameInRange, RequestPc,
       settingVars, halVars, resultVars, ownerVars, mainVars, historyVars
<1>9. CASE Unlock
  <2>1. frame_number' \in 0 .. FrameBound
    BY <1>9, BoundAssumption DEF Unlock, TypeOK, FrameInRange
  <2>2. QED
    BY <1>9, <2>1 DEF Unlock, TypeOK, FrameInRange, RequestPc, pendingVars,
       halVars, resultVars, ownerVars, mainVars, historyVars
<1>10. CASE Reduce
  <2>1. request_number' \in [Streams -> Int]
    BY <1>10 DEF Reduce, Reduced, TypeOK
  <2>2. QED
    BY <1>10, <2>1 DEF Reduce, OnlyRequest, TypeOK, FrameInRange, RequestPc,
       settingVars, pendingVars, halVars, resultVars, ownerVars, mainVars, historyVars
<1>11. QED
  BY <1>1, <1>2, <1>3, <1>4, <1>5, <1>6, <1>7, <1>8, <1>9, <1>10 DEF RequestThread

LEMMA HalType == ASSUME TypeInv, Hal PROVE TypeInv'
<1> USE DEF TypeInv
<1> PICK t \in HalThreads : HalResult(t) \/ Push(t) \/ PushAfterFree(t) \/ Account(t)
  BY DEF Hal
<1>0. callback[t] \in Callback  BY DEF TypeOK
<1>1. CASE HalResult(t)
  <2>1. PICK f \in Frames : \E B \in SUBSET halBuffers[f], m \in BOOLEAN :
          /\ m => halMeta[f] > 0
          /\ callback' = [callback EXCEPT ![t] =
               [pc |-> IF B = {} THEN "account" ELSE "push",
                frame |-> f, bufs |-> B, meta |-> m]]
          /\ halBuffers' = [halBuffers EXCEPT ![f] = @ \ B]
          /\ halMeta' = [halMeta EXCEPT ![f] = @ - (IF m THEN 1 ELSE 0)]
    BY <1>1 DEF HalResult
  <2>2. halBuffers[f] \subseteq Buffers /\ halMeta[f] \in Nat
    BY DEF TypeOK
  <2>3. callback' \in [HalThreads -> Callback]
    BY <2>1, <2>2 DEF TypeOK, Callback
  <2>4. halBuffers' \in [Frames -> SUBSET Buffers] /\ halMeta' \in [Frames -> Nat]
    BY <2>1, <2>2 DEF TypeOK
  <2>5. QED
    BY <1>1, <2>3, <2>4 DEF HalResult, TypeOK, FrameInRange, requestVars, settingVars,
       pendingVars, resultVars, ownerVars, mainVars, historyVars
<1>2. CASE Push(t)
  <2>1. callback' \in [HalThreads -> Callback]
    BY <1>2, <1>0 DEF Push, TypeOK, Callback
  <2>2. resQueue' \in Seq(ResultMsg) /\ dropped' \subseteq Buffers
    <3>1. callback[t].bufs \subseteq Buffers  BY <1>0 DEF Callback
    <3>2. Result(callback[t].bufs) \in ResultMsg  BY <3>1 DEF Result, ResultMsg
    <3>3. Append(resQueue, Result(callback[t].bufs)) \in Seq(ResultMsg)
      BY <3>2, QueueAppend DEF TypeOK
    <3>4. QED  BY <1>2, <3>1, <3>3 DEF Push, TypeOK
  <2>3. QED
    BY <1>2, <2>1, <2>2 DEF Push, TypeOK, FrameInRange, requestVars, settingVars,
       pendingVars, mainVars, historyVars
<1>3. CASE PushAfterFree(t)
  <2>1. callback' \in [HalThreads -> Callback]
    BY <1>3, <1>0 DEF PushAfterFree, TypeOK, Callback
  <2>2. QED
    BY <1>3, <2>1 DEF PushAfterFree, TypeOK, FrameInRange, requestVars, settingVars,
       pendingVars, resultVars, ownerVars, mainVars, historyVars
<1>4. CASE Account(t)
  <2> DEFINE c == callback[t]
             p == Accounted(pend[c.frame], c)
  <2>1. c.frame \in Frames /\ c.bufs \subseteq Buffers /\ c.meta \in BOOLEAN
    BY <1>0 DEF Callback
  <2>2. p \in RequestPending
    <3>1. pend[c.frame] \in RequestPending  BY <2>1 DEF TypeOK
    <3>2. Cardinality(c.bufs) \in Nat  BY <2>1, CountBuffers
    <3>3. /\ pend[c.frame].need \in Nat
          /\ pend[c.frame].got + Cardinality(c.bufs) \in Nat
      BY <3>1, <3>2 DEF RequestPending
    <3>4. (pend[c.frame].meta \/ c.meta) \in BOOLEAN
      OBVIOUS
    <3>5. QED  BY <3>3, <3>4 DEF Accounted, RequestPending
  <2>3. pend' \in [Frames -> RequestPending] /\ pending_vector' \subseteq Frames
    <3>1. \/ UNCHANGED <<pend, pending_vector>>
          \/ pend' = [pend EXCEPT ![c.frame] = p] /\ UNCHANGED pending_vector
          \/ /\ pend' = [pend EXCEPT ![c.frame] = NoPending]
             /\ pending_vector' = pending_vector \ {c.frame}
      BY <1>4 DEF Account, pendingVars
    <3>2. NoPending \in RequestPending  BY DEF NoPending, RequestPending
    <3>3. pend \in [Frames -> RequestPending] /\ pending_vector \subseteq Frames
      BY DEF TypeOK
    <3>4. QED  BY <3>1, <3>2, <3>3, <2>2
  <2>4. callback' \in [HalThreads -> Callback]
    BY <1>4, FramesFinite DEF Account, TypeOK, NoCallback, Callback
  <2>5. rqPc' \in RequestPc /\ FrameInRange'
    BY <1>4 DEF Account, Signalled, TypeOK, RequestPc, FrameInRange
  <2>6. QED
    BY <1>4, <2>3, <2>4, <2>5 DEF Account, TypeOK, settingVars, resultVars, ownerVars,
       mainVars, historyVars
<1>5. QED  BY <1>1, <1>2, <1>3, <1>4

LEMMA ResultType == ASSUME TypeInv, ResultThread \/ EncoderReturn PROVE TypeInv'
<1> USE DEF TypeInv
<1>1. \A B : Returned(B) \in [Buffers -> Nat]
  BY DEF Returned, TypeOK
<1>2. CASE ResTake
  <2>1. Head(resQueue) \in ResultMsg /\ resQueue' \in Seq(ResultMsg)
    BY <1>2 DEF ResTake, TypeOK
  <2>2. QED
    BY <1>2, <2>1 DEF ResTake, TypeOK, ResultMsg, FrameInRange, requestVars, settingVars,
       pendingVars, halVars, ownerVars, mainVars, historyVars
<1>3. CASE ResSpurious
  BY <1>3 DEF ResSpurious, TypeOK, FrameInRange, requestVars, settingVars,
     pendingVars, halVars, ownerVars, mainVars, historyVars
<1>4. CASE ResCase
  <2>1. buffers_free' \in [Buffers -> Nat]
    BY <1>1, <1>4 DEF ResCase
  <2>2. QED
    BY <1>4, <2>1 DEF ResCase, TypeOK, FrameInRange, requestVars, settingVars,
       pendingVars, halVars, ownerVars, mainVars, historyVars
<1>5. CASE ResRecycle
  <2>1. buffers_free' \in [Buffers -> Nat]
    BY <1>1, <1>5 DEF ResRecycle, TypeOK
  <2>2. QED
    BY <1>5, <2>1 DEF ResRecycle, TypeOK, FrameInRange, requestVars, settingVars,
       pendingVars, halVars, ownerVars, mainVars, historyVars
<1>6. CASE EncoderReturn
  BY <1>1, <1>6 DEF EncoderReturn, TypeOK, FrameInRange, requestVars, settingVars,
     pendingVars, halVars, resultVars, mainVars, historyVars
<1>7. CASE ResHandOver \/ ResHandOverLate
  <2>1. encoder' \subseteq Buffers /\ dropped' = dropped
    BY <1>7 DEF ResHandOver, ResHandOverLate, ToEncoder, TypeOK, ownerVars
  <2>2. QED
    BY <1>7, <2>1 DEF ResHandOver, ResHandOverLate, TypeOK, FrameInRange, requestVars,
       settingVars, pendingVars, halVars, mainVars, historyVars
<1>8. QED  BY <1>2, <1>3, <1>4, <1>5, <1>6, <1>7 DEF ResultThread

LEMMA CommandType == ASSUME TypeInv, Commands \/ StopStreams PROVE TypeInv'
<1> USE DEF TypeInv
<1>1. CASE PostChange
  <2>1. PICK m \in CaptureMsgs :
          /\ rqQueue' = Append(rqQueue, [mask |-> m.mask, count |-> m.count,
                                         stop |-> FALSE])
          /\ asked' = [s \in Streams |-> IF s \in m.mask THEN asked[s] + m.count
                                                        ELSE asked[s]]
    BY <1>1 DEF PostChange
  <2>2. m \in [mask : SUBSET Streams, count : Int]
    BY CommandAssumption
  <2>3. rqQueue' \in Seq(RequestMsg) /\ asked' \in [Streams -> Int]
    BY <2>1, <2>2 DEF TypeOK, RequestMsg
  <2>4. QED
    BY <1>1, <2>3, SMTT(30) DEF PostChange, TypeOK, FrameInRange, settingVars, pendingVars,
       halVars, resultVars, ownerVars
<1>2. CASE PostSetting
  <2>1. lastSetting + 1 \in Settings
    BY <1>2, BoundAssumption DEF PostSetting, TypeOK, Settings
  <2>2. setting_list' \in Seq(Settings) /\ lastSetting' \in Settings
    BY <1>2, <2>1 DEF PostSetting, TypeOK
  <2>3. /\ UNCHANGED <<requestVars, setting, setting_locked, pendingVars, buffers_free>>
        /\ UNCHANGED <<halVars, resultVars, ownerVars, mnPc, tryCount, posted, historyVars>>
    BY <1>2 DEF PostSetting
  <2> HIDE DEF Settings
  <2>4. QED
    BY <2>2, <2>3 DEF TypeOK, FrameInRange, requestVars, pendingVars, halVars,
       resultVars, ownerVars, historyVars
<1>3. CASE CaseStop \/ EncoderStopped
  BY <1>3 DEF CaseStop, EncoderStopped, TypeOK, FrameInRange, requestVars, settingVars,
     pendingVars, halVars, resultVars, ownerVars, historyVars
<1>4. CASE PostStop
  <2>1. rqQueue' \in Seq(RequestMsg)
    BY <1>4 DEF PostStop, StopRequest, TypeOK, RequestMsg
  <2>2. QED
    BY <1>4, <2>1 DEF PostStop, TypeOK, FrameInRange, settingVars, pendingVars,
       halVars, resultVars, ownerVars, historyVars
<1>5. CASE JoinRequest
  <2>1. resQueue' \in Seq(ResultMsg)
    BY <1>5 DEF JoinRequest, StopMsg, TypeOK, ResultMsg
  <2>2. QED
    BY <1>5, <2>1 DEF JoinRequest, TypeOK, FrameInRange, requestVars, settingVars,
       pendingVars, halVars, ownerVars, historyVars
<1>6. CASE JoinResult
  BY <1>6 DEF JoinResult, TypeOK, FrameInRange, requestVars, settingVars,
     pendingVars, halVars, resultVars, ownerVars, historyVars
<1>7. CASE DrainTimeout
  <2>1. tryCount' \in 0 .. DrainTries
    BY <1>7, BoundAssumption DEF DrainTimeout, MayRetry, TypeOK
  <2>2. QED
    BY <1>7, <2>1 DEF DrainTimeout, TypeOK, FrameInRange, requestVars, settingVars,
       pendingVars, halVars, resultVars, ownerVars, historyVars
<1>8. CASE DrainEnd
  <2>1. pend' \in [Frames -> RequestPending]
    BY <1>8 DEF DrainEnd, NoPending, RequestPending
  <2>2. QED
    BY <1>8, <2>1 DEF DrainEnd, TypeOK, FrameInRange, requestVars, settingVars,
       halVars, resultVars, ownerVars, historyVars
<1>9. QED
  BY <1>1, <1>2, <1>3, <1>4, <1>5, <1>6, <1>7, <1>8 DEF Commands, StopStreams

LEMMA StutterType == ASSUME TypeInv, UNCHANGED vars PROVE TypeInv'
BY DEF TypeInv, TypeOK, FrameInRange, vars, requestVars, settingVars, pendingVars,
   halVars, resultVars, ownerVars, mainVars, historyVars

LEMMA TypeInvariance == Spec => []TypeInv
<1>1. TypeInv /\ [Next]_vars => TypeInv'
  BY RequestType, HalType, ResultType, CommandType, StutterType DEF Next, Terminated
<1>2. QED  BY InitType, <1>1, PTL DEF Spec

\* Type correctness: however long the threads run, the counters, the free lists
\* and the frame number stay in their ranges.
THEOREM TypeCorrect == Spec => []TypeOK
BY TypeInvariance, PTL DEF TypeInv

----------------------------------------------------------------------------
(* The limit of _pending_vector *)

\* What the gate has established by the time the request thread collects
\* buffers: there is room for one more, and only this thread adds.
RoomForOne == rqPc = "collect" => Cardinality(pending_vector) < PendingLimit

PendingInv == PendingBounded /\ RoomForOne

LEMMA PendingFinite ==
  TypeOK => IsFiniteSet(pending_vector) /\ Cardinality(pending_vector) \in Nat
BY FramesFinite, FS_Subset, FS_CardinalityType DEF TypeOK

LEMMA PendingAdd ==
  ASSUME TypeOK, NEW f \in Frames
  PROVE  Cardinality(pending_vector \cup {f}) <= Cardinality(pending_vector) + 1
BY PendingFinite, FS_AddElement

LEMMA PendingRemove ==
  ASSUME TypeOK, NEW f
  PROVE  /\ Cardinality(pending_vector \ {f}) <= Cardinality(pending_vector)
         /\ f \in pending_vector =>
              Cardinality(pending_vector \ {f}) = Cardinality(pending_vector) - 1
BY PendingFinite, FS_RemoveElement

LEMMA PendingStep ==
  ASSUME ~Spurious, TypeInv, PendingInv, [Next]_vars
  PROVE  PendingInv'
<1> USE DEF PendingInv, PendingBounded, RoomForOne, WindowFull
<1>0. TypeOK /\ FrameInRange /\ Cardinality(pending_vector) \in Nat /\ PendingLimit \in Nat \ {0}
  BY PendingFinite, BoundAssumption DEF TypeInv
<1>1. CASE Gate
  BY <1>0, <1>1 DEF Gate, OnlyPc, OnlyRequest, pendingVars
<1>2. CASE GateSpurious \/ GetBufferSpurious
  BY <1>2 DEF GateSpurious, GetBufferSpurious
<1>3. CASE Idle \/ IdleWake \/ TakeStop \/ TakeChange \/ PlanRequest \/ GateTimeout
           \/ Reduce
  BY <1>3 DEF Idle, IdleWake, TakeStop, TakeChange, PlanRequest, GateTimeout, Reduce,
     OnlyPc, OnlyRequest, pendingVars
<1>4. CASE GetBuffer \/ SubmitOk \/ Unlock
  BY <1>4 DEF GetBuffer, SubmitOk, Unlock, pendingVars
<1>5. CASE Arm
  <2>1. frame_number \in Frames
    BY <1>0, <1>5, FramesFinite, BoundAssumption DEF Arm, FrameInRange, TypeOK
  <2>2. rqPc = "collect" /\ rqPc' = "submit"
        /\ pending_vector' = pending_vector \cup {frame_number}
    BY <1>5 DEF Arm
  <2>3. Cardinality(pending_vector') \in Nat
    <3>1. IsFiniteSet(pending_vector')  BY <1>0, <2>2, PendingFinite, FS_AddElement
    <3>2. QED  BY <3>1, FS_CardinalityType
  <2>4. QED  BY <1>0, <2>1, <2>2, <2>3, PendingAdd
<1>6. CASE SubmitRejected
  <2>1. rqPc' = "exit" /\ pending_vector' = pending_vector \ {frame_number}
    BY <1>6 DEF SubmitRejected
  <2>2. IsFiniteSet(pending_vector')  BY <1>0, <2>1, PendingFinite, FS_RemoveElement
  <2>3. QED  BY <1>0, <2>1, <2>2, PendingRemove, FS_CardinalityType
<1>7. CASE Hal
  <2> PICK t \in HalThreads : HalResult(t) \/ Push(t) \/ PushAfterFree(t) \/ Account(t)
    BY <1>7 DEF Hal
  <2>1. CASE HalResult(t) \/ Push(t) \/ PushAfterFree(t)
    BY <2>1 DEF HalResult, Push, PushAfterFree, requestVars, pendingVars
  <2>2. CASE Account(t)
    <3>1. \/ UNCHANGED <<rqPc, pending_vector>>
          \/ \E f \in pending_vector : /\ pending_vector' = pending_vector \ {f}
                                       /\ rqPc' = Signalled
      BY <2>2 DEF Account, pendingVars
    <3>2. ASSUME NEW f \in pending_vector, pending_vector' = pending_vector \ {f}
          PROVE  Cardinality(pending_vector') = Cardinality(pending_vector) - 1
      BY <1>0, <3>2, PendingRemove
    <3>3. QED  BY <1>0, <3>1, <3>2
  <2>3. QED  BY <2>1, <2>2
<1>8. CASE ResultThread \/ EncoderReturn
  BY <1>8 DEF ResultThread, ResTake, ResSpurious, ResCase, ResHandOver, ResHandOverLate, ResRecycle, EncoderReturn,
     requestVars, pendingVars
<1>9. CASE PostChange \/ PostSetting \/ CaseStop \/ EncoderStopped \/ PostStop
           \/ JoinRequest \/ JoinResult \/ DrainTimeout
  BY <1>9 DEF PostChange, PostSetting, CaseStop, EncoderStopped, PostStop, JoinRequest, JoinResult,
     DrainTimeout, requestVars, pendingVars
<1>10. CASE DrainEnd
  <2>1. pending_vector' = {} /\ rqPc' = rqPc
    BY <1>10 DEF DrainEnd, requestVars
  <2>2. Cardinality(pending_vector') = 0
    BY <2>1, FS_EmptySet
  <2>3. QED  BY <1>0, <2>2
<1>11. CASE UNCHANGED vars
  BY <1>11 DEF vars, requestVars, pendingVars
<1>12. QED
  BY <1>1, <1>2, <1>3, <1>4, <1>5, <1>6, <1>7, <1>8, <1>9, <1>10, <1>11
     DEF Next, RequestThread, Commands, StopStreams, Terminated

LEMMA PendingInvariance == ~Spurious => (Spec => []PendingInv)
<1> SUFFICES ASSUME ~Spurious PROVE Spec => []PendingInv  OBVIOUS
<1>1. Init => PendingInv
  BY FS_EmptySet, BoundAssumption DEF Init, PendingInv, PendingBounded, RoomForOne
<1>2. TypeInv /\ PendingInv /\ [Next]_vars => PendingInv'
  BY PendingStep
<1>3. QED  BY <1>1, <1>2, TypeInvariance, PTL DEF Spec

\* As long as no wait ends without a signal, _pending_vector never outgrows its
\* limit, whatever the limit, the pools and the order of the results are; with
\* such wake-ups it does.
THEOREM PendingLimitHolds == ~Spurious => (Spec => []PendingBounded)
BY PendingInvariance, PTL DEF PendingInv

----------------------------------------------------------------------------
(* The order of the result thread's messages *)

\* The stop message is the last of the queue, exists only after the stop flag
\* is set, and nothing is queued any more after that.
StopIsLast ==
  /\ resStopped => mnPc \in {"joinResult", "drain", "freed"}
  /\ resPc = "exit" => resStopped /\ resQueue = <<>>
  /\ \A i \in 1 .. Len(resQueue) : resQueue[i].stop => resStopped /\ i = Len(resQueue)

LEMMA StopStep ==
  ASSUME TypeInv, StopIsLast, [Next]_vars
  PROVE  StopIsLast'
<1> USE DEF StopIsLast
<1>0. TypeOK /\ resQueue \in Seq(ResultMsg)
  BY DEF TypeInv, TypeOK
<1>1. CASE RequestThread
  <2>1. UNCHANGED <<resultVars, mnPc>>
    BY <1>1 DEF RequestThread, Idle, IdleWake, TakeStop, TakeChange, PlanRequest,
       Gate, GateTimeout, GateSpurious, GetBuffer, GetBufferSpurious, Arm, SubmitOk,
       SubmitRejected, Unlock, Reduce, OnlyPc, OnlyRequest, mainVars
  <2>2. QED  BY <2>1 DEF resultVars
<1>2. CASE Hal
  <2> PICK t \in HalThreads : HalResult(t) \/ Push(t) \/ PushAfterFree(t) \/ Account(t)
    BY <1>2 DEF Hal
  <2>1. CASE HalResult(t) \/ PushAfterFree(t) \/ Account(t)
    BY <2>1 DEF HalResult, PushAfterFree, Account, resultVars, mainVars
  <2>2. CASE Push(t)
    <3>1. UNCHANGED <<resPc, resStopped, mnPc>>
      BY <2>2 DEF Push, mainVars
    <3>2. CASE UNCHANGED resQueue  BY <3>1, <3>2
    <3>3. CASE ~resStopped /\ resQueue' = Append(resQueue, Result(callback[t].bufs))
      <4> DEFINE e == Result(callback[t].bufs)
      <4>1. ~e.stop  BY DEF Result
      <4>2. /\ Len(resQueue') = Len(resQueue) + 1 /\ Len(resQueue) \in Nat
            /\ \A i \in 1 .. Len(resQueue) : resQueue'[i] = resQueue[i]
            /\ resQueue'[Len(resQueue) + 1] = e
        BY <1>0, <3>3
      <4>3. \A i \in 1 .. Len(resQueue') : ~resQueue'[i].stop
        BY <3>3, <4>1, <4>2
      <4>4. QED  BY <3>1, <3>3, <4>3
    <3>4. QED  BY <2>2, <3>2, <3>3 DEF Push, Accepting
  <2>3. QED  BY <2>1, <2>2
<1>3. CASE ResTake
  <2>1. /\ resQueue # <<>> /\ resQueue' = Tail(resQueue)
        /\ resPc = "loop" /\ UNCHANGED <<resStopped, mnPc>>
        /\ resPc' = IF Head(resQueue).stop THEN "exit" ELSE "post"
    BY <1>3 DEF ResTake, mainVars
  <2>2. /\ Len(resQueue) \in Nat \ {0} /\ Len(resQueue') = Len(resQueue) - 1
        /\ Head(resQueue) = resQueue[1]
        /\ \A i \in 1 .. Len(resQueue') : resQueue'[i] = resQueue[i + 1]
    BY <1>0, <2>1
  <2>3. \A i \in 1 .. Len(resQueue') : resQueue'[i].stop => resStopped /\ i = Len(resQueue')
    BY <2>2
  <2>4. ASSUME Head(resQueue).stop
        PROVE  resStopped /\ resQueue' = <<>>
    <3>1. resQueue[1].stop => resStopped /\ 1 = Len(resQueue)
      BY <2>2
    <3>2. resStopped /\ Len(resQueue') = 0
      BY <2>2, <2>4, <3>1
    <3>3. QED  BY <1>0, <2>1, <3>2
  <2>5. resPc' = "exit" => resStopped' /\ resQueue' = <<>>
    BY <2>1, <2>4
  <2>6. resStopped' => mnPc' \in {"joinResult", "drain", "freed"}
    BY <2>1
  <2>7. \A i \in 1 .. Len(resQueue') : resQueue'[i].stop => resStopped' /\ i = Len(resQueue')
    BY <2>1, <2>3
  <2>8. QED  BY <2>5, <2>6, <2>7
<1>4. CASE ResSpurious \/ ResCase \/ ResHandOver \/ ResHandOverLate \/ ResRecycle
           \/ EncoderReturn
  <2>1. UNCHANGED <<resQueue, resStopped, mnPc>> /\ (resPc' = "exit" => resPc = "exit")
    BY <1>4 DEF ResSpurious, ResCase, ResHandOver, ResHandOverLate, ResRecycle, EncoderReturn, resultVars, mainVars
  <2>2. QED  BY <2>1
<1>5. CASE PostChange \/ PostSetting \/ CaseStop \/ EncoderStopped \/ PostStop
  BY <1>5 DEF PostChange, PostSetting, CaseStop, EncoderStopped, PostStop, resultVars
<1>6. CASE JoinRequest
  <2>1. /\ mnPc = "joinRequest" /\ mnPc' = "joinResult" /\ resStopped'
        /\ resPc' = resPc /\ resQueue' = Append(resQueue, StopMsg)
    BY <1>6 DEF JoinRequest
  <2>2. ~resStopped /\ resPc # "exit"
    BY <2>1
  <2>3. /\ Len(resQueue') = Len(resQueue) + 1 /\ Len(resQueue) \in Nat
        /\ \A i \in 1 .. Len(resQueue) : resQueue'[i] = resQueue[i]
    BY <1>0, <2>1
  <2>4. \A i \in 1 .. Len(resQueue') : resQueue'[i].stop => i = Len(resQueue')
    BY <2>2, <2>3
  <2>5. QED  BY <2>1, <2>2, <2>4
<1>7. CASE JoinResult \/ DrainTimeout \/ DrainEnd
  BY <1>7 DEF JoinResult, DrainTimeout, DrainEnd, resultVars
<1>8. CASE UNCHANGED vars
  BY <1>8 DEF vars, resultVars, mainVars
<1>9. QED
  BY <1>1, <1>2, <1>3, <1>4, <1>5, <1>6, <1>7, <1>8
     DEF Next, ResultThread, Commands, StopStreams, Terminated

\* The result thread leaves no result behind: when it ends, with or without
\* late results, faults and wake-ups without a signal, its queue is empty.
THEOREM ResultsHandledBeforeStop == Spec => []NoResultBehindStop
<1>1. Init => StopIsLast
  BY DEF Init, StopIsLast
<1>2. TypeInv /\ StopIsLast /\ [Next]_vars => StopIsLast'
  BY StopStep
<1>3. StopIsLast => NoResultBehindStop
  BY DEF StopIsLast, NoResultBehindStop
<1>4. QED  BY <1>1, <1>2, <1>3, TypeInvariance, PTL DEF Spec

----------------------------------------------------------------------------
(* Captures *)

\* The commands ask for captures, they never take one back.
CountsGiven == \A m \in CaptureMsgs : m.count \in Nat

Counters == {s \in Streams : InitRequests[s] # Unlimited}

----------------------------------------------------------------------------
(* The messages on their way to the request thread *)

\* A stop message asks for nothing, the others for a number of captures.
QueueInv ==
  \A i \in 1 .. Len(rqQueue) :
    /\ rqQueue[i].stop => rqQueue[i].mask = {}
    /\ rqQueue[i].count \in Nat

Adds(msg, s) == IF s \in msg.mask THEN msg.count ELSE 0

\* Taken from the request that was sent, not yet from the counter.
InHand(s) == IF rqPc \in {"submitted", "reduce"} /\ s \in planned THEN 1 ELSE 0

\* The account of stream s, message by message: it opens with what has been
\* requested and what the counter still holds and closes with what was asked for.
Ledger(s, L) ==
  /\ L \in [0 .. Len(rqQueue) -> Int]
  /\ L[0] = request_number[s] + issued[s] - InHand(s)
  /\ \A i \in 1 .. Len(rqQueue) : L[i] = L[i - 1] + Adds(rqQueue[i], s)
  /\ L[Len(rqQueue)] = asked[s]

\* A counter never falls below zero, and a planned stream has something left.
CounterInv(s) ==
  /\ request_number[s] >= 0
  /\ s \in planned => request_number[s] > 0
  /\ \E L : Ledger(s, L)

CountInv == QueueInv /\ \A s \in Counters : CounterInv(s)

\* The elements of a queue after its first message is taken.
LEMMA TailElements ==
  ASSUME NEW S, NEW q \in Seq(S), q # <<>>
  PROVE  /\ Len(q) \in Nat \ {0} /\ Len(Tail(q)) = Len(q) - 1
         /\ Head(q) = q[1]
         /\ \A i \in 1 .. Len(Tail(q)) : Tail(q)[i] = q[i + 1]
OBVIOUS

\* The elements of a queue after a message is posted.
LEMMA AppendElements ==
  ASSUME NEW S, NEW q \in Seq(S), NEW e \in S
  PROVE  /\ Len(q) \in Nat /\ Len(Append(q, e)) = Len(q) + 1
         /\ Append(q, e)[Len(q) + 1] = e
         /\ \A i \in 1 .. Len(q) : Append(q, e)[i] = q[i]
OBVIOUS

\* A step that leaves the messages alone, and the sum with which an account opens.
LEMMA LedgerKept ==
  ASSUME NEW s \in Streams, \E L : Ledger(s, L),
         UNCHANGED <<rqQueue, asked>>,
         request_number'[s] + issued'[s] - InHand(s)'
           = request_number[s] + issued[s] - InHand(s)
  PROVE  (\E L : Ledger(s, L))'
BY DEF Ledger, Adds

\* The first message is taken and its number added to the counter.
LEMMA LedgerTake ==
  ASSUME TypeOK, NEW s \in Streams, \E L : Ledger(s, L),
         rqQueue # <<>>, rqQueue' = Tail(rqQueue),
         UNCHANGED <<asked, issued>>, InHand(s)' = InHand(s),
         request_number'[s] = request_number[s] + Adds(rqQueue[1], s)
  PROVE  (\E L : Ledger(s, L))'
<1>1. PICK L : Ledger(s, L)
  OBVIOUS
<1>2. PICK n \in Nat : Len(rqQueue) = n + 1
  <2>1. Len(rqQueue) \in Nat \ {0}  BY TailElements DEF TypeOK
  <2>2. Len(rqQueue) - 1 \in Nat /\ Len(rqQueue) = (Len(rqQueue) - 1) + 1  BY <2>1
  <2>3. QED  BY <2>2
<1>3. /\ Len(rqQueue') = n
      /\ \A i \in 1 .. n : rqQueue'[i] = rqQueue[i + 1]
  BY <1>2, TailElements DEF TypeOK
<1>4. /\ L \in [0 .. n + 1 -> Int]
      /\ L[0] = request_number[s] + issued[s] - InHand(s)
      /\ \A i \in 1 .. n + 1 : L[i] = L[i - 1] + Adds(rqQueue[i], s)
      /\ L[n + 1] = asked[s]
  BY <1>1, <1>2 DEF Ledger
<1> DEFINE M == [i \in 0 .. n |-> L[i + 1]]
<1>5. M \in [0 .. n -> Int] /\ M[n] = asked[s] /\ M[0] = L[1]
  BY <1>4
<1>6. L[1] = L[0] + Adds(rqQueue[1], s)
  BY <1>4
<1>7. /\ request_number[s] \in Int /\ issued[s] \in Nat
      /\ InHand(s) \in Int /\ Adds(rqQueue[1], s) \in Int
  <2>1. rqQueue[1] \in RequestMsg  BY <1>2 DEF TypeOK
  <2>2. QED  BY <2>1 DEF TypeOK, InHand, Adds, RequestMsg
<1>8. M[0] = request_number'[s] + issued'[s] - InHand(s)'
  BY <1>4, <1>5, <1>6, <1>7
<1>9. \A i \in 1 .. n : M[i] = M[i - 1] + Adds(rqQueue'[i], s)
  <2> TAKE i \in 1 .. n
  <2>1. M[i] = L[i + 1] /\ M[i - 1] = L[i] /\ i + 1 \in 1 .. n + 1 /\ (i + 1) - 1 = i
    OBVIOUS
  <2>2. L[i + 1] = L[(i + 1) - 1] + Adds(rqQueue[i + 1], s)
    BY <1>4, <2>1
  <2>3. QED  BY <1>3, <2>1, <2>2
<1>10. Ledger(s, M)'
  BY <1>3, <1>5, <1>8, <1>9 DEF Ledger, Adds
<1>11. QED  BY <1>10

\* A message is posted, and asked for.
LEMMA LedgerPost ==
  ASSUME TypeOK, NEW s \in Streams, \E L : Ledger(s, L),
         NEW msg \in RequestMsg, rqQueue' = Append(rqQueue, msg),
         UNCHANGED <<request_number, issued>>, InHand(s)' = InHand(s),
         asked'[s] = asked[s] + Adds(msg, s)
  PROVE  (\E L : Ledger(s, L))'
<1>1. PICK L : Ledger(s, L)
  OBVIOUS
<1>2. PICK n \in Nat : Len(rqQueue) = n
  BY AppendElements DEF TypeOK
<1>3. /\ Len(rqQueue') = n + 1 /\ rqQueue'[n + 1] = msg
      /\ \A i \in 1 .. n : rqQueue'[i] = rqQueue[i]
  BY <1>2, AppendElements DEF TypeOK
<1>4. /\ L \in [0 .. n -> Int]
      /\ L[0] = request_number[s] + issued[s] - InHand(s)
      /\ \A i \in 1 .. n : L[i] = L[i - 1] + Adds(rqQueue[i], s)
      /\ L[n] = asked[s]
  BY <1>1, <1>2 DEF Ledger
<1>5. Adds(msg, s) \in Int
  BY DEF Adds, RequestMsg
<1> DEFINE M == [i \in 0 .. n + 1 |-> IF i <= n THEN L[i] ELSE L[n] + Adds(msg, s)]
<1>6. M \in [0 .. n + 1 -> Int]
  BY <1>4, <1>5
<1>7. /\ \A i \in 0 .. n : M[i] = L[i]
      /\ M[n + 1] = L[n] + Adds(msg, s)
  OBVIOUS
<1> HIDE DEF M
<1>8. \A i \in 1 .. n + 1 : M[i] = M[i - 1] + Adds(rqQueue'[i], s)
  <2> TAKE i \in 1 .. n + 1
  <2>0. i \in 1 .. n \/ i = n + 1
    OBVIOUS
  <2>1. CASE i \in 1 .. n
    <3>1. M[i] = L[i] /\ M[i - 1] = L[i - 1]  BY <1>7, <2>1
    <3>2. QED  BY <1>3, <1>4, <2>1, <3>1
  <2>2. CASE i = n + 1
    <3>1. M[i - 1] = L[n]  BY <1>7, <2>2
    <3>2. QED  BY <1>3, <1>7, <2>2, <3>1
  <2>3. QED  BY <2>0, <2>1, <2>2, Zenon
<1>9. M[0] = request_number'[s] + issued'[s] - InHand(s)'
  BY <1>4, <1>7
<1>10. Ledger(s, M)'
  BY <1>3, <1>4, <1>6, <1>7, <1>8, <1>9 DEF Ledger, Adds
<1>11. QED  BY <1>10

LEMMA CounterType ==
  ASSUME TypeOK, NEW s \in Counters
  PROVE  /\ s \in Streams /\ InitRequests[s] \in Nat /\ -1 \notin Nat
         /\ request_number[s] \in Int /\ issued[s] \in Nat /\ asked[s] \in Int
         /\ InHand(s) \in {0, 1}
BY StreamAssumption DEF Counters, TypeOK, Unlimited, InHand

\* A step that concerns neither the counters nor the messages.
LEMMA CountKept ==
  ASSUME TypeOK, CountInv,
         UNCHANGED <<rqQueue, request_number, planned, asked, issued>>,
         rqPc' \in {"submitted", "reduce"} <=> rqPc \in {"submitted", "reduce"}
  PROVE  CountInv'
<1>1. QueueInv'
  BY DEF CountInv, QueueInv
<1>2. ASSUME NEW s \in Counters PROVE CounterInv(s)'
  <2>1. CounterInv(s) /\ s \in Streams /\ InHand(s)' = InHand(s)
    BY DEF CountInv, Counters, InHand
  <2>2. (\E L : Ledger(s, L))'
    BY <2>1, LedgerKept DEF CounterInv
  <2>3. QED  BY <2>1, <2>2 DEF CounterInv
<1>3. QED  BY <1>1, <1>2 DEF CountInv, Counters

LEMMA TakeCountStep ==
  ASSUME TypeOK, CountInv, TakeStop \/ TakeChange
  PROVE  CountInv'
<1>1. /\ rqPc = "loop" /\ rqPc' \in {"loop", "exit"}
      /\ rqQueue # <<>> /\ rqQueue' = Tail(rqQueue)
      /\ UNCHANGED <<planned, asked, issued>>
      /\ \/ Head(rqQueue).stop /\ UNCHANGED request_number
         \/ request_number' = ChangedNumber(request_number, Head(rqQueue))
  BY DEF TakeStop, TakeChange, OnlyRequest, historyVars
<1>2. /\ Len(rqQueue) \in Nat \ {0} /\ Len(rqQueue') = Len(rqQueue) - 1
      /\ Head(rqQueue) = rqQueue[1]
      /\ \A i \in 1 .. Len(rqQueue') : rqQueue'[i] = rqQueue[i + 1]
  BY <1>1, TailElements DEF TypeOK
<1>3. /\ rqQueue[1].stop => rqQueue[1].mask = {}
      /\ rqQueue[1].count \in Nat
  BY <1>2 DEF CountInv, QueueInv
<1>4. QueueInv'
  BY <1>2 DEF CountInv, QueueInv
<1>5. ASSUME NEW s \in Counters PROVE CounterInv(s)'
  <2>1. CounterInv(s) /\ s \in Streams /\ request_number[s] \in Nat
    BY CounterType DEF CountInv, CounterInv
  <2>2. InHand(s)' = InHand(s)
    BY <1>1 DEF InHand
  <2>3. request_number'[s] = request_number[s] + Adds(rqQueue[1], s)
    BY <1>1, <1>2, <1>3, <2>1 DEF ChangedNumber, Adds, Unlimited
  <2>4. Adds(rqQueue[1], s) \in Nat
    BY <1>3 DEF Adds
  <2>5. (\E L : Ledger(s, L))'
    BY <1>1, <2>1, <2>2, <2>3, LedgerTake DEF CounterInv
  <2>6. QED  BY <1>1, <2>1, <2>3, <2>4, <2>5 DEF CounterInv
<1>6. QED  BY <1>4, <1>5 DEF CountInv, Counters

LEMMA PostCountStep ==
  ASSUME CountsGiven, TypeOK, CountInv, PostChange \/ PostStop
  PROVE  CountInv'
<1>1. UNCHANGED <<rqPc, request_number, planned, issued>>
  BY DEF PostChange, PostStop, historyVars
<1>2. PICK msg \in RequestMsg :
        /\ rqQueue' = Append(rqQueue, msg)
        /\ msg.count \in Nat /\ (msg.stop => msg.mask = {})
        /\ \A s \in Streams : asked'[s] = asked[s] + Adds(msg, s)
  <2>1. CASE PostChange
    <3>1. PICK m \in CaptureMsgs :
            /\ rqQueue' = Append(rqQueue, [mask |-> m.mask, count |-> m.count,
                                           stop |-> FALSE])
            /\ asked' = [s \in Streams |-> IF s \in m.mask THEN asked[s] + m.count
                                                          ELSE asked[s]]
      BY <2>1 DEF PostChange
    <3> DEFINE msg == [mask |-> m.mask, count |-> m.count, stop |-> FALSE]
    <3>2. m.mask \subseteq Streams /\ m.count \in Nat
      BY CommandAssumption DEF CountsGiven
    <3>3. msg \in RequestMsg
      BY <3>2 DEF RequestMsg
    <3>4. \A s \in Streams : asked'[s] = asked[s] + Adds(msg, s)
      BY <3>1 DEF TypeOK, Adds
    <3>5. QED  BY <3>1, <3>2, <3>3, <3>4
  <2>2. CASE PostStop
    <3>1. rqQueue' = Append(rqQueue, StopRequest) /\ asked' = asked
      BY <2>2 DEF PostStop, historyVars
    <3>2. StopRequest \in RequestMsg /\ StopRequest.count = 0 /\ StopRequest.mask = {}
      BY DEF StopRequest, RequestMsg
    <3>3. \A s \in Streams : asked'[s] = asked[s] + Adds(StopRequest, s)
      BY <3>1, <3>2 DEF Adds, TypeOK
    <3>4. QED  BY <3>1, <3>2, <3>3
  <2>3. QED  BY <2>1, <2>2
<1>3. QueueInv'
  <2>1. /\ Len(rqQueue) \in Nat /\ Len(rqQueue') = Len(rqQueue) + 1
        /\ rqQueue'[Len(rqQueue) + 1] = msg
        /\ \A i \in 1 .. Len(rqQueue) : rqQueue'[i] = rqQueue[i]
    BY <1>2, AppendElements DEF TypeOK
  <2>2. QED  BY <1>2, <2>1 DEF CountInv, QueueInv
<1>4. ASSUME NEW s \in Counters PROVE CounterInv(s)'
  <2>1. CounterInv(s) /\ s \in Streams /\ InHand(s)' = InHand(s)
    BY <1>1 DEF CountInv, Counters, InHand
  <2>2. (\E L : Ledger(s, L))'
    BY <1>1, <1>2, <2>1, LedgerPost DEF CounterInv
  <2>3. QED  BY <1>1, <2>1, <2>2 DEF CounterInv
<1>5. QED  BY <1>3, <1>4 DEF CountInv, Counters

\* The steps that plan a request, send it and take it from the counters.
LEMMA SendCountStep ==
  ASSUME TypeOK, CountInv, PlanRequest \/ SubmitOk \/ Reduce
  PROVE  CountInv'
<1>1. UNCHANGED <<rqQueue, asked>>
  BY DEF PlanRequest, SubmitOk, Reduce, OnlyRequest, historyVars
<1>2. QueueInv'
  BY <1>1 DEF CountInv, QueueInv
<1>3. ASSUME NEW s \in Counters PROVE CounterInv(s)'
  <2>1. /\ CounterInv(s) /\ s \in Streams
        /\ request_number[s] \in Nat /\ issued[s] \in Nat
        /\ InitRequests[s] # Unlimited
    BY CounterType DEF CountInv, CounterInv, Counters
  <2>2. CASE PlanRequest
    <3>1. /\ rqPc = "loop" /\ rqPc' = "gate" /\ planned' = Plan
          /\ UNCHANGED <<request_number, issued>>
      BY <2>2 DEF PlanRequest, OnlyRequest, historyVars
    <3>2. s \in planned' => request_number[s] > 0
      BY <2>1, <3>1 DEF Plan
    <3>3. QED  BY <1>1, <2>1, <3>1, <3>2, LedgerKept DEF CounterInv, InHand
  <2>3. CASE SubmitOk
    <3>1. /\ rqPc = "submit" /\ rqPc' = "submitted"
          /\ UNCHANGED <<request_number, planned>>
          /\ issued'[s] = IF s \in planned THEN issued[s] + 1 ELSE issued[s]
      BY <2>1, <2>3 DEF SubmitOk
    <3>2. InHand(s) = 0 /\ InHand(s)' = IF s \in planned THEN 1 ELSE 0
      BY <3>1 DEF InHand
    <3>3. request_number'[s] + issued'[s] - InHand(s)'
            = request_number[s] + issued[s] - InHand(s)
      BY <2>1, <3>1, <3>2
    <3>4. QED  BY <1>1, <2>1, <3>1, <3>3, LedgerKept DEF CounterInv
  <2>4. CASE Reduce
    <3>1. /\ rqPc = "reduce" /\ rqPc' = "loop" /\ planned' = {}
          /\ request_number' = Reduced(request_number, planned)
          /\ UNCHANGED issued
      BY <2>4 DEF Reduce, OnlyRequest, historyVars
    <3>2. InHand(s)' = 0 /\ InHand(s) = IF s \in planned THEN 1 ELSE 0
      BY <3>1 DEF InHand
    <3>3. s \in planned => request_number[s] > 0
      BY <2>1 DEF CounterInv
    <3>4. request_number'[s] = IF s \in planned THEN request_number[s] - 1
                                                ELSE request_number[s]
      BY <2>1, <3>1, <3>3 DEF Reduced
    <3>5. request_number'[s] + issued'[s] - InHand(s)'
            = request_number[s] + issued[s] - InHand(s)
      BY <2>1, <3>1, <3>2, <3>4
    <3>6. request_number'[s] >= 0
      BY <2>1, <3>3, <3>4
    <3>7. QED  BY <1>1, <2>1, <3>1, <3>5, <3>6, LedgerKept DEF CounterInv
  <2>5. QED  BY <2>2, <2>3, <2>4
<1>4. QED  BY <1>2, <1>3 DEF CountInv, Counters

LEMMA CountInvariance == CountsGiven => (Spec => []CountInv)
<1> SUFFICES ASSUME CountsGiven PROVE Spec => []CountInv  OBVIOUS
<1>1. ASSUME Init PROVE CountInv
  <2>1. QueueInv  BY <1>1 DEF Init, QueueInv
  <2>2. ASSUME NEW s \in Counters PROVE CounterInv(s)
    <3>1. s \in Streams /\ InitRequests[s] \in Nat
      BY StreamAssumption DEF Counters
    <3>2. Ledger(s, [i \in 0 .. 0 |-> InitRequests[s]])
      BY <1>1, <3>1 DEF Init, Ledger, InHand
    <3>3. QED  BY <1>1, <3>1, <3>2 DEF Init, CounterInv
  <2>3. QED  BY <2>1, <2>2 DEF CountInv
<1>2. ASSUME TypeOK, CountInv, [Next]_vars PROVE CountInv'
  <2>1. CASE TakeStop \/ TakeChange  BY <1>2, <2>1, TakeCountStep
  <2>2. CASE PostChange \/ PostStop  BY <1>2, <2>2, PostCountStep
  <2>3. CASE PlanRequest \/ SubmitOk \/ Reduce  BY <1>2, <2>3, SendCountStep
  <2>4. CASE Idle \/ IdleWake \/ Gate \/ GateTimeout \/ GateSpurious \/ GetBuffer
             \/ GetBufferSpurious \/ Arm \/ SubmitRejected \/ Unlock
    BY <1>2, <2>4, CountKept DEF Idle, IdleWake, Gate, GateTimeout, GateSpurious,
       GetBuffer, GetBufferSpurious, Arm, SubmitRejected, Unlock, OnlyPc, OnlyRequest,
       historyVars
  <2>5. CASE Hal
    BY <1>2, <2>5, CountKept DEF Hal, HalResult, Push, PushAfterFree, Account,
       Signalled, requestVars, historyVars
  <2>6. CASE ResultThread \/ EncoderReturn
    BY <1>2, <2>6, CountKept DEF ResultThread, ResTake, ResSpurious, ResCase,
       ResHandOver, ResHandOverLate, ResRecycle, EncoderReturn, requestVars, historyVars
  <2>7. CASE PostSetting \/ CaseStop \/ EncoderStopped \/ JoinRequest \/ JoinResult
             \/ DrainTimeout \/ DrainEnd
    BY <1>2, <2>7, CountKept DEF PostSetting, CaseStop, EncoderStopped, JoinRequest, JoinResult,
       DrainTimeout, DrainEnd, requestVars, historyVars
  <2>8. CASE UNCHANGED vars
    BY <1>2, <2>8, CountKept DEF vars, requestVars, historyVars
  <2>9. QED
    BY <1>2, <2>1, <2>2, <2>3, <2>4, <2>5, <2>6, <2>7, <2>8
       DEF Next, RequestThread, Commands, StopStreams, Terminated
<1>3. QED  BY <1>1, <1>2, TypeCorrect, PTL DEF Spec

\* No capture is lost and none is made twice: for every counted stream what was
\* asked for is what has been requested plus what the counter still holds,
\* whatever messages arrive while a request is under way.
THEOREM CapturesAccounted == CountsGiven => (Spec => []CaptureAccounting)
<1> SUFFICES ASSUME CountsGiven PROVE Spec => []CaptureAccounting  OBVIOUS
<1>1. ASSUME TypeOK, CountInv PROVE CaptureAccounting
  <2> SUFFICES ASSUME rqQueue = <<>>, NEW s \in Counters
               PROVE  asked[s] + InHand(s) = request_number[s] + issued[s]
    BY DEF CaptureAccounting, Counters, InHand
  <2>1. PICK L : Ledger(s, L)
    BY <1>1 DEF CountInv, CounterInv
  <2>2. L[0] = asked[s] /\ L[0] = request_number[s] + issued[s] - InHand(s)
    BY <2>1 DEF Ledger
  <2>3. QED  BY <1>1, <2>2, CounterType
<1>2. QED  BY <1>1, CountInvariance, TypeCorrect, PTL

----------------------------------------------------------------------------
(* Requests without outputs *)

\* A stream every request has a buffer of, whatever the commands ask for.
Constant(s) ==
  /\ InitRequests[s] = Unlimited /\ SkipPattern[s] = 1
  /\ \A m \in CaptureMsgs : s \notin m.mask

\* No stream is skipped, or there is one that is in every request.
PlanNeverEmpty ==
  (\A s \in Streams : SkipPattern[s] = 1) \/ (\E s \in Streams : Constant(s))

OutputInv ==
  /\ \A s \in Streams : Constant(s) =>
       /\ request_number[s] = Unlimited
       /\ \A i \in 1 .. Len(rqQueue) : s \notin rqQueue[i].mask
  /\ rqPc \in {"gate", "gateWait", "collect", "submit"} => planned # {}
  /\ rqPc = "submit" => held # {}

\* A step that concerns neither the counters nor the request being put together.
LEMMA OutputKept ==
  ASSUME OutputInv, UNCHANGED <<rqQueue, request_number, planned, held>>,
         \/ rqPc' = rqPc
         \/ rqPc' \notin {"gate", "gateWait", "collect", "submit"}
         \/ rqPc \in {"gate", "gateWait"} /\ rqPc' \in {"gateWait", "collect"}
  PROVE  OutputInv'
BY DEF OutputInv, Constant

LEMMA OutputStep ==
  ASSUME PlanNeverEmpty, TypeOK, OutputInv, [Next]_vars
  PROVE  OutputInv'
<1>1. CASE TakeStop \/ TakeChange
  <2>1. /\ rqQueue # <<>> /\ rqQueue' = Tail(rqQueue)
        /\ rqPc' \in {"loop", "exit"}
        /\ \/ UNCHANGED request_number
           \/ request_number' = ChangedNumber(request_number, Head(rqQueue))
    BY <1>1 DEF TakeStop, TakeChange
  <2>2. /\ Len(rqQueue) \in Nat \ {0} /\ Len(rqQueue') = Len(rqQueue) - 1
        /\ Head(rqQueue) = rqQueue[1]
        /\ \A i \in 1 .. Len(rqQueue') : rqQueue'[i] = rqQueue[i + 1]
    BY <2>1, TailElements DEF TypeOK
  <2>3. ASSUME NEW s \in Streams, Constant(s)
        PROVE  /\ request_number'[s] = Unlimited
               /\ \A i \in 1 .. Len(rqQueue') : s \notin rqQueue'[i].mask
    <3>1. \A i \in 1 .. Len(rqQueue) : s \notin rqQueue[i].mask
      BY <2>3 DEF OutputInv
    <3>2. request_number'[s] = request_number[s]
      BY <2>1, <2>2, <3>1 DEF ChangedNumber
    <3>3. QED  BY <2>2, <2>3, <3>1, <3>2 DEF OutputInv
  <2>4. QED  BY <2>1, <2>3 DEF OutputInv, Constant
<1>2. CASE PostChange \/ PostStop
  <2>1. PICK msg \in RequestMsg :
          /\ rqQueue' = Append(rqQueue, msg)
          /\ \A s \in Streams : Constant(s) => s \notin msg.mask
    <3>1. CASE PostChange
      <4>1. PICK m \in CaptureMsgs :
              rqQueue' = Append(rqQueue, [mask |-> m.mask, count |-> m.count,
                                          stop |-> FALSE])
        BY <3>1 DEF PostChange
      <4> DEFINE msg == [mask |-> m.mask, count |-> m.count, stop |-> FALSE]
      <4>2. msg \in RequestMsg /\ msg.mask = m.mask
        BY CommandAssumption DEF RequestMsg
      <4>3. rqQueue' = Append(rqQueue, msg)
        BY <4>1
      <4> HIDE DEF msg
      <4>4. QED  BY <4>2, <4>3 DEF Constant
    <3>2. CASE PostStop
      <4>1. rqQueue' = Append(rqQueue, StopRequest) /\ StopRequest.mask = {}
        BY <3>2 DEF PostStop, StopRequest
      <4>2. StopRequest \in RequestMsg
        BY DEF StopRequest, RequestMsg
      <4>3. QED  BY <4>1, <4>2
    <3>3. QED  BY <1>2, <3>1, <3>2
  <2>2. /\ Len(rqQueue) \in Nat /\ Len(rqQueue') = Len(rqQueue) + 1
        /\ rqQueue'[Len(rqQueue) + 1] = msg
        /\ \A i \in 1 .. Len(rqQueue) : rqQueue'[i] = rqQueue[i]
    BY <2>1, AppendElements DEF TypeOK
  <2>3. UNCHANGED <<rqPc, request_number, planned, held>>
    BY <1>2 DEF PostChange, PostStop
  <2>4. ASSUME NEW s \in Streams, Constant(s), NEW i \in 1 .. Len(rqQueue')
        PROVE  s \notin rqQueue'[i].mask
    BY <2>1, <2>2, <2>4 DEF OutputInv
  <2>5. QED  BY <2>3, <2>4 DEF OutputInv, Constant
<1>3. CASE PlanRequest
  <2>1. /\ planned' = Plan /\ rqPc' = "gate" /\ HasRequest
        /\ UNCHANGED <<rqQueue, request_number>>
    BY <1>3 DEF PlanRequest
  <2>2. frame_number % 1 = 0
    BY DEF TypeOK
  <2>3. Plan # {}
    <3>1. CASE \A s \in Streams : SkipPattern[s] = 1
      BY <2>1, <2>2, <3>1 DEF HasRequest, Plan
    <3>2. CASE \E s \in Streams : Constant(s)
      BY <2>2, <3>2 DEF OutputInv, Constant, Plan, Unlimited
    <3>3. QED  BY <3>1, <3>2 DEF PlanNeverEmpty
  <2>4. QED  BY <2>1, <2>3 DEF OutputInv, Constant
<1>4. CASE Arm
  <2>1. /\ rqPc = "collect" /\ Missing = {}
        /\ UNCHANGED <<rqQueue, request_number, planned, held>>
    BY <1>4 DEF Arm
  <2>2. held # {}
    BY <2>1 DEF Missing, OutputInv
  <2>3. QED  BY <2>1, <2>2 DEF OutputInv, Constant
<1>5. CASE GetBuffer
  BY <1>5 DEF GetBuffer, OutputInv, Constant
<1>6. CASE SubmitOk \/ SubmitRejected
  BY <1>6 DEF SubmitOk, SubmitRejected, OutputInv, Constant
<1>7. CASE Reduce
  <2>1. /\ request_number' = Reduced(request_number, planned) /\ rqPc' = "loop"
        /\ UNCHANGED rqQueue
    BY <1>7 DEF Reduce
  <2>2. \A s \in Streams : request_number[s] = Unlimited => request_number'[s] = Unlimited
    BY <2>1 DEF Reduced, Unlimited
  <2>3. QED  BY <2>1, <2>2 DEF OutputInv, Constant
<1>8. CASE Idle \/ IdleWake \/ Gate \/ GateTimeout \/ GateSpurious
           \/ GetBufferSpurious \/ Unlock
  BY <1>8, OutputKept DEF Idle, IdleWake, Gate, GateTimeout, GateSpurious,
     GetBufferSpurious, Unlock, OnlyPc
<1>9. CASE Hal
  BY <1>9, OutputKept DEF Hal, HalResult, Push, PushAfterFree, Account, Signalled,
     requestVars
<1>10. CASE ResultThread \/ EncoderReturn
  BY <1>10, OutputKept DEF ResultThread, ResTake, ResSpurious, ResCase, ResHandOver,
     ResHandOverLate, ResRecycle, EncoderReturn, requestVars
<1>11. CASE PostSetting \/ CaseStop \/ EncoderStopped \/ JoinRequest \/ JoinResult
            \/ DrainTimeout \/ DrainEnd \/ UNCHANGED vars
  BY <1>11, OutputKept DEF PostSetting, CaseStop, EncoderStopped, JoinRequest, JoinResult,
     DrainTimeout, DrainEnd, vars, requestVars
<1>12. QED
  BY <1>1, <1>2, <1>3, <1>4, <1>5, <1>6, <1>7, <1>8, <1>9, <1>10, <1>11
     DEF Next, RequestThread, Commands, StopStreams, Terminated

\* Every request has an output buffer if no stream is skipped or some stream is
\* never skipped, never counted and never asked for: the skip pattern and the
\* counters cannot leave out all the streams of a frame together.
THEOREM RequestsHaveOutputs == PlanNeverEmpty => (Spec => []NoEmptyRequest)
<1> SUFFICES ASSUME PlanNeverEmpty PROVE Spec => []NoEmptyRequest  OBVIOUS
<1>1. Init => OutputInv
  BY DEF Init, OutputInv, Constant
<1>2. TypeOK /\ OutputInv /\ [Next]_vars => OutputInv'
  BY OutputStep
<1>3. OutputInv => NoEmptyRequest
  BY DEF OutputInv, NoEmptyRequest
<1>4. QED  BY <1>1, <1>2, <1>3, TypeCorrect, PTL DEF Spec
============================================================================
