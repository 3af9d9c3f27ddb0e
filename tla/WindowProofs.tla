---------------------------- MODULE WindowProofs ----------------------------
(***************************************************************************)
(* CaptureDevice implements RequestWindow: behind the threads, queues and  *)
(* pools there is a window of at most PendingLimit numbered requests that  *)
(* is empty when the streams are closed.                                   *)
(***************************************************************************)
EXTENDS CaptureDeviceProofs

\* Only numbers that have been given out are in flight.
NumbersGiven ==
  /\ \A f \in pending_vector :
       f < frame_number \/ (f = frame_number /\ rqPc \in {"submit", "submitted"})
  /\ rqPc = "submit" => frame_number \in pending_vector

\* The HAL works only on requests that have been submitted to it.
Sent(f) == f < frame_number \/ (f = frame_number /\ rqPc = "submitted")
HalKnows ==
  /\ \A f \in Frames : halBuffers[f] # {} \/ halMeta[f] > 0 => Sent(f)
  /\ \A t \in HalThreads : callback[t].pc # "none" => Sent(callback[t].frame)

\* stop_streams goes on only when the request thread has ended.
StopAfterExit == mnPc \in {"joinResult", "drain", "freed"} => rqPc = "exit"

WindowInv == NumbersGiven /\ HalKnows /\ StopAfterExit

\* A HAL in time, which never uses up a try of stop_streams, so that the streams
\* are freed only when no request is pending.
HalInTime == ~HalStalls /\ DrainTries > 0
FreedEmpty ==
  /\ tryCount = DrainTries
  /\ mnPc = "freed" => pending_vector = {}

AllInv == TypeInv /\ PendingInv /\ WindowInv /\ FreedEmpty

\* The circumstances in which the pipeline is a window.
InTime == ~Spurious /\ HalInTime

LEMMA FrameType ==
  ASSUME TypeInv
  PROVE  /\ frame_number \in Nat
         /\ pending_vector \subseteq Frames
         /\ Frames \subseteq Nat
         /\ rqPc \in {"gate", "gateWait", "collect", "submit", "submitted"}
              => frame_number \in Frames
BY FramesFinite, BoundAssumption DEF TypeInv, TypeOK, FrameInRange

\* What the steps of the request thread do to the window's state.
LEMMA RequestWindowStep ==
  ASSUME TypeInv, WindowInv, RequestThread
  PROVE  WindowInv'
<1> USE DEF WindowInv
<1>0. UNCHANGED <<callback, mnPc>>
  BY DEF RequestThread, Idle, IdleWake, TakeStop, TakeChange, PlanRequest,
     Gate, GateTimeout, GateSpurious, GetBuffer, GetBufferSpurious, Arm, SubmitOk,
     SubmitRejected, Unlock, Reduce, OnlyPc, OnlyRequest, mainVars, halVars
<1>1. StopAfterExit'
  <2>1. rqPc # "exit"
    BY DEF RequestThread, Idle, IdleWake, TakeStop, TakeChange, PlanRequest,
       Gate, GateTimeout, GateSpurious, GetBuffer, GetBufferSpurious, Arm, SubmitOk,
       SubmitRejected, Unlock, Reduce
  <2>2. QED  BY <1>0, <2>1 DEF StopAfterExit
<1>2. CASE Arm
  <2>1. /\ pending_vector' = pending_vector \cup {frame_number}
        /\ rqPc = "collect" /\ rqPc' = "submit"
        /\ UNCHANGED <<frame_number, halBuffers, halMeta>>
    BY <1>2 DEF Arm, halVars
  <2>2. NumbersGiven'  BY <2>1 DEF NumbersGiven
  <2>3. HalKnows'  BY <1>0, <2>1 DEF HalKnows, Sent
  <2>4. QED  BY <1>1, <2>2, <2>3
<1>3. CASE SubmitOk
  <2>1. /\ rqPc = "submit" /\ rqPc' = "submitted"
        /\ halBuffers' = [halBuffers EXCEPT ![frame_number] = held]
        /\ halMeta' = [halMeta EXCEPT ![frame_number] = PartialResults]
        /\ UNCHANGED <<frame_number, pending_vector>>
    BY <1>3 DEF SubmitOk, pendingVars
  <2>2. NumbersGiven'  BY <2>1 DEF NumbersGiven
  <2>3. ASSUME NEW f \in Frames, halBuffers'[f] # {} \/ halMeta'[f] > 0
        PROVE  Sent(f)'
    <3>1. CASE f = frame_number  BY <2>1, <3>1 DEF Sent
    <3>2. CASE f # frame_number
      <4>1. halBuffers'[f] = halBuffers[f] /\ halMeta'[f] = halMeta[f]
        BY <2>1, <3>2 DEF TypeInv, TypeOK
      <4>2. QED  BY <2>1, <2>3, <4>1 DEF HalKnows, Sent
    <3>3. QED  BY <3>1, <3>2
  <2>4. HalKnows'  BY <1>0, <2>1, <2>3 DEF HalKnows, Sent
  <2>5. QED  BY <1>1, <2>2, <2>4
<1>4. CASE SubmitRejected
  <2>1. /\ rqPc = "submit" /\ rqPc' = "exit"
        /\ pending_vector' = pending_vector \ {frame_number}
        /\ UNCHANGED <<frame_number, halBuffers, halMeta>>
    BY <1>4 DEF SubmitRejected, halVars
  <2>2. NumbersGiven'  BY <2>1 DEF NumbersGiven
  <2>3. HalKnows'  BY <1>0, <2>1 DEF HalKnows, Sent
  <2>4. QED  BY <1>1, <2>2, <2>3
<1>5. CASE Unlock
  <2>1. /\ rqPc = "submitted" /\ rqPc' = "reduce" /\ frame_number' = frame_number + 1
        /\ UNCHANGED <<pending_vector, halBuffers, halMeta>>
    BY <1>5 DEF Unlock, halVars, pendingVars
  <2>2. frame_number \in Nat  BY FrameType
  <2>3. NumbersGiven'
    <3>1. \A f \in pending_vector : f \in Nat  BY FrameType
    <3>2. QED  BY <2>1, <2>2, <3>1 DEF NumbersGiven
  <2>4. HalKnows'
    <3>1. \A t \in HalThreads : callback[t].frame \in Nat
      BY FrameType DEF TypeInv, TypeOK, Callback
    <3>2. Frames \subseteq Nat  BY FrameType
    <3>3. \A n \in Nat : Sent(n) => Sent(n)'
      BY <2>1, <2>2 DEF Sent
    <3>4. QED  BY <1>0, <2>1, <3>1, <3>2, <3>3 DEF HalKnows
  <2>5. QED  BY <1>1, <2>3, <2>4
<1>6. CASE ~(Arm \/ SubmitOk \/ SubmitRejected \/ Unlock)
  <2>1. /\ UNCHANGED <<pending_vector, halBuffers, halMeta, frame_number>>
        /\ rqPc \notin {"submit", "submitted"} /\ rqPc' \notin {"submit", "submitted"}
    BY <1>6 DEF RequestThread, Idle, IdleWake, TakeStop, TakeChange, PlanRequest,
       Gate, GateTimeout, GateSpurious, GetBuffer, GetBufferSpurious, Reduce,
       OnlyPc, OnlyRequest, halVars, pendingVars
  <2>2. QED  BY <1>0, <1>1, <2>1 DEF NumbersGiven, HalKnows, Sent
<1>7. QED  BY <1>2, <1>3, <1>4, <1>5, <1>6

\* What the HAL and its callbacks do to it.
LEMMA HalWindowStep ==
  ASSUME TypeInv, WindowInv, Hal
  PROVE  WindowInv'
<1> USE DEF WindowInv
<1> PICK t \in HalThreads : HalResult(t) \/ Push(t) \/ PushAfterFree(t) \/ Account(t)
  BY DEF Hal
<1>0. UNCHANGED <<frame_number, mnPc>>
  BY DEF HalResult, Push, PushAfterFree, Account, requestVars, mainVars
<1>1. /\ rqPc' # rqPc => rqPc = "gateWait" /\ rqPc' = "collect"
      /\ pending_vector' \subseteq pending_vector
      /\ rqPc = "submit" => Account(t) \/ pending_vector' = pending_vector
  BY DEF HalResult, Push, PushAfterFree, Account, Signalled, requestVars, pendingVars
<1>2. \A f : Sent(f)' <=> Sent(f)
  BY <1>0, <1>1 DEF Sent
<1>3. callback \in [HalThreads -> Callback]  BY DEF TypeInv, TypeOK
<1>4. HalKnows'
  <2>1. CASE HalResult(t)
    <3>1. PICK f \in Frames : \E B \in SUBSET halBuffers[f], m \in BOOLEAN :
            /\ B # {} \/ m
            /\ m => halMeta[f] > 0
            /\ callback' = [callback EXCEPT ![t] =
                 [pc |-> IF B = {} THEN "account" ELSE "push",
                  frame |-> f, bufs |-> B, meta |-> m]]
            /\ halBuffers' = [halBuffers EXCEPT ![f] = @ \ B]
            /\ halMeta' = [halMeta EXCEPT ![f] = @ - (IF m THEN 1 ELSE 0)]
      BY <2>1 DEF HalResult
    <3>2. PICK B \in SUBSET halBuffers[f], m \in BOOLEAN :
            /\ B # {} \/ m
            /\ m => halMeta[f] > 0
            /\ callback' = [callback EXCEPT ![t] =
                 [pc |-> IF B = {} THEN "account" ELSE "push",
                  frame |-> f, bufs |-> B, meta |-> m]]
            /\ halBuffers' = [halBuffers EXCEPT ![f] = @ \ B]
            /\ halMeta' = [halMeta EXCEPT ![f] = @ - (IF m THEN 1 ELSE 0)]
      BY <3>1
    <3>3. Sent(f)
      BY <3>2 DEF HalKnows
    <3>4. \A g \in Frames : halBuffers'[g] # {} \/ halMeta'[g] > 0 => Sent(g)
      <4>1. \A g \in Frames \ {f} : halBuffers'[g] = halBuffers[g] /\ halMeta'[g] = halMeta[g]
        BY <3>2 DEF TypeInv, TypeOK
      <4>2. QED  BY <3>3, <4>1 DEF HalKnows
    <3>5. \A u \in HalThreads : callback'[u].pc # "none" => Sent(callback'[u].frame)
      <4>1. callback'[t].frame = f
        BY <1>3, <3>2
      <4>2. \A u \in HalThreads \ {t} : callback'[u] = callback[u]
        BY <1>3, <3>2
      <4>3. QED  BY <3>3, <4>1, <4>2 DEF HalKnows
    <3>6. QED  BY <1>2, <3>4, <3>5 DEF HalKnows
  <2>2. CASE Push(t) \/ PushAfterFree(t) \/ Account(t)
    <3>1. \A u \in HalThreads : callback'[u].pc # "none" =>
            callback[u].pc # "none" /\ callback'[u].frame = callback[u].frame
      <4>1. \A u \in HalThreads \ {t} : callback'[u] = callback[u]
        BY <1>3, <2>2 DEF Push, PushAfterFree, Account
      <4>2. CASE Push(t) \/ PushAfterFree(t)
        <5>1. callback[t].pc = "push"  BY <4>2 DEF Push, PushAfterFree
        <5>2. callback'[t].frame = callback[t].frame
          BY <1>3, <4>2 DEF Push, PushAfterFree, Callback
        <5>3. QED  BY <4>1, <5>1, <5>2
      <4>3. CASE Account(t)
        <5>1. callback'[t].pc = "none"
          BY <1>3, <4>3 DEF Account, NoCallback
        <5>2. QED  BY <4>1, <5>1
      <4>4. QED  BY <2>2, <4>2, <4>3
    <3>2. UNCHANGED <<halBuffers, halMeta>>
      BY <2>2 DEF Push, PushAfterFree, Account, halVars
    <3>3. QED  BY <1>2, <3>1, <3>2 DEF HalKnows
  <2>3. QED  BY <2>1, <2>2
<1>5. NumbersGiven'
  <2>1. \A f \in pending_vector' :
          f < frame_number' \/ (f = frame_number' /\ rqPc' \in {"submit", "submitted"})
    BY <1>0, <1>1 DEF NumbersGiven
  <2>2. rqPc' = "submit" => frame_number' \in pending_vector'
    <3>1. CASE Account(t)
      <4>1. callback[t].pc = "account" /\ callback[t].frame \in Frames
        BY <1>3, <3>1 DEF Account, Callback
      <4>2. Sent(callback[t].frame)
        BY <4>1 DEF HalKnows
      <4>3. rqPc = "submit" => callback[t].frame # frame_number
        BY <4>1, <4>2, FrameType DEF Sent
      <4>4. \/ pending_vector' = pending_vector
            \/ pending_vector' = pending_vector \ {callback[t].frame}
        BY <3>1 DEF Account, pendingVars
      <4>5. QED  BY <1>0, <1>1, <4>3, <4>4 DEF NumbersGiven
    <3>2. QED  BY <1>0, <1>1, <3>1 DEF NumbersGiven
  <2>3. QED  BY <2>1, <2>2 DEF NumbersGiven
<1>6. StopAfterExit'  BY <1>0, <1>1 DEF StopAfterExit
<1>7. QED  BY <1>4, <1>5, <1>6

\* The remaining threads do not touch requests in flight, except for the end
\* of stop_streams, which only clears the rest of them.
LEMMA OtherWindowStep ==
  ASSUME TypeInv, WindowInv,
         ResultThread \/ EncoderReturn \/ Commands \/ StopStreams
  PROVE  WindowInv'
<1> USE DEF WindowInv
<1>1. UNCHANGED <<rqPc, frame_number, halBuffers, halMeta, callback>>
  BY DEF ResultThread, ResTake, ResSpurious, ResCase, ResHandOver, ResHandOverLate, ResRecycle, EncoderReturn,
     Commands, PostChange, PostSetting, CaseStop, StopStreams,
     EncoderStopped, PostStop, JoinRequest,
     JoinResult, DrainTimeout, DrainEnd, requestVars, halVars, mainVars
<1>2. HalKnows'
  BY <1>1 DEF HalKnows, Sent
<1>3. /\ pending_vector' = pending_vector \/ DrainEnd
      /\ DrainEnd => mnPc = "drain" /\ pending_vector' = {}
      /\ mnPc' = mnPc \/ mnPc' \in {"encoder", "post", "joinRequest"} \/ rqPc = "exit"
         \/ mnPc \in {"joinResult", "drain"}
  BY DEF ResultThread, ResTake, ResSpurious, ResCase, ResHandOver, ResHandOverLate, ResRecycle, EncoderReturn,
     Commands, PostChange, PostSetting, CaseStop, StopStreams,
     EncoderStopped, PostStop, JoinRequest,
     JoinResult, DrainTimeout, DrainEnd, pendingVars, mainVars
<1>4. NumbersGiven' /\ StopAfterExit'
  BY <1>1, <1>3 DEF NumbersGiven, StopAfterExit
<1>5. QED  BY <1>2, <1>4

LEMMA WindowInvStep ==
  ASSUME TypeInv, WindowInv, [Next]_vars
  PROVE  WindowInv'
<1>1. CASE UNCHANGED vars
  BY <1>1 DEF WindowInv, NumbersGiven, HalKnows, Sent, StopAfterExit, vars,
     requestVars, pendingVars, halVars, mainVars
<1>2. QED
  BY <1>1, RequestWindowStep, HalWindowStep, OtherWindowStep
     DEF Next, Terminated

LEMMA WindowInvInit == Init => WindowInv
BY DEF Init, WindowInv, NumbersGiven, HalKnows, StopAfterExit, NoCallback

LEMMA WindowInvariance == Spec => []WindowInv
<1>1. TypeInv /\ WindowInv /\ [Next]_vars => WindowInv'
  BY WindowInvStep
<1>2. QED  BY WindowInvInit, <1>1, TypeInvariance, PTL DEF Spec

LEMMA FreedEmptyStep ==
  ASSUME HalInTime, WindowInv, FreedEmpty, [Next]_vars
  PROVE  FreedEmpty'
<1> USE DEF FreedEmpty
<1>1. CASE Arm
  BY <1>1 DEF Arm, mainVars, WindowInv, StopAfterExit
<1>2. CASE SubmitRejected
  BY <1>2 DEF SubmitRejected, mainVars, WindowInv, StopAfterExit
<1>3. CASE RequestThread /\ ~(Arm \/ SubmitRejected)
  BY <1>3 DEF RequestThread, Idle, IdleWake, TakeStop, TakeChange, PlanRequest,
     Gate, GateTimeout, GateSpurious, GetBuffer, GetBufferSpurious, SubmitOk, Unlock,
     Reduce, OnlyPc, OnlyRequest, mainVars, pendingVars
<1>4. CASE Hal
  BY <1>4 DEF Hal, HalResult, Push, PushAfterFree, Account, pendingVars, mainVars
<1>5. CASE ResultThread \/ EncoderReturn
  BY <1>5 DEF ResultThread, ResTake, ResSpurious, ResCase, ResHandOver,
     ResHandOverLate, ResRecycle, EncoderReturn, pendingVars, mainVars
<1>6. CASE Commands \/ StopStreams \/ UNCHANGED vars
  BY <1>6 DEF Commands, PostChange, PostSetting, CaseStop, StopStreams,
     EncoderStopped, PostStop,
     JoinRequest, JoinResult, DrainTimeout, DrainEnd, Drained, HalInTime, vars,
     pendingVars, mainVars
<1>7. QED
  BY <1>1, <1>2, <1>3, <1>4, <1>5, <1>6 DEF Next, Terminated

LEMMA FreedEmptyInvariance == HalInTime => (Spec => []FreedEmpty)
<1> SUFFICES ASSUME HalInTime PROVE Spec => []FreedEmpty  OBVIOUS
<1>1. Init => FreedEmpty
  BY DEF Init, FreedEmpty
<1>2. WindowInv /\ FreedEmpty /\ [Next]_vars => FreedEmpty'
  BY FreedEmptyStep
<1>3. QED  BY <1>1, <1>2, WindowInvariance, PTL DEF Spec

LEMMA AllInvariance == InTime => (Spec => []AllInv)
<1> SUFFICES ASSUME InTime PROVE Spec => []AllInv  OBVIOUS
<1>1. Spec => []TypeInv /\ []PendingInv /\ []WindowInv /\ []FreedEmpty
  BY TypeInvariance, PendingInvariance, WindowInvariance, FreedEmptyInvariance
     DEF InTime
<1>2. QED  BY <1>1, PTL DEF AllInv

----------------------------------------------------------------------------
(* The refinement *)

LEMMA WindowInit == Init => Window!Init
<1> SUFFICES ASSUME Init PROVE Window!Init  OBVIOUS
<1>1. Retired = {}
  BY FramesFinite DEF Init, Retired
<1>2. QED  BY <1>1 DEF Init, Window!Init

\* A step that leaves the requests, their numbers and the end alone.
LEMMA WindowStutter ==
  ASSUME UNCHANGED <<pending_vector, frame_number>>,
         (rqPc = "submitted") <=> (rqPc' = "submitted"),
         (mnPc = "freed") <=> (mnPc' = "freed")
  PROVE  UNCHANGED Window!windowVars
BY DEF Window!windowVars, Retired

LEMMA WindowStep ==
  ASSUME InTime, AllInv, AllInv', [Next]_vars
  PROVE  [Window!Next]_(Window!windowVars)
<1> USE DEF AllInv, WindowInv
<1>0. FrameBound \in Nat \ {0} /\ Frames = 0 .. (FrameBound - 1)
  BY BoundAssumption DEF Frames
<1>1. CASE Arm
  <2>1. /\ pending_vector' = pending_vector \cup {frame_number}
        /\ rqPc = "collect" /\ rqPc' = "submit"
        /\ UNCHANGED <<frame_number, mnPc>>
    BY <1>1 DEF Arm, mainVars
  <2>2. frame_number \in Frames /\ frame_number \in Nat
    BY <2>1, FrameType
  <2>3. pending_vector \cup Retired = 0 .. (frame_number - 1)
    <3>1. \A f \in pending_vector : f \in Nat /\ f < frame_number
      BY <2>1, FrameType DEF NumbersGiven
    <3>2. Retired = {f \in Frames : f < frame_number /\ f \notin pending_vector}
      BY <2>1 DEF Retired
    <3>3. QED  BY <1>0, <2>2, <3>1, <3>2
  <2>4. Retired' = Retired
    BY <2>1, <2>2 DEF Retired
  <2>5. Cardinality(pending_vector) < PendingLimit
    BY <2>1 DEF PendingInv, RoomForOne
  <2>6. mnPc # "freed"
    BY <2>1 DEF StopAfterExit
  <2>7. Window!Issue
    <3>1. frame_number \in 0 .. (FrameBound - 1)
      BY <1>0, <2>2
    <3>2. \E f \in 0 .. (FrameBound - 1) : /\ pending_vector \cup Retired = 0 .. (f - 1)
                                           /\ pending_vector' = pending_vector \cup {f}
      BY <2>1, <2>3, <3>1
    <3>3. Window!Cardinality(pending_vector) < PendingLimit
      BY <2>5, Zenon DEF Cardinality, Window!Cardinality
    <3>4. QED  BY <2>1, <2>4, <2>6, <3>2, <3>3 DEF Window!Issue
  <2>8. QED  BY <2>7 DEF Window!Next
<1>2. CASE SubmitRejected
  <2>1. /\ pending_vector' = pending_vector \ {frame_number}
        /\ rqPc = "submit" /\ rqPc' = "exit"
        /\ UNCHANGED <<frame_number, mnPc>>
    BY <1>2 DEF SubmitRejected, mainVars
  <2>2. frame_number \in Nat /\ frame_number \in pending_vector
    BY <2>1, FrameType DEF NumbersGiven
  <2>3. Retired' = Retired
    BY <2>1, <2>2, FrameType DEF Retired
  <2>4. \A g \in pending_vector \cup Retired : g <= frame_number
    BY <2>1, <2>2, FrameType DEF NumbersGiven, Retired
  <2>5. Window!Withdraw
    BY <2>1, <2>2, <2>3, <2>4 DEF Window!Withdraw
  <2>6. QED  BY <2>5 DEF Window!Next
<1>3. CASE SubmitOk
  <2>1. /\ rqPc = "submit" /\ rqPc' = "submitted"
        /\ UNCHANGED <<pending_vector, frame_number, mnPc>>
    BY <1>3 DEF SubmitOk, pendingVars, mainVars
  <2>2. Retired' = Retired
    BY <2>1 DEF NumbersGiven, Retired
  <2>3. QED  BY <2>1, <2>2 DEF Window!windowVars
<1>4. CASE Unlock
  <2>1. /\ rqPc = "submitted" /\ rqPc' = "reduce" /\ frame_number' = frame_number + 1
        /\ UNCHANGED <<pending_vector, mnPc>>
    BY <1>4 DEF Unlock, pendingVars, mainVars
  <2>2. frame_number \in Frames /\ Frames \subseteq Nat
    BY <2>1, FrameType
  <2>3. /\ Retired' = {f \in Frames : f < frame_number + 1 /\ f \notin pending_vector}
        /\ Retired = {f \in Frames : f < frame_number /\ f \notin pending_vector}
                      \cup (IF frame_number \notin pending_vector THEN {frame_number}
                                                                  ELSE {})
    BY <2>1 DEF Retired
  <2>4. \A f \in Frames : f < frame_number + 1 <=> f < frame_number \/ f = frame_number
    BY <2>2
  <2>5. Retired' = Retired
    BY <2>2, <2>3, <2>4
  <2>6. QED  BY <2>1, <2>5 DEF Window!windowVars
<1>5. CASE Hal
  <2> PICK t \in HalThreads : HalResult(t) \/ Push(t) \/ PushAfterFree(t) \/ Account(t)
    BY <1>5 DEF Hal
  <2>1. /\ UNCHANGED <<frame_number, mnPc>>
        /\ (rqPc = "submitted") <=> (rqPc' = "submitted")
    BY DEF HalResult, Push, PushAfterFree, Account, Signalled, requestVars, mainVars
  <2>2. CASE pending_vector' = pending_vector
    BY <2>1, <2>2, WindowStutter
  <2>3. CASE pending_vector' # pending_vector
    <3>1. PICK f \in pending_vector :
            /\ f = callback[t].frame /\ callback[t].pc = "account"
            /\ pending_vector' = pending_vector \ {f}
      BY <2>3 DEF HalResult, Push, PushAfterFree, Account, requestVars, pendingVars
    <3>2. Sent(f)  BY <3>1 DEF HalKnows
    <3>3. f \in Frames  BY FrameType
    <3>4. Retired' = Retired \cup {f}
      <4>1. CASE f < frame_number
        BY <2>1, <3>1, <3>3, <4>1, FrameType DEF Retired
      <4>2. CASE f = frame_number /\ rqPc = "submitted"
        BY <2>1, <3>1, <3>3, <4>2, FrameType DEF Retired
      <4>3. QED  BY <3>2, <4>1, <4>2 DEF Sent
    <3>5. Window!Retire
      BY <2>1, <3>1, <3>4 DEF Window!Retire
    <3>6. QED  BY <3>5 DEF Window!Next
  <2>4. QED  BY <2>2, <2>3
<1>6. CASE DrainEnd
  <2>1. /\ pending_vector = {} /\ pending_vector' = {} /\ mnPc' = "freed"
        /\ UNCHANGED <<rqPc, frame_number>>
    BY <1>6 DEF DrainEnd, Drained, InTime, HalInTime, FreedEmpty, requestVars
  <2>2. Retired' = Retired  BY <2>1 DEF Retired
  <2>3. Window!Close  BY <2>1, <2>2 DEF Window!Close
  <2>4. QED  BY <2>3 DEF Window!Next
<1>7. CASE RequestThread /\ ~(Arm \/ SubmitOk \/ SubmitRejected \/ Unlock)
  <2>1. /\ UNCHANGED <<pending_vector, frame_number, mnPc>>
        /\ rqPc # "submitted" /\ rqPc' # "submitted"
    BY <1>7 DEF RequestThread, Idle, IdleWake, TakeStop, TakeChange, PlanRequest,
       Gate, GateTimeout, GateSpurious, GetBuffer, GetBufferSpurious, Reduce,
       OnlyPc, OnlyRequest, mainVars, pendingVars
  <2>2. QED  BY <2>1, WindowStutter
<1>8. CASE ResultThread \/ EncoderReturn \/ Commands \/ (StopStreams /\ ~DrainEnd)
  <2>1. /\ UNCHANGED <<pending_vector, frame_number, rqPc>>
        /\ (mnPc = "freed") <=> (mnPc' = "freed")
    BY <1>8 DEF ResultThread, ResTake, ResSpurious, ResCase, ResHandOver, ResHandOverLate, ResRecycle, EncoderReturn,
       Commands, PostChange, PostSetting, CaseStop, StopStreams,
     EncoderStopped, PostStop, JoinRequest,
       JoinResult, DrainTimeout, requestVars, mainVars, pendingVars
  <2>2. QED  BY <2>1, WindowStutter
<1>9. CASE UNCHANGED vars
  <2>1. UNCHANGED <<pending_vector, frame_number, rqPc, mnPc>>
    BY <1>9 DEF vars, requestVars, mainVars, pendingVars
  <2>2. QED  BY <2>1, WindowStutter
<1>10. QED
  BY <1>1, <1>2, <1>3, <1>4, <1>5, <1>6, <1>7, <1>8, <1>9 DEF Next, Terminated

\* The pipeline is a window: with a HAL in time, no wake-up without a signal
\* and at least one try in stop_streams, requests are numbered in order, at
\* most PendingLimit are in flight, each retires once, and the streams are
\* closed only when none is in flight.
THEOREM ImplementsWindow == InTime => (Spec => WindowSpec)
<1> SUFFICES ASSUME InTime PROVE Spec => WindowSpec  OBVIOUS
<1>1. AllInv /\ AllInv' /\ [Next]_vars => [Window!Next]_(Window!windowVars)
  BY WindowStep
<1>2. Spec => []AllInv
  BY AllInvariance
<1>3. QED  BY WindowInit, <1>1, <1>2, PTL DEF Spec, WindowSpec, Window!Spec
=============================================================================
