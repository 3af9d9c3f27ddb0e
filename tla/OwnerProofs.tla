----------------------------- MODULE OwnerProofs -----------------------------
(***************************************************************************)
(* Where the buffers of CaptureDevice are: each in one place, for any      *)
(* number of streams, buffers, HAL threads and requests, with refused      *)
(* requests, late results, timeouts and wake-ups nobody signalled.  What   *)
(* the HAL still owes: an entry of _pending_vector stays until the last    *)
(* result of its request has been counted and not longer, so that the      *)
(* streams are freed only when nothing is out.  And from both: when they   *)
(* are freed, every buffer is back in its pool.                            *)
(***************************************************************************)
EXTENDS WindowProofs

\* Who returns buffers, in the two modes of _sync_buffer_mode: the device all of
\* them, or the case every stream, itself or by way of the encoder.
PoolsFit ==
  \/ /\ SyncMode = "internal"
     /\ CaseReturns = {} /\ EncoderTakes = {} /\ CaseDrops = {}
  \/ /\ SyncMode = "external"
     /\ CaseReturns \cup EncoderTakes = Streams
     /\ CaseReturns \cap EncoderTakes = {} /\ CaseDrops = {}

----------------------------------------------------------------------------
(* The invariant *)

InResult(b) ==
  /\ b \in resBuffers
  /\ \/ resPc = "post" \/ SyncMode = "internal"
     \/ resPc \in {"handover", "fault"} /\ b \in Outgoing

InCallback(b, t) == callback[t].pc \in {"push", "fault"} /\ b \in callback[t].bufs

\* Buffer b is in place k and nowhere else; i says at which frame, on which
\* thread or where in the queue, if there are several such places.
Sole(b, k, i) ==
  /\ buffers_free[b] = IF k = "free" THEN 1 ELSE 0
  /\ b \in held <=> k = "held"
  /\ b \in encoder <=> k = "encoder"
  /\ b \in dropped <=> k = "dropped"
  /\ InResult(b) <=> k = "result"
  /\ \A f \in Frames : b \in halBuffers[f] <=> k = "hal" /\ i = f
  /\ \A t \in HalThreads : InCallback(b, t) <=> k = "callback" /\ i = t
  /\ \A j \in 1 .. Len(resQueue) : b \in resQueue[j].bufs <=> k = "queue" /\ i = j
  /\ \/ k \in {"free", "held", "encoder", "dropped", "result"}
     \/ k = "hal" /\ i \in Frames
     \/ k = "callback" /\ i \in HalThreads
     \/ k = "queue" /\ i \in 1 .. Len(resQueue)

HasPlace(b) == \E k, i : Sole(b, k, i)

\* Between two results the result thread has no buffers, and neither has a stop
\* message.
ResultsInv ==
  /\ resPc = "loop" => resBuffers = {}
  /\ \A j \in 1 .. Len(resQueue) : resQueue[j].stop => resQueue[j].bufs = {}

OwnerInv == ResultsInv /\ \A b \in Buffers : HasPlace(b)

\* A buffer with a place is counted once.
LEMMA PlacedOnce ==
  ASSUME TypeOK, NEW b \in Buffers, HasPlace(b)
  PROVE  Cardinality(Places(b)) = 1
<1>1. PICK k, i : Sole(b, k, i)
  BY DEF HasPlace
<1> USE <1>1 DEF Sole, Places, InResult, InCallback
<1>2. ASSUME NEW x, Places(b) = {x} PROVE Cardinality(Places(b)) = 1
  BY <1>2, FS_Singleton
<1>3. DOMAIN resQueue = 1 .. Len(resQueue) /\ 1 .. 0 = {} /\ 1 .. 1 = {1}
  BY DEF TypeOK
<1>4. CASE k = "free"
  <2>1. Places(b) = {<<"free", 1>>}
    BY <1>3, <1>4
  <2> QED  BY <1>2, <2>1
<1>5. CASE k \in {"held", "encoder", "dropped", "result"}
  <2>1. Places(b) = {<<k, 0>>}
    BY <1>3, <1>5
  <2> QED  BY <1>2, <2>1
<1>6. CASE k \in {"hal", "callback", "queue"}
  <2>1. Places(b) = {<<k, i>>}
    BY <1>3, <1>6
  <2> QED  BY <1>2, <2>1
<1> QED
  BY <1>4, <1>5, <1>6

----------------------------------------------------------------------------
(* Its preservation: steps that move buffers, thread by thread *)

\* A step that moves no buffer.
LEMMA OwnerKept ==
  ASSUME OwnerInv,
         UNCHANGED <<buffers_free, held, encoder, dropped, resBuffers, resPc,
                     resQueue, halBuffers>>,
         \A b \in Buffers, t \in HalThreads : InCallback(b, t)' <=> InCallback(b, t)
  PROVE  OwnerInv'
<1>1. \A b \in Buffers : \A k, i : Sole(b, k, i) => Sole(b, k, i)'
  BY DEF Sole, InResult, Outgoing
<1>2. ResultsInv'
  BY DEF OwnerInv, ResultsInv
<1> QED
  BY <1>1, <1>2 DEF OwnerInv, HasPlace

LEMMA GetBufferOwner ==
  ASSUME TypeOK, OwnerInv, GetBuffer
  PROVE  OwnerInv'
<1>1. PICK c \in FreeOf(NextStream) : buffers_free' = Taken(c) /\ held' = held \cup {c}
  BY DEF GetBuffer
<1>2. c \in Buffers /\ buffers_free[c] > 0
  BY <1>1 DEF FreeOf
<1>3. UNCHANGED <<encoder, dropped, resBuffers, resPc, resQueue, halBuffers, callback>>
  BY DEF GetBuffer, halVars, resultVars, ownerVars
<1>4. ASSUME NEW b \in Buffers PROVE HasPlace(b)'
  <2>1. PICK k, i : Sole(b, k, i)
    BY DEF OwnerInv, HasPlace
  <2>2. CASE b = c
    <3>1. k = "free"
      BY <1>2, <2>1, <2>2 DEF Sole
    <3>2. buffers_free'[b] = 0 /\ b \in held'
      BY <1>1, <1>2, <2>1, <2>2, <3>1 DEF Taken, TypeOK, Sole
    <3>3. Sole(b, "held", i)'
      BY <1>3, <2>1, <3>1, <3>2 DEF Sole, InResult, InCallback, Outgoing
    <3> QED  BY <3>3 DEF HasPlace
  <2>3. CASE b # c
    <3>1. buffers_free'[b] = buffers_free[b] /\ (b \in held' <=> b \in held)
      BY <1>1, <1>2, <2>3 DEF Taken, TypeOK
    <3>2. Sole(b, k, i)'
      BY <1>3, <2>1, <3>1 DEF Sole, InResult, InCallback, Outgoing
    <3> QED  BY <3>2 DEF HasPlace
  <2> QED  BY <2>2, <2>3
<1>5. ResultsInv'
  BY <1>3 DEF OwnerInv, ResultsInv
<1> QED
  BY <1>4, <1>5 DEF OwnerInv

\* An accepted request's buffers go to the HAL, under a number it had none for.
LEMMA SubmitOkOwner ==
  ASSUME TypeInv, WindowInv, OwnerInv, SubmitOk
  PROVE  OwnerInv'
<1>1. /\ halBuffers' = [halBuffers EXCEPT ![frame_number] = held]
      /\ held' = {} /\ rqPc = "submit"
      /\ UNCHANGED <<frame_number, buffers_free, encoder, dropped, resBuffers, resPc,
                     resQueue, callback>>
  BY DEF SubmitOk, resultVars, ownerVars
<1>2. frame_number \in Frames /\ halBuffers[frame_number] = {}
  BY <1>1, FrameType DEF WindowInv, HalKnows, Sent
<1>3. /\ halBuffers'[frame_number] = held
      /\ \A f \in Frames : f # frame_number => halBuffers'[f] = halBuffers[f]
  BY <1>1, <1>2 DEF TypeInv, TypeOK
<1>4. ASSUME NEW b \in Buffers PROVE HasPlace(b)'
  <2>1. PICK k, i : Sole(b, k, i)
    BY DEF OwnerInv, HasPlace
  <2>2. CASE k = "held"
    <3>1. Sole(b, "hal", frame_number)'
      BY <1>1, <1>2, <1>3, <2>1, <2>2 DEF Sole, InResult, InCallback, Outgoing
    <3> QED  BY <3>1 DEF HasPlace
  <2>3. CASE k # "held"
    <3>1. Sole(b, k, i)'
      BY <1>1, <1>2, <1>3, <2>1, <2>3 DEF Sole, InResult, InCallback, Outgoing
    <3> QED  BY <3>1 DEF HasPlace
  <2> QED  BY <2>2, <2>3
<1>5. ResultsInv'
  BY <1>1 DEF OwnerInv, ResultsInv
<1> QED
  BY <1>4, <1>5 DEF OwnerInv

LEMMA SubmitRejectedOwner ==
  ASSUME TypeInv, OwnerInv, SubmitRejected
  PROVE  OwnerInv'
<1>1. /\ buffers_free' = Returned(held) /\ held' = {}
      /\ UNCHANGED <<encoder, dropped, resBuffers, resPc, resQueue, halBuffers,
                     callback>>
  BY DEF SubmitRejected, Recycled, halVars, resultVars, ownerVars
<1>2. ASSUME NEW b \in Buffers PROVE HasPlace(b)'
  <2>1. PICK k, i : Sole(b, k, i)
    BY DEF OwnerInv, HasPlace
  <2>2. buffers_free'[b] = buffers_free[b] + (IF b \in held THEN 1 ELSE 0)
    BY <1>1 DEF Returned
  <2>3. Sole(b, IF k = "held" THEN "free" ELSE k, i)'
    BY <1>1, <2>1, <2>2 DEF Sole, InResult, InCallback, Outgoing
  <2> QED  BY <2>3 DEF HasPlace
<1>3. ResultsInv'
  BY <1>1 DEF OwnerInv, ResultsInv
<1> QED
  BY <1>2, <1>3 DEF OwnerInv

\* The HAL hands over buffers of one request on thread t.
LEMMA HalResultOwner ==
  ASSUME TypeOK, OwnerInv, NEW t \in HalThreads, HalResult(t)
  PROVE  OwnerInv'
<1>1. PICK f \in Frames : \E B \in SUBSET halBuffers[f], m \in BOOLEAN :
        /\ callback' = [callback EXCEPT ![t] =
             [pc |-> IF B = {} THEN "account" ELSE "push",
              frame |-> f, bufs |-> B, meta |-> m]]
        /\ halBuffers' = [halBuffers EXCEPT ![f] = @ \ B]
  BY DEF HalResult
<1>2. PICK B \in SUBSET halBuffers[f], m \in BOOLEAN :
        /\ callback' = [callback EXCEPT ![t] =
             [pc |-> IF B = {} THEN "account" ELSE "push",
              frame |-> f, bufs |-> B, meta |-> m]]
        /\ halBuffers' = [halBuffers EXCEPT ![f] = @ \ B]
  BY <1>1
<1>3. /\ callback[t].pc = "none"
      /\ UNCHANGED <<buffers_free, held, encoder, dropped, resBuffers, resPc, resQueue>>
  BY DEF HalResult, requestVars, resultVars, ownerVars
<1>4. /\ \A b : InCallback(b, t)' <=> b \in B
      /\ \A b : ~InCallback(b, t)
      /\ \A b, u : u \in HalThreads /\ u # t => (InCallback(b, u)' <=> InCallback(b, u))
  BY <1>2, <1>3 DEF TypeOK, InCallback
<1>5. /\ \A b : b \in halBuffers'[f] <=> b \in halBuffers[f] /\ b \notin B
      /\ \A g \in Frames : g # f => halBuffers'[g] = halBuffers[g]
  BY <1>2 DEF TypeOK
<1>6. ASSUME NEW b \in Buffers PROVE HasPlace(b)'
  <2>1. PICK k, i : Sole(b, k, i)
    BY DEF OwnerInv, HasPlace
  <2>2. CASE b \in B
    <3>1. k = "hal" /\ i = f
      BY <2>1, <2>2 DEF Sole
    <3>2. Sole(b, "callback", t)'
      BY <1>3, <1>4, <1>5, <2>1, <2>2, <3>1 DEF Sole, InResult, Outgoing
    <3> QED  BY <3>2 DEF HasPlace
  <2>3. CASE b \notin B
    <3>1. Sole(b, k, i)'
      BY <1>3, <1>4, <1>5, <2>1, <2>3 DEF Sole, InResult, Outgoing
    <3> QED  BY <3>1 DEF HasPlace
  <2> QED  BY <2>2, <2>3
<1>7. ResultsInv'
  BY <1>3 DEF OwnerInv, ResultsInv
<1> QED
  BY <1>6, <1>7 DEF OwnerInv

\* They go to the end of the queue, or nowhere after the stop.
LEMMA PushOwner ==
  ASSUME TypeOK, OwnerInv, NEW t \in HalThreads, Push(t)
  PROVE  OwnerInv'
<1> DEFINE B == callback[t].bufs
           n == Len(resQueue)
<1>1. /\ callback[t].pc = "push"
      /\ callback' = [callback EXCEPT ![t].pc = "account"]
      /\ UNCHANGED <<buffers_free, held, encoder, resBuffers, resPc, halBuffers>>
  BY DEF Push, requestVars
<1>2. /\ \A b : InCallback(b, t) <=> b \in B
      /\ \A b : ~InCallback(b, t)'
      /\ \A b, u : u \in HalThreads /\ u # t => (InCallback(b, u)' <=> InCallback(b, u))
  BY <1>1 DEF TypeOK, InCallback
<1>3. n \in Nat
  BY DEF TypeOK
<1>4. CASE UNCHANGED dropped /\ resQueue' = Append(resQueue, Result(B))
  <2>1. /\ Len(resQueue') = n + 1
        /\ \A j \in 1 .. n : resQueue'[j] = resQueue[j]
        /\ resQueue'[n + 1].bufs = B /\ ~resQueue'[n + 1].stop
    BY <1>4 DEF TypeOK, Result
  <2>2. ASSUME NEW b \in Buffers PROVE HasPlace(b)'
    <3>1. PICK k, i : Sole(b, k, i)
      BY DEF OwnerInv, HasPlace
    <3> HIDE DEF B, n
    <3>2. CASE b \in B
      <4>1. k = "callback" /\ i = t
        BY <1>2, <3>1, <3>2 DEF Sole
      <4>2. PICK m \in Nat : m = n + 1
        BY <1>3
      <4>3. Sole(b, "queue", m)'
        BY <1>1, <1>2, <1>3, <1>4, <2>1, <3>1, <3>2, <4>1, <4>2
           DEF Sole, InResult, Outgoing, n
      <4> QED  BY <4>3 DEF HasPlace
    <3>3. CASE b \notin B
      <4>1. Sole(b, k, i)'
        BY <1>1, <1>2, <1>3, <1>4, <2>1, <3>1, <3>3 DEF Sole, InResult, Outgoing, n
      <4> QED  BY <4>1 DEF HasPlace
    <3> QED  BY <3>2, <3>3
  <2>3. ResultsInv'
    BY <1>1, <1>3, <2>1 DEF OwnerInv, ResultsInv
  <2> QED
    BY <2>2, <2>3 DEF OwnerInv
<1>5. CASE UNCHANGED resQueue /\ dropped' = dropped \cup B
  <2>1. ASSUME NEW b \in Buffers PROVE HasPlace(b)'
    <3>1. PICK k, i : Sole(b, k, i)
      BY DEF OwnerInv, HasPlace
    <3> HIDE DEF B
    <3>2. CASE b \in B
      <4>1. Sole(b, "dropped", i)'
        BY <1>1, <1>2, <1>5, <3>1, <3>2 DEF Sole, InResult, Outgoing
      <4> QED  BY <4>1 DEF HasPlace
    <3>3. CASE b \notin B
      <4>1. Sole(b, k, i)'
        BY <1>1, <1>2, <1>5, <3>1, <3>3 DEF Sole, InResult, Outgoing
      <4> QED  BY <4>1 DEF HasPlace
    <3> QED  BY <3>2, <3>3
  <2>2. ResultsInv'
    BY <1>1, <1>5 DEF OwnerInv, ResultsInv
  <2> QED
    BY <2>1, <2>2 DEF OwnerInv
<1> QED
  BY <1>4, <1>5 DEF Push

\* The first message's buffers are the result thread's; the others move up.
LEMMA ResTakeOwner ==
  ASSUME TypeOK, OwnerInv, ResTake
  PROVE  OwnerInv'
<1> DEFINE n == Len(resQueue)
<1>1. /\ resPc = "loop" /\ resQueue # <<>> /\ resQueue' = Tail(resQueue)
      /\ resBuffers' = Head(resQueue).bufs
      /\ resPc' = IF Head(resQueue).stop THEN "exit" ELSE "post"
      /\ UNCHANGED <<buffers_free, held, encoder, dropped, halBuffers, callback>>
  BY DEF ResTake, requestVars, halVars, ownerVars
<1>2. /\ n \in Nat \ {0} /\ Len(resQueue') = n - 1
      /\ Head(resQueue) = resQueue[1]
      /\ \A j \in 1 .. n - 1 : resQueue'[j] = resQueue[j + 1]
  BY <1>1 DEF TypeOK
<1>3. resBuffers = {} /\ (Head(resQueue).stop => Head(resQueue).bufs = {})
  BY <1>1, <1>2 DEF OwnerInv, ResultsInv
<1>4. \A b : InResult(b)' <=> b \in resQueue[1].bufs
  BY <1>1, <1>2, <1>3 DEF InResult
<1>5. \A b : ~InResult(b)
  BY <1>3 DEF InResult
<1>6. ASSUME NEW b \in Buffers PROVE HasPlace(b)'
  <2>1. PICK k, i : Sole(b, k, i)
    BY DEF OwnerInv, HasPlace
  <2>2. CASE k # "queue"
    <3>1. \A j \in 1 .. n : b \notin resQueue[j].bufs
      BY <2>1, <2>2 DEF Sole
    <3>2. Sole(b, k, i)'
      BY <1>1, <1>2, <1>4, <1>5, <2>1, <2>2, <3>1 DEF Sole, InCallback
    <3> QED  BY <3>2 DEF HasPlace
  <2>3. CASE k = "queue" /\ i = 1
    <3>1. \A j \in 1 .. n : b \in resQueue[j].bufs <=> j = 1
      BY <2>1, <2>3 DEF Sole
    <3>2. Sole(b, "result", i)'
      BY <1>1, <1>2, <1>4, <2>1, <2>3, <3>1 DEF Sole, InCallback
    <3> QED  BY <3>2 DEF HasPlace
  <2>4. CASE k = "queue" /\ i # 1
    <3>1. i \in 1 .. n /\ \A j \in 1 .. n : b \in resQueue[j].bufs <=> j = i
      BY <2>1, <2>4 DEF Sole
    <3>2. PICK m \in 1 .. n - 1 : i = m + 1
      BY <1>2, <2>4, <3>1
    <3>3. \A j \in 1 .. n - 1 : b \in resQueue'[j].bufs <=> j = m
      BY <1>2, <3>1, <3>2
    <3>4. Sole(b, "queue", m)'
      BY <1>1, <1>2, <1>4, <2>1, <2>4, <3>1, <3>3 DEF Sole, InCallback
    <3> QED  BY <3>4 DEF HasPlace
  <2> QED  BY <2>2, <2>3, <2>4
<1>7. ResultsInv'
  <2>1. resPc' # "loop"
    BY <1>1
  <2>2. \A j \in 1 .. n - 1 : resQueue'[j].stop => resQueue'[j].bufs = {}
    BY <1>2 DEF OwnerInv, ResultsInv
  <2> QED
    BY <1>2, <2>1, <2>2 DEF ResultsInv
<1> QED
  BY <1>6, <1>7 DEF OwnerInv

\* The case and the device return each buffer once between them.
LEMMA ResultOwner ==
  ASSUME TypeOK, PoolsFit, OwnerInv,
         ResSpurious \/ ResCase \/ ResHandOver \/ ResHandOverLate \/ ResRecycle
  PROVE  OwnerInv'
<1>1. UNCHANGED <<held, dropped, resQueue, halBuffers, callback>>
  BY DEF ResSpurious, ResCase, ResHandOver, ResHandOverLate, ResRecycle, requestVars,
     halVars, ownerVars
<1>2. ResultsInv'
  BY DEF OwnerInv, ResultsInv, ResSpurious, ResCase, ResHandOver, ResHandOverLate,
     ResRecycle
<1>3. \A b \in Buffers : StreamOf[b] \in Streams
  BY StreamAssumption
<1>4. ASSUME NEW b \in Buffers PROVE HasPlace(b)'
  <2>1. PICK k, i : Sole(b, k, i)
    BY DEF OwnerInv, HasPlace
  <2>2. CASE ResSpurious
    <3>1. Sole(b, k, i)'
      BY <1>1, <2>1, <2>2 DEF Sole, InResult, InCallback, Outgoing, ResSpurious,
         ownerVars, OwnerInv, ResultsInv
    <3> QED  BY <3>1 DEF HasPlace
  <2>3. CASE ResCase
    <3>1. resPc = "post" /\ UNCHANGED <<resBuffers, encoder>>
      BY <2>3 DEF ResCase, ownerVars
    <3>2. InResult(b) <=> b \in resBuffers
      BY <3>1 DEF InResult
    <3>3. CASE SyncMode = "internal"
      <4>0. Outgoing = {} /\ CaseReturns = {}
        BY <3>3 DEF PoolsFit, Outgoing
      <4>1. /\ buffers_free'[b] = buffers_free[b] + 0
            /\ InResult(b)' <=> InResult(b)
        BY <2>3, <3>1, <3>2, <3>3, <4>0 DEF ResCase, Returned, InResult
      <4>2. Sole(b, k, i)'
        BY <1>1, <2>1, <3>1, <4>1 DEF Sole, InCallback, TypeOK
      <4> QED  BY <4>2 DEF HasPlace
    <3>4. CASE SyncMode = "external"
      <4>1. b \in Outgoing <=> b \in resBuffers /\ StreamOf[b] \in EncoderTakes
        BY <3>4 DEF PoolsFit, Outgoing
      <4>2. \/ /\ buffers_free'[b] = buffers_free[b]
               /\ InResult(b)' <=> InResult(b)
            \/ /\ InResult(b) /\ ~InResult(b)'
               /\ buffers_free'[b] = buffers_free[b] + 1
        BY <1>3, <2>3, <3>1, <3>2, <3>4, <4>1, SMTT(30)
           DEF ResCase, PoolsFit, Outgoing, Returned, InResult, TypeOK
      <4>3. \/ Sole(b, k, i)' \/ Sole(b, "free", i)'
        BY <1>1, <2>1, <3>1, <4>2 DEF Sole, InCallback
      <4> QED  BY <4>3 DEF HasPlace
    <3> QED  BY <3>3, <3>4 DEF PoolsFit
  <2>4. CASE ResHandOver
    <3>1. /\ resPc = "handover" /\ resPc' = "recycle" /\ UNCHANGED <<resBuffers, buffers_free>>
          /\ encoder' = encoder \cup ToEncoder
      BY <2>4 DEF ResHandOver
    <3>2. \/ /\ b \notin ToEncoder
             /\ InResult(b)' <=> InResult(b)
          \/ /\ b \in ToEncoder /\ InResult(b) /\ ~InResult(b)'
      BY <3>1 DEF PoolsFit, Outgoing, ToEncoder, InResult
    <3>3. \/ Sole(b, k, i)' \/ Sole(b, "encoder", i)'
      BY <1>1, <2>1, <3>1, <3>2 DEF Sole, InCallback
    <3> QED  BY <3>3 DEF HasPlace
  <2>5. CASE ResHandOverLate
    <3>1. Sole(b, k, i)'
      BY <1>1, <2>1, <2>5 DEF Sole, InResult, InCallback, Outgoing, ResHandOverLate,
         ownerVars
    <3> QED  BY <3>1 DEF HasPlace
  <2>6. CASE ResRecycle
    <3>1. /\ resPc = "recycle" /\ resBuffers' = {} /\ UNCHANGED encoder
          /\ ~InResult(b)'
      BY <2>6 DEF ResRecycle, ownerVars, InResult
    <3>2. \/ buffers_free'[b] = buffers_free[b] /\ ~InResult(b)
          \/ buffers_free'[b] = buffers_free[b] + 1 /\ InResult(b)
      BY <2>6, <3>1 DEF ResRecycle, DeviceReturns, Returned, InResult, TypeOK, PoolsFit
    <3>3. \/ Sole(b, k, i)' \/ Sole(b, "free", i)'
      BY <1>1, <2>1, <3>1, <3>2 DEF Sole, InCallback
    <3> QED  BY <3>3 DEF HasPlace
  <2> QED  BY <2>2, <2>3, <2>4, <2>5, <2>6
<1> QED
  BY <1>2, <1>4 DEF OwnerInv

LEMMA EncoderOwner ==
  ASSUME TypeOK, OwnerInv, EncoderReturn
  PROVE  OwnerInv'
<1>1. PICK B \in SUBSET encoder : encoder' = encoder \ B /\ buffers_free' = Returned(B)
  <2>1. PICK c \in encoder : encoder' = encoder \ {c} /\ buffers_free' = Returned({c})
    BY DEF EncoderReturn
  <2> QED  BY <2>1
<1>2. UNCHANGED <<held, dropped, resPc, resBuffers, resQueue, halBuffers, callback>>
  BY DEF EncoderReturn, requestVars, halVars, resultVars
<1>3. ASSUME NEW b \in Buffers PROVE HasPlace(b)'
  <2>1. PICK k, i : Sole(b, k, i)
    BY DEF OwnerInv, HasPlace
  <2>2. buffers_free'[b] = buffers_free[b] + (IF b \in B THEN 1 ELSE 0)
    BY <1>1 DEF Returned
  <2>3. \/ Sole(b, k, i)' \/ Sole(b, "free", i)'
    BY <1>1, <1>2, <2>1, <2>2 DEF Sole, InResult, InCallback, Outgoing
  <2> QED  BY <2>3 DEF HasPlace
<1>4. ResultsInv'
  BY <1>2 DEF OwnerInv, ResultsInv
<1> QED
  BY <1>3, <1>4 DEF OwnerInv

LEMMA JoinRequestOwner ==
  ASSUME TypeOK, OwnerInv, JoinRequest
  PROVE  OwnerInv'
<1> DEFINE n == Len(resQueue)
<1>1. /\ resQueue' = Append(resQueue, StopMsg)
      /\ UNCHANGED <<buffers_free, held, encoder, dropped, resBuffers, resPc,
                     halBuffers, callback>>
  BY DEF JoinRequest, requestVars, halVars, ownerVars
<1>2. /\ n \in Nat /\ Len(resQueue') = n + 1
      /\ \A j \in 1 .. n : resQueue'[j] = resQueue[j]
      /\ resQueue'[n + 1].bufs = {}
  BY <1>1 DEF TypeOK, StopMsg
<1>3. ASSUME NEW b \in Buffers PROVE HasPlace(b)'
  <2>1. PICK k, i : Sole(b, k, i)
    BY DEF OwnerInv, HasPlace
  <2>2. Sole(b, k, i)'
    BY <1>1, <1>2, <2>1 DEF Sole, InResult, InCallback, Outgoing
  <2> QED  BY <2>2 DEF HasPlace
<1>4. ResultsInv'
  BY <1>1, <1>2 DEF OwnerInv, ResultsInv
<1> QED
  BY <1>3, <1>4 DEF OwnerInv

LEMMA OwnerStep ==
  ASSUME PoolsFit, TypeInv, WindowInv, OwnerInv, [Next]_vars
  PROVE  OwnerInv'
<1>0. TypeOK
  BY DEF TypeInv
<1>1. CASE RequestThread
  <2>1. CASE GetBuffer \/ SubmitOk \/ SubmitRejected
    BY <1>0, <2>1, GetBufferOwner, SubmitOkOwner, SubmitRejectedOwner
  <2>2. CASE ~(GetBuffer \/ SubmitOk \/ SubmitRejected)
    BY <1>1, <2>2, OwnerKept DEF RequestThread, Idle, IdleWake, TakeStop, TakeChange,
       PlanRequest, Gate, GateTimeout, GateSpurious, GetBufferSpurious, Arm, Unlock,
       Reduce, OnlyPc, OnlyRequest, halVars, resultVars, ownerVars, InCallback
  <2> QED  BY <2>1, <2>2
<1>2. CASE Hal
  <2> PICK t \in HalThreads : HalResult(t) \/ Push(t) \/ PushAfterFree(t) \/ Account(t)
    BY <1>2 DEF Hal
  <2>1. CASE HalResult(t) \/ Push(t)
    BY <1>0, <2>1, HalResultOwner, PushOwner
  <2>2. CASE PushAfterFree(t) \/ Account(t)
    <3>1. UNCHANGED <<buffers_free, held, encoder, dropped, resBuffers, resPc, resQueue,
                      halBuffers>>
      BY <2>2 DEF PushAfterFree, Account, requestVars, resultVars, ownerVars
    <3>2. \A u \in HalThreads : u # t => callback'[u] = callback[u]
      BY <1>0, <2>2 DEF PushAfterFree, Account, TypeOK
    <3>3. \A b \in Buffers : InCallback(b, t)' <=> InCallback(b, t)
      <4>1. CASE PushAfterFree(t)
        <5>1. /\ callback[t].pc = "push" /\ callback'[t].pc = "fault"
              /\ callback'[t].bufs = callback[t].bufs
          BY <1>0, <4>1 DEF PushAfterFree, TypeOK, Callback
        <5> QED  BY <5>1 DEF InCallback
      <4>2. CASE Account(t)
        <5>1. callback[t].pc = "account" /\ callback'[t].pc = "none"
          BY <1>0, <4>2 DEF Account, NoCallback, TypeOK
        <5> QED  BY <5>1 DEF InCallback
      <4> QED  BY <2>2, <4>1, <4>2
    <3>4. \A b \in Buffers, u \in HalThreads : InCallback(b, u)' <=> InCallback(b, u)
      BY <3>2, <3>3 DEF InCallback
    <3> QED  BY <3>1, <3>4, OwnerKept
  <2> QED  BY <2>1, <2>2
<1>3. CASE ResultThread \/ EncoderReturn \/ JoinRequest
  BY <1>0, <1>3, ResTakeOwner, ResultOwner, EncoderOwner, JoinRequestOwner DEF ResultThread
<1>4. CASE PostChange \/ PostSetting \/ CaseStop \/ EncoderStopped \/ PostStop
           \/ JoinResult \/ DrainTimeout \/ DrainEnd
  BY <1>4, OwnerKept DEF PostChange, PostSetting, CaseStop, EncoderStopped, PostStop,
     JoinResult, DrainTimeout, DrainEnd, requestVars, halVars, resultVars, ownerVars, InCallback
<1>5. CASE UNCHANGED vars
  BY <1>5, OwnerKept DEF vars, requestVars, halVars, resultVars, ownerVars, InCallback
<1> QED
  BY <1>1, <1>2, <1>3, <1>4, <1>5 DEF Next, Commands, StopStreams, Terminated

LEMMA OwnerInit == Init => OwnerInv
<1> SUFFICES ASSUME Init PROVE OwnerInv  OBVIOUS
<1>1. ASSUME NEW b \in Buffers PROVE Sole(b, "free", 0)
  BY DEF Init, Sole, InResult, InCallback, NoCallback
<1> QED
  BY <1>1 DEF Init, OwnerInv, ResultsInv, HasPlace

\* No buffer is lost between the threads or twice in a free list, if the case and
\* the device agree who returns it: also when the HAL refuses a request, is late,
\* or hands over results behind the stop.
THEOREM BuffersOwnedOnce == PoolsFit => (Spec => []OwnedOnce)
<1> SUFFICES ASSUME PoolsFit PROVE Spec => []OwnedOnce  OBVIOUS
<1>1. TypeInv /\ WindowInv /\ OwnerInv /\ [Next]_vars => OwnerInv'
  BY OwnerStep
<1>2. TypeInv /\ OwnerInv => OwnedOnce
  BY PlacedOnce DEF TypeInv, OwnerInv, OwnedOnce
<1> QED
  BY OwnerInit, <1>1, <1>2, TypeInvariance, WindowInvariance, PTL DEF Spec

----------------------------------------------------------------------------
(* What the HAL owes *)

\* The circumstances: no time-out uses up the tries of stop_streams, and the HAL
\* sends metadata for every request.
HalAnswers == HalInTime /\ PartialResults > 0

----------------------------------------------------------------------------
(* The invariant *)

\* Buffers of request f that have not been counted: at the HAL or in a callback.
Out(f) == {b \in Buffers : \/ b \in halBuffers[f]
                           \/ \E t \in HalThreads : Busy(t, f) /\ b \in callback[t].bufs}

\* No buffer is counted twice.
OutOnce(f) ==
  \A t \in HalThreads : Busy(t, f) =>
    /\ callback[t].bufs \cap halBuffers[f] = {}
    /\ \A u \in HalThreads \ {t} :
         Busy(u, f) => callback[t].bufs \cap callback[u].bufs = {}

\* Metadata of request f is still to come.
MetaOut(f) == halMeta[f] > 0 \/ \E t \in HalThreads : Busy(t, f) /\ callback[t].meta

\* The entry of a request says how many of its buffers have come back.
Counted(f) ==
  /\ f \notin pending_vector => Out(f) = {}
  /\ f \in pending_vector /\ Sent(f) =>
       /\ pend[f].need = pend[f].got + Cardinality(Out(f))
       /\ ~Complete(pend[f])
       /\ pend[f].meta \/ MetaOut(f)
  /\ f = frame_number /\ rqPc = "submit" =>
       pend[f] = [need |-> Cardinality(held), got |-> 0, meta |-> FALSE]

\* Only a callback with buffers goes to the result thread.
CallbackShape ==
  \A t \in HalThreads : callback[t].pc \in {"push", "fault"} => callback[t].bufs # {}

OwedInv == CallbackShape /\ \A f \in Frames : Counted(f) /\ OutOnce(f)

\* Out(f) can be counted.
LEMMA OutFinite ==
  ASSUME TypeInv, NEW f \in Frames
  PROVE  /\ Out(f) \subseteq Buffers /\ IsFiniteSet(Out(f)) /\ Cardinality(Out(f)) \in Nat
         /\ Cardinality(Out(f)) = 0 <=> Out(f) = {}
<1>1. Out(f) \subseteq Buffers /\ IsFiniteSet(Out(f))
  BY FiniteAssumption, FS_Subset DEF Out
<1>2. QED  BY <1>1, FS_CardinalityType, FS_EmptySet

\* Of a request that was not submitted yet the HAL owes nothing.
LEMMA UnsentOwesNothing ==
  ASSUME HalKnows, NEW f \in Frames, ~Sent(f)
  PROVE  halBuffers[f] = {} /\ Out(f) = {} /\ \A t \in HalThreads : ~Busy(t, f)
<1>1. \A t \in HalThreads : ~Busy(t, f)
  BY DEF HalKnows, Busy
<1>2. halBuffers[f] = {}
  BY DEF HalKnows
<1>3. QED  BY <1>1, <1>2 DEF Out

\* A step after which the HAL owes what it owed, and request f is where it was.
LEMMA OwedKept ==
  ASSUME NEW f \in Frames, Counted(f), OutOnce(f),
         UNCHANGED <<halBuffers, halMeta, callback>>,
         (f \in pending_vector)' <=> f \in pending_vector,
         pend'[f] = pend[f],
         Sent(f)' <=> Sent(f),
         f = frame_number' /\ rqPc' = "submit" =>
           f = frame_number /\ rqPc = "submit" /\ UNCHANGED held
  PROVE  Counted(f)' /\ OutOnce(f)'
<1>1. Out(f)' = Out(f) /\ (MetaOut(f)' <=> MetaOut(f))
  BY DEF Out, Busy, MetaOut
<1>2. OutOnce(f)'
  BY DEF OutOnce, Busy
<1>3. Counted(f)'
  BY <1>1 DEF Counted, Complete
<1>4. QED  BY <1>2, <1>3

LEMMA RequestOwedStep ==
  ASSUME HalAnswers, TypeInv, WindowInv, WindowInv', OwedInv, RequestThread
  PROVE  OwedInv'
<1> USE DEF WindowInv
<1>0. callback' = callback
  BY DEF RequestThread, Idle, IdleWake, TakeStop, TakeChange, PlanRequest,
     Gate, GateTimeout, GateSpurious, GetBuffer, GetBufferSpurious, Arm, SubmitOk,
     SubmitRejected, Unlock, Reduce, OnlyPc, OnlyRequest, halVars
<1>1. CallbackShape'
  BY <1>0 DEF OwedInv, CallbackShape
<1>2. SUFFICES ASSUME NEW f \in Frames PROVE Counted(f)' /\ OutOnce(f)'
  BY <1>1 DEF OwedInv
<1>3. Counted(f) /\ OutOnce(f) /\ f \in Nat
  BY FrameType DEF OwedInv
<1>4. CASE Arm
  <2>1. /\ rqPc = "collect" /\ rqPc' = "submit"
        /\ pending_vector' = pending_vector \cup {frame_number}
        /\ pend' = [pend EXCEPT ![frame_number] =
                      [need |-> Cardinality(held), got |-> 0, meta |-> FALSE]]
        /\ UNCHANGED <<frame_number, held, halBuffers, halMeta>>
    BY <1>4 DEF Arm, halVars
  <2>2. pend \in [Frames -> RequestPending]
    BY DEF TypeInv, TypeOK
  <2>3. CASE f = frame_number
    <3>1. ~Sent(f) /\ ~Sent(f)' /\ f \notin pending_vector
      BY <1>3, <2>1, <2>3 DEF Sent, NumbersGiven
    <3>2. Out(f)' = {} /\ \A t \in HalThreads : ~Busy(t, f)'
      BY <1>0, <2>1, <3>1, UnsentOwesNothing DEF Out, Busy
    <3>3. pend'[f] = [need |-> Cardinality(held), got |-> 0, meta |-> FALSE]
      BY <2>1, <2>2, <2>3
    <3>4. QED  BY <2>1, <2>3, <3>1, <3>2, <3>3 DEF Counted, OutOnce
  <2>4. CASE f # frame_number
    <3>1. pend'[f] = pend[f]  BY <2>1, <2>2, <2>4
    <3>2. Sent(f)' <=> Sent(f)  BY <2>1 DEF Sent
    <3>3. QED  BY <1>0, <1>3, <2>1, <2>4, <3>1, <3>2, OwedKept
  <2>5. QED  BY <2>3, <2>4
<1>5. CASE SubmitOk
  <2>1. /\ rqPc = "submit" /\ rqPc' = "submitted"
        /\ halBuffers' = [halBuffers EXCEPT ![frame_number] = held]
        /\ halMeta' = [halMeta EXCEPT ![frame_number] = PartialResults]
        /\ UNCHANGED <<frame_number, pending_vector, pend>>
    BY <1>5 DEF SubmitOk, pendingVars
  <2>2. /\ halBuffers \in [Frames -> SUBSET Buffers] /\ halMeta \in [Frames -> Nat]
        /\ held \subseteq Buffers /\ Cardinality(held) \in Nat
    BY CountBuffers DEF TypeInv, TypeOK
  <2>3. CASE f = frame_number
    <3>1. ~Sent(f) /\ f \in pending_vector
      BY <1>3, <2>1, <2>3 DEF Sent, NumbersGiven
    <3>2. halBuffers'[f] = held /\ \A t \in HalThreads : ~Busy(t, f)'
      BY <1>0, <2>1, <2>2, <2>3, <3>1, UnsentOwesNothing DEF Busy
    <3>3. Out(f)' = held
      BY <2>2, <3>2 DEF Out
    <3>4. MetaOut(f)'
      BY <2>1, <2>2, <2>3 DEF MetaOut, HalAnswers
    <3>5. pend'[f] = [need |-> Cardinality(held), got |-> 0, meta |-> FALSE]
      BY <1>3, <2>1, <2>3 DEF Counted
    <3>6. QED
      BY <2>1, <2>2, <3>1, <3>2, <3>3, <3>4, <3>5 DEF Counted, OutOnce, Complete
  <2>4. CASE f # frame_number
    <3>1. /\ halBuffers'[f] = halBuffers[f] /\ halMeta'[f] = halMeta[f]
          /\ Sent(f)' <=> Sent(f)
      BY <2>1, <2>2, <2>4 DEF Sent
    <3>2. Out(f)' = Out(f) /\ (MetaOut(f)' <=> MetaOut(f)) /\ OutOnce(f)'
      BY <1>0, <1>3, <3>1 DEF Out, Busy, MetaOut, OutOnce
    <3>3. QED  BY <1>3, <2>1, <3>1, <3>2 DEF Counted, Complete
  <2>5. QED  BY <2>3, <2>4
<1>6. CASE SubmitRejected
  <2>1. /\ rqPc = "submit" /\ rqPc' = "exit"
        /\ pending_vector' = pending_vector \ {frame_number}
        /\ pend' = [pend EXCEPT ![frame_number] = NoPending]
        /\ UNCHANGED <<frame_number, halBuffers, halMeta>>
    BY <1>6 DEF SubmitRejected, halVars
  <2>2. CASE f = frame_number
    <3>1. ~Sent(f)  BY <1>3, <2>1, <2>2 DEF Sent
    <3>2. Out(f)' = {} /\ \A t \in HalThreads : ~Busy(t, f)'
      BY <1>0, <2>1, <3>1, UnsentOwesNothing DEF Out, Busy
    <3>3. QED  BY <2>1, <2>2, <3>2 DEF Counted, OutOnce
  <2>3. CASE f # frame_number
    <3>1. pend'[f] = pend[f]  BY <2>1, <2>3 DEF TypeInv, TypeOK
    <3>2. Sent(f)' <=> Sent(f)  BY <2>1 DEF Sent
    <3>3. QED  BY <1>0, <1>3, <2>1, <2>3, <3>1, <3>2, OwedKept
  <2>4. QED  BY <2>2, <2>3
<1>7. CASE Unlock
  <2>1. /\ rqPc = "submitted" /\ rqPc' = "reduce" /\ frame_number' = frame_number + 1
        /\ UNCHANGED <<pending_vector, pend, halBuffers, halMeta>>
    BY <1>7 DEF Unlock, halVars, pendingVars
  <2>2. Sent(f)' <=> Sent(f)
    BY <1>3, <2>1, FrameType DEF Sent
  <2>3. QED  BY <1>0, <1>3, <2>1, <2>2, OwedKept
<1>8. CASE ~(Arm \/ SubmitOk \/ SubmitRejected \/ Unlock)
  <2>1. /\ UNCHANGED <<pending_vector, pend, halBuffers, halMeta, frame_number>>
        /\ rqPc \notin {"submit", "submitted"} /\ rqPc' \notin {"submit", "submitted"}
    BY <1>8 DEF RequestThread, Idle, IdleWake, TakeStop, TakeChange, PlanRequest,
       Gate, GateTimeout, GateSpurious, GetBuffer, GetBufferSpurious, Reduce,
       OnlyPc, OnlyRequest, halVars, pendingVars
  <2>2. Sent(f)' <=> Sent(f)  BY <2>1 DEF Sent
  <2>3. QED  BY <1>0, <1>3, <2>1, <2>2, OwedKept
<1>9. QED  BY <1>4, <1>5, <1>6, <1>7, <1>8

\* The HAL hands some of what it owes to a callback: nothing is counted.
LEMMA ResultOwedStep ==
  ASSUME TypeInv, OwedInv, NEW t \in HalThreads, HalResult(t)
  PROVE  OwedInv'
<1>0. /\ callback \in [HalThreads -> Callback] /\ halMeta \in [Frames -> Nat]
      /\ halBuffers \in [Frames -> SUBSET Buffers]
      /\ callback[t].pc = "none"
      /\ UNCHANGED <<pending_vector, pend, frame_number, rqPc, held>>
  BY DEF TypeInv, TypeOK, HalResult, pendingVars, requestVars
<1>1. PICK g \in Frames : \E B \in SUBSET halBuffers[g], m \in BOOLEAN :
        /\ m => halMeta[g] > 0
        /\ callback' = [callback EXCEPT ![t] =
             [pc |-> IF B = {} THEN "account" ELSE "push",
              frame |-> g, bufs |-> B, meta |-> m]]
        /\ halBuffers' = [halBuffers EXCEPT ![g] = @ \ B]
        /\ halMeta' = [halMeta EXCEPT ![g] = @ - (IF m THEN 1 ELSE 0)]
  BY DEF HalResult
<1>2. PICK B \in SUBSET halBuffers[g], m \in BOOLEAN :
        /\ m => halMeta[g] > 0
        /\ callback' = [callback EXCEPT ![t] =
             [pc |-> IF B = {} THEN "account" ELSE "push",
              frame |-> g, bufs |-> B, meta |-> m]]
        /\ halBuffers' = [halBuffers EXCEPT ![g] = @ \ B]
        /\ halMeta' = [halMeta EXCEPT ![g] = @ - (IF m THEN 1 ELSE 0)]
  BY <1>1
<1>3. /\ callback'[t].pc \in {"account", "push"} /\ (B = {} => callback'[t].pc = "account")
      /\ callback'[t].frame = g
      /\ callback'[t].bufs = B /\ callback'[t].meta = m
      /\ \A u \in HalThreads \ {t} : callback'[u] = callback[u]
  BY <1>0, <1>2
<1>4. CallbackShape'
  BY <1>3 DEF OwedInv, CallbackShape
<1>5. SUFFICES ASSUME NEW f \in Frames PROVE Counted(f)' /\ OutOnce(f)'
  BY <1>4 DEF OwedInv
<1>6. Counted(f) /\ OutOnce(f) /\ (Sent(f)' <=> Sent(f))
  BY <1>0 DEF OwedInv, Sent
<1>7. /\ \A u \in HalThreads \ {t} : Busy(u, f)' <=> Busy(u, f)
      /\ ~Busy(t, f) /\ (Busy(t, f)' <=> f = g)
  BY <1>0, <1>3 DEF Busy
<1>8. /\ halBuffers'[f] = IF f = g THEN halBuffers[f] \ B ELSE halBuffers[f]
      /\ halMeta'[f] = IF f = g /\ m THEN halMeta[f] - 1 ELSE halMeta[f]
  <2>1. halMeta[f] \in Nat /\ halMeta[g] \in Nat  BY <1>0
  <2>2. CASE f = g  BY <1>0, <1>2, <2>1, <2>2
  <2>3. CASE f # g  BY <1>0, <1>2, <2>3
  <2>4. QED  BY <2>2, <2>3
<1>9. Out(f)' = Out(f)
  BY <1>2, <1>3, <1>7, <1>8 DEF Out
<1>10. MetaOut(f) => MetaOut(f)'
  BY <1>0, <1>3, <1>7, <1>8 DEF MetaOut
<1>11. OutOnce(f)'
  <2>1. ASSUME NEW u \in HalThreads, Busy(u, f)'
        PROVE  callback'[u].bufs \cap halBuffers'[f] = {}
    BY <1>3, <1>6, <1>7, <1>8, <2>1 DEF OutOnce
  <2>2. ASSUME NEW u \in HalThreads, NEW v \in HalThreads \ {u}, Busy(u, f)', Busy(v, f)'
        PROVE  callback'[u].bufs \cap callback'[v].bufs = {}
    <3>1. CASE u = t
      <4>1. f = g /\ callback'[u].bufs = B /\ callback'[v].bufs = callback[v].bufs
            /\ Busy(v, f)
        BY <1>3, <1>7, <2>2, <3>1
      <4>2. QED  BY <1>2, <1>6, <4>1 DEF OutOnce
    <3>2. CASE v = t
      <4>1. f = g /\ callback'[v].bufs = B /\ callback'[u].bufs = callback[u].bufs
            /\ Busy(u, f)
        BY <1>3, <1>7, <2>2, <3>2
      <4>2. QED  BY <1>2, <1>6, <4>1 DEF OutOnce
    <3>3. CASE u # t /\ v # t
      BY <1>3, <1>6, <1>7, <2>2, <3>3 DEF OutOnce
    <3>4. QED  BY <3>1, <3>2, <3>3
  <2>3. QED  BY <2>1, <2>2 DEF OutOnce
<1>12. QED
  BY <1>0, <1>6, <1>9, <1>10, <1>11 DEF Counted, Complete

\* Passing buffers on to the result thread, or dropping them, counts nothing.
LEMMA PushOwedStep ==
  ASSUME TypeInv, OwedInv, NEW t \in HalThreads, Push(t) \/ PushAfterFree(t)
  PROVE  OwedInv'
<1>0. /\ callback \in [HalThreads -> Callback]
      /\ UNCHANGED <<pending_vector, pend, frame_number, rqPc, held, halBuffers, halMeta>>
      /\ callback[t].pc = "push"
  BY DEF TypeInv, TypeOK, Push, PushAfterFree, pendingVars, requestVars
<1>1. /\ callback'[t].pc \in {"account", "fault"}
      /\ \A u \in HalThreads : /\ callback'[u].frame = callback[u].frame
                               /\ callback'[u].bufs = callback[u].bufs
                               /\ callback'[u].meta = callback[u].meta
                               /\ u # t => callback'[u].pc = callback[u].pc
  BY <1>0 DEF Push, PushAfterFree, Callback
<1>2. CallbackShape'
  BY <1>0, <1>1 DEF OwedInv, CallbackShape
<1>3. SUFFICES ASSUME NEW f \in Frames PROVE Counted(f)' /\ OutOnce(f)'
  BY <1>2 DEF OwedInv
<1>4. Counted(f) /\ OutOnce(f) /\ (Sent(f)' <=> Sent(f))
  BY <1>0 DEF OwedInv, Sent
<1>5. \A u \in HalThreads : Busy(u, f)' <=> Busy(u, f)
  BY <1>0, <1>1 DEF Busy
<1>6. Out(f)' = Out(f) /\ (MetaOut(f)' <=> MetaOut(f)) /\ OutOnce(f)'
  BY <1>0, <1>1, <1>4, <1>5 DEF Out, MetaOut, OutOnce
<1>7. QED  BY <1>0, <1>4, <1>6 DEF Counted, Complete

\* Counting a result: its buffers are no longer out, and when it is the last one
\* of its request none is.
LEMMA AccountOwedStep ==
  ASSUME TypeInv, WindowInv, OwedInv, NEW t \in HalThreads, Account(t)
  PROVE  OwedInv'
<1> DEFINE g == callback[t].frame
           p == Accounted(pend[g], callback[t])
<1>0. /\ callback \in [HalThreads -> Callback] /\ pend \in [Frames -> RequestPending]
      /\ UNCHANGED <<frame_number, held, halBuffers, halMeta>>
      /\ callback[t].pc = "account" /\ callback' = [callback EXCEPT ![t] = NoCallback]
      /\ rqPc' # rqPc => rqPc = "gateWait" /\ rqPc' = "collect"
  BY DEF TypeInv, TypeOK, Account, Signalled
<1>1. /\ g \in Frames /\ callback[t].bufs \subseteq Buffers /\ Busy(t, g) /\ Sent(g)
  BY <1>0 DEF Callback, Busy, WindowInv, HalKnows
<1>2. /\ callback'[t].pc = "none"
      /\ \A u \in HalThreads \ {t} : callback'[u] = callback[u]
  BY <1>0 DEF NoCallback
<1>3. CallbackShape'
  BY <1>2 DEF OwedInv, CallbackShape
<1>4. SUFFICES ASSUME NEW f \in Frames PROVE Counted(f)' /\ OutOnce(f)'
  BY <1>3 DEF OwedInv
<1>5. Counted(f) /\ OutOnce(f) /\ (Sent(f)' <=> Sent(f))
  BY <1>0 DEF OwedInv, Sent
<1>6. \A u \in HalThreads : Busy(u, f)' <=> Busy(u, f) /\ u # t
  BY <1>2 DEF Busy
<1>7. OutOnce(f)'
  BY <1>0, <1>2, <1>5, <1>6 DEF OutOnce
<1>8. CASE f # g
  <2>1. Out(f)' = Out(f) /\ (MetaOut(f)' <=> MetaOut(f))
    BY <1>0, <1>2, <1>6, <1>8 DEF Out, MetaOut, Busy
  <2>2. pend'[f] = pend[f] /\ (f \in pending_vector' <=> f \in pending_vector)
    BY <1>0, <1>8 DEF Account, pendingVars
  <2>3. QED  BY <1>0, <1>5, <1>7, <2>1, <2>2 DEF Counted, Complete
<1>9. CASE f = g
  <2>1. Out(f)' = Out(f) \ callback[t].bufs /\ callback[t].bufs \subseteq Out(f)
    BY <1>0, <1>1, <1>2, <1>5, <1>6, <1>9 DEF Out, OutOnce
  <2>2. ~(f = frame_number' /\ rqPc' = "submit")
    BY <1>0, <1>1, <1>9, FrameType DEF Sent
  <2>3. CASE f \notin pending_vector
    <3>1. f \notin pending_vector'
      BY <1>9, <2>3 DEF Account, pendingVars
    <3>2. QED  BY <1>5, <1>7, <2>1, <2>2, <2>3, <3>1 DEF Counted
  <2>4. CASE f \in pending_vector
    <3>1. /\ pend[f].need = pend[f].got + Cardinality(Out(f))
          /\ ~Complete(pend[f]) /\ (pend[f].meta \/ MetaOut(f))
      BY <1>1, <1>5, <1>9, <2>4 DEF Counted
    <3>2. /\ Cardinality(Out(f)') = Cardinality(Out(f)) - Cardinality(callback[t].bufs)
          /\ Cardinality(callback[t].bufs) \in Nat /\ Cardinality(Out(f)) \in Nat
          /\ Cardinality(Out(f)') \in Nat
      <4>1. Out(f) \cap callback[t].bufs = callback[t].bufs
        BY <2>1
      <4>2. IsFiniteSet(Out(f)) /\ IsFiniteSet(callback[t].bufs) /\ IsFiniteSet(Out(f)')
        BY <2>1, OutFinite, FS_Subset
      <4>3. QED  BY <2>1, <4>1, <4>2, FS_Difference, FS_CardinalityType
    <3>3. /\ p.need = pend[f].need /\ p.got = pend[f].got + Cardinality(callback[t].bufs)
          /\ p.meta <=> pend[f].meta \/ callback[t].meta
          /\ pend[f].need \in Nat /\ pend[f].got \in Nat
      BY <1>0, <1>9 DEF Accounted, RequestPending
    <3>4. p.need = p.got + Cardinality(Out(f)')
      BY <3>1, <3>2, <3>3
    <3>5. CASE Complete(p)
      <4>1. Cardinality(Out(f)') = 0
        BY <3>2, <3>3, <3>4, <3>5 DEF Complete
      <4>2. Out(f)' = {}
        BY <2>1, <4>1, OutFinite, FS_Subset, FS_EmptySet
      <4>3. f \notin pending_vector'
        BY <1>9, <2>4, <3>5 DEF Account
      <4>4. QED  BY <1>7, <2>2, <4>2, <4>3 DEF Counted
    <3>6. CASE ~Complete(p)
      <4>1. pend'[f] = p /\ pending_vector' = pending_vector
        BY <1>0, <1>9, <2>4, <3>6 DEF Account
      <4>2. p.meta \/ MetaOut(f)'
        BY <1>0, <1>2, <1>6, <3>1, <3>3 DEF MetaOut
      <4>3. QED  BY <1>7, <2>2, <2>4, <3>4, <3>6, <4>1, <4>2 DEF Counted, Complete
    <3>7. QED  BY <3>5, <3>6
  <2>5. QED  BY <2>3, <2>4
<1>10. QED  BY <1>8, <1>9

LEMMA OtherOwedStep ==
  ASSUME HalAnswers, TypeInv, WindowInv, FreedEmpty, OwedInv,
         ResultThread \/ EncoderReturn \/ Commands \/ StopStreams \/ UNCHANGED vars
  PROVE  OwedInv'
<1>1. UNCHANGED <<callback, halBuffers, halMeta, rqPc, frame_number, held>>
  BY DEF ResultThread, ResTake, ResSpurious, ResCase, ResHandOver, ResHandOverLate,
     ResRecycle, EncoderReturn, Commands, PostChange, PostSetting, CaseStop,
     EncoderStopped, StopStreams, PostStop, JoinRequest, JoinResult, DrainTimeout, DrainEnd,
     vars, halVars, requestVars
<1>2. CallbackShape'
  BY <1>1 DEF OwedInv, CallbackShape
<1>3. SUFFICES ASSUME NEW f \in Frames PROVE Counted(f)' /\ OutOnce(f)'
  BY <1>2 DEF OwedInv
<1>4. Counted(f) /\ OutOnce(f) /\ (Sent(f)' <=> Sent(f))
  BY <1>1 DEF OwedInv, Sent
<1>5. CASE DrainEnd
  <2>1. pending_vector = {} /\ pending_vector' = {} /\ rqPc = "exit"
    BY <1>5 DEF DrainEnd, Drained, HalAnswers, HalInTime, FreedEmpty, WindowInv,
       StopAfterExit
  <2>2. Out(f)' = Out(f) /\ OutOnce(f)'
    BY <1>1, <1>4 DEF Out, OutOnce, Busy
  <2>3. QED  BY <1>1, <1>4, <2>1, <2>2 DEF Counted
<1>6. CASE ~DrainEnd
  <2>1. UNCHANGED <<pending_vector, pend>>
    BY <1>6 DEF ResultThread, ResTake, ResSpurious, ResCase, ResHandOver,
       ResHandOverLate, ResRecycle, EncoderReturn, Commands, PostChange, PostSetting,
       CaseStop, EncoderStopped, StopStreams, PostStop, JoinRequest, JoinResult,
       DrainTimeout,
       vars, pendingVars
  <2>2. QED  BY <1>1, <1>4, <2>1, OwedKept
<1>7. QED  BY <1>5, <1>6

LEMMA OwedInvariance == HalAnswers => (Spec => []OwedInv)
<1> SUFFICES ASSUME HalAnswers PROVE Spec => []OwedInv  OBVIOUS
<1>1. Init => OwedInv
  BY DEF Init, OwedInv, CallbackShape, Counted, OutOnce, Out, Busy, NoCallback
<1>2. TypeInv /\ WindowInv /\ WindowInv' /\ FreedEmpty /\ OwedInv /\ [Next]_vars => OwedInv'
  <2> SUFFICES ASSUME TypeInv, WindowInv, WindowInv', FreedEmpty, OwedInv, [Next]_vars
               PROVE  OwedInv'
    OBVIOUS
  <2>1. CASE RequestThread  BY <2>1, RequestOwedStep
  <2>2. CASE Hal
    BY <2>2, ResultOwedStep, PushOwedStep, AccountOwedStep DEF Hal
  <2>3. CASE ~RequestThread /\ ~Hal
    BY <2>3, OtherOwedStep DEF Next, Terminated
  <2>4. QED  BY <2>1, <2>2, <2>3
<1>3. Spec => []FreedEmpty
  BY FreedEmptyInvariance DEF HalAnswers
<1>4. QED  BY <1>1, <1>2, <1>3, TypeInvariance, WindowInvariance, PTL DEF Spec

----------------------------------------------------------------------------
(* What follows from it *)

\* A request leaves _pending_vector exactly when the HAL owes no buffer of it more,
\* for any number of callbacks that interleave, whatever part of the buffers each
\* brings, also when requests are refused and waits end without a signal.
THEOREM PendingWhileOwed == HalAnswers => (Spec => []PendingIffOwed)
<1> SUFFICES ASSUME HalAnswers PROVE Spec => []PendingIffOwed  OBVIOUS
<1>1. ASSUME TypeInv, WindowInv, OwedInv PROVE PendingIffOwed
  <2> SUFFICES ASSUME NEW f \in Frames
               PROVE  /\ f \notin pending_vector =>
                           /\ halBuffers[f] = {}
                           /\ \A t \in HalThreads : Busy(t, f) => callback[t].bufs = {}
                      /\ f \in pending_vector /\ ~(f = frame_number /\ rqPc = "submit") =>
                           \/ halBuffers[f] # {} \/ halMeta[f] > 0
                           \/ \E t \in HalThreads : Busy(t, f)
    BY DEF PendingIffOwed
  <2>1. Counted(f) /\ halBuffers[f] \subseteq Buffers
        /\ \A t \in HalThreads : callback[t].bufs \subseteq Buffers
    BY <1>1 DEF OwedInv, TypeInv, TypeOK, Callback
  <2>2. CASE f \notin pending_vector
    BY <2>1, <2>2 DEF Counted, Out
  <2>3. CASE f \in pending_vector /\ ~(f = frame_number /\ rqPc = "submit")
    <3>1. Sent(f)
      BY <1>1, <2>3 DEF WindowInv, NumbersGiven, Sent
    <3>2. /\ pend[f].need = pend[f].got + Cardinality(Out(f))
          /\ ~Complete(pend[f]) /\ (pend[f].meta \/ MetaOut(f))
          /\ pend[f].got \in Nat
      BY <1>1, <2>1, <2>3, <3>1 DEF Counted, TypeInv, TypeOK, RequestPending
    <3>3. MetaOut(f) \/ Out(f) # {}
      BY <1>1, <3>2, OutFinite DEF Complete
    <3>4. QED  BY <2>3, <3>3 DEF MetaOut, Out
  <2>4. QED  BY <2>2, <2>3
<1>2. QED  BY <1>1, OwedInvariance, TypeInvariance, WindowInvariance, PTL

\* When stop_streams frees the result thread and the streams, no buffer is at the
\* HAL and no callback is on its way to the freed mutex: no result is lost and
\* none comes too late.
THEOREM StopLeavesNothingOut == HalAnswers => (Spec => []StopDrains)
<1> SUFFICES ASSUME HalAnswers PROVE Spec => []StopDrains  OBVIOUS
<1>1. ASSUME TypeInv, FreedEmpty, OwedInv, mnPc = "freed"
      PROVE  /\ \A f \in Frames : halBuffers[f] = {}
             /\ \A t \in HalThreads : callback[t].pc \notin {"push", "fault"}
  <2>1. \A f \in Frames : Out(f) = {} /\ halBuffers[f] \subseteq Buffers
    BY <1>1 DEF FreedEmpty, OwedInv, Counted, TypeInv, TypeOK
  <2>2. \A t \in HalThreads : /\ callback[t].frame \in Frames
                              /\ callback[t].bufs \subseteq Buffers
    BY <1>1 DEF TypeInv, TypeOK, Callback
  <2>3. \A t \in HalThreads : callback[t].pc # "none" => callback[t].bufs = {}
    BY <2>1, <2>2 DEF Out, Busy
  <2>4. QED  BY <1>1, <2>1, <2>3 DEF OwedInv, CallbackShape, Out
<1>2. TypeInv /\ FreedEmpty /\ OwedInv => StopDrains
  BY <1>1 DEF StopDrains
<1>3. Spec => []FreedEmpty
  BY FreedEmptyInvariance DEF HalAnswers
<1>4. QED  BY <1>2, <1>3, OwedInvariance, TypeInvariance, PTL

----------------------------------------------------------------------------
(* The end of stop_streams *)

\* What each thread has put down by the time the command thread goes on.
HandsEmpty ==
  /\ rqPc \notin {"collect", "submit", "fault"} => held = {}
  /\ mnPc \notin {"run", "encoder"} => encoder = {}
  /\ resPc = "exit" => resBuffers = {}
  /\ mnPc \in {"drain", "freed"} => resPc = "exit"

LEMMA HandsStep ==
  ASSUME StopsEncoder, TypeOK, OwnerInv, HandsEmpty, [Next]_vars
  PROVE  HandsEmpty'
<1> USE DEF HandsEmpty
<1>1. CASE RequestThread
  <2>1. UNCHANGED <<encoder, resPc, resBuffers, mnPc>>
    BY <1>1 DEF RequestThread, Idle, IdleWake, TakeStop, TakeChange, PlanRequest, Gate,
       GateTimeout, GateSpurious, GetBuffer, GetBufferSpurious, Arm, SubmitOk,
       SubmitRejected, Unlock, Reduce, OnlyPc, OnlyRequest, resultVars, ownerVars, mainVars
  <2>2. rqPc' \notin {"collect", "submit", "fault"} => held' = {}
    BY <1>1 DEF RequestThread, Idle, IdleWake, TakeStop, TakeChange, PlanRequest, Gate,
       GateTimeout, GateSpurious, GetBuffer, GetBufferSpurious, Arm, SubmitOk,
       SubmitRejected, Unlock, Reduce, OnlyPc
  <2> QED  BY <2>1, <2>2
<1>2. CASE Hal
  BY <1>2 DEF Hal, HalResult, Push, PushAfterFree, Account, Signalled, requestVars,
     resultVars, ownerVars, mainVars
<1>3. CASE ResTake
  <2>1. /\ resQueue # <<>> /\ resBuffers' = Head(resQueue).bufs
        /\ resPc = "loop" /\ resPc' = IF Head(resQueue).stop THEN "exit" ELSE "post"
        /\ UNCHANGED <<rqPc, held, encoder, mnPc>>
    BY <1>3 DEF ResTake, requestVars, ownerVars, mainVars
  <2>2. Head(resQueue) = resQueue[1] /\ 1 \in 1 .. Len(resQueue)
    BY <2>1 DEF TypeOK
  <2>3. Head(resQueue).stop => Head(resQueue).bufs = {}
    BY <2>2 DEF OwnerInv, ResultsInv
  <2> QED  BY <2>1, <2>3
<1>4. CASE ResHandOver
  <2>1. /\ encoder' = encoder \cup ToEncoder
        /\ mnPc \notin {"run", "encoder"} => ToEncoder = {}
        /\ resPc = "handover" /\ resPc' = "recycle"
        /\ UNCHANGED <<rqPc, held, mnPc>>
    BY <1>4 DEF ResHandOver, QueueThere, requestVars, mainVars
  <2> QED  BY <2>1
<1>5. CASE ResSpurious \/ ResCase \/ ResHandOverLate \/ ResRecycle
  BY <1>5 DEF ResSpurious, ResCase, ResHandOverLate, ResRecycle, requestVars, ownerVars,
     mainVars
<1>6. CASE EncoderReturn
  BY <1>6 DEF EncoderReturn, requestVars, resultVars, mainVars
<1>7. CASE Commands
  BY <1>7 DEF Commands, PostChange, PostSetting, CaseStop, requestVars, resultVars,
     ownerVars
<1>8. CASE StopStreams
  BY <1>8 DEF StopStreams, EncoderStopped, PostStop, JoinRequest, JoinResult,
     DrainTimeout, DrainEnd, requestVars, resultVars, ownerVars
<1>9. CASE UNCHANGED vars
  BY <1>9 DEF vars, requestVars, resultVars, ownerVars, mainVars
<1> QED
  BY <1>1, <1>2, <1>3, <1>4, <1>5, <1>6, <1>7, <1>8, <1>9
     DEF Next, ResultThread, Terminated

\* When the streams are freed every buffer is in its pool, if the case stops its
\* encoder before: the frames a late hand-over brought to the encoder's queue have
\* been returned, the result thread has worked off its queue, the refused request
\* has been put back and the HAL has delivered the rest or it was dropped.
THEOREM AllBuffersBack ==
  HalAnswers /\ PoolsFit /\ StopsEncoder => (Spec => []PoolsWhole)
<1> SUFFICES ASSUME HalAnswers, PoolsFit, StopsEncoder PROVE Spec => []PoolsWhole
  OBVIOUS
<1>1. Init => HandsEmpty
  BY DEF Init, HandsEmpty
<1>2. TypeInv /\ OwnerInv /\ HandsEmpty /\ [Next]_vars => HandsEmpty'
  BY HandsStep DEF TypeInv
<1>3. TypeInv /\ WindowInv /\ OwnerInv /\ [Next]_vars => OwnerInv'
  BY OwnerStep
<1>4. ASSUME WindowInv, OwnerInv, HandsEmpty, StopDrains, NoResultBehindStop,
             mnPc = "freed", NEW b \in Buffers
      PROVE  buffers_free[b] = 1 \/ b \in dropped
  <2>1. PICK k, i : Sole(b, k, i)
    BY <1>4 DEF OwnerInv, HasPlace
  <2>2. rqPc = "exit" /\ resPc = "exit"
    BY <1>4 DEF WindowInv, StopAfterExit, HandsEmpty
  <2>3. held = {} /\ encoder = {} /\ resBuffers = {} /\ resQueue = <<>>
    BY <1>4, <2>2 DEF HandsEmpty, NoResultBehindStop
  <2>4. k # "held" /\ k # "encoder" /\ k # "result"
    BY <2>1, <2>3 DEF Sole, InResult
  <2>5. k # "hal"
    BY <1>4, <2>1 DEF Sole, StopDrains
  <2>6. k # "callback"
    BY <1>4, <2>1 DEF Sole, StopDrains, InCallback
  <2>7. k # "queue"
    BY <2>1, <2>3 DEF Sole
  <2>8. k \in {"free", "dropped"}
    BY <2>1, <2>4, <2>5, <2>6, <2>7 DEF Sole
  <2> QED  BY <2>1, <2>8 DEF Sole
<1>5. WindowInv /\ OwnerInv /\ HandsEmpty /\ StopDrains /\ NoResultBehindStop => PoolsWhole
  BY <1>4 DEF PoolsWhole
<1> QED
  BY OwnerInit, <1>1, <1>2, <1>3, <1>5, TypeInvariance, WindowInvariance,
     StopLeavesNothingOut, ResultsHandledBeforeStop, PTL DEF Spec
============================================================================
