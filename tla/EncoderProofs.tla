--------------------------- MODULE EncoderProofs ---------------------------
(***************************************************************************)
(* Proofs about VideoEncoder, for any number of frames and headers, with   *)
(* gaps, a slow component and calls that fail: type correctness, that the  *)
(* encoder is a FrameHolder, that an input header is in one place; and for *)
(* a component in time, that headers are freed when it is idle.            *)
(***************************************************************************)
EXTENDS VideoEncoder, FiniteSetTheorems, TLAPS

----------------------------------------------------------------------------
(* Sequences of frames *)

RangeOf(q) == {q[i] : i \in DOMAIN q}
NoDup(q) == \A i, j \in DOMAIN q : q[i] = q[j] => i = j

\* Taking the head of a queue without duplicates takes it out of the range.
LEMMA TailRange ==
  ASSUME NEW S, NEW q \in Seq(S), q # <<>>, NoDup(q)
  PROVE  /\ RangeOf(Tail(q)) = RangeOf(q) \ {Head(q)}
         /\ Head(q) \in RangeOf(q)
         /\ NoDup(Tail(q))
<1> DEFINE t == Tail(q)
<1>1. /\ q \in [1 .. Len(q) -> S] /\ Len(q) \in Nat \ {0} /\ DOMAIN q = 1 .. Len(q)
      /\ Head(q) = q[1]
  OBVIOUS
<1>2. /\ DOMAIN t = 1 .. (Len(q) - 1)
      /\ \A i \in 1 .. (Len(q) - 1) : t[i] = q[i + 1]
  BY <1>1
<1>3. NoDup(t)
  <2> SUFFICES ASSUME NEW i \in DOMAIN t, NEW j \in DOMAIN t, t[i] = t[j]
               PROVE  i = j
    BY DEF NoDup
  <2>1. i + 1 \in DOMAIN q /\ j + 1 \in DOMAIN q /\ q[i + 1] = q[j + 1]
    BY <1>1, <1>2
  <2>2. i + 1 = j + 1
    BY <2>1 DEF NoDup
  <2> QED
    BY <2>2, <1>2
<1>4. ASSUME NEW x \in RangeOf(t) PROVE x \in RangeOf(q) \ {Head(q)}
  <2>1. PICK i \in 1 .. (Len(q) - 1) : x = q[i + 1]
    BY <1>2, <1>4 DEF RangeOf
  <2>2. i + 1 \in DOMAIN q /\ 1 \in DOMAIN q /\ i + 1 # 1
    BY <1>1
  <2>3. q[i + 1] # q[1]
    BY <2>2 DEF NoDup
  <2> QED
    BY <1>1, <2>1, <2>2, <2>3 DEF RangeOf
<1>5. ASSUME NEW x \in RangeOf(q) \ {Head(q)} PROVE x \in RangeOf(t)
  <2>1. PICK i \in 1 .. Len(q) : x = q[i] /\ i # 1
    BY <1>1, <1>5 DEF RangeOf
  <2>2. i - 1 \in 1 .. (Len(q) - 1) /\ t[i - 1] = q[i]
    BY <1>2, <2>1
  <2> QED
    BY <1>2, <2>1, <2>2 DEF RangeOf
<1>6. Head(q) \in RangeOf(q)
  BY <1>1 DEF RangeOf
<1> QED
  BY <1>3, <1>4, <1>5, <1>6

\* Appending a new frame adds it to the range.
LEMMA AppendRange ==
  ASSUME NEW S, NEW q \in Seq(S), NEW b \in S, b \notin RangeOf(q), NoDup(q)
  PROVE  /\ RangeOf(Append(q, b)) = RangeOf(q) \cup {b}
         /\ NoDup(Append(q, b))
<1> DEFINE a == Append(q, b)
<1>1. /\ Len(q) \in Nat /\ DOMAIN q = 1 .. Len(q) /\ DOMAIN a = 1 .. (Len(q) + 1)
      /\ \A i \in 1 .. Len(q) : a[i] = q[i]
      /\ a[Len(q) + 1] = b
  OBVIOUS
<1>2. \A i \in DOMAIN q : q[i] # b
  BY DEF RangeOf
<1>3. RangeOf(a) = RangeOf(q) \cup {b}
  BY <1>1 DEF RangeOf
<1>4. NoDup(a)
  <2> SUFFICES ASSUME NEW i \in DOMAIN a, NEW j \in DOMAIN a, a[i] = a[j]
               PROVE  i = j
    BY DEF NoDup
  <2>1. CASE i \in DOMAIN q /\ j \in DOMAIN q
    BY <1>1, <2>1 DEF NoDup
  <2>2. CASE i \notin DOMAIN q \/ j \notin DOMAIN q
    BY <1>1, <1>2, <2>2
  <2> QED
    BY <2>1, <2>2
<1> QED
  BY <1>3, <1>4

LEMMA AppendTwo == ASSUME NEW x, NEW y PROVE Append(<<x>>, y) = <<x, y>>
<1> DEFINE a == Append(<<x>>, y)
           S == {x, y}
<1>1. <<x>> \in Seq(S) /\ <<x, y>> \in Seq(S) /\ y \in S
  OBVIOUS
<1>2. a \in Seq(S) /\ Len(a) = 2 /\ a[1] = x /\ a[2] = y
  BY <1>1
<1>3. Len(<<x, y>>) = 2 /\ <<x, y>>[1] = x /\ <<x, y>>[2] = y
  OBVIOUS
<1>4. /\ DOMAIN a = 1 .. 2 /\ DOMAIN <<x, y>> = 1 .. 2
      /\ a = [i \in 1 .. 2 |-> a[i]] /\ <<x, y>> = [i \in 1 .. 2 |-> <<x, y>>[i]]
  BY <1>1, <1>2, <1>3
<1>5. \A i \in 1 .. 2 : a[i] = <<x, y>>[i]
  BY <1>2, <1>3
<1> HIDE DEF a
<1>6. a = <<x, y>>
  BY <1>4, <1>5
<1> QED
  BY <1>6 DEF a

----------------------------------------------------------------------------
(* Type correctness *)

LEMMA TypeInit == Init => TypeOK
<1> SUFFICES ASSUME Init PROVE TypeOK
  OBVIOUS
<1>1. /\ 1 \in InBufs /\ 1 \in OutBufs
      /\ 0 \in 0 .. m_nOutputBufferCount + m_nInputBufferCount
  BY EncoderAssumption DEF InBufs, OutBufs
<1>2. omxCmds \in Seq({"loaded", "idle", "executing"})
  <2>1. omxCmds = <<"idle">> \/ omxCmds = <<>>
    BY DEF Init
  <2>2. <<"idle">> \in Seq({"loaded", "idle", "executing"})
    OBVIOUS
  <2>3. <<>> \in Seq({"loaded", "idle", "executing"})
    OBVIOUS
  <2> QED
    BY <2>1, <2>2, <2>3
<1>3. mBufferQueue \in Seq(Frames) /\ m_infightQ \in Seq(InMsg)
      /\ m_outfightQ \in Seq(OutMsg)
  BY DEF Init
<1> QED
  BY <1>1, <1>2, <1>3 DEF Init, TypeOK

LEMMA MessageTypes ==
  /\ Exit \in InMsg /\ Exit \in OutMsg
  /\ \A h \in InBufs : Read(h) \in InMsg
  /\ \A h \in OutBufs : Write(h) \in OutMsg /\ EmptyBuf(h) \in OutMsg
<1>1. 1 \in InBufs /\ 1 \in OutBufs
  BY EncoderAssumption DEF InBufs, OutBufs
<1> QED
  BY <1>1 DEF Exit, Read, Write, EmptyBuf, InMsg, OutMsg

\* The header that start() queues next is one of the input port's.
LEMMA QueuesHeader ==
  ASSUME TypeOK, queued >= m_nOutputBufferCount, ~AllQueued
  PROVE  /\ queued - m_nOutputBufferCount + 1 \in InBufs
         /\ queued + 1 \in 0 .. m_nOutputBufferCount + m_nInputBufferCount
<1> DEFINE o == m_nOutputBufferCount
           i == m_nInputBufferCount
<1>1. o \in Nat /\ i \in Nat /\ queued \in 0 .. o + i /\ queued >= o /\ queued # o + i
  BY EncoderAssumption DEF TypeOK, AllQueued
<1> HIDE DEF o, i
<1>2. queued - o + 1 \in 1 .. i /\ queued + 1 \in 0 .. o + i
  BY <1>1
<1> QED
  BY <1>2 DEF o, i, InBufs

LEMMA StartType == TypeOK /\ Start => TypeOK'
<1> SUFFICES ASSUME TypeOK, Start PROVE TypeOK'
  OBVIOUS
<1> USE DEF frameVars, inVars, outVars, msgVars, stateVars, omxVars
<1>1. CASE StartThreads
  <2> DEFINE Cmd == {"loaded", "idle", "executing"}
  <2>1. omxCmds \in Seq(Cmd) /\ "executing" \in Cmd
    BY DEF TypeOK
  <2>2. Append(omxCmds, "executing") \in Seq(Cmd)
    BY <2>1
  <2>3. omxCmds' \in Seq(Cmd)
    BY <1>1, <2>1, <2>2 DEF StartThreads
  <2> QED
    BY <1>1, <2>3 DEF StartThreads, TypeOK
<1>2. CASE QueueOutput
  <2>1. /\ queued \in Nat /\ queued < m_nOutputBufferCount
        /\ queued' = queued + 1 /\ m_outfightQ' = Append(m_outfightQ, EmptyBuf(queued + 1))
    BY <1>2 DEF QueueOutput, TypeOK
  <2>2. queued + 1 \in OutBufs
    BY <2>1, EncoderAssumption DEF OutBufs
  <2>3. m_outfightQ' \in Seq(OutMsg)
    BY <2>1, <2>2, MessageTypes DEF TypeOK
  <2>4. queued' \in 0 .. m_nOutputBufferCount + m_nInputBufferCount
    BY <2>1, EncoderAssumption
  <2> QED
    BY <1>2, <2>3, <2>4 DEF QueueOutput, TypeOK
<1>3. CASE QueueInput
  <2>1. /\ queued' = queued + 1 /\ m_infightQ' = Append(m_infightQ, NextRead)
        /\ queued - m_nOutputBufferCount + 1 \in InBufs
        /\ queued' \in 0 .. m_nOutputBufferCount + m_nInputBufferCount
    BY <1>3, QueuesHeader DEF QueueInput
  <2>2. m_infightQ' \in Seq(InMsg)
    BY <2>1, MessageTypes DEF TypeOK, NextRead
  <2> QED
    BY <1>3, <2>1, <2>2 DEF QueueInput, TypeOK
<1>4. CASE StartState
  BY <1>4 DEF StartState, TypeOK
<1> QED
  BY <1>1, <1>2, <1>3, <1>4 DEF Start

LEMMA CallerType == TypeOK /\ Caller => TypeOK'
<1> SUFFICES ASSUME TypeOK, Caller PROVE TypeOK'
  OBVIOUS
<1> USE DEF frameVars, inVars, outVars, msgVars, stateVars, omxVars
<1>1. CASE TestStop
  BY <1>1 DEF TestStop, TypeOK
<1>2. CASE EnqueueFrameBuffer
  BY <1>2 DEF EnqueueFrameBuffer, TypeOK
<1>3. CASE EnqueueLate
  BY <1>3 DEF EnqueueLate, TypeOK
<1> QED
  BY <1>1, <1>2, <1>3 DEF Caller

LEMMA LoopType == TypeOK /\ (InLoop \/ OutLoop) => TypeOK'
<1> SUFFICES ASSUME TypeOK, InLoop \/ OutLoop PROVE TypeOK'
  OBVIOUS
<1> USE DEF frameVars, inVars, outVars, msgVars, stateVars, omxVars
<1>1. CASE InTake
  <2>1. Head(m_infightQ) \in InMsg /\ Tail(m_infightQ) \in Seq(InMsg)
    BY <1>1 DEF InTake, TypeOK
  <2> QED
    BY <1>1, <2>1 DEF InTake, TypeOK, InMsg
<1>2. CASE ReadFrame
  BY <1>2 DEF ReadFrame, TypeOK
<1>3. CASE ReadTimeout
  BY <1>3 DEF ReadTimeout, TypeOK
<1>4. CASE ReadReturn
  BY <1>4 DEF ReadReturn, TypeOK
<1>5. CASE EmptyThisBuffer
  BY <1>5 DEF EmptyThisBuffer, TypeOK
<1>6. CASE OutTake
  <2>1. Head(m_outfightQ) \in OutMsg /\ Tail(m_outfightQ) \in Seq(OutMsg)
    BY <1>6 DEF OutTake, TypeOK
  <2> QED
    BY <1>6, <2>1 DEF OutTake, TypeOK, OutMsg
<1>7. CASE FillThisBuffer
  BY <1>7 DEF FillThisBuffer, TypeOK
<1> QED
  BY <1>1, <1>2, <1>3, <1>4, <1>5, <1>6, <1>7 DEF InLoop, OutLoop

LEMMA ComponentType == TypeOK /\ Component => TypeOK'
<1> SUFFICES ASSUME TypeOK, Component PROVE TypeOK'
  OBVIOUS
<1> USE DEF frameVars, inVars, outVars, msgVars, stateVars, omxVars
<1>1. CASE OmxStateSet
  <2>1. /\ Head(omxCmds) \in {"loaded", "idle", "executing"}
        /\ Tail(omxCmds) \in Seq({"loaded", "idle", "executing"})
    BY <1>1 DEF OmxStateSet, TypeOK
  <2>2. /\ omxState' \in {"loaded", "idle", "executing"}
        /\ omxCmds' \in Seq({"loaded", "idle", "executing"})
    BY <1>1, <2>1 DEF OmxStateSet
  <2>3. m_State' \in {"none", "start", "idle", "loaded"}
    BY <1>1 DEF OmxStateSet, StateAfter, TypeOK
  <2> QED
    BY <1>1, <2>2, <2>3 DEF OmxStateSet, TypeOK
<1>2. CASE OmxEmptied
  BY <1>2, MessageTypes DEF OmxEmptied, ReadAgain, TypeOK
<1>3. CASE OmxFilled
  BY <1>3, MessageTypes DEF OmxFilled, TypeOK
<1> QED
  BY <1>1, <1>2, <1>3 DEF Component

LEMMA StopType == TypeOK /\ (StopFlush \/ Stop) => TypeOK'
<1> SUFFICES ASSUME TypeOK, StopFlush \/ Stop PROVE TypeOK'
  OBVIOUS
<1> USE DEF frameVars, inVars, outVars, msgVars, stateVars, omxVars
<1>1. CASE StopFlush
  BY <1>1 DEF StopFlush, TypeOK
<1>2. CASE StopLoops
  BY <1>2, MessageTypes DEF StopLoops, TypeOK
<1>3. CASE JoinLoops
  <2> DEFINE Cmd == {"loaded", "idle", "executing"}
  <2>1. omxCmds \in Seq(Cmd) /\ "idle" \in Cmd
    BY DEF TypeOK
  <2>2. Append(omxCmds, "idle") \in Seq(Cmd)
    BY <2>1
  <2>3. omxCmds' \in Seq(Cmd)
    BY <1>3, <2>1, <2>2 DEF JoinLoops
  <2> QED
    BY <1>3, <2>3 DEF JoinLoops, TypeOK
<1>4. CASE FreeBuffers
  <2> DEFINE Cmd == {"loaded", "idle", "executing"}
  <2>1. omxCmds \in Seq(Cmd) /\ "loaded" \in Cmd
    BY DEF TypeOK
  <2>2. Append(omxCmds, "loaded") \in Seq(Cmd)
    BY <2>1
  <2>3. omxCmds' \in Seq(Cmd)
    BY <1>4, <2>1, <2>2 DEF FreeBuffers
  <2>4. /\ mainPc' = "drain" /\ freed' \in BOOLEAN
        /\ UNCHANGED <<frameVars, inVars, outVars, msgVars, queued, m_State, omxState,
                       omxIn, omxOut>>
    BY <1>4 DEF FreeBuffers, TypeOK
  <2> QED
    BY <2>3, <2>4, SMTT(20) DEF TypeOK
<1>5. CASE Drain
  BY <1>5 DEF Drain, TypeOK
<1>6. CASE DeleteQueue
  BY <1>6 DEF DeleteQueue, TypeOK
<1> QED
  BY <1>1, <1>2, <1>3, <1>4, <1>5, <1>6 DEF Stop

\* The variables of the encoder stay in their ranges on every path, the
\* failing calls and the reads that time out included.
THEOREM EncoderTypeCorrect == Spec => []TypeOK
<1>1. TypeOK /\ [Next]_vars => TypeOK'
  <2>1. TypeOK /\ UNCHANGED vars => TypeOK'
    BY DEF TypeOK, vars, frameVars, inVars, outVars, msgVars, stateVars, omxVars
  <2> QED
    BY <2>1, StartType, CallerType, LoopType, ComponentType, StopType DEF Next, Stopped
<1> QED
  BY <1>1, TypeInit, PTL DEF Spec
----------------------------------------------------------------------------
(* The encoder is a FrameHolder *)

\* A frame is in the queue once, or in Read, or in the pool; only the input loop
\* holds one outside the queue, and it has ended when the queue is deleted.
HolderInv ==
  /\ NoDup(mBufferQueue)
  /\ RangeOf(mBufferQueue) \cap reading = {}
  /\ pool \cap Inside = {}
  /\ reading # {} => inPc = "copy"
  /\ mainPc = "start" => inPc = "none"
  /\ mainPc \in {"idle", "drain", "stopped"} => inPc = "exit"
  /\ deleted => mainPc = "stopped"

LEMMA InsideRange == Inside = RangeOf(mBufferQueue) \cup reading
  BY DEF Inside, RangeOf

LEMMA HolderInit == Init => HolderInv /\ Holder!Init
<1> SUFFICES ASSUME Init PROVE HolderInv /\ Holder!Init
  OBVIOUS
<1>1. RangeOf(mBufferQueue) = {} /\ NoDup(mBufferQueue)
  BY DEF Init, RangeOf, NoDup
<1>2. Inside = {}
  BY <1>1, InsideRange DEF Init
<1> QED
  BY <1>1, <1>2 DEF Init, HolderInv, Holder!Init

\* Steps that move no frame and do not delete the queue stutter.
LEMMA HolderStutters ==
  ASSUME HolderInv, UNCHANGED <<mBufferQueue, deleted, reading, pool>>,
         reading # {} => inPc' = "copy",
         mainPc' = "start" => inPc' = "none",
         mainPc' \in {"idle", "drain", "stopped"} => inPc' = "exit",
         deleted => mainPc' = "stopped"
  PROVE  HolderInv' /\ UNCHANGED Holder!holderVars
<1>1. Inside' = Inside
  BY DEF Inside
<1>2. NoDup(mBufferQueue)' /\ RangeOf(mBufferQueue)' = RangeOf(mBufferQueue)
  BY DEF HolderInv, NoDup, RangeOf
<1> QED
  BY <1>1, <1>2 DEF HolderInv, Holder!holderVars

LEMMA EnqueueTakes ==
  TypeOK /\ HolderInv /\ EnqueueFrameBuffer => HolderInv' /\ Holder!Take
<1> SUFFICES ASSUME TypeOK, HolderInv, EnqueueFrameBuffer
             PROVE  HolderInv' /\ Holder!Take
  OBVIOUS
<1>1. PICK b \in pool : /\ mBufferQueue' = Append(mBufferQueue, b)
                         /\ pool' = pool \ {b}
  BY DEF EnqueueFrameBuffer
<1>2. UNCHANGED <<deleted, reading, inPc, mainPc>> /\ ~deleted
  BY DEF EnqueueFrameBuffer, inVars
<1>3. b \in Frames /\ b \notin Inside /\ mBufferQueue \in Seq(Frames)
  BY DEF HolderInv, TypeOK
<1>4. b \notin RangeOf(mBufferQueue) /\ b \notin reading
  BY <1>3, InsideRange
<1>5. /\ RangeOf(mBufferQueue') = RangeOf(mBufferQueue) \cup {b}
      /\ NoDup(mBufferQueue')
  BY <1>1, <1>3, <1>4, AppendRange DEF HolderInv
<1>6. Inside' = Inside \cup {b}
  BY <1>2, <1>5, InsideRange DEF Inside, RangeOf
<1>7. HolderInv'
  BY <1>1, <1>2, <1>4, <1>5, <1>6 DEF HolderInv, NoDup, RangeOf
<1> QED
  BY <1>1, <1>2, <1>6, <1>7 DEF Holder!Take

LEMMA ReadFrameStutters ==
  TypeOK /\ HolderInv /\ ReadFrame => HolderInv' /\ UNCHANGED Holder!holderVars
<1> SUFFICES ASSUME TypeOK, HolderInv, ReadFrame
             PROVE  HolderInv' /\ UNCHANGED Holder!holderVars
  OBVIOUS
<1>1. /\ inPc = "read" /\ mBufferQueue # <<>> /\ inPc' = "copy"
      /\ reading' = {Head(mBufferQueue)} /\ mBufferQueue' = Tail(mBufferQueue)
      /\ UNCHANGED <<deleted, pool, mainPc>>
  BY DEF ReadFrame
<1>2. mBufferQueue \in Seq(Frames) /\ NoDup(mBufferQueue) /\ reading = {}
  BY <1>1 DEF TypeOK, HolderInv
<1>3. /\ RangeOf(mBufferQueue') = RangeOf(mBufferQueue) \ {Head(mBufferQueue)}
      /\ Head(mBufferQueue) \in RangeOf(mBufferQueue)
      /\ NoDup(mBufferQueue')
  BY <1>1, <1>2, TailRange
<1>4. Inside' = RangeOf(mBufferQueue') \cup reading'
  BY DEF Inside, RangeOf
<1>5. Inside' = Inside
  BY <1>1, <1>2, <1>3, <1>4, InsideRange
<1>6. mainPc \notin {"start", "idle", "drain", "stopped"}
  BY <1>1 DEF HolderInv
<1> QED
  BY <1>1, <1>3, <1>5, <1>6 DEF HolderInv, Holder!holderVars, NoDup, RangeOf

LEMMA ReadReturnGivesBack ==
  TypeOK /\ HolderInv /\ ReadReturn => HolderInv' /\ Holder!GiveBack
<1> SUFFICES ASSUME TypeOK, HolderInv, ReadReturn
             PROVE  HolderInv' /\ Holder!GiveBack
  OBVIOUS
<1>1. /\ inPc = "copy" /\ pool' = pool \cup reading /\ reading' = {}
      /\ UNCHANGED <<mBufferQueue, deleted, mainPc>>
  BY DEF ReadReturn
<1>2. RangeOf(mBufferQueue)' = RangeOf(mBufferQueue)
  BY <1>1 DEF RangeOf
<1>3. Inside' = RangeOf(mBufferQueue)
  BY <1>1, <1>2 DEF Inside, RangeOf
<1>4. Inside' = Inside \ reading /\ reading \subseteq Inside
  BY <1>3, InsideRange DEF HolderInv
<1>5. mainPc \notin {"start", "idle", "drain", "stopped"}
  BY <1>1 DEF HolderInv
<1>6. pool' \cap Inside' = {}
  BY <1>1, <1>3, <1>4 DEF HolderInv
<1>7. NoDup(mBufferQueue)'
  BY <1>1 DEF HolderInv, NoDup
<1>8. HolderInv'
  BY <1>1, <1>5, <1>6, <1>7 DEF HolderInv
<1> QED
  BY <1>1, <1>4, <1>8 DEF Holder!GiveBack

LEMMA DrainGivesBack ==
  TypeOK /\ HolderInv /\ Drain => HolderInv' /\ Holder!GiveBack
<1> SUFFICES ASSUME TypeOK, HolderInv, Drain PROVE HolderInv' /\ Holder!GiveBack
  OBVIOUS
<1> DEFINE b == Head(mBufferQueue)
<1>1. /\ mainPc = "drain" /\ mBufferQueue # <<>>
      /\ mBufferQueue' = Tail(mBufferQueue) /\ pool' = pool \cup {b}
      /\ UNCHANGED <<deleted, reading, inPc, mainPc>>
  BY DEF Drain, inVars
<1>2. mBufferQueue \in Seq(Frames) /\ NoDup(mBufferQueue) /\ inPc = "exit"
  BY <1>1 DEF TypeOK, HolderInv
<1>3. reading = {}
  BY <1>2 DEF HolderInv
<1>4. /\ RangeOf(mBufferQueue') = RangeOf(mBufferQueue) \ {b}
      /\ b \in RangeOf(mBufferQueue)
      /\ NoDup(mBufferQueue')
  BY <1>1, <1>2, TailRange
<1>5. Inside' = RangeOf(mBufferQueue') \cup reading'
  BY DEF Inside, RangeOf
<1>6. Inside' = Inside \ {b} /\ b \in Inside
  BY <1>1, <1>3, <1>4, <1>5, InsideRange
<1>7. NoDup(mBufferQueue)'
  BY <1>4 DEF NoDup
<1>8. HolderInv'
  BY <1>1, <1>2, <1>3, <1>6, <1>7 DEF HolderInv
<1> QED
  BY <1>1, <1>6, <1>8 DEF Holder!GiveBack

LEMMA DeleteQueueShuts ==
  TypeOK /\ HolderInv /\ DeleteQueue => HolderInv' /\ Holder!GiveBack
<1> SUFFICES ASSUME TypeOK, HolderInv, DeleteQueue
             PROVE  HolderInv' /\ Holder!GiveBack
  OBVIOUS
<1>1. /\ mainPc = "drain" /\ mBufferQueue = <<>>
      /\ deleted' = TRUE /\ mainPc' = "stopped"
      /\ UNCHANGED <<mBufferQueue, reading, pool, inPc>>
  BY DEF DeleteQueue, QueueDrained, inVars
<1>2. reading = {} /\ inPc = "exit"
  BY <1>1 DEF HolderInv
<1>3. Inside = {} /\ Inside' = {}
  BY <1>1, <1>2 DEF Inside
<1>4. HolderInv'
  BY <1>1, <1>2, <1>3 DEF HolderInv, NoDup, RangeOf
<1> QED
  BY <1>1, <1>3, <1>4 DEF Holder!GiveBack

LEMMA HolderStep ==
  TypeOK /\ HolderInv /\ [Next]_vars => HolderInv' /\ [Holder!Next]_Holder!holderVars
<1> SUFFICES ASSUME TypeOK, HolderInv, [Next]_vars
             PROVE  HolderInv' /\ [Holder!Next]_Holder!holderVars
  OBVIOUS
<1> USE DEF frameVars, inVars, outVars, msgVars, stateVars, omxVars
<1>1. CASE Start
  BY <1>1, HolderStutters DEF Start, StartThreads, QueueOutput, QueueInput, StartState,
                              HolderInv
<1>2. CASE Caller
  <2>1. CASE EnqueueFrameBuffer
    BY <2>1, EnqueueTakes DEF Holder!Next
  <2>2. CASE TestStop \/ EnqueueLate
    BY <2>2, HolderStutters DEF TestStop, EnqueueLate, HolderInv
  <2> QED
    BY <1>2, <2>1, <2>2 DEF Caller
<1>3. CASE InTake \/ ReadTimeout \/ EmptyThisBuffer
  BY <1>3, HolderStutters DEF InTake, ReadTimeout, EmptyThisBuffer, HolderInv
<1>4. CASE ReadFrame
  BY <1>4, ReadFrameStutters
<1>5. CASE ReadReturn
  BY <1>5, ReadReturnGivesBack DEF Holder!Next
<1>6. CASE OutLoop
  BY <1>6, HolderStutters DEF OutLoop, OutTake, FillThisBuffer, HolderInv
<1>7. CASE Component
  BY <1>7, HolderStutters DEF Component, OmxStateSet, OmxEmptied, OmxFilled, HolderInv
<1>8. CASE StopFlush \/ StopLoops
  BY <1>8, HolderStutters DEF StopFlush, StopLoops, HolderInv
<1>9. CASE JoinLoops
  BY <1>9, HolderStutters DEF JoinLoops, LoopsEnded, HolderInv
<1>10. CASE FreeBuffers
  BY <1>10, HolderStutters DEF FreeBuffers, HolderInv
<1>11. CASE Drain
  BY <1>11, DrainGivesBack DEF Holder!Next
<1>12. CASE DeleteQueue
  BY <1>12, DeleteQueueShuts DEF Holder!Next
<1>13. CASE Stopped \/ UNCHANGED vars
  BY <1>13, HolderStutters DEF Stopped, vars, HolderInv
<1> QED
  BY <1>1, <1>2, <1>3, <1>4, <1>5, <1>6, <1>7, <1>8, <1>9, <1>10, <1>11, <1>12,
     <1>13 DEF Next, InLoop, Stop

\* The encoder is empty when its queue is deleted, whenever a frame that the result
\* thread had in hand is queued: also while stop() joins the loops or drains, and on
\* the failing paths.  It gives back only frames it has
\* (QCamxHAL3TestVideoEncoder.cpp:133-156, 253-260).
THEOREM EncoderHoldsFrames == Spec => HolderSpec
<1>1. Spec => [](TypeOK /\ HolderInv)
  <2>1. Spec => []TypeOK
    BY EncoderTypeCorrect
  <2>2. TypeOK /\ HolderInv /\ [Next]_vars => HolderInv'
    BY HolderStep
  <2> QED
    BY <2>1, <2>2, HolderInit, PTL DEF Spec
<1> QED
  BY <1>1, HolderInit, HolderStep, PTL DEF Spec, HolderSpec, Holder!Spec

----------------------------------------------------------------------------
(* The headers are freed only under an idle component *)

Quiet == omxState = "idle" /\ omxIn = {} /\ omxOut = {}

\* The executing state is on its way or reached, and nothing else was asked for.
Executing == \/ omxCmds = <<"executing">>
             \/ omxCmds = <<>> /\ omxState = "executing"

\* The commands of the caller never overtake the component by more than one
\* state: m_State is idle only after the idle state stop() has asked for.
StateInv ==
  /\ m_OmxHandle /\ mainPc # "fault"
  /\ mainPc = "start" => omxCmds \in {<<>>, <<"idle">>} /\ m_State = "none"
  /\ mainPc = "queue" => Executing /\ m_State = "none"
  /\ mainPc \in {"run", "exit", "join"} => Executing /\ m_State = "start"
  /\ mainPc = "idle" =>
       /\ LoopsEnded
       /\ \/ omxCmds = <<"executing", "idle">> /\ m_State = "start"
          \/ omxCmds = <<"idle">> /\ omxState = "executing" /\ m_State = "start"
          \/ omxCmds = <<>> /\ Quiet
  /\ freed => mainPc \in {"drain", "stopped"} /\ LoopsEnded /\ Quiet

LEMMA StateStart ==
  ASSUME ~SlowConfig, ~OmxRejects, TypeOK, StateInv,
         Start \/ Caller \/ StopFlush \/ StopLoops
  PROVE  StateInv'
<1> USE DEF frameVars, inVars, outVars, msgVars, stateVars, omxVars
<1>1. CASE StartThreads
  <2>1. omxCmds = <<>> /\ omxCmds' = Append(omxCmds, "executing")
    BY <1>1 DEF StartThreads, StateInv
  <2>2. m_State' = "none" /\ mainPc' = "queue" /\ ~freed' /\ m_OmxHandle'
    BY <1>1 DEF StartThreads, StateInv, m_OmxHandle
  <2> QED
    BY <2>1, <2>2 DEF StateInv, Executing
<1>2. CASE QueueOutput \/ QueueInput \/ Caller
  <2>1. UNCHANGED <<omxVars, m_State, freed, mainPc, inPc, outPc>>
    BY <1>2 DEF QueueOutput, QueueInput, Caller, TestStop, EnqueueFrameBuffer, EnqueueLate
  <2> QED
    BY <2>1 DEF StateInv, Executing, m_OmxHandle, Quiet, LoopsEnded
<1>3. CASE StartState \/ StopFlush \/ StopLoops
  BY <1>3 DEF StartState, StopFlush, StopLoops, StateInv, Executing, m_OmxHandle
<1> QED
  BY <1>1, <1>2, <1>3 DEF Start

LEMMA StateLoops ==
  ASSUME TypeOK, StateInv, InLoop \/ OutLoop
  PROVE  StateInv'
<1> USE DEF frameVars, inVars, outVars, msgVars, stateVars, omxVars
<1>1. UNCHANGED <<omxState, omxCmds, m_State, freed, mainPc>> /\ ~LoopsEnded
  BY DEF InLoop, OutLoop, InTake, ReadFrame, ReadTimeout, ReadReturn, EmptyThisBuffer,
         OutTake, FillThisBuffer, LoopsEnded
<1> QED
  BY <1>1 DEF StateInv, Executing, m_OmxHandle

LEMMA StateComponent ==
  ASSUME TypeOK, StateInv, Component
  PROVE  StateInv'
<1> USE DEF frameVars, inVars, outVars, msgVars, stateVars, omxVars
<1>1. ~freed /\ mainPc \notin {"drain", "stopped"}
      /\ UNCHANGED <<mainPc, freed, inPc, outPc>>
  BY DEF Component, OmxStateSet, OmxEmptied, OmxFilled, Alive, StateInv
<1>2. m_OmxHandle' /\ mainPc' # "fault"
  <2>1. CASE OmxStateSet
    <3>1. Head(omxCmds) \in {"loaded", "idle", "executing"}
      BY <2>1 DEF OmxStateSet, TypeOK
    <3> QED
      BY <1>1, <2>1, <3>1 DEF OmxStateSet, StateInv, m_OmxHandle
  <2>2. CASE OmxEmptied \/ OmxFilled
    BY <1>1, <2>2 DEF OmxEmptied, OmxFilled, StateInv, m_OmxHandle
  <2> QED
    BY <2>1, <2>2 DEF Component
<1>3. CASE OmxStateSet
  <2>1. /\ omxCmds # <<>> /\ (Head(omxCmds) = "idle" => Idle)
        /\ omxState' = Head(omxCmds) /\ omxCmds' = Tail(omxCmds)
        /\ m_State' = StateAfter(Head(omxCmds))
        /\ UNCHANGED <<omxIn, omxOut>>
    BY <1>3 DEF OmxStateSet
  <2>2. CASE omxCmds = <<"executing">>
    <3>1. omxCmds' = <<>> /\ omxState' = "executing" /\ m_State' = m_State
      BY <2>1, <2>2 DEF StateAfter
    <3> QED
      BY <1>1, <1>2, <2>2, <3>1 DEF StateInv, Executing
  <2>3. CASE omxCmds = <<"executing", "idle">>
    <3>1. omxCmds' = <<"idle">> /\ omxState' = "executing" /\ m_State' = m_State
      BY <2>1, <2>3 DEF StateAfter
    <3>2. mainPc = "idle"
      BY <1>1, <2>3 DEF StateInv, Executing, TypeOK
    <3> QED
      BY <1>1, <1>2, <2>3, <3>1, <3>2 DEF StateInv, LoopsEnded
  <2>4. CASE omxCmds = <<"idle">> /\ mainPc = "idle"
    <3>1. omxState = "executing" /\ LoopsEnded
      BY <2>4 DEF StateInv
    <3>2. omxCmds' = <<>> /\ omxState' = "idle" /\ Quiet'
      BY <2>1, <2>4, <3>1 DEF Idle, Quiet
    <3> QED
      BY <1>1, <1>2, <2>4, <3>1, <3>2 DEF StateInv, LoopsEnded
  <2>5. CASE omxCmds = <<"idle">> /\ mainPc = "start"
    <3>1. omxCmds' = <<>> /\ m_State' = "none"
      BY <2>1, <2>5 DEF StateAfter, StateInv
    <3> QED
      BY <1>1, <1>2, <2>5, <3>1 DEF StateInv
  <2> QED
    BY <1>1, <2>1, <2>2, <2>3, <2>4, <2>5 DEF StateInv, Executing, TypeOK
<1>4. CASE OmxEmptied \/ OmxFilled
  <2>1. omxState = "executing" /\ UNCHANGED <<omxState, omxCmds, m_State>>
    BY <1>4 DEF OmxEmptied, OmxFilled
  <2> QED
    BY <1>1, <1>2, <2>1 DEF StateInv, Executing, Quiet, LoopsEnded
<1> QED
  BY <1>3, <1>4 DEF Component

LEMMA StateStop ==
  ASSUME ~OmxStalls, TypeOK, StateInv, JoinLoops \/ FreeBuffers \/ Drain \/ DeleteQueue
  PROVE  StateInv'
<1> USE DEF frameVars, inVars, outVars, msgVars, stateVars, omxVars
<1>1. CASE JoinLoops
  <2>1. /\ mainPc = "join" /\ LoopsEnded /\ Executing /\ m_State = "start" /\ ~freed
        /\ m_OmxHandle /\ m_OmxHandle'
        /\ UNCHANGED <<inPc, outPc, m_State, freed, omxState>>
    BY <1>1 DEF JoinLoops, StateInv, m_OmxHandle
  <2>2. CASE mainPc' = "drain"
    BY <2>1, <2>2 DEF StateInv
  <2>3. CASE mainPc' = "idle" /\ omxCmds' = Append(omxCmds, "idle")
    <3>1. CASE omxCmds = <<"executing">>
      <4>1. Append(<<"executing">>, "idle") = <<"executing", "idle">>
        BY AppendTwo
      <4> QED
        BY <2>1, <2>3, <3>1, <4>1 DEF StateInv, LoopsEnded
    <3>2. CASE omxCmds = <<>> /\ omxState = "executing"
      <4>1. Append(<<>>, "idle") = <<"idle">>
        OBVIOUS
      <4> QED
        BY <2>1, <2>3, <3>2, <4>1 DEF StateInv, LoopsEnded
    <3> QED
      BY <2>1, <3>1, <3>2 DEF Executing
  <2> QED
    BY <1>1, <2>1, <2>2, <2>3 DEF JoinLoops
<1>2. CASE FreeBuffers
  <2>1. LoopsEnded /\ Quiet
    BY <1>2 DEF FreeBuffers, StateInv
  <2> QED
    BY <1>2, <2>1 DEF FreeBuffers, StateInv, Quiet, LoopsEnded, m_OmxHandle
<1>3. CASE Drain \/ DeleteQueue
  BY <1>3 DEF Drain, DeleteQueue, StateInv, Quiet, LoopsEnded, m_OmxHandle
<1> QED
  BY <1>1, <1>2, <1>3

\* stop() frees the headers only when the component has given all of them back
\* and is idle, if it answers within five seconds, accepts its calls, and start()
\* did not overtake the state change of setConfig.
THEOREM HeadersFreedWhenIdle ==
  ASSUME ~SlowConfig, ~OmxStalls, ~OmxRejects
  PROVE  Spec => []FreedWhenIdle
<1>1. Init => StateInv
  BY DEF Init, StateInv, m_OmxHandle
<1>2. TypeOK /\ StateInv /\ [Next]_vars => StateInv'
  <2> SUFFICES ASSUME TypeOK, StateInv, [Next]_vars PROVE StateInv'
    OBVIOUS
  <2>1. CASE UNCHANGED vars
    BY <2>1 DEF vars, inVars, outVars, stateVars, omxVars, StateInv, Executing, Quiet,
                LoopsEnded, m_OmxHandle
  <2> QED
    BY <2>1, StateStart, StateLoops, StateComponent, StateStop DEF Next, Stop, Stopped
<1>3. StateInv => FreedWhenIdle
  BY DEF StateInv, Quiet, FreedWhenIdle
<1>4. Spec => []TypeOK
  BY EncoderTypeCorrect
<1> QED
  BY <1>1, <1>2, <1>3, <1>4, PTL DEF Spec

----------------------------------------------------------------------------
(* An input header has one user *)

InQueue(q, h) == \E i \in DOMAIN q : q[i] = Read(h)
Once(q, h) == \A i, j \in DOMAIN q : q[i] = Read(h) /\ q[j] = Read(h) => i = j

LEMMA TailHeaders ==
  ASSUME NEW q \in Seq(InMsg), q # <<>>, NEW h, Once(q, h)
  PROVE  /\ Once(Tail(q), h)
         /\ InQueue(Tail(q), h) => InQueue(q, h) /\ Head(q) # Read(h)
         /\ Head(q) = Read(h) => InQueue(q, h)
<1> DEFINE t == Tail(q)
<1>1. /\ Len(q) \in Nat \ {0} /\ DOMAIN q = 1 .. Len(q) /\ Head(q) = q[1]
      /\ DOMAIN t = 1 .. (Len(q) - 1)
      /\ \A i \in 1 .. (Len(q) - 1) : t[i] = q[i + 1]
  OBVIOUS
<1> HIDE DEF t
<1>2. \A i \in DOMAIN t : i + 1 \in DOMAIN q /\ t[i] = q[i + 1] /\ i + 1 # 1 /\ i \in Int
  BY <1>1
<1>3. 1 \in DOMAIN q
  BY <1>1
<1>4. Once(t, h)
  <2> SUFFICES ASSUME NEW i \in DOMAIN t, NEW j \in DOMAIN t, t[i] = Read(h), t[j] = Read(h)
      PROVE  i = j
    BY DEF Once
  <2>1. i + 1 = j + 1
    BY <1>2 DEF Once
  <2> QED
    BY <1>2, <2>1
<1>5. ASSUME InQueue(t, h) PROVE InQueue(q, h) /\ Head(q) # Read(h)
  <2>1. PICK i \in DOMAIN t : t[i] = Read(h)
    BY <1>5 DEF InQueue
  <2> QED
    BY <1>1, <1>2, <1>3, <2>1 DEF InQueue, Once
<1>6. Head(q) = Read(h) => InQueue(q, h)
  BY <1>1, <1>3 DEF InQueue
<1> QED
  BY <1>4, <1>5, <1>6 DEF t

LEMMA AppendHeaders ==
  ASSUME NEW q \in Seq(InMsg), NEW m \in InMsg, NEW h, Once(q, h),
         m = Read(h) => ~InQueue(q, h)
  PROVE  /\ Once(Append(q, m), h)
         /\ InQueue(Append(q, m), h) => InQueue(q, h) \/ m = Read(h)
<1> DEFINE a == Append(q, m)
<1>1. /\ Len(q) \in Nat /\ DOMAIN q = 1 .. Len(q) /\ DOMAIN a = 1 .. (Len(q) + 1)
      /\ \A i \in 1 .. Len(q) : a[i] = q[i]
      /\ a[Len(q) + 1] = m
  OBVIOUS
<1> HIDE DEF a
<1>2. \A i \in DOMAIN a : \/ i \in DOMAIN q /\ a[i] = q[i]
                          \/ i = Len(q) + 1 /\ a[i] = m
  BY <1>1
<1> QED
  BY <1>2 DEF Once, InQueue, a

\* The input loop has the header.
InLoopHas(h) == inPc \in {"read", "copy", "empty"} /\ inBuf = h

HeaderAt(h) ==
  /\ Once(m_infightQ, h)
  /\ InQueue(m_infightQ, h) => ~InLoopHas(h) /\ h \notin omxIn
  /\ InLoopHas(h) => h \notin omxIn

\* start() hands every header out once: before that nobody has it.
Unqueued(h) ==
  mainPc \in {"start", "queue"} /\ h > queued - m_nOutputBufferCount
    => ~InQueue(m_infightQ, h) /\ ~InLoopHas(h) /\ h \notin omxIn

HeaderInv == \A h \in InBufs : HeaderAt(h) /\ Unqueued(h)

LEMMA HeadersKept ==
  ASSUME HeaderInv, UNCHANGED <<m_infightQ, omxIn, inBuf, queued>>,
         inPc' \in {"read", "copy", "empty"} => inPc \in {"read", "copy", "empty"},
         mainPc' \in {"start", "queue"} => mainPc \in {"start", "queue"}
  PROVE  HeaderInv'
BY DEF HeaderInv, HeaderAt, Unqueued, InLoopHas, Once, InQueue

LEMMA HeaderStart ==
  ASSUME TypeOK, HeaderInv, Start \/ Caller
  PROVE  HeaderInv'
<1> USE DEF frameVars, inVars, outVars, msgVars, stateVars, omxVars
<1>1. CASE StartThreads \/ StartState \/ Caller
  BY <1>1, HeadersKept DEF StartThreads, StartState, Caller, TestStop, EnqueueFrameBuffer,
                           EnqueueLate
<1>2. CASE QueueOutput
  <2>1. /\ UNCHANGED <<m_infightQ, omxIn, inBuf, inPc, mainPc>> /\ mainPc = "queue"
        /\ queued' = queued + 1 /\ queued \in Nat /\ queued < m_nOutputBufferCount
    BY <1>2 DEF QueueOutput, TypeOK
  <2>2. ASSUME NEW h \in InBufs
        PROVE  h > queued - m_nOutputBufferCount
    <3>1. h \in Nat /\ h > 0 /\ m_nOutputBufferCount \in Nat
      BY EncoderAssumption DEF InBufs
    <3> QED
      BY <2>1, <3>1
  <2> QED
    BY <2>1, <2>2 DEF HeaderInv, HeaderAt, Unqueued, InLoopHas, Once, InQueue
<1>3. CASE QueueInput
  <2> DEFINE g == queued - m_nOutputBufferCount + 1
  <2>1. /\ UNCHANGED <<omxIn, inBuf, inPc, mainPc>> /\ mainPc = "queue"
        /\ queued' = queued + 1 /\ m_infightQ' = Append(m_infightQ, Read(g))
        /\ g \in InBufs
    BY <1>3, QueuesHeader DEF QueueInput, NextRead
  <2>2. /\ queued \in Int /\ m_nOutputBufferCount \in Int /\ g > queued - m_nOutputBufferCount
        /\ queued' - m_nOutputBufferCount = g
    <3>1. queued \in Int /\ m_nOutputBufferCount \in Int
      BY EncoderAssumption DEF TypeOK
    <3>2. queued' = queued + 1
      BY <2>1
    <3> QED
      BY <3>1, <3>2
  <2>3. ~InQueue(m_infightQ, g) /\ ~InLoopHas(g) /\ g \notin omxIn
    BY <2>1, <2>2 DEF HeaderInv, Unqueued
  <2>4. m_infightQ \in Seq(InMsg) /\ Read(g) \in InMsg
    BY <2>1, MessageTypes DEF TypeOK
  <2> HIDE DEF g
  <2>5. ASSUME NEW h \in InBufs PROVE HeaderAt(h)' /\ Unqueued(h)'
    <3>1. HeaderAt(h) /\ Unqueued(h) /\ h \in Int
      BY DEF HeaderInv, InBufs
    <3>2. Read(g) = Read(h) => g = h
      BY DEF Read
    <3>3. /\ Once(m_infightQ', h)
          /\ InQueue(m_infightQ', h) => InQueue(m_infightQ, h) \/ g = h
      BY <2>1, <2>3, <2>4, <3>1, <3>2, AppendHeaders DEF HeaderAt
    <3>4. InLoopHas(h)' <=> InLoopHas(h)
      BY <2>1 DEF InLoopHas
    <3>5. HeaderAt(h)'
      BY <2>1, <2>3, <3>1, <3>3, <3>4 DEF HeaderAt, Once, InQueue
    <3>6. Unqueued(h)'
      <4> SUFFICES ASSUME h > queued' - m_nOutputBufferCount
                   PROVE  ~InQueue(m_infightQ', h) /\ ~InLoopHas(h)' /\ h \notin omxIn'
        BY DEF Unqueued, InQueue
      <4>1. h > queued - m_nOutputBufferCount /\ h # g
        BY <2>1, <2>2, <3>1, EncoderAssumption DEF TypeOK, InBufs
      <4> QED
        BY <2>1, <3>1, <3>3, <3>4, <4>1 DEF Unqueued
    <3> QED
      BY <3>5, <3>6
  <2> QED
    BY <2>1, <2>5 DEF HeaderInv
<1> QED
  BY <1>1, <1>2, <1>3 DEF Start

LEMMA HeaderLoop ==
  ASSUME TypeOK, HeaderInv, InLoop \/ OutLoop
  PROVE  HeaderInv'
<1> USE DEF frameVars, inVars, outVars, msgVars, stateVars, omxVars
<1>1. CASE ReadFrame \/ ReadTimeout \/ ReadReturn \/ OutLoop
  BY <1>1, HeadersKept
     DEF ReadFrame, ReadTimeout, ReadReturn, OutLoop, OutTake, FillThisBuffer, HeaderInv
<1>2. CASE InTake
  <2>1. /\ m_infightQ \in Seq(InMsg) /\ m_infightQ # <<>> /\ inPc = "loop"
        /\ m_infightQ' = Tail(m_infightQ) /\ inBuf' = Head(m_infightQ).buf
        /\ inPc' = IF Head(m_infightQ).type = "READ" THEN "read" ELSE "exit"
        /\ UNCHANGED <<omxIn, mainPc, queued>>
    BY <1>2 DEF InTake, TypeOK
  <2>2. Head(m_infightQ) \in InMsg
    BY <2>1
  <2>3. \A h : InLoopHas(h)' => Head(m_infightQ) = Read(h)
    BY <2>1, <2>2 DEF InLoopHas, InMsg, Read
  <2>4. ASSUME NEW h \in InBufs PROVE HeaderAt(h)' /\ Unqueued(h)'
    <3>1. HeaderAt(h) /\ Unqueued(h)
      BY DEF HeaderInv
    <3>2. /\ Once(m_infightQ', h)
          /\ InQueue(m_infightQ', h) => InQueue(m_infightQ, h) /\ ~InLoopHas(h)'
          /\ InLoopHas(h)' => InQueue(m_infightQ, h)
      BY <2>1, <2>3, <3>1, TailHeaders DEF HeaderAt
    <3>3. HeaderAt(h)'
      BY <2>1, <3>1, <3>2 DEF HeaderAt, Once, InQueue
    <3>4. Unqueued(h)'
      BY <2>1, <3>1, <3>2 DEF Unqueued, InQueue
    <3> QED
      BY <3>3, <3>4
  <2> QED
    BY <2>1, <2>4 DEF HeaderInv
<1>3. CASE EmptyThisBuffer
  <2>1. /\ inPc = "empty" /\ inPc' = "loop"
        /\ UNCHANGED <<m_infightQ, inBuf, mainPc, queued>>
        /\ omxIn' \subseteq omxIn \cup {inBuf}
    BY <1>3 DEF EmptyThisBuffer
  <2>2. ASSUME NEW h \in InBufs PROVE HeaderAt(h)' /\ Unqueued(h)'
    <3>1. HeaderAt(h) /\ Unqueued(h)
      BY DEF HeaderInv
    <3>2. ~InLoopHas(h)' /\ (InQueue(m_infightQ, h) => h # inBuf)
      BY <2>1, <3>1 DEF HeaderAt, InLoopHas
    <3>3. HeaderAt(h)'
      BY <2>1, <3>1, <3>2 DEF HeaderAt, Once, InQueue
    <3>4. h = inBuf => InLoopHas(h)
      BY <2>1 DEF InLoopHas
    <3>5. Unqueued(h)'
      BY <2>1, <3>1, <3>2, <3>4 DEF Unqueued, InQueue
    <3> QED
      BY <3>3, <3>5
  <2> QED
    BY <2>1, <2>2 DEF HeaderInv
<1> QED
  BY <1>1, <1>2, <1>3 DEF InLoop

LEMMA HeaderComponent ==
  ASSUME TypeOK, HeaderInv, Component
  PROVE  HeaderInv'
<1> USE DEF frameVars, inVars, outVars, msgVars, stateVars, omxVars
<1>1. CASE OmxStateSet \/ OmxFilled
  BY <1>1, HeadersKept DEF OmxStateSet, OmxFilled, HeaderInv
<1>2. CASE OmxEmptied
  <2>1. PICK g \in omxIn : omxIn' = omxIn \ {g} /\ m_infightQ' = Append(m_infightQ, Read(g))
    BY <1>2 DEF OmxEmptied, ReadAgain
  <2>2. /\ UNCHANGED <<inPc, inBuf, mainPc, queued>> /\ m_infightQ \in Seq(InMsg)
        /\ g \in InBufs /\ Read(g) \in InMsg
    BY <1>2, MessageTypes DEF OmxEmptied, TypeOK
  <2>3. ASSUME NEW h \in InBufs PROVE HeaderAt(h)' /\ Unqueued(h)'
    <3>1. HeaderAt(h) /\ Unqueued(h)
      BY DEF HeaderInv
    <3>2. Read(g) = Read(h) => g = h
      BY DEF Read
    <3>3. /\ Once(m_infightQ', h)
          /\ InQueue(m_infightQ', h) => InQueue(m_infightQ, h) \/ g = h
      BY <2>1, <2>2, <3>1, <3>2, AppendHeaders DEF HeaderAt
    <3>4. InLoopHas(h)' <=> InLoopHas(h)
      BY <2>2 DEF InLoopHas
    <3>5. HeaderAt(h)'
      BY <2>1, <3>1, <3>3, <3>4 DEF HeaderAt, Once, InQueue
    <3>6. Unqueued(h)'
      BY <2>1, <2>2, <3>1, <3>3, <3>4 DEF Unqueued, InQueue
    <3> QED
      BY <3>5, <3>6
  <2> QED
    BY <2>1, <2>2, <2>3 DEF HeaderInv
<1> QED
  BY <1>1, <1>2 DEF Component

LEMMA HeaderStop ==
  ASSUME TypeOK, HeaderInv, StopFlush \/ Stop
  PROVE  HeaderInv'
<1> USE DEF frameVars, inVars, outVars, msgVars, stateVars, omxVars
<1>1. CASE JoinLoops \/ FreeBuffers \/ Drain \/ DeleteQueue
  BY <1>1, HeadersKept DEF JoinLoops, FreeBuffers, Drain, DeleteQueue, HeaderInv
<1>2. CASE StopFlush
  <2>1. /\ m_infightQ' = <<>> /\ mainPc' = "exit" /\ UNCHANGED <<inPc, inBuf, omxIn>>
    BY <1>2 DEF StopFlush
  <2>2. \A h : Once(<<>>, h) /\ ~InQueue(<<>>, h)
    BY DEF Once, InQueue
  <2> QED
    BY <2>1, <2>2 DEF HeaderInv, HeaderAt, Unqueued, InLoopHas
<1>3. CASE StopLoops
  <2>1. /\ m_infightQ' = Append(m_infightQ, Exit) /\ mainPc' = "join"
        /\ UNCHANGED <<inPc, inBuf, omxIn>> /\ m_infightQ \in Seq(InMsg) /\ Exit \in InMsg
    BY <1>3, MessageTypes DEF StopLoops, TypeOK
  <2>2. \A h : Exit # Read(h)
    BY DEF Exit, Read
  <2> QED
    BY <2>1, <2>2, AppendHeaders DEF HeaderInv, HeaderAt, Unqueued, InLoopHas
<1> QED
  BY <1>1, <1>2, <1>3 DEF Stop

LEMMA AtMostOne ==
  ASSUME NEW S, \A x, y \in S : x = y
  PROVE  Cardinality(S) <= 1
<1>1. CASE S = {}
  BY <1>1, FS_EmptySet
<1>2. CASE S # {}
  <2> PICK x : x \in S
    BY <1>2
  <2>1. S = {x}
    OBVIOUS
  <2> QED
    BY <2>1, FS_Singleton
<1> QED
  BY <1>1, <1>2

\* An input header is in the queue, with the loop or with the component, once and in
\* one place, also after a read that timed out or a call that failed: no frame is
\* copied into a header that is being read (QCamxHAL3TestOMXEncoder.cpp:527-565,
\* 661-683, 722-776, 849-861).
THEOREM HeadersOnce == Spec => []HeaderOnce
<1>1. Init => HeaderInv
  BY DEF Init, HeaderInv, HeaderAt, Unqueued, InLoopHas, Once, InQueue
<1>2. TypeOK /\ HeaderInv /\ [Next]_vars => HeaderInv'
  <2> SUFFICES ASSUME TypeOK, HeaderInv, [Next]_vars PROVE HeaderInv'
    OBVIOUS
  <2>1. CASE UNCHANGED vars
    BY <2>1, HeadersKept DEF vars, inVars, msgVars, stateVars, omxVars
  <2> QED
    BY <2>1, HeaderStart, HeaderLoop, HeaderComponent, HeaderStop DEF Next, Stopped
<1>3. ASSUME HeaderInv PROVE HeaderOnce
  <2> SUFFICES ASSUME NEW h \in InBufs PROVE Cardinality(UsersOf(h)) <= 1
    BY DEF HeaderOnce
  <2>1. HeaderAt(h)
    BY <1>3 DEF HeaderInv
  <2>2. \A x, y \in UsersOf(h) : x = y
    BY <2>1 DEF UsersOf, HeaderAt, Once, InQueue, InLoopHas
  <2> QED
    BY <2>2, AtMostOne
<1>4. Spec => []TypeOK
  BY EncoderTypeCorrect
<1> QED
  BY <1>1, <1>2, <1>3, <1>4, PTL DEF Spec
=============================================================================
