---------------------------- MODULE MetaLogProofs ----------------------------
(***************************************************************************)
(* Proofs about MetaLog, for any flags, orders, results, paths and bounds: *)
(* with one HAL thread, and paths that can be created, no log file is used *)
(* when it is closed, and the log tells the changes of every value; and    *)
(* with any number of HAL threads, type correctness.                       *)
(***************************************************************************)
EXTENDS MetaLog, LoopProofs

OneHalThread == \A a, b \in HalThreads : a = b

----------------------------------------------------------------------------
(* What a HAL thread is doing *)

\* A thread that prints has a tag in hand, and none does anything once the
\* camera is closed.
ThreadOK(r) ==
  /\ r.pc \in {"idle", "tag"} \cup Printing
  /\ r.left \in Seq(Printed)
  /\ r.pc \in Printing => r.left # << >>

ThreadInv ==
  /\ handler = [h \in HalThreads |-> handler[h]]
  /\ \A h \in HalThreads : ThreadOK(handler[h])
  /\ mainPc \in {"none", "closed"} => \A h \in HalThreads : handler[h].pc = "idle"

\* One thread's step leaves a function of the same shape.
LEMMA ThreadStep ==
  ASSUME ThreadInv, NEW h \in HalThreads, NEW pc, NEW left, NEW result, NEW file,
         ThreadOK(At(pc, left, result, file)),
         Becomes(h, At(pc, left, result, file)),
         mainPc \notin {"none", "closed"}, UNCHANGED mainPc
  PROVE  ThreadInv'
BY DEF ThreadInv, Becomes, ThreadOK

\* What a step to the next tag, or within one, makes of a thread.
LEMMA ThreadMoves ==
  ASSUME ThreadInv, NEW h \in HalThreads, handler[h].pc # "idle",
         handler[h].left # << >>, UNCHANGED mainPc,
         Advance(h) \/ \E pc \in Printing : \E file : Goto(h, pc, file)
  PROVE  ThreadInv'
<1> DEFINE r == handler[h]
<1>1. ThreadOK(r) /\ mainPc \notin {"none", "closed"}
  BY DEF ThreadInv
<1>2. Tail(r.left) \in Seq(Printed)
  BY <1>1 DEF ThreadOK
<1>3. CASE Advance(h)
  <2>1. ThreadOK(At("tag", Tail(r.left), r.result, stderr))
    BY <1>2 DEF ThreadOK, At, Printing
  <2> QED
    BY <1>1, <1>3, <2>1, ThreadStep DEF Advance
<1>4. ASSUME NEW pc \in Printing, NEW file, Goto(h, pc, file)
      PROVE  ThreadInv'
  <2>1. ThreadOK(At(pc, r.left, r.result, file))
    BY <1>1 DEF ThreadOK, At, Printing
  <2> QED
    BY <1>1, <1>4, <2>1, ThreadStep DEF Goto
<1> QED
  BY <1>3, <1>4

LEMMA ThreadInit == Init => ThreadInv
<1> SUFFICES ASSUME Init PROVE ThreadInv
  OBVIOUS
<1>1. << >> \in Seq(Printed)
  OBVIOUS
<1>2. ThreadOK(Idle)
  BY <1>1 DEF ThreadOK, Idle, At, Printing
<1>3. Idle.pc = "idle"
  BY DEF Idle, At
<1> QED
  BY <1>2, <1>3 DEF Init, ThreadInv

LEMMA ThreadNext == MetaAssumption /\ ThreadInv /\ [Next]_vars => ThreadInv'
<1> SUFFICES ASSUME MetaAssumption, ThreadInv, [Next]_vars PROVE ThreadInv'
  OBVIOUS
<1> USE DEF mainVars, logVars, statVars, settingVars, requestVars
<1>1. ASSUME NEW h \in HalThreads, NEW tags \in ResultTags, Result(h, tags)
      PROVE  ThreadInv'
  <2>1. PICK m \in Measured : Becomes(h, At("tag", Flags, Reports(tags, m), stderr))
    BY <1>1 DEF Result
  <2>2. ThreadOK(At("tag", Flags, Reports(tags, m), stderr))
    BY DEF ThreadOK, At, MetaAssumption, Printing
  <2>3. mainPc \notin {"none", "closed"} /\ UNCHANGED mainPc
    BY <1>1 DEF Result, Running
  <2> QED
    BY <2>1, <2>2, <2>3, ThreadStep
<1>2. ASSUME NEW h \in HalThreads, HandlerStep(h)
      PROVE  ThreadInv'
  <2> DEFINE r == handler[h]
  <2>1. r.pc \in Printing => r.left # << >> /\ r.pc # "idle"
    BY DEF ThreadInv, ThreadOK, Printing
  <2>2. CASE Skip(h)
    BY <2>2, ThreadMoves DEF Skip
  <2>3. CASE Compare(h)
    <3>1. r.left # << >> /\ r.pc # "idle" /\ UNCHANGED mainPc
      BY <2>3 DEF Compare
    <3>2. Goto(h, "print", stderr) \/ Advance(h)
      BY <2>3 DEF Compare
    <3> QED
      BY <3>1, <3>2, ThreadMoves DEF Printing
  <2>4. CASE Return(h)
    <3>1. << >> \in Seq(Printed)
      OBVIOUS
    <3>2. ThreadOK(At("idle", << >>, << >>, stderr))
      BY <3>1 DEF ThreadOK, At, Printing
    <3>3. mainPc \notin {"none", "closed"} /\ UNCHANGED mainPc
      BY <2>4 DEF Return, ThreadInv
    <3> QED
      BY <2>4, <3>2, <3>3, ThreadStep DEF Return, Idle
  <2>5. CASE PrintStd(h)
    BY <2>1, <2>5, ThreadMoves DEF PrintStd, Emit, Printing
  <2>6. CASE PrintFile(h)
    <3>1. PICK pc \in Printing : Goto(h, pc, stderr)
      BY <2>6 DEF PrintFile, Printing
    <3>2. r.pc \in Printing /\ UNCHANGED mainPc
      BY <2>6 DEF PrintFile, Printing
    <3> QED
      BY <2>1, <3>1, <3>2, ThreadMoves
  <2>7. CASE Open(h)
    <3>1. \E file : Goto(h, "assign", file)
      BY <2>7 DEF Open
    <3>2. r.pc \in Printing /\ "assign" \in Printing /\ UNCHANGED mainPc
      BY <2>7 DEF Open, Printing
    <3> QED
      BY <2>1, <3>1, <3>2, ThreadMoves
  <2>8. CASE Assign(h)
    <3>1. r.pc \in Printing /\ "write" \in Printing /\ UNCHANGED mainPc
      BY <2>8 DEF Assign, Printing
    <3> QED
      BY <2>1, <2>8, <3>1, ThreadMoves DEF Assign
  <2>9. CASE Write(h)
    BY <2>1, <2>9, ThreadMoves DEF Write, Emit, Printing
  <2> QED
    BY <1>2, <2>2, <2>3, <2>4, <2>5, <2>6, <2>7, <2>8, <2>9 DEF HandlerStep
<1>3. ASSUME UNCHANGED handler,
             mainPc' \in {"none", "closed"} => mainPc \in {"none", "closed"}
      PROVE  ThreadInv'
  BY <1>3 DEF ThreadInv, ThreadOK
<1>4. CASE Close
  BY <1>4 DEF Close, ThreadInv, ThreadOK
<1>5. CASE SatResult
  BY <1>3, <1>5 DEF SatResult
<1>6. CASE Request \/ RequestRefused
  BY <1>3, <1>6 DEF Request, RequestRefused
<1>7. CASE Add
  BY <1>3, <1>7 DEF Add
<1>8. ASSUME NEW order \in UpdateOrders, Update(order) PROVE ThreadInv'
  BY <1>3, <1>8 DEF Update, Command
<1>9. ASSUME NEW f \in MetaOptions, NEW on \in BOOLEAN, SetFlag(f, on)
      PROVE  ThreadInv'
  BY <1>3, <1>9 DEF SetFlag, Command
<1>10. ASSUME NEW type \in {"STDIO", "ALOGE"}, SetStd(type) PROVE ThreadInv'
  BY <1>3, <1>10 DEF SetStd, Command
<1>11. ASSUME NEW p \in Paths, SetPath(p) PROVE ThreadInv'
  BY <1>3, <1>11 DEF SetPath, Command
<1>12. CASE MarkNewPath
  BY <1>3, <1>12 DEF MarkNewPath
<1>13. CASE StorePath
  BY <1>3, <1>13 DEF StorePath
<1>14. CASE Stop
  BY <1>3, <1>14 DEF Stop
<1>15. CASE Delete
  BY <1>3, <1>15 DEF Delete
<1>16. CASE UNCHANGED vars
  BY <1>3, <1>16 DEF vars
<1> QED
  BY <1>1, <1>2, <1>4, <1>5, <1>6, <1>7, <1>8, <1>9, <1>10, <1>11, <1>12, <1>13,
     <1>14, <1>15, <1>16 DEF Next

----------------------------------------------------------------------------
(* No log file is used when it is closed *)

Assigning == \E h \in HalThreads : handler[h].pc = "assign"

\* Between the opening of a file and the assignment of its handle the old handle
\* is closed and the new one is the thread's; at all other times of a camera's
\* life the log's handle is open.
FileInv ==
  /\ ThreadInv
  /\ \A h \in HalThreads : handler[h].pc = "assign" => handler[h].file \in open_files
  /\ mainPc # "none" /\ ~Assigning => file_handle \in open_files \cup {stderr}

LEMMA FileInit == Init => FileInv
BY ThreadInit DEF Init, FileInv, Assigning, Idle, At

\* A step of a thread that neither opens nor assigns.
LEMMA FileKept ==
  ASSUME FileInv, ThreadInv', NEW h \in HalThreads, handler[h].pc # "assign",
         UNCHANGED <<file_handle, open_files, mainPc>>,
         \E pc, left, result, file : /\ pc # "assign"
                                     /\ Becomes(h, At(pc, left, result, file))
  PROVE  FileInv'
<1>1. \A g \in HalThreads \ {h} : handler'[g] = handler[g]
  BY DEF Becomes, FileInv, ThreadInv
<1>2. handler'[h].pc # "assign"
  BY DEF Becomes, At, FileInv, ThreadInv
<1> QED
  BY <1>1, <1>2 DEF FileInv, Assigning

LEMMA FileNext ==
  ASSUME MetaAssumption, OneHalThread, Unwritable = {}, FileInv, [Next]_vars
  PROVE  FileInv'
<1> USE DEF mainVars, logVars, statVars, settingVars, requestVars
<1>a. ThreadInv'
  BY ThreadNext DEF FileInv
<1>1. ASSUME NEW h \in HalThreads, NEW tags \in ResultTags, Result(h, tags)
      PROVE  FileInv'
  BY <1>1, <1>a, FileKept DEF Result
<1>2. ASSUME NEW h \in HalThreads, HandlerStep(h)
      PROVE  FileInv'
  <2>1. CASE Skip(h)
    BY <1>a, <2>1, FileKept DEF Skip, Advance
  <2>2. CASE Compare(h)
    BY <1>a, <2>2, FileKept DEF Compare, Advance, Goto
  <2>3. CASE Return(h)
    BY <1>a, <2>3, FileKept DEF Return, Idle
  <2>4. CASE PrintStd(h)
    BY <1>a, <2>4, FileKept DEF PrintStd, Emit, Advance
  <2>5. CASE PrintFile(h)
    BY <1>a, <2>5, FileKept DEF PrintFile, Goto
  <2>6. CASE Open(h)
    <3> DEFINE opened == CHOOSE f \in Files : f \notin open_files
    <3>1. opened \in Files \ open_files
      BY <2>6 DEF Open
    <3>2. /\ Goto(h, "assign", opened)
          /\ open_files' = (open_files \cup ({opened} \ {NULL})) \ {file_handle}
      BY <2>6 DEF Open, Replaced
    <3>3. handler[h].pc = "open" /\ UNCHANGED <<file_handle, mainPc>>
      BY <2>6 DEF Open
    <3>4. mainPc # "none" /\ ~Assigning
      BY <3>3 DEF FileInv, ThreadInv, OneHalThread, Assigning
    <3>5. file_handle # opened /\ opened # NULL
      BY <3>1, <3>4 DEF FileInv, MetaAssumption
    <3>6. /\ handler'[h].pc = "assign" /\ handler'[h].file = opened
          /\ \A g \in HalThreads : g = h
      BY <3>2 DEF Goto, Becomes, At, FileInv, ThreadInv, OneHalThread
    <3> QED
      BY <1>a, <3>2, <3>5, <3>6 DEF FileInv, Assigning
  <2>7. CASE Assign(h)
    <3>1. /\ file_handle' = handler[h].file /\ handler[h].file \in open_files
          /\ UNCHANGED open_files
      BY <2>7 DEF Assign, FileInv
    <3>2. handler'[h].pc = "write" /\ \A g \in HalThreads : g = h
      BY <2>7 DEF Assign, Goto, Becomes, At, FileInv, ThreadInv, OneHalThread
    <3> QED
      BY <1>a, <3>1, <3>2 DEF FileInv, Assigning
  <2>8. CASE Write(h)
    BY <1>a, <2>8, FileKept DEF Write, Emit, Advance
  <2> QED
    BY <1>2, <2>1, <2>2, <2>3, <2>4, <2>5, <2>6, <2>7, <2>8 DEF HandlerStep
<1>3. ASSUME UNCHANGED <<handler, file_handle, open_files>>,
             mainPc' # "none" => mainPc # "none"
      PROVE  FileInv'
  BY <1>3, <1>a DEF FileInv, Assigning
<1>4. CASE SatResult
  BY <1>3, <1>4 DEF SatResult
<1>5. CASE Request \/ RequestRefused
  BY <1>3, <1>5 DEF Request, RequestRefused
<1>6. CASE Add
  BY <1>a, <1>6 DEF Add, FileInv, ThreadInv
<1>7. ASSUME NEW order \in UpdateOrders, Update(order) PROVE FileInv'
  BY <1>3, <1>7 DEF Update, Command
<1>8. ASSUME NEW f \in MetaOptions, NEW on \in BOOLEAN, SetFlag(f, on)
      PROVE  FileInv'
  BY <1>3, <1>8 DEF SetFlag, Command
<1>9. ASSUME NEW type \in {"STDIO", "ALOGE"}, SetStd(type) PROVE FileInv'
  BY <1>3, <1>9 DEF SetStd, Command
<1>10. ASSUME NEW p \in Paths, SetPath(p) PROVE FileInv'
  BY <1>3, <1>10 DEF SetPath, Command
<1>11. CASE MarkNewPath
  BY <1>3, <1>11 DEF MarkNewPath
<1>12. CASE StorePath
  BY <1>3, <1>12 DEF StorePath
<1>13. CASE Stop
  BY <1>3, <1>13 DEF Stop
<1>14. CASE Close
  BY <1>3, <1>14 DEF Close
<1>15. CASE Delete
  <2>1. \A h \in HalThreads : handler'[h].pc = "idle"
    BY <1>15 DEF Delete, FileInv, ThreadInv
  <2> QED
    BY <1>15, <1>a, <2>1 DEF Delete, FileInv
<1>16. CASE UNCHANGED vars
  BY <1>3, <1>16 DEF vars
<1> QED
  BY <1>1, <1>2, <1>4, <1>5, <1>6, <1>7, <1>8, <1>9, <1>10, <1>11, <1>12, <1>13,
     <1>14, <1>15, <1>16 DEF Next

LEMMA FileInvSuffices == OneHalThread /\ FileInv => LogFileOpen
<1> SUFFICES ASSUME OneHalThread, FileInv PROVE LogFileOpen
  OBVIOUS
<1>1. ASSUME NEW h \in HalThreads, handler[h].pc \in {"open", "write"}
      PROVE  file_handle \in open_files \cup {stderr}
  BY <1>1 DEF FileInv, ThreadInv, Assigning, OneHalThread
<1>2. mainPc = "closed" => file_handle \in open_files \cup {stderr}
  BY DEF FileInv, ThreadInv, Assigning
<1> QED
  BY <1>1, <1>2 DEF LogFileOpen

\* With one HAL thread, and paths that can be created, print and the destructor
\* never touch a closed log file, whatever paths and types the user sets while
\* lines are printed (qcamx_log.cpp:27-70).
THEOREM LogFilesOpen ==
  OneHalThread /\ Unwritable = {} => (Spec => []LogFileOpen)
<1> SUFFICES ASSUME OneHalThread, Unwritable = {} PROVE Spec => []LogFileOpen
  OBVIOUS
<1>1. Init => FileInv
  BY FileInit
<1>2. FileInv /\ [Next]_vars => FileInv'
  BY FileNext, MetaAssumption
<1>3. FileInv => LogFileOpen
  BY FileInvSuffices
<1> QED
  BY <1>1, <1>2, <1>3, PTL DEF Spec

----------------------------------------------------------------------------
(* The log tells the changes *)

\* The flags whose value is printed whenever it changes.
Told == Printed \ (DOMAIN Named \cup {"sceneMode"})

InPrint(h) == handler[h].pc \in Printing

\* The last line about a value is its last value, except for the exposure time,
\* which is stored before its line is out.
InLog(f) ==
  \/ reported[Tag(f)] = meta_stat[Tag(f)]
  \/ f = "exposureValue" /\ \E h \in HalThreads : InPrint(h) /\ This(h) = f

LineInv ==
  \A h \in HalThreads : InPrint(h) /\ This(h) \in Told =>
     ThisValue(h) # reported[ThisTag(h)]

LogInv ==
  /\ ThreadInv
  /\ meta_stat = [t \in StatTags |-> meta_stat[t]]
  /\ reported = [t \in StatTags |-> reported[t]]
  /\ LineInv
  /\ \A f \in Printed \ DOMAIN Named : InLog(f)

\* Tags are in the domain of the last values, the arrays of the video cases are
\* not among them, and only the two flags of the region share one.
LEMMA Tags ==
  ASSUME MetaAssumption
  PROVE  /\ \A f \in Printed : Tag(f) \in StatTags \ SatTags
         /\ \A f \in Printed : \A g \in DOMAIN Named \cup {"exposureValue"} :
              Tag(f) = Tag(g) => f = g
BY DEF MetaAssumption, Tag, StatTags, SatTags, Named

LEMMA LogInit == Init => LogInv
BY ThreadInit DEF Init, LogInv, LineInv, InLog, InPrint, Idle, At, Printing, FirstStat

\* A step of the thread that leaves it outside print, or inside with the same
\* line, and changes no value.
LEMMA LogKept ==
  ASSUME OneHalThread, LogInv, ThreadInv', UNCHANGED statVars,
         NEW h \in HalThreads, NEW pc, NEW left, NEW result, NEW file,
         Becomes(h, At(pc, left, result, file)),
         IF pc \in Printing
         THEN InPrint(h) /\ left = handler[h].left /\ result = handler[h].result
         ELSE ~InPrint(h)
  PROVE  LogInv'
<1>1. \A g \in HalThreads : g = h
  BY DEF OneHalThread
<1>2. /\ handler'[h].pc = pc /\ handler'[h].left = left
      /\ handler'[h].result = result
  BY DEF Becomes, At, LogInv, ThreadInv
<1>3. /\ InPrint(h)' = InPrint(h)
      /\ InPrint(h) => This(h)' = This(h) /\ ThisValue(h)' = ThisValue(h)
                       /\ ThisTag(h)' = ThisTag(h)
  BY <1>2 DEF InPrint, This, ThisValue, ThisTag
<1> QED
  BY <1>1, <1>3 DEF LogInv, LineInv, InLog, statVars

\* A line is out.
LEMMA LogEmit ==
  ASSUME MetaAssumption, OneHalThread, LogInv, ThreadInv', NEW h \in HalThreads,
         InPrint(h), Emit(h)
  PROVE  LogInv'
<1> DEFINE t == ThisTag(h)
           v == ThisValue(h)
<1>1. \A g \in HalThreads : g = h
  BY DEF OneHalThread
<1>2. ~InPrint(h)'
  BY DEF Emit, Advance, Becomes, At, InPrint, Printing, LogInv, ThreadInv
<1>3. t \in StatTags /\ This(h) \in Printed
  BY Tags DEF ThisTag, This, InPrint, LogInv, ThreadInv, ThreadOK
<1>4. /\ meta_stat' = [meta_stat EXCEPT ![t] = v]
      /\ reported' = [reported EXCEPT ![t] = v]
  BY DEF Emit, StatAfter
<1>5. \A f \in Printed \ DOMAIN Named : reported'[Tag(f)] = meta_stat'[Tag(f)]
  <2> SUFFICES ASSUME NEW f \in Printed \ DOMAIN Named
               PROVE  reported'[Tag(f)] = meta_stat'[Tag(f)]
    OBVIOUS
  <2>1. Tag(f) \in StatTags
    BY Tags
  <2>2. CASE Tag(f) = t
    BY <1>4, <2>1, <2>2 DEF LogInv
  <2>3. CASE Tag(f) # t
    <3>1. This(h) # f
      BY <2>3 DEF ThisTag
    <3>2. reported[Tag(f)] = meta_stat[Tag(f)]
      BY <1>1, <3>1 DEF LogInv, InLog
    <3> QED
      BY <1>4, <2>1, <2>3, <3>2 DEF LogInv
  <2> QED
    BY <2>2, <2>3
<1> QED
  BY <1>1, <1>2, <1>4, <1>5 DEF LogInv, LineInv, InLog

\* A change is seen.
LEMMA LogCompare ==
  ASSUME MetaAssumption, OneHalThread, LogInv, ThreadInv', NEW h \in HalThreads,
         Compare(h)
  PROVE  LogInv'
<1> DEFINE f == This(h)
           t == ThisTag(h)
           v == ThisValue(h)
<1>1. \A g \in HalThreads : g = h
  BY DEF OneHalThread
<1>2. ~InPrint(h) /\ UNCHANGED reported
  BY DEF Compare, InPrint, Printing
<1>3. t \in StatTags /\ f \in Printed /\ t = Tag(f)
  BY Tags DEF ThisTag, This, Compare, LogInv, ThreadInv, ThreadOK
<1>4. \A g \in Printed \ DOMAIN Named : reported[Tag(g)] = meta_stat[Tag(g)]
  BY <1>1, <1>2 DEF LogInv, InLog
<1>5. meta_stat' = meta_stat \/ meta_stat' = [meta_stat EXCEPT ![t] = v]
  BY DEF Compare, StatAfter
<1>6. CASE HasLine(f, v)
  <2>1. /\ handler'[h].pc = "print" /\ handler'[h].left = handler[h].left
        /\ handler'[h].result = handler[h].result
    BY <1>6 DEF Compare, Goto, Becomes, At, LogInv, ThreadInv
  <2>2. /\ InPrint(h)' /\ This(h)' = f /\ ThisValue(h)' = v /\ ThisTag(h)' = t
    BY <2>1 DEF InPrint, This, ThisValue, ThisTag, Printing
  <2>3. f \in Told => v # reported[t]
    BY <1>3, <1>4 DEF Compare, Changed, ThisValue, ThisTag, Told
  <2>4. LineInv'
    BY <1>1, <1>2, <2>2, <2>3 DEF LineInv
  <2>5. CASE f = "exposureValue"
    <3>1. \A g \in Printed : g # f => Tag(g) # t
      BY <1>3, <2>5, Tags
    <3>2. \A g \in Printed \ DOMAIN Named : g # f => reported'[Tag(g)] = meta_stat'[Tag(g)]
      BY <1>2, <1>3, <1>4, <1>5, <3>1, Tags DEF LogInv
    <3> QED
      BY <1>2, <1>5, <2>2, <2>4, <2>5, <3>2 DEF LogInv, InLog
  <2>6. CASE f # "exposureValue"
    <3>1. meta_stat' = meta_stat
      BY <1>6, <2>6 DEF Compare
    <3> QED
      BY <1>2, <1>4, <2>4, <3>1 DEF LogInv, InLog
  <2> QED
    BY <2>5, <2>6
<1>7. CASE ~HasLine(f, v)
  <2>1. ~InPrint(h)'
    BY <1>7 DEF Compare, Advance, Becomes, At, InPrint, Printing, LogInv, ThreadInv
  <2>2. f \in DOMAIN Named
    BY <1>7 DEF HasLine
  <2>3. \A g \in Printed \ DOMAIN Named : Tag(g) # t
    BY <1>3, <2>2, Tags
  <2>4. \A g \in Printed \ DOMAIN Named : reported'[Tag(g)] = meta_stat'[Tag(g)]
    BY <1>2, <1>3, <1>4, <1>5, <2>3, Tags DEF LogInv
  <2> QED
    BY <1>1, <1>2, <1>5, <2>1, <2>4 DEF LogInv, LineInv, InLog
<1> QED
  BY <1>6, <1>7

LEMMA LogNext ==
  ASSUME MetaAssumption, OneHalThread, LogInv, [Next]_vars
  PROVE  LogInv'
<1> USE DEF mainVars, logVars, settingVars, requestVars
<1>a. ThreadInv'
  BY ThreadNext DEF LogInv
<1>1. ASSUME NEW h \in HalThreads, NEW tags \in ResultTags, Result(h, tags)
      PROVE  LogInv'
  <2>1. PICK m \in Measured : Becomes(h, At("tag", Flags, Reports(tags, m), stderr))
    BY <1>1 DEF Result
  <2> QED
    BY <1>1, <1>a, <2>1, LogKept DEF Result, InPrint, Printing
<1>2. ASSUME NEW h \in HalThreads, HandlerStep(h)
      PROVE  LogInv'
  <2>1. CASE Skip(h)
    BY <1>a, <2>1, LogKept DEF Skip, Advance, InPrint, Printing
  <2>2. CASE Compare(h)
    BY <1>a, <2>2, LogCompare, MetaAssumption
  <2>3. CASE Return(h)
    BY <1>a, <2>3, LogKept DEF Return, Idle, InPrint, Printing
  <2>4. CASE PrintStd(h)
    BY <1>a, <2>4, LogEmit, MetaAssumption DEF PrintStd, InPrint, Printing
  <2>5. CASE PrintFile(h)
    BY <1>a, <2>5, LogKept DEF PrintFile, Goto, InPrint, Printing
  <2>6. CASE Open(h)
    BY <1>a, <2>6, LogKept DEF Open, Goto, InPrint, Printing
  <2>7. CASE Assign(h)
    BY <1>a, <2>7, LogKept DEF Assign, Goto, InPrint, Printing
  <2>8. CASE Write(h)
    BY <1>a, <2>8, LogEmit, MetaAssumption DEF Write, InPrint, Printing
  <2> QED
    BY <1>2, <2>1, <2>2, <2>3, <2>4, <2>5, <2>6, <2>7, <2>8 DEF HandlerStep
<1>3. ASSUME UNCHANGED <<handler, statVars>>
      PROVE  LogInv'
  BY <1>3, <1>a DEF LogInv, LineInv, InLog, InPrint, This, ThisValue, ThisTag, statVars
<1>4. CASE SatResult
  <2>1. /\ meta_stat' = [t \in StatTags |-> meta_stat'[t]]
        /\ \A t \in StatTags \ SatTags : meta_stat'[t] = meta_stat[t]
        /\ UNCHANGED <<reported, handler>>
    BY <1>4 DEF SatResult
  <2>2. \A f \in Printed : meta_stat'[Tag(f)] = meta_stat[Tag(f)]
    BY <2>1, Tags, MetaAssumption
  <2> QED
    BY <1>a, <2>1, <2>2 DEF LogInv, LineInv, InLog, InPrint, This, ThisValue, ThisTag
<1>5. CASE Request \/ RequestRefused
  BY <1>3, <1>5 DEF Request, RequestRefused
<1>6. CASE Add
  <2>1. \A h \in HalThreads : ~InPrint(h)'
    BY <1>6 DEF Add, LogInv, ThreadInv, InPrint, Printing
  <2>2. meta_stat' = FirstStat /\ reported' = FirstStat
    BY <1>6 DEF Add
  <2> QED
    BY <1>a, <2>1, <2>2 DEF LogInv, LineInv, InLog, FirstStat
<1>7. ASSUME NEW order \in UpdateOrders, Update(order) PROVE LogInv'
  BY <1>3, <1>7 DEF Update, Command
<1>8. ASSUME NEW f \in MetaOptions, NEW on \in BOOLEAN, SetFlag(f, on)
      PROVE  LogInv'
  BY <1>3, <1>8 DEF SetFlag, Command
<1>9. ASSUME NEW type \in {"STDIO", "ALOGE"}, SetStd(type) PROVE LogInv'
  BY <1>3, <1>9 DEF SetStd, Command
<1>10. ASSUME NEW p \in Paths, SetPath(p) PROVE LogInv'
  BY <1>3, <1>10 DEF SetPath, Command
<1>11. CASE MarkNewPath
  BY <1>3, <1>11 DEF MarkNewPath
<1>12. CASE StorePath
  BY <1>3, <1>12 DEF StorePath
<1>13. CASE Stop
  BY <1>3, <1>13 DEF Stop
<1>14. CASE Close
  BY <1>3, <1>14 DEF Close
<1>15. CASE Delete
  BY <1>3, <1>15 DEF Delete
<1>16. CASE UNCHANGED vars
  BY <1>3, <1>16 DEF vars
<1> QED
  BY <1>1, <1>2, <1>4, <1>5, <1>6, <1>7, <1>8, <1>9, <1>10, <1>11, <1>12, <1>13,
     <1>14, <1>15, <1>16 DEF Next

LEMMA LogInvSuffices == LogInv => LogFollowsStat
<1> SUFFICES ASSUME LogInv, NEW f \in Told
             PROVE  IF \E h \in HalThreads : InPrint(h) /\ This(h) = f
                    THEN \A h \in HalThreads : InPrint(h) /\ This(h) = f =>
                            ThisValue(h) # reported[Tag(f)]
                    ELSE reported[Tag(f)] = meta_stat[Tag(f)]
  BY DEF LogFollowsStat, Told, InPrint
<1>1. \A h \in HalThreads : InPrint(h) /\ This(h) = f => ThisValue(h) # reported[Tag(f)]
  BY DEF LogInv, LineInv, ThisTag
<1>2. (\A h \in HalThreads : ~(InPrint(h) /\ This(h) = f))
        => reported[Tag(f)] = meta_stat[Tag(f)]
  BY DEF LogInv, InLog, Told
<1> QED
  BY <1>1, <1>2

\* With one HAL thread the log tells every change of a value that is printed
\* whenever it changes, and nothing else, for any flags in any order, any results
\* and any settings (qcamx_case.cpp:52-475).
THEOREM LogTellsChanges == OneHalThread => (Spec => []LogFollowsStat)
<1> SUFFICES ASSUME OneHalThread PROVE Spec => []LogFollowsStat
  OBVIOUS
<1>1. Init => LogInv
  BY LogInit
<1>2. LogInv /\ [Next]_vars => LogInv'
  BY LogNext, MetaAssumption
<1>3. LogInv => LogFollowsStat
  BY LogInvSuffices
<1> QED
  BY <1>1, <1>2, <1>3, PTL DEF Spec
----------------------------------------------------------------------------
(* Types *)

\* Tags that settings may hold: those of the HAL's defaults and those an option sets.
SettingTags ==
  DOMAIN Template \cup
  {"mwbMode", "mwbCct", "mwbGains", "numFrames", "expMetering", "selPriority",
   "expPriority", "compRatio", "aeAntiMode", "awbMode", "afMode", "aeMode",
   "colorCorrectMode", "controlMode", "zslMode", "jpegquality",
   "exposureValue", "isoValue", "cropregion", "aeComp"}

\* Settings as the HAL has them: tags with numbers, but for the region.
Settings ==
  {s \in UNION {[D -> Int \cup Seq(Int)] : D \in SUBSET SettingTags} :
     \A t \in DOMAIN s \ {"cropregion"} : s[t] \in Int}

\* A number for each tag but the region.
LEMMA SettingsAre ==
  ASSUME NEW s
  PROVE  s \in Settings <=>
           /\ s = [t \in DOMAIN s |-> s[t]] /\ DOMAIN s \subseteq SettingTags
           /\ \A t \in DOMAIN s : s[t] \in Int \cup Seq(Int)
           /\ \A t \in DOMAIN s \ {"cropregion"} : s[t] \in Int
<1> DEFINE V == Int \cup Seq(Int)
           Maps == UNION {[D -> V] : D \in SUBSET SettingTags}
<1>1. s \in Maps <=> \E D \in SUBSET SettingTags : s \in [D -> V]
  OBVIOUS
<1>2. (\E D \in SUBSET SettingTags : s \in [D -> V]) <=>
         /\ s = [t \in DOMAIN s |-> s[t]] /\ DOMAIN s \subseteq SettingTags
         /\ \A t \in DOMAIN s : s[t] \in V
  OBVIOUS
<1> QED
  BY <1>1, <1>2 DEF Settings

LEMMA UpdatingIs ==
  ASSUME NEW settings, NEW order, Len(order) \in Nat
  PROVE  /\ Updating(settings, order)[0] = settings
         /\ \A i \in 1 .. Len(order) :
              Updating(settings, order)[i] =
                Updated(Updating(settings, order)[i - 1], Setting(order[i]))
<1> DEFINE n == Len(order)
           Round(s, i) == Updated(s, Setting(order[i]))
           Rounds(f, m) == [i \in 0 .. m |-> IF i = 0 THEN settings ELSE Round(f[i - 1], i)]
           Ready(m) == \E f : f = Rounds(f, m)
           S == {m \in 0 .. n : Ready(m)}
<1> HIDE DEF Round
<1>1. Ready(0)
  <2> DEFINE f == [i \in 0 .. 0 |-> settings]
  <2>1. f = Rounds(f, 0)
    OBVIOUS
  <2> HIDE DEF f
  <2> WITNESS f
  <2> QED
    BY <2>1
<1>2. ASSUME NEW m \in 1 .. n, Ready(m - 1) PROVE Ready(m)
  <2>1. PICK f : f = Rounds(f, m - 1)
    BY <1>2
  <2> DEFINE g == [i \in 0 .. m |-> IF i = m THEN Round(f[m - 1], m) ELSE f[i]]
  <2>2. \A i \in 0 .. m - 1 : g[i] = f[i]
    OBVIOUS
  <2>3. \A i \in 0 .. m : g[i] = IF i = 0 THEN settings ELSE Round(g[i - 1], i)
    <3> SUFFICES ASSUME NEW i \in 0 .. m
                 PROVE  g[i] = IF i = 0 THEN settings ELSE Round(g[i - 1], i)
      OBVIOUS
    <3>1. CASE i = m
      BY <2>2, <3>1
    <3>2. CASE i # m
      <4>1. i \in 0 .. m - 1 /\ (i # 0 => i - 1 \in 0 .. m - 1)
        BY <3>2
      <4>2. f[i] = IF i = 0 THEN settings ELSE Round(f[i - 1], i)
        BY <2>1, <4>1
      <4> QED
        BY <2>2, <4>1, <4>2
    <3> QED
      BY <3>1, <3>2
  <2>4. g = Rounds(g, m)
    BY <2>3
  <2> HIDE DEF g
  <2> WITNESS g
  <2> QED
    BY <2>4
<1>3. Ready(n)
  <2> HIDE DEF Ready
  <2>1. 0 \in S /\ \A m \in 1 .. n : m - 1 \in S => m \in S
    BY <1>1, <1>2
  <2> HIDE DEF S
  <2>2. 0 .. n \subseteq S
    BY <2>1, LoopKeeps
  <2> QED
    BY <2>2 DEF S
<1> DEFINE a == Updating(settings, order)
<1>4. a = Rounds(a, n)
  BY <1>3 DEF Updating, Round
<1> QED
  BY <1>4 DEF Round

LEMMA CharacterTyped == ASSUME NEW n \in 0 .. 999 PROVE Character(n) \in Int
<1> DEFINE Digit(d) == /\ d = 0 => n = 0
                       /\ \E p \in {1, 10, 100} : n \div p = d
<1>1. \E d \in 0 .. 9 : Digit(d)
  <2>1. CASE n \in 0 .. 9
    BY <2>1
  <2>2. CASE n \in 10 .. 99
    <3>1. n \div 10 \in 1 .. 9
      BY <2>2
    <3> QED
      BY <3>1
  <2>3. CASE n \in 100 .. 999
    <3>1. n \div 100 \in 1 .. 9
      BY <2>3
    <3> QED
      BY <3>1
  <2> QED
    BY <2>1, <2>2, <2>3
<1>2. FirstDigit(n) \in 0 .. 9
  BY <1>1 DEF FirstDigit
<1> QED
  BY <1>2 DEF Character

\* Tags with numbers, or the region.
LEMMA TaggedAre ==
  ASSUME NEW s, s = [t \in DOMAIN s |-> s[t]], DOMAIN s \subseteq SettingTags,
         \/ \A t \in DOMAIN s : s[t] \in Int
         \/ DOMAIN s = {"cropregion"} /\ s["cropregion"] \in Seq(Int)
  PROVE  s \in Settings
BY SettingsAre

NumberTokens == {"manualwb_mode", "manualwb_cct", "manualwb_gains", "numframes",
                 "expmetering", "selPriority", "expPriority", "compensation_ratio"}
CharacterTokens == {"antimode", "manualantimode", "manualawbmode", "manualafmode",
                    "manualaemode", "manualcorcorrectionmode", "manualctrmode",
                    "manualzslmode", "jpegquality"}

LEMMA FourAreSequence ==
  ASSUME NEW r \in Int \X Int \X Int \X Int PROVE r \in Seq(Int)
<1>1. PICK a, b, c, d \in Int : r = <<a, b, c, d>>
  OBVIOUS
<1>2. <<a, b, c, d>> \in Seq(Int)
  OBVIOUS
<1> QED
  BY <1>1, <1>2

\* The tokens of each kind of option are apart, and what is set has a name.
LEMMA SettingTokens ==
  /\ DOMAIN AsNumber = NumberTokens /\ DOMAIN AsCharacter = CharacterTokens
  /\ \A k \in NumberTokens : AsNumber[k] \in SettingTags
  /\ \A k \in CharacterTokens : AsCharacter[k] \in SettingTags
<1>1. DOMAIN AsNumber = NumberTokens
  BY DEF AsNumber, NumberTokens
<1>2. DOMAIN AsCharacter = CharacterTokens
  BY DEF AsCharacter, CharacterTokens
<1>3. \A k \in NumberTokens : AsNumber[k] \in SettingTags
  BY DEF AsNumber, NumberTokens, SettingTags
<1>4. \A k \in CharacterTokens : AsCharacter[k] \in SettingTags
  BY DEF AsCharacter, CharacterTokens, SettingTags
<1> QED
  BY <1>1, <1>2, <1>3, <1>4

LEMMA ZoomRegionTyped ==
  ASSUME NEW zoom \in Nat \ {0} PROVE ZoomRegion(zoom) \in Seq(Int)
<1> DEFINE w == ActiveArray[1] \div zoom
           h == ActiveArray[2] \div zoom
<1>1. ActiveArray[1] \in Nat /\ ActiveArray[2] \in Nat
  BY SensorAssumption
<1>2. w \in Int /\ h \in Int
  BY <1>1
<1> HIDE DEF w, h
<1>3. (ActiveArray[1] - w) \div 2 \in Int /\ (ActiveArray[2] - h) \div 2 \in Int
  BY <1>1, <1>2
<1> DEFINE x == (ActiveArray[1] - w) \div 2
           y == (ActiveArray[2] - h) \div 2
<1>4. ZoomRegion(zoom) = <<x, y, w, h>>
  BY DEF ZoomRegion, w, h
<1> HIDE DEF x, y
<1>5. x \in Int /\ y \in Int
  BY <1>3 DEF x, y
<1> QED
  BY <1>2, <1>4, <1>5

\* What an option sets are settings.
LEMMA SettingTyped == ASSUME NEW o \in SettingOptions PROVE Setting(o) \in Settings
<1> DEFINE new == Setting(o)
           v == o.value
           opt == o.opt
<1>0. \A tag \in SettingTags, x \in Int : Only(tag, x) \in Settings
  <2> SUFFICES ASSUME NEW tag \in SettingTags, NEW x \in Int PROVE Only(tag, x) \in Settings
    OBVIOUS
  <2>1. /\ DOMAIN Only(tag, x) = {tag} /\ Only(tag, x)[tag] = x
        /\ Only(tag, x) = [t \in DOMAIN Only(tag, x) |-> Only(tag, x)[t]]
    BY DEF Only
  <2> HIDE DEF Only
  <2> QED
    BY <2>1, TaggedAre
<1>1. /\ opt \in NumberTokens
           \cup {"manual_exp", "manual_iso", "manualsens", "manual_exp_comp"}
         => v \in Int
      /\ opt = "zoom" => v \in Nat \ {0}
      /\ opt \in CharacterTokens => v \in 0 .. 999
      /\ opt = "cropregion" => v \in Int \X Int \X Int \X Int
      /\ opt \in NumberTokens \cup CharacterTokens
           \cup {"manual_exp", "manual_iso", "manualsens", "manual_exp_comp",
                 "zoom", "cropregion"}
  <2> HIDE DEF opt, v
  <2>1. \/ /\ opt \in NumberTokens
              \cup {"manual_exp", "manual_iso", "manualsens", "manual_exp_comp"}
           /\ v \in Int
        \/ opt = "zoom" /\ v \in Nat \ {0}
        \/ opt \in CharacterTokens /\ v \in 0 .. 999
        \/ opt = "cropregion" /\ v \in Int \X Int \X Int \X Int
    BY SettingTokens DEF SettingOptions, opt, v
  <2> QED
    BY <2>1 DEF NumberTokens, CharacterTokens
<1> SUFFICES new \in Settings
  OBVIOUS
<1> HIDE DEF new, v, opt
<1>2. CASE opt \in NumberTokens
  <2> DEFINE tag == AsNumber[opt]
  <2>1. opt \in DOMAIN AsNumber /\ opt \notin DOMAIN AsCharacter
    BY <1>2, SettingTokens DEF NumberTokens, CharacterTokens
  <2>2. new = Only(tag, v)
    BY <1>2, <2>1 DEF Setting, NumberTokens, new, v, opt
  <2> HIDE DEF tag
  <2>3. tag \in SettingTags
    BY <1>2, SettingTokens DEF tag
  <2> QED
    BY <1>0, <1>1, <1>2, <2>2, <2>3
<1>3. CASE opt \in CharacterTokens
  <2> DEFINE tag == AsCharacter[opt]
  <2>1. opt \notin DOMAIN AsNumber /\ opt \in DOMAIN AsCharacter
    BY <1>3, SettingTokens DEF NumberTokens, CharacterTokens
  <2>2. new = Only(tag, Character(v))
    BY <1>3, <2>1 DEF Setting, CharacterTokens, new, v, opt
  <2> HIDE DEF tag
  <2>3. Character(v) \in Int
    BY <1>1, <1>3, CharacterTyped
  <2>4. tag \in SettingTags
    BY <1>3, SettingTokens DEF tag
  <2> QED
    BY <1>0, <2>2, <2>3, <2>4
<1>4. CASE opt \notin NumberTokens \cup CharacterTokens
  <2>1. opt \notin DOMAIN AsNumber /\ opt \notin DOMAIN AsCharacter
    BY <1>4, SettingTokens
  <2> DEFINE Numbered == /\ new = [t \in DOMAIN new |-> new[t]]
                         /\ DOMAIN new \subseteq SettingTags
                         /\ \A t \in DOMAIN new : new[t] \in Int
  <2>2. Numbered => new \in Settings
    BY TaggedAre
  <2>3. CASE opt = "manual_exp"
    <3>1. new = [aeMode |-> 0, exposureValue |-> v]
      BY <2>1, <2>3 DEF Setting, new, v, opt
    <3> QED
      BY <1>1, <2>2, <2>3, <3>1 DEF SettingTags
  <2>4. CASE opt = "manual_iso"
    <3>1. new = [aeMode |-> 0, isoValue |-> v]
      BY <2>1, <2>4 DEF Setting, new, v, opt
    <3> QED
      BY <1>1, <2>2, <2>4, <3>1 DEF SettingTags
  <2>5. CASE opt = "manualsens"
    <3>1. new = IF v \in DOMAIN ExposureFor
                THEN [isoValue |-> v, exposureValue |-> ExposureFor[v]]
                ELSE [isoValue |-> v]
      BY <2>1, <2>5 DEF Setting, new, v, opt
    <3>2. v \in DOMAIN ExposureFor => ExposureFor[v] \in Int
      BY DEF ExposureFor
    <3>3. CASE v \in DOMAIN ExposureFor
      <4> DEFINE time == ExposureFor[v]
      <4>1. new = [isoValue |-> v, exposureValue |-> time] /\ time \in Int
        BY <3>1, <3>2, <3>3
      <4> HIDE DEF time
      <4> QED
        BY <1>1, <2>2, <2>5, <4>1 DEF SettingTags
    <3>4. CASE v \notin DOMAIN ExposureFor
      <4>1. new = [isoValue |-> v]
        BY <3>1, <3>4
      <4> QED
        BY <1>1, <2>2, <2>5, <4>1 DEF SettingTags
    <3> QED
      BY <3>3, <3>4
  <2>6. CASE opt = "zoom"
    <3> DEFINE region == ZoomRegion(v)
    <3>1. new = [cropregion |-> region]
      BY <2>1, <2>6 DEF Setting, new, v, opt
    <3>2. region \in Seq(Int)
      BY <1>1, <2>6, ZoomRegionTyped
    <3> HIDE DEF region
    <3> QED
      BY <3>1, <3>2, TaggedAre DEF SettingTags
  <2>7. CASE opt = "cropregion"
    <3>1. new = [cropregion |-> v] \/ new = << >>
      BY <2>1, <2>7 DEF Setting, new, v, opt
    <3>2. v \in Seq(Int)
      BY <1>1, <2>7, FourAreSequence
    <3>3. CASE new = [cropregion |-> v]
      BY <3>2, <3>3, TaggedAre DEF SettingTags
    <3>4. CASE new = << >>
      BY <2>2, <3>4
    <3> QED
      BY <3>1, <3>3, <3>4
  <2>8. CASE opt = "manual_exp_comp"
    <3>1. new = [aeComp |-> v] \/ new = << >>
      BY <2>1, <2>8 DEF Setting, new, v, opt
    <3>2. CASE new = [aeComp |-> v]
      BY <1>1, <2>2, <2>8, <3>2 DEF SettingTags
    <3>3. CASE new = << >>
      BY <2>2, <3>3
    <3> QED
      BY <3>1, <3>2, <3>3
  <2> QED
    BY <1>1, <1>4, <2>3, <2>4, <2>5, <2>6, <2>7, <2>8
<1> QED
  BY <1>2, <1>3, <1>4

LEMMA UpdatedTyped ==
  ASSUME NEW s \in Settings, NEW new \in Settings
  PROVE  Updated(s, new) \in Settings
<1> DEFINE u == Updated(s, new)
<1>1. /\ DOMAIN u = DOMAIN s \cup DOMAIN new /\ u = [t \in DOMAIN u |-> u[t]]
      /\ \A t \in DOMAIN u : u[t] = IF t \in DOMAIN new THEN new[t] ELSE s[t]
  BY DEF Updated
<1> HIDE DEF u
<1>2. u \in Settings
  BY <1>1, SettingsAre
<1> QED
  BY <1>2 DEF u

\* The HAL's defaults and what it measures are numbers, and a U order of any length
\* makes settings of settings.
LEMMA NumbersGiven ==
  /\ Template \in Settings /\ Measured \subseteq Int
  /\ \A s \in Settings, order \in UpdateOrders : WithOrder(s, order) \in Settings
<1>1. Template \in Settings /\ Measured \subseteq Int
  BY ValueAssumption, SettingsAre DEF SettingTags
<1>2. ASSUME NEW s \in Settings, NEW order \in UpdateOrders
      PROVE  WithOrder(s, order) \in Settings
  <2> DEFINE n == Len(order)
             after == Updating(s, order)
             S == {i \in 0 .. n : after[i] \in Settings}
  <2>1. n \in Nat /\ \A i \in 1 .. n : order[i] \in SettingOptions
    <3>1. order \in Seq(SettingOptions)
      BY ValueAssumption
    <3> QED
      BY <3>1
  <2>2. after[0] = s /\ \A i \in 1 .. n : after[i] = Updated(after[i - 1], Setting(order[i]))
    BY <2>1, UpdatingIs
  <2> HIDE DEF after
  <2>3. ASSUME NEW i \in 1 .. n, after[i - 1] \in Settings PROVE after[i] \in Settings
    BY <2>1, <2>2, <2>3, SettingTyped, UpdatedTyped
  <2>4. 0 \in S /\ \A i \in 1 .. n : i - 1 \in S => i \in S
    BY <2>1, <2>2, <2>3
  <2>5. 0 .. n \subseteq S
    <3> HIDE DEF S
    <3> QED
      BY <2>1, <2>4, LoopKeeps
  <2> QED
    BY <2>1, <2>5 DEF WithOrder, after
<1> QED
  BY <1>1, <1>2

\* Settings are on their way from U to the request, and a HAL thread that is not
\* idle has a result with numbers in it.
ResultOK(r) ==
  r.pc # "idle" => \A t \in DOMAIN r.result \ {"cropregion"} : r.result[t] \in Int

ValueInv ==
  /\ current \in Settings
  /\ setting_list \in Seq(Settings)
  /\ setting \in Settings \cup {<< >>}
  /\ \A h \in HalThreads : ResultOK(handler[h])

TypeInv == ThreadInv /\ TypeOK /\ ValueInv

\* The parts of TypeOK.
Regions == {"cropregion", "activeArray", "cropRegion"}

StatOK(stat) ==
  DOMAIN stat = StatTags /\ \A t \in StatTags \ Regions : stat[t] \in Int

Handles == Files \cup {stderr, NULL}

LEMMA TypeInit == ASSUME MetaAssumption, Init PROVE TypeInv
<1>1. DOMAIN FirstStat = StatTags
  BY DEF FirstStat
<1>2. \A t \in StatTags \ Regions : FirstStat[t] \in Int
  BY DEF FirstStat, Zero, Regions
<1>5. requesting \in BOOLEAN /\ ignored \in BOOLEAN
  BY DEF Init
<1>3. TypeOK
  BY <1>1, <1>2, <1>5
     DEF Init, TypeOK, FirstFlags, Regions, MetaAssumption, Idle, At, Printing
<1>4. ValueInv
  BY NumbersGiven DEF Init, ValueInv, ResultOK, Idle, At
<1> QED
  BY <1>3, <1>4, ThreadInit DEF TypeInv

\* A thread's tag in hand has a number to store, or a region.
LEMMA StoredValue ==
  ASSUME MetaAssumption, TypeInv, NEW h \in HalThreads,
         handler[h].pc # "idle", handler[h].left # << >>
  PROVE  StatOK(StatAfter(h)) /\ This(h) \in Printed
<1>1. This(h) \in Printed
  BY DEF This, TypeInv, ThreadInv, ThreadOK
<1>2. ThisTag(h) \notin Regions => ThisValue(h) \in Int
  BY DEF ThisTag, ThisValue, Value, TypeInv, ValueInv, ResultOK, Zero, Regions
<1>3. ThisTag(h) \in StatTags
  BY <1>1, Tags DEF ThisTag
<1> QED
  BY <1>1, <1>2, <1>3 DEF StatAfter, StatOK, TypeInv, TypeOK, Regions

\* A step of a HAL thread on a result it has, or to the start.
LEMMA ThreadTyped ==
  ASSUME TypeInv, NEW h \in HalThreads, NEW pc, NEW left, NEW result, NEW file,
         Becomes(h, At(pc, left, result, file)),
         ThreadInv', file \in Handles,
         pc # "idle" => result = handler[h].result /\ handler[h].pc # "idle"
  PROVE  /\ \A g \in HalThreads : ResultOK(handler[g])'
         /\ \A g \in HalThreads :
              /\ handler'[g].pc \in {"idle", "tag"} \cup Printing
              /\ handler'[g].pc \in Printing => handler'[g].left # << >>
              /\ handler'[g].file \in Handles
<1>1. \A g \in HalThreads : handler'[g] = IF g = h THEN At(pc, left, result, file)
                                          ELSE handler[g]
  BY DEF Becomes, TypeInv, ThreadInv
<1>2. \A g \in HalThreads : ResultOK(handler[g])'
  BY <1>1 DEF TypeInv, ValueInv, ResultOK, At
<1>3. \A g \in HalThreads : handler'[g].file \in Handles
  BY <1>1 DEF TypeInv, TypeOK, Handles, At
<1> QED
  BY <1>2, <1>3 DEF ThreadInv, ThreadOK

\* What a HAL thread's step may do to the variables.
LEMMA ThreadStepTyped ==
  ASSUME TypeInv, ThreadInv', NEW h \in HalThreads, NEW pc, NEW left, NEW result,
         NEW file, Becomes(h, At(pc, left, result, file)), file \in Handles,
         pc # "idle" => result = handler[h].result /\ handler[h].pc # "idle",
         StatOK(meta_stat'), DOMAIN reported' = StatTags,
         file_handle' \in Handles, open_files' \subseteq Files,
         is_new_path' \in BOOLEAN,
         UNCHANGED <<meta_dump, log_type, path, settingVars, mainVars>>
  PROVE  TypeInv'
<1>1. /\ \A g \in HalThreads : ResultOK(handler[g])'
      /\ \A g \in HalThreads :
           /\ handler'[g].pc \in {"idle", "tag"} \cup Printing
           /\ handler'[g].pc \in Printing => handler'[g].left # << >>
           /\ handler'[g].file \in Handles
  BY ThreadTyped
<1>2. ValueInv'
  BY <1>1 DEF TypeInv, ValueInv, settingVars, requestVars
<1>3. TypeOK'
  BY <1>1 DEF TypeInv, TypeOK, StatOK, Regions, Handles, mainVars, settingVars, requestVars
<1> QED
  BY <1>2, <1>3 DEF TypeInv

\* A step of another thread leaves the HAL's threads and the values alone.
LEMMA OtherStepTyped ==
  ASSUME TypeInv, ThreadInv', UNCHANGED <<handler, statVars, file_handle>>,
         open_files' \subseteq open_files,
         meta_dump' \subseteq Printed \cup {"temperature"},
         log_type' \in {"FILE", "STDIO", "ALOGE"}, is_new_path' \in BOOLEAN,
         path' \in Paths \cup {DefaultPath}, new_path' \in Paths \cup {DefaultPath},
         mainPc' \in {"none", "run", "newPath", "storePath", "stopped", "closed"},
         class' = class, commands' \in 0 .. CommandBound, lives' = lives,
         current' \in Settings, setting_list' \in Seq(Settings),
         setting' \in Settings \cup {<< >>},
         requesting' \in BOOLEAN, ignored' \in BOOLEAN
  PROVE  TypeInv'
<1>1. ValueInv'
  BY DEF TypeInv, ValueInv, ResultOK
<1>2. TypeOK'
  BY DEF TypeInv, TypeOK, statVars
<1> QED
  BY <1>1, <1>2 DEF TypeInv

LEMMA TypeNext ==
  ASSUME MetaAssumption, TypeInv, [Next]_vars
  PROVE  TypeInv'
<1> USE DEF mainVars, logVars, statVars, settingVars, requestVars
<1>a. ThreadInv'
  BY ThreadNext DEF TypeInv
<1>b. /\ meta_dump \subseteq Printed \cup {"temperature"}
      /\ StatOK(meta_stat) /\ DOMAIN reported = StatTags
      /\ log_type \in {"FILE", "STDIO", "ALOGE"}
      /\ path \in Paths \cup {DefaultPath} /\ new_path \in Paths \cup {DefaultPath}
      /\ is_new_path \in BOOLEAN /\ open_files \subseteq Files
      /\ file_handle \in Handles
      /\ mainPc \in {"none", "run", "newPath", "storePath", "stopped", "closed"}
      /\ class \in Classes /\ commands \in 0 .. CommandBound /\ lives \in 0 .. Lives
  BY DEF TypeInv, TypeOK, StatOK, Regions, Handles
<1>c. /\ current \in Settings /\ setting_list \in Seq(Settings)
      /\ setting \in Settings \cup {<< >>}
      /\ requesting \in BOOLEAN /\ ignored \in BOOLEAN
  BY DEF TypeInv, ValueInv, TypeOK
<1>d. stderr \in Handles /\ \A h \in HalThreads : handler[h].file \in Handles
  BY DEF TypeInv, TypeOK, Handles
<1>1. ASSUME NEW h \in HalThreads, NEW tags \in ResultTags, Result(h, tags)
      PROVE  TypeInv'
  <2>1. PICK m \in Measured : Becomes(h, At("tag", Flags, Reports(tags, m), stderr))
    BY <1>1 DEF Result
  <2>2. \A g \in HalThreads : handler'[g] =
          IF g = h THEN At("tag", Flags, Reports(tags, m), stderr) ELSE handler[g]
    BY <2>1 DEF Becomes, TypeInv, ThreadInv
  <2>3. setting \in Settings /\ m \in Int
    BY <1>1, <1>c, NumbersGiven DEF Result
  <2>4. \A t \in tags \ {"cropregion"} : Reports(tags, m)[t] \in Int
    BY <2>3 DEF Reports, Settings
  <2>5. DOMAIN Reports(tags, m) = tags
    BY DEF Reports
  <2>6. ResultOK(At("tag", Flags, Reports(tags, m), stderr))
    BY <2>4, <2>5 DEF ResultOK, At
  <2>7. ValueInv'
    BY <1>1, <1>c, <2>2, <2>6 DEF Result, TypeInv, ValueInv, ResultOK
  <2>8. \A g \in HalThreads : handler'[g].file \in Handles
    BY <1>d, <2>2 DEF At
  <2>9. TypeOK'
    BY <1>1, <1>a, <2>8 DEF Result, TypeInv, TypeOK, ThreadInv, ThreadOK, Handles
  <2> QED
    BY <1>a, <2>7, <2>9 DEF TypeInv
<1>2. ASSUME NEW h \in HalThreads, HandlerStep(h)
      PROVE  TypeInv'
  <2>a. ASSUME handler[h].pc # "idle", handler[h].left # << >>
        PROVE  StatOK(StatAfter(h))
    BY <2>a, StoredValue
  <2>b. handler[h].pc \in Printing => handler[h].pc # "idle" /\ handler[h].left # << >>
    BY DEF TypeInv, TypeOK, Printing
  <2>1. CASE Skip(h)
    BY <1>a, <1>b, <1>d, <2>1, ThreadStepTyped DEF Skip, Advance
  <2>2. CASE Compare(h)
    <3>1. handler[h].pc = "tag" /\ handler[h].left # << >>
      BY <2>2 DEF Compare
    <3>2. StatOK(meta_stat')
      BY <1>b, <2>2, <2>a, <3>1 DEF Compare
    <3> QED
      BY <1>a, <1>b, <1>d, <2>2, <3>1, <3>2, ThreadStepTyped DEF Compare, Advance, Goto
  <2>3. CASE Return(h)
    BY <1>a, <1>b, <1>d, <2>3, ThreadStepTyped DEF Return, Idle
  <2>4. ASSUME Emit(h), handler[h].pc \in Printing
        PROVE  TypeInv'
    <3>1. DOMAIN reported' = StatTags
      BY <1>b, <2>4 DEF Emit
    <3>2. StatOK(meta_stat')
      BY <2>4, <2>a, <2>b DEF Emit
    <3> QED
      BY <1>a, <1>b, <1>d, <2>4, <2>b, <3>1, <3>2, ThreadStepTyped DEF Emit, Advance
  <2>5. CASE PrintStd(h)
    BY <2>4, <2>5 DEF PrintStd, Printing
  <2>6. CASE PrintFile(h)
    <3>1. PICK pc : Goto(h, pc, stderr)
      BY <2>6 DEF PrintFile
    <3> QED
      BY <1>a, <1>b, <1>d, <2>6, <2>b, <3>1, ThreadStepTyped
         DEF PrintFile, Goto, Printing
  <2>7. CASE Open(h)
    <3> DEFINE opened == IF path \in Unwritable THEN NULL
                         ELSE CHOOSE f \in Files : f \notin open_files
    <3>1. opened \in Handles
      BY <2>7 DEF Open, Handles
    <3>2. /\ Goto(h, "assign", opened)
          /\ open_files' = (open_files \cup ({opened} \ {NULL})) \ {file_handle}
      BY <2>7 DEF Open, Replaced
    <3>3. open_files' \subseteq Files
      <4>1. opened \in Files \cup {NULL}
        BY <2>7 DEF Open
      <4> QED
        BY <1>b, <3>2, <4>1
    <3>4. handler[h].pc \in Printing
      BY <2>7 DEF Open, Printing
    <3>5. UNCHANGED <<meta_dump, statVars, log_type, path, is_new_path,
                      file_handle, settingVars, mainVars>>
      BY <2>7 DEF Open
    <3> QED
      BY <1>a, <1>b, <2>b, <3>1, <3>2, <3>3, <3>4, <3>5, ThreadStepTyped DEF Goto
  <2>8. CASE Assign(h)
    <3>1. handler[h].pc \in Printing
      BY <2>8 DEF Assign, Printing
    <3> QED
      BY <1>a, <1>b, <1>d, <2>8, <2>b, <3>1, ThreadStepTyped DEF Assign, Goto
  <2>9. CASE Write(h)
    BY <2>4, <2>9 DEF Write, Printing
  <2> QED
    BY <1>2, <2>1, <2>2, <2>3, <2>5, <2>6, <2>7, <2>8, <2>9 DEF HandlerStep
<1>3. CASE SatResult
  <2>1. PICK m \in Measured, tags \in SUBSET SatTags :
          meta_stat' = [t \in StatTags |->
                          CASE t \notin tags -> meta_stat[t]
                            [] t \in tags /\ t = "camId" -> m
                            [] OTHER -> SatArray(meta_stat[t], m)]
    BY <1>3 DEF SatResult
  <2>2. \A t \in StatTags \ Regions : meta_stat'[t] \in {meta_stat[t], m}
    BY <2>1 DEF SatTags, Regions
  <2>3. StatOK(meta_stat')
    BY <1>b, <2>1, <2>2, NumbersGiven DEF StatOK
  <2>4. ValueInv'
    BY <1>3 DEF SatResult, TypeInv, ValueInv, ResultOK
  <2>5. TypeOK'
    BY <1>3, <2>3 DEF SatResult, TypeInv, TypeOK, StatOK, Regions
  <2> QED
    BY <1>a, <2>4, <2>5 DEF TypeInv
<1>4. CASE Request
  <2>1. /\ setting_list # << >> /\ setting' \in {setting, Head(setting_list)}
        /\ setting_list' = Tail(setting_list) /\ ignored' \in BOOLEAN
    BY <1>4 DEF Request
  <2>2. setting' \in Settings \cup {<< >>} /\ setting_list' \in Seq(Settings)
    BY <1>c, <2>1
  <2> QED
    BY <1>4, <1>a, <1>b, <1>c, <2>1, <2>2, OtherStepTyped DEF Request
<1>17. CASE RequestRefused
  <2>1. requesting' \in BOOLEAN
    BY <1>17 DEF RequestRefused
  <2>2. setting_list' \in Seq(Settings)
    <3>1. CASE setting_list = << >>
      BY <1>17, <3>1 DEF RequestRefused
    <3>2. CASE setting_list # << >>
      BY <1>17, <1>c, <3>2 DEF RequestRefused
    <3> QED
      BY <3>1, <3>2
  <2> QED
    BY <1>17, <1>a, <1>b, <1>c, <2>1, <2>2, OtherStepTyped DEF RequestRefused
<1>5. CASE Add
  <2>1. <<Template>> \in Seq(Settings) /\ Template \in Settings
    BY NumbersGiven
  <2>2. StatOK(FirstStat)
    BY DEF StatOK, FirstStat, Zero, Regions
  <2>3. ValueInv'
    BY <1>5, <2>1 DEF Add, TypeInv, ValueInv, ResultOK
  <2>5. requesting' \in BOOLEAN /\ ignored' \in BOOLEAN
    BY <1>5 DEF Add
  <2>4. TypeOK'
    BY <1>5, <2>2, <2>5
       DEF Add, TypeInv, TypeOK, StatOK, Regions, FirstFlags, FirstStat, MetaAssumption
  <2> QED
    BY <1>a, <2>3, <2>4 DEF TypeInv
<1>6. ASSUME Command PROVE commands' \in 0 .. CommandBound /\ mainPc = "run"
  BY <1>6, <1>b DEF Command, MetaAssumption
<1>7. ASSUME NEW order \in UpdateOrders, Update(order) PROVE TypeInv'
  <2>1. current' \in Settings
    BY <1>7, <1>c, NumbersGiven DEF Update
  <2>2. setting_list' \in Seq(Settings)
    BY <1>7, <1>c, <2>1 DEF Update, Posted
  <2> QED
    BY <1>7, <1>6, <1>a, <1>b, <1>c, <2>1, <2>2, OtherStepTyped DEF Update, Command
<1>8. ASSUME NEW f \in MetaOptions, NEW on \in BOOLEAN, SetFlag(f, on)
      PROVE  TypeInv'
  <2>1. meta_dump' \subseteq Printed \cup {"temperature"}
    BY <1>8, <1>b DEF SetFlag, MetaAssumption
  <2> QED
    BY <1>8, <1>6, <1>a, <1>b, <1>c, <2>1, OtherStepTyped DEF SetFlag, Command
<1>9. ASSUME NEW type \in {"STDIO", "ALOGE"}, SetStd(type) PROVE TypeInv'
  BY <1>9, <1>6, <1>a, <1>b, <1>c, OtherStepTyped DEF SetStd, Command
<1>10. ASSUME NEW p \in Paths, SetPath(p) PROVE TypeInv'
  <2>1. mainPc' \in {"newPath", "run"} /\ new_path' \in Paths
    BY <1>10 DEF SetPath
  <2> QED
    BY <1>10, <1>6, <1>a, <1>b, <1>c, <2>1, OtherStepTyped DEF SetPath, Command
<1>11. CASE MarkNewPath
  BY <1>11, <1>a, <1>b, <1>c, OtherStepTyped DEF MarkNewPath
<1>12. CASE StorePath
  BY <1>12, <1>a, <1>b, <1>c, OtherStepTyped DEF StorePath
<1>13. CASE Stop
  BY <1>13, <1>a, <1>b, <1>c, OtherStepTyped DEF Stop
<1>14. CASE Close
  BY <1>14, <1>a, <1>b, <1>c, OtherStepTyped DEF Close
<1>15. CASE Delete
  <2>1. open_files' \subseteq open_files
    BY <1>15 DEF Delete
  <2> QED
    BY <1>15, <1>a, <1>b, <1>c, <2>1, OtherStepTyped DEF Delete
<1>16. CASE UNCHANGED vars
  BY <1>16, <1>a, <1>b, <1>c, OtherStepTyped DEF vars
<1> QED
  BY <1>1, <1>2, <1>3, <1>4, <1>5, <1>7, <1>8, <1>9, <1>10, <1>11, <1>12, <1>13,
     <1>14, <1>15, <1>16, <1>17 DEF Next

\* The fields of the log and of the configuration, the steps of the HAL's threads
\* and what they read keep their types; every last value but a region is a
\* number, whatever settings the user makes (qcamx_config.h:30-75,
\* qcamx_log.h:17-40).
THEOREM MetaTypes == Spec => []TypeOK
<1>1. Init => TypeInv
  BY TypeInit, MetaAssumption
<1>2. TypeInv /\ [Next]_vars => TypeInv'
  BY TypeNext, MetaAssumption
<1>3. TypeInv => TypeOK
  BY DEF TypeInv
<1> QED
  BY <1>1, <1>2, <1>3, PTL DEF Spec
=============================================================================
