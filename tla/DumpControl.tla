----------------------------- MODULE DumpControl -----------------------------
(***************************************************************************)
(* The counters by which a command asks a running case for pictures and    *)
(* dumps.  The command thread sets them, the result thread of the case     *)
(* tests one per frame, writes the file and counts down; there is no lock. *)
(*                                                                         *)
(* One entry per camera that has a case.  Whether a frame number is a      *)
(* multiple of the interval is left open.                                  *)
(***************************************************************************)
EXTENDS Integers, FiniteSetsExt

CONSTANTS
  Cameras,     \* camera ids
  Counts,      \* counts that a command asks for
  Intervals,   \* intervals of P:count/interval; 0 is none
  Word         \* the counters are unsigned int, modulo 2^32

ASSUME DumpAssumption ==
  /\ Counts \subseteq Nat /\ Intervals \subseteq Nat /\ 0 \in Intervals
  /\ Word \in Nat /\ \A n \in Counts \cup {1} : n + 1 < Word

VARIABLES
  preview_num, video_num,  \* _dump_preview_num, _dump_video_num
  interval,                \* _dump_interval
  snapshot_num,            \* _snapshot_num
  pictures,                \* pictures requested and not yet come
  post,                    \* where the result thread is in a frame
  trigger,                 \* the trigger_dump call the command thread is in
  asked, dumped            \* history: the largest count, files since a trigger

counterVars == <<preview_num, video_num, interval, snapshot_num>>
dumpVars == <<counterVars, pictures, post, trigger, asked, dumped>>

NoFrame   == [pc |-> "idle", counter |-> "none", value |-> 0]
NoTrigger == [pc |-> "none", camera |-> 0, count |-> 0, interval |-> 0]

NothingDumped == [preview |-> 0, video |-> 0]

DumpInit ==
  /\ preview_num = [c \in Cameras |-> 0] /\ video_num = [c \in Cameras |-> 0]
  /\ interval = [c \in Cameras |-> 0] /\ snapshot_num = [c \in Cameras |-> 0]
  /\ pictures = [c \in Cameras |-> 0]
  /\ post = [c \in Cameras |-> NoFrame]
  /\ trigger = NoTrigger
  /\ asked = [c \in Cameras |-> 0]
  /\ dumped = [c \in Cameras |-> NothingDumped]

----------------------------------------------------------------------------
(* Faulty variants *)

NeverCountsDown(n) == n
CounterOfPreview(class, type) == IF type = "SNAPSHOT" THEN "snapshot" ELSE "preview"
SetsNoSnapshots(c, class, n) == UNCHANGED snapshot_num
TriggerSwapped(c, n, i) ==
  trigger' = [pc |-> "preview", camera |-> c, count |-> i, interval |-> n]

----------------------------------------------------------------------------
(* The command thread *)

\* trigger_dump sets one counter after the other.
TriggerDump(c, n, i) ==
  trigger' = [pc |-> "preview", camera |-> c, count |-> n, interval |-> i]

TriggerPreview ==
  /\ trigger.pc = "preview"
  /\ preview_num' = [preview_num EXCEPT ![trigger.camera] = trigger.count]
  /\ trigger' = [trigger EXCEPT !.pc = "video"]
  /\ UNCHANGED <<video_num, interval, snapshot_num, pictures, post, asked, dumped>>

TriggerVideo ==
  /\ trigger.pc = "video"
  /\ video_num' = [video_num EXCEPT ![trigger.camera] = trigger.count]
  /\ trigger' = [trigger EXCEPT !.pc = "interval"]
  /\ UNCHANGED <<preview_num, interval, snapshot_num, pictures, post, asked,
                 dumped>>

TriggerInterval ==
  /\ trigger.pc = "interval"
  /\ interval' = [interval EXCEPT ![trigger.camera] = trigger.interval]
  /\ asked' = [asked EXCEPT ![trigger.camera] = Max({@, trigger.count})]
  /\ dumped' = [dumped EXCEPT ![trigger.camera] = NothingDumped]
  /\ trigger' = NoTrigger
  /\ UNCHANGED <<preview_num, video_num, snapshot_num, pictures, post>>

\* What request_capture does to _snapshot_num, and the pictures it asks for.
SnapshotNum(c, class, n) ==
  snapshot_num' = IF class = "SNAPSHOT" THEN [snapshot_num EXCEPT ![c] = n]
                                        ELSE snapshot_num

RequestCapture(c, class, onDemand, n) ==
  /\ SnapshotNum(c, class, n)
  /\ pictures' = IF onDemand THEN [pictures EXCEPT ![c] = @ + n] ELSE pictures

\* A case is deleted, its result thread has ended; init() of the next one
\* starts from zero, and a camera without a case is kept at zero.
ResetDump(c) ==
  /\ preview_num' = [preview_num EXCEPT ![c] = 0]
  /\ video_num' = [video_num EXCEPT ![c] = 0]
  /\ interval' = [interval EXCEPT ![c] = 0]
  /\ snapshot_num' = [snapshot_num EXCEPT ![c] = 0]
  /\ pictures' = [pictures EXCEPT ![c] = 0]
  /\ asked' = [asked EXCEPT ![c] = 0]
  /\ dumped' = [dumped EXCEPT ![c] = NothingDumped]
  /\ UNCHANGED <<post, trigger>>

----------------------------------------------------------------------------
(* The result thread: capture_post_process on a frame of a stream *)

\* The counter that is tested for a stream, and the one that is counted down:
\* not the same in the case for video only.
CounterTested(type) ==
  CASE type = "SNAPSHOT"             -> "snapshot"
    [] type \in {"PREVIEW", "IRBG"}  -> "preview"
    [] type \in {"VIDEO", "DEPTH"}   -> "video"

CounterReduced(class, type) ==
  IF class = "VIDEO_ONLY" THEN "preview" ELSE CounterTested(type)

Counter(c, k) == CASE k = "preview"  -> preview_num[c]
                   [] k = "video"    -> video_num[c]
                   [] k = "snapshot" -> snapshot_num[c]

\* Only previews and videos have an interval.
Wanted(c, type, due) ==
  /\ Counter(c, CounterTested(type)) > 0
  /\ type = "SNAPSHOT" \/ interval[c] = 0 \/ due

\* A file is counted for the trigger before it, if that one counts at all;
\* beyond the largest count and one more it makes no difference.
FileCounted(c, k) ==
  IF k = "snapshot" \/ interval[c] > 0 THEN dumped[c]
  ELSE [dumped[c] EXCEPT ![k] = Min({@ + 1, asked[c] + 2})]

\* The test of a frame's counter; the file follows if it is wanted.
Frame(c, class, type, onDemand) ==
  /\ post[c].pc = "idle"
  /\ onDemand => pictures[c] > 0
  /\ pictures' = IF onDemand THEN [pictures EXCEPT ![c] = @ - 1] ELSE pictures
  /\ \E due \in BOOLEAN :
       IF Wanted(c, type, due)
       THEN /\ post' = [post EXCEPT ![c] = [pc |-> "file", value |-> 0,
                                            counter |-> CounterReduced(class, type)]]
            /\ dumped' = [dumped EXCEPT ![c] = FileCounted(c, CounterTested(type))]
       ELSE UNCHANGED <<post, dumped>>
  /\ UNCHANGED <<counterVars, trigger, asked>>

\* Nothing is counted down while there is an interval; otherwise the counter
\* is read here and written in the next step.
FileWritten(c) ==
  /\ post[c].pc = "file"
  /\ post' = [post EXCEPT ![c] =
       IF post[c].counter # "snapshot" /\ interval[c] > 0 THEN NoFrame
       ELSE [@ EXCEPT !.pc = "store", !.value = Counter(c, post[c].counter)]]
  /\ UNCHANGED <<counterVars, pictures, trigger, asked, dumped>>

\* Unsigned, so that zero wraps round; _snapshot_num is signed.
CountedDown(n) == (n - 1) % Word

CountDown(c) ==
  /\ post[c].pc = "store"
  /\ LET k == post[c].counter
         n == IF k = "snapshot" THEN post[c].value - 1
                                ELSE CountedDown(post[c].value)
     IN /\ preview_num' = IF k = "preview" THEN [preview_num EXCEPT ![c] = n]
                          ELSE preview_num
        /\ video_num' = IF k = "video" THEN [video_num EXCEPT ![c] = n]
                        ELSE video_num
        /\ snapshot_num' = IF k = "snapshot" THEN [snapshot_num EXCEPT ![c] = n]
                           ELSE snapshot_num
  /\ post' = [post EXCEPT ![c] = NoFrame]
  /\ UNCHANGED <<interval, pictures, trigger, asked, dumped>>

----------------------------------------------------------------------------
(* Properties *)

DumpTypeOK ==
  /\ {preview_num, video_num} \subseteq [Cameras -> 0 .. Word - 1]
  /\ snapshot_num \in [Cameras -> Int]
  /\ interval \in [Cameras -> Intervals]
  /\ pictures \in [Cameras -> Nat]
  /\ post \in [Cameras -> [pc : {"idle", "file", "store"},
                           counter : {"none", "preview", "video", "snapshot"},
                           value : 0 .. Word - 1]]
  /\ asked \in [Cameras -> Counts \cup {0, 1}]
  /\ dumped \in [Cameras -> [preview : Nat, video : Nat]]

\* A command that asks for n frames of a stream gets no more of them.  When it
\* comes while an earlier one is being counted down, the count that is written
\* back may be the earlier one's, hence the largest.
DumpNotExceeded ==
  \A c \in Cameras : interval[c] = 0 /\ (trigger.pc = "none" \/ trigger.camera # c) =>
    dumped[c].preview <= asked[c] /\ dumped[c].video <= asked[c]

\* Every picture that was asked for is written to a file: the counter stands
\* at the pictures to come and the one that is being written.
PicturesSaved(c) ==
  snapshot_num[c] = pictures[c] + (IF post[c].counter = "snapshot" THEN 1 ELSE 0)
=============================================================================
