--------------------------- MODULE RequestWindow ---------------------------
(***************************************************************************)
(* What the request and result threads of QCamxDevice promise, without     *)
(* buffers, messages or threads: requests are numbered in order, at most   *)
(* Limit of them are in flight, each retires once, and the streams are     *)
(* closed only when none is in flight.                                     *)
(***************************************************************************)
EXTENDS Integers, FiniteSets

CONSTANTS Limit,      \* most requests in flight
          FrameBound  \* bound: frame numbers issued

VARIABLES inflight,   \* frame numbers the camera is working on
          retired,    \* frame numbers completed
          closed      \* have the streams been closed?

windowVars == <<inflight, retired, closed>>

Init == inflight = {} /\ retired = {} /\ closed = FALSE

\* The next number in order enters the window.
Issue ==
  /\ ~closed /\ Cardinality(inflight) < Limit
  /\ \E f \in 0 .. (FrameBound - 1) :
       /\ inflight \cup retired = 0 .. (f - 1)
       /\ inflight' = inflight \cup {f}
  /\ UNCHANGED <<retired, closed>>

\* A request completes, in any order.
Retire ==
  /\ \E f \in inflight : /\ inflight' = inflight \ {f}
                         /\ retired' = retired \cup {f}
  /\ UNCHANGED closed

\* The camera refuses the request that was issued last.
Withdraw ==
  /\ \E f \in inflight : /\ \A g \in inflight \cup retired : g <= f
                         /\ inflight' = inflight \ {f}
  /\ UNCHANGED <<retired, closed>>

Close == inflight = {} /\ closed' = TRUE /\ UNCHANGED <<inflight, retired>>

Next == Issue \/ Retire \/ Withdraw \/ Close

Spec == Init /\ [][Next]_windowVars
=============================================================================
