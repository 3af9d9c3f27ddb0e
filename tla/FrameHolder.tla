---------------------------- MODULE FrameHolder ----------------------------
(***************************************************************************)
(* What the capture pipeline expects of the video encoder: frames that are *)
(* handed over stay inside until they are given back to the pool, and the  *)
(* encoder is empty when it is shut and takes nothing afterwards.          *)
(***************************************************************************)
EXTENDS FiniteSets

VARIABLES pool,    \* frames that are not inside the encoder
          inside,  \* frames inside the encoder
          shut     \* has the encoder been stopped?

holderVars == <<pool, inside, shut>>

Init == inside = {} /\ shut = FALSE

Take ==
  /\ ~shut
  /\ \E B \in SUBSET pool : pool' = pool \ B /\ inside' = inside \cup B
  /\ UNCHANGED shut

\* Some frames come back; with the last of them the encoder may be shut.
GiveBack ==
  /\ \E B \in SUBSET inside : pool' = pool \cup B /\ inside' = inside \ B
  /\ \/ UNCHANGED shut
     \/ inside' = {} /\ shut' = TRUE

Next == Take \/ GiveBack

Spec == Init /\ [][Next]_holderVars
=============================================================================
