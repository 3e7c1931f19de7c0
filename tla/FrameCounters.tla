--------------------------- MODULE FrameCounters ---------------------------
(***************************************************************************)
(* A replay window fed with any counters in any order.                     *)
(***************************************************************************)
EXTENDS ReplayWindow

CONSTANT MaxCounter       \* bound on the counters a peer seals frames with

VARIABLES window, taken   \* the window; history: every counter it took

vars == <<window, taken>>

Init == window = Empty /\ taken = {}

\* A frame with any counter, in any order.
Accept(c) ==
    /\ Fresh(window, c)
    /\ window' = Seen(window, c)
    /\ taken' = taken \cup {c}

Next == \E c \in 1..MaxCounter : Accept(c)

Spec == Init /\ [][Next]_vars

-----------------------------------------------------------------------------
TypeOK == window.highest \in 0..MaxCounter /\ window.bitmap \subseteq Mask

\* Whatever the order and however far the counters jump, the window takes a
\* counter exactly when it was not taken before and is less than WINDOW below
\* the highest: no replay gets in, and no fresh frame within it is refused.
TakesFreshOnce ==
    \A c \in 1..MaxCounter :
        Fresh(window, c) <=> c \notin taken /\ c + WINDOW > window.highest
=============================================================================
