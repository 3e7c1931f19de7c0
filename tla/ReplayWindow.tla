---------------------------- MODULE ReplayWindow ----------------------------
(***************************************************************************)
(* Which frame counters a secure session still takes: a sliding window,    *)
(* kept as the highest counter accepted and a bitmap of the WINDOW         *)
(* counters up to it, bit k being the one k below the highest.  The bitmap *)
(* is the set of the bits that are 1.                                      *)
(***************************************************************************)
EXTENDS Naturals

CONSTANT WINDOW   \* frames of reordering tolerance (64 in the code)

Mask == 0..(WINDOW - 1)
Windows == [highest : Nat, bitmap : SUBSET Nat]
Empty == [highest |-> 0, bitmap |-> {}]

\* The bitmap moved up by n counters, what falls out of the window dropped.
Shifted(bitmap, n) == IF n >= WINDOW THEN {} ELSE {k + n : k \in bitmap} \cap Mask

\* accept: is this counter fresh, and the window that has seen it.
Fresh(w, c) ==
    \/ c > w.highest
    \/ c <= w.highest /\ w.highest - c < WINDOW /\ w.highest - c \notin w.bitmap

\* Mutant of Seen: the new highest counter is not marked as seen itself.
Seen_HighestUnmarked(w, c) ==
    IF c > w.highest
    THEN [highest |-> c, bitmap |-> Shifted(w.bitmap, c - w.highest)]
    ELSE [w EXCEPT !.bitmap = @ \cup {w.highest - c}]

Seen(w, c) ==
    IF c > w.highest
    THEN [highest |-> c, bitmap |-> Shifted(w.bitmap, c - w.highest) \cup {0}]
    ELSE [w EXCEPT !.bitmap = @ \cup {w.highest - c}]
=============================================================================
