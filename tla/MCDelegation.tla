---------------------------- MODULE MCDelegation ----------------------------
(***************************************************************************)
(* Small instances of Delegation.  Two files are enough for one to take    *)
(* the place of the other; two chunks for a pull to be half done.  No      *)
(* definition tells the files apart, so a safety run may swap them.        *)
(***************************************************************************)
EXTENDS Delegation, TLC

CONSTANTS a, b

MCFiles == {a, b}
TwoChunks == [f \in MCFiles |-> 2]
Swapped == Permutations(MCFiles)
=============================================================================
