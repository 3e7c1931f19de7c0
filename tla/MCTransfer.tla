----------------------------- MODULE MCTransfer -----------------------------
(***************************************************************************)
(* Small instances of Transfer.  Two files are enough for one to take the  *)
(* place of the other; two chunks for a file to be half sent.              *)
(***************************************************************************)
EXTENDS Transfer

MCFiles == {"a", "b"}

\* The same shape: the length check of a reassembly is blind between them.
SameChunks == [f \in MCFiles |-> 2]
SameTail   == [f \in MCFiles |-> 2]

\* "b" is one short chunk: a chunk of it in place of one of "a" has the wrong
\* length, or no bytes at all.
MixedChunks == [f \in MCFiles |-> IF f = "a" THEN 2 ELSE 1]
MixedTail   == [f \in MCFiles |-> IF f = "a" THEN 2 ELSE 1]
=============================================================================
