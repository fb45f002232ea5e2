---------------------------- MODULE MCInodeTable ----------------------------
(* Model values for InodeTable; pool workers and names are interchangeable. *)
EXTENDS InodeTable, TLC

Symmetry == Permutations(Workers) \union Permutations(Paths)
=============================================================================
