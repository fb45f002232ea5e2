---------------------------- MODULE MCOverlayStore ----------------------------
(* Model values for OverlayStore; pool workers are interchangeable. *)
EXTENDS OverlayStore, TLC

Symmetry == Permutations(Workers)
=============================================================================
