--------------------------- MODULE MCChangeJournal ---------------------------
(* Finite instances of ChangeJournal and the mutants of its definitions. *)
EXTENDS ChangeJournal
=============================================================================
