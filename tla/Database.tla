------------------------------- MODULE Database -------------------------------
(***************************************************************************)
(* What the modules about tables share: NULL, and rows that are not there. *)
(***************************************************************************)
CONSTANT None

Exists(row) == row # None
=============================================================================
