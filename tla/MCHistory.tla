----------------------------- MODULE MCHistory -----------------------------
(***************************************************************************)
(* Instances of History for TLC.  The callers are interchangeable, but a   *)
(* liveness property is checked with them, so no symmetry is declared.     *)
(***************************************************************************)
EXTENDS History
=============================================================================
