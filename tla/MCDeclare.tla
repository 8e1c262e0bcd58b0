------------------------------ MODULE MCDeclare ------------------------------
(***************************************************************************)
(* Instances of Declare for TLC.                                           *)
(***************************************************************************)
EXTENDS Declare, TLC

Interchangeable == Permutations(Graphs) \cup Permutations(Names)
=============================================================================
