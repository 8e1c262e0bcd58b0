------------------------------ MODULE MCEncode ------------------------------
(***************************************************************************)
(* Instances of Encode for TLC.                                            *)
(***************************************************************************)
EXTENDS Encode
=============================================================================
