------------------------------ MODULE MCPacing ------------------------------
(***************************************************************************)
(* Small instances of Pacing.                                              *)
(***************************************************************************)
EXTENDS Pacing, TLC

MCSymmetry == Permutations(Client)
=============================================================================
