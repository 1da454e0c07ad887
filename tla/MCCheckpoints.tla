--------------------------- MODULE MCCheckpoints ---------------------------
(* Small instances of Checkpoints. *)
EXTENDS Checkpoints, TLC

CONSTANTS c1, c2, c3

MCPair == <<c1, c2>>
MCTriple == <<c1, c2, c3>>
MCSymmetry == Permutations(World)
=============================================================================
