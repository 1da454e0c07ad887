------------------------------ MODULE MCWorlds ------------------------------
(* Small instances of Worlds. *)
EXTENDS Worlds, TLC

\* Players and snapshots are interchangeable.
MCSymmetry == Permutations(Client) \cup Permutations(WorldId)
=============================================================================
