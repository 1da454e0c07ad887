------------------------------ MODULE MCTurnLog ------------------------------
(* TLC instances of TurnLog. *)
EXTENDS TurnLog, TLC

CONSTANTS h1, h2, h3, c1, c2

MCSymmetry == Permutations(HistoryId \ {FirstHistory}) \cup Permutations(Client)
=============================================================================
