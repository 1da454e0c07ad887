------------------------------ MODULE MCSaves ------------------------------
EXTENDS Saves, TLC
CONSTANTS p1, p2, s1, s2
MCOrder == <<p1, p2>>
MCSymmetry == Permutations(Snapshot)
=============================================================================
