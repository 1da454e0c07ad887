------------------------------- MODULE MCRing -------------------------------
EXTENDS Ring, TLC
\* An empty payload, one that leaves one byte free, and one that fills the ring.
CONSTANTS empty, small, full, huge
MCMessage == {empty, small, full, huge}
MCSize == (empty :> 0) @@ (small :> 3) @@ (full :> 6) @@ (huge :> 7)
=============================================================================
