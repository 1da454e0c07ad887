------------------------------ MODULE Playing ------------------------------
(***************************************************************************)
(* What a player's game does with the room's history, whatever lies        *)
(* between it and the server: it loads a world the history passes through, *)
(* and from there plays every event and step of it, in order, as long as   *)
(* there are any.  `Bridge` implements it.                                 *)
(***************************************************************************)
EXTENDS Naturals, Sequences

CONSTANTS Log,   \* the room's history: a sequence of events, saves and steps
          None
VARIABLE at      \* how much of it the game's world has in it; None without one

\* The worlds the room can hand out: the one it began with, and every save.
Worlds == {0} \cup {p \in DOMAIN Log : Log[p] = "save"}

Init == at = None

Load(world) == at' = world

Play ==
    /\ at # None /\ at < Len(Log)
    /\ at' = at + 1

Next == Play \/ \E world \in Worlds : Load(world)

Spec == Init /\ [][Next]_at
FairSpec == Spec /\ WF_at(Play)
=============================================================================
