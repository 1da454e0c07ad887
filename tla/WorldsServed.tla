----------------------------- MODULE WorldsServed -----------------------------
(***************************************************************************)
(* How those who wait for a world get one: Worlds, with when the room      *)
(* makes a save (crates/tpf3mp-server room.rs, run_saves, and snapshots.rs,*)
(* Saves::due) in place of a snapshot that may be agreed on at any time.   *)
(*                                                                         *)
(* The room makes no save while one is under way, while no member that     *)
(* streams keeps up with it, nor of a log that has not changed since the   *)
(* last one, whatever became of that: a save nobody could hand on leaves   *)
(* those who wait for it waiting until the game goes on.                   *)
(*                                                                         *)
(* The server does not restart here.                                       *)
(***************************************************************************)
EXTENDS Worlds

VARIABLES
    changed,     \* the log went on since Saves::last_point
    follows,     \* a member that streams has the pace Following
    saving       \* the step of the save whose round or upload is under way, or None

saveVars == <<changed, follows, saving>>
servedVars == <<vars, saveVars>>

\* A world a game starts from is the save of its beginning.
ServedInit ==
    /\ Init
    /\ changed = (current = None) /\ follows = FALSE /\ saving = None

-----------------------------------------------------------------------------
(* The game and its members                                                *)

\* What this module adds nothing to.
Meanwhile ==
    /\ \/ WindowPasses
       \/ \E rested \in SUBSET Seated, d \in 0..step : AnnounceDivergence(rested, d)
       \/ \E c \in Client :
           \/ Disconnected(c) \/ Drop(c)
           \/ JoinResuming(c) \/ JoinForWorld(c) \/ JoinLate(c) \/ Leave(c)
           \/ GameEnds(c) \/ Receive(c) \/ Fetched(c)
    /\ UNCHANGED saveVars

\* Turns are sealed, or orders wait to be.
LogGrows ==
    /\ changed' = TRUE
    /\ Advance \/ UNCHANGED vars
    /\ UNCHANGED <<follows, saving>>

\* A member catches up, or one stalls, leaves or is handed a world.
PaceChanges == follows' = ~follows /\ UNCHANGED <<vars, changed, saving>>

-----------------------------------------------------------------------------
(* Saves                                                                   *)

\* (mutant) Also the first save waits for the log to change.
DueOfChanges == saving = None /\ changed
\* Saves::due, with the time since the last save left open.
Due == saving = None /\ (current = None \/ changed)

\* save_if_due: the save's own turn is the last of the log.
SaveIfDue ==
    /\ follows /\ \E c \in Client : Streams(c)
    /\ Due
    /\ saving' = step /\ changed' = FALSE
    /\ UNCHANGED <<vars, follows>>

\* decide_save, ask_for_upload: nobody could hand the save on.
SaveFails ==
    /\ saving # None /\ saving' = None
    /\ UNCHANGED <<vars, changed, follows>>

\* uploaded: the save becomes the room's snapshot, perhaps too late for the
\* resume window.
SaveArrives(inReach) ==
    /\ saving # None /\ saving' = None
    /\ Promote(saving, inReach)
    /\ UNCHANGED <<changed, follows>>

-----------------------------------------------------------------------------
ServedNext ==
    \/ Meanwhile \/ LogGrows \/ PaceChanges
    \/ SaveIfDue \/ SaveFails \/ \E inReach \in BOOLEAN : SaveArrives(inReach)

\* run_saves runs on every tick: it makes a wanted save a minimal gap after the
\* last, and ends one under way by its deadlines.  Of saves made again and
\* again, one is uploaded while the window still reaches it: this is assumed
\* of the players.
ServedSpec ==
    /\ ServedInit /\ [][ServedNext]_servedVars
    /\ WF_servedVars(wanted /\ SaveIfDue)
    /\ WF_servedVars(SaveFails \/ \E inReach \in BOOLEAN : SaveArrives(inReach))
    /\ SF_servedVars(SaveArrives(TRUE))

-----------------------------------------------------------------------------
\* Nobody who stays connected waits for a world for ever in a game that goes
\* on: while a member keeps up, and the log changes again and again
\* (offer_worlds' `wanted`, through Saves::due, to promote and the feeds).
Served ==
    \A c \in Client :
        ~ /\ <>[](Waits(seat[c]) /\ conn[c].open)
          /\ <>[](follows /\ \E d \in Client : Streams(d))
          /\ []<>(changed \/ current = None)
=============================================================================
