-------------------------------- MODULE Drain --------------------------------
(***************************************************************************)
(* A running game moves from an older release's server, which drains, to   *)
(* the newer one beside it (crates/tpf3mp-server drain.rs, the hand-over   *)
(* in room.rs, and directory.rs).                                          *)
(*                                                                         *)
(* The older server writes the game into a directory both can read, in a   *)
(* task of its own while the room goes on; the room hands over what was    *)
(* written if nobody came back and nothing was logged meanwhile.  The      *)
(* newer server takes the worlds, the pointer and the log in, one after    *)
(* the other.  Either server may stop between any two of these steps, and  *)
(* any of them may fail.  If the older one stops, or fails, between the    *)
(* rename that hands the game over and the deletion of its log, both may   *)
(* go on with it, each with turns of its own.                              *)
(*                                                                         *)
(* A turn is numbered by when it was played, a log is the set of turns in  *)
(* it, and a world the number of the turn it was saved at; a game's        *)
(* pointer names the world it holds.                                       *)
(***************************************************************************)
EXTENDS Integers, FiniteSets

CONSTANTS
    None,
    MaxTurns,  \* bound on the turns played
    MaxStops,  \* bound on restarts of either server
    MaxFails   \* bound on failing steps

ASSUME DrainAssumption ==
    MaxTurns \in Nat /\ MaxStops \in Nat /\ MaxFails \in Nat

VARIABLES
    draining,  \* Drain::draining, of the older server
    old,       \* the older server's game: whether it runs, its log, and its world
    export,    \* Room::handover: what is being written of it
    partial,   \* the .partial directory
    handed,    \* the .handover directory
    broken,    \* the .broken directory
    aside,     \* the logs set aside as .broken
    new,       \* the newer server's game: its log and pointer, and its world
    taking,    \* how far the newer server is with taking it in
    store,     \* the worlds the newer server keeps
    other,     \* whether another room of the newer server holds World0
    players,   \* the servers players of the game are connected to
    turns,     \* how many turns were played
    count,     \* stops and fails so far
    \* History variables: no code reads them.
    sent,      \* the logs of the game as players were sent them
    expired,   \* the logs that went because nobody returned to the game
    bare       \* the game taken in came without a world, or its world was
               \* let go of before it was held

older == <<draining, old, export, partial>>
newer == <<new, taking, store, other, aside>>
between == <<handed, broken>>
history == <<sent, expired, bare>>
vars == <<older, newer, between, players, turns, count, history>>

Turn == 1..MaxTurns
Log == SUBSET Turn
World == 0..MaxTurns
World0 == 0      \* the world the game started from, as other games may have
Server == {"old", "new"}

Directory == [log : {None} \cup Log, pointer : {None} \cup World, worlds : SUBSET World]
Empty == [log |-> None, pointer |-> None, worlds |-> {}]

ASSUME NoneAssumption ==
    /\ None \notin Nat /\ None \notin Directory /\ \A log \in Log : log # None
    /\ None \notin {"worlds", "pointer", "log", "recover", "hold"}

Init ==
    /\ draining = FALSE
    /\ old = [runs |-> TRUE, log |-> {}, world |-> World0]
    /\ export = None /\ partial = None /\ handed = None /\ broken = None /\ aside = {}
    /\ new = [runs |-> FALSE, log |-> None, pointer |-> None, world |-> None]
    /\ taking = None /\ other \in BOOLEAN
    /\ store = IF other THEN {World0} ELSE {}
    /\ players = {"old"} /\ turns = 0
    /\ count = [stops |-> 0, fails |-> 0]
    /\ sent = {{}} /\ expired = {} /\ bare = FALSE

Stops == count.stops < MaxStops /\ count' = [count EXCEPT !.stops = @ + 1]
Fail == count.fails < MaxFails /\ count' = [count EXCEPT !.fails = @ + 1]
-----------------------------------------------------------------------------
(* The game goes on, on either server                                      *)

Runs(server) == IF server = "old" THEN old.runs ELSE new.runs

Joins(server) ==
    /\ Runs(server)
    /\ server \notin players /\ players' = players \cup {server}
    /\ UNCHANGED <<older, newer, between, turns, count, history>>

Disconnects(server) ==
    /\ server \in players /\ players' = players \ {server}
    /\ UNCHANGED <<older, newer, between, turns, count, history>>

\* The turn played next, logged and sent to the players of a game.
Plays(log) ==
    /\ turns < MaxTurns /\ turns' = turns + 1
    /\ sent' = sent \cup {log \cup {turns + 1}}

\* It may be a save's, whose world the players then hand the room.
OldPlays ==
    /\ "old" \in players /\ Plays(old.log)
    /\ \E world \in {old.world, turns + 1} :
        old' = [old EXCEPT !.log = @ \cup {turns + 1}, !.world = world]
    /\ UNCHANGED <<draining, export, partial, newer, between, players, count, expired, bare>>

NewPlays ==
    /\ "new" \in players /\ Plays(new.log)
    /\ new' = [new EXCEPT !.log = @ \cup {turns + 1}]
    /\ UNCHANGED <<older, taking, store, other, aside, between, players, count, expired, bare>>
-----------------------------------------------------------------------------
(* The older server                                                        *)

\* Drain::start, for good.
StartDrain ==
    /\ ~draining /\ draining' = TRUE
    /\ UNCHANGED <<old, export, partial, newer, between, players, turns, count, history>>

\* expire_if_abandoned: not while the game may still be handed over.
OldExpires ==
    /\ ~draining /\ old.runs /\ "old" \notin players
    /\ old' = [runs |-> FALSE, log |-> None, world |-> None]
    /\ expired' = expired \cup {old.log}
    /\ UNCHANGED <<draining, export, partial, newer, between, players, turns, count, sent, bare>>

\* hand_over_if_unattended.
StartExport ==
    /\ draining /\ old.runs /\ "old" \notin players /\ export = None
    /\ export' = [is |-> "log", written |-> old.log, held |-> {old.world} \ {None}]
    /\ partial' = Empty
    /\ UNCHANGED <<draining, old, newer, between, players, turns, count, history>>

Exported(what, is) ==
    /\ partial' = what
    /\ export' = [export EXCEPT !.is = is]
    /\ UNCHANGED <<draining, old, newer, between, players, turns, count, history>>

\* drain::export, a file at a time: the log and the pointer are those of now,
\* the worlds those the game held when it began.
ExportLog ==
    /\ export # None /\ export.is = "log"
    /\ Exported([partial EXCEPT !.log = old.log], "pointer")
ExportPointer ==
    /\ export # None /\ export.is = "pointer"
    /\ Exported([partial EXCEPT !.pointer = old.world], "worlds")
ExportWorlds ==
    /\ export # None /\ export.is = "worlds"
    /\ Exported([partial EXCEPT !.worlds = export.held], "written")

\* (mutant) an export that failed is not tried again.
ExportFailsForGood ==
    /\ export # None /\ export.is \in {"log", "pointer", "worlds"} /\ Fail
    /\ export' = [export EXCEPT !.is = "failed"]
    /\ UNCHANGED <<draining, old, partial, newer, between, players, turns, history>>

\* finish_handover of an export that failed: the game stays, and the export
\* is tried again.
ExportFails ==
    /\ export # None /\ export.is \in {"log", "pointer", "worlds"} /\ Fail
    /\ export' = None
    /\ UNCHANGED <<draining, old, partial, newer, between, players, turns, history>>

\* (mutant) what was logged while the game was written does not count.
StaysIfBack == "old" \in players \/ handed # None

\* Nor can it be handed over while one handed over before is still there:
\* publish, a rename, fails.
Stays == "old" \in players \/ old.log # export.written \/ handed # None

\* finish_handover, up to publish.
FinishHandover ==
    /\ export # None /\ export.is = "written"
    /\ partial' = None
    /\ IF Stays THEN export' = None /\ UNCHANGED <<old, handed>>
       ELSE /\ handed' = partial
            /\ export' = [export EXCEPT !.is = "published"]
            /\ old' = [old EXCEPT !.runs = FALSE]
    /\ UNCHANGED <<draining, broken, newer, players, turns, count, history>>

\* discard_game: the log goes, and the pointer with its world.
Discard(log) ==
    /\ export # None /\ export.is = "published"
    /\ export' = None
    /\ old' = [runs |-> FALSE, log |-> log, world |-> None]
    /\ UNCHANGED <<draining, partial, newer, between, players, turns, history>>
DiscardGame == Discard(None) /\ UNCHANGED count

\* The log cannot be deleted, of which the room only warns.
DiscardFails == Discard(old.log) /\ Fail

\* What was not handed over, or not deleted since, is recovered.
OldRestarts ==
    /\ Stops
    /\ old' = [old EXCEPT !.runs = (old.log # None)]
    /\ export' = None
    /\ players' = players \ {"old"}
    /\ UNCHANGED <<draining, partial, newer, between, turns, history>>
-----------------------------------------------------------------------------
(* The newer server                                                        *)

\* (mutant) what was set aside is taken in all the same.
SetAsideAndTakenIn == handed' = None /\ broken' = handed /\ UNCHANGED taking

\* set_aside of the hand-over, another rename: one set aside before is in its
\* way, and the hand-over stays.
SetAside ==
    /\ taking' = None
    /\ IF broken = None THEN handed' = None /\ broken' = handed
       ELSE UNCHANGED between

\* take_in_handovers and drain::take_in, up to the worlds.
TakeIn ==
    /\ taking = None /\ handed # None
    /\ IF new.log # None THEN SetAside /\ UNCHANGED bare
       ELSE /\ taking' = "worlds" /\ bare' = (handed.worlds = {})
            /\ UNCHANGED between
    /\ UNCHANGED <<older, new, store, other, aside, players, turns, count, sent, expired>>

Ingest ==
    /\ taking = "worlds" /\ taking' = "pointer"
    /\ store' = store \cup handed.worlds
    /\ UNCHANGED <<older, new, other, aside, between, players, turns, count, history>>

\* move_in, of the pointer: one that was moved in before a restart is there.
TakePointer ==
    /\ taking = "pointer" /\ taking' = "log"
    /\ new' = IF handed.pointer = None THEN new
              ELSE [new EXCEPT !.pointer = handed.pointer]
    /\ handed' = [handed EXCEPT !.pointer = None]
    /\ UNCHANGED <<older, store, other, aside, broken, players, turns, count, history>>

\* move_in, of the log, which is last.  One that was moved in before a
\* restart, and set aside at it, is missed.
TakeLog ==
    /\ taking = "log"
    /\ IF handed.log = None THEN SetAside /\ UNCHANGED new
       ELSE /\ taking' = "recover"
            /\ new' = [new EXCEPT !.log = handed.log]
            /\ handed' = [handed EXCEPT !.log = None] /\ UNCHANGED broken
    /\ UNCHANGED <<older, store, other, aside, players, turns, count, history>>

\* recover_snapshot: the world the pointer names, if it is in the store.
Restored(game) == IF game.pointer \in store THEN game.pointer ELSE None

\* Room::recover, of a room that has no holds yet.
Recover ==
    /\ taking = "recover" /\ taking' = "hold"
    /\ new' = [new EXCEPT !.world = Restored(new)]
    /\ UNCHANGED <<older, store, other, aside, between, players, turns, count, history>>

\* It holds its world, is there for players, and the hand-over goes.
Register ==
    /\ taking = "hold" /\ taking' = None
    /\ new' = [new EXCEPT !.runs = TRUE]
    /\ handed' = None
    /\ UNCHANGED <<older, store, other, aside, broken, players, turns, count, history>>

TakeInFails ==
    /\ taking \in {"worlds", "pointer", "log"} /\ Fail
    /\ SetAside
    /\ UNCHANGED <<older, new, store, other, aside, players, turns, history>>

\* set_aside of a log that cannot be restored.
LogAside ==
    /\ aside' = aside \cup {new.log}
    /\ new' = [new EXCEPT !.runs = FALSE, !.log = None]

\* The rest of the hand-over goes.
RecoverFails ==
    /\ taking = "recover" /\ Fail
    /\ taking' = None /\ handed' = None
    /\ LogAside
    /\ UNCHANGED <<older, store, other, broken, players, turns, history>>

\* Directory::recover, which lets go of every world no game restored holds.
Restarts ==
    /\ Stops
    /\ taking' = None
    /\ store' = (IF new'.runs THEN {new'.world} \ {None} ELSE {})
                  \cup (IF other THEN {World0} ELSE {})
    /\ players' = players \ {"new"}
    /\ UNCHANGED <<older, other, between, turns, history>>
NewRestarts ==
    /\ new' = IF new.log = None THEN new
              ELSE [new EXCEPT !.runs = TRUE, !.world = Restored(new)]
    /\ UNCHANGED aside
    /\ Restarts
NewRestartsWithout ==
    /\ new.log # None
    /\ LogAside
    /\ Restarts

\* What the store keeps once a room lets go of `world`, which another may
\* hold, too.
Without(world, held) == IF held THEN store ELSE store \ {world}

\* expire_if_abandoned, on this server.
NewExpires ==
    /\ new.runs /\ "new" \notin players
    /\ new' = [runs |-> FALSE, log |-> None, pointer |-> None, world |-> None]
    /\ expired' = expired \cup {new.log}
    /\ store' = Without(new.world, other /\ new.world = World0)
    /\ UNCHANGED <<older, taking, other, aside, between, players, turns, count, sent, bare>>

\* (mutant) the game taken in has no hold on its world.
OtherLetsGoOfIt ==
    /\ other /\ other' = FALSE
    /\ store' = store \ {World0}
    /\ bare' = (bare \/ taking # None)
    /\ UNCHANGED <<older, new, taking, aside, between, players, turns, count, sent, expired>>

\* Another room that holds the world the game started from lets go of it.  A
\* game that is being taken in does not hold it yet.
OtherLetsGo ==
    /\ other /\ other' = FALSE
    /\ store' = Without(World0, new.runs /\ new.world = World0)
    /\ bare' = (bare \/ (taking # None /\ World0 \in handed.worlds))
    /\ UNCHANGED <<older, new, taking, aside, between, players, turns, count, sent, expired>>
-----------------------------------------------------------------------------
Exports ==
    \/ StartExport \/ ExportLog \/ ExportPointer \/ ExportWorlds
    \/ FinishHandover \/ DiscardGame
TakesIn == TakeIn \/ Ingest \/ TakePointer \/ TakeLog \/ Recover \/ Register

Next ==
    \/ \E server \in Server : Joins(server) \/ Disconnects(server)
    \/ OldPlays \/ NewPlays
    \/ StartDrain \/ OldExpires
    \/ Exports \/ ExportFails \/ DiscardFails \/ OldRestarts
    \/ TakesIn \/ TakeInFails \/ RecoverFails
    \/ NewRestarts \/ NewRestartsWithout \/ NewExpires \/ OtherLetsGo

Spec == Init /\ [][Next]_vars

\* The room's ticker and the export's task run on the older server, and the
\* newer one looks for games every TAKE_IN_EVERY.
FairSpec ==
    /\ Spec
    /\ WF_vars(Exports)
    /\ WF_vars(TakesIn)
-----------------------------------------------------------------------------
TypeOK ==
    /\ old \in [runs : BOOLEAN, log : {None} \cup Log, world : {None} \cup World]
    /\ partial \in {None} \cup Directory /\ handed \in {None} \cup Directory
    /\ broken \in {None} \cup Directory /\ aside \subseteq Log
    /\ export # None =>
          /\ export.written \in Log
          /\ old.runs <=> export.is # "published"
          /\ partial = None <=> export.is = "published"
    /\ new \in [runs : BOOLEAN, log : {None} \cup Log, pointer : {None} \cup World,
                world : {None} \cup World]
    /\ taking \in {None, "worlds", "pointer", "log", "recover", "hold"}
    /\ taking # None => handed # None /\ ~new.runs
    /\ store \subseteq World /\ players \subseteq Server /\ turns \in 0..MaxTurns
    /\ draining \in BOOLEAN /\ other \in BOOLEAN /\ bare \in BOOLEAN
    /\ sent \subseteq Log /\ expired \subseteq Log

\* The logs of the game away from the older server: the newer one's, the one
\* handed over, and those set aside.
Away ==
    ({new.log} \cup {dir.log : dir \in {handed, broken} \ {None}} \cup aside) \ {None}
Logs == Away \cup ({old.log} \ {None})

\* What players were sent is whole in one log, a server's, the one handed over
\* or one set aside, unless it went because nobody returned: whatever stops or
\* fails, and though the game goes on while it is written, a draining game is
\* never lost (drain.rs:15), and where both servers play it on, neither
\* loses its turns to the other.
TurnsKept == \A log \in sent : \E kept \in Logs \cup expired : log \subseteq kept

\* A game the newer server runs has the world it was handed over with, and
\* the store keeps it: players who need a world can be sent one.  Excepted are
\* games without one, and games whose world another room of that server let go
\* of after it was ingested and before they held it (directory.rs:243): these
\* the code leaves without.
HasItsWorld == new.runs /\ ~bare => new.world # None /\ new.world \in store

\* Once nobody comes back to a draining game, it ends up on the newer server,
\* unless it was set aside there or nobody returned to it; and it ends here,
\* unless an earlier hand-over that could not be set aside is in its way.
\* Between the two, each server may have played it on.
MovesOver ==
    <>[](draining /\ "old" \notin players) =>
        <>[](/\ new.runs \/ aside # {} \/ broken # None \/ expired # {}
             /\ ~old.runs \/ (handed # None /\ broken # None))
=============================================================================
