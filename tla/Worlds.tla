------------------------------- MODULE Worlds -------------------------------
(***************************************************************************)
(* Which world every player of a running room plays (crates/tpf3mp-server  *)
(* room.rs, with the agent's bridge.rs for the clients' side).             *)
(*                                                                         *)
(* A game that loaded a save numbers its entities unlike one that kept its *)
(* own world, so every game of a room must play from the same loaded save. *)
(* Once the room hands its current snapshot to anyone (a newcomer, a       *)
(* player whose game restarted, a replica found diverged), it hands it to  *)
(* every other member too; one that cannot take it owes it.                *)
(*                                                                         *)
(* The room keeps worlds here.  Turns are left out (module TurnLog): of    *)
(* the resume window only whether it still reaches the current snapshot,   *)
(* of a connection only the worlds on their way.                           *)
(***************************************************************************)
EXTENDS Integers, Sequences, FiniteSets

CONSTANTS
    Client,       \* players
    WorldId,      \* snapshots, by content; those nobody refers to come again
    Own,          \* the world the owner's game made itself
    None,         \* an absent value
    QueueLimit,   \* worlds a turn queue holds before it is full
    MaxStep,      \* bound: the furthest step
    MaxRestarts   \* bound: server restarts

ASSUME ConstantsAssumption ==
    /\ IsFiniteSet(Client) /\ Client # {}
    /\ IsFiniteSet(WorldId) /\ WorldId # {}
    /\ Own \notin WorldId /\ None \notin WorldId /\ Own # None
    /\ QueueLimit \in Nat \ {0} /\ MaxStep \in Nat /\ MaxRestarts \in Nat

VARIABLES
    \* The room.
    step,        \* the frontier
    current,     \* the current snapshot and the step it stands at, or None
    reaches,     \* the resume window still reaches the current snapshot
    wanted,      \* someone needs a world the current snapshot cannot give
    seat,        \* per player, the member's record or None
    \* The players.
    game,        \* the world each game plays, and the one it fetches
    conn,        \* whether the player is connected, and the worlds on their way
    \* History variables: no code reads them.
    restarts,
    astray       \* a world the room took as handed over was lost on its way

roomVars == <<step, current, reaches>>
playerVars == <<game, restarts>>
vars == <<roomVars, wanted, seat, conn, playerVars, astray>>

-----------------------------------------------------------------------------
(* Members                                                                 *)

\* What a member waits for: nothing, any world, or one saved at or after the
\* step it diverged at.
Nothing == [kind |-> "nothing", after |-> 0]
World == [kind |-> "world", after |-> 0]
Rebase(after) == [kind |-> "rebase", after |-> after]

Member(linked, streaming, needs) ==
    [linked |-> linked, streaming |-> streaming, needs |-> needs, loaded |-> None]

Seated == {c \in Client : seat[c] # None}
Waits(member) == member # None /\ member.linked /\ member.needs # Nothing
Streams(c) == seat[c] # None /\ seat[c].streaming

NoConn == [open |-> FALSE, inbox |-> <<>>]
NewConn == [open |-> TRUE, inbox |-> <<>>]

\* A client names a resume point unless it has no turns of this game or
\* still fetches the world its stream started from.
Resumes(c) == game[c].world # None

\* A save that differs from every world anyone refers to.
Unused ==
    WorldId \ ({game[c].world : c \in Client} \cup {game[c].fetching : c \in Client}
               \cup {seat[c].loaded : c \in Seated}
               \cup UNION {{conn[c].inbox[i] : i \in 1..Len(conn[c].inbox)} : c \in Client}
               \cup {w.id : w \in {current} \ {None}})

-----------------------------------------------------------------------------
(* offer_worlds                                                            *)

\* What becomes of the other members once a world is handed to one.
\* (mutant) A member without a stream keeps whatever it plays.
RefeedForgets(member, id) ==
    IF member.linked /\ member.streaming /\ member.loaded # id THEN "feed" ELSE "alreadyOnIt"
Refeed(member, id) ==
    IF member.loaded = id THEN "alreadyOnIt"
    ELSE IF member.linked /\ member.streaming THEN "feed"
    ELSE "owes"

\* The members as they stand after a feed was tried.  A member already
\* playing whose queue is full is disconnected, and owes the world.
\* (mutant) Only the first world it loads is noted.
HandedFirst(member, id) ==
    [member EXCEPT !.streaming = TRUE, !.needs = Nothing,
                   !.loaded = IF @ = None THEN id ELSE @]
Handed(member, id) ==
    [member EXCEPT !.streaming = TRUE, !.needs = Nothing, !.loaded = id]
Refused(member) ==
    [member EXCEPT !.streaming = FALSE, !.needs = World,
                   !.linked = @ /\ ~member.streaming]

\* The room hands `world` to whoever waits for it and then to everyone else,
\* from the given members and connections; the actions below end with it.  A
\* send fails when the queue is full (of worlds, or of turns at any time) or
\* closed; one to a connection that is already gone may still succeed.
OfferWorlds(members, conns, world, served) ==
    LET others == {c \in Client \ served : served # {} /\ members[c] # None}
        owing == {c \in others : Refeed(members[c], world.id) = "owes"}
        fed == served \cup {c \in others : Refeed(members[c], world.id) = "feed"} IN
    \E refused \in SUBSET fed :
        /\ \A c \in fed : Len(conns[c].inbox) = QueueLimit => c \in refused
        /\ \A c \in refused : members[c].streaming \/ ~conns[c].open
        /\ LET given == fed \ refused
               arrives == {c \in given : conns[c].open} IN
            /\ seat' = [c \in Client |->
                    CASE c \in given -> Handed(members[c], world.id)
                      [] c \in refused -> Refused(members[c])
                      [] c \in owing -> [members[c] EXCEPT !.needs = World]
                      [] OTHER -> members[c]]
            /\ conn' = [c \in Client |->
                    IF c \in arrives THEN [conns[c] EXCEPT !.inbox = Append(@, world.id)]
                    ELSE conns[c]]
            /\ astray' = (astray \ arrives) \cup (given \ arrives)
            /\ wanted' = \E c \in Client \ served : Waits(members[c])

Servable(members, world, reached) ==
    {c \in Client : reached /\ world # None /\ Waits(members[c])
                    /\ members[c].needs.after <= world.step}

\* From the room's current snapshot.
Offer(members, conns) ==
    OfferWorlds(members, conns, current, Servable(members, current, reaches))

-----------------------------------------------------------------------------
(* A game has just started                                                 *)

\* Room::start: from a world handed over in the lobby, which everyone is then
\* sent, or from the owner's, which it saves for the others.
Init ==
    /\ step = 0 /\ restarts = 0 /\ astray = {}
    /\ \E players \in SUBSET Client, owner \in Client, handed \in {None} \cup WorldId :
        /\ owner \in players
        /\ conn = [c \in Client |->
            [open |-> c \in players,
             inbox |-> IF c \in players /\ handed # None THEN <<handed>> ELSE <<>>]]
        /\ game = [c \in Client |->
            [world |-> IF c = owner /\ handed = None THEN Own ELSE None, fetching |-> None]]
        /\ seat = [c \in Client |->
            IF c \notin players THEN None
            ELSE IF handed # None THEN Handed(Member(TRUE, FALSE, World), handed)
            ELSE IF c = owner THEN Member(TRUE, TRUE, Nothing)
            ELSE Member(TRUE, FALSE, World)]
        /\ current = IF handed = None THEN None ELSE [id |-> handed, step |-> 0]
        /\ reaches = (handed # None)
        /\ wanted = (handed = None /\ players # {owner})

-----------------------------------------------------------------------------
(* The game goes on                                                        *)

\* Turns are sealed.
Advance ==
    /\ step < MaxStep /\ step' = step + 1
    /\ UNCHANGED <<current, reaches, wanted, seat, conn, playerVars, astray>>

\* The window slides past the turn of the current snapshot.
WindowPasses ==
    /\ reaches /\ reaches' = FALSE
    /\ UNCHANGED <<step, current, wanted, seat, conn, playerVars, astray>>

\* promote: the room agreed on a save made at step `at`, which may have the
\* content of the one it has.  The window may have passed it meanwhile.
Promote(at, inReach) ==
    /\ current # None => at >= current.step
    /\ \E id \in Unused \cup {w.id : w \in {current} \ {None}} :
        LET agreed == [id |-> id, step |-> at] IN
        /\ current' = agreed /\ reaches' = inReach
        /\ OfferWorlds(seat, conn, agreed, Servable(seat, agreed, inReach))
    /\ UNCHANGED <<step, playerVars>>

\* announce_divergence: replicas disagreed with a verdict at step d.  Of those
\* that wait for nothing, `rested` are to be rebased; the others, rebased in
\* the last five minutes, are only told.
AnnounceDivergence(rested, d) ==
    /\ Seated # {}
    /\ \A c \in rested : seat[c].needs = Nothing
    /\ Offer([c \in Client |->
            IF c \in rested THEN [seat[c] EXCEPT !.needs = Rebase(d)] ELSE seat[c]],
             conn)
    /\ UNCHANGED <<roomVars, playerVars>>

-----------------------------------------------------------------------------
(* Connections                                                             *)

\* (mutant) Its stream is not ended.
DisconnectedStreams(c) ==
    /\ seat[c] # None /\ seat[c].linked
    /\ seat' = [seat EXCEPT ![c].linked = FALSE]
    /\ UNCHANGED <<roomVars, wanted, conn, playerVars, astray>>
\* The room learns that a member's connection is gone, or gives it up.
Disconnected(c) ==
    /\ seat[c] # None /\ seat[c].linked
    /\ seat' = [seat EXCEPT ![c].linked = FALSE, ![c].streaming = FALSE]
    /\ UNCHANGED <<roomVars, wanted, conn, playerVars, astray>>

\* The client's connection ends, or it gives it up because it cannot fetch
\* the world it was offered.
Drop(c) ==
    /\ conn[c].open
    /\ conn' = [conn EXCEPT ![c] = NoConn]
    /\ astray' = IF conn[c].inbox # <<>> THEN astray \cup {c} ELSE astray
    /\ UNCHANGED <<roomVars, wanted, seat, playerVars>>

\* join, Rejoin::Stream: a seated player is back and its resume is granted.
JoinResuming(c) ==
    /\ seat[c] # None /\ ~conn[c].open /\ Resumes(c)
    /\ seat[c].needs # World
    /\ Offer([seat EXCEPT ![c] = [@ EXCEPT !.linked = TRUE, !.streaming = TRUE, !.needs = Nothing]],
             [conn EXCEPT ![c] = NewConn])
    /\ UNCHANGED <<roomVars, playerVars>>

\* (mutant) The member waits, and nothing is offered.
JoinForWorldQuietly(c) ==
    /\ seat[c] # None /\ ~conn[c].open
    /\ seat' = [seat EXCEPT ![c] =
                    [@ EXCEPT !.linked = TRUE, !.streaming = FALSE, !.needs = World]]
    /\ conn' = [conn EXCEPT ![c] = NewConn]
    /\ UNCHANGED <<roomVars, wanted, playerVars, astray>>
\* join, Rejoin::World: it owes a world, has no turns of this game, or was
\* refused its resume and joins without.
JoinForWorld(c) ==
    /\ seat[c] # None /\ ~conn[c].open
    /\ Offer([seat EXCEPT ![c] = [@ EXCEPT !.linked = TRUE, !.streaming = FALSE, !.needs = World]],
             [conn EXCEPT ![c] = NewConn])
    /\ UNCHANGED <<roomVars, playerVars>>

\* A player who was not there when the game started.
JoinLate(c) ==
    /\ seat[c] = None /\ ~conn[c].open
    /\ Offer([seat EXCEPT ![c] = Member(TRUE, FALSE, World)], [conn EXCEPT ![c] = NewConn])
    /\ UNCHANGED <<roomVars, playerVars>>

\* It leaves, or is kicked.  Nobody is offered anything.
Leave(c) ==
    /\ seat[c] # None
    /\ seat' = [seat EXCEPT ![c] = None]
    /\ conn' = [conn EXCEPT ![c] = NoConn]
    /\ game' = [game EXCEPT ![c] = [world |-> None, fetching |-> None]]
    /\ astray' = astray \ {c}
    /\ UNCHANGED <<roomVars, wanted, restarts>>

\* The player's game ends, and its world with it.
GameEnds(c) ==
    /\ seat[c] # None /\ game[c] # [world |-> None, fetching |-> None]
    /\ game' = [game EXCEPT ![c] = [world |-> None, fetching |-> None]]
    /\ conn' = [conn EXCEPT ![c] = NoConn]
    /\ astray' = astray \ {c}
    /\ UNCHANGED <<roomVars, wanted, seat, restarts>>

\* A stream that starts from a world: the client drops its own and fetches.
Receive(c) ==
    /\ conn[c].open /\ conn[c].inbox # <<>>
    /\ game' = [game EXCEPT ![c] = [world |-> None, fetching |-> Head(conn[c].inbox)]]
    /\ conn' = [conn EXCEPT ![c].inbox = Tail(@)]
    /\ UNCHANGED <<roomVars, wanted, seat, restarts, astray>>

\* The world arrived, and the game loads it.
Fetched(c) ==
    /\ conn[c].open /\ game[c].fetching # None
    /\ game' = [game EXCEPT ![c] = [world |-> game[c].fetching, fetching |-> None]]
    /\ UNCHANGED <<roomVars, wanted, seat, conn, restarts, astray>>

\* The server stops, and recovers the room from its log and pointer file.
\* What members need or have loaded is in neither.  The pointer may name any
\* snapshot the room agreed on (its writes may fail, or overtake each other),
\* and its world may no longer fit the log.
ServerRestarts ==
    /\ restarts < MaxRestarts /\ restarts' = restarts + 1
    /\ seat' = [c \in Client |->
            IF seat[c] = None THEN None ELSE Member(FALSE, FALSE, Nothing)]
    /\ \/ current' = None /\ reaches' = FALSE
       \/ \E id \in WorldId, at \in 0..step :
            current' = [id |-> id, step |-> at] /\ reaches' = TRUE
    /\ wanted' = FALSE
    /\ astray' = astray \cup {c \in Seated : seat[c].needs = World}
    /\ UNCHANGED <<step, game, conn>>

-----------------------------------------------------------------------------
Next ==
    \/ Advance \/ WindowPasses \/ ServerRestarts
    \/ \E at \in 0..step, inReach \in BOOLEAN : Promote(at, inReach)
    \/ \E rested \in SUBSET Seated, d \in 0..step : AnnounceDivergence(rested, d)
    \/ \E c \in Client :
        \/ Disconnected(c) \/ Drop(c)
        \/ JoinResuming(c) \/ JoinForWorld(c) \/ JoinLate(c) \/ Leave(c)
        \/ GameEnds(c) \/ Receive(c) \/ Fetched(c)

Spec == Init /\ [][Next]_vars

-----------------------------------------------------------------------------
(* Properties                                                              *)

Snapshot == [id : WorldId, step : Nat]

\* Every variable has its type; who owes a world has no stream.
TypeOK ==
    /\ step \in Nat /\ reaches \in BOOLEAN /\ wanted \in BOOLEAN
    /\ current \in Snapshot \cup {None}
    /\ \A c \in Client :
        /\ seat[c] # None =>
            /\ seat[c].linked \in BOOLEAN /\ seat[c].streaming \in BOOLEAN
            /\ seat[c].needs.kind \in {"nothing", "world", "rebase"} /\ seat[c].needs.after \in Nat
            /\ seat[c].loaded \in WorldId \cup {None}
            /\ seat[c].streaming => seat[c].linked /\ seat[c].needs # World
        /\ conn[c].open \in BOOLEAN /\ conn[c].inbox \in Seq(WorldId)
        /\ game[c].world \in WorldId \cup {Own, None} /\ game[c].fetching \in WorldId \cup {None}
    /\ restarts \in Nat /\ astray \subseteq Client

\* A player that plays: its stream is up to date with what the room sent.
Settled(c) ==
    /\ Streams(c) /\ conn[c].open /\ conn[c].inbox = <<>>
    /\ game[c].world # None

\* All who play, play from the same loaded save, however each came by it:
\* joining late, reconnecting, rebased, or owed a world while away.  (Those
\* for whom a world was lost on its way are excepted: see OneWorld.)
Together ==
    \A c, d \in Client : Settled(c) /\ Settled(d) /\ {c, d} \cap astray = {} =>
        game[c].world = game[d].world

\* What the room takes a member to have loaded is what its game plays: the
\* room decides by it who is left undisturbed when a world is handed out.
RoomKnows ==
    \A c \in Client : Settled(c) /\ c \notin astray =>
        seat[c].loaded \in {None, game[c].world}

\* Nobody is forgotten: while a connected member waits for a world, the room
\* wants a save, whoever came, left, or was served since.
NeverStranded ==
    \A c \in Client : Waits(seat[c]) /\ conn[c].open => wanted

\* PROTOCOL.md, "Everyone loads it": once a world is handed to anyone, every
\* game plays from it; one that cannot take it owes it, "even when it comes
\* back resuming its stream".
OneWorld ==
    \A c, d \in Client : Settled(c) /\ Settled(d) => game[c].world = game[d].world
=============================================================================
