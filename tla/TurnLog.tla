------------------------------- MODULE TurnLog -------------------------------
(***************************************************************************)
(* The ordered turn log of one running room (crates/tpf3mp-server          *)
(* room.rs and persist.rs) with the clients that follow it                 *)
(* (crates/tpf3mp-agent follower.rs and bridge.rs).                        *)
(*                                                                         *)
(* The server orders events, seals them into numbered turns, appends the   *)
(* turns to the room's log file and sends them to every member with a      *)
(* stream.  A member that loses its connection resumes after the last turn *)
(* it accepted, from the window of turns the server keeps.  The file is    *)
(* written without a flush per turn, so a crash of the machine may lose    *)
(* turns clients already saw; each recovery therefore begins a new         *)
(* history.  A long log is rewritten (compacted) while the game goes on.   *)
(*                                                                         *)
(* Not here: who may order what, pacing, which member is owed which world, *)
(* and the upload of saves (modules Pacing, Worlds and Checkpoints).       *)
(***************************************************************************)
EXTENDS Integers, Sequences, FiniteSets

CONSTANTS
    Client,        \* players seated in the room
    HistoryId,     \* history identifiers (random 64-bit numbers in the code)
    FirstHistory,  \* the history the game starts with
    KeepsWorlds,   \* whether the server keeps snapshots of the world
    ResumeWindow,  \* turns kept for resuming (36000 in the code)
    CompactAt,     \* turns in the log file from which it is compacted
    AppendsFail,   \* whether the disk may refuse to take a turn
    None,          \* an absent value
    MaxTurns,      \* bound: turns ever numbered in one history
    MaxEvents,     \* bound: events ever numbered in one history
    MaxSteps       \* bound: the furthest frontier

ASSUME ConstantsAssumption ==
    /\ FirstHistory \in HistoryId
    /\ KeepsWorlds \in BOOLEAN
    /\ ResumeWindow \in Nat \ {0}
    /\ CompactAt \in Nat \ {0}
    /\ AppendsFail \in BOOLEAN
    /\ IsFiniteSet(Client) /\ Client # {}
    /\ MaxTurns \in Nat /\ MaxEvents \in Nat /\ MaxSteps \in Nat

VARIABLES
    \* The room in the server's memory.
    up,            \* the server runs and holds the room
    nextTurn, nextEvent, sealed,
    pending,       \* events ordered since the last turn
    log,           \* the turns of the resume window
    logFirst,      \* the number of the window's first turn
    sealedBefore,  \* the frontier before the window's first turn
    histories,     \* the histories of this game, oldest first
    saved,         \* the save being collected from the players, or None
    point,         \* where the room's current world stands, or None
    linked,        \* members whose connection the room knows
    streaming,     \* members that receive the turns as they are sealed
    loaded,        \* members the room takes to play its current world
    logOpen,       \* the room still appends to its log file
    compaction,    \* the compacted log being written, or None
    \* What survives a crash.
    disk,          \* the log file
    pointer,       \* the file naming the current world's place, or None
    \* The clients and their connections.
    client,        \* the turn follower, and what is known of its world
    conn,          \* the turn stream on its way to each client
    \* History variables: no code reads them.
    played,        \* every turn of the room's log, or of what a crash left
    seen,          \* the turns each client's world embodies
    used,          \* the history identifiers given so far
    intact         \* no turn was ever lost by the disk

gameVars == <<nextTurn, nextEvent, sealed, pending, log, logFirst,
              sealedBefore, histories, saved, point>>
linkVars == <<linked, streaming, loaded>>
diskVars == <<logOpen, compaction, disk, pointer>>
clientVars == <<client, conn, seen>>
ghostVars == <<played, used, intact>>
vars == <<up, gameVars, linkVars, diskVars, clientVars, ghostVars>>

-----------------------------------------------------------------------------
(* Turns, and sequences of them                                            *)

\* What an event says is taken to differ between histories: an event the
\* disk lost is not the one ordered in its place.
Event == [seq : Nat, step : Nat, body : HistoryId]
\* `first` is the number its first event has, or the next one would have.
Turn == [number : Nat, first : Nat, sealed : Nat, events : Seq(Event)]
History == [id : HistoryId, after : Nat]
\* Where a save stands, and the turns the saved world embodies.
Point == [event : Nat, after : Nat, history : HistoryId, sealed : Nat, world : Seq(Turn)]

Frontier(turns, before) ==
    IF turns = <<>> THEN before ELSE turns[Len(turns)].sealed
NextEventAfter(turns, before) ==
    IF turns = <<>> THEN before
    ELSE turns[Len(turns)].first + Len(turns[Len(turns)].events)

IsPrefixOf(s, t) ==
    Len(s) <= Len(t) /\ \A i \in 1..Len(s) : s[i] = t[i]

\* The history the server plays: the last one it began.
Current(hs) == hs[Len(hs)].id

\* (mutant) Any turn of a known history would do.
SharesPastParting(hs, history, after) == \E i \in 1..Len(hs) : hs[i].id = history
\* A resume is served when its history is one of this game's, and its turn
\* is not past the point where the next history parted from it.
Shares(hs, history, after) ==
    \E i \in 1..Len(hs) :
        /\ hs[i].id = history
        /\ i < Len(hs) => after <= hs[i + 1].after

\* Game::stream_after, once the resume is known to be on shared turns.
InWindow(from) == logFirst <= from /\ from <= nextTurn
Backlog(from) == SubSeq(log, from - logFirst + 1, Len(log))
Stream(from) ==
    [turn   |-> from,
     event  |-> IF from < nextTurn THEN log[from - logFirst + 1].first
                ELSE IF pending # <<>> THEN pending[1].seq ELSE nextEvent,
     sealed |-> IF from = logFirst THEN sealedBefore
                ELSE log[from - logFirst].sealed]

Resumable(history, after) == Shares(histories, history, after) /\ InWindow(after + 1)

\* (mutant) The save's history is not looked up.
ServesAnyHistory(p) ==
    /\ p # None
    /\ InWindow(p.after + 1)
    /\ Stream(p.after + 1).event = p.event + 1
    /\ Stream(p.after + 1).sealed = p.sealed
\* stream_from_save: the log must still say what the save says.
ServesPoint(p) ==
    /\ p # None
    /\ Resumable(p.history, p.after)
    /\ Stream(p.after + 1).event = p.event + 1
    /\ Stream(p.after + 1).sealed = p.sealed

-----------------------------------------------------------------------------
(* The log file                                                            *)

\* A start record, its base (all zeros for a log that was never compacted),
\* then turns and history markers in the order they were appended.  `at` is
\* the number of turns before a marker, `synced` the turns a machine crash
\* cannot lose.
NewDisk == [first |-> 1, firstEvent |-> 1, sealedBefore |-> 0,
            after |-> 0, nextEvent |-> 1, sealed |-> 0,
            histories |-> <<[id |-> FirstHistory, after |-> 0]>>,
            turns |-> <<>>, marks |-> <<>>, synced |-> 0]

\* The turns a compacted log only keeps for players who resume.
Kept(d) == d.after + 1 - d.first

DiskHistories(d) ==
    d.histories \o [i \in 1..Len(d.marks) |->
                        [id |-> d.marks[i].id, after |-> d.marks[i].after]]

\* Game::rebase: the base does not contradict itself.
BaseConsistent(d) ==
    /\ 1 <= d.first /\ d.first <= d.after + 1
    /\ 1 <= d.firstEvent /\ d.firstEvent <= d.nextEvent
    /\ d.sealedBefore <= d.sealed
    /\ d.histories # <<>> /\ d.histories[1].after = 0
    /\ \A i \in 1..Len(d.histories) - 1 : d.histories[i].after <= d.histories[i + 1].after
    /\ d.histories[Len(d.histories)].after <= d.after

\* Room::recover: every check a log must pass before the room is restored.
Recoverable(d) ==
    /\ BaseConsistent(d)
    /\ Kept(d) <= Len(d.turns)
    /\ \A i \in 1..Len(d.turns) :
        LET before == SubSeq(d.turns, 1, i - 1) IN
        /\ d.turns[i].number = d.first + i - 1
        /\ d.turns[i].sealed >= Frontier(before, d.sealedBefore)
        /\ \A j \in 1..Len(d.turns[i].events) :
            d.turns[i].events[j].seq = NextEventAfter(before, d.firstEvent) + j - 1
    /\ LET kept == SubSeq(d.turns, 1, Kept(d)) IN
        /\ NextEventAfter(kept, d.firstEvent) = d.nextEvent
        /\ Frontier(kept, d.sealedBefore) = d.sealed
    /\ \A i \in 1..Len(d.marks) :
        LET before == SubSeq(d.turns, 1, d.marks[i].at) IN
        /\ d.marks[i].at >= Kept(d)
        /\ d.marks[i].after = d.first + d.marks[i].at - 1
        /\ d.marks[i].event = NextEventAfter(before, d.firstEvent)

-----------------------------------------------------------------------------
(* Clients                                                                 *)

\* world: "none" without a follower, "fetching" the world a stream starts
\* from, "playing" otherwise, "failed" once the session ended on a broken
\* turn stream.
NoFollower == [world |-> "none", nextTurn |-> 0, nextEvent |-> 0,
               sealed |-> 0, history |-> FirstHistory]
Follower(start, world) ==
    [world |-> world, nextTurn |-> start.turn, nextEvent |-> start.event,
     sealed |-> start.sealed, history |-> start.history]

\* A connection is with a server run, and so with the history that run plays.
NoConn == [open |-> FALSE, history |-> FirstHistory, msgs |-> <<>>]
OpenMsg(start, history, world) ==
    [type |-> "open", turn |-> start.turn, event |-> start.event,
     sealed |-> start.sealed, history |-> history, world |-> world]
FrameMsg(turn) == [type |-> "frame", frame |-> turn]
Frames(turns) == [i \in 1..Len(turns) |-> FrameMsg(turns[i])]
\* A stream that starts elsewhere is still on its way.
Restarts(msgs) == \E i \in 1..Len(msgs) : msgs[i].type = "open"

\* Where the client asks to resume; nowhere without a world of this game.
Resumes(c) == client[c].world = "playing"

-----------------------------------------------------------------------------
(* A game has just started                                                 *)

FirstStream == [turn |-> 1, event |-> 1, sealed |-> 0]
StartPoint == [event |-> 0, after |-> 0, history |-> FirstHistory, sealed |-> 0,
               world |-> <<>>]

\* Room::start.  Who joined in the lobby has its event waiting.  Without
\* worlds every player there is sent the game from its first turn; with them
\* all load the world handed over in the lobby, or only the owner starts and
\* the others wait for its first save.
Init ==
    /\ up = TRUE
    /\ nextTurn = 1 /\ sealed = 0 /\ log = <<>> /\ logFirst = 1 /\ sealedBefore = 0
    /\ nextEvent = Cardinality(Client) + 1
    /\ pending = [i \in 1..Cardinality(Client) |->
                    [seq |-> i, step |-> 1, body |-> FirstHistory]]
    /\ histories = <<[id |-> FirstHistory, after |-> 0]>>
    /\ \E there \in SUBSET Client, owner \in Client, handed \in BOOLEAN :
        /\ handed => KeepsWorlds
        /\ linked = there
        /\ streaming = IF KeepsWorlds /\ ~handed THEN there \cap {owner} ELSE there
        /\ loaded = IF handed THEN there ELSE {}
        /\ point = IF handed THEN StartPoint ELSE None
        /\ conn = [c \in Client |->
                    [open |-> c \in there, history |-> FirstHistory,
                     msgs |-> IF c \in streaming
                              THEN <<OpenMsg(FirstStream, FirstHistory, point)>> ELSE <<>>]]
    /\ saved = None
    /\ logOpen = TRUE /\ compaction = None /\ disk = NewDisk /\ pointer = None
    /\ client = [c \in Client |-> NoFollower]
    /\ seen = [c \in Client |-> <<>>]
    /\ played = <<>> /\ used = {FirstHistory} /\ intact = TRUE

-----------------------------------------------------------------------------
(* Sealing                                                                 *)

\* Pending events fill one turn or, past the payload budget, several: turn k
\* takes the events cut[k-1]+1 .. cut[k].
IsCut(cut, m, n) ==
    /\ cut[0] = 0 /\ cut[m] = n
    /\ n = 0 => m = 1
    /\ n # 0 => \A k, l \in 0..m : k < l => cut[k] < cut[l]

\* Only the last turn moves the frontier.
SealedTurns(events, next, cut, m, frontier) ==
    [k \in 1..m |->
        [number |-> nextTurn + k - 1,
         first  |-> IF events = <<>> THEN next ELSE events[cut[k - 1] + 1].seq,
         sealed |-> IF k = m THEN frontier ELSE sealed,
         events |-> SubSeq(events, cut[k - 1] + 1, cut[k])]]

\* Game::remember and Game::trim.  The turn limit forces some turns out; the
\* byte limit may drop more, but never the newest.
Remember(new) ==
    LET all == log \o new IN
    \E dropped \in 0..(Len(all) - 1) :
        /\ Len(all) - dropped <= ResumeWindow
        /\ log' = SubSeq(all, dropped + 1, Len(all))
        /\ logFirst' = logFirst + dropped
        /\ sealedBefore' = IF dropped = 0 THEN sealedBefore ELSE all[dropped].sealed

\* (mutant) Turns wait in a buffer of the process.
LogTurnsBuffered(new) ==
    \E written \in 0..Len(new) :
        /\ ~logOpen => written = 0
        /\ disk' = [disk EXCEPT !.turns = @ \o SubSeq(new, 1, written)]
        /\ UNCHANGED <<logOpen, intact>>
\* RoomLog::append per turn.  The first failure ends the logging.
LogTurns(new) ==
    \E written \in 0..Len(new) :
        /\ ~logOpen => written = 0
        /\ logOpen /\ written < Len(new) => AppendsFail
        /\ disk' = [disk EXCEPT !.turns = @ \o SubSeq(new, 1, written)]
        /\ logOpen' = (logOpen /\ written = Len(new))
        /\ intact' = (intact /\ written = Len(new))

\* (mutant) The compacted log is put in place unflushed.
CompactedUnflushed ==
    [first |-> logFirst, sealedBefore |-> sealedBefore,
     firstEvent |-> IF log = <<>> THEN nextEvent ELSE log[1].first,
     after |-> nextTurn - 1, nextEvent |-> nextEvent, sealed |-> sealed,
     histories |-> histories, turns |-> log, marks |-> <<>>, synced |-> 0]
\* Game::base with the window's turns, flushed before it is put in place.
CompactedLog ==
    [first |-> logFirst, sealedBefore |-> sealedBefore,
     firstEvent |-> IF log = <<>> THEN nextEvent ELSE log[1].first,
     after |-> nextTurn - 1, nextEvent |-> nextEvent, sealed |-> sealed,
     histories |-> histories, turns |-> log, marks |-> <<>>, synced |-> Len(log)]

\* A compaction under way gets the new turns too, logged or not.  Else one
\* may start, from the state right after sealing.
Compact(new) ==
    IF compaction # None
    THEN compaction' = [compaction EXCEPT !.turns = @ \o new]
    ELSE \/ compaction' = None
         \/ logOpen' /\ Len(disk'.turns) >= CompactAt /\ compaction' = CompactedLog'

\* Room::publish to the members with a stream.  A full queue cuts its member
\* off; what is sent to a connection the client has dropped is lost.
Send(new) ==
    \E got \in [streaming -> 0..Len(new)] :
        /\ streaming' = {c \in streaming : got[c] = Len(new)}
        /\ linked' = linked \ (streaming \ streaming')
        /\ conn' = [c \in Client |->
                        IF c \in streaming /\ conn[c].open
                        THEN [conn[c] EXCEPT !.msgs = @ \o Frames(SubSeq(new, 1, got[c]))]
                        ELSE conn[c]]

\* Game::seal and Room::publish over `events`, the last numbered next - 1.
SealAndPublish(events, next, frontier) ==
    \E m \in 1..(Len(events) + 1) :
    \E cut \in [0..m -> 0..Len(events)] :
        LET new == SealedTurns(events, next, cut, m, frontier) IN
        /\ IsCut(cut, m, Len(events))
        /\ nextTurn + m <= MaxTurns + 1
        /\ frontier \in sealed..MaxSteps
        /\ UNCHANGED <<up, histories, point, loaded, pointer, client, seen, used>>
        /\ nextTurn' = nextTurn + m
        /\ nextEvent' = next
        /\ sealed' = frontier
        /\ pending' = <<>>
        /\ Remember(new)
        /\ LogTurns(new)
        /\ Compact(new)
        /\ Send(new)
        /\ played' = played \o new

\* Game::append.
Ordered == Append(pending, [seq |-> nextEvent, step |-> sealed + 1,
                            body |-> Current(histories)])

\* A membership event: a player or an AI joins or leaves.  It waits for the
\* next turn.
OrderEvent ==
    /\ up
    /\ nextEvent <= MaxEvents
    /\ pending' = Ordered
    /\ nextEvent' = nextEvent + 1
    /\ UNCHANGED <<up, nextTurn, sealed, log, logFirst, sealedBefore, histories,
                   saved, point, linkVars, diskVars, clientVars, ghostVars>>

\* A player's command is ordered and sealed at once.
Intent ==
    /\ up
    /\ nextEvent <= MaxEvents
    /\ \E frontier \in sealed..MaxSteps : SealAndPublish(Ordered, nextEvent + 1, frontier)
    /\ UNCHANGED saved

\* A tick moves the frontier as far as the pacer allows, or announces a
\* speed change.
Tick ==
    /\ up
    /\ \E frontier \in sealed..MaxSteps : SealAndPublish(pending, nextEvent, frontier)
    /\ UNCHANGED saved

\* save_if_due: a save event ends a turn that runs no new steps.  The room
\* makes one save at a time: a save still under way has been given up.
Save ==
    /\ up /\ KeepsWorlds
    /\ streaming # {}
    /\ nextEvent <= MaxEvents
    /\ SealAndPublish(Ordered, nextEvent + 1, sealed)
    /\ saved' = [event |-> nextEvent, after |-> nextTurn' - 1, sealed |-> sealed,
                 history |-> Current(histories), world |-> played']

\* (mutant) The stream starts at the frontier; the turns since are left out.
FeedWithoutBacklog(p) == <<OpenMsg(Stream(p.after + 1), Current(histories), p)>>
\* The current world for the members of `given`, who now play it.
Feed(p) == <<OpenMsg(Stream(p.after + 1), Current(histories), p)>> \o Frames(Backlog(p.after + 1))
Fed(c, given, p) ==
    IF c \in given /\ conn[c].open
    THEN [conn[c] EXCEPT !.msgs = @ \o Feed(p)] ELSE conn[c]

\* promote, with its offer_worlds: a save the players agreed on arrived.  Once
\* anyone waits for a world (without a stream, or diverged), every connected
\* member is handed it, but for those on a save with the same content.
Promote ==
    /\ up /\ saved # None
    /\ point' = saved /\ saved' = None
    /\ \E wanted \in BOOLEAN, same \in {{}, loaded} :
        LET given == IF wanted /\ ServesPoint(saved) THEN linked \ (same \cap streaming) ELSE {} IN
        /\ linked # streaming => wanted
        /\ streaming' = streaming \cup given
        /\ loaded' = same \cup given
        /\ conn' = [c \in Client |-> Fed(c, given, saved)]
    /\ UNCHANGED <<up, nextTurn, nextEvent, sealed, pending, log, logFirst, sealedBefore,
                   histories, linked, diskVars, client, seen, ghostVars>>

\* The pointer is written on a thread of its own, some time after.
WritePointer ==
    /\ up /\ point # None /\ pointer # point
    /\ pointer' = point
    /\ UNCHANGED <<up, gameVars, linkVars, logOpen, compaction, disk, clientVars, ghostVars>>

\* finish_compaction: in place of the old log, or given up.
FinishCompaction ==
    /\ up /\ compaction # None
    /\ compaction' = None
    /\ \/ UNCHANGED <<disk, logOpen>>
       \/ disk' = compaction /\ logOpen' = TRUE
    /\ UNCHANGED <<up, gameVars, linkVars, pointer, clientVars, ghostVars>>

-----------------------------------------------------------------------------
(* Crashes and recovery                                                    *)

\* What no longer runs holds nothing; the turns left are those on the disk.
Stop ==
    /\ up /\ up' = FALSE
    /\ nextTurn' = 1 /\ nextEvent' = 1 /\ sealed' = 0 /\ pending' = <<>>
    /\ log' = <<>> /\ logFirst' = 1 /\ sealedBefore' = 0
    /\ histories' = <<[id |-> FirstHistory, after |-> 0]>>
    /\ saved' = None /\ point' = None
    /\ linked' = {} /\ streaming' = {} /\ loaded' = {}
    /\ logOpen' = FALSE /\ compaction' = None
    /\ played' = SubSeq(played, 1, disk'.first - 1 + Len(disk'.turns))
    /\ UNCHANGED <<pointer, clientVars, used>>

\* The process ends: what it wrote reached the operating system.
Crash == disk' = disk /\ Stop /\ UNCHANGED intact

\* The machine stops: the end of the log that was never flushed is gone.
\* Records are lost from the end, a marker with every turn after it.
MachineCrash ==
    /\ \E n \in disk.synced..Len(disk.turns), k \in 0..Len(disk.marks) :
        /\ \A i \in 1..k : disk.marks[i].at <= n
        /\ \A i \in (k + 1)..Len(disk.marks) : disk.marks[i].at >= n
        /\ disk' = [disk EXCEPT !.turns = SubSeq(@, 1, n), !.marks = SubSeq(@, 1, k)]
    /\ Stop
    /\ intact' = FALSE

\* The window a recovery ends with: remember() trims turn by turn.
RecoveredWindow ==
    LET all == disk.turns IN
    \E dropped \in 0..Len(all) :
        /\ Len(all) - dropped <= ResumeWindow
        /\ dropped = Len(all) => all = <<>>
        /\ log' = SubSeq(all, dropped + 1, Len(all))
        /\ logFirst' = disk.first + dropped
        /\ sealedBefore' = IF dropped = 0 THEN disk.sealedBefore ELSE all[dropped].sealed

\* Room::recover: replays the log, keeps the pointer's world if it fits,
\* and begins a new history after the last turn logged.
Recover ==
    /\ ~up /\ Recoverable(disk)
    /\ up' = TRUE
    /\ pending' = <<>> /\ linked' = {} /\ streaming' = {} /\ loaded' = {}
    /\ RecoveredWindow
    /\ nextTurn' = disk.first + Len(disk.turns)
    /\ nextEvent' = NextEventAfter(disk.turns, disk.firstEvent)
    /\ sealed' = Frontier(disk.turns, disk.sealedBefore)
    /\ \E fresh \in HistoryId \ used :
        /\ histories' = Append(DiskHistories(disk), [id |-> fresh, after |-> nextTurn' - 1])
        /\ disk' = [disk EXCEPT !.marks = Append(@,
                        [id |-> fresh, after |-> nextTurn' - 1, event |-> nextEvent',
                         at |-> Len(disk.turns)])]
        /\ used' = used \cup {fresh}
    /\ UNCHANGED <<pointer, clientVars, played, intact>>
    /\ point' = IF KeepsWorlds /\ ServesPoint(pointer)' THEN pointer ELSE None
    /\ saved' = None
    /\ logOpen' = TRUE /\ compaction' = None

-----------------------------------------------------------------------------
(* Connections                                                             *)

\* (mutant) The member keeps its stream.
DisconnectedStreams(c) ==
    /\ up /\ c \in linked
    /\ linked' = linked \ {c}
    /\ UNCHANGED <<up, gameVars, streaming, loaded, diskVars, clientVars, ghostVars>>
\* The room learns that a member's connection is gone, or gives it up.
Disconnected(c) ==
    /\ up /\ c \in linked
    /\ linked' = linked \ {c} /\ streaming' = streaming \ {c}
    /\ UNCHANGED <<up, gameVars, loaded, diskVars, clientVars, ghostVars>>

\* The client's connection ends; what was on its way is lost.
Drop(c) ==
    /\ conn[c].open
    /\ conn' = [conn EXCEPT ![c] = NoConn]
    /\ UNCHANGED <<up, gameVars, linkVars, diskVars, client, seen, ghostVars>>

\* The player's game ends, and its world with it.
Restart(c) ==
    /\ client[c].world \notin {"none", "failed"}
    /\ client' = [client EXCEPT ![c] = NoFollower]
    /\ seen' = [seen EXCEPT ![c] = <<>>]
    /\ conn' = [conn EXCEPT ![c] = NoConn]
    /\ UNCHANGED <<up, gameVars, linkVars, diskVars, ghostVars>>

\* A new connection, with the stream it begins with.
Connected(msgs) == [open |-> TRUE, history |-> Current(histories), msgs |-> msgs]
StreamFrom(turn) ==
    <<OpenMsg(Stream(turn), Current(histories), None)>> \o Frames(Backlog(turn))

\* A client resumes after the last turn it accepted.  (Which members must
\* take a world instead is module Worlds' subject.)
JoinResuming(c) ==
    /\ up /\ ~conn[c].open /\ Resumes(c)
    /\ Resumable(client[c].history, client[c].nextTurn - 1)
    /\ conn' = [conn EXCEPT ![c] = Connected(StreamFrom(client[c].nextTurn))]
    /\ linked' = linked \cup {c} /\ streaming' = streaming \cup {c}
    /\ UNCHANGED <<up, gameVars, loaded, diskVars, client, seen, ghostVars>>

\* Without worlds, a client that has no turns of this game, or was refused
\* its resume, receives the game from its first turn.
JoinFromStart(c) ==
    /\ up /\ ~KeepsWorlds /\ ~conn[c].open /\ client[c].world # "failed"
    /\ ~(Resumes(c) /\ Resumable(client[c].history, client[c].nextTurn - 1))
    /\ InWindow(1)
    /\ conn' = [conn EXCEPT ![c] = Connected(StreamFrom(1))]
    /\ linked' = linked \cup {c} /\ streaming' = streaming \cup {c}
    /\ UNCHANGED <<up, gameVars, loaded, diskVars, client, seen, ghostVars>>

\* With worlds, a client joins to be handed one.  offer_worlds gives it the
\* current world if the window still reaches it, and then everyone connected
\* who does not play that world.
JoinForWorld(c) ==
    /\ up /\ KeepsWorlds /\ ~conn[c].open /\ client[c].world # "failed"
    /\ linked' = linked \cup {c}
    /\ LET given == IF ServesPoint(point) THEN (linked \ loaded) \cup {c} ELSE {} IN
        /\ streaming' = (streaming \ {c}) \cup given
        /\ loaded' = loaded \cup given
        /\ conn' = [k \in Client |->
                    IF k = c THEN Connected(IF c \in given THEN Feed(point) ELSE <<>>)
                    ELSE Fed(k, given, point)]
    /\ UNCHANGED <<up, gameVars, diskVars, client, seen, ghostVars>>

-----------------------------------------------------------------------------
(* The client's side of the turn stream                                    *)

Ends(c) ==
    /\ client' = [client EXCEPT ![c].world = "failed"]
    /\ conn' = [conn EXCEPT ![c] = NoConn]
    /\ UNCHANGED seen

Consume(c) == conn' = [conn EXCEPT ![c].msgs = Tail(@)]

\* TurnFollower::restart: the stream picks up exactly where it left off.
Continues(f, start) ==
    start.turn = f.nextTurn /\ start.event = f.nextEvent /\ start.sealed = f.sealed

\* A turn stream starts.
ReceiveOpen(c) ==
    /\ conn[c].open /\ conn[c].msgs # <<>> /\ Head(conn[c].msgs).type = "open"
    /\ LET start == Head(conn[c].msgs)
           has == client[c].world # "none" IN
        \/ /\ start.world # None
           /\ client' = [client EXCEPT ![c] = Follower(start, "fetching")]
           /\ seen' = [seen EXCEPT ![c] = start.world.world]
           /\ Consume(c)
        \/ /\ start.world = None /\ has /\ Continues(client[c], start)
           /\ client' = [client EXCEPT ![c].history = start.history]
           /\ Consume(c) /\ UNCHANGED seen
        \/ /\ start.world = None
           /\ ~has \/ (~Continues(client[c], start) /\ start.event = 1 /\ start.sealed = 0)
           /\ client' = [client EXCEPT ![c] = Follower(start, "playing")]
           /\ seen' = [seen EXCEPT ![c] = <<>>]
           /\ Consume(c)
        \/ /\ start.world = None /\ has /\ ~Continues(client[c], start)
           /\ ~(start.event = 1 /\ start.sealed = 0)
           /\ Ends(c)
    /\ UNCHANGED <<up, gameVars, linkVars, diskVars, ghostVars>>

\* TurnFollower::accept: number, frontier, event numbers and event steps.
Accepts(f, t) ==
    /\ f.world # "none"
    /\ t.number = f.nextTurn
    /\ t.sealed >= f.sealed
    /\ \A j \in 1..Len(t.events) :
        t.events[j].seq = f.nextEvent + j - 1 /\ t.events[j].step = f.sealed + 1

ReceiveTurn(c) ==
    /\ conn[c].open /\ conn[c].msgs # <<>> /\ Head(conn[c].msgs).type = "frame"
    /\ LET t == Head(conn[c].msgs).frame
           f == client[c] IN
        IF Accepts(f, t)
        THEN /\ client' = [client EXCEPT ![c] =
                    [f EXCEPT !.nextTurn = @ + 1, !.nextEvent = @ + Len(t.events),
                              !.sealed = t.sealed]]
             /\ seen' = [seen EXCEPT ![c] = Append(@, t)]
             /\ Consume(c)
        ELSE Ends(c)
    /\ UNCHANGED <<up, gameVars, linkVars, diskVars, ghostVars>>

\* The world a stream starts from has arrived, and the game loads it.
Fetched(c) ==
    /\ conn[c].open /\ client[c].world = "fetching"
    /\ client' = [client EXCEPT ![c].world = "playing"]
    /\ UNCHANGED <<up, gameVars, linkVars, diskVars, conn, seen, ghostVars>>

-----------------------------------------------------------------------------
Next ==
    \/ OrderEvent \/ Intent \/ Tick \/ Save \/ Promote \/ WritePointer
    \/ FinishCompaction
    \/ Crash \/ MachineCrash \/ Recover
    \/ \E c \in Client :
        \/ Disconnected(c) \/ Drop(c) \/ Restart(c)
        \/ JoinResuming(c) \/ JoinFromStart(c) \/ JoinForWorld(c)
        \/ ReceiveOpen(c) \/ ReceiveTurn(c) \/ Fetched(c)

Spec == Init /\ [][Next]_vars

-----------------------------------------------------------------------------
(* Properties                                                              *)

Mark == [id : HistoryId, after : Nat, event : Nat, at : Nat]
Disk == [first : Nat, firstEvent : Nat, sealedBefore : Nat, after : Nat,
         nextEvent : Nat, sealed : Nat, histories : Seq(History), turns : Seq(Turn),
         marks : Seq(Mark), synced : Nat]
Message == [type : {"open"}, turn : Nat, event : Nat, sealed : Nat,
            history : HistoryId, world : Point \cup {None}]
           \cup [type : {"frame"}, frame : Turn]

\* Every variable has its type.
TypeOK ==
    /\ up \in BOOLEAN /\ logOpen \in BOOLEAN /\ intact \in BOOLEAN
    /\ nextTurn \in Nat \ {0} /\ nextEvent \in Nat \ {0} /\ sealed \in Nat
    /\ pending \in Seq(Event) /\ log \in Seq(Turn)
    /\ logFirst \in Nat \ {0} /\ sealedBefore \in Nat
    /\ histories \in Seq(History) /\ histories # <<>>
    /\ saved \in Point \cup {None} /\ point \in Point \cup {None}
    /\ pointer \in Point \cup {None}
    /\ linked \subseteq Client /\ streaming \subseteq linked /\ loaded \subseteq Client
    /\ disk \in Disk /\ compaction \in Disk \cup {None}
    /\ client \in [Client -> [world : {"none", "fetching", "playing", "failed"},
                              nextTurn : Nat, nextEvent : Nat, sealed : Nat,
                              history : HistoryId]]
    /\ conn \in [Client -> [open : BOOLEAN, history : HistoryId, msgs : Seq(Message)]]
    /\ seen \in [Client -> Seq(Turn)]
    /\ played \in Seq(Turn) /\ used \subseteq HistoryId

\* While the room streams to a client, the turns its world embodies, however
\* it came by them (streamed, resumed over crashes, or loaded from a save and
\* streamed since), are exactly the first turns of the log the server
\* extends.  So no two games of a room play different turns.
Lockstep ==
    \A c \in streaming :
        client[c].world \in {"fetching", "playing"} /\ conn[c].open /\ ~Restarts(conn[c].msgs) =>
            Len(seen[c]) = client[c].nextTurn - 1 /\ IsPrefixOf(seen[c], played)

\* An honest server's streams never make a follower fail: no gap in turn or
\* event numbers, no event for a step already sealed, no frontier that moves
\* back, and every resumed stream starts where the client left off.
NeverFails == \A c \in Client : client[c].world # "failed"

\* Whatever a crash leaves of the log file, compacted or not, recovery
\* accepts it: the game survives.
AlwaysRecoverable == Recoverable(disk)

\* The log reached the operating system before any client: when only
\* processes crashed and no append failed, a client is refused its resume
\* only because its turns left the window.
NothingLostWithoutTheDisk ==
    intact /\ up =>
        \A c \in Client : Resumes(c) =>
            /\ Shares(histories, client[c].history, client[c].nextTurn - 1)
            /\ client[c].nextTurn <= nextTurn
=============================================================================
