------------------------------- MODULE Saves -------------------------------
(***************************************************************************)
(* How a room comes by its players' saves, and how it and the other tasks  *)
(* of the server keep them in the store (crates/tpf3mp-server room.rs,     *)
(* snapshots.rs, connection.rs).                                           *)
(*                                                                         *)
(* The room asks one player at a time to upload: in the lobby its owner,   *)
(* for the world the game starts from; in the game whoever's save agreed.  *)
(* The upload runs in a task of the player's connection, which tells the   *)
(* room its result; snapshots are let go by tasks of their own.  So the    *)
(* room hears late of uploads it gave up on, and what it lets go may be    *)
(* arriving again.  A snapshot is kept in the store by counted holds, and  *)
(* every hold passes between those tasks.                                  *)
(***************************************************************************)
EXTENDS Integers, Sequences, FiniteSets, Functions, FiniteSetsExt

CONSTANTS
    Order,      \* the players in the order they joined; the first owns the room
    Snapshot,   \* the worlds a save may turn out to be
    Abrupt,     \* whether connections and rooms end without their tasks' work done
    None,
    MaxSaves,   \* bound on the saves of the game
    MaxAsks,    \* bound on the worlds the owner names in the lobby
    MaxBreaks   \* bound on lost connections and restarts

Player == Range(Order)

ASSUME SavesAssumption ==
    /\ Player # {} /\ Order \in Seq(Player) /\ IsInjective(Order)
    /\ IsFiniteSet(Snapshot)
    /\ None \notin [id : Snapshot, save : Snapshot]
                    \cup [is : {"Held"}, id : Snapshot, save : Snapshot]
    /\ Abrupt \in BOOLEAN
    /\ MaxSaves \in Nat /\ MaxAsks \in Nat /\ MaxBreaks \in Nat

VARIABLES
    phase,     \* "lobby", "running", or "closed"
    member,    \* of each player: "linked", "away", or "gone"
    start,     \* Room::start_world: None, Asked or Held, with the save it names
    round,     \* Saves::rounds: None, or the saves reported of the open one
    upload,    \* Saves::upload
    current, previous,  \* the snapshots the room keeps
    failed,    \* Saves::failed: players whose uploads failed
    inbox,     \* RoomCommand::Uploaded on the way to the room
    streams,   \* uploads running in connections' tasks
    holds,     \* Snapshots::holds
    retained,  \* the snapshots the store keeps
    releasing, \* releases not carried out yet, of each snapshot
    dropping,  \* snapshots found unheld, and not dropped yet
    count      \* saves, worlds named, and breaks so far

room == <<phase, member, start, round, upload, current, previous, failed>>
store == <<holds, retained, releasing, dropping>>
vars == <<room, store, inbox, streams, count>>

Linked == {p \in Player : member[p] = "linked"}
Staying == {p \in Player : member[p] # "gone"}
Owner == Order[Min({i \in DOMAIN Order : member[Order[i]] # "gone"})]

\* A snapshot in its slot, and the one that was reported as the save it is
\* there for (for the properties only).
World(id, save) == [id |-> id, save |-> save]
Slots == {slot \in {current, previous} : slot # None}
IsAsked == start # None /\ start.is = "Asked"
IsHeld == start # None /\ start.is = "Held"

IdsOf(slot) == IF slot = None THEN {} ELSE {slot.id}
HeldStart == IF IsHeld THEN {start.id} ELSE {}

\* A task is started that gives back a hold on each of `ids`:
\* release_in_background.
LetGo(rel, ids) == [id \in Snapshot |-> IF id \in ids THEN rel[id] + 1 ELSE rel[id]]

Init ==
    /\ phase = "lobby" /\ member = [p \in Player |-> "linked"]
    /\ start = None /\ round = None /\ upload = None
    /\ current = None /\ previous = None /\ failed = {}
    /\ inbox = <<>> /\ streams = {}
    /\ holds = [id \in Snapshot |-> 0] /\ retained = {}
    /\ releasing = [id \in Snapshot |-> 0] /\ dropping = {}
    /\ count = [saves |-> 0, asks |-> 0, breaks |-> 0]

Breaks == count.breaks < MaxBreaks /\ count' = [count EXCEPT !.breaks = @ + 1]
-----------------------------------------------------------------------------
(* The store                                                               *)

\* Snapshots::release: one hold goes back.
ReleaseOne(id) ==
    /\ releasing[id] > 0
    /\ releasing' = [releasing EXCEPT ![id] = @ - 1]
    /\ IF holds[id] > 1
       THEN holds' = [holds EXCEPT ![id] = @ - 1] /\ UNCHANGED dropping
       ELSE holds' = [holds EXCEPT ![id] = 0] /\ dropping' = dropping \cup {id}
    /\ UNCHANGED <<room, inbox, streams, retained, count>>

\* (mutant) whoever took a hold meanwhile is not asked.
DropUnheldAnyway(id) ==
    /\ id \in dropping
    /\ dropping' = dropping \ {id}
    /\ retained' = retained \ {id}
    /\ UNCHANGED <<room, inbox, streams, holds, releasing, count>>

\* drop_unheld: unless somebody took a hold meanwhile.
DropUnheld(id) ==
    /\ id \in dropping
    /\ dropping' = dropping \ {id}
    /\ retained' = IF holds[id] > 0 THEN retained ELSE retained \ {id}
    /\ UNCHANGED <<room, inbox, streams, holds, releasing, count>>
-----------------------------------------------------------------------------
(* Uploads, in the connection's task                                       *)

\* upload_starts: the player was asked for this world, and has not begun.
Wanted(p, id) ==
    \/ phase = "lobby" /\ IsAsked /\ start.from = p /\ start.id = id /\ ~start.receiving
    \/ phase = "running" /\ upload # None
         /\ upload.from = p /\ upload.id = id /\ ~upload.receiving

\* bulk_stream: the world is held from before it arrives.  A player has one
\* stream at a time.
OpenUpload(p, id) ==
    /\ member[p] = "linked" /\ \A stream \in streams : stream.from # p
    /\ Wanted(p, id)
    /\ IF phase = "lobby" THEN start' = [start EXCEPT !.receiving = TRUE] /\ UNCHANGED upload
       ELSE upload' = [upload EXCEPT !.receiving = TRUE] /\ UNCHANGED start
    /\ holds' = [holds EXCEPT ![id] = @ + 1]
    /\ streams' = streams \cup {[from |-> p, id |-> id]}
    /\ UNCHANGED <<phase, member, round, current, previous, failed, retained, releasing,
                   dropping, inbox, count>>

\* What is left in the room's queue when its task ends is never read.
Tell(message) == IF phase = "closed" THEN UNCHANGED inbox ELSE inbox' = Append(inbox, message)

Arrives(stream) ==
    /\ stream \in streams
    /\ streams' = streams \ {stream}
    /\ retained' = retained \cup {stream.id}
    /\ Tell([from |-> stream.from, id |-> stream.id, ok |-> TRUE])
    /\ releasing' = IF phase = "closed" THEN LetGo(releasing, {stream.id}) ELSE releasing
    /\ UNCHANGED <<room, holds, dropping, count>>

\* Whether a stream that breaks off comes to say so: the connection may end
\* and its bulk task with it, at whatever it waits for (connection.rs:455).
Says(stream) == IF Abrupt /\ member[stream.from] # "linked" THEN BOOLEAN ELSE {TRUE}

Fails(stream) ==
    /\ stream \in streams
    /\ streams' = streams \ {stream}
    /\ \E says \in Says(stream) :
        IF says
        THEN /\ Tell([from |-> stream.from, id |-> stream.id, ok |-> FALSE])
             /\ releasing' = LetGo(releasing, {stream.id})
        ELSE UNCHANGED <<inbox, releasing>>
    /\ UNCHANGED <<room, holds, retained, dropping, count>>
-----------------------------------------------------------------------------
(* The lobby: the world the game starts from                               *)

\* ask_for_start_world: the owner names a world, in place of any before.
NameWorld(id) ==
    /\ phase = "lobby" /\ count.asks < MaxAsks
    /\ start # None => start.id # id
    /\ releasing' = LetGo(releasing, HeldStart)
    /\ start' = [is |-> "Asked", id |-> id, save |-> id, from |-> Owner, receiving |-> FALSE]
    /\ count' = [count EXCEPT !.asks = @ + 1]
    /\ UNCHANGED <<phase, member, round, upload, current, previous, failed, inbox,
                   streams, holds, retained, dropping>>

\* clear_start_world.
ClearWorld ==
    /\ phase = "lobby" /\ start # None
    /\ releasing' = LetGo(releasing, HeldStart)
    /\ start' = None
    /\ UNCHANGED <<phase, member, round, upload, current, previous, failed, inbox,
                   streams, holds, retained, dropping, count>>

\* expire_start_world: an upload under way has limits of its own.
ExpireStart ==
    /\ phase = "lobby" /\ IsAsked /\ ~start.receiving
    /\ start' = None
    /\ UNCHANGED <<phase, member, round, upload, current, previous, failed, store, inbox,
                   streams, count>>

\* (mutant) the lobby keeps the world the game starts from, too.
StartAndKeep ==
    /\ phase = "lobby" /\ ~IsAsked
    /\ phase' = "running"
    /\ current' = IF IsHeld THEN World(start.id, start.save) ELSE None
    /\ UNCHANGED <<member, start, round, upload, previous, failed, store, inbox, streams, count>>

\* start: the world the room holds passes to its slot.
Start ==
    /\ phase = "lobby" /\ ~IsAsked
    /\ phase' = "running"
    /\ start' = None
    /\ current' = IF IsHeld THEN World(start.id, start.save) ELSE None
    /\ UNCHANGED <<member, round, upload, previous, failed, store, inbox, streams, count>>
-----------------------------------------------------------------------------
(* The game's saves                                                        *)

\* promote: the slot that goes gives its hold back.
Promote(world) ==
    /\ current' = world /\ previous' = current
    /\ releasing' = LetGo(releasing, IdsOf(previous))

\* ask_for_upload: the first candidate whose save the room holds already, or
\* who is there to upload it.
AskForUpload(candidates) ==
    LET kept == {slot.id : slot \in Slots}
        usable == {i \in DOMAIN candidates :
                      candidates[i].id \in kept \/ member[candidates[i].player] = "linked"}
        next == candidates[Min(usable)]
    IN IF usable = {} THEN upload' = None /\ UNCHANGED <<current, previous, holds, releasing>>
       ELSE IF next.id \in kept
       THEN /\ upload' = None
            /\ holds' = [holds EXCEPT ![next.id] = @ + 1]
            /\ Promote(World(next.id, next.id))
       ELSE /\ upload' = [from |-> next.player, id |-> next.id,
                          rest |-> SubSeq(candidates, Min(usable) + 1, Len(candidates)),
                          receiving |-> FALSE]
            /\ UNCHANGED <<current, previous, holds, releasing>>

\* save_if_due.
SaveDue ==
    /\ phase = "running" /\ round = None /\ upload = None
    /\ Linked # {} /\ count.saves < MaxSaves
    /\ count' = [count EXCEPT !.saves = @ + 1]
    /\ round' = [p \in {} |-> None]
    /\ UNCHANGED <<phase, member, start, upload, current, previous, failed, store, inbox,
                   streams>>

\* saved: a game reports its save.  One that could not save counts as one
\* that does not report: no upload can be asked of it.
Report(p, id) ==
    /\ phase = "running" /\ round # None
    /\ member[p] = "linked" /\ p \notin DOMAIN round
    /\ round' = [q \in DOMAIN round \cup {p} |-> IF q = p THEN id ELSE round[q]]
    /\ UNCHANGED <<phase, member, start, upload, current, previous, failed, store, inbox, streams,
                   count>>

\* The players of P, in the order of the members.
InOrder(P) ==
    LET first[n \in 0..Len(Order)] ==
            IF n = 0 THEN <<>>
            ELSE IF Order[n] \in P THEN Append(first[n - 1], Order[n]) ELSE first[n - 1]
    IN first[Len(Order)]

\* Whose saves may be uploaded: in the order of the members, those whose
\* uploads failed last.
Candidates(agreeing) ==
    LET sorted == InOrder(agreeing \ failed) \o InOrder(agreeing \cap failed)
    IN [i \in DOMAIN sorted |-> [player |-> sorted[i], id |-> round[sorted[i]]]]

\* decide_save: complete, or out of time.  Which reports the vote is against
\* is the Verdict's.
DecideSave ==
    /\ phase = "running" /\ round # None
    /\ \E agreeing \in SUBSET DOMAIN round : AskForUpload(Candidates(agreeing))
    /\ round' = None
    /\ UNCHANGED <<phase, member, start, failed, inbox, streams, retained, dropping, count>>

\* uploaded, in the lobby: start_world_uploaded.
StartUploaded(message) ==
    /\ IF IsAsked /\ start.from = message.from /\ start.id = message.id
       THEN /\ start' = IF message.ok THEN [is |-> "Held", id |-> message.id, save |-> start.save]
                       ELSE None
            /\ UNCHANGED releasing
       ELSE /\ releasing' = LetGo(releasing, IF message.ok THEN {message.id} ELSE {})
            /\ UNCHANGED start
    /\ UNCHANGED <<upload, current, previous, failed, holds>>

\* (mutant) whatever the player asked uploads is the save asked for.
AwaitedOfPlayer(message) == upload # None /\ upload.from = message.from

Awaited(message) ==
    upload # None /\ upload.from = message.from /\ upload.id = message.id

\* (mutant) the hold of an upload the room gave up on is forgotten.
GameUploadedForgets(message) ==
    /\ IF ~Awaited(message) THEN UNCHANGED <<upload, current, previous, failed, holds, releasing>>
       ELSE IF message.ok
       THEN /\ upload' = None
            /\ Promote(World(message.id, upload.id))
            /\ UNCHANGED <<failed, holds>>
       ELSE /\ failed' = failed \cup {message.from}
            /\ AskForUpload(upload.rest)
    /\ UNCHANGED start

\* uploaded, in the game: of an upload the room gave up on, the hold goes back.
GameUploaded(message) ==
    /\ IF ~Awaited(message)
       THEN /\ releasing' = LetGo(releasing, IF message.ok THEN {message.id} ELSE {})
            /\ UNCHANGED <<upload, current, previous, failed, holds>>
       ELSE IF message.ok
       THEN /\ upload' = None
            /\ Promote(World(message.id, upload.id))
            /\ UNCHANGED <<failed, holds>>
       ELSE /\ failed' = failed \cup {message.from}
            /\ AskForUpload(upload.rest)
    /\ UNCHANGED start

Uploaded ==
    /\ phase # "closed" /\ inbox # <<>>
    /\ inbox' = Tail(inbox)
    /\ IF phase = "lobby" THEN StartUploaded(Head(inbox)) ELSE GameUploaded(Head(inbox))
    /\ UNCHANGED <<phase, member, round, streams, retained, dropping, count>>

\* (mutant) only an upload that began has a deadline.
StalledReceiving ==
    /\ phase = "running" /\ upload # None /\ upload.receiving
    /\ failed' = failed \cup {upload.from}
    /\ AskForUpload(upload.rest)
    /\ member' = [member EXCEPT ![upload.from] = IF @ = "linked" THEN "away" ELSE @]
    /\ UNCHANGED <<phase, start, round, inbox, streams, retained, dropping, count>>

\* run_saves: the player did not begin, or not finish, in time.  One that is
\* still uploading loses its connection.
Stalled ==
    /\ phase = "running" /\ upload # None
    /\ failed' = failed \cup {upload.from}
    /\ AskForUpload(upload.rest)
    /\ member' = IF upload.receiving /\ member[upload.from] = "linked"
                 THEN [member EXCEPT ![upload.from] = "away"] ELSE member
    /\ UNCHANGED <<phase, start, round, inbox, streams, retained, dropping, count>>
-----------------------------------------------------------------------------
(* Players and servers come and go                                         *)

\* after_departure: the last one out closes the room (discard_game), and an
\* owner takes along the world it named.  A room that closes may leave
\* results in its queue (room.rs:1629).
Departed(p) ==
    LET last == Staying = {p}
        named == IF last \/ p = Owner THEN LetGo(releasing, HeldStart) ELSE releasing
    IN /\ member' = [member EXCEPT ![p] = "gone"]
       /\ last => Abrupt \/ inbox = <<>>
       /\ phase' = IF last THEN "closed" ELSE phase
       /\ start' = IF last \/ p = Owner THEN None ELSE start
       /\ inbox' = IF last THEN <<>> ELSE inbox
       /\ releasing' = IF last THEN LetGo(LetGo(named, IdsOf(current)), IdsOf(previous)) ELSE named
       /\ IF last THEN current' = None /\ previous' = None /\ upload' = None /\ round' = None
          ELSE UNCHANGED <<current, previous, upload, round>>

Leaves(p) ==
    /\ phase # "closed" /\ member[p] = "linked"
    /\ Departed(p)
    /\ UNCHANGED <<failed, streams, holds, retained, dropping, count>>

\* A lobby's seat goes with its connection; a game's is kept.
Disconnected(p) ==
    /\ phase # "closed" /\ member[p] = "linked" /\ Breaks
    /\ IF phase = "lobby" THEN Departed(p)
       ELSE /\ member' = [member EXCEPT ![p] = "away"]
            /\ UNCHANGED <<phase, start, round, upload, current, previous, inbox, releasing>>
    /\ UNCHANGED <<failed, streams, holds, retained, dropping>>

Returns(p) ==
    /\ phase = "running" /\ member[p] = "away"
    /\ member' = [member EXCEPT ![p] = "linked"]
    /\ UNCHANGED <<phase, start, round, upload, current, previous, failed, store, inbox,
                   streams, count>>

\* The server restarts: the room comes back with the snapshot its pointer
\* names, if any, and the store lets go of every other (release_all_but).
Restart ==
    /\ phase = "running" /\ Breaks
    /\ \E kept \in {slot \in Slots : slot.id \in retained} \cup {None} :
        /\ current' = kept
        /\ retained' = retained \cap IdsOf(kept)
        /\ holds' = [id \in Snapshot |-> IF id \in IdsOf(kept) THEN 1 ELSE 0]
    /\ previous' = None /\ round' = None /\ upload' = None /\ failed' = {}
    /\ inbox' = <<>> /\ streams' = {}
    /\ releasing' = [id \in Snapshot |-> 0] /\ dropping' = {}
    /\ member' = [p \in Player |-> IF member[p] = "gone" THEN "gone" ELSE "away"]
    /\ UNCHANGED <<phase, start>>
-----------------------------------------------------------------------------
Next ==
    \/ \E id \in Snapshot : ReleaseOne(id) \/ DropUnheld(id) \/ NameWorld(id)
    \/ \E p \in Player, id \in Snapshot : OpenUpload(p, id) \/ Report(p, id)
    \/ \E stream \in streams : Arrives(stream) \/ Fails(stream)
    \/ ClearWorld \/ ExpireStart \/ Start
    \/ SaveDue \/ DecideSave \/ Uploaded \/ Stalled
    \/ \E p \in Player : Leaves(p) \/ Disconnected(p) \/ Returns(p)
    \/ Restart

Spec == Init /\ [][Next]_vars

\* The room's ticker runs, its queue is read, and a bulk stream that idles is
\* given up (BULK_IDLE).
FairSpec ==
    /\ Spec
    /\ WF_vars(ExpireStart \/ Stalled) /\ WF_vars(Uploaded)
    /\ WF_vars(\E stream \in streams : Arrives(stream) \/ Fails(stream))
-----------------------------------------------------------------------------
TypeOK ==
    /\ phase \in {"lobby", "running", "closed"}
    /\ member \in [Player -> {"linked", "away", "gone"}]
    /\ start # None => start.is \in {"Asked", "Held"} /\ start.id \in Snapshot /\ phase = "lobby"
    /\ round # None => /\ upload = None
                       /\ DOMAIN round \subseteq Player /\ Range(round) \subseteq Snapshot
    /\ upload # None => upload.from \in Player /\ upload.id \in Snapshot
    /\ Slots \subseteq [id : Snapshot, save : Snapshot]
    /\ failed \subseteq Player
    /\ Range(inbox) \subseteq [from : Player, id : Snapshot, ok : BOOLEAN]
    /\ streams \subseteq [from : Player, id : Snapshot]
    /\ holds \in [Snapshot -> Nat] /\ releasing \in [Snapshot -> Nat]
    /\ retained \subseteq Snapshot /\ dropping \subseteq Snapshot

\* Who has a hold on a snapshot: the room's slots and the world its lobby
\* holds, uploads under way, results on their way to the room, and releases
\* on their way to the store.
Holds(ids, id) == IF id \in ids THEN 1 ELSE 0
Uploading(from, id) == Cardinality({stream \in from : stream.id = id})
Arriving(messages, id) ==
    Cardinality({i \in DOMAIN messages : messages[i].id = id /\ messages[i].ok})
HoldersOf(id) ==
    Holds(IdsOf(current), id) + Holds(IdsOf(previous), id) + Holds(HeldStart, id)
    + Uploading(streams, id) + Arriving(inbox, id) + releasing[id]

\* Every hold has a holder that will give it back: none is leaked, which would
\* keep a world for ever, and none is given back twice, which would take it
\* from under another holder ("the hold goes back", connection.rs:1213).  Only
\* as long as no connection or room ends with its tasks' work undone, that is,
\* without Abrupt: the hold of a bulk task that is aborted (connection.rs:455),
\* or of a result left in a room's queue (room.rs:1629), is given back by nobody.
HoldsAccounted == \A id \in Snapshot : holds[id] = HoldersOf(id)

\* The store keeps every world the room may hand out, however the tasks that
\* let go of it and take it up again interleave (snapshots.rs:135).
KeptWhileUsed ==
    IdsOf(current) \cup IdsOf(previous) \cup HeldStart \subseteq retained

\* The room hands out, as the world of a save, the one reported by the player
\* it asked for it, and starts from the world its owner named last, whatever
\* uploads of earlier asks end meanwhile (room.rs:3271).
AgreedWorlds ==
    /\ \A slot \in Slots : slot.id = slot.save
    /\ IsHeld => start.id = start.save

\* The room never waits for an upload for ever, whether it was not begun, was
\* given up or was cut off: it can start, and save again.
UploadsEnd == []<>(upload = None /\ ~IsAsked)
=============================================================================
