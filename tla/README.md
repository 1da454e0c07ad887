# Verification of TPF3-MP

TPF3-MP adds multiplayer to Transport Fever 3. Every player's machine runs the
whole simulation; a dedicated server orders the players' commands into
numbered, sealed turns, and a game simulates a step only once the turn that
seals it has arrived (deterministic lockstep). This directory holds TLA+ modules
that model the parts of that system where the order of things matters, the TLC
configurations that check them on small instances, and proofs that TLAPS checks.

## The system

The workspace is `src/crates/`; the protocol is described in
`src/docs/PROTOCOL.md`, and its decisions in `src/docs/DECISIONS.md`.

| Part | State it keeps | Operations | What makes it correct |
|---|---|---|---|
| **Room: turn log** (`tpf3mp-server` `room.rs`, `persist.rs`) | next turn and event numbers, frontier, pending events, resume window, histories, the log file, the compaction under way | order, seal, append, publish, resume a stream, compact, recover | no two games play different turns; what a crash leaves can always be recovered |
| **Room: worlds** (`room.rs`, `snapshots.rs`) | current snapshot, each member's `needs`, `loaded`, `streaming` | promote, offer, announce a divergence, join, leave, disconnect | every game plays from the same loaded save; a member that needs a world gets one |
| **Room: pacing** (`room.rs`, `pacing.rs`) | clock, each member's `Pace`, reported progress | tick, progress, demote stalled members | the frontier is never further than the window from the slowest player that paces; one stalled player stops nobody for ever |
| **Room: checkpoints and saves** (`room.rs`, `verdict.rs`, `snapshots.rs`) | open rounds with reports, verdicts, closed rounds | report, decide, forget, prune, choose an uploader, upload | a verdict is a strict majority of the reports of one world; nobody is judged twice for one report |
| **Room: seats and lobby** (`room.rs`, `admission.rs`) | members, owner, bans, ready flags, content, start world | create, join, leave, kick, ban, ready, start, own | one owner among the members; a game starts only with everybody ready on the same content |
| **Drain and handover** (`drain.rs`, `directory.rs`) | rooms on disk, handed-over rooms | drain, export, publish, take in | no turn of a game is lost, and in the end it is on the newer server |
| **Snapshot holds** (`snapshots.rs`, `tpf3mp-snapshot`) | who holds which manifest, chunk store | hold, release, collect | a snapshot somebody may still be sent is never collected |
| **Connections, bulk, tunnel** (`connection.rs`, `lib.rs`, `tunnel.rs`, `tpf3mp-net`) | sessions, queues | route requests, write turns, transfer | messages keep their order; a slow reader is cut off |
| **Agent** (`tpf3mp-agent` `follower.rs`, `bridge.rs`, `playout.rs`, `transfer.rs`) | turn follower, world being fetched or loaded, playout buffer | accept turns, resume, fetch, rejoin | a turn is applied only when it continues exactly what was applied |
| **Game bridge** (`tpf3mp-bridge` `gate.rs`, `session.rs`) | step gate, commands applied | receive, run steps, report | no step runs before its turn is sealed and its events applied |
| **IPC** (`tpf3mp-ipc` `ring.rs`) | two 32-bit counters over a shared ring | push, pop | bytes arrive whole, in order, across the counters' wrap |
| **Economy and canonical state** (`tpf3mp-canon`) | the companies' ledger, replayed from events | apply an event | the same events give the same state everywhere |
| **AI players** (`tpf3mp-ai`, `room.rs`) | drivers | choose, act | one driver at a time per AI |
| Hook, launcher, native mods, big map, mod scanner, test kit, tools | process memory, installed files | detours, install, scan | outside a model checker's reach, see below |

The parts interact through messages. A client holds one connection, with a
control stream (requests and pushes), one turn stream (the server's `TurnFeed`s)
and bulk streams (snapshots). Each room is one task that handles one request at
a time, so a handler is atomic; what is not atomic is everything around it: the
connections, which may end between any two handlers with anything on its way,
the disk, which keeps what it kept, the blocking tasks that write the
pointer, compact the log and export a game, the tasks that receive uploads and
let snapshots go, and the clients, which act on what they have
received so far.

Hard behaviours, in the order they are modelled: crashes that lose the end of
the log after clients saw it; a compaction that runs while turns are sealed;
resumes over several recoveries; a world handed over while its receiver
disconnects; votes that close while reports are under way; results of uploads that were
given up; a move between two servers that may each stop half way; two processes that
know late what the other did; limits (full queues, window edges, wrapped counters).

## The modules

| Module | Models | Checked with |
|---|---|---|
| `TurnLog` | room: turn log and recovery; agent: turn follower | `MCTurnLog`, `TurnLog_*.cfg`; proofs in `TurnLogProofs` |
| `Worlds` | room: who is owed, handed and playing which world; agent: fetching and reloading | `MCWorlds`, `Worlds_together.cfg`, `Worlds_inflight.cfg`; proofs in `WorldsProofs` |
| `WorldsServed` | `Worlds`, with when the room makes a save | `Worlds_served.cfg` |
| `Pacing` | room: the clock, members' paces; agent: progress reports | `MCPacing`, `Pacing_clock.cfg`; proofs in `PacingProofs` |
| `Verdict` | room: the vote over the digests of a round (no state) | through `Checkpoints`; proofs in `CheckpointsProofs` |
| `Checkpoints` | room: checkpoint rounds and the forgetting of old worlds' reports; agent: checkpoint reports | `MCCheckpoints`, `Checkpoints_*.cfg`; proofs in `CheckpointsProofs` |
| `Saves` | room: save rounds, uploads, the two slots, the world a game starts from; connections' bulk tasks; the holds of the snapshot store | `MCSaves`, `Saves_held.cfg`; proofs in `SavesProofs` |
| `Drain` | a game's move between two servers: export, hand-over, taking in, recovery on both | `Drain_moves.cfg`; proofs in `DrainProofs` |
| `Bridge` | agent: the bridge between the room's stream and the hook; hook: gate and session; the two queues between them | `MCBridge`, `Bridge_played.cfg`; proofs in `BridgeProofs` |
| `Playing` | what a game does with the room's history, whatever lies between (abstract) | implemented by `Bridge` |
| `Ring` | one direction of the shared-memory link, byte by byte | `MCRing`, `Ring_channel.cfg`; proofs in `RingProofs` |
| `Channel` | what one direction of the link promises (abstract) | implemented by `Ring` |

The room is one task, so each of its handlers is one action, including every
call the handler makes: `Worlds.JoinForWorld` ends with the `offer_worlds` that
`Room::join` ends with, `TurnLog.Intent` orders, seals, remembers, logs, hands
to the compaction and sends. The first five modules and `Saves` look at the same
handlers from several sides, each keeping the state its properties need:

* `TurnLog` keeps the turns themselves. `nextTurn`, `nextEvent`, `sealed`,
  `pending`, `log`, `logFirst`, `sealedBefore` and `histories` are the fields of
  `Game` with those names or nearly so (`log` is `turns`, the resume window);
  `disk` is what the log file holds, with `synced` the part a machine crash
  cannot take, `compaction` the file `start_compaction` has a blocking task
  write, `pointer` the file `Pointer::write` leaves. `client` is the agent's
  `TurnFollower`, `conn` the turn stream and what is on its way in it. Which
  member is owed a world is a choice here, bounded by what `Worlds` allows.
* `Worlds` keeps each member's `needs`, `loaded`, `streaming` and link, and of
  the turns only whether the window still reaches the current snapshot.
  `AnnounceDivergence` may find anyone diverged at any time: a superset of what
  votes produce. A save may be agreed on at any time there; `WorldsServed` has instead
  `Saves::due` and `save_if_due`: none while one is under way (`saving`), while nobody who
  streams keeps up (`follows`), or of a log that has not changed since the last
  (`changed`), whatever became of that one.
* `Pacing` keeps `Pacer` (`ideal`, the frontier) and each member's `Pace`; its
  clock counts whole steps, and a timeout may pass whenever its condition holds.
  `HandWorld` may hand any member a world at any time: a superset of `Worlds`.
* `Checkpoints` keeps the rounds and the member fields the comparison reads; a
  world's way to a member is one step that can be lost. The reports of a member
  whose connection the room gives up (`drop_link`) are lost with it.
* `Saves` keeps `start_world`, `Saves::rounds`, `upload`, `failed` and the two
  slots, and beside the room what its other tasks hold: `streams` are the
  uploads in connections' bulk tasks, `inbox` the `Uploaded` results on their way
  to the room, `releasing` the releases started by `release_in_background`,
  `dropping` the snapshots found unheld and not dropped yet. `holds` is the
  table of `Snapshots`. Each of those tasks runs between any two handlers of the
  room. A snapshot is the identity its content has; `save` beside it is the
  snapshot that was reported, for the properties.

The other modules lie beyond the room:

* `Drain` has two servers, `old` and `new`, and between them the directories a
  hand-over goes through (`partial`, `handed`, `broken`). A log is the set of turns in
  it, each numbered by when it was played, and a world the turn it was saved at: what
  two servers that both run the game play differs. The export writes log, pointer
  and worlds in steps of their own while the room goes on (`StartExport` to
  `ExportWorlds`). `FinishHandover` is the room's decision up to the rename that
  publishes; the deletion of the log is a step of its own (`DiscardGame`,
  `DiscardFails`), before which the server may restart. `TakeIn` to
  `Register` are `drain::take_in` and the recovery after it, file by file, with the
  world held only at the end. Either server may restart between any two, any step may
  fail, a log may turn out not to be restorable at every recovery, and games nobody
  returns to end on both servers.
* `Bridge` has an agent and a hook as two processes and two bounded queues.
  `world`, `outbox`, `sentLoads`, `orders` (`load_generation`), `attempts`, `progress`,
  `reported` and `held` are the agent's fields; `gate` and `hook` are `Gate` and
  `Session`; `game` is the world in the game. `Pump` is the agent's playout,
  `FetchWorld` what a turn stream from a world does (`void_world`), `OnLoaded`
  the matching of an answer with the load it answers. The room's history is a
  constant sequence of events, saves and steps; a position counts its entries.
  A world that the agent gave up may still be loading or played by the game.
* `Ring` has the two counters, the buffer, and a push and a pop under way. Each
  byte copied is a step, so a push and a pop interleave in every way; the
  counters wrap at `Wrap` and the places at `Capacity`, as in the code.

In each, a client connects, resumes, drops and restarts at any time. A message
that is on its way is in `conn`, `up`, `coming`, `inbox` or a queue until it is
read or lost, and the room may hand or order anything in between. Variables
under "History variables", `astray` and `save` fields are read by properties only.

### Composition and refinement

`Bridge` instantiates `Playing` with the mapping `at <- game.at`: whatever the
agent buffers, voids, resumes or has reloaded, the game loads a world of the
room's history and plays its entries in order from there. `Ring` instantiates
`Channel` on its history of messages sent and received. `Bridge` uses the link
as such a channel, bounded. Both refinements are checked with liveness as a
`PROPERTY` (`IsPlaying`, `IsChannel`), and the safety half of each is
proved (`BridgeIsPlaying`, `RingIsAChannel`). `Checkpoints` uses `Verdict`'s operators for its votes.

### What the properties mean

* `TurnLog.Lockstep`: while the room streams to a client, the turns its world
  embodies are a prefix of the log the server extends, whether it got them
  live, resumed them over recoveries, or loaded a save. `NeverFails`: no
  follower refuses an honest server's stream. `AlwaysRecoverable`: what any
  crash leaves passes every check of `Room::recover`.
  `NothingLostWithoutTheDisk`: a process crash costs nobody its resume.
* `Worlds.Together`: all who play, play from one loaded save (with an exception
  the code has, see findings). `RoomKnows`: the room is right about what a
  member plays; it leaves members alone by it. `NeverStranded`:
  whoever waits for a world makes the room want a save. `Served`: and gets one, in a
  game that goes on while somebody keeps up with it.
* `Pacing.PaceBound`: the frontier stays within the window, at the widest speed,
  of every member that paces the room (a speed that falls takes nothing back
  that was sealed). `LoadingHolds`: the game starts only when everyone the room
  waits for has loaded. `NeverAccused`: nobody honest is closed for
  running ahead, as long as no turns are lost. `RoomGoesOn`: one answering game
  suffices for the room to go on, whether another never loads or stalls while the game
  runs.
* `Checkpoints.ComparesLikeWithLike`: the room compares only reports of one
  world (with an exception, see divergences). `NobodyUntold`: whoever differs from
  a kept verdict was told, whatever the order of reports and deadlines.
* `Saves.HoldsAccounted`: every hold on a snapshot has one holder that will give
  it back, among slots, uploads, results and releases; none leaks and none is
  given back twice. `KeptWhileUsed`: the store keeps every world the room may
  hand out, however drops and new holds interleave. `AgreedWorlds`: a slot holds
  the save it was asked for, and the game starts from the world named last, even
  if results of uploads given up arrive after later ones were asked for.
  `UploadsEnd`: no upload keeps the room from saving, or starting, for ever.
* `Drain.TurnsKept`: whatever log of the game players were sent, all of it is in one
  log, of a server, handed over or set aside, unless nobody returned to that game. So
  where both servers play the game on, neither loses its turns to the other.
  `HasItsWorld`: a game that was taken in has its world in the store, except where
  it came without, or another room of the server let go of it before it was held
  (`bare`). `MovesOver`: once nobody returns to a draining game it ends up on
  the newer server, or set aside there, and not on the older one. Excepted is a game
  in whose way an earlier hand-over stands that could not be set aside, because one
  set aside before is in the way of that, which takes three restarts.
* `Bridge.NothingRefused`: neither the gate nor the agent ever gets a message it
  would end the game for. `ReadyMeansLoaded`: the world the agent takes for loaded is the
  one ordered last, though answers to earlier loads from the same step may
  still come. `ReportsOfThisWorld`: progress and checkpoints that the room is told are
  of the world it has the player play. `IsPlaying`: see above.
* `Ring.NeverTorn`: the consumer never meets a frame that is torn, stale or
  incomplete. `WritesOnlyFreeBytes`: the safety argument of `Ring::push`.
  `IsChannel`: see above.

## The runs

`tlc -config <run>.cfg <module>`; all use the module's assumptions and its
symmetry, where a property is not temporal.

| Run | Question | Bounds | Distinct states |
|---|---|---|---|
| `turnlog_compaction` | the log file over appends that fail, compactions, crashes of process and machine | 1 client, 2 turns and 2 events per history, 2 histories (one crash), file compacted from its first turn, window of 2 turns that the byte limit may cut to 1 | 206,649 |
| `turnlog_worlds` | saves, worlds served after crashes from a pointer that may be stale, resumes over two recoveries | 1 client, 2 turns, 2 events, 3 histories (two crashes) | 916,349 |
| `worlds_together` | joins of every kind, losses, restarts, divergences while worlds go out | 2 players, 2 snapshots, 1 step, 1 restart, queue of 1 | 514,589 |
| `worlds_served` | every waiting member gets a world | 2 players, 1 snapshot that later saves may bring again, the frontier at one step, no restart; fair | 162,200 |
| `worlds_inflight` | finding 1 | 3 snapshots, no restart | (violated) |
| `pacing_clock` | the window, through loads, stalls, speeds and a crash; and that the room goes on | 2 players of which one answers, a paused and the normal speed, 3 steps, 1 world, 1 crash that loses nothing, 1 report under way; fair | 707,928 |
| `checkpoints_alike` | rounds, deadlines, pruning, reloads, a restart | 2 players on two platforms, nobody faulty, 2 checkpoints, 2 snapshots, 1 save, 1 restart, at most 1 open and 1 decided round | 685,598 |
| `checkpoints_late` | verdicts at the deadline, and reports after them | 3 players, one faulty, 1 checkpoint, no save, 1 restart | 113,250 |
| `ring_channel` | the ring is a channel | capacity 8, counters that wrap at 16, prefix of 2, 5 messages of 4 sizes, one of which is too large; fair | 9,018 |
| `bridge_played` | the game plays the room's history | a history of 3 steps, an event and a save, 1 world of the room's own accord, 1 loss, links of 2 messages, outbox of 2, 1 message held while away, checkpoints every 2 steps; fair | 621,964 |
| `saves_held` | holds, slots and uploads | 2 players, 2 snapshots, 1 save, 2 worlds named in the lobby, 1 break, `Abrupt = FALSE`; fair | 714,459 |
| `drain_moves` | the move of a game | 2 turns, 2 restarts, 2 failing steps; fair | 1,178,070 |

Why these bounds suffice. In `TurnLog` a property concerns the server and one
client: clients share nothing but the log, so one client that may be slow,
disconnect, restart and resume shows what any does. Two turns let a turn be in
the file and not in the window, on its way and not accepted, or logged and
lost; two crashes let a client return with a history that parted twice. In
`Worlds` two players suffice for "one plays one save, the other another"; two
snapshots and the owner's own world make three different worlds. In
`Pacing` the steps exceed the window of the instance, so the cap binds, and after a
first sealed step there is room for a member that followed to stall and be let go;
what larger windows and more speeds do is proved. In `WorldsServed` a member waits
for reasons that do not depend on what a save contains, so one snapshot will do; with one
step, a save is never too old for a divergence found while it was under way, and
with two the instance is too large to check within minutes. In
`Checkpoints` two reports make a verdict, and one open and one kept round make
both limits bind; a verdict without a report still to come needs three players.
In `Ring` the sizes are an empty payload, one that leaves a byte free, one that
fills the ring and one the link refuses; five messages wrap the counters, with
frames that lie across the end of the buffer; every other capacity is covered by
the proofs. In `Bridge` a world may be handed out while another is fetched,
loads, or was just loaded, and both queues and the outbox fill. In `Saves` two
worlds named in the lobby let the result of the first ask arrive after the
second was made, and two snapshots suffice for a slot to hold the one that
another upload brings again; a game with two saves and one world named
(5.7 million states) was checked for the safety properties too. In `Drain` two
turns let both servers play one each, or one before and one during the export, and
each server may stop at every point of the move, or one of them twice.

`CHECK_DEADLOCK FALSE` appears where the bounded instance really stops: in
`TurnLog`, since identifiers of histories (random 64-bit numbers in the code) run out
in the model; in `Ring`, `Bridge`, `Saves` and `Drain`, since all
messages were sent and read, the history was played to its end, or nobody is
left who may still act within the bounds. Their liveness properties say what may not
stop before. All other runs check for deadlock.

Each property has a mutant, an operator with the mark `(mutant)` in its module,
that breaks it: a turn kept in a buffer, a compacted file put in place unflushed,
a resume granted past the parting, a feed without its backlog, a stream that
survives its connection, an uncapped frontier, reports not forgotten, a tail
published before the payload is copied, a hold that a failed upload does not give back,
a game handed over though somebody came back, and so on.

### What the instances exclude

`Saves.Abrupt` switches on what the code allows and what breaks a property; the run has
it FALSE, and TLC finds the violation with it TRUE: a connection that ends aborts its bulk task
wherever it waits (`connection.rs:455`), also between taking a hold for an arriving world
and telling the room; and a room that closes leaves results in its queue
(`room.rs:1629`). Nobody gives those holds back: `HoldsAccounted` fails after five steps,
and the world stays in the store until the server restarts.

`Pacing.LosesTurns` likewise: what a crash that loses turns does to `NeverAccused` is among the
divergences below. `Bridge` has two simplifications: a resume that is refused is not told
apart from one that is granted, but for the world that is offered afterwards
(`bridge.rs:2711`), and reporting that a world was loaded does not fail half way
(`bridge.rs:1012`; it would end the connection). No property rests on either.

## Fairness

`Spec` in each module has none; safety does not need it.

* `WorldsServed.ServedSpec`: `run_saves` runs on every tick, so a save that is wanted
  is made once it is due and stays so (`WF` of `SaveIfDue`; the minimal gap passes), and
  one under way ends, by its votes, its upload or their deadlines (`WF` of both
  ends). That of saves made again and again one is uploaded while the window still
  reaches it is an assumption about the players' connections (`SF` of
  `SaveArrives(TRUE)`). No client step is fair. That the log changes, and that a
  streaming member keeps up with it, are premises of `Served`: in a paused game whose last save
  nobody could hand on, who waits for a world waits until it goes on
  (`snapshots.rs:318`), and without the premise TLC finds just that.
* `Pacing.FairSpec`: the room's task ticks (`SF` of `Tick(1)`, since an interval
  timer keeps firing and pauses of the clock are finitely long only if the room
  resumes again and again), reads what arrives (`WF` of `Progress`) and lets a
  stalled member go (`WF` of `Demote` for a pace that does not change: the stall
  timer restarts when it does). Only members in `Responsive` answer.
* `Saves.FairSpec`: the room's ticker runs (`ExpireStart`, `Stalled`), it reads its
  queue, and a bulk stream ends, by arriving or by `BULK_IDLE`. No player
  is assumed to begin an upload.
* `Drain.FairSpec`: the old server's ticker and its export task run, and the newer
  one looks for games every `TAKE_IN_EVERY`. Restarts and failures are bounded.
* `Bridge.FairSpec`: both processes poll their queues, the room goes on and
  offers a world to a member that rejoined without one, and a game that is
  asked to run, save or load does. Losses of connections are bounded.
* `Ring.FairSpec`: the receiver polls its ring (`Session::poll_step`,
  `Bridge::read_hook`), and a copy that began goes on. `SF` of `ReadPayload`: both
  ends take messages of any size the link does, so `PopTooSmall` does not happen
  for ever.

## Findings

1. `worlds_inflight` (`OneWorld`): a world counts as loaded once it is in the
   member's queue (`room.rs:3542`). A connection that ends before the client
   has read it lets the member resume its own world next to players of the save.
   `Together` excepts such members (`astray`), and members a restart forgot.

Other divergences met while modelling, which the modules have as the code has
them and which no run shows now:

* A resume drops the rebase a member was owed (`room.rs:1967`, against
  `PROTOCOL.md:710`), so it keeps its diverged world until found diverged again.
* After a crash that lost turns, a client waiting for its world still reports
  the steps of its old game, and is closed for a protocol violation
  (`room.rs:2940`); `NeverAccused` is about crashes that lose none.
* A checkpoint report carries no world; one that crosses a world handed to its
  sender passes for a report of that world (`room.rs:3050`), and a healthy game
  is told it diverged. `ComparesLikeWithLike` excepts it.
* A save is stored by a task of its own and reported whatever the game plays by
  then (`bridge.rs:1749`); `ReportsOfThisWorld` excepts it.
* A handed-over game that was taken in and cannot be restored has its log set
  aside, but the hand-over is removed (`directory.rs:258`) and its worlds, which
  nobody holds, go with the next restart: `TurnsKept` holds, and a second try would
  find no world.
* Between the rename that hands a game over and the deletion of its log the older
  server may stop, or fail to delete it, of which it only warns (`room.rs:2832`, `3730`). It then
  recovers, or keeps until it recovers, a game the newer one has taken in, and both run
  it, against `drain.rs:13`. `Drain` has it; `TurnsKept` and `MovesOver` say what
  holds all the same.
* A world handed over is ingested before the room that will hold it exists
  (`directory.rs:243`), so another room that lets go of it meanwhile takes it from the
  store; `HasItsWorld` excepts that.
* The holds lost under "What the instances exclude".

## The proofs

`TurnLogProofs` proves, for every set of clients, every window and bound and
any number of crashes:

* `LogInvariant`: `Spec => []LInv`.
* `SurvivesCrashes`: `Spec => []AlwaysRecoverable`.
* `ClientInvariant`: `Spec => []CInv`; and from it `TypesCorrect`,
  `ClientsInLockstep`, `FollowersNeverFail`, `NothingIsLost`: `Spec` implies
  `[]TypeOK`, `[]Lockstep`, `[]NeverFails`, `[]NothingLostWithoutTheDisk`.

`AlwaysRecoverable` is not inductive: that a truncated or compacted file still
numbers its events without a gap depends on what was appended when, and on
what the room held in memory when the compaction started. `LInv` says that
there is one chain of turns (`played`), and that everything else is a piece of
it: the room's window, frontier and next event are where the chain ends
(`WindowOK`, `PendingOK`), the log file and the compacted file being written hold
turns of the chain in order, with a base and markers that state where in the chain they
stand (`FileOK`), and the file ends where the chain ends while the room
appends to it. The proof has a lemma per operation on the file (append, mark,
cut at a crash, replace by the compacted one) and one per action. From
`FileOK`, `FileRecoverable` derives every check of `Room::recover`. The assumptions
are `ConstantsAssumption` alone; the bounds `MaxTurns`, `MaxEvents` and
`MaxSteps` are arbitrary.

`Lockstep` speaks of the clients the room streams to, and a recovery may cut the
log under any client, so the invariant speaks of all of them, connected or not.
`CInv` says that the turns every client's world embodies, and those of every save,
agree with the room (`Agrees`): wherever the room would serve that history
a resume, they are what the log begins with (`FollowerOK`, `PointOK`). What is on
its way on a stream leads its reader on, message by message, along one line of
turns in the history the reader was told (`Line`, `StreamOK`; `ComesFirst` and
`ComesNext` are what may come first and next), and of a client the room streams to
that line is the log (`ConnOK`). A recovery starts a history that parts from the
earlier ones where the log was cut, which keeps `Agrees`, and a resume is granted
only before the parting. `LogKept` (no append failed means the file is open) is
what `NothingLostWithoutTheDisk` needs besides; `NeverFails` is part of `FollowerOK`.

`PacingProofs` proves, for every set of players, every finite set of speeds
with the normal one, every input delay and backlog, every queue and any number
of crashes:

* `PacingInvariant`, `PacingTypeCorrect`, `LoadingHoldsAlways`,
  `PaceBoundAlways`: `Spec` implies `[]PInv`, `[]TypeOK`, `[]LoadingHolds`,
  `[]PaceBound`.
* `NeverAccusedWithoutLoss`: if crashes lose no turns (`~LosesTurns`), `Spec`
  implies `[]NeverAccused`. The assumption is needed, see the divergences above.

`PaceBound` is not inductive alone. A member that has loaded follows from the
step it reports, however low, so it starts within its window only because
nothing was sealed while it loaded; `PInv` is therefore the types,
`LoadingHolds` and `PaceBound` together. A member that catches up starts to
follow only within the window, the pacer extends the frontier no further than
the slowest's window (`SlowestIsSlowest`), and the frontier does not move
otherwise: `PacesKept` says what a step that leaves it may do to the paces.
`NeverAccused` needs `Behind`: no turn a game knows, no report and no world on
its way is past the frontier, which never falls unless turns are lost.

`WorldsProofs` proves, for every set of players and of snapshots, every queue, and any
number of steps and restarts:

* `WorldsInvariant`, `WorldsTypeCorrect`, `TogetherAlways`, `RoomKnowsAlways`,
  `NeverStrandedAlways`: `Spec` implies `[]WInv`, `[]TypeOK`, `[]Together`, `[]RoomKnows`,
  `[]NeverStranded`.

`Together` is about members whose queues are empty, and a world is handed out while others are
on their way, so `WInv` speaks of the world a player comes to play once it has read and fetched
what is on its way (`Comes`): all the room vouches for come to play one, the one it
noted of them (`PlayersOK`). Handing a world out makes it that world (`OfferKeeps`). The
only assumption is `ConstantsAssumption`.

`RingProofs` proves, for every capacity that divides the value the counters wrap at, every
prefix and any messages:

* `RingInvariant`, `RingTypeCorrect`, `NeverTornAlways`, `WritesOnlyFreeBytesAlways`: `Spec`
  implies `[]RInv`, `[]TypeOK`, `[]NeverTorn`, `[]WritesOnlyFreeBytes`.
* `RingIsAChannel`: every step of the ring is a step of `Channel` or a stutter.

`RInv` says where the frame of each message lies that was pushed and not popped, and what a push or
a pop under way has copied. It rests on facts about remainders: a counter keeps its
place when it wraps, and counters less than a capacity apart have different places.

`DrainProofs` proves, for any number of turns, stops and failing steps:

* `DrainInvariant`, `DrainTypeCorrect`, `TurnsKeptAlways`, `HasItsWorldAlways`: `Spec` implies
  `[]DInv`, `[]TypeOK`, `[]TurnsKept`, `[]HasItsWorld`.

They need no more than `DrainAssumption` and that `None` is no value (`NoneAssumption`); what
`HasItsWorld` excepts is in its formula. A log moves through directories and both
servers by renames, each of which may be the last step before a stop, so `DInv` says of each
place what it holds at every stage: of whatever players were sent, that it is with the older
server or away from it (`KeptOK`, `IsAway`); of an export, that it is the game's as it is
now, unless the game went on, and away once published (`ExportOK`), so that the
older server lets go only of what is elsewhere; of a hand-over, that the world its log needs is
beside it and named by a pointer that goes ahead of it (`HandedOK`, `TakingOK`); and
that this world is in the store from its ingestion on, or was let go of (`WorldOK`).

`CheckpointsProofs` proves of the vote (`Verdict`), for any number of reports of any
digests, that at most one digest of a lane has a strict majority
(`MajorityIsUnique`), it wins (`MajorityWins`), and a strict majority that
reports the same lanes decides the round and is not found to diverge
(`HealthyMajorityDecides`). The argument is that two majorities share a report.
What happens without a majority, where the anchor decides, is left to TLC. Of the
room, for any players, worlds, steps, bound on open rounds and number of losses:

* `RoomInvariant`: `Spec => []RoomInv`; `TypesCorrect`, `NobodyIsUntold`,
  `LikeWithLike`: `Spec` implies `[]TypeOK`, `[]NobodyUntold`,
  `[]ComparesLikeWithLike`.

`RoomInv` is the types, the bounds on rounds and queues, and that everyone who differs
from a verdict was told (`AllTold`). `ComparesLikeWithLike` rests on what all members
play. `AlikeInv` says that as long as no game is faulty and no report crossed a world,
nobody was told anything, and there are one world and one step such that every
member that is not owed a world plays that world or has it on its way, its reports
of that world are past that step, and a round past that step has only that world's digests
(`PlaysOne`, `Compares`). What reports are of another world is of rounds up to that
step, or never counted. `Behind` adds what handing out a world relies on: nothing
is on its way to a member that is away, and games and reports of the current world are
past where it was saved. Then all reports of a round are alike (`Unanimous`), and forgetting,
offering and taking a report keep it (`ForgottenAlike`, `OfferAlike`,
`TakenAlike`). This invariant was not inductive at first: in the model a member
whose connection the room gives up kept its further reports on their way.
The room drops that connection, so they are lost, and the module now says so.

`SavesProofs` proves, for every set of players and of snapshots, any number of
uploads, releases and restarts, and with or without connections that end abruptly:

* `HoldsBalance`, `TypesCorrect`, `WorldsKept`, `WorldsAgreed`: `Spec` implies
  `[]SavesInv`, `[]TypeOK`, `[]KeptWhileUsed`, `[]AgreedWorlds`.
* `NoneTaken`: no hold is given back that another still counts on: the holders of
  a snapshot are never more than the holds the store counts.
* `HoldsComeOut`: if no connection ends abruptly (`~Abrupt`), `Spec` implies
  `[]HoldsAccounted`, where they are as many. With `Abrupt` it is false, see above.

`SavesInv` has four parts: what the room's fields can be together (`RoomOK`; slots and
the start world hold the save that was reported), the types of what its other tasks hold
(`TasksOK`), the balance (`Accounted`: the holders are at most the holds, and as
many unless `Abrupt`), and that the store has every world of a slot, of the lobby
and of a result on its way to the room (`Retained`). `KeptWhileUsed` is not
inductive without the balance: a snapshot found unheld is dropped a step later, and
only because it has no holder is it in none of these. Every action adds to
some kinds of holders, takes from others, and changes the count; the proof has a lemma for
each of these changes, and the balance follows by arithmetic.

`BridgeProofs` proves, for every history, interval of checkpoints, size of the link
and of the outbox, and any number of worlds handed out and of losses:

* `BridgeInvariant`, `TypesCorrect`, `NothingRefusedAlways`, `ReadyMeansLoadedAlways`,
  `ReportsOfThisWorldAlways`: `Spec` implies `[]BridgeInv`, `[]TypeOK`,
  `[]NothingRefused`, `[]ReadyMeansLoaded`, `[]ReportsOfThisWorld`.
* `BridgeIsPlaying`: `Spec => Played!Spec`. A game only loads worlds the
  history passes through, and plays its events and steps in order.

Neither process sees the other's state, so none of these is inductive, and `BridgeInv`
is about what lies between them. What the hook has peeked, the link and the outbox
are one queue (`Forth`), and each message of it says where it leads. `GoesOn`: this
queue leads from where the game was told to go (`LedTo`) to where the agent stands,
and the gate accepts just such messages. What the hook has yet to send, the link
and the messages held while away are another (`Back`). `NumbersOK`:
the loads messages are about never fall along both queues and the game between
them, and a load comes before all that is about it (`Rises`, `Within`). `AnswersOK`: the loads
the agent waits to have answered are exactly those on these queues or in the hook.
So an answer can only be the one the agent waits for first; when the last was
answered, the game and all on its way back are of the load ordered last (`AgentKnows`).
`CountsOK` bounds what the agent numbers. The only assumption is
`BridgeAssumption`: the constants have their types, and `None` is no position and no
message. `Pump`'s messages are a recursive function of where it starts (`Sent`),
proved to lead on from there by induction.

Two definitions were wrong and the proof showed it. The agent's fetches were
numbered by counting offers and losses, so one that was offered again while it was away
could share a number with an earlier one; `attempts` is now the agent's own counter
(`bridge.rs:1934`). And `OnReport` chose among overlapping cases, so which one applied to
a report of a world given up was left open; it now asks first whether the world is
loaded, as `read_hook` does.

Only model-checked: what a vote decides without a majority; and liveness (`Served`, `RoomGoesOn`, `UploadsEnd`,
`MovesOver`, and the fair halves of `IsPlaying` and `IsChannel`), since
the prover does not reason about `ENABLED`. No module a proof rests on uses
`RECURSIVE`. What a recursive function computes is proved by induction on the
naturals, which the library's theorems with an operator parameter do not
give here; its theorem on least elements of a set (`WFMin`) does: the set of
arguments that fail has a least one (`Least`, `Induction`). So `OfSome` and
`InOrderSeq` are proved about the order in which `Checkpoints` and `Saves` take a
set's members. Where it can be avoided it is: that a chain's numbers never fall,
or where a frame starts, is part of an invariant.

## Not modelled

Encodings, checksums, authentication, framing and TLS (I/O; a record is whole
or absent, as `LogReader` treats it); the content of snapshots (chunks, hashes:
a snapshot is its identity); in the room, bans, ready flags, content agreement,
invites and AI drivers (one task, without interleaving; `Saves` has the members,
the owner and the world the game starts from); admission and the playout
buffer (planned, below); the link's header, attaching and heartbeats; the hook's
commands, speed, chat and previews; the economy (arithmetic too
wide for TLC, tested against its reference); the hook's detours, launcher, native
mods, big map, scanner and tools (the process memory of a game whose source is not
here, files, user interface). Most of the repository's lines are of these last
parts. `PROJECT.json` lists every component with its reason.

## Plan

Done: `TurnLog`, `Worlds`, `Pacing`, `Verdict`, `Checkpoints`, `Saves`, `Drain`,
`Bridge` over `Playing`, `Ring` over `Channel`; proofs of the safety of all of them,
of both refinements, and of the votes.

Left, in this order:

1. An abstract specification, a tree of turns in which every client walks one
   branch, implemented by `TurnLog` under a refinement mapping.
2. `Lobby`: seats, bans, ready flags, content, AI drivers.
3. `Playout` and `Admission`, small and sequential.
