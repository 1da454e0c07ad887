------------------------------- MODULE Bridge -------------------------------
(***************************************************************************)
(* One player's agent and the hook in its game, between the room's turn    *)
(* stream and the game's world (crates/tpf3mp-agent bridge.rs,             *)
(* crates/tpf3mp-bridge gate.rs and session.rs).                           *)
(*                                                                         *)
(* The agent takes turns from the room, plays them out to the hook as      *)
(* events and releases of steps, and has the hook load another world when  *)
(* the room hands it one.  The two are separate processes joined by two    *)
(* bounded queues (`Channel`, which `Ring` implements), so each hears of   *)
(* what the other did only later: the game may still run steps of a world  *)
(* the agent has given up, and finish loads nobody wants any more.         *)
(*                                                                         *)
(* A position counts the entries of the room's history; a message carries  *)
(* the position it leads to.  `of` is the number of the load a message is  *)
(* about; neither process can see it, only the properties do.              *)
(***************************************************************************)
EXTENDS Integers, Sequences, FiniteSets

CONSTANTS
    Log,          \* the room's history: "event", "save" and "step"
    Interval,     \* checkpoint_interval, in steps
    LinkSize,     \* messages a direction of the link holds
    OutboxLimit,  \* OUTBOX_BYTES: messages after which the agent takes no more
    HeldLimit,    \* MAX_HELD: messages it reads of the hook while away
    None,
    MaxWorlds,    \* bound on worlds the room hands out of its own accord
    MaxLosses     \* bound on lost connections and on fetches that fail

ASSUME BridgeAssumption ==
    /\ Log \in Seq({"event", "save", "step"})
    /\ Interval \in Nat \ {0} /\ LinkSize \in Nat \ {0}
    /\ OutboxLimit \in Nat \ {0} /\ HeldLimit \in Nat
    /\ MaxWorlds \in Nat /\ MaxLosses \in Nat
    /\ None \notin 0..Len(Log)
    /\ None \notin [kind : {"Apply", "Release", "Load"}, at : 0..Len(Log), of : Nat]
    /\ None \notin [at : 0..Len(Log), of : Nat]

VARIABLES
    conn,      \* "streaming", "joined" before its turn stream, or "away"
    follower,  \* TurnFollower: the positions played out and received
    world,     \* Bridge::world: Ready, Loading or Fetching, and what
    outbox,    \* Bridge::outbox
    sentLoads, \* Bridge::sent_loads: loads the hook has yet to answer
    orders,    \* Bridge::load_generation
    attempts,  \* Bridge::attempts
    progress, reported,  \* how far the game got, and what the room was told
    held,      \* Bridge::held: what the hook said while the agent was away
    tasks,     \* work off the bridge's task, and results of it not yet taken
    toHook, toAgent,     \* the link
    gate,      \* the hook's Gate
    hook,      \* the hook's Session: what waits, and what it has yet to send
    game,      \* the position the game's world is at, and the load it is from
    astray,    \* the kinds of reports sent of another world than is played
    fault,     \* whether either end refused a message
    used       \* worlds offered and losses so far

agent == <<conn, follower, world, outbox, sentLoads, orders, attempts, progress,
           reported, held, tasks, astray, used>>
theHook == <<gate, hook, game>>
vars == <<agent, theHook, toHook, toAgent, fault>>

StepsIn(p) == Cardinality({i \in 1..p : Log[i] = "step"})
PositionOf(n) == CHOOSE p \in DOMAIN Log : Log[p] = "step" /\ StepsIn(p) = n

\* The game alone, without what lies between it and the room.
Played == INSTANCE Playing WITH at <- game.at

Message(kind, p, load) == [kind |-> kind, at |-> p, of |-> load]
Ready == [is |-> "Ready"]
Loading(p) == [is |-> "Loading", at |-> p]
Fetching(p, attempt) == [is |-> "Fetching", at |-> p, attempt |-> attempt]

\* The load whose world the agent takes the game to be playing.
Plays == IF world = Ready THEN orders ELSE None

\* A report of what the game did goes to the room.
Reports(kind, load) == astray' = astray \cup (IF load = Plays THEN {} ELSE {kind})

\* The room's game begins: every player loads the world it starts from.
Init ==
    /\ conn = "streaming"
    /\ follower = [taken |-> 0, got |-> 0]
    /\ world = Loading(0)
    /\ outbox = <<Message("Load", 0, 1)>> /\ sentLoads = <<>>
    /\ orders = 1 /\ attempts = 0
    /\ progress = None /\ reported = None
    /\ held = <<>> /\ tasks = {}
    /\ toHook = <<>> /\ toAgent = <<>>
    /\ gate = [next |-> 1, released |-> 0, loading |-> FALSE]
    /\ hook = [load |-> None, save |-> None, peeked |-> None, out |-> <<>>]
    /\ game = [at |-> None, of |-> 0]
    /\ astray = {} /\ fault = FALSE
    /\ used = [worlds |-> 0, losses |-> 0]
-----------------------------------------------------------------------------
(* The agent: what comes from the room                                     *)

IsFull == Len(outbox) >= OutboxLimit

\* TurnFollower::accept: the next entry of the stream.
Turn ==
    /\ conn = "streaming" /\ ~IsFull
    /\ follower.got < Len(Log)
    /\ follower' = [follower EXCEPT !.got = @ + 1]
    /\ UNCHANGED <<conn, world, outbox, sentLoads, orders, attempts, progress, reported, held,
                   tasks, astray, used, theHook, toHook, toAgent, fault>>

\* What void_world leaves of the outbox: nothing that is about the world given
\* up, and nothing else that goes to the hook is modelled.
Voided == <<>>

\* (mutant) How far the old world got is kept.
FetchWorldKeeps(p) ==
    /\ conn' = "streaming"
    /\ follower' = [taken |-> p, got |-> p]
    /\ attempts' = attempts + 1
    /\ world' = Fetching(p, attempts')
    /\ tasks' = tasks \cup {[kind |-> "Fetch", attempt |-> attempts']}
    /\ outbox' = Voided
    /\ reported' = None
    /\ UNCHANGED <<sentLoads, orders, progress, held, astray, theHook, toHook, toAgent, fault>>

\* A turn stream that starts from a world: fetch_world.
FetchWorld(p) ==
    /\ conn' = "streaming"
    /\ follower' = [taken |-> p, got |-> p]
    /\ attempts' = attempts + 1
    /\ world' = Fetching(p, attempts')
    /\ tasks' = tasks \cup {[kind |-> "Fetch", attempt |-> attempts']}
    /\ outbox' = Voided
    /\ progress' = None /\ reported' = None
    /\ UNCHANGED <<sentLoads, orders, held, astray, theHook, toHook, toAgent, fault>>

\* The room hands this player another world: it was found diverged, or
\* somebody else was handed one.
OfferWorld(p) ==
    /\ conn = "streaming" /\ ~IsFull
    /\ used.worlds < MaxWorlds
    /\ used' = [used EXCEPT !.worlds = @ + 1]
    /\ FetchWorld(p)

\* The connection ends; the agent rejoins for the room (rejoin_room).
Lose ==
    /\ conn # "away" /\ used.losses < MaxLosses
    /\ conn' = "away"
    /\ used' = [used EXCEPT !.losses = @ + 1]
    /\ UNCHANGED <<follower, world, outbox, sentLoads, orders, attempts, progress, reported,
                   held, tasks, astray, theHook, toHook, toAgent, fault>>

\* resume_point: a player that is fetching a world asks for one again.  So does
\* one whose resume is refused; that it joins afresh is not told apart from
\* its resuming here, and the world it is offered then is an OfferWorld.
Rejoin ==
    /\ conn = "away"
    /\ IF world.is = "Fetching" THEN conn' = "joined" /\ UNCHANGED reported
       ELSE conn' = "streaming" /\ reported' = None
    /\ UNCHANGED <<follower, world, outbox, sentLoads, orders, attempts, progress, held,
                   tasks, astray, used, theHook, toHook, toAgent, fault>>

OfferAgain(p) ==
    /\ conn = "joined" /\ ~IsFull
    /\ UNCHANGED used
    /\ FetchWorld(p)
-----------------------------------------------------------------------------
(* The agent: worlds                                                       *)

\* on_done(Fetched): an attempt given up since is nobody's.  order_load.
Fetched(attempt) ==
    /\ conn # "away"
    /\ [kind |-> "Fetch", attempt |-> attempt] \in tasks
    /\ tasks' = tasks \ {[kind |-> "Fetch", attempt |-> attempt]}
    /\ IF world.is = "Fetching" /\ world.attempt = attempt
       THEN /\ orders' = orders + 1
            /\ outbox' = Append(Voided, Message("Load", world.at, orders'))
            /\ world' = Loading(world.at)
            /\ progress' = None
       ELSE UNCHANGED <<orders, outbox, world, progress>>
    /\ UNCHANGED <<conn, follower, sentLoads, reported, held, astray, attempts, used, theHook,
                   toHook, toAgent, fault>>

\* (mutant) The agent waits for a world that does not come.
FetchFailsQuietly ==
    /\ conn # "away" /\ used.losses < MaxLosses
    /\ world.is = "Fetching"
    /\ [kind |-> "Fetch", attempt |-> world.attempt] \in tasks
    /\ tasks' = tasks \ {[kind |-> "Fetch", attempt |-> world.attempt]}
    /\ used' = [used EXCEPT !.losses = @ + 1]
    /\ UNCHANGED <<conn, follower, world, outbox, sentLoads, orders, attempts, progress,
                   reported, held, astray, theHook, toHook, toAgent, fault>>

\* The world could not be had: the agent rejoins for another
\* (BridgeEnd::WorldUnavailable).
FetchFails ==
    /\ conn # "away" /\ used.losses < MaxLosses
    /\ world.is = "Fetching"
    /\ [kind |-> "Fetch", attempt |-> world.attempt] \in tasks
    /\ tasks' = tasks \ {[kind |-> "Fetch", attempt |-> world.attempt]}
    /\ conn' = "away"
    /\ used' = [used EXCEPT !.losses = @ + 1]
    /\ UNCHANGED <<follower, world, outbox, sentLoads, orders, attempts, progress, reported,
                   held, astray, theHook, toHook, toAgent, fault>>

\* on_done(Ingested): the save is taken into the store and reported.
Ingested(task) ==
    /\ conn # "away"
    /\ task \in tasks /\ task.kind = "Ingest"
    /\ tasks' = tasks \ {task}
    /\ Reports("Saved", task.of)
    /\ UNCHANGED <<conn, follower, world, outbox, sentLoads, orders, attempts, progress,
                   reported, held, used, theHook, toHook, toAgent, fault>>
-----------------------------------------------------------------------------
(* The agent: what goes to the hook                                        *)

\* What pump has to send once it takes entry p too: an event is applied, and
\* steps with no events between them go out as one release.
SendsToo(sent, p) ==
    IF Log[p] # "step" THEN Append(sent, Message("Apply", p, orders))
    ELSE IF sent # <<>> /\ sent[Len(sent)].kind = "Release"
         THEN [sent EXCEPT ![Len(sent)] = Message("Release", p, orders)]
         ELSE Append(sent, Message("Release", p, orders))

\* What it has to send for the entries after `from`, up to each.
Sent(from) ==
    LET sent[p \in from..Len(Log)] == IF p = from THEN <<>> ELSE SendsToo(sent[p - 1], p)
    IN sent

\* (mutant) It never is.
FullAtNever(to) == FALSE

\* Whether the outbox is full once the entries up to `to` were taken: a run
\* of steps is not sent before the next event.
FullAt(to) ==
    LET sent == Len(Sent(follower.taken)[to]) IN
    Len(outbox) + sent - (IF sent > 0 /\ Log[to] = "step" THEN 1 ELSE 0) >= OutboxLimit

\* (mutant) Turns go out while the world they continue is being fetched.
PumpAhead ==
    /\ conn # "away"
    /\ \E to \in (follower.taken + 1)..follower.got :
        /\ \A p \in follower.taken..(to - 1) : ~FullAt(p)
        /\ to < follower.got /\ ~FullAt(to) => Log[to + 1] = "step"
        /\ outbox' = outbox \o Sent(follower.taken)[to]
        /\ follower' = [follower EXCEPT !.taken = to]
    /\ UNCHANGED <<conn, world, sentLoads, orders, attempts, progress, reported, held, tasks,
                   astray, used, theHook, toHook, toAgent, fault>>

\* pump: plays out what is due.  An event waits for the step before it, and
\* a step for its time.
Pump ==
    /\ conn # "away" /\ world.is # "Fetching"
    /\ \E to \in (follower.taken + 1)..follower.got :
        /\ \A p \in follower.taken..(to - 1) : ~FullAt(p)
        /\ to < follower.got /\ ~FullAt(to) => Log[to + 1] = "step"
        /\ outbox' = outbox \o Sent(follower.taken)[to]
        /\ follower' = [follower EXCEPT !.taken = to]
    /\ UNCHANGED <<conn, world, sentLoads, orders, attempts, progress, reported, held, tasks,
                   astray, used, theHook, toHook, toAgent, fault>>

\* flush: a load that goes out is one the hook will answer.
Flush ==
    /\ outbox # <<>> /\ Len(toHook) < LinkSize
    /\ toHook' = Append(toHook, Head(outbox))
    /\ outbox' = Tail(outbox)
    /\ IF Head(outbox).kind = "Load"
       THEN sentLoads' = Append(sentLoads, [at |-> Head(outbox).at, of |-> orders])
       ELSE UNCHANGED sentLoads
    /\ UNCHANGED <<conn, follower, world, orders, attempts, progress, reported, held, tasks,
                   astray, used, theHook, toAgent, fault>>
-----------------------------------------------------------------------------
(* The agent: what comes from the hook                                     *)

\* away: what the hook says is kept for when the room is back.
Hold ==
    /\ conn = "away"
    /\ toAgent # <<>> /\ Len(held) < HeldLimit
    /\ held' = Append(held, Head(toAgent))
    /\ toAgent' = Tail(toAgent)
    /\ UNCHANGED <<conn, follower, world, outbox, sentLoads, orders, attempts, progress,
                   reported, tasks, astray, used, theHook, toHook, fault>>

\* (mutant) Any load that starts at the right step will do.
OnLoadedAny(m) ==
    /\ fault' = (fault \/ sentLoads = <<>> \/ Head(sentLoads).at # m.at)
    /\ sentLoads' = IF sentLoads = <<>> THEN <<>> ELSE Tail(sentLoads)
    /\ IF ~fault' /\ world = Loading(m.at)
       THEN /\ world' = Ready
            /\ progress' = [at |-> m.at, of |-> m.of] /\ reported' = progress'
       ELSE UNCHANGED <<world, progress, reported>>
    /\ UNCHANGED <<tasks, astray>>

\* Loaded: current_load_ack takes the answers in the order the loads went
\* out, and only the last one ordered makes the world playable.  A report of
\* it that fails on the way ends the connection, and is taken as made here.
OnLoaded(m) ==
    /\ fault' = (fault \/ sentLoads = <<>> \/ Head(sentLoads).at # m.at)
    /\ sentLoads' = IF sentLoads = <<>> THEN <<>> ELSE Tail(sentLoads)
    /\ IF ~fault' /\ Head(sentLoads).of = orders /\ world = Loading(m.at)
       THEN /\ world' = Ready
            /\ progress' = [at |-> m.at, of |-> m.of] /\ reported' = progress'
       ELSE UNCHANGED <<world, progress, reported>>
    /\ UNCHANGED <<tasks, astray>>

\* Ran, Checkpoint and Saved describe the room's world only while the game
\* plays it.
OnReport(m) ==
    /\ IF world # Ready THEN UNCHANGED <<progress, tasks, astray>>
       ELSE CASE m.kind = "Ran" -> /\ progress' = [at |-> m.at, of |-> m.of]
                                   /\ UNCHANGED <<tasks, astray>>
              [] m.kind = "Checkpoint" -> Reports(m.kind, m.of) /\ UNCHANGED <<progress, tasks>>
              [] m.kind = "Saved" -> /\ tasks' = tasks \cup {[kind |-> "Ingest", of |-> m.of]}
                                     /\ UNCHANGED <<progress, astray>>
    /\ UNCHANGED <<world, sentLoads, reported, fault>>

\* read_hook: what was held while away comes first.
ReadHook ==
    /\ conn # "away"
    /\ IF held # <<>> THEN held' = Tail(held) /\ UNCHANGED toAgent
       ELSE toAgent # <<>> /\ toAgent' = Tail(toAgent) /\ UNCHANGED held
    /\ LET m == IF held # <<>> THEN Head(held) ELSE Head(toAgent) IN
       IF m.kind = "Loaded" THEN OnLoaded(m) ELSE OnReport(m)
    /\ UNCHANGED <<conn, follower, outbox, orders, attempts, used, theHook, toHook>>

\* report_progress: now and then, and at once on a new stream.
ReportProgress ==
    /\ conn # "away" /\ progress # None
    /\ reported # None => progress.at > reported.at
    /\ reported' = progress
    /\ Reports("Progress", progress.of)
    /\ UNCHANGED <<conn, follower, world, outbox, sentLoads, orders, attempts, progress, held,
                   tasks, used, theHook, toHook, toAgent, fault>>
-----------------------------------------------------------------------------
(* The hook                                                                *)

MayRun == ~gate.loading /\ gate.released >= gate.next
\* Nothing the game must do first, and nothing left to send.
Free == hook.load = None /\ hook.save = None /\ hook.out = <<>>

\* Session::try_recv.
Incoming == IF hook.peeked # None THEN hook.peeked ELSE Head(toHook)
HasIncoming == hook.peeked # None \/ toHook # <<>>
Take == IF hook.peeked # None THEN UNCHANGED toHook ELSE toHook' = Tail(toHook)

\* Whether Gate::on_message refuses a message.
Refuses(m) ==
    \/ gate.loading
    \/ m.kind = "Apply" /\ (StepsIn(m.at) + 1 # gate.next \/ gate.released >= gate.next)
    \/ m.kind = "Release" /\ StepsIn(m.at) < gate.released

\* Session::handle.
Handle(m) ==
    /\ Take
    /\ fault' = (fault \/ Refuses(m))
    /\ gate' = IF Refuses(m) THEN gate
               ELSE IF m.kind = "Release" THEN [gate EXCEPT !.released = StepsIn(m.at)]
               ELSE IF m.kind = "Load" THEN [gate EXCEPT !.loading = TRUE]
               ELSE gate
    /\ hook' = [hook EXCEPT !.peeked = None,
                            !.load = IF m.kind = "Load" THEN m ELSE @,
                            !.save = IF m.kind = "Apply" /\ Log[m.at] = "save" THEN m ELSE @]
    /\ game' = IF m.kind = "Apply" THEN [game EXCEPT !.at = m.at] ELSE game

\* poll_step, while the game may not run its next step.
PollStep ==
    /\ Free /\ ~MayRun /\ HasIncoming
    /\ Handle(Incoming)
    /\ UNCHANGED <<agent, toAgent>>

\* read_ahead and batch, once the game may: further releases are read, and
\* the first message that must wait for the released steps is kept.
ReadAhead ==
    /\ Free /\ MayRun /\ hook.peeked = None /\ toHook # <<>>
    /\ IF Head(toHook).kind = "Release" THEN Handle(Head(toHook))
       ELSE /\ hook' = [hook EXCEPT !.peeked = Head(toHook)]
            /\ toHook' = Tail(toHook)
            /\ UNCHANGED <<gate, game, fault>>
    /\ UNCHANGED <<agent, toAgent>>

\* stage_actions, after a batch: the events of the next step, before it is
\* released; whatever else comes is kept.
StageActions ==
    /\ Free /\ ~MayRun /\ ~gate.loading /\ HasIncoming
    /\ IF Incoming.kind = "Apply" /\ Log[Incoming.at] = "event" THEN Handle(Incoming)
       ELSE /\ hook' = [hook EXCEPT !.peeked = Incoming]
            /\ Take
            /\ UNCHANGED <<gate, game, fault>>
    /\ UNCHANGED <<agent, toAgent>>

Say(kind, p) == Message(kind, p, game.of)

\* after_step: the step is reported, at checkpoint steps with its lanes.
RunStep ==
    /\ Free /\ MayRun
    /\ gate' = [gate EXCEPT !.next = @ + 1]
    /\ game' = [game EXCEPT !.at = PositionOf(gate.next)]
    /\ hook' = [hook EXCEPT !.out = <<Say("Ran", game'.at)>>
                    \o (IF gate.next % Interval = 0 THEN <<Say("Checkpoint", game'.at)>> ELSE <<>>)]
    /\ UNCHANGED <<agent, toHook, toAgent, fault>>

\* Session::saved.
Save ==
    /\ hook.out = <<>> /\ hook.save # None
    /\ hook' = [hook EXCEPT !.save = None, !.out = <<Say("Saved", hook.save.at)>>]
    /\ UNCHANGED <<agent, gate, game, toHook, toAgent, fault>>

\* Session::loaded.
Load ==
    /\ hook.out = <<>> /\ hook.save = None /\ hook.load # None
    /\ gate' = [next |-> StepsIn(hook.load.at) + 1, released |-> StepsIn(hook.load.at),
                loading |-> FALSE]
    /\ game' = [at |-> hook.load.at, of |-> hook.load.of]
    /\ hook' = [hook EXCEPT !.load = None,
                            !.out = <<Message("Loaded", hook.load.at, hook.load.of)>>]
    /\ UNCHANGED <<agent, toHook, toAgent, fault>>

\* Session::send: the game waits while the link is full.
HookSends ==
    /\ hook.out # <<>> /\ Len(toAgent) < LinkSize
    /\ toAgent' = Append(toAgent, Head(hook.out))
    /\ hook' = [hook EXCEPT !.out = Tail(@)]
    /\ UNCHANGED <<agent, gate, game, toHook, fault>>
-----------------------------------------------------------------------------
Hook == PollStep \/ ReadAhead \/ StageActions \/ RunStep \/ Save \/ Load \/ HookSends

Next ==
    \/ Turn \/ Lose \/ Rejoin \/ FetchFails
    \/ \E p \in Played!Worlds : OfferWorld(p) \/ OfferAgain(p)
    \/ \E task \in tasks : Ingested(task) \/ (task.kind = "Fetch" /\ Fetched(task.attempt))
    \/ Pump \/ Flush \/ Hold \/ ReadHook \/ ReportProgress
    \/ Hook

Spec == Init /\ [][Next]_vars

\* The agent and the hook poll their queues, the room goes on and offers a
\* world to whoever rejoins without one, and a game that is asked to run,
\* save or load does.
FairSpec ==
    /\ Spec
    /\ WF_vars(Turn) /\ WF_vars(Rejoin) /\ WF_vars(\E p \in Played!Worlds : OfferAgain(p))
    /\ WF_vars(world.is = "Fetching" /\ Fetched(world.attempt))
    /\ WF_vars(Pump) /\ WF_vars(Flush) /\ WF_vars(ReadHook)
    /\ WF_vars(PollStep) /\ WF_vars(RunStep) /\ WF_vars(Save) /\ WF_vars(Load)
    /\ WF_vars(HookSends)
-----------------------------------------------------------------------------
Positions == 0..Len(Log)
Loads == 0..(MaxWorlds + MaxLosses + 1)
Messages == [kind : {"Apply", "Release", "Load", "Loaded", "Ran", "Checkpoint", "Saved"},
             at : Positions, of : Loads]
Progress == {None} \cup [at : Positions, of : Loads]

\* The queues keep to their bounds: the agent stops taking turns and playing
\* them out while the hook is behind.
TypeOK ==
    /\ conn \in {"streaming", "joined", "away"}
    /\ follower.taken \in Positions /\ follower.got \in follower.taken..Len(Log)
    /\ world \in {Ready} \cup {Loading(p) : p \in Positions}
                \cup {Fetching(p, n) : p \in Positions, n \in 1..attempts}
    /\ tasks \subseteq [kind : {"Fetch"}, attempt : 1..attempts]
                    \cup [kind : {"Ingest"}, of : Loads]
    /\ outbox \in Seq(Messages) /\ Len(outbox) <= OutboxLimit + 1
    /\ sentLoads \in Seq([at : Positions, of : Loads])
    /\ orders \in Loads /\ attempts \in 0..(MaxWorlds + MaxLosses)
    /\ progress \in Progress /\ reported \in Progress
    /\ held \in Seq(Messages) /\ Len(held) <= HeldLimit
    /\ toHook \in Seq(Messages) /\ Len(toHook) <= LinkSize
    /\ toAgent \in Seq(Messages) /\ Len(toAgent) <= LinkSize
    /\ gate.next \in Nat /\ gate.released \in Nat /\ gate.loading \in BOOLEAN
    /\ hook.load \in {None} \cup Messages /\ hook.save \in {None} \cup Messages
    /\ hook.peeked \in {None} \cup Messages
    /\ hook.out \in Seq(Messages) /\ Len(hook.out) <= 2
    /\ game.at \in {None} \cup Positions /\ game.of \in Loads
    /\ astray \subseteq {"Progress", "Checkpoint", "Saved"}
    /\ fault \in BOOLEAN

\* Neither side ever gets a message it refuses, which would end the game for
\* good: no event for another step or after its step was released, nothing
\* while a world loads, no release that goes back (gate.rs:158), and no
\* answer to a load nobody ordered (bridge.rs:2118).
NothingRefused == ~fault

\* Once the agent takes the room's world as loaded, the game plays that one,
\* not one ordered before from the same step (bridge.rs:2111).
ReadyMeansLoaded == world = Ready => game.of = orders

\* What the agent reports of steps and checkpoints is of the world the room
\* has this player play; a save's report is exempt, which the agent makes when the
\* save is stored, whatever it plays by then (bridge.rs:983, bridge.rs:1749).
ReportsOfThisWorld == astray \subseteq {"Saved"}

\* Whatever the agent buffers, voids, resumes or has reloaded, the game plays
\* the room's history in order from the worlds it loads, and to its end.
IsPlaying == Played!FairSpec
=============================================================================
