------------------------------- MODULE Pacing -------------------------------
(***************************************************************************)
(* The clock of a running room (crates/tpf3mp-server pacing.rs and the     *)
(* pacing half of room.rs), with the progress its players report           *)
(* (crates/tpf3mp-agent bridge.rs).                                        *)
(*                                                                         *)
(* The room seals steps as time goes by, but never further than a window   *)
(* past the slowest member that paces it: one that still loads holds the   *)
(* clock, one too far behind, or stalled, does not count until it has      *)
(* caught up.  Progress travels on a stream of its own, so what the room   *)
(* reads may be about a world the player has since been told to replace.   *)
(*                                                                         *)
(* Time is a choice of ticks, and a timeout that may pass at any moment    *)
(* its condition holds.  Who is handed which world is module Worlds, what  *)
(* the turns say module TurnLog.                                           *)
(***************************************************************************)
EXTENDS Integers, Sequences, FiniteSets

CONSTANTS
    Client,      \* members of the room
    Speeds,      \* room speeds: 0 pauses, 1 is normal
    InputDelay,  \* steps the input delay covers at normal speed
    MaxAhead,    \* steps MAX_AHEAD covers at normal speed
    Responsive,  \* members whose games answer (FairSpec only)
    LosesTurns,  \* whether a crash may lose the last turns of the log
    None,        \* an absent value
    QueueLimit,  \* bound: reports on their way from one client
    MaxStep,     \* bound: the furthest frontier
    MaxWorlds,   \* bound: worlds handed out
    MaxCrashes   \* bound: server crashes

ASSUME ConstantsAssumption ==
    /\ IsFiniteSet(Client) /\ Client # {} /\ Responsive \subseteq Client
    /\ Speeds \subseteq Nat /\ 1 \in Speeds /\ IsFiniteSet(Speeds)
    /\ InputDelay \in Nat /\ MaxAhead \in Nat /\ LosesTurns \in BOOLEAN
    /\ None \notin Nat
    /\ QueueLimit \in Nat \ {0} /\ MaxStep \in Nat /\ MaxWorlds \in Nat /\ MaxCrashes \in Nat

VARIABLES
    \* The room.
    sealed,   \* the frontier
    ideal,    \* the pacer's ideal step count
    speed,
    member,   \* per player: linked, streaming, pace
    kept,     \* the room keeps a world it can hand out
    \* The players.
    conn,     \* open, and the world on its way to the player: the step it
              \* stands at, and the frontier when it was sent
    up,       \* progress reports on their way to the room
    game,     \* phase, steps run, steps it may run, last progress reported
    stray,    \* players whose turns a crash took from the room's log
    \* History variables: no code reads them.
    worlds, crashes,
    accused   \* players closed for progress beyond the frontier

clockVars == <<sealed, ideal, speed>>
roomVars == <<clockVars, kept>>
boundVars == <<worlds, crashes>>
vars == <<roomVars, member, conn, up, game, stray, boundVars, accused>>

-----------------------------------------------------------------------------
(* The pacer                                                               *)

Least(S) == CHOOSE x \in S : \A y \in S : x <= y
Larger(x, y) == IF x > y THEN x ELSE y
Smaller(x, y) == IF x < y THEN x ELSE y

Lead(at) == IF at = 0 THEN 0 ELSE Larger(InputDelay * at, 1)
\* Never less than at normal speed.
Window(at) == LET pace == Larger(at, 1) IN Lead(pace) + MaxAhead * pace

\* (mutant) The room runs ahead of its slowest member.
FrontierUncapped(clock, slowest) == Larger(clock + Lead(speed), sealed)
\* Pacer::advance, with `clock` the ideal step count after the time passed.
Frontier(clock, slowest) ==
    Larger(Smaller(clock + Lead(speed), slowest + Window(speed)), sealed)
Held(clock, slowest) ==
    IF clock + Lead(speed) > slowest + Window(speed)
    THEN Smaller(clock, Larger(slowest + Window(speed) - Lead(speed), 0))
    ELSE clock

-----------------------------------------------------------------------------
(* Members                                                                 *)

Loading == [kind |-> "loading", step |-> 0]
Following(step) == [kind |-> "following", step |-> step]
\* The progress a member that catches up reported is shown to nobody here.
CatchingUp == [kind |-> "catchingUp", step |-> 0]

HoldsClock(m) == m.streaming \/ (m.pace = Loading /\ m.linked)
\* The members that pace the room; the clock is held by one that loads, and
\* when nobody follows.
Pacers == {c \in Client : HoldsClock(member[c]) /\ member[c].pace # CatchingUp}
\* (mutant) Members that load do not hold the clock.
RunsWhileLoading == \E c \in Pacers : member[c].pace # Loading
Runs == Pacers # {} /\ \A c \in Pacers : member[c].pace # Loading
Slowest == Least({member[c].pace.step : c \in {k \in Pacers : member[k].pace # Loading}})

\* (mutant) A connection given up leaves its turn stream marked open.
GoneStreams(m) == [m EXCEPT !.linked = FALSE, !.pace = CatchingUp]
\* The member's seat once the room gave its connection up.
Gone(m) == [m EXCEPT !.linked = FALSE, !.streaming = FALSE, !.pace = CatchingUp]

\* What a report does to a member's pace.
Paced(pace, step) ==
    CASE pace.kind = "loading" -> Following(step)
      [] pace.kind = "following" -> Following(Larger(pace.step, step))
      [] pace.kind = "catchingUp" ->
            IF step + Window(speed) >= sealed THEN Following(step) ELSE CatchingUp

-----------------------------------------------------------------------------
(* A game has just started on a server that keeps snapshots: the owner     *)
(* loads its own world, the others wait to be handed it; or the room was   *)
(* given a world to start from, and all wait for that.                     *)

NoWorld == [phase |-> "none", ran |-> 0, knows |-> 0, reported |-> None]
LoadsFrom(step) == [phase |-> "loading", ran |-> step, knows |-> step, reported |-> None]
NoConn == [open |-> FALSE, world |-> None]
NewConn == [open |-> TRUE, world |-> None]

Init ==
    /\ sealed = 0 /\ ideal = 0 /\ speed = 1
    /\ \E first \in SUBSET Client :
        /\ Cardinality(first) <= 1 /\ kept = (first = {})
        /\ member = [c \in Client |->
                [linked |-> TRUE, streaming |-> c \in first, pace |-> Loading]]
        /\ game = [c \in Client |-> IF c \in first THEN LoadsFrom(0) ELSE NoWorld]
    /\ conn = [c \in Client |-> NewConn]
    /\ up = [c \in Client |-> <<>>]
    /\ stray = {} /\ worlds = 0 /\ crashes = 0 /\ accused = {}

-----------------------------------------------------------------------------
(* The room                                                                *)

\* advance_and_seal, `whole` steps of time after the last.
Tick(whole) ==
    /\ Runs
    /\ LET clock == IF speed = 0 THEN ideal ELSE ideal + whole * speed IN
        /\ clock <= MaxStep
        /\ sealed' = Frontier(clock, Slowest) /\ sealed' <= MaxStep
        /\ ideal' = Held(clock, Slowest)
    /\ UNCHANGED <<speed, kept, member, conn, up, game, stray, boundVars, accused>>

SetSpeed ==
    /\ speed' \in Speeds \ {speed}
    /\ UNCHANGED <<sealed, ideal, kept, member, conn, up, game, stray, boundVars, accused>>

\* (mutant) A member that followed is waited for.
DemoteLoading(c) ==
    /\ HoldsClock(member[c]) /\ speed # 0
    /\ member[c].pace = Loading
    /\ member' = [member EXCEPT ![c].pace = CatchingUp]
    /\ UNCHANGED <<roomVars, conn, up, game, stray, boundVars, accused>>
\* demote_stalled: a member with sealed steps to run has not moved for the
\* stall timeout, or one still loads after the load timeout.  The timers of a
\* paused room do not run.
Demote(c) ==
    /\ HoldsClock(member[c]) /\ speed # 0
    /\ \/ member[c].pace = Loading
       \/ member[c].pace.kind = "following" /\ member[c].pace.step < sealed
    /\ member' = [member EXCEPT ![c].pace = CatchingUp]
    /\ UNCHANGED <<roomVars, conn, up, game, stray, boundVars, accused>>

\* progress: the room reads a report.  One from a connection it has given up
\* changes nothing; one beyond the frontier closes the connection, for good.
Progress(c) ==
    /\ up[c] # <<>>
    /\ up' = [up EXCEPT ![c] = Tail(@)]
    /\ LET step == Head(up[c]) IN
        \/ /\ ~member[c].linked
           /\ UNCHANGED <<member, accused>>
        \/ /\ member[c].linked /\ step > sealed
           /\ member' = [member EXCEPT ![c] = Gone(@)]
           /\ accused' = accused \cup {c}
        \/ /\ member[c].linked /\ step <= sealed
           /\ member' = [member EXCEPT ![c].pace = Paced(@, step)]
           /\ UNCHANGED accused
    /\ UNCHANGED <<roomVars, conn, game, stray, boundVars>>

\* offer_worlds, as far as the clock is concerned: a world saved at step `at`
\* goes out to a member.  The first one is saved by a game that plays.
HandWorld(c, at) ==
    /\ member[c].linked /\ conn[c].world = None
    /\ kept \/ \E k \in Client : game[k].phase = "playing"
    /\ kept' = TRUE
    /\ worlds < MaxWorlds /\ worlds' = worlds + 1
    /\ member' = [member EXCEPT ![c].streaming = TRUE,
                                ![c].pace = IF @ = Loading THEN @ ELSE CatchingUp]
    /\ conn' = IF conn[c].open
               THEN [conn EXCEPT ![c].world = [at |-> at, sent |-> sealed]] ELSE conn
    /\ UNCHANGED <<clockVars, up, game, stray, crashes, accused>>

Disconnected(c) ==
    /\ member[c].linked
    /\ member' = [member EXCEPT ![c] = Gone(@)]
    /\ UNCHANGED <<roomVars, conn, up, game, stray, boundVars, accused>>

\* A crash ends every connection.
Cut ==
    /\ member' = [c \in Client |-> Gone(member[c])]
    /\ conn' = [c \in Client |-> NoConn]
    /\ up' = [c \in Client |-> <<>>]

\* (mutant) The recovered room forgets how far it sealed.
CrashToStart ==
    /\ crashes < MaxCrashes /\ crashes' = crashes + 1
    /\ sealed' = 0 /\ ideal' = 0 /\ speed' = 1
    /\ Cut /\ UNCHANGED <<kept, game, stray, worlds, accused>>
\* The server crashes and recovers the room from its log, whose last turns
\* may be gone; the clock continues at the frontier found there.
Crash ==
    /\ crashes < MaxCrashes /\ crashes' = crashes + 1
    /\ sealed' \in (IF LosesTurns THEN 0..sealed ELSE {sealed})
    /\ ideal' = sealed'
    /\ speed' \in Speeds
    /\ Cut
    /\ stray' = stray \cup {c \in Client : game[c].knows > sealed'}
    /\ UNCHANGED <<kept, game, worlds, accused>>

-----------------------------------------------------------------------------
(* Connections                                                             *)

\* What the client had sent may still be read.
Drop(c) ==
    /\ conn[c].open
    /\ conn' = [conn EXCEPT ![c] = NoConn]
    /\ UNCHANGED <<roomVars, member, up, game, stray, boundVars, accused>>

Joined(c, streaming) ==
    /\ ~conn[c].open /\ c \notin accused
    /\ conn' = [conn EXCEPT ![c] = NewConn]
    /\ up' = [up EXCEPT ![c] = <<>>]
    /\ member' = [member EXCEPT ![c] =
                    [linked |-> TRUE, streaming |-> streaming, pace |-> CatchingUp]]
    /\ UNCHANGED <<roomVars, stray, boundVars, accused>>

\* Resumed: the client reports at once how far its game stands.
JoinResuming(c) ==
    /\ game[c].phase # "none" /\ c \notin stray
    /\ Joined(c, TRUE)
    /\ game' = [game EXCEPT ![c].reported = None]

\* Refused its resume, or without turns of this game: it waits for a world,
\* while its game goes on with what it has.
JoinForWorld(c) == Joined(c, FALSE) /\ UNCHANGED game

-----------------------------------------------------------------------------
(* The player's game                                                       *)

\* A turn arrives: those sent before a world come before it.  What is on its
\* way when the room gives the connection up is taken as lost.
Hear(c) ==
    /\ conn[c].open /\ member[c].streaming /\ game[c].phase # "none" /\ c \notin stray
    /\ game[c].knows < (IF conn[c].world = None THEN sealed ELSE conn[c].world.sent)
    /\ game' = [game EXCEPT ![c].knows = @ + 1]
    /\ UNCHANGED <<roomVars, member, conn, up, stray, boundVars, accused>>

\* The world to load arrives: what the game ran so far is void.
TakeWorld(c) ==
    /\ conn[c].open /\ conn[c].world # None
    /\ game' = [game EXCEPT ![c] = LoadsFrom(conn[c].world.at)]
    /\ conn' = [conn EXCEPT ![c].world = None]
    /\ stray' = stray \ {c}
    /\ UNCHANGED <<roomVars, member, up, boundVars, accused>>

Send(c, step) ==
    /\ conn[c].open /\ Len(up[c]) < QueueLimit
    /\ up' = [up EXCEPT ![c] = Append(@, step)]

\* Loaded counts as progress.
Loaded(c) ==
    /\ game[c].phase = "loading"
    /\ Send(c, game[c].ran)
    /\ game' = [game EXCEPT ![c].phase = "playing", ![c].reported = game[c].ran]
    /\ UNCHANGED <<roomVars, member, conn, stray, boundVars, accused>>

\* The game runs a step, connected or not.
Run(c) ==
    /\ game[c].phase = "playing" /\ game[c].ran < game[c].knows
    /\ game' = [game EXCEPT ![c].ran = @ + 1]
    /\ UNCHANGED <<roomVars, member, conn, up, stray, boundVars, accused>>

\* report_progress
Report(c) ==
    /\ game[c].phase = "playing"
    /\ IF game[c].reported = None THEN TRUE ELSE game[c].ran > game[c].reported
    /\ Send(c, game[c].ran)
    /\ game' = [game EXCEPT ![c].reported = game[c].ran]
    /\ UNCHANGED <<roomVars, member, conn, stray, boundVars, accused>>

-----------------------------------------------------------------------------
Next ==
    \/ \E whole \in 0..1 : Tick(whole)
    \/ SetSpeed \/ Crash
    \/ \E c \in Client, at \in 0..sealed : HandWorld(c, at)
    \/ \E c \in Client :
        \/ Demote(c) \/ Progress(c) \/ Disconnected(c)
        \/ Drop(c) \/ JoinResuming(c) \/ JoinForWorld(c)
        \/ Hear(c) \/ TakeWorld(c) \/ Loaded(c) \/ Run(c) \/ Report(c)

Spec == Init /\ [][Next]_vars

\* The room's task ticks, reads what arrives, and lets a member go that has
\* not moved for the stall timeout.
RoomFairness ==
    /\ SF_vars(Tick(1))
    /\ \A c \in Client : WF_vars(Progress(c))
    /\ \A c \in Client, step \in 0..MaxStep :
        WF_vars(member[c].pace \in {Loading, Following(step)} /\ Demote(c))
\* A player's game may stop at any moment for as long as it likes, except
\* those of `Responsive`.
Answers(c) == WF_vars(Hear(c)) /\ WF_vars(Run(c)) /\ WF_vars(Report(c))
FairSpec == Spec /\ RoomFairness /\ \A c \in Responsive : Answers(c)

-----------------------------------------------------------------------------
(* Properties                                                              *)

\* The room streams turns only to members it has a connection of.
TypeOK ==
    /\ kept \in BOOLEAN /\ sealed \in 0..MaxStep /\ ideal \in 0..MaxStep /\ speed \in Speeds
    /\ \A c \in Client :
        /\ member[c].linked \in BOOLEAN /\ member[c].streaming \in BOOLEAN
        /\ member[c].pace.kind \in {"loading", "following", "catchingUp"}
        /\ member[c].pace.step \in 0..MaxStep
        /\ member[c].streaming => member[c].linked
        /\ game[c].phase \in {"none", "loading", "playing"}
        /\ game[c].ran \in 0..MaxStep /\ game[c].knows \in 0..MaxStep
        /\ Len(up[c]) <= QueueLimit
    /\ stray \subseteq Client /\ accused \subseteq Client

\* "Nobody runs ahead": the frontier stays within the window of every member
\* that paces the room, at the widest one of some speed it may have had, through
\* speed changes, late reports, stalls and restarts (Pacer::advance against
\* progress and demote_stalled).
PaceBound ==
    \A c \in Client :
        HoldsClock(member[c]) /\ member[c].pace.kind = "following"
            => \E at \in Speeds : sealed <= member[c].pace.step + Window(at)

\* No step is sealed while a member the room still waits for loads the world
\* the game starts from (slowest_pacer's early return, against rejoining,
\* worlds handed out and restarts).
LoadingHolds ==
    (\E c \in Client : HoldsClock(member[c]) /\ member[c].pace = Loading) => sealed = 0

\* A player that keeps to the protocol is never closed for running a step the
\* room has not sealed (the check in progress).
NeverAccused == accused = {}

\* A member that plays what the room seals, and can be sent more.
InStep(c) ==
    /\ member[c].streaming /\ member[c].pace # Loading
    /\ conn[c].open /\ conn[c].world = None /\ c \notin stray /\ game[c].phase = "playing"
\* The bound leaves the frontier room for another window.
Room == sealed + Larger(speed, Window(speed)) <= MaxStep

\* A room whose game runs goes on as long as one game answers, whatever the
\* others do: stop, load for ever, leave and return (demote_stalled, the way
\* back through progress, and slowest_pacer).
RoomGoesOn == \A c \in Responsive : ~<>[](speed # 0 /\ Room /\ InStep(c))

=============================================================================
