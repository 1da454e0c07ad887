---------------------------- MODULE Checkpoints ----------------------------
(***************************************************************************)
(* The checkpoint rounds of a running room (crates/tpf3mp-server room.rs): *)
(* games report digests of their worlds at every checkpoint step, the room *)
(* compares them, and tells a game that differs from the others to load    *)
(* the room's world.                                                       *)
(*                                                                         *)
(* Games of one loaded save compute the same digests (but those of         *)
(* `Faulty`); games of different saves may not, so the room forgets what   *)
(* was reported of worlds nobody plays any more.  A report and a world may *)
(* cross on their way.  Steps count checkpoints.  Who paces the room is    *)
(* module Pacing; how worlds come by is Worlds, here all in one step.      *)
(***************************************************************************)
EXTENDS Verdict

CONSTANTS
    Seats,        \* the members, in join order
    Faulty,       \* members whose games compute other digests than the rest
    OnMac,        \* members that play on a Mac, the rest on Windows
    World,        \* snapshots
    Own,          \* the world the game started from, no snapshot
    MinReports,   \* MIN_VERDICT_REPORTS
    OpenLimit,    \* MAX_OPEN_ROUNDS
    KeptLimit,    \* DECIDED_ROUNDS_KEPT
    QueueLimit,   \* bound: reports on their way from one member
    MaxStep,      \* bound: checkpoints
    MaxSaves,     \* bound: saves uploaded
    MaxRestarts   \* bound: server restarts

Client == {Seats[i] : i \in DOMAIN Seats}
Step == 1..MaxStep

ASSUME ConstantsAssumption ==
    /\ DOMAIN Seats = 1..Len(Seats) /\ Len(Seats) > 0
    /\ Cardinality(Client) = Len(Seats) /\ Faulty \subseteq Client /\ OnMac \subseteq Client
    /\ IsFiniteSet(World) /\ Own \notin World /\ None \notin World \cup {Own}
    /\ \A w \in World \cup {Own} : None # <<w>>  \* no digest
    /\ MinReports \in Nat \ {0} /\ OpenLimit \in Nat \ {0} /\ KeptLimit \in Nat \ {0}
    /\ QueueLimit \in Nat \ {0} /\ MaxStep \in Nat
    /\ MaxSaves \in Nat /\ MaxRestarts \in Nat

VARIABLES
    \* The room.
    sealed,    \* checkpoints sealed
    rounds,    \* by step: the reports, and the verdict once decided
    closed,    \* rounds_closed_through
    current,   \* the agreed snapshot: id, and the step it was saved after
    member,    \* per player: linked, streaming, needs, loaded
    \* The players.
    game,      \* the world each game plays, and the checkpoints it ran
    coming,    \* the world on its way to each player
    up,        \* reports on their way, those a game made while away included
    \* History variables: no code reads them.
    restarts, saves,
    told,      \* pairs of a player told to have diverged, and the step
    apart      \* the room took a report of a game that it has told to play
               \* another world, or is about to; or forgot in a restart who was

roundVars == <<rounds, closed>>
gameVars == <<game, up>>
boundVars == <<restarts, saves>>
historyVars == <<boundVars, told, apart>>
vars == <<sealed, roundVars, current, member, gameVars, coming, historyVars>>

-----------------------------------------------------------------------------
(* Rounds                                                                  *)

Decided(rs) == {s \in Step : rs[s] # None /\ rs[s].verdict # None}
Open(rs) == {s \in Step : rs[s] # None} \ Decided(rs)
Larger(x, y) == IF x > y THEN x ELSE y

Reporters(round) == {round.reports[i].player : i \in DOMAIN round.reports}
\* round_complete: whether everyone who paces the room has reported.  Who of
\* those with a stream paces it is left open (module Pacing).
Completes(round) ==
    {TRUE} \cup {FALSE : c \in {k \in Client : member[k].streaming} \ Reporters(round)}

\* decide_round: whoever differs from the verdict.
Divergers(reports, verdict) ==
    {reports[i].player : i \in {j \in DOMAIN reports : Diverging(reports[j].lanes, verdict) # {}}}
Judge(round) == [round EXCEPT !.verdict = Agreed(round.reports)]

\* prune_rounds: the oldest decided rounds go once too many are kept.
Excess(rs) == {s \in Decided(rs) : Cardinality({t \in Decided(rs) : t > s}) >= KeptLimit}
Pruned(rs) == [s \in Step |-> IF s \in Excess(rs) THEN None ELSE rs[s]]
Closing(rs, from) == CHOOSE s \in Excess(rs) \cup {from} : \A t \in Excess(rs) \cup {from} : t <= s

\* The reports of those the room took to play world `id`, in their order.
Of(reports, id) ==
    LET kept[n \in 0..Len(reports)] ==
            IF n = 0 THEN <<>>
            ELSE IF reports[n].loaded = id THEN Append(kept[n - 1], reports[n])
            ELSE kept[n - 1]
    IN kept[Len(reports)]

\* (mutant) Nothing is forgotten.
ForgottenNot(rs, world) == rs
\* forget_reports_after: what was reported past `world` of other worlds.
Forgotten(rs, world) ==
    [s \in Step |->
        IF rs[s] = None \/ s <= world.step THEN rs[s]
        ELSE LET kept == Of(rs[s].reports, world.id) IN
             IF kept = rs[s].reports THEN rs[s]
             ELSE IF kept = <<>> THEN None
             ELSE [reports |-> kept, verdict |-> None]]

-----------------------------------------------------------------------------
(* Worlds                                                                  *)

Nothing == [kind |-> "nothing", after |-> 0]
AnyWorld == [kind |-> "world", after |-> 0]
Rebase(after) == [kind |-> "rebase", after |-> after]

\* offer_worlds: from the given members, rounds, and reports, the room's world goes to
\* every member that waits for one it serves, and with it to everyone else
\* connected that does not play it; the others owe it.  The queue of a member
\* already playing may be full: it is disconnected, and what was on its way,
\* either way, is lost (drop_link).
Offer(members, rs, sent, world) ==
    LET served == {c \in Client : members[c].linked /\ world # None
                        /\ members[c].needs # Nothing /\ members[c].needs.after <= world.step}
        others == {c \in Client \ served : served # {} /\ members[c].loaded # world.id}
        fed == served \cup {c \in others : members[c].streaming} IN
    \E refused \in SUBSET {c \in fed : members[c].streaming} :
        LET given == fed \ refused IN
        /\ member' = [c \in Client |->
            CASE c \in given -> [members[c] EXCEPT !.streaming = TRUE,
                        !.needs = Nothing, !.loaded = world.id]
              [] c \in refused -> [members[c] EXCEPT !.streaming = FALSE,
                        !.linked = FALSE, !.needs = AnyWorld]
              [] c \in others \ fed -> [members[c] EXCEPT !.needs = AnyWorld]
              [] OTHER -> members[c]]
        /\ coming' = [c \in Client |->
            IF c \in given THEN world ELSE IF c \in refused THEN None ELSE coming[c]]
        /\ up' = [c \in Client |-> IF c \in refused THEN <<>> ELSE sent[c]]
        /\ rounds' = IF served = {} THEN rs ELSE Forgotten(rs, world)

\* (mutant) A member that waits for a world already is not told.
AnnounceOnce(diverged, step, rs, sent) ==
    \E rested \in SUBSET {c \in diverged : member[c].needs = Nothing} :
        /\ Offer([c \in Client |->
                IF c \in rested THEN [member[c] EXCEPT !.needs = Rebase(step)] ELSE member[c]],
                 rs, sent, current)
        /\ told' = told \cup {<<c, step>> : c \in rested}
\* announce_divergence: a diverged member waits for a world saved from there
\* on, unless it waits for one already or was rebased a short time ago (which
\* is left open).
Announce(diverged, step, rs, sent) ==
    \E rested \in SUBSET diverged :
        /\ Offer([c \in Client |->
                IF c \in rested /\ member[c].needs = Nothing
                THEN [member[c] EXCEPT !.needs = Rebase(step)] ELSE member[c]], rs, sent, current)
        /\ told' = told \cup {<<c, step>> : c \in diverged}

-----------------------------------------------------------------------------
Member(needs, loaded) ==
    [linked |-> TRUE, streaming |-> needs = Nothing, needs |-> needs, loaded |-> loaded]

\* The game goes on: everyone plays the world it started from, or the owner
\* its own and the others wait for a save of it.
Init ==
    /\ sealed = 0 /\ rounds = [s \in Step |-> None] /\ closed = 0
    /\ \E first \in World :
        LET handed == [id |-> first, step |-> 0] IN
        \/ /\ current = handed
           /\ member = [c \in Client |-> Member(Nothing, first)]
           /\ game = [c \in Client |-> [world |-> first, ran |-> 0]]
        \/ /\ current = None
           /\ member = [c \in Client |-> Member(IF c = Seats[1] THEN Nothing ELSE AnyWorld, None)]
           /\ game = [c \in Client |-> [world |-> IF c = Seats[1] THEN Own ELSE None, ran |-> 0]]
    /\ coming = [c \in Client |-> None] /\ up = [c \in Client |-> <<>>]
    /\ restarts = 0 /\ saves = 0 /\ told = {} /\ apart = FALSE

-----------------------------------------------------------------------------
(* The room                                                                *)

Seal ==
    /\ sealed < MaxStep /\ sealed' = sealed + 1
    /\ UNCHANGED <<roundVars, current, member, gameVars, coming, historyVars>>

\* The room's view of a report, from the connection it arrived on.
Noted(c, report) ==
    [player |-> c, platform |-> IF c \in OnMac THEN "macos" ELSE "windows", lanes |-> report.lanes,
     order |-> CHOOSE i \in DOMAIN Seats : Seats[i] = c, loaded |-> member[c].loaded]

\* (mutant) A player may report a step again.
AcceptsAgain(c, s) ==
    rounds[s] # None \/ (s > closed /\ Cardinality(Open(rounds)) < OpenLimit)
\* A report is taken once for each step and player.
Accepts(c, s) ==
    IF rounds[s] = None THEN s > closed /\ Cardinality(Open(rounds)) < OpenLimit
    ELSE c \notin Reporters(rounds[s])

\* checkpoint: the room reads a report.
Checkpoint(c) ==
    /\ up[c] # <<>> /\ member[c].linked
    /\ LET report == Head(up[c])
           left == [up EXCEPT ![c] = Tail(@)]
           s == report.step
           before == IF rounds[s] = None THEN [reports |-> <<>>, verdict |-> None] ELSE rounds[s]
           round == [before EXCEPT !.reports = Append(@, Noted(c, report))]
           accepted == s <= sealed /\ Accepts(c, s) IN
        \/ /\ ~accepted
           /\ up' = left /\ UNCHANGED <<roundVars, member, coming, told, apart>>
        \/ \E complete \in Completes(round) :
           LET decides == Len(round.reports) >= MinReports /\ complete
               judged == IF round.verdict = None /\ decides THEN Judge(round) ELSE round
               diverged == IF round.verdict # None THEN Divergers(round.reports, round.verdict) \cap {c}
                           ELSE IF decides THEN Divergers(round.reports, judged.verdict) ELSE {}
               after == [rounds EXCEPT ![s] = judged] IN
           /\ accepted
           /\ closed' = Closing(after, closed)
           /\ apart' = (apart \/ ~member[c].streaming
                                  \/ member[c].loaded \notin {None, report.world})
           /\ IF diverged = {}
              THEN rounds' = Pruned(after) /\ up' = left /\ UNCHANGED <<member, coming, told>>
              ELSE Announce(diverged, s, Pruned(after), left)
    /\ UNCHANGED <<sealed, current, game, boundVars>>

\* (mutant) Nobody is told of a verdict reached at the deadline.
DecideSilently(s) ==
    /\ s \in Open(rounds) /\ Len(rounds[s].reports) >= MinReports
    /\ LET after == [rounds EXCEPT ![s] = Judge(rounds[s])] IN
        /\ closed' = Closing(after, closed)
        /\ rounds' = Pruned(after)
    /\ UNCHANGED <<sealed, current, member, gameVars, coming, historyVars>>
\* decide_waiting_rounds, for one round: complete, or past its deadline, which
\* may be at any time after it opened.
Decide(s) ==
    /\ s \in Open(rounds) /\ Len(rounds[s].reports) >= MinReports
    /\ LET judged == Judge(rounds[s])
           after == [rounds EXCEPT ![s] = judged]
           diverged == Divergers(judged.reports, judged.verdict) IN
        /\ closed' = Closing(after, closed)
        /\ IF diverged = {}
           THEN rounds' = Pruned(after) /\ UNCHANGED <<member, coming, up, told>>
           ELSE Announce(diverged, s, Pruned(after), up)
    /\ UNCHANGED <<sealed, current, game, boundVars, apart>>

Expire(s) ==
    /\ s \in Open(rounds) /\ Len(rounds[s].reports) < MinReports
    /\ rounds' = [rounds EXCEPT ![s] = None]
    /\ closed' = Larger(closed, s)
    /\ UNCHANGED <<sealed, current, member, gameVars, coming, historyVars>>

\* A snapshot nobody refers to any more may come again under its id.
Unused ==
    World \ ({game[c].world : c \in Client} \cup {member[c].loaded : c \in Client}
             \cup {coming[c].id : c \in {k \in Client : coming[k] # None}}
             \cup {current.id : k \in {0} \cap {IF current = None THEN 1 ELSE 0}}
             \cup UNION {{up[c][i].world : i \in DOMAIN up[c]} : c \in Client}
             \cup UNION {{rounds[s].reports[i].loaded : i \in DOMAIN rounds[s].reports} :
                            s \in {t \in Step : rounds[t] # None}})

\* promote: a save of a playing game, made after step `at`, is uploaded.
Promote(at) ==
    /\ \E c \in Client : member[c].streaming
    /\ at <= sealed /\ saves < MaxSaves /\ saves' = saves + 1
    /\ \E id \in Unused : current' = [id |-> id, step |-> at]
    /\ Offer(member, rounds, up, current')
    /\ UNCHANGED <<sealed, closed, game, restarts, told, apart>>

\* The room starts again from its log: rounds, and what each game loaded, are
\* forgotten; its world may be.
ServerRestarts ==
    /\ restarts < MaxRestarts /\ restarts' = restarts + 1
    /\ rounds' = [s \in Step |-> None] /\ closed' = 0
    /\ current' \in {current, None}
    /\ member' = [c \in Client |-> [Member(Nothing, None) EXCEPT
                    !.linked = FALSE, !.streaming = FALSE]]
    /\ coming' = [c \in Client |-> None]
    /\ apart' = (apart \/ \E c \in Client : member[c].needs = AnyWorld
                                       \/ member[c].loaded \notin {None, game[c].world})
    /\ up' = [c \in Client |-> IF member[c].linked THEN <<>> ELSE up[c]]
    /\ UNCHANGED <<sealed, game, saves, told>>

-----------------------------------------------------------------------------
(* Connections                                                             *)

\* What was on its way, either way, is lost; how much of it was read before
\* is decided by the steps before this one.
Disconnected(c) ==
    /\ member[c].linked
    /\ member' = [member EXCEPT ![c].linked = FALSE, ![c].streaming = FALSE]
    /\ coming' = [coming EXCEPT ![c] = None] /\ up' = [up EXCEPT ![c] = <<>>]
    /\ UNCHANGED <<sealed, roundVars, current, game, historyVars>>

Joins(c, streaming, needs) ==
    /\ ~member[c].linked
    /\ Offer([member EXCEPT ![c].linked = TRUE, ![c].streaming = streaming, ![c].needs = needs],
             rounds, up, current)
    /\ UNCHANGED <<sealed, closed, current, game, historyVars>>

JoinResuming(c) ==
    /\ game[c].world # None /\ member[c].needs # AnyWorld
    /\ Joins(c, TRUE, Nothing)
JoinForWorld(c) == Joins(c, FALSE, AnyWorld)

-----------------------------------------------------------------------------
(* Games                                                                   *)

\* The digests of a game that plays a world, after any step.
Digests(c, world) == [lane \in {"world"} |-> IF c \in Faulty THEN <<world, c>> ELSE <<world>>]

\* A game runs to the next checkpoint, with turns it has, and reports it.
Run(c) ==
    /\ game[c].world # None /\ game[c].ran < sealed /\ Len(up[c]) < QueueLimit
    /\ game' = [game EXCEPT ![c].ran = @ + 1]
    /\ up' = [up EXCEPT ![c] = Append(@,
                [step |-> game[c].ran + 1,
                 world |-> game[c].world, lanes |-> Digests(c, game[c].world)])]
    /\ UNCHANGED <<sealed, roundVars, current, member, coming, historyVars>>

\* The world arrives, and the game loads it: what it played is void.
TakeWorld(c) ==
    /\ coming[c] # None
    /\ game' = [game EXCEPT ![c] = [world |-> coming[c].id, ran |-> coming[c].step]]
    /\ coming' = [coming EXCEPT ![c] = None]
    /\ UNCHANGED <<sealed, roundVars, current, member, up, historyVars>>

-----------------------------------------------------------------------------
Next ==
    \/ Seal \/ ServerRestarts
    \/ \E s \in Step : Decide(s) \/ Expire(s)
    \/ \E at \in 0..sealed : Promote(at)
    \/ \E c \in Client :
        \/ Checkpoint(c) \/ Disconnected(c) \/ JoinResuming(c) \/ JoinForWorld(c)
        \/ Run(c) \/ TakeWorld(c)

Spec == Init /\ [][Next]_vars

-----------------------------------------------------------------------------
(* Properties                                                              *)

\* The rounds kept stay few, each has a report, and at most one of a player.
TypeOK ==
    /\ sealed \in 0..MaxStep /\ closed \in 0..MaxStep /\ apart \in BOOLEAN
    /\ Cardinality(Decided(rounds)) <= KeptLimit
    /\ \A s \in Step : rounds[s] # None =>
        /\ s <= sealed /\ rounds[s].reports # <<>>
        /\ Cardinality(Reporters(rounds[s])) = Len(rounds[s].reports)
    /\ \A c \in Client :
        /\ member[c].streaming => member[c].linked /\ member[c].needs # AnyWorld
        /\ member[c].loaded \in World \cup {None} /\ game[c].world \in World \cup {Own, None}
        /\ game[c].ran \in 0..sealed /\ Len(up[c]) <= QueueLimit

\* No game is said to have diverged while all compute what their worlds make
\* them compute, unless the room took a report for one of another world, or a
\* restart forgot who was owed one (see `apart`): every comparison it makes is
\* of games of one world, however reloads, late reports, and returning players
\* interleave.
ComparesLikeWithLike == told # {} /\ ~apart => Faulty # {}

\* Whoever differs from a verdict the room keeps has been told, in whatever
\* order reports, deadlines, and worlds came.
NobodyUntold ==
    \A s \in Decided(rounds) :
        \A c \in Divergers(rounds[s].reports, rounds[s].verdict) : <<c, s>> \in told
=============================================================================
