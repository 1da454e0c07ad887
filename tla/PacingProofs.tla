---------------------------- MODULE PacingProofs ----------------------------
(***************************************************************************)
(* What Pacing promises, for any number of players, any speeds, windows    *)
(* and crashes.                                                            *)
(*                                                                         *)
(* PaceBound rests on LoadingHolds: a member that has just loaded follows  *)
(* from the step it reports, which may be far behind unless nothing was    *)
(* sealed while it loaded.  NeverAccused needs that nothing a game knows,  *)
(* ran, or reported is past the frontier, which only a crash that loses    *)
(* turns can break.                                                        *)
(***************************************************************************)
EXTENDS Pacing, SequenceTheorems, WellFoundedInduction, TLAPS

Steps == 0..MaxStep
Pace == {Loading, CatchingUp} \cup {Following(step) : step \in Steps}
MemberType == [linked : BOOLEAN, streaming : BOOLEAN, pace : Pace]
ConnType == [open : BOOLEAN, world : {None} \cup [at : Steps, sent : Steps]]
GameType == [phase : {"none", "loading", "playing"}, ran : Steps, knows : Steps,
             reported : {None} \cup Steps]

\* TypeOK, with the whole of every record.
PTypeOK ==
    /\ kept \in BOOLEAN /\ sealed \in Steps /\ ideal \in Steps /\ speed \in Speeds
    /\ member \in [Client -> MemberType]
    /\ \A c \in Client : member[c].streaming => member[c].linked
    /\ conn \in [Client -> ConnType]
    /\ up \in [Client -> Seq(Steps)]
    /\ \A c \in Client : Len(up[c]) <= QueueLimit
    /\ game \in [Client -> GameType]
    /\ \A c \in Client : game[c].ran <= game[c].knows
    /\ stray \subseteq Client /\ accused \subseteq Client

\* Nothing on its way, and nothing a game knows, is past the frontier.
Behind ==
    \A c \in Client :
        /\ game[c].knows <= sealed
        /\ \A i \in 1..Len(up[c]) : up[c][i] <= sealed
        /\ conn[c].world # None => conn[c].world.at <= sealed /\ conn[c].world.sent <= sealed

PInv == PTypeOK /\ LoadingHolds /\ PaceBound

-----------------------------------------------------------------------------
(* The pacer                                                               *)

LEMMA LeadWindowType ==
    ASSUME NEW at \in Speeds
    PROVE  Lead(at) \in Nat /\ Window(at) \in Nat
<1>1. at \in Nat /\ InputDelay \in Nat /\ MaxAhead \in Nat
  BY ConstantsAssumption
<1>2. \A x, y \in Nat : x * y \in Nat /\ Larger(x, y) \in Nat
  BY DEF Larger
<1>3. \A x \in Nat : Lead(x) \in Nat
  BY <1>1, <1>2 DEF Lead
<1> DEFINE pace == Larger(at, 1)
<1>4. pace \in Nat /\ MaxAhead * pace \in Nat
  BY <1>1, <1>2
<1>5. Lead(pace) \in Nat
  BY <1>3, <1>4
<1>6. Window(at) = Lead(pace) + MaxAhead * pace
  BY DEF Window
<1> HIDE DEF pace
<1> QED BY <1>1, <1>3, <1>4, <1>5, <1>6

LEMMA LeastIsLeast ==
    ASSUME NEW S \in SUBSET Nat, S # {}
    PROVE  Least(S) \in S /\ \A y \in S : Least(S) <= y
<1> DEFINE R == {pair \in Nat \X Nat : pair[1] < pair[2]}
<1>1. OpToRel(<, Nat) = R
  BY DEF OpToRel
<1>2. IsWellFoundedOn(R, Nat)
  BY <1>1, NatLessThanWellFounded
<1> HIDE DEF R
<1>3. PICK x \in S : \A y \in S : ~ <<y, x>> \in R
  BY <1>2, WFMin
<1>4. \A y \in S : ~ (y < x)
  BY <1>3 DEF R
<1>5. \A y \in S : x <= y
  BY <1>4
<1> QED BY <1>5 DEF Least

\* The slowest pacer is no faster than any.
LEMMA SlowestIsSlowest ==
    ASSUME PTypeOK, Runs
    PROVE  /\ Slowest \in Nat
           /\ \A c \in Pacers : member[c].pace.kind = "following" /\ Slowest <= member[c].pace.step
<1> DEFINE S == {member[c].pace.step : c \in {k \in Pacers : member[k].pace # Loading}}
<1>1. \A c \in Client : member[c].pace \in Pace
  BY DEF PTypeOK, MemberType
<1>2. \A c \in Pacers : c \in Client /\ member[c].pace # Loading /\ member[c].pace # CatchingUp
  BY DEF Pacers, Runs
<1>3. \A c \in Pacers : \E step \in Steps : member[c].pace = Following(step)
  BY <1>1, <1>2 DEF Pace
<1>4. \A c \in Pacers : member[c].pace.kind = "following" /\ member[c].pace.step \in Steps
  <2>1. \A step : Following(step).kind = "following" /\ Following(step).step = step
    BY DEF Following
  <2> TAKE c \in Pacers
  <2>2. PICK step \in Steps : member[c].pace = Following(step)
    BY <1>3
  <2> QED BY <2>1, <2>2
<1>5. Steps \subseteq Nat
  BY DEF Steps
<1>6. S \in SUBSET Nat /\ S # {}
  BY <1>2, <1>4, <1>5 DEF Runs
<1>7. Slowest = Least(S)
  BY DEF Slowest
<1>8. Least(S) \in S /\ \A y \in S : Least(S) <= y
  BY <1>6, LeastIsLeast
<1>9. \A c \in Pacers : member[c].pace.step \in S
  BY <1>2
<1> QED BY <1>4, <1>6, <1>7, <1>8, <1>9

-----------------------------------------------------------------------------
(* A member's pace                                                         *)

LEMMA PaceType ==
    ASSUME PTypeOK, NEW c \in Client
    PROVE  \/ member[c].pace = Loading /\ member[c].pace.kind = "loading"
           \/ member[c].pace = CatchingUp /\ member[c].pace.kind = "catchingUp"
           \/ /\ member[c].pace = Following(member[c].pace.step)
              /\ member[c].pace.kind = "following" /\ member[c].pace.step \in Steps
BY DEF PTypeOK, MemberType, Pace, Loading, CatchingUp, Following

\* A report puts a member at a step within the window of the frontier.
LEMMA PacedOK ==
    ASSUME PInv, NEW c \in Client, NEW step \in Steps, member[c].linked, step <= sealed
    PROVE  LET pace == Paced(member[c].pace, step) IN
           /\ pace \in Pace \ {Loading}
           /\ HoldsClock(member[c]) /\ pace.kind = "following"
                => \E at \in Speeds : sealed <= pace.step + Window(at)
<1> DEFINE pace == Paced(member[c].pace, step)
<1>1. Steps \subseteq Nat /\ sealed \in Nat /\ speed \in Speeds /\ 1 \in Speeds
  BY ConstantsAssumption DEF PInv, PTypeOK, Steps
<1>2. Window(1) \in Nat /\ Window(speed) \in Nat
  BY <1>1, LeadWindowType
<1>3. Following(step) \in Pace \ {Loading} /\ CatchingUp \in Pace \ {Loading}
  BY DEF Pace, Following, Loading, CatchingUp
<1>4. Following(step).step = step /\ CatchingUp.kind # "following"
  BY DEF Following, CatchingUp
<1>5. CASE member[c].pace = Loading
  <2>1. pace = Following(step)
    BY <1>5 DEF Paced, Loading
  <2>2. sealed = 0
    BY <1>5 DEF PInv, LoadingHolds, HoldsClock
  <2> QED BY <1>1, <1>2, <1>3, <1>4, <2>1, <2>2
<1>6. CASE member[c].pace = CatchingUp
  <2>1. pace = IF step + Window(speed) >= sealed THEN Following(step) ELSE CatchingUp
    BY <1>6 DEF Paced, CatchingUp
  <2> QED BY <1>1, <1>2, <1>3, <1>4, <2>1
<1>7. CASE /\ member[c].pace = Following(member[c].pace.step)
           /\ member[c].pace.kind = "following" /\ member[c].pace.step \in Steps
  <2> DEFINE old == member[c].pace.step
  <2>0. PICK new : new = Larger(old, step)
    OBVIOUS
  <2>5. old \in Nat /\ step \in Nat /\ old \in Steps
    BY <1>1, <1>7
  <2> HIDE DEF old
  <2>1. pace = Following(new)
    BY <1>7, <2>0 DEF Paced, old
  <2>2. new \in Steps /\ old <= new
    BY <2>0, <2>5 DEF Larger
  <2>3. pace \in Pace \ {Loading} /\ pace.step = new
    BY <2>1, <2>2 DEF Pace, Following, Loading
  <2> HIDE DEF pace
  <2>4. ASSUME HoldsClock(member[c]) PROVE \E at \in Speeds : sealed <= pace.step + Window(at)
    <3>1. PICK at \in Speeds : sealed <= old + Window(at)
      BY <1>7, <2>4 DEF PInv, PaceBound, old
    <3>2. Window(at) \in Nat
      BY LeadWindowType
    <3>3. sealed <= new + Window(at)
      BY <1>1, <2>2, <2>5, <3>1, <3>2
    <3> QED BY <2>3, <3>3
  <2> QED BY <2>3, <2>4 DEF pace
<1> QED BY <1>5, <1>6, <1>7, PaceType DEF PInv

-----------------------------------------------------------------------------
(* Types                                                                   *)

LEMMA GoneType ==
    ASSUME NEW m \in MemberType
    PROVE  Gone(m) \in MemberType /\ ~Gone(m).streaming /\ Gone(m).pace = CatchingUp
BY DEF MemberType, Gone, Pace

\* Reports are read off the front of a queue, and put at its end.
LEMMA QueueType ==
    ASSUME NEW S, NEW q \in Seq(S)
    PROVE  /\ \A x \in S : Append(q, x) \in Seq(S) /\ Len(Append(q, x)) = Len(q) + 1
           /\ q # <<>> => /\ Head(q) \in S /\ Head(q) = q[1] /\ Len(q) >= 1
                         /\ Tail(q) \in Seq(S) /\ Len(Tail(q)) = Len(q) - 1
                         /\ \A i \in 1..Len(Tail(q)) : Tail(q)[i] = q[i + 1]
OBVIOUS

LEMMA TypeInit == Init => PTypeOK
<1> SUFFICES ASSUME Init PROVE PTypeOK
  OBVIOUS
<1>1. MaxStep \in Nat /\ QueueLimit \in Nat /\ 0 \in Steps /\ 1 \in Speeds
  BY ConstantsAssumption DEF Steps
<1>2. Loading \in Pace
  BY DEF Pace
<1>3. NoWorld \in GameType /\ LoadsFrom(0) \in GameType /\ NewConn \in ConnType
  BY <1>1 DEF GameType, ConnType, NoWorld, LoadsFrom, NewConn
<1>4. NoWorld.ran <= NoWorld.knows /\ LoadsFrom(0).ran <= LoadsFrom(0).knows
  BY DEF NoWorld, LoadsFrom
<1>5. PICK first \in SUBSET Client :
        /\ kept = (first = {})
        /\ member = [c \in Client |->
                [linked |-> TRUE, streaming |-> c \in first, pace |-> Loading]]
        /\ game = [c \in Client |-> IF c \in first THEN LoadsFrom(0) ELSE NoWorld]
  BY DEF Init
<1>6. member \in [Client -> MemberType] /\ \A c \in Client : member[c].linked
  BY <1>2, <1>5 DEF MemberType
<1>7. game \in [Client -> GameType] /\ \A c \in Client : game[c].ran <= game[c].knows
  BY <1>3, <1>4, <1>5
<1>8. conn \in [Client -> ConnType] /\ up \in [Client -> Seq(Steps)]
  BY <1>3 DEF Init
<1>9. \A c \in Client : Len(up[c]) <= QueueLimit
  BY <1>1 DEF Init
<1> QED BY <1>1, <1>5, <1>6, <1>7, <1>8, <1>9 DEF Init, PTypeOK

\* The room's own steps.
LEMMA TypeTick ==
    ASSUME PInv, NEW whole \in 0..1, Tick(whole)
    PROVE  PTypeOK'
<1> DEFINE clock == IF speed = 0 THEN ideal ELSE ideal + whole * speed
<1>1. /\ sealed \in Nat /\ ideal \in Nat /\ speed \in Speeds /\ speed \in Nat
      /\ MaxStep \in Nat /\ sealed <= MaxStep
  BY ConstantsAssumption DEF PInv, PTypeOK, Steps
<1>2. Lead(speed) \in Nat /\ Window(speed) \in Nat
  BY <1>1, LeadWindowType
<1>3. Slowest \in Nat
  BY SlowestIsSlowest DEF PInv, Tick
<1>4. clock \in Nat
  <2>1. whole = 0 \/ whole = 1
    OBVIOUS
  <2> QED BY <1>1, <2>1
<1>5. /\ clock <= MaxStep /\ sealed' <= MaxStep
      /\ sealed' = Frontier(clock, Slowest) /\ ideal' = Held(clock, Slowest)
  BY DEF Tick
<1> HIDE DEF clock
<1>6. sealed' \in Steps
  BY <1>1, <1>2, <1>3, <1>4, <1>5 DEF Frontier, Larger, Smaller, Steps
<1>7. ideal' \in Steps
  BY <1>1, <1>2, <1>3, <1>4, <1>5 DEF Held, Larger, Smaller, Steps
<1> QED BY <1>6, <1>7 DEF PInv, PTypeOK, Tick

LEMMA TypeRoom ==
    ASSUME PInv,
           \/ SetSpeed \/ Crash
           \/ \E c \in Client, at \in 0..sealed : HandWorld(c, at)
           \/ \E c \in Client : Demote(c) \/ Progress(c) \/ Disconnected(c)
    PROVE  PTypeOK'
<1> USE DEF PInv
<1>0. MaxStep \in Nat /\ sealed \in Nat /\ sealed <= MaxStep /\ CatchingUp \in Pace
  BY ConstantsAssumption DEF PTypeOK, Steps, Pace
<1>1. CASE SetSpeed
  BY <1>1 DEF SetSpeed, PTypeOK, boundVars
<1>2. CASE Crash
  <2>1. sealed' \in Steps /\ ideal' \in Steps /\ speed' \in Speeds
    BY <1>0, <1>2 DEF Crash, Steps
  <2>2. member' \in [Client -> MemberType] /\ \A c \in Client : ~member'[c].streaming
    BY <1>2, GoneType DEF Crash, Cut, PTypeOK
  <2>3. conn' \in [Client -> ConnType] /\ up' \in [Client -> Seq(Steps)]
    BY <1>2 DEF Crash, Cut, NoConn, ConnType
  <2>4. \A c \in Client : Len(up'[c]) <= QueueLimit
    BY <1>2, ConstantsAssumption DEF Crash, Cut
  <2>5. stray' \subseteq Client
    BY <1>2 DEF Crash, PTypeOK
  <2> QED BY <1>2, <2>1, <2>2, <2>3, <2>4, <2>5 DEF Crash, PTypeOK
<1>3. ASSUME NEW c \in Client, NEW at \in 0..sealed, HandWorld(c, at) PROVE PTypeOK'
  <2>1. at \in Steps /\ sealed \in Steps
    BY <1>0 DEF Steps
  <2>2. member' \in [Client -> MemberType]
    BY <1>0, <1>3 DEF HandWorld, PTypeOK, MemberType
  <2>3. \A k \in Client : member'[k].streaming => member'[k].linked
    BY <1>3 DEF HandWorld, PTypeOK, MemberType
  <2>4. [at |-> at, sent |-> sealed] \in [at : Steps, sent : Steps]
    BY <2>1
  <2>5. conn' \in [Client -> ConnType]
    BY <1>3, <2>4 DEF HandWorld, PTypeOK, ConnType
  <2>6. kept' \in BOOLEAN
    BY <1>3 DEF HandWorld
  <2> QED BY <1>3, <2>2, <2>3, <2>5, <2>6 DEF HandWorld, PTypeOK, clockVars
<1>4. ASSUME NEW c \in Client, Demote(c) PROVE PTypeOK'
  <2>1. member' \in [Client -> MemberType]
    BY <1>0, <1>4 DEF Demote, PTypeOK, MemberType
  <2>2. \A k \in Client : member'[k].streaming => member'[k].linked
    BY <1>4 DEF Demote, PTypeOK, MemberType
  <2> QED BY <1>4, <2>1, <2>2 DEF Demote, PTypeOK, roomVars, clockVars
<1>5. ASSUME NEW c \in Client, Progress(c) PROVE PTypeOK'
  <2>1. up[c] \in Seq(Steps) /\ Head(up[c]) \in Steps
    BY <1>5, QueueType DEF Progress, PTypeOK
  <2>2. Tail(up[c]) \in Seq(Steps) /\ Len(Tail(up[c])) <= QueueLimit
    <3>1. Tail(up[c]) \in Seq(Steps) /\ Len(Tail(up[c])) = Len(up[c]) - 1 /\ Len(up[c]) \in Nat
      BY <1>5, <2>1, QueueType DEF Progress
    <3> QED BY <3>1, ConstantsAssumption DEF PTypeOK
  <2>3. up' \in [Client -> Seq(Steps)] /\ \A k \in Client : Len(up'[k]) <= QueueLimit
    BY <1>5, <2>2 DEF Progress, PTypeOK
  <2>4. /\ member' \in [Client -> MemberType]
        /\ \A k \in Client : member'[k].streaming => member'[k].linked
        /\ accused' \subseteq Client
    <3>1. CASE member' = member /\ accused' = accused
      BY <3>1 DEF PTypeOK
    <3>2. CASE member' = [member EXCEPT ![c] = Gone(@)] /\ accused' = accused \cup {c}
      BY <3>2, GoneType DEF PTypeOK
    <3>3. CASE /\ member[c].linked /\ Head(up[c]) <= sealed
               /\ member' = [member EXCEPT ![c].pace = Paced(@, Head(up[c]))]
               /\ accused' = accused
      <4>1. Paced(member[c].pace, Head(up[c])) \in Pace
        BY <2>1, <3>3, PacedOK
      <4> QED BY <3>3, <4>1 DEF PTypeOK, MemberType
    <3> QED BY <1>5, <3>1, <3>2, <3>3 DEF Progress
  <2> QED BY <1>5, <2>3, <2>4 DEF Progress, PTypeOK, roomVars, clockVars
<1>6. ASSUME NEW c \in Client, Disconnected(c) PROVE PTypeOK'
  <2>1. member' \in [Client -> MemberType] /\ \A k \in Client : member'[k].streaming => member'[k].linked
    BY <1>6, GoneType DEF Disconnected, PTypeOK
  <2> QED BY <1>6, <2>1 DEF Disconnected, PTypeOK, roomVars, clockVars
<1> QED BY <1>1, <1>2, <1>3, <1>4, <1>5, <1>6

\* The players' steps.
ClientStep(c) ==
    \/ Drop(c) \/ JoinResuming(c) \/ JoinForWorld(c)
    \/ Hear(c) \/ TakeWorld(c) \/ Loaded(c) \/ Run(c) \/ Report(c)

LEMMA JoinedType ==
    ASSUME PTypeOK, NEW c \in Client, NEW streaming \in BOOLEAN, Joined(c, streaming)
    PROVE  /\ conn' \in [Client -> ConnType] /\ up' \in [Client -> Seq(Steps)]
           /\ \A k \in Client : Len(up'[k]) <= QueueLimit
           /\ member' \in [Client -> MemberType]
           /\ \A k \in Client : member'[k].streaming => member'[k].linked
           /\ UNCHANGED <<roomVars, stray, accused>>
<1>1. NewConn \in ConnType
  BY DEF NewConn, ConnType
<1>2. [linked |-> TRUE, streaming |-> streaming, pace |-> CatchingUp] \in MemberType
  BY DEF MemberType, Pace
<1>3. conn' \in [Client -> ConnType] /\ up' \in [Client -> Seq(Steps)]
  BY <1>1 DEF Joined, PTypeOK
<1>4. \A k \in Client : Len(up'[k]) <= QueueLimit
  BY ConstantsAssumption DEF Joined, PTypeOK
<1>5. member' \in [Client -> MemberType]
  BY <1>2 DEF Joined, PTypeOK
<1>6. \A k \in Client : member'[k].streaming => member'[k].linked
  BY DEF Joined, PTypeOK
<1> QED BY <1>3, <1>4, <1>5, <1>6 DEF Joined

LEMMA SendType ==
    ASSUME PTypeOK, NEW c \in Client, NEW step \in Steps, Send(c, step)
    PROVE  /\ up' \in [Client -> Seq(Steps)]
           /\ \A k \in Client : Len(up'[k]) <= QueueLimit
<1>1. up[c] \in Seq(Steps)
  BY DEF PTypeOK
<1>2. Append(up[c], step) \in Seq(Steps) /\ Len(Append(up[c], step)) = Len(up[c]) + 1
  BY <1>1, QueueType
<1>3. Len(Append(up[c], step)) <= QueueLimit
  BY <1>1, <1>2, ConstantsAssumption DEF Send
<1> QED BY <1>2, <1>3 DEF Send, PTypeOK

LEMMA TypeClient ==
    ASSUME PTypeOK, NEW c \in Client, ClientStep(c)
    PROVE  PTypeOK'
<1>0. /\ MaxStep \in Nat /\ sealed \in Nat /\ sealed <= MaxStep /\ game[c] \in GameType
      /\ game[c].ran \in Steps /\ game[c].knows \in Steps /\ game[c].ran <= game[c].knows
      /\ conn[c] \in ConnType
  BY ConstantsAssumption DEF PTypeOK, Steps, GameType
<1>1. CASE Drop(c)
  <2>1. conn' \in [Client -> ConnType]
    BY <1>1 DEF Drop, PTypeOK, NoConn, ConnType
  <2> QED BY <1>1, <2>1 DEF Drop, PTypeOK, roomVars, clockVars
<1>2. CASE JoinResuming(c)
  <2>1. game' \in [Client -> GameType] /\ \A k \in Client : game'[k].ran <= game'[k].knows
    BY <1>2 DEF JoinResuming, PTypeOK, GameType
  <2> QED BY <1>2, <2>1, JoinedType DEF JoinResuming, PTypeOK, roomVars, clockVars
<1>3. CASE JoinForWorld(c)
  BY <1>3, JoinedType DEF JoinForWorld, PTypeOK, roomVars, clockVars
<1>4. CASE Hear(c)
  <2>1. \/ game[c].knows < sealed
        \/ conn[c].world \in [at : Steps, sent : Steps] /\ game[c].knows < conn[c].world.sent
    BY <1>0, <1>4 DEF Hear, ConnType
  <2>2. game[c].knows + 1 \in Steps /\ game[c].ran <= game[c].knows + 1
    BY <1>0, <2>1 DEF Steps
  <2>3. game' \in [Client -> GameType] /\ \A k \in Client : game'[k].ran <= game'[k].knows
    BY <1>4, <2>2 DEF Hear, PTypeOK, GameType
  <2> QED BY <1>4, <2>3 DEF Hear, PTypeOK, roomVars, clockVars
<1>5. CASE TakeWorld(c)
  <2>1. conn[c].world.at \in Steps
    BY <1>0, <1>5 DEF TakeWorld, ConnType
  <2>2. LoadsFrom(conn[c].world.at) \in GameType
    BY <2>1 DEF LoadsFrom, GameType
  <2>3. game' \in [Client -> GameType]
    BY <1>5, <2>2 DEF TakeWorld, PTypeOK
  <2>4. \A k \in Client : game'[k].ran <= game'[k].knows
    BY <1>5, <2>1 DEF TakeWorld, PTypeOK, LoadsFrom, Steps
  <2>5. conn' \in [Client -> ConnType]
    BY <1>5 DEF TakeWorld, PTypeOK, ConnType
  <2> QED BY <1>5, <2>3, <2>4, <2>5 DEF TakeWorld, PTypeOK, roomVars, clockVars
<1>6. CASE Loaded(c)
  <2>1. game' \in [Client -> GameType] /\ \A k \in Client : game'[k].ran <= game'[k].knows
    BY <1>0, <1>6 DEF Loaded, PTypeOK, GameType
  <2> QED BY <1>0, <1>6, <2>1, SendType DEF Loaded, PTypeOK, roomVars, clockVars
<1>7. CASE Run(c)
  <2>1. game[c].ran + 1 \in Steps /\ game[c].ran + 1 <= game[c].knows
    BY <1>0, <1>7 DEF Run, Steps
  <2>2. game' \in [Client -> GameType] /\ \A k \in Client : game'[k].ran <= game'[k].knows
    BY <1>7, <2>1 DEF Run, PTypeOK, GameType
  <2> QED BY <1>7, <2>2 DEF Run, PTypeOK, roomVars, clockVars
<1>8. CASE Report(c)
  <2>1. game' \in [Client -> GameType] /\ \A k \in Client : game'[k].ran <= game'[k].knows
    BY <1>0, <1>8 DEF Report, PTypeOK, GameType
  <2> QED BY <1>0, <1>8, <2>1, SendType DEF Report, PTypeOK, roomVars, clockVars
<1> QED BY <1>1, <1>2, <1>3, <1>4, <1>5, <1>6, <1>7, <1>8 DEF ClientStep

-----------------------------------------------------------------------------
(* The frontier and the members' paces                                     *)

\* While the frontier stands, a member may start to catch up, keep its pace
\* with no more hold on the clock than it had, or report a step in reach.
LEMMA PacesKept ==
    ASSUME PInv, sealed' = sealed,
           \A c \in Client :
            \/ member'[c].pace = CatchingUp
            \/ /\ member'[c].pace = member[c].pace
               /\ HoldsClock(member'[c]) => HoldsClock(member[c])
            \/ /\ member'[c].pace # Loading
               /\ HoldsClock(member'[c]) /\ member'[c].pace.kind = "following"
                    => \E at \in Speeds : sealed <= member'[c].pace.step + Window(at)
    PROVE  LoadingHolds' /\ PaceBound'
<1>1. CatchingUp # Loading /\ CatchingUp.kind # "following"
  BY DEF CatchingUp, Loading
<1>2. ASSUME NEW c \in Client, HoldsClock(member'[c]), member'[c].pace = Loading
      PROVE  sealed' = 0
  BY <1>1, <1>2 DEF PInv, LoadingHolds
<1>3. ASSUME NEW c \in Client, HoldsClock(member'[c]), member'[c].pace.kind = "following"
      PROVE  \E at \in Speeds : sealed' <= member'[c].pace.step + Window(at)
  BY <1>1, <1>3 DEF PInv, PaceBound
<1>4. LoadingHolds'
  BY <1>2 DEF LoadingHolds, HoldsClock
<1>5. PaceBound'
  BY <1>3 DEF PaceBound, HoldsClock, Window, Lead, Larger
<1> QED BY <1>4, <1>5

LEMMA PacesTick ==
    ASSUME PInv, NEW whole \in 0..1, Tick(whole)
    PROVE  LoadingHolds' /\ PaceBound'
<1> DEFINE clock == IF speed = 0 THEN ideal ELSE ideal + whole * speed
<1>1. sealed \in Nat /\ ideal \in Nat /\ speed \in Speeds /\ speed \in Nat
  BY ConstantsAssumption DEF PInv, PTypeOK, Steps
<1>2. Lead(speed) \in Nat /\ Window(speed) \in Nat
  BY <1>1, LeadWindowType
<1>3. /\ Slowest \in Nat
      /\ \A c \in Pacers : member[c].pace.kind = "following" /\ Slowest <= member[c].pace.step
  BY SlowestIsSlowest DEF PInv, Tick
<1>4. clock \in Nat
  <2>1. whole = 0 \/ whole = 1
    OBVIOUS
  <2> QED BY <1>1, <2>1
<1>5. sealed' = Frontier(clock, Slowest) /\ member' = member
  BY DEF Tick
<1> HIDE DEF clock
<1>6. sealed' <= Slowest + Window(speed) \/ sealed' = sealed
  BY <1>1, <1>2, <1>3, <1>4, <1>5 DEF Frontier, Larger, Smaller
<1>7. sealed' \in Nat
  BY <1>1, <1>2, <1>3, <1>4, <1>5 DEF Frontier, Larger, Smaller
<1>8. ASSUME NEW c \in Client, HoldsClock(member[c]) PROVE member[c].pace # Loading
  <2>1. Loading # CatchingUp
    BY DEF Loading, CatchingUp
  <2> QED BY <1>8, <2>1 DEF Tick, Runs, Pacers
<1>9. ASSUME NEW c \in Client, HoldsClock(member[c]), member[c].pace.kind = "following"
      PROVE  \E at \in Speeds : sealed' <= member[c].pace.step + Window(at)
  <2>1. c \in Pacers
    BY <1>9 DEF Pacers, CatchingUp
  <2>2. Slowest <= member[c].pace.step /\ member[c].pace.step \in Nat
    BY <1>3, <1>9, <2>1, PaceType DEF PInv, Steps, Loading, CatchingUp
  <2>3. CASE sealed' <= Slowest + Window(speed)
    BY <1>1, <1>2, <1>3, <1>7, <2>2, <2>3
  <2>4. CASE sealed' = sealed
    BY <1>9, <2>4 DEF PInv, PaceBound
  <2> QED BY <1>6, <2>3, <2>4
<1>10. LoadingHolds'
  BY <1>5, <1>8 DEF LoadingHolds, HoldsClock
<1>11. PaceBound'
  BY <1>5, <1>9 DEF PaceBound, HoldsClock, Window, Lead, Larger
<1> QED BY <1>10, <1>11

LEMMA PacesRoom ==
    ASSUME PInv,
           \/ SetSpeed \/ Crash
           \/ \E c \in Client, at \in 0..sealed : HandWorld(c, at)
           \/ \E c \in Client : Demote(c) \/ Progress(c) \/ Disconnected(c)
    PROVE  LoadingHolds' /\ PaceBound'
<1>0. member \in [Client -> MemberType]
  BY DEF PInv, PTypeOK
<1>1. CASE SetSpeed
  BY <1>1, PacesKept DEF SetSpeed
<1>2. CASE Crash
  <2>1. \A c \in Client : member'[c].pace = CatchingUp
    BY <1>0, <1>2, GoneType DEF Crash, Cut
  <2>2. CatchingUp # Loading /\ CatchingUp.kind # "following"
    BY DEF CatchingUp, Loading
  <2>3. LoadingHolds'
    BY <2>1, <2>2 DEF LoadingHolds
  <2>4. PaceBound'
    BY <2>1, <2>2 DEF PaceBound
  <2> QED BY <2>3, <2>4
<1>3. ASSUME NEW c \in Client, NEW at \in 0..sealed, HandWorld(c, at)
      PROVE  LoadingHolds' /\ PaceBound'
  <2>1. \A k \in Client : k # c => member'[k] = member[k]
    BY <1>0, <1>3 DEF HandWorld
  <2>2. member'[c].pace = (IF member[c].pace = Loading THEN Loading ELSE CatchingUp)
    BY <1>0, <1>3 DEF HandWorld, MemberType
  <2>3. member[c].pace = Loading => HoldsClock(member[c])
    BY <1>3 DEF HandWorld, HoldsClock
  <2> QED BY <1>3, <2>1, <2>2, <2>3, PacesKept DEF HandWorld, clockVars
<1>4. ASSUME NEW c \in Client, Demote(c) PROVE LoadingHolds' /\ PaceBound'
  <2>1. \A k \in Client : k # c => member'[k] = member[k]
    BY <1>0, <1>4 DEF Demote
  <2>2. member'[c].pace = CatchingUp
    BY <1>0, <1>4 DEF Demote, MemberType
  <2> QED BY <1>4, <2>1, <2>2, PacesKept DEF Demote, roomVars, clockVars
<1>5. ASSUME NEW c \in Client, Progress(c) PROVE LoadingHolds' /\ PaceBound'
  <2>1. Head(up[c]) \in Steps
    BY <1>5, QueueType DEF Progress, PInv, PTypeOK
  <2>2. CASE member' = member
    BY <1>5, <2>2, PacesKept DEF Progress, roomVars, clockVars
  <2>3. CASE member' = [member EXCEPT ![c] = Gone(@)]
    <3>1. \A k \in Client : k # c => member'[k] = member[k]
      BY <1>0, <2>3
    <3>2. member'[c].pace = CatchingUp
      BY <1>0, <2>3, GoneType
    <3> QED BY <1>5, <3>1, <3>2, PacesKept DEF Progress, roomVars, clockVars
  <2>4. CASE /\ member[c].linked /\ Head(up[c]) <= sealed
             /\ member' = [member EXCEPT ![c].pace = Paced(@, Head(up[c]))]
    <3>1. \A k \in Client : k # c => member'[k] = member[k]
      BY <1>0, <2>4
    <3>2. /\ member'[c].pace = Paced(member[c].pace, Head(up[c]))
          /\ member'[c].streaming = member[c].streaming
      BY <1>0, <2>4 DEF MemberType
    <3>3. /\ Paced(member[c].pace, Head(up[c])) \in Pace \ {Loading}
          /\ HoldsClock(member[c]) /\ Paced(member[c].pace, Head(up[c])).kind = "following"
                => \E at \in Speeds :
                    sealed <= Paced(member[c].pace, Head(up[c])).step + Window(at)
      BY <2>1, <2>4, PacedOK
    <3>4. HoldsClock(member'[c]) => HoldsClock(member[c])
      BY <3>2, <3>3 DEF HoldsClock
    <3>5. /\ member'[c].pace # Loading
          /\ HoldsClock(member'[c]) /\ member'[c].pace.kind = "following"
                => \E at \in Speeds : sealed <= member'[c].pace.step + Window(at)
      BY <3>2, <3>3, <3>4
    <3> QED BY <1>5, <3>1, <3>5, PacesKept DEF Progress, roomVars, clockVars
  <2> QED BY <1>5, <2>2, <2>3, <2>4 DEF Progress
<1>6. ASSUME NEW c \in Client, Disconnected(c) PROVE LoadingHolds' /\ PaceBound'
  <2>1. \A k \in Client : k # c => member'[k] = member[k]
    BY <1>0, <1>6 DEF Disconnected
  <2>2. member'[c].pace = CatchingUp
    BY <1>0, <1>6, GoneType DEF Disconnected
  <2> QED BY <1>6, <2>1, <2>2, PacesKept DEF Disconnected, roomVars, clockVars
<1> QED BY <1>1, <1>2, <1>3, <1>4, <1>5, <1>6

LEMMA PacesClient ==
    ASSUME PInv, NEW c \in Client, ClientStep(c)
    PROVE  LoadingHolds' /\ PaceBound'
<1>0. member \in [Client -> MemberType]
  BY DEF PInv, PTypeOK
<1>1. ASSUME NEW streaming \in BOOLEAN, Joined(c, streaming)
      PROVE  LoadingHolds' /\ PaceBound'
  <2>1. \A k \in Client : k # c => member'[k] = member[k]
    BY <1>0, <1>1 DEF Joined
  <2>2. member'[c].pace = CatchingUp
    BY <1>0, <1>1 DEF Joined
  <2> QED BY <1>1, <2>1, <2>2, PacesKept DEF Joined, roomVars, clockVars
<1>2. CASE member' = member /\ sealed' = sealed
  BY <1>2, PacesKept
<1>3. \/ Joined(c, TRUE) \/ Joined(c, FALSE)
      \/ member' = member /\ sealed' = sealed
  BY DEF ClientStep, Drop, JoinResuming, JoinForWorld, Hear, TakeWorld, Loaded, Run, Report,
         roomVars, clockVars
<1> QED BY <1>1, <1>2, <1>3

LEMMA PInvNext == PInv /\ [Next]_vars => PInv'
<1> SUFFICES ASSUME PInv, [Next]_vars PROVE PInv'
  OBVIOUS
<1>1. ASSUME NEW whole \in 0..1, Tick(whole) PROVE PInv'
  BY <1>1, TypeTick, PacesTick DEF PInv
<1>2. CASE \/ SetSpeed \/ Crash
           \/ \E c \in Client, at \in 0..sealed : HandWorld(c, at)
           \/ \E c \in Client : Demote(c) \/ Progress(c) \/ Disconnected(c)
  BY <1>2, TypeRoom, PacesRoom DEF PInv
<1>3. ASSUME NEW c \in Client, ClientStep(c) PROVE PInv'
  BY <1>3, TypeClient, PacesClient DEF PInv
<1>4. CASE UNCHANGED vars
  BY <1>4 DEF PInv, PTypeOK, LoadingHolds, PaceBound, HoldsClock, Window, Lead, Larger,
              vars, roomVars, clockVars, boundVars
<1> QED BY <1>1, <1>2, <1>3, <1>4 DEF Next, ClientStep

LEMMA PInvInit == Init => PInv
<1>1. Init => LoadingHolds /\ PaceBound
  BY DEF Init, LoadingHolds, PaceBound, Loading
<1> QED BY <1>1, TypeInit DEF PInv

LEMMA PInvTypeOK == PInv => TypeOK
<1> SUFFICES ASSUME PInv PROVE TypeOK
  OBVIOUS
<1>1. ASSUME NEW c \in Client
      PROVE  /\ member[c].linked \in BOOLEAN /\ member[c].streaming \in BOOLEAN
             /\ member[c].pace.kind \in {"loading", "following", "catchingUp"}
             /\ member[c].pace.step \in Steps
  BY PaceType, ConstantsAssumption DEF PInv, PTypeOK, MemberType, Steps, Loading, CatchingUp
<1>2. ASSUME NEW c \in Client
      PROVE  /\ game[c].phase \in {"none", "loading", "playing"}
             /\ game[c].ran \in Steps /\ game[c].knows \in Steps
  BY DEF PInv, PTypeOK, GameType
<1> QED BY <1>1, <1>2 DEF PInv, PTypeOK, TypeOK, Steps

-----------------------------------------------------------------------------
(* Nothing past the frontier                                               *)

LEMMA FrontierGrows ==
    ASSUME PInv, ~LosesTurns, [Next]_vars
    PROVE  sealed \in Nat /\ sealed' \in Nat /\ sealed <= sealed'
<1>0. sealed \in Nat /\ sealed' \in Nat
  BY PInvNext, ConstantsAssumption DEF PInv, PTypeOK, Steps
<1>1. ASSUME NEW whole \in 0..1, Tick(whole) PROVE sealed <= sealed'
  <2>1. PICK clock, slowest : sealed' = Frontier(clock, slowest)
    BY <1>1 DEF Tick
  <2>2. PICK capped : sealed' = Larger(capped, sealed)
    BY <2>1 DEF Frontier
  <2> QED BY <1>0, <2>2 DEF Larger
<1>2. CASE Crash
  BY <1>0, <1>2 DEF Crash
<1>3. CASE sealed' = sealed
  BY <1>0, <1>3
<1> QED BY <1>0, <1>1, <1>2, <1>3
        DEF Next, SetSpeed, HandWorld, Demote, Progress, Disconnected, Drop, JoinResuming,
            JoinForWorld, Joined, Hear, TakeWorld, Loaded, Run, Report, vars, roomVars, clockVars

\* What each of a player's parts may become for Behind to hold.
LEMMA BehindKept ==
    ASSUME PInv, Behind, PTypeOK', sealed \in Nat, sealed' \in Nat, sealed <= sealed',
           \A c \in Client :
            /\ game'[c].knows <= sealed' \/ game'[c].knows = game[c].knows
            /\ \/ up'[c] = up[c] \/ up'[c] = <<>>
               \/ up[c] # <<>> /\ up'[c] = Tail(up[c])
               \/ \E x \in Steps : x <= sealed /\ up'[c] = Append(up[c], x)
            /\ \/ conn'[c].world = None \/ conn'[c].world = conn[c].world
               \/ conn'[c].world.at <= sealed' /\ conn'[c].world.sent <= sealed'
    PROVE  Behind'
<1>0. Steps \subseteq Nat
  BY DEF Steps
<1> SUFFICES ASSUME NEW c \in Client
             PROVE  /\ game'[c].knows <= sealed'
                    /\ \A i \in 1..Len(up'[c]) : up'[c][i] <= sealed'
                    /\ conn'[c].world # None
                        => conn'[c].world.at <= sealed' /\ conn'[c].world.sent <= sealed'
  BY DEF Behind
<1>1. game'[c].knows <= sealed'
  <2>1. game[c].knows \in Nat /\ game[c].knows <= sealed
    BY <1>0 DEF Behind, PInv, PTypeOK, GameType
  <2> QED BY <2>1
<1>2. up[c] \in Seq(Steps) /\ \A i \in 1..Len(up[c]) : up[c][i] \in Nat /\ up[c][i] <= sealed'
  <2>1. up[c] \in Seq(Steps)
    BY DEF PInv, PTypeOK
  <2>2. \A i \in 1..Len(up[c]) : up[c][i] \in Steps
    BY <2>1
  <2>3. \A i \in 1..Len(up[c]) : up[c][i] <= sealed
    BY DEF Behind
  <2>4. \A x \in Nat : x <= sealed => x <= sealed'
    OBVIOUS
  <2> QED BY <1>0, <2>1, <2>2, <2>3, <2>4
<1>3. \A i \in 1..Len(up'[c]) : up'[c][i] <= sealed'
  <2>1. CASE up'[c] = up[c] \/ up'[c] = <<>>
    BY <1>2, <2>1
  <2>2. CASE up[c] # <<>> /\ up'[c] = Tail(up[c])
    <3>1. /\ Len(Tail(up[c])) = Len(up[c]) - 1 /\ Len(up[c]) \in Nat
          /\ \A i \in 1..Len(Tail(up[c])) : Tail(up[c])[i] = up[c][i + 1]
      BY <1>2, <2>2, QueueType
    <3> QED BY <1>2, <2>2, <3>1
  <2>3. CASE \E x \in Steps : x <= sealed /\ up'[c] = Append(up[c], x)
    <3>1. PICK x \in Steps : x <= sealed /\ up'[c] = Append(up[c], x)
      BY <2>3
    <3>2. x \in Nat /\ x <= sealed'
      BY <1>0, <3>1
    <3>3. ASSUME NEW i \in 1..Len(Append(up[c], x)) PROVE Append(up[c], x)[i] <= sealed'
      BY <1>2, <3>2
    <3> QED BY <3>1, <3>3
  <2> QED BY <2>1, <2>2, <2>3
<1>4. conn'[c].world # None => conn'[c].world.at <= sealed' /\ conn'[c].world.sent <= sealed'
  <2>1. CASE conn'[c].world = conn[c].world /\ conn[c].world # None
    <3>1. conn[c].world.at \in Nat /\ conn[c].world.sent \in Nat
      BY <1>0, <2>1 DEF PInv, PTypeOK, ConnType
    <3>2. conn[c].world.at <= sealed /\ conn[c].world.sent <= sealed
      BY <2>1 DEF Behind
    <3> QED BY <2>1, <3>1, <3>2
  <2> QED BY <2>1
<1> QED BY <1>1, <1>3, <1>4

LEMMA BehindInit == Init => Behind
<1> SUFFICES ASSUME Init PROVE Behind
  OBVIOUS
<1>1. NoWorld.knows = 0 /\ LoadsFrom(0).knows = 0 /\ NewConn.world = None
  BY DEF NoWorld, LoadsFrom, NewConn
<1>2. \A c \in Client : game[c].knows = 0 /\ conn[c].world = None /\ up[c] = <<>> /\ sealed = 0
  BY <1>1 DEF Init
<1> QED BY <1>2 DEF Behind

LEMMA BehindNext ==
    ASSUME PInv, Behind, ~LosesTurns, [Next]_vars
    PROVE  Behind' /\ (accused = {} => accused' = {})
<1>0. /\ PTypeOK' /\ sealed \in Nat /\ sealed' \in Nat /\ sealed <= sealed' /\ Steps \subseteq Nat
  BY PInvNext, FrontierGrows DEF PInv, Steps
<1>1. /\ game \in [Client -> GameType] /\ conn \in [Client -> ConnType]
      /\ up \in [Client -> Seq(Steps)] /\ member \in [Client -> MemberType]
  BY DEF PInv, PTypeOK
<1>2. \A c \in Client : /\ game[c].ran \in Steps /\ game[c].knows \in Nat
                        /\ game[c].ran <= game[c].knows /\ game[c].knows <= sealed
                        /\ game[c].ran <= sealed
  <2> TAKE c \in Client
  <2>1. game[c].ran \in Steps /\ game[c].knows \in Steps
    BY <1>1 DEF GameType
  <2>2. game[c].ran <= game[c].knows
    BY DEF PInv, PTypeOK
  <2>3. game[c].knows <= sealed
    BY DEF Behind
  <2>4. game[c].ran \in Nat /\ game[c].knows \in Nat
    BY <1>0, <2>1
  <2>5. game[c].ran <= sealed
    BY <1>0, <2>2, <2>3, <2>4
  <2> QED BY <2>1, <2>2, <2>3, <2>4, <2>5
<1>3. CASE UNCHANGED <<game, conn, up, accused>>
  BY <1>0, <1>3, BehindKept
<1>4. CASE Crash
  BY <1>0, <1>1, <1>4, BehindKept DEF Crash, Cut, NoConn
<1>5. ASSUME NEW c \in Client, NEW at \in 0..sealed, HandWorld(c, at)
      PROVE  Behind' /\ (accused = {} => accused' = {})
  <2>1. at <= sealed /\ at \in Nat
    BY <1>0
  <2>2. \A k \in Client : \/ conn'[k].world = conn[k].world
                          \/ conn'[k].world = [at |-> at, sent |-> sealed]
    BY <1>1, <1>5 DEF HandWorld, ConnType
  <2>3. [at |-> at, sent |-> sealed].at <= sealed' /\ [at |-> at, sent |-> sealed].sent <= sealed'
    BY <1>0, <2>1
  <2>4. UNCHANGED <<game, up, accused>>
    BY <1>5 DEF HandWorld
  <2> QED BY <1>0, <2>2, <2>3, <2>4, BehindKept
<1>6. ASSUME NEW c \in Client, Progress(c)
      PROVE  Behind' /\ (accused = {} => accused' = {})
  <2>1. Head(up[c]) <= sealed /\ Head(up[c]) \in Nat
    <3>1. up[c] \in Seq(Steps) /\ up[c] # <<>>
      BY <1>1, <1>6 DEF Progress
    <3>2. Head(up[c]) = up[c][1] /\ Len(up[c]) >= 1 /\ Head(up[c]) \in Steps /\ Len(up[c]) \in Nat
      BY <3>1, QueueType
    <3>3. up[c][1] <= sealed
      BY <3>2 DEF Behind
    <3> QED BY <1>0, <3>2, <3>3
  <2>2. accused' = accused
    BY <1>0, <1>6, <2>1 DEF Progress
  <2>3. \A k \in Client : up'[k] = up[k] \/ (up[k] # <<>> /\ up'[k] = Tail(up[k]))
    <3>1. up[c] # <<>> /\ up' = [up EXCEPT ![c] = Tail(@)]
      BY <1>6 DEF Progress
    <3>2. up'[c] = Tail(up[c])
      BY <1>1, <3>1
    <3>3. \A k \in Client : k # c => up'[k] = up[k]
      BY <1>1, <3>1
    <3> TAKE k \in Client
    <3>4. CASE k = c
      BY <3>1, <3>2, <3>4
    <3>5. CASE k # c
      BY <3>3, <3>5
    <3> QED BY <3>4, <3>5
  <2> QED BY <1>0, <1>6, <2>2, <2>3, BehindKept DEF Progress
<1>7. ASSUME NEW c \in Client, Drop(c) PROVE Behind' /\ (accused = {} => accused' = {})
  BY <1>0, <1>1, <1>7, BehindKept DEF Drop, NoConn
<1>8. ASSUME NEW c \in Client, JoinResuming(c) \/ JoinForWorld(c)
      PROVE  Behind' /\ (accused = {} => accused' = {})
  <2>1. \A k \in Client : game'[k].knows = game[k].knows
    <3>1. game' = [game EXCEPT ![c].reported = None] \/ game' = game
      BY <1>8 DEF JoinResuming, JoinForWorld
    <3> QED BY <1>1, <3>1 DEF GameType
  <2>2. \A k \in Client : conn'[k].world = None \/ conn'[k].world = conn[k].world
    <3>1. conn' = [conn EXCEPT ![c] = NewConn]
      BY <1>8 DEF JoinResuming, JoinForWorld, Joined
    <3> QED BY <1>1, <3>1 DEF NewConn
  <2>3. \A k \in Client : up'[k] = <<>> \/ up'[k] = up[k]
    BY <1>1, <1>8 DEF JoinResuming, JoinForWorld, Joined
  <2>4. accused' = accused
    BY <1>8 DEF JoinResuming, JoinForWorld, Joined
  <2> QED BY <1>0, <2>1, <2>2, <2>3, <2>4, BehindKept
<1>9. ASSUME NEW c \in Client, Hear(c) PROVE Behind' /\ (accused = {} => accused' = {})
  <2>1. game[c].knows < sealed
    <3>1. CASE conn[c].world = None
      BY <1>9, <3>1 DEF Hear
    <3>2. CASE conn[c].world # None
      <4>1. conn[c].world.sent \in Nat /\ conn[c].world.sent <= sealed
        BY <1>0, <1>1, <3>2 DEF Behind, ConnType
      <4> QED BY <1>0, <1>2, <1>9, <3>2, <4>1 DEF Hear
    <3> QED BY <3>1, <3>2
  <2>2. game'[c].knows <= sealed'
    BY <1>0, <1>1, <1>2, <1>9, <2>1 DEF Hear, GameType
  <2>3. \A k \in Client : k # c => game'[k] = game[k]
    BY <1>1, <1>9 DEF Hear
  <2> QED BY <1>0, <1>9, <2>2, <2>3, BehindKept DEF Hear
<1>10. ASSUME NEW c \in Client, TakeWorld(c) PROVE Behind' /\ (accused = {} => accused' = {})
  <2>1. conn[c].world.at \in Nat /\ conn[c].world.at <= sealed
    BY <1>0, <1>1, <1>10 DEF TakeWorld, Behind, ConnType
  <2>2. game'[c].knows <= sealed'
    BY <1>0, <1>1, <1>10, <2>1 DEF TakeWorld, LoadsFrom
  <2>3. \A k \in Client : k # c => game'[k] = game[k]
    BY <1>1, <1>10 DEF TakeWorld
  <2>4. \A k \in Client : conn'[k].world = None \/ conn'[k].world = conn[k].world
    BY <1>1, <1>10 DEF TakeWorld, ConnType
  <2> QED BY <1>0, <1>10, <2>2, <2>3, <2>4, BehindKept DEF TakeWorld
<1>11. ASSUME NEW c \in Client, Loaded(c) \/ Report(c)
       PROVE  Behind' /\ (accused = {} => accused' = {})
  <2>1. \A k \in Client : game'[k].knows = game[k].knows
    <3>1. CASE Loaded(c)
      BY <1>1, <3>1 DEF Loaded, GameType
    <3>2. CASE Report(c)
      BY <1>1, <3>2 DEF Report, GameType
    <3> QED BY <1>11, <3>1, <3>2
  <2>2. \A k \in Client : \/ up'[k] = up[k]
                          \/ up'[k] = Append(up[k], game[k].ran)
    BY <1>1, <1>11 DEF Loaded, Report, Send
  <2>3. UNCHANGED <<conn, accused>>
    BY <1>11 DEF Loaded, Report
  <2> QED BY <1>0, <1>2, <2>1, <2>2, <2>3, BehindKept
<1>12. ASSUME NEW c \in Client, Run(c) PROVE Behind' /\ (accused = {} => accused' = {})
  <2>1. \A k \in Client : game'[k].knows = game[k].knows
    BY <1>1, <1>12 DEF Run, GameType
  <2> QED BY <1>0, <1>12, <2>1, BehindKept DEF Run
<1>13. \/ UNCHANGED <<game, conn, up, accused>> \/ Crash
       \/ \E c \in Client, at \in 0..sealed : HandWorld(c, at)
       \/ \E c \in Client :
            \/ Progress(c) \/ Drop(c) \/ JoinResuming(c) \/ JoinForWorld(c)
            \/ Hear(c) \/ TakeWorld(c) \/ Loaded(c) \/ Run(c) \/ Report(c)
  BY DEF Next, Tick, SetSpeed, Demote, Disconnected, vars
<1> QED BY <1>3, <1>4, <1>5, <1>6, <1>7, <1>8, <1>9, <1>10, <1>11, <1>12, <1>13

-----------------------------------------------------------------------------
(* The theorems                                                            *)

\* In every state the program can reach, every part of the room's and the
\* players' state is of its type, streams go only to members with a
\* connection, and the two facts about the frontier below hold.
THEOREM PacingInvariant == Spec => []PInv
BY PInvInit, PInvNext, PTL DEF Spec

\* Every part of the room's and the players' state is of its type, and turns
\* are streamed only to members the room has a connection of (join_room,
\* progress, demote_stalled, offer_worlds, disconnected).
THEOREM PacingTypeCorrect == Spec => []TypeOK
BY PacingInvariant, PInvTypeOK, PTL

\* No step is sealed while a member the room still waits for loads the world
\* the game starts from (slowest_pacer), however the others join, stall and
\* are handed worlds.
THEOREM LoadingHoldsAlways == Spec => []LoadingHolds
<1>1. PInv => LoadingHolds
  BY DEF PInv
<1> QED BY <1>1, PacingInvariant, PTL

\* The frontier stays within the window of every member that paces the room,
\* for any input delay, backlog and set of speeds, through late reports,
\* stalls, worlds and restarts (Pacer::advance, progress, demote_stalled).
THEOREM PaceBoundAlways == Spec => []PaceBound
<1>1. PInv => PaceBound
  BY DEF PInv
<1> QED BY <1>1, PacingInvariant, PTL

\* Where a crash loses no turn of the log, no player that keeps to the
\* protocol is ever closed for progress beyond the frontier (progress), not
\* even with reports about worlds that were replaced meanwhile.
THEOREM NeverAccusedWithoutLoss ==
    ASSUME ~LosesTurns
    PROVE  Spec => []NeverAccused
<1> DEFINE Inv == PInv /\ Behind /\ NeverAccused
<1>1. Init => Inv
  BY PInvInit, BehindInit DEF Init, NeverAccused
<1>2. Inv /\ [Next]_vars => Inv'
  BY PInvNext, BehindNext DEF NeverAccused
<1>3. Inv => NeverAccused
  OBVIOUS
<1> QED BY <1>1, <1>2, <1>3, PTL DEF Spec

=============================================================================
