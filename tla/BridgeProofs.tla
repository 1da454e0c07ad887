---------------------------- MODULE BridgeProofs ----------------------------
(***************************************************************************)
(* That neither the hook nor the agent is ever sent what it refuses, that  *)
(* the agent knows which world the game plays, and that the game plays the *)
(* room's history in order, for every history, size of the queues, number  *)
(* of worlds handed out and of connections lost.                           *)
(*                                                                         *)
(* The two processes never know each other's state, so the argument is     *)
(* about what lies between them: all that is on its way to the hook, in    *)
(* one queue, leads from where the game is to where the agent stands, and  *)
(* all loads on their way, from the agent through the hook and back, are   *)
(* in the order they were ordered.                                         *)
(***************************************************************************)
EXTENDS Bridge, FiniteSetTheorems, SequenceTheorems, NaturalsInduction, TLAPS

Worlds == Played!Worlds
ToHook == [kind : {"Apply", "Release", "Load"}, at : Positions, of : Nat]
LoadMessage == [kind : {"Load"}, at : Worlds, of : Nat]
SaveMessage == [kind : {"Apply"}, at : Positions, of : Loads]
ToAgent == [kind : {"Loaded", "Ran", "Checkpoint", "Saved"}, at : Positions, of : Nat]
Mark == [at : Positions, of : Nat]

\* What the hook has yet to act on, sent or still to be sent, and what the agent
\* has yet to read.
Peeked == IF hook.peeked = None THEN <<>> ELSE <<hook.peeked>>
Flushed == Peeked \o toHook
Forth == Flushed \o outbox
Back == held \o (toAgent \o hook.out)

-----------------------------------------------------------------------------
(* Where the messages lead                                                 *)

AllSteps(p, q) == \A i \in (p + 1)..q : Log[i] = "step"

\* A message the hook may get when it was led to position p of the history.
Follows(m, p) ==
    \/ m.kind = "Load" /\ m.at \in Worlds
    \/ m.kind = "Apply" /\ p # None /\ m.at = p + 1 /\ Log[m.at] # "step"
    \/ m.kind = "Release" /\ p # None /\ m.at > p /\ AllSteps(p, m.at)

\* Where the messages of q lead from p, message by message.
Before(q, i, p) == IF i = 1 THEN p ELSE q[i - 1].at
End(q, p) == IF q = <<>> THEN p ELSE q[Len(q)].at
Leads(q, p) == \A i \in 1..Len(q) : Follows(q[i], Before(q, i, p))

\* What the hook was told so far leads to c: a world to load, or steps from
\* where the game is.
LedTo(load, g, t, c) ==
    IF load # None THEN c = load.at
    ELSE IF g.at = None THEN c = None /\ t.next = 1 /\ t.released = 0
    ELSE /\ c \in Positions /\ g.at <= c /\ AllSteps(g.at, c)
         /\ t.released = StepsIn(c) /\ t.next = StepsIn(g.at) + 1

GoesOn ==
    \E c \in Positions \cup {None} :
        /\ LedTo(hook.load, game, gate, c) /\ Leads(Forth, c)
        /\ world.is # "Fetching" => End(Forth, c) = follower.taken

-----------------------------------------------------------------------------
(* Which loads they are about                                              *)

IsLoad(m) == m.kind \in {"Load", "Loaded"}
MarksIn(q) == {[at |-> q[i].at, of |-> q[i].of] : i \in {j \in 1..Len(q) : IsLoad(q[j])}}

\* What is about a later load comes later, and the load itself before it.
Rises(q) ==
    \A i, j \in 1..Len(q) :
        i < j => q[i].of <= q[j].of /\ (IsLoad(q[j]) => q[i].of < q[j].of)
\* The messages of q are about loads from `low` to `high`, with those they say to
\* load past `low`.
Within(q, low, high) ==
    \A i \in 1..Len(q) : low <= q[i].of /\ q[i].of <= high /\ (IsLoad(q[i]) => low < q[i].of)

Pending == IF hook.load = None THEN <<>> ELSE <<hook.load>>
Top == IF hook.load = None THEN game.of ELSE hook.load.of

NumbersOK ==
    /\ game.of <= Top /\ Top <= orders /\ (hook.load # None => game.of < Top)
    /\ Rises(Back) /\ \A i \in 1..Len(Back) : Back[i].of <= game.of
    /\ Rises(Forth) /\ Within(Forth, Top, orders)
    /\ \A i \in 1..Len(outbox) : outbox[i].of = orders

\* The loads the agent waits to have answered are those on their way.
AnswersOK ==
    /\ \A i, j \in 1..Len(sentLoads) : i < j => sentLoads[i].of < sentLoads[j].of
    /\ {sentLoads[i] : i \in 1..Len(sentLoads)} =
            MarksIn(Back) \cup MarksIn(Pending) \cup MarksIn(Flushed)

\* What the agent takes the game to do.
AgentKnows ==
    /\ world = Ready =>
        /\ game.of = orders /\ sentLoads = <<>>
        /\ \A i \in 1..Len(Back) : Back[i].of = orders
    /\ progress # None => world = Ready /\ progress.of = orders
    /\ world.is = "Fetching" => outbox = <<>> /\ follower.taken = world.at

\* Each fetch is of a world the room handed out, for itself or for a loss.
CountsOK ==
    /\ used \in [worlds : 0..MaxWorlds, losses : 0..MaxLosses]
    /\ attempts + (IF conn # "streaming" THEN 1 ELSE 0) <= used.worlds + used.losses
    /\ orders + (IF world.is = "Fetching" THEN 1 ELSE 0) <= attempts + 1

AgentTypeOK ==
    /\ conn \in {"streaming", "joined", "away"}
    /\ follower \in [taken : Positions, got : Positions] /\ follower.taken <= follower.got
    /\ world \in {Ready} \cup {Loading(p) : p \in Worlds}
                \cup {Fetching(p, n) : p \in Worlds, n \in 1..attempts}
    /\ outbox \in Seq(ToHook) /\ Len(outbox) <= OutboxLimit + 1
    /\ sentLoads \in Seq(Mark)
    /\ orders \in Nat /\ attempts \in Nat
    /\ progress \in {None} \cup Mark /\ reported \in Progress
    /\ held \in Seq(ToAgent) /\ Len(held) <= HeldLimit
    /\ tasks \subseteq [kind : {"Fetch"}, attempt : 1..attempts]
                    \cup [kind : {"Ingest"}, of : Loads]
    /\ astray \subseteq {"Saved"}

HookTypeOK ==
    /\ toHook \in Seq(ToHook) /\ Len(toHook) <= LinkSize
    /\ toAgent \in Seq(ToAgent) /\ Len(toAgent) <= LinkSize
    /\ gate \in [next : Nat, released : Nat, loading : BOOLEAN]
    /\ gate.loading = (hook.load # None)
    /\ hook \in [load : {None} \cup LoadMessage, save : {None} \cup SaveMessage,
                 peeked : {None} \cup ToHook, out : Seq(ToAgent)]
    /\ Len(hook.out) <= 2
    /\ game \in [at : {None} \cup Positions, of : Nat]
    /\ fault = FALSE

BridgeInv ==
    /\ AgentTypeOK /\ HookTypeOK
    /\ GoesOn /\ NumbersOK /\ AnswersOK /\ AgentKnows /\ CountsOK

-----------------------------------------------------------------------------
(* Steps and positions                                                     *)

LEMMA LogFacts ==
    /\ Log \in Seq({"event", "save", "step"}) /\ Len(Log) \in Nat
    /\ Positions = 0..Len(Log) /\ Worlds \in SUBSET Positions
<1>1. Log \in Seq({"event", "save", "step"})
  BY BridgeAssumption
<1>2. Len(Log) \in Nat /\ DOMAIN Log = 1..Len(Log)
  BY <1>1
<1> QED BY <1>1, <1>2 DEF Positions, Worlds, Played!Worlds

\* No message, mark or position is None.
LEMMA NoneIsNone == None \notin Positions /\ None \notin Mark /\ None \notin ToHook
<1>1. /\ None \notin 0..Len(Log) /\ None \notin [at : 0..Len(Log), of : Nat]
      /\ None \notin [kind : {"Apply", "Release", "Load"}, at : 0..Len(Log), of : Nat]
  BY BridgeAssumption
<1> QED BY <1>1 DEF Positions, Mark, ToHook

LEMMA Subtypes == LoadMessage \subseteq ToHook /\ SaveMessage \subseteq ToHook
<1>1. Loads \subseteq Nat
  BY BridgeAssumption DEF Loads
<1> QED BY <1>1, LogFacts DEF LoadMessage, SaveMessage, ToHook

StepSet(p) == {i \in 1..p : Log[i] = "step"}

LEMMA StepSets ==
    ASSUME NEW p \in Nat
    PROVE  /\ IsFiniteSet(StepSet(p)) /\ StepsIn(p) = Cardinality(StepSet(p))
           /\ StepsIn(p) \in Nat
<1>1. IsFiniteSet(1..p) /\ StepSet(p) \in SUBSET (1..p)
  BY FS_Interval DEF StepSet
<1>2. IsFiniteSet(StepSet(p))
  BY <1>1, FS_Subset
<1>3. Cardinality(StepSet(p)) \in Nat
  BY <1>2, FS_CardinalityType
<1> QED BY <1>2, <1>3 DEF StepSet, StepsIn

LEMMA StepsNext ==
    ASSUME NEW p \in Nat
    PROVE  StepsIn(p + 1) = IF Log[p + 1] = "step" THEN StepsIn(p) + 1 ELSE StepsIn(p)
<1>1. CASE Log[p + 1] = "step"
  <2>1. StepSet(p + 1) = StepSet(p) \cup {p + 1} /\ (p + 1) \notin StepSet(p)
    BY <1>1 DEF StepSet
  <2>2. IsFiniteSet(StepSet(p)) /\ StepsIn(p) = Cardinality(StepSet(p))
    BY StepSets
  <2>3. Cardinality(StepSet(p) \cup {p + 1}) = Cardinality(StepSet(p)) + 1
    BY <2>1, <2>2, FS_AddElement
  <2>4. StepsIn(p + 1) = Cardinality(StepSet(p + 1))
    BY StepSets
  <2> QED BY <1>1, <2>1, <2>2, <2>3, <2>4
<1>2. CASE Log[p + 1] # "step"
  <2>1. StepSet(p + 1) = StepSet(p)
    BY <1>2 DEF StepSet
  <2>2. StepsIn(p + 1) = Cardinality(StepSet(p + 1)) /\ StepsIn(p) = Cardinality(StepSet(p))
    BY StepSets
  <2> QED BY <1>2, <2>1, <2>2
<1> QED BY <1>1, <1>2

LEMMA StepsGrow ==
    ASSUME NEW p \in Nat, NEW q \in Nat, p <= q
    PROVE  /\ StepsIn(p) <= StepsIn(q)
           /\ \A i \in (p + 1)..q : Log[i] = "step" => StepsIn(p) < StepsIn(q)
<1>1. IsFiniteSet(StepSet(q)) /\ StepsIn(q) = Cardinality(StepSet(q)) /\ StepsIn(q) \in Nat
  BY StepSets
<1>2. StepsIn(p) = Cardinality(StepSet(p)) /\ StepsIn(p) \in Nat
  BY StepSets
<1>3. StepSet(p) \in SUBSET StepSet(q)
  BY DEF StepSet
<1>4. /\ Cardinality(StepSet(p)) <= Cardinality(StepSet(q))
      /\ Cardinality(StepSet(q)) = Cardinality(StepSet(p)) => StepSet(q) = StepSet(p)
  BY <1>1, <1>3, FS_Subset
<1>5. ASSUME NEW i \in (p + 1)..q, Log[i] = "step" PROVE StepSet(q) # StepSet(p)
  <2>1. i \in StepSet(q) /\ i \notin StepSet(p)
    BY <1>5 DEF StepSet
  <2> QED BY <2>1
<1> QED BY <1>1, <1>2, <1>4, <1>5

\* The step that follows position a.
LEMMA NextStep ==
    ASSUME NEW a \in Nat, Log[a + 1] = "step", a + 1 \in 1..Len(Log)
    PROVE  PositionOf(StepsIn(a) + 1) = a + 1 /\ StepsIn(a + 1) = StepsIn(a) + 1
<1>1. StepsIn(a + 1) = StepsIn(a) + 1
  BY StepsNext
<1>2. DOMAIN Log = 1..Len(Log) /\ Len(Log) \in Nat
  BY LogFacts
<1>3. ASSUME NEW p \in DOMAIN Log, Log[p] = "step", StepsIn(p) = StepsIn(a) + 1
      PROVE  p = a + 1
  <2>0. p \in Nat
    BY <1>2
  <2>1. p \in Nat /\ StepsIn(a) \in Nat /\ StepsIn(p) \in Nat
    BY <2>0, StepSets
  <2>2. CASE p < a + 1
    <3>1. StepsIn(p) <= StepsIn(a)
      BY <2>1, <2>2, StepsGrow
    <3> QED BY <1>3, <2>1, <3>1
  <2>3. CASE p > a + 1
    <3>1. p \in ((a + 1) + 1)..p /\ a + 1 \in Nat /\ a + 1 <= p
      BY <2>1, <2>3
    <3>2. StepsIn(a + 1) < StepsIn(p)
      BY <1>3, <2>1, <3>1, StepsGrow
    <3> QED BY <1>1, <1>3, <2>1, <3>2
  <2> QED BY <2>1, <2>2, <2>3
<1>4. a + 1 \in DOMAIN Log
  BY <1>2
<1>5. PositionOf(StepsIn(a) + 1) \in DOMAIN Log
      /\ Log[PositionOf(StepsIn(a) + 1)] = "step"
      /\ StepsIn(PositionOf(StepsIn(a) + 1)) = StepsIn(a) + 1
  BY <1>1, <1>4 DEF PositionOf
<1> QED BY <1>1, <1>3, <1>5

\* Only steps lie between where the game is and what the hook was led to, so the
\* game may run exactly while it is not there.
LEMMA MayRunTo ==
    ASSUME NEW a \in Positions, NEW c \in Positions, a <= c, AllSteps(a, c)
    PROVE  /\ StepsIn(a) \in Nat /\ StepsIn(c) \in Nat
           /\ StepsIn(c) >= StepsIn(a) + 1 <=> a < c
           /\ a < c => /\ a + 1 \in Positions /\ Log[a + 1] = "step"
                       /\ PositionOf(StepsIn(a) + 1) = a + 1
                       /\ StepsIn(a + 1) = StepsIn(a) + 1
                       /\ AllSteps(a + 1, c)
<1>1. a \in Nat /\ c \in Nat /\ c <= Len(Log) /\ Len(Log) \in Nat
  BY LogFacts
<1>2. StepsIn(a) \in Nat /\ StepsIn(c) \in Nat
  BY <1>1, StepSets
<1>3. CASE a < c
  <2>1. a + 1 \in (a + 1)..c /\ a + 1 \in 1..Len(Log)
    BY <1>1, <1>3
  <2>2. Log[a + 1] = "step"
    BY <2>1 DEF AllSteps
  <2>3. StepsIn(a) < StepsIn(c)
    BY <1>1, <2>1, <2>2, StepsGrow
  <2>4. PositionOf(StepsIn(a) + 1) = a + 1 /\ StepsIn(a + 1) = StepsIn(a) + 1
    BY <1>1, <2>1, <2>2, NextStep
  <2>5. AllSteps(a + 1, c)
    BY <1>1 DEF AllSteps
  <2>6. a + 1 \in Positions
    BY <2>1, LogFacts
  <2> QED BY <1>2, <1>3, <2>2, <2>3, <2>4, <2>5, <2>6
<1>4. CASE ~(a < c)
  <2>1. a = c
    BY <1>1, <1>4
  <2> QED BY <1>2, <1>4, <2>1
<1> QED BY <1>3, <1>4

-----------------------------------------------------------------------------
(* Queues                                                                  *)

LEMMA HookTypes == \A m \in ToHook : m.at \in Positions /\ m.at # None /\ m.of \in Nat
BY NoneIsNone DEF ToHook

LEMMA TailEmpty ==
    ASSUME NEW S, NEW q \in Seq(S), q # <<>>
    PROVE  Tail(q) = <<>> <=> Len(q) = 1
<1>1. PICK t \in Seq(S) : t = Tail(q) /\ Len(t) = Len(q) - 1
  BY HeadTailProperties
<1>2. Len(q) \in Nat /\ Len(q) >= 1 /\ Len(t) \in Nat
  BY EmptySeq
<1>3. t # <<>> => Len(t) # 0
  BY EmptySeq
<1>4. t = <<>> => Len(t) = 0
  BY EmptySeq
<1> QED BY <1>1, <1>2, <1>3, <1>4

\* The first message is taken.
LEMMA LeadsTail ==
    ASSUME NEW q \in Seq(ToHook), q # <<>>, NEW p, Leads(q, p)
    PROVE  /\ Follows(Head(q), p) /\ Leads(Tail(q), Head(q).at)
           /\ End(Tail(q), Head(q).at) = End(q, p)
<1>1. Len(q) \in Nat /\ Len(q) >= 1 /\ Head(q) = q[1]
  BY EmptySeq
<1>2. Tail(q) \in Seq(ToHook) /\ Len(Tail(q)) = Len(q) - 1
      /\ \A i \in 1..Len(Tail(q)) : Tail(q)[i] = q[i + 1]
  BY HeadTailProperties
<1>3. Follows(Head(q), p)
  BY <1>1 DEF Leads, Before
<1>4. ASSUME NEW i \in 1..Len(Tail(q))
      PROVE  Follows(Tail(q)[i], Before(Tail(q), i, Head(q).at))
  <2>1. i \in Int /\ i + 1 \in 1..Len(q) /\ i + 1 # 1 /\ (i + 1) - 1 = i
    BY <1>1, <1>2
  <2>2. Follows(q[i + 1], q[i].at)
    BY <2>1 DEF Leads, Before
  <2>3. CASE i = 1
    BY <1>1, <1>2, <2>2, <2>3 DEF Before
  <2>4. CASE i # 1
    <3>1. i - 1 \in 1..Len(Tail(q)) /\ (i - 1) + 1 = i
      BY <1>1, <1>2, <2>1, <2>4
    <3>2. Tail(q)[i - 1] = q[i]
      BY <1>2, <3>1
    <3> QED BY <1>2, <2>2, <2>4, <3>2 DEF Before
  <2> QED BY <2>3, <2>4
<1>5. End(Tail(q), Head(q).at) = End(q, p)
  <2>1. CASE Len(q) = 1
    <3>1. Tail(q) = <<>>
      BY <1>2, <2>1, TailEmpty
    <3> QED BY <1>1, <2>1, <3>1 DEF End
  <2>2. CASE Len(q) # 1
    <3>1. Len(Tail(q)) \in 1..Len(Tail(q)) /\ Len(Tail(q)) + 1 = Len(q)
      BY <1>1, <1>2, <2>2
    <3>2. Tail(q) # <<>>
      BY <1>1, <2>2, TailEmpty
    <3>3. Tail(q)[Len(Tail(q))] = q[Len(q)]
      BY <1>2, <3>1
    <3> QED BY <3>2, <3>3 DEF End
  <2> QED BY <2>1, <2>2
<1> QED BY <1>3, <1>4, <1>5 DEF Leads

\* What was not sent yet is given up.
LEMMA LeadsPart ==
    ASSUME NEW q \in Seq(ToHook), NEW r \in Seq(ToHook), NEW p, Leads(q \o r, p)
    PROVE  Leads(q, p)
<1>1. Len(q) \in Nat /\ Len(r) \in Nat
  OBVIOUS
<1>2. Len(q \o r) = Len(q) + Len(r) /\ \A i \in 1..Len(q) : (q \o r)[i] = q[i]
  BY <1>1, ConcatProperties
<1>3. ASSUME NEW i \in 1..Len(q) PROVE Follows(q[i], Before(q, i, p))
  <2>1. i \in 1..Len(q \o r) /\ (i # 1 => i - 1 \in 1..Len(q))
    BY <1>1, <1>2
  <2>2. Follows((q \o r)[i], Before(q \o r, i, p))
    BY <2>1 DEF Leads
  <2>3. Before(q \o r, i, p) = Before(q, i, p)
    BY <1>2, <2>1 DEF Before
  <2> QED BY <1>2, <2>2, <2>3
<1> QED BY <1>3 DEF Leads

\* More is sent.
LEMMA LeadsOn ==
    ASSUME NEW q \in Seq(ToHook), NEW r \in Seq(ToHook), NEW p,
           Leads(q, p), Leads(r, End(q, p))
    PROVE  Leads(q \o r, p) /\ End(q \o r, p) = End(r, End(q, p))
<1>1. Len(q) \in Nat /\ Len(r) \in Nat
  OBVIOUS
<1>2. /\ Len(q \o r) = Len(q) + Len(r) /\ q \o r \in Seq(ToHook)
      /\ \A i \in 1..(Len(q) + Len(r)) :
            (q \o r)[i] = IF i <= Len(q) THEN q[i] ELSE r[i - Len(q)]
  BY ConcatProperties
<1>3. ASSUME NEW i \in 1..Len(q \o r) PROVE Follows((q \o r)[i], Before(q \o r, i, p))
  <2>1. CASE i <= Len(q)
    <3>1. i \in 1..Len(q) /\ (i # 1 => i - 1 \in 1..Len(q \o r) /\ i - 1 <= Len(q))
      BY <1>1, <1>2, <2>1
    <3>2. Before(q \o r, i, p) = Before(q, i, p)
      BY <1>2, <3>1 DEF Before
    <3>3. Follows(q[i], Before(q, i, p))
      BY <3>1 DEF Leads
    <3> QED BY <1>2, <2>1, <3>2, <3>3
  <2>2. CASE i > Len(q)
    <3>1. PICK j \in 1..Len(r) : j = i - Len(q)
      BY <1>1, <1>2, <2>2
    <3>2. (q \o r)[i] = r[j]
      BY <1>1, <1>2, <2>2, <3>1
    <3>3. Follows(r[j], Before(r, j, End(q, p)))
      BY <3>1 DEF Leads
    <3>4. Before(q \o r, i, p) = Before(r, j, End(q, p))
      <4>1. CASE j = 1 /\ q = <<>>
        BY <1>1, <3>1, <4>1, EmptySeq DEF Before, End
      <4>2. CASE j = 1 /\ q # <<>>
        <5>1. Len(q) >= 1 /\ i # 1 /\ i - 1 = Len(q) /\ i - 1 \in 1..(Len(q) + Len(r))
          BY <1>1, <3>1, <4>2, EmptySeq
        <5>2. (q \o r)[i - 1] = q[Len(q)]
          BY <1>1, <1>2, <5>1
        <5> QED BY <4>2, <5>1, <5>2 DEF Before, End
      <4>3. CASE j # 1
        <5>1. i # 1 /\ i - 1 \in 1..(Len(q) + Len(r)) /\ ~(i - 1 <= Len(q))
              /\ (i - 1) - Len(q) = j - 1
          BY <1>1, <3>1, <4>3
        <5>2. (q \o r)[i - 1] = r[j - 1]
          BY <1>2, <5>1
        <5> QED BY <4>3, <5>1, <5>2 DEF Before
      <4> QED BY <4>1, <4>2, <4>3
    <3> QED BY <3>2, <3>3, <3>4
  <2> QED BY <1>1, <1>2, <2>1, <2>2
<1>4. End(q \o r, p) = End(r, End(q, p))
  <2>1. CASE r = <<>>
    BY <2>1, ConcatEmptySeq DEF End
  <2>2. CASE r # <<>>
    <3>1. Len(r) >= 1 /\ Len(q) + Len(r) \in 1..(Len(q) + Len(r))
          /\ ~(Len(q) + Len(r) <= Len(q)) /\ (Len(q) + Len(r)) - Len(q) = Len(r)
      BY <1>1, <2>2, EmptySeq
    <3>2. (q \o r)[Len(q \o r)] = r[Len(r)]
      BY <1>2, <3>1
    <3>3. q \o r # <<>>
      BY <1>1, <1>2, <3>1, EmptySeq
    <3> QED BY <2>2, <3>2, <3>3 DEF End
  <2> QED BY <2>1, <2>2
<1> QED BY <1>3, <1>4 DEF Leads

LEMMA LeadsOne ==
    ASSUME NEW q \in Seq(ToHook), NEW m \in ToHook, NEW p, Leads(q, p), Follows(m, End(q, p))
    PROVE  Leads(Append(q, m), p) /\ End(Append(q, m), p) = m.at
<1>1. <<m>> \in Seq(ToHook) /\ Append(q, m) = q \o <<m>> /\ Len(<<m>>) = 1 /\ <<m>>[1] = m
  OBVIOUS
<1>2. Leads(<<m>>, End(q, p)) /\ End(<<m>>, End(q, p)) = m.at
  BY <1>1, EmptySeq DEF Leads, Before, End
<1>3. PICK one \in Seq(ToHook) : one = <<m>>
  BY <1>1
<1>4. Leads(one, End(q, p)) /\ End(one, End(q, p)) = m.at
  BY <1>2, <1>3
<1>5. Leads(q \o one, p) /\ End(q \o one, p) = End(one, End(q, p))
  BY <1>4, LeadsOn
<1> QED BY <1>1, <1>3, <1>4, <1>5

-----------------------------------------------------------------------------
(* Numbers in queues                                                       *)

Regroups(q, r, s) == (q \o r) \o s = q \o (r \o s)

LEMMA Regrouped ==
    ASSUME NEW S, NEW q \in Seq(S), NEW r \in Seq(S), NEW s \in Seq(S)
    PROVE  Regroups(q, r, s)
<1>1. (q \o r) \o s = q \o (r \o s)
  BY ConcatAssociative
<1> QED BY <1>1 DEF Regroups

\* What is in s is in q or, later, in r.
Joins(s, q, r) ==
    /\ Len(q) \in Nat /\ Len(r) \in Nat
    /\ \A i \in 1..Len(q) : i \in 1..Len(s) /\ s[i] = q[i]
    /\ \A j \in 1..Len(r) : Len(q) + j \in 1..Len(s) /\ s[Len(q) + j] = r[j]
    /\ \A k \in 1..Len(s) : k \in 1..Len(q) \/ \E j \in 1..Len(r) : k = Len(q) + j

LEMMA Joined ==
    ASSUME NEW S, NEW q \in Seq(S), NEW r \in Seq(S)
    PROVE  Joins(q \o r, q, r)
<1>1. Len(q) \in Nat /\ Len(r) \in Nat
  OBVIOUS
<1>2. /\ Len(q \o r) = Len(q) + Len(r) /\ q \o r \in Seq(S)
      /\ \A i \in 1..(Len(q) + Len(r)) :
            (q \o r)[i] = IF i <= Len(q) THEN q[i] ELSE r[i - Len(q)]
  BY ConcatProperties
<1>3. ASSUME NEW j \in 1..Len(r)
      PROVE  Len(q) + j \in 1..Len(q \o r) /\ (q \o r)[Len(q) + j] = r[j]
  <2>1. Len(q) + j \in 1..(Len(q) + Len(r)) /\ ~(Len(q) + j <= Len(q))
        /\ (Len(q) + j) - Len(q) = j
    BY <1>1
  <2> QED BY <1>2, <2>1
<1>4. ASSUME NEW i \in 1..Len(q) PROVE i \in 1..Len(q \o r) /\ (q \o r)[i] = q[i]
  BY <1>1, <1>2
<1>5. ASSUME NEW k \in 1..Len(q \o r), k \notin 1..Len(q)
      PROVE  \E j \in 1..Len(r) : k = Len(q) + j
  <2>1. k - Len(q) \in 1..Len(r) /\ k = Len(q) + (k - Len(q))
    BY <1>1, <1>2, <1>5
  <2> QED BY <2>1
<1> QED BY <1>1, <1>3, <1>4, <1>5 DEF Joins

LEMMA HeadAndTail ==
    ASSUME NEW S, NEW q \in Seq(S), q # <<>>
    PROVE  /\ Head(q) \in S /\ Tail(q) \in Seq(S) /\ q = <<Head(q)>> \o Tail(q)
           /\ Len(Tail(q)) = Len(q) - 1 /\ Len(q) \in Nat
<1>1. /\ Head(q) \in S /\ Tail(q) \in Seq(S) /\ Len(Tail(q)) = Len(q) - 1
      /\ \A i \in 1..Len(Tail(q)) : Tail(q)[i] = q[i + 1]
  BY HeadTailProperties
<1>2. PICK t \in Seq(S) : t = Tail(q)
  BY <1>1
<1>3. PICK m \in S : m = Head(q)
  BY <1>1
<1>4. Len(q) \in Nat /\ Len(q) >= 1 /\ q[1] = m
  BY <1>3, EmptySeq
<1>5. PICK one \in Seq(S) : one = <<m>> /\ Len(one) = 1 /\ one[1] = m
  <2>1. <<m>> \in Seq(S) /\ Len(<<m>>) = 1 /\ <<m>>[1] = m
    OBVIOUS
  <2> QED BY <2>1
<1>6. one \o t \in Seq(S) /\ Len(one \o t) = 1 + Len(t)
      /\ \A i \in 1..(1 + Len(t)) : (one \o t)[i] = IF i <= 1 THEN one[i] ELSE t[i - 1]
  BY <1>5, ConcatProperties
<1>7. Len(one \o t) = Len(q)
  BY <1>1, <1>2, <1>4, <1>6
<1>8. ASSUME NEW i \in 1..Len(q) PROVE q[i] = (one \o t)[i]
  <2>1. CASE i = 1
    BY <1>4, <1>5, <1>6, <1>7, <2>1
  <2>2. CASE i # 1
    <3>1. i - 1 \in 1..Len(t) /\ (i - 1) + 1 = i /\ i \in 1..(1 + Len(t)) /\ ~(i <= 1)
      BY <1>1, <1>2, <1>4, <2>2
    <3>2. t[i - 1] = q[i]
      BY <1>1, <1>2, <3>1
    <3> QED BY <1>6, <3>1, <3>2
  <2> QED BY <2>1, <2>2
<1>9. q = one \o t
  BY <1>6, <1>7, <1>8, SeqEqual
<1> QED BY <1>1, <1>2, <1>3, <1>4, <1>5, <1>9

\* What is about an earlier load is in the first of two queues.
Cross(q, r) ==
    \A i \in 1..Len(q), j \in 1..Len(r) :
        q[i].of <= r[j].of /\ (IsLoad(r[j]) => q[i].of < r[j].of)

LEMMA RisesOn ==
    ASSUME NEW S, NEW q \in Seq(S), NEW r \in Seq(S)
    PROVE  Rises(q \o r) <=> Rises(q) /\ Rises(r) /\ Cross(q, r)
<1> DEFINE s == q \o r
<1>1. /\ Len(q) \in Nat /\ Len(r) \in Nat
      /\ \A i \in 1..Len(q) : i \in 1..Len(s) /\ s[i] = q[i]
      /\ \A j \in 1..Len(r) : Len(q) + j \in 1..Len(s) /\ s[Len(q) + j] = r[j]
      /\ \A k \in 1..Len(s) : k \in 1..Len(q) \/ \E j \in 1..Len(r) : k = Len(q) + j
  <2>1. Joins(q \o r, q, r)
    BY Joined, Zenon
  <2> QED BY <2>1 DEF Joins
<1> HIDE DEF s
<1>2. ASSUME Rises(s) PROVE Rises(q) /\ Rises(r) /\ Cross(q, r)
  <2>1. Rises(q)
    BY <1>1, <1>2 DEF Rises
  <2>2. ASSUME NEW i \in 1..Len(r), NEW j \in 1..Len(r), i < j
        PROVE  r[i].of <= r[j].of /\ (IsLoad(r[j]) => r[i].of < r[j].of)
    <3>1. Len(q) + i < Len(q) + j
      BY <1>1, <2>2
    <3>2. /\ s[Len(q) + i].of <= s[Len(q) + j].of
          /\ IsLoad(s[Len(q) + j]) => s[Len(q) + i].of < s[Len(q) + j].of
      BY <1>1, <1>2, <3>1 DEF Rises
    <3> QED BY <1>1, <3>2
  <2>3. ASSUME NEW i \in 1..Len(q), NEW j \in 1..Len(r)
        PROVE  q[i].of <= r[j].of /\ (IsLoad(r[j]) => q[i].of < r[j].of)
    <3>1. i < Len(q) + j
      BY <1>1
    <3>2. s[i].of <= s[Len(q) + j].of
          /\ (IsLoad(s[Len(q) + j]) => s[i].of < s[Len(q) + j].of)
      BY <1>1, <1>2, <3>1 DEF Rises
    <3> QED BY <1>1, <3>2
  <2> QED BY <2>1, <2>2, <2>3 DEF Rises, Cross
<1>3. ASSUME Rises(q), Rises(r), Cross(q, r) PROVE Rises(s)
  <2> SUFFICES ASSUME NEW i \in 1..Len(s), NEW j \in 1..Len(s), i < j
               PROVE  s[i].of <= s[j].of /\ (IsLoad(s[j]) => s[i].of < s[j].of)
    BY DEF Rises
  <2>1. CASE j \in 1..Len(q)
    <3>1. i \in 1..Len(q)
      BY <1>1, <2>1
    <3> QED BY <1>1, <1>3, <2>1, <3>1 DEF Rises
  <2>2. ASSUME NEW b \in 1..Len(r), j = Len(q) + b, i \in 1..Len(q)
        PROVE  s[i].of <= s[j].of /\ (IsLoad(s[j]) => s[i].of < s[j].of)
    BY <1>1, <1>3, <2>2 DEF Cross
  <2>3. ASSUME NEW b \in 1..Len(r), j = Len(q) + b, NEW a \in 1..Len(r), i = Len(q) + a
        PROVE  s[i].of <= s[j].of /\ (IsLoad(s[j]) => s[i].of < s[j].of)
    <3>1. a < b
      BY <1>1, <2>3
    <3> QED BY <1>1, <1>3, <2>3, <3>1 DEF Rises
  <2> QED BY <1>1, <2>1, <2>2, <2>3
<1> QED BY <1>2, <1>3 DEF s

LEMMA WithinOn ==
    ASSUME NEW S, NEW q \in Seq(S), NEW r \in Seq(S), NEW low, NEW high
    PROVE  Within(q \o r, low, high) <=> Within(q, low, high) /\ Within(r, low, high)
<1> DEFINE s == q \o r
<1>1. /\ Len(q) \in Nat /\ Len(r) \in Nat
      /\ \A i \in 1..Len(q) : i \in 1..Len(s) /\ s[i] = q[i]
      /\ \A j \in 1..Len(r) : Len(q) + j \in 1..Len(s) /\ s[Len(q) + j] = r[j]
      /\ \A k \in 1..Len(s) : k \in 1..Len(q) \/ \E j \in 1..Len(r) : k = Len(q) + j
  <2>1. Joins(q \o r, q, r)
    BY Joined, Zenon
  <2> QED BY <2>1 DEF Joins
<1> HIDE DEF s
<1>2. Within(s, low, high) => Within(q, low, high) /\ Within(r, low, high)
  <2> SUFFICES ASSUME Within(s, low, high)
               PROVE  Within(q, low, high) /\ Within(r, low, high)
    OBVIOUS
  <2>1. ASSUME NEW i \in 1..Len(q)
        PROVE  low <= q[i].of /\ q[i].of <= high /\ (IsLoad(q[i]) => low < q[i].of)
    <3>1. i \in 1..Len(s) /\ s[i] = q[i]
      BY <1>1
    <3> QED BY <3>1 DEF Within
  <2>2. ASSUME NEW j \in 1..Len(r)
        PROVE  low <= r[j].of /\ r[j].of <= high /\ (IsLoad(r[j]) => low < r[j].of)
    <3>1. PICK k \in 1..Len(s) : s[k] = r[j]
      BY <1>1
    <3> QED BY <3>1 DEF Within
  <2> QED BY <2>1, <2>2 DEF Within
<1>3. ASSUME Within(q, low, high), Within(r, low, high) PROVE Within(s, low, high)
  <2>1. ASSUME NEW k \in 1..Len(s)
        PROVE  low <= s[k].of /\ s[k].of <= high /\ (IsLoad(s[k]) => low < s[k].of)
    <3>1. (\E i \in 1..Len(q) : s[k] = q[i]) \/ (\E j \in 1..Len(r) : s[k] = r[j])
      BY <1>1
    <3> QED BY <1>3, <3>1 DEF Within
  <2> QED BY <2>1 DEF Within
<1> QED BY <1>2, <1>3 DEF s

\* Messages are added to and taken from the marks in a queue.
MarkOf(m) == IF IsLoad(m) THEN {[at |-> m.at, of |-> m.of]} ELSE {}

LEMMA MarksOn ==
    ASSUME NEW S, NEW q \in Seq(S), NEW r \in Seq(S)
    PROVE  MarksIn(q \o r) = MarksIn(q) \cup MarksIn(r)
<1> DEFINE s == q \o r
<1>1. /\ Len(q) \in Nat /\ Len(r) \in Nat
      /\ \A i \in 1..Len(q) : i \in 1..Len(s) /\ s[i] = q[i]
      /\ \A j \in 1..Len(r) : Len(q) + j \in 1..Len(s) /\ s[Len(q) + j] = r[j]
      /\ \A k \in 1..Len(s) : k \in 1..Len(q) \/ \E j \in 1..Len(r) : k = Len(q) + j
  <2>1. Joins(q \o r, q, r)
    BY Joined, Zenon
  <2> QED BY <2>1 DEF Joins
<1> HIDE DEF s
<1>2. ASSUME NEW x \in MarksIn(s) PROVE x \in MarksIn(q) \cup MarksIn(r)
  <2>1. PICK k \in 1..Len(s) : IsLoad(s[k]) /\ x = [at |-> s[k].at, of |-> s[k].of]
    BY <1>2 DEF MarksIn
  <2>2. CASE k \in 1..Len(q)
    BY <1>1, <2>1, <2>2 DEF MarksIn
  <2>3. ASSUME NEW j \in 1..Len(r), k = Len(q) + j PROVE x \in MarksIn(r)
    <3>1. s[k] = r[j]
      BY <1>1, <2>3
    <3> QED BY <2>1, <3>1 DEF MarksIn
  <2> QED BY <1>1, <2>2, <2>3
<1>3. ASSUME NEW x \in MarksIn(q) PROVE x \in MarksIn(s)
  <2>1. PICK i \in 1..Len(q) : IsLoad(q[i]) /\ x = [at |-> q[i].at, of |-> q[i].of]
    BY <1>3 DEF MarksIn
  <2> QED BY <1>1, <2>1 DEF MarksIn
<1>4. ASSUME NEW x \in MarksIn(r) PROVE x \in MarksIn(s)
  <2>1. PICK j \in 1..Len(r) : IsLoad(r[j]) /\ x = [at |-> r[j].at, of |-> r[j].of]
    BY <1>4 DEF MarksIn
  <2>2. PICK k \in 1..Len(s) : k = Len(q) + j /\ s[k] = r[j]
    BY <1>1
  <2> QED BY <2>1, <2>2 DEF MarksIn
<1>5. MarksIn(s) = MarksIn(q) \cup MarksIn(r)
  BY <1>2, <1>3, <1>4
<1> QED BY <1>5 DEF s

LEMMA OneOf ==
    ASSUME NEW m
    PROVE  /\ Rises(<<m>>) /\ MarksIn(<<m>>) = MarkOf(m) /\ MarksIn(<<>>) = {}
           /\ Rises(<<>>) /\ \A low, high : Within(<<>>, low, high)
           /\ \A low, high : Within(<<m>>, low, high) <=>
                low <= m.of /\ m.of <= high /\ (IsLoad(m) => low < m.of)
<1>1. PICK one : one = <<m>>
  OBVIOUS
<1>2. Len(one) = 1 /\ one[1] = m
  BY <1>1
<1>3. PICK none : none = <<>> /\ Len(none) = 0
  OBVIOUS
<1>4. Rises(one) /\ Rises(none)
  BY <1>2, <1>3 DEF Rises
<1>5. MarksIn(none) = {}
  BY <1>3 DEF MarksIn
<1>6. MarksIn(one) = MarkOf(m)
  BY <1>2 DEF MarksIn, MarkOf
<1>7. \A low, high : Within(none, low, high)
  BY <1>3 DEF Within
<1>8. \A low, high : Within(one, low, high) <=>
        low <= m.of /\ m.of <= high /\ (IsLoad(m) => low < m.of)
  BY <1>2 DEF Within
<1> QED BY <1>1, <1>3, <1>4, <1>5, <1>6, <1>7, <1>8

-----------------------------------------------------------------------------
(* What pump sends                                                         *)

LEMMA Induction ==
    ASSUME NEW T \in SUBSET Nat, 0 \in T, \A n \in T : n + 1 \in T
    PROVE  T = Nat
<1> SUFFICES ASSUME Nat \ T # {} PROVE FALSE
  OBVIOUS
<1>1. PICK R : R = OpToRel(<, Nat)
  OBVIOUS
<1>2. IsWellFoundedOn(R, Nat)
  BY <1>1, NatLessThanWellFounded
<1>3. R = {ss \in Nat \X Nat : ss[1] < ss[2]}
  BY <1>1 DEF OpToRel
<1>4. Nat \ T \in SUBSET Nat
  OBVIOUS
<1>5. PICK x \in Nat \ T : \A y \in Nat \ T : ~(<<y, x>> \in R)
  BY <1>2, <1>4, WFMin
<1>6. x # 0 /\ x - 1 \in Nat /\ (x - 1) + 1 = x
  BY <1>5
<1>7. x - 1 \in Nat \ T
  BY <1>6
<1>8. <<x - 1, x>> \in Nat \X Nat /\ <<x - 1, x>>[1] = x - 1 /\ <<x - 1, x>>[2] = x
      /\ x - 1 < x
  BY <1>6
<1>9. <<x - 1, x>> \in R
  BY <1>3, <1>8
<1> QED BY <1>5, <1>7, <1>9

\* The recursive function has the values it says.
LEMMA SentIs ==
    ASSUME NEW from \in Positions
    PROVE  /\ Sent(from)[from] = <<>>
           /\ \A p \in (from + 1)..Len(Log) : Sent(from)[p] = SendsToo(Sent(from)[p - 1], p)
<1> DEFINE KeepOn(f, p) == SendsToo(f[p - 1], p)
           Is(f, n) == f = [p \in from..n |-> IF p = from THEN <<>> ELSE KeepOn(f, p)]
           Defined == {n \in Nat : \E f : Is(f, from + n)}
<1>1. from \in Nat /\ Len(Log) \in Nat /\ from <= Len(Log)
  BY LogFacts
<1>2. Len(Log) - from \in Defined
  <2>1. 0 \in Defined
    <3>1. PICK f : f = [p \in from..(from + 0) |-> <<>>]
      OBVIOUS
    <3>2. \A p \in from..(from + 0) : p = from
      BY <1>1
    <3>3. f = [p \in from..(from + 0) |-> IF p = from THEN <<>> ELSE KeepOn(f, p)]
      BY <3>1, <3>2
    <3> QED BY <3>3
  <2>2. ASSUME NEW n \in Defined PROVE n + 1 \in Defined
    <3>1. PICK m \in Nat : m = from + n /\ from <= m /\ from + (n + 1) = m + 1
      BY <1>1, <2>2
    <3>2. PICK f : Is(f, m)
      BY <2>2, <3>1
    <3>3. PICK last : last = KeepOn(f, m + 1)
      OBVIOUS
    <3>4. PICK g : g = [p \in from..(m + 1) |-> IF p = m + 1 THEN last ELSE f[p]]
      OBVIOUS
    <3>5. ASSUME NEW p \in from..(m + 1)
          PROVE  g[p] = IF p = from THEN <<>> ELSE KeepOn(g, p)
      <4>1. CASE p = from
        <5>1. p # m + 1 /\ p \in from..m /\ p \in from..(m + 1)
          BY <1>1, <3>1, <4>1
        <5>2. g[p] = f[p]
          BY <3>4, <5>1
        <5>3. f[p] = <<>>
          BY <3>2, <4>1, <5>1
        <5> QED BY <4>1, <5>2, <5>3
      <4>2. CASE p # from /\ p # m + 1
        <5>1. p \in from..m /\ p - 1 \in from..(m + 1) /\ p - 1 # m + 1
          BY <1>1, <3>1, <4>2
        <5>2. g[p] = f[p] /\ g[p - 1] = f[p - 1]
          BY <3>4, <4>2, <5>1
        <5>3. f[p] = KeepOn(f, p)
          BY <3>2, <4>2, <5>1
        <5> QED BY <4>2, <5>2, <5>3
      <4>3. CASE p = m + 1
        <5>1. p - 1 \in from..(m + 1) /\ p - 1 # m + 1 /\ p - 1 = m /\ p # from
          BY <1>1, <3>1, <4>3
        <5>2. g[p] = last /\ g[p - 1] = f[p - 1]
          BY <3>4, <4>3, <5>1
        <5> QED BY <3>3, <4>3, <5>1, <5>2
      <4> QED BY <4>1, <4>2, <4>3
    <3> HIDE DEF KeepOn
    <3>6. g = [p \in from..(m + 1) |-> IF p = from THEN <<>> ELSE KeepOn(g, p)]
      BY <3>4, <3>5
    <3>7. Is(g, m + 1)
      BY <3>6
    <3>8. n + 1 \in Nat
      BY <2>2
    <3> HIDE DEF Is
    <3>9. Is(g, from + (n + 1))
      BY <3>1, <3>7
    <3> QED BY <3>8, <3>9
  <2> HIDE DEF Is
  <2>3. Defined = Nat
    <3>1. Defined \in SUBSET Nat
      OBVIOUS
    <3> HIDE DEF Defined
    <3> QED BY <2>1, <2>2, <3>1, Induction
  <2>4. Len(Log) - from \in Nat
    BY <1>1
  <2> HIDE DEF Defined
  <2> QED BY <2>3, <2>4
<1>3. \E f : Is(f, Len(Log))
  <2>1. from + (Len(Log) - from) = Len(Log)
    BY <1>1
  <2> HIDE DEF Is
  <2> QED BY <1>2, <2>1
<1>4. PICK f : Is(f, Len(Log)) /\ f = Sent(from)
  <2>1. Sent(from) = CHOOSE f : Is(f, Len(Log))
    BY DEF Sent
  <2> HIDE DEF Is
  <2> QED BY <1>3, <2>1
<1>5. \A p \in from..Len(Log) : f[p] = IF p = from THEN <<>> ELSE KeepOn(f, p)
  BY <1>4
<1> HIDE DEF Is
<1>6. from \in from..Len(Log) /\ \A p \in (from + 1)..Len(Log) : p \in from..Len(Log) /\ p # from
  BY <1>1
<1>7. f[from] = <<>> /\ \A p \in (from + 1)..Len(Log) : f[p] = KeepOn(f, p)
  BY <1>5, <1>6
<1> QED BY <1>4, <1>7

\* The messages s lead from `from` to p, and are no loads.
SentOK(s, from, p) ==
    /\ s \in Seq(ToHook) /\ Leads(s, from) /\ End(s, from) = p
    /\ \A i \in 1..Len(s) : s[i].of = orders /\ s[i].kind \in {"Apply", "Release"}
    /\ s = <<>> <=> p = from
    /\ s # <<>> => (s[Len(s)].kind = "Release" <=> Log[p] = "step")

LEMMA SendsTooOK ==
    ASSUME orders \in Nat, NEW from \in Positions, NEW p \in Positions, p + 1 \in Positions,
           from <= p, NEW s, SentOK(s, from, p), NEW t, t = SendsToo(s, p + 1)
    PROVE  /\ SentOK(t, from, p + 1)
           /\ Len(t) = IF Log[p + 1] = "step" /\ s # <<>> /\ Log[p] = "step" THEN Len(s)
                       ELSE Len(s) + 1
<1>1. /\ p \in Nat /\ from \in Nat /\ p # None /\ p + 1 # from /\ p + 1 > p
      /\ Len(s) \in Nat /\ s \in Seq(ToHook)
  BY LogFacts, NoneIsNone DEF SentOK
<1>2. ASSUME NEW m \in ToHook, m.at = p + 1, m.of = orders, Follows(m, p),
             m.kind \in {"Apply", "Release"}, m.kind = "Release" <=> Log[p + 1] = "step",
             t = Append(s, m)
      PROVE  SentOK(t, from, p + 1) /\ Len(t) = Len(s) + 1
  <2>1. t \in Seq(ToHook) /\ Len(t) = Len(s) + 1 /\ t[Len(t)] = m
        /\ \A i \in 1..Len(s) : t[i] = s[i]
    <3>1. t \in Seq(ToHook) /\ Len(t) = Len(s) + 1
          /\ \A i \in 1..(Len(s) + 1) : t[i] = IF i <= Len(s) THEN s[i] ELSE m
      BY <1>1, <1>2, AppendProperties, SMTT(30)
    <3> QED BY <1>1, <3>1
  <2>2. Leads(t, from) /\ End(t, from) = p + 1
    BY <1>1, <1>2, LeadsOne DEF SentOK
  <2>3. t # <<>>
    BY <1>1, <2>1, EmptySeq
  <2>4. ASSUME NEW i \in 1..Len(t)
        PROVE  t[i].of = orders /\ t[i].kind \in {"Apply", "Release"}
    <3>1. CASE i \in 1..Len(s)
      BY <2>1, <3>1 DEF SentOK
    <3>2. CASE i \notin 1..Len(s)
      <4>1. i = Len(t)
        BY <1>1, <2>1, <3>2
      <4> QED BY <1>2, <2>1, <4>1
    <3> QED BY <3>1, <3>2
  <2> QED BY <1>1, <1>2, <2>1, <2>2, <2>3, <2>4 DEF SentOK
<1>3. CASE Log[p + 1] # "step"
  <2>1. PICK m \in ToHook : m = Message("Apply", p + 1, orders)
    BY DEF Message, ToHook
  <2>2. m.at = p + 1 /\ m.of = orders /\ m.kind = "Apply"
    BY <2>1 DEF Message
  <2>3. t = Append(s, m)
    BY <1>3, <2>1 DEF SendsToo
  <2>4. Follows(m, p)
    BY <1>1, <1>3, <2>2 DEF Follows
  <2> QED BY <1>2, <1>3, <2>2, <2>3, <2>4
<1>4. PICK m \in ToHook : m = Message("Release", p + 1, orders)
  BY DEF Message, ToHook
<1>5. m.at = p + 1 /\ m.of = orders /\ m.kind = "Release"
  BY <1>4 DEF Message
<1>6. CASE Log[p + 1] = "step" /\ ~(s # <<>> /\ Log[p] = "step")
  <2>1. t = Append(s, m)
    BY <1>4, <1>6 DEF SendsToo, SentOK
  <2>2. AllSteps(p, p + 1)
    BY <1>1, <1>6 DEF AllSteps
  <2>3. Follows(m, p)
    BY <1>1, <1>5, <2>2 DEF Follows
  <2> QED BY <1>2, <1>5, <1>6, <2>1, <2>3
<1>7. CASE Log[p + 1] = "step" /\ s # <<>> /\ Log[p] = "step"
  <2>1. t = [s EXCEPT ![Len(s)] = m] /\ s[Len(s)].kind = "Release"
    BY <1>4, <1>7 DEF SendsToo, SentOK
  <2>2. Len(s) \in 1..Len(s)
    BY <1>1, <1>7, EmptySeq
  <2>3. /\ t \in Seq(ToHook) /\ Len(t) = Len(s)
        /\ \A i \in 1..Len(s) : t[i] = IF i = Len(s) THEN m ELSE s[i]
    BY <1>1, <2>1, <2>2, ExceptSeq
  <2>4. t # <<>> /\ t[Len(t)] = m
    BY <2>2, <2>3, EmptySeq
  <2>5. End(t, from) = p + 1
    BY <1>5, <2>4 DEF End
  <2>6. ASSUME NEW i \in 1..Len(t) PROVE Follows(t[i], Before(t, i, from))
    <3>1. i \in Int /\ (i # 1 => i - 1 \in 1..Len(s) /\ i - 1 # Len(s)) /\ i \in 1..Len(s)
      BY <1>1, <2>3
    <3>2. Before(t, i, from) = Before(s, i, from) /\ Follows(s[i], Before(s, i, from))
      BY <2>3, <3>1 DEF Before, Leads, SentOK
    <3>3. CASE i # Len(s)
      BY <2>3, <3>1, <3>2, <3>3
    <3>4. CASE i = Len(s)
      <4>1. s[i].at = p /\ s[i].kind = "Release"
        BY <1>7, <2>1, <3>4 DEF SentOK, End
      <4>2. PICK b : b = Before(s, i, from)
        OBVIOUS
      <4>3. b \in Nat
        <5>1. CASE i = 1
          BY <1>1, <4>2, <5>1 DEF Before
        <5>2. CASE i # 1
          <6>1. s[i - 1] \in ToHook
            BY <1>1, <3>1, <5>2, ElementOfSeq
          <6> QED BY <4>2, <5>2, <6>1, LogFacts DEF Before, ToHook
        <5> QED BY <5>1, <5>2
      <4>4. b # None /\ p > b /\ AllSteps(b, p)
        BY <3>2, <4>1, <4>2 DEF Follows
      <4>5. p + 1 > b /\ AllSteps(b, p + 1)
        BY <1>1, <1>7, <4>3, <4>4 DEF AllSteps
      <4> QED BY <1>5, <2>3, <3>2, <3>4, <4>2, <4>4, <4>5 DEF Follows
    <3> QED BY <3>3, <3>4
  <2>7. \A i \in 1..Len(t) : t[i].of = orders /\ t[i].kind \in {"Apply", "Release"}
    BY <1>5, <2>3 DEF SentOK
  <2> QED BY <1>1, <1>5, <1>7, <2>3, <2>4, <2>5, <2>6, <2>7 DEF SentOK, Leads
<1> QED BY <1>3, <1>6, <1>7

LEMMA SentLeads ==
    ASSUME orders \in Nat, NEW from \in Positions, NEW to \in Positions, from <= to
    PROVE  /\ SentOK(Sent(from)[to], from, to)
           /\ from < to =>
                Len(Sent(from)[to]) =
                    IF Log[to] = "step" /\ Sent(from)[to - 1] # <<>> /\ Log[to - 1] = "step"
                    THEN Len(Sent(from)[to - 1]) ELSE Len(Sent(from)[to - 1]) + 1
<1>1. from \in Nat /\ to \in Nat /\ Len(Log) \in Nat /\ to <= Len(Log)
  BY LogFacts
<1> DEFINE OK == {n \in Nat : from + n <= Len(Log) => SentOK(Sent(from)[from + n], from, from + n)}
<1>2. 0 \in OK
  <2>1. PICK none : none = <<>> /\ none \in Seq(ToHook) /\ Len(none) = 0
    <3>1. <<>> \in Seq(ToHook) /\ Len(<<>>) = 0
      OBVIOUS
    <3> QED BY <3>1
  <2>2. SentOK(none, from, from)
    BY <2>1 DEF SentOK, Leads, End
  <2>3. Sent(from)[from] = none /\ from + 0 = from
    BY <1>1, <2>1, SentIs
  <2> QED BY <2>2, <2>3
<1>3. ASSUME NEW p \in Positions, from <= p, p + 1 \in Positions, SentOK(Sent(from)[p], from, p)
      PROVE  /\ SentOK(Sent(from)[p + 1], from, p + 1)
             /\ Len(Sent(from)[p + 1]) =
                    IF Log[p + 1] = "step" /\ Sent(from)[p] # <<>> /\ Log[p] = "step"
                    THEN Len(Sent(from)[p]) ELSE Len(Sent(from)[p]) + 1
  <2>1. p \in Nat /\ p + 1 \in (from + 1)..Len(Log) /\ (p + 1) - 1 = p
    BY <1>1, <1>3, LogFacts
  <2>2. Sent(from)[p + 1] = SendsToo(Sent(from)[p], p + 1)
    BY <2>1, SentIs
  <2>3. PICK s, t : s = Sent(from)[p] /\ t = Sent(from)[p + 1]
    OBVIOUS
  <2>4. SentOK(s, from, p) /\ t = SendsToo(s, p + 1)
    BY <1>3, <2>2, <2>3
  <2>5. /\ SentOK(t, from, p + 1)
        /\ Len(t) = IF Log[p + 1] = "step" /\ s # <<>> /\ Log[p] = "step" THEN Len(s)
                    ELSE Len(s) + 1
    BY <1>3, <2>4, SendsTooOK
  <2> QED BY <2>3, <2>5
<1>4. ASSUME NEW n \in OK PROVE n + 1 \in OK
  <2> SUFFICES ASSUME from + (n + 1) <= Len(Log)
               PROVE  SentOK(Sent(from)[from + (n + 1)], from, from + (n + 1))
    OBVIOUS
  <2>1. PICK p \in Nat : p = from + n /\ from + (n + 1) = p + 1
    BY <1>1
  <2>2. p \in Positions /\ p + 1 \in Positions /\ from <= p /\ p <= Len(Log)
    BY <1>1, <2>1, LogFacts
  <2>3. SentOK(Sent(from)[p], from, p)
    BY <1>4, <2>1, <2>2
  <2> QED BY <1>3, <2>1, <2>2, <2>3
<1>5. OK = Nat
  <2>1. OK \in SUBSET Nat
    OBVIOUS
  <2> HIDE DEF OK
  <2> QED BY <1>2, <1>4, <2>1, Induction
<1>6. ASSUME NEW p \in Positions, from <= p PROVE SentOK(Sent(from)[p], from, p)
  <2>1. p - from \in Nat /\ from + (p - from) = p /\ p <= Len(Log)
    BY <1>1, <1>6, LogFacts
  <2>2. p - from \in OK
    BY <1>5, <2>1
  <2> QED BY <2>1, <2>2
<1>7. CASE from < to
  <2>1. to - 1 \in Positions /\ from <= to - 1 /\ (to - 1) + 1 = to
    BY <1>1, <1>7, LogFacts
  <2>2. SentOK(Sent(from)[to - 1], from, to - 1)
    BY <1>6, <2>1
  <2>3. PICK p \in Positions : p = to - 1 /\ p + 1 = to
    BY <2>1
  <2> QED BY <1>3, <1>7, <2>1, <2>2, <2>3
<1>8. CASE ~(from < to)
  BY <1>6, <1>8
<1> QED BY <1>7, <1>8

-----------------------------------------------------------------------------
(* Messages on their way                                                   *)

LEMMA Single == ASSUME NEW S, NEW m \in S PROVE \E one \in Seq(S) : one = <<m>>
<1>1. <<m>> \in Seq(S)
  OBVIOUS
<1> QED BY <1>1

LEMMA Empty == ASSUME NEW S PROVE \E none \in Seq(S) : none = <<>>
<1>1. <<>> \in Seq(S)
  OBVIOUS
<1> QED BY <1>1

LEMMA TakeFirst ==
    ASSUME NEW S, NEW q \in Seq(S), NEW r \in Seq(S), q # <<>>
    PROVE  q \o r = <<Head(q)>> \o (Tail(q) \o r)
<1>1. PICK h \in S : h = Head(q)
  BY HeadAndTail
<1>2. PICK t \in Seq(S) : t = Tail(q)
  BY HeadAndTail
<1>3. PICK one \in Seq(S) : one = <<h>>
  BY Single
<1>4. q = one \o t
  BY <1>1, <1>2, <1>3, HeadAndTail
<1>5. (one \o t) \o r = one \o (t \o r)
  <2>1. Regroups(one, t, r)
    BY Regrouped, Zenon
  <2> QED BY <2>1 DEF Regroups
<1> QED BY <1>1, <1>2, <1>3, <1>4, <1>5

LEMMA MoveFirst ==
    ASSUME NEW S, NEW q \in Seq(S), NEW r \in Seq(S), r # <<>>
    PROVE  q \o r = Append(q, Head(r)) \o Tail(r)
<1>1. PICK h \in S : h = Head(r)
  BY HeadAndTail
<1>2. PICK t \in Seq(S) : t = Tail(r)
  BY HeadAndTail
<1>3. PICK one \in Seq(S) : one = <<h>>
  BY Single
<1>4. r = one \o t
  BY <1>1, <1>2, <1>3, HeadAndTail
<1>5. (q \o one) \o t = q \o (one \o t)
  <2>1. Regroups(q, one, t)
    BY Regrouped, Zenon
  <2> QED BY <2>1 DEF Regroups
<1>6. Append(q, h) = q \o one
  BY <1>3, AppendIsConcat
<1> QED BY <1>1, <1>2, <1>4, <1>5, <1>6

AppendsOn(q, r, m) == q \o Append(r, m) = Append(q \o r, m)

LEMMA AppendOn ==
    ASSUME NEW S, NEW q \in Seq(S), NEW r \in Seq(S), NEW m \in S
    PROVE  AppendsOn(q, r, m)
<1>1. PICK one \in Seq(S) : one = <<m>>
  BY Single
<1>2. Append(r, m) = r \o one
  BY <1>1, AppendIsConcat
<1>3. q \o r \in Seq(S)
  BY ConcatProperties
<1>4. Append(q \o r, m) = (q \o r) \o one
  BY <1>1, <1>3, AppendIsConcat
<1>5. (q \o r) \o one = q \o (r \o one)
  <2>1. Regroups(q, r, one)
    BY Regrouped, Zenon
  <2> QED BY <2>1 DEF Regroups
<1> QED BY <1>2, <1>4, <1>5 DEF AppendsOn

LEMMA Queues ==
    ASSUME AgentTypeOK, HookTypeOK
    PROVE  /\ Peeked \in Seq(ToHook) /\ Flushed \in Seq(ToHook) /\ Forth \in Seq(ToHook)
           /\ toHook \in Seq(ToHook) /\ outbox \in Seq(ToHook)
           /\ held \in Seq(ToAgent) /\ toAgent \in Seq(ToAgent) /\ hook.out \in Seq(ToAgent)
           /\ toAgent \o hook.out \in Seq(ToAgent) /\ Back \in Seq(ToAgent)
           /\ Pending \in Seq(ToHook)
<1>1. /\ toHook \in Seq(ToHook) /\ outbox \in Seq(ToHook)
      /\ held \in Seq(ToAgent) /\ toAgent \in Seq(ToAgent) /\ hook.out \in Seq(ToAgent)
      /\ hook.peeked \in {None} \cup ToHook /\ hook.load \in {None} \cup ToHook
  BY Subtypes DEF AgentTypeOK, HookTypeOK
<1>2. PICK p : p = hook.peeked
  OBVIOUS
<1>3. PICK l : l = hook.load
  OBVIOUS
<1>4. <<>> \in Seq(ToHook) /\ \A m \in ToHook : <<m>> \in Seq(ToHook)
  OBVIOUS
<1>5. Peeked \in Seq(ToHook)
  BY <1>1, <1>2, <1>4 DEF Peeked
<1>6. Pending \in Seq(ToHook)
  BY <1>1, <1>3, <1>4 DEF Pending
<1>7. Flushed \in Seq(ToHook)
  BY <1>1, <1>5, ConcatProperties DEF Flushed
<1>8. Forth \in Seq(ToHook)
  BY <1>1, <1>7, ConcatProperties DEF Forth
<1>9. toAgent \o hook.out \in Seq(ToAgent)
  BY <1>1, ConcatProperties
<1>10. Back \in Seq(ToAgent)
  BY <1>1, <1>9, ConcatProperties DEF Back
<1> QED BY <1>1, <1>5, <1>6, <1>7, <1>8, <1>9, <1>10

LEMMA FlushMoves ==
    ASSUME AgentTypeOK, HookTypeOK, Flush
    PROVE  /\ Forth' = Forth /\ Back' = Back
           /\ Flushed' = Append(Flushed, Head(outbox)) /\ Head(outbox) \in ToHook
<1>1. /\ outbox # <<>> /\ toHook' = Append(toHook, Head(outbox)) /\ outbox' = Tail(outbox)
      /\ UNCHANGED <<hook, held, toAgent>>
  BY DEF Flush, theHook
<1>2. Head(outbox) \in ToHook
  BY <1>1, Queues, HeadAndTail
<1>3. Peeked' = Peeked /\ Back' = Back
  BY <1>1 DEF Peeked, Back
<1>4. Flushed' = Append(Flushed, Head(outbox))
  <2>1. Peeked \in Seq(ToHook) /\ toHook \in Seq(ToHook)
    BY Queues
  <2>2. AppendsOn(Peeked, toHook, Head(outbox))
    BY <1>2, <2>1, AppendOn, Zenon
  <2> QED BY <1>1, <1>3, <2>2 DEF Flushed, AppendsOn
<1>5. Forth' = Forth
  BY <1>1, <1>4, Queues, MoveFirst DEF Forth
<1> QED BY <1>2, <1>3, <1>4, <1>5

\* Handle takes what comes first.
LEMMA TakeMoves ==
    ASSUME AgentTypeOK, HookTypeOK, HasIncoming, Take, hook'.peeked = None, UNCHANGED outbox
    PROVE  /\ Incoming \in ToHook
           /\ Flushed' \in Seq(ToHook) /\ Flushed = <<Incoming>> \o Flushed'
           /\ Forth' \in Seq(ToHook) /\ Forth = <<Incoming>> \o Forth'
<1>1. PICK none \in Seq(ToHook) : none = <<>>
  BY Empty
<1>2. Peeked' = none
  BY <1>1 DEF Peeked
<1>3. /\ Incoming \in ToHook /\ toHook' \in Seq(ToHook)
      /\ Flushed' = toHook' /\ Flushed = <<Incoming>> \o toHook'
  <2>1. CASE hook.peeked # None
    <3>1. Incoming = hook.peeked /\ toHook' = toHook /\ Peeked = <<hook.peeked>>
      BY <2>1 DEF Incoming, Take, Peeked
    <3>2. hook.peeked \in ToHook
      BY <2>1 DEF HookTypeOK
    <3>3. none \o toHook = toHook
      BY <1>1, Queues, ConcatEmptySeq
    <3> QED BY <1>1, <1>2, <3>1, <3>2, <3>3, Queues DEF Flushed
  <2>2. CASE hook.peeked = None
    <3>1. /\ toHook # <<>> /\ Incoming = Head(toHook) /\ toHook' = Tail(toHook)
          /\ Peeked = none
      BY <1>1, <2>2 DEF Incoming, Take, Peeked, HasIncoming
    <3>2. /\ Head(toHook) \in ToHook /\ Tail(toHook) \in Seq(ToHook)
          /\ toHook = <<Head(toHook)>> \o Tail(toHook)
      BY <3>1, Queues, HeadAndTail
    <3>3. none \o toHook = toHook /\ none \o Tail(toHook) = Tail(toHook)
      BY <1>1, <3>2, Queues, ConcatEmptySeq
    <3> QED BY <1>2, <3>1, <3>2, <3>3 DEF Flushed
  <2> QED BY <2>1, <2>2
<1>4. PICK one \in Seq(ToHook) : one = <<Incoming>>
  BY <1>3, Single
<1>5. PICK q \in Seq(ToHook) : q = toHook'
  BY <1>3
<1>6. (one \o q) \o outbox = one \o (q \o outbox) /\ q \o outbox \in Seq(ToHook)
  <2>1. outbox \in Seq(ToHook)
    BY Queues
  <2>2. (one \o q) \o outbox = one \o (q \o outbox)
    <3>1. Regroups(one, q, outbox)
      BY <2>1, Regrouped, Zenon
    <3> QED BY <3>1 DEF Regroups
  <2> QED BY <2>1, <2>2, ConcatProperties
<1>7. Forth' = q \o outbox /\ Forth = (one \o q) \o outbox
  BY <1>3, <1>4, <1>5 DEF Forth
<1> QED BY <1>3, <1>4, <1>6, <1>7

\* What is kept for later stays first.
LEMMA PeekMoves ==
    ASSUME AgentTypeOK, HookTypeOK, HasIncoming, Take, hook'.peeked = Incoming, UNCHANGED outbox
    PROVE  Flushed' = Flushed /\ Forth' = Forth /\ Incoming \in ToHook
<1>1. PICK none \in Seq(ToHook) : none = <<>>
  BY Empty
<1>2. Flushed' = Flushed /\ Incoming \in ToHook
  <2>1. CASE hook.peeked # None
    <3>1. Incoming = hook.peeked /\ toHook' = toHook /\ Peeked' = Peeked
      BY <2>1 DEF Incoming, Take, Peeked
    <3> QED BY <2>1, <3>1 DEF Flushed, HookTypeOK
  <2>2. CASE hook.peeked = None
    <3>1. /\ toHook # <<>> /\ Incoming = Head(toHook) /\ toHook' = Tail(toHook)
          /\ Peeked = none
      BY <1>1, <2>2 DEF Incoming, Take, Peeked, HasIncoming
    <3>2. /\ Head(toHook) \in ToHook /\ toHook = <<Head(toHook)>> \o Tail(toHook)
      BY <3>1, Queues, HeadAndTail
    <3>3. Peeked' = <<Head(toHook)>>
      BY <3>1, <3>2, NoneIsNone DEF Peeked
    <3>4. none \o toHook = toHook
      BY <1>1, Queues, ConcatEmptySeq
    <3> QED BY <3>1, <3>2, <3>3, <3>4 DEF Flushed
  <2> QED BY <2>1, <2>2
<1>3. Forth' = Forth
  BY <1>2 DEF Forth
<1> QED BY <1>2, <1>3

LEMMA HookSendsMoves ==
    ASSUME AgentTypeOK, HookTypeOK, HookSends
    PROVE  Back' = Back /\ Head(hook.out) \in ToAgent /\ Tail(hook.out) \in Seq(ToAgent)
           /\ Len(Tail(hook.out)) = Len(hook.out) - 1
<1>1. /\ hook.out # <<>> /\ toAgent' = Append(toAgent, Head(hook.out))
      /\ hook'.out = Tail(hook.out) /\ held' = held
  BY DEF HookSends, agent, HookTypeOK
<1>2. /\ Head(hook.out) \in ToAgent /\ Tail(hook.out) \in Seq(ToAgent)
      /\ Len(Tail(hook.out)) = Len(hook.out) - 1
  BY <1>1, Queues, HeadAndTail
<1>3. toAgent \o hook.out = toAgent' \o hook'.out
  BY <1>1, Queues, MoveFirst
<1> QED BY <1>1, <1>2, <1>3 DEF Back

LEMMA HoldMoves ==
    ASSUME AgentTypeOK, HookTypeOK, Hold
    PROVE  Back' = Back /\ Head(toAgent) \in ToAgent /\ Tail(toAgent) \in Seq(ToAgent)
           /\ Len(Tail(toAgent)) = Len(toAgent) - 1
<1>1. /\ toAgent # <<>> /\ toAgent' = Tail(toAgent) /\ held' = Append(held, Head(toAgent))
      /\ hook' = hook
  BY DEF Hold, theHook
<1>2. /\ Head(toAgent) \in ToAgent /\ Tail(toAgent) \in Seq(ToAgent)
      /\ Len(Tail(toAgent)) = Len(toAgent) - 1
      /\ toAgent = <<Head(toAgent)>> \o Tail(toAgent)
  BY <1>1, Queues, HeadAndTail
<1>3. PICK one \in Seq(ToAgent) : one = <<Head(toAgent)>>
  BY <1>2, Single
<1>4. PICK t \in Seq(ToAgent) : t = Tail(toAgent)
  BY <1>2
<1>5. PICK o \in Seq(ToAgent) : o = hook.out
  BY Queues
<1>6. Back = held \o ((one \o t) \o o)
  BY <1>2, <1>3, <1>4, <1>5 DEF Back
<1>7. (one \o t) \o o = one \o (t \o o) /\ t \o o \in Seq(ToAgent)
  <2>1. (one \o t) \o o = one \o (t \o o)
    <3>1. Regroups(one, t, o)
      BY Regrouped, Zenon
    <3> QED BY <3>1 DEF Regroups
  <2> QED BY <2>1, ConcatProperties
<1>8. held \o (one \o (t \o o)) = (held \o one) \o (t \o o)
  <2>1. PICK u \in Seq(ToAgent) : u = t \o o
    BY <1>7
  <2>2. PICK h \in Seq(ToAgent) : h = held
    BY Queues
  <2>3. (h \o one) \o u = h \o (one \o u)
    <3>1. Regroups(h, one, u)
      BY Regrouped, Zenon
    <3> QED BY <3>1 DEF Regroups
  <2> QED BY <2>1, <2>2, <2>3
<1>9. Append(held, Head(toAgent)) = held \o one
  BY <1>2, <1>3, Queues, AppendIsConcat
<1>10. Back' = (held \o one) \o (t \o o)
  BY <1>1, <1>4, <1>5, <1>9 DEF Back
<1> QED BY <1>2, <1>6, <1>7, <1>8, <1>10

\* read_hook takes what was said first.
ToRead == IF held # <<>> THEN Head(held) ELSE Head(toAgent)

LEMMA ReadMoves ==
    ASSUME AgentTypeOK, HookTypeOK, ReadHook
    PROVE  /\ ToRead \in ToAgent /\ Back' \in Seq(ToAgent) /\ Back = <<ToRead>> \o Back'
           /\ held' \in Seq(ToAgent) /\ Len(held') <= Len(held)
           /\ toAgent' \in Seq(ToAgent) /\ Len(toAgent') <= Len(toAgent)
<1>0. hook' = hook
  BY DEF ReadHook, theHook
<1>1. PICK o \in Seq(ToAgent) : o = hook.out
  BY Queues
<1>2. CASE held # <<>>
  <2>1. held' = Tail(held) /\ toAgent' = toAgent /\ ToRead = Head(held)
    BY <1>2 DEF ReadHook, ToRead
  <2>2. /\ Head(held) \in ToAgent /\ Tail(held) \in Seq(ToAgent)
        /\ Len(Tail(held)) = Len(held) - 1 /\ Len(held) \in Nat
    BY <1>2, Queues, HeadAndTail
  <2>3. held \o (toAgent \o o) = <<Head(held)>> \o (Tail(held) \o (toAgent \o o))
    BY <1>1, <1>2, Queues, TakeFirst
  <2>4. Tail(held) \o (toAgent \o o) \in Seq(ToAgent)
    BY <1>1, <2>2, Queues, ConcatProperties
  <2>5. Len(toAgent) \in Nat /\ toAgent \in Seq(ToAgent)
    BY Queues
  <2>6. Back = held \o (toAgent \o o) /\ Back' = Tail(held) \o (toAgent \o o)
    BY <1>0, <1>1, <2>1 DEF Back
  <2> QED BY <2>1, <2>2, <2>3, <2>4, <2>5, <2>6
<1>3. CASE held = <<>>
  <2>1. held' = held /\ toAgent # <<>> /\ toAgent' = Tail(toAgent) /\ ToRead = Head(toAgent)
    BY <1>3 DEF ReadHook, ToRead
  <2>2. /\ Head(toAgent) \in ToAgent /\ Tail(toAgent) \in Seq(ToAgent)
        /\ Len(Tail(toAgent)) = Len(toAgent) - 1 /\ Len(toAgent) \in Nat
    BY <2>1, Queues, HeadAndTail
  <2>3. toAgent \o o = <<Head(toAgent)>> \o (Tail(toAgent) \o o)
    BY <2>1, Queues, TakeFirst
  <2>4. Tail(toAgent) \o o \in Seq(ToAgent) /\ toAgent \o o \in Seq(ToAgent)
    BY <2>2, Queues, ConcatProperties
  <2>5. held \in Seq(ToAgent) /\ Len(held) \in Nat
    BY Queues
  <2>6. held \o (toAgent \o o) = toAgent \o o
        /\ held \o (Tail(toAgent) \o o) = Tail(toAgent) \o o
    BY <1>3, <2>4, ConcatEmptySeq
  <2>7. Back = held \o (toAgent \o o) /\ Back' = held \o (Tail(toAgent) \o o)
    BY <1>0, <1>1, <2>1 DEF Back
  <2>8. Back = toAgent \o o /\ Back' = Tail(toAgent) \o o
    BY <2>6, <2>7
  <2>9. Back = <<ToRead>> \o Back' /\ Back' \in Seq(ToAgent)
    BY <2>1, <2>3, <2>4, <2>8
  <2> QED BY <2>1, <2>2, <2>5, <2>9
<1> QED BY <1>2, <1>3

\* The hook says something more.
LEMMA SayMoves ==
    ASSUME AgentTypeOK, HookTypeOK, hook.out = <<>>, hook'.out \in Seq(ToAgent),
           UNCHANGED <<held, toAgent>>
    PROVE  Back' = Back \o hook'.out
<1>1. PICK o \in Seq(ToAgent) : o = hook'.out
  OBVIOUS
<1>2. toAgent \o <<>> = toAgent
  BY Queues, ConcatEmptySeq
<1>3. Back = held \o toAgent
  BY <1>2 DEF Back
<1>4. Back' = held \o (toAgent \o o)
  BY <1>1 DEF Back
<1>5. held \o (toAgent \o o) = (held \o toAgent) \o o
  <2>1. held \in Seq(ToAgent) /\ toAgent \in Seq(ToAgent)
    BY Queues
  <2>2. (held \o toAgent) \o o = held \o (toAgent \o o)
    <3>1. Regroups(held, toAgent, o)
      BY <2>1, Regrouped, Zenon
    <3> QED BY <3>1 DEF Regroups
  <2> QED BY <2>2
<1> QED BY <1>1, <1>3, <1>4, <1>5

-----------------------------------------------------------------------------
(* What a step leaves alone                                                *)

LEMMA LeadsNext ==
    ASSUME NEW q \in Seq(ToHook), NEW m \in ToHook, NEW p, Leads(<<m>> \o q, p)
    PROVE  Follows(m, p) /\ Leads(q, m.at) /\ End(q, m.at) = End(<<m>> \o q, p)
<1>1. PICK one \in Seq(ToHook) : one = <<m>>
  BY Single
<1>2. PICK all \in Seq(ToHook) : all = one \o q
  BY ConcatProperties
<1>3. all # <<>> /\ Head(all) = m /\ Tail(all) = q
  BY <1>1, <1>2
<1> QED BY <1>1, <1>2, <1>3, LeadsTail

LEMMA GoesOnKept ==
    ASSUME GoesOn, Forth' = Forth, hook'.load = hook.load, UNCHANGED <<game, gate>>,
           follower'.taken = follower.taken,
           world.is = "Fetching" => world'.is = "Fetching"
    PROVE  GoesOn'
<1>1. PICK c \in Positions \cup {None} :
        /\ LedTo(hook.load, game, gate, c) /\ Leads(Forth, c)
        /\ world.is # "Fetching" => End(Forth, c) = follower.taken
  BY DEF GoesOn
<1>2. /\ LedTo(hook'.load, game', gate', c) /\ Leads(Forth', c)
      /\ world'.is # "Fetching" => End(Forth', c) = follower'.taken
  BY <1>1
<1> QED BY <1>2 DEF GoesOn

LEMMA NumbersKept ==
    ASSUME NumbersOK, Forth' = Forth, Back' = Back, hook'.load = hook.load,
           UNCHANGED <<game, orders>>, \A i \in 1..Len(outbox') : outbox'[i].of = orders
    PROVE  NumbersOK'
<1>1. Top' = Top
  BY DEF Top
<1> QED BY <1>1 DEF NumbersOK

LEMMA AnswersKept ==
    ASSUME AnswersOK, Flushed' = Flushed, Back' = Back, hook'.load = hook.load,
           UNCHANGED sentLoads
    PROVE  AnswersOK'
<1>1. Pending' = Pending
  BY DEF Pending
<1> QED BY <1>1 DEF AnswersOK

LEMMA Quiet ==
    ASSUME BridgeInv, follower'.taken = follower.taken,
           UNCHANGED <<world, outbox, sentLoads, orders, progress, held, theHook,
                       toHook, toAgent, fault>>
    PROVE  HookTypeOK' /\ GoesOn' /\ NumbersOK' /\ AnswersOK' /\ AgentKnows'
<1>1. hook' = hook /\ gate' = gate /\ game' = game
  BY DEF theHook
<1>2. Peeked' = Peeked /\ Flushed' = Flushed /\ Forth' = Forth /\ Back' = Back
  BY <1>1 DEF Peeked, Flushed, Forth, Back
<1>3. HookTypeOK'
  BY <1>1 DEF BridgeInv, HookTypeOK
<1>4. GoesOn'
  BY <1>1, <1>2, GoesOnKept DEF BridgeInv
<1>5. NumbersOK'
  BY <1>1, <1>2, NumbersKept DEF BridgeInv, NumbersOK
<1>6. AnswersOK'
  BY <1>1, <1>2, AnswersKept DEF BridgeInv
<1>7. AgentKnows'
  BY <1>1, <1>2 DEF BridgeInv, AgentKnows
<1> QED BY <1>3, <1>4, <1>5, <1>6, <1>7

LEMMA Bounded ==
    ASSUME BridgeInv
    PROVE  /\ game.of \in Nat /\ Top \in Nat /\ orders \in Nat
           /\ game.of <= Top /\ Top <= orders /\ (hook.load # None => game.of < Top)
           /\ orders \in Loads
<1>1. game.of \in Nat /\ orders \in Nat /\ attempts \in Nat
  BY DEF BridgeInv, AgentTypeOK, HookTypeOK
<1>2. Top \in Nat
  BY <1>1 DEF BridgeInv, HookTypeOK, Top, LoadMessage
<1>3. game.of <= Top /\ Top <= orders /\ (hook.load # None => game.of < Top)
  BY DEF BridgeInv, NumbersOK
<1>4. /\ used.worlds \in 0..MaxWorlds /\ used.losses \in 0..MaxLosses
      /\ MaxWorlds \in Nat /\ MaxLosses \in Nat
  BY BridgeAssumption DEF BridgeInv, CountsOK
<1>5. attempts <= used.worlds + used.losses /\ orders <= attempts + 1
  BY <1>1, <1>4 DEF BridgeInv, CountsOK
<1>6. orders \in Loads
  BY <1>1, <1>4, <1>5 DEF Loads
<1> QED BY <1>1, <1>2, <1>3, <1>6

\* The worlds the agent may have, and that they are told apart.
LEMMA WorldKinds ==
    ASSUME AgentTypeOK
    PROVE  /\ world.is \in {"Ready", "Loading", "Fetching"}
           /\ world.is = "Ready" <=> world = Ready
           /\ world.is = "Loading" => world.at \in Worlds /\ world = Loading(world.at)
           /\ world.is = "Fetching" =>
                /\ world.at \in Worlds /\ world.attempt \in 1..attempts
                /\ world = Fetching(world.at, world.attempt)
BY DEF AgentTypeOK, Ready, Loading, Fetching

-----------------------------------------------------------------------------
(* The agent and the room                                                  *)

LEMMA TurnInv == ASSUME BridgeInv, Turn PROVE BridgeInv'
<1>1. HookTypeOK' /\ GoesOn' /\ NumbersOK' /\ AnswersOK' /\ AgentKnows'
  BY Quiet DEF Turn, BridgeInv, AgentTypeOK
<1>2. AgentTypeOK'
  <2>1. follower' \in [taken : Positions, got : Positions] /\ follower'.taken <= follower'.got
    BY LogFacts DEF Turn, BridgeInv, AgentTypeOK
  <2> QED BY <2>1 DEF Turn, BridgeInv, AgentTypeOK
<1>3. CountsOK'
  BY DEF Turn, BridgeInv, CountsOK
<1> QED BY <1>1, <1>2, <1>3 DEF BridgeInv

LEMMA LoseInv == ASSUME BridgeInv, Lose PROVE BridgeInv'
<1>1. HookTypeOK' /\ GoesOn' /\ NumbersOK' /\ AnswersOK' /\ AgentKnows'
  BY Quiet DEF Lose
<1>2. AgentTypeOK'
  BY DEF Lose, BridgeInv, AgentTypeOK
<1>3. CountsOK'
  <2>1. used' \in [worlds : 0..MaxWorlds, losses : 0..MaxLosses]
        /\ used'.worlds = used.worlds /\ used'.losses = used.losses + 1
    BY BridgeAssumption DEF Lose, BridgeInv, CountsOK
  <2>2. attempts \in Nat /\ used.worlds \in Nat /\ used.losses \in Nat
    BY BridgeAssumption DEF BridgeInv, AgentTypeOK, CountsOK
  <2>3. conn' = "away" /\ attempts' = attempts /\ world' = world /\ orders' = orders
    BY DEF Lose
  <2>4. attempts <= used.worlds + used.losses
    BY <2>2 DEF BridgeInv, CountsOK
  <2>5. attempts' + 1 <= used'.worlds + used'.losses
    BY <2>1, <2>2, <2>3, <2>4
  <2> QED BY <2>1, <2>3, <2>5 DEF BridgeInv, CountsOK
<1> QED BY <1>1, <1>2, <1>3 DEF BridgeInv

LEMMA RejoinInv == ASSUME BridgeInv, Rejoin PROVE BridgeInv'
<1>1. HookTypeOK' /\ GoesOn' /\ NumbersOK' /\ AnswersOK' /\ AgentKnows'
  BY Quiet DEF Rejoin
<1>2. AgentTypeOK'
  BY DEF Rejoin, BridgeInv, AgentTypeOK, Progress
<1>3. CountsOK'
  <2>1. attempts \in Nat /\ used.worlds \in Nat /\ used.losses \in Nat
    BY BridgeAssumption DEF BridgeInv, AgentTypeOK, CountsOK
  <2>2. attempts + 1 <= used.worlds + used.losses
    BY <2>1 DEF Rejoin, BridgeInv, CountsOK
  <2>3. attempts' + (IF conn' # "streaming" THEN 1 ELSE 0) <= used'.worlds + used'.losses
    BY <2>1, <2>2 DEF Rejoin
  <2> QED BY <2>3 DEF Rejoin, BridgeInv, CountsOK
<1> QED BY <1>1, <1>2, <1>3 DEF BridgeInv

LEMMA FetchFailsInv == ASSUME BridgeInv, FetchFails PROVE BridgeInv'
<1>1. HookTypeOK' /\ GoesOn' /\ NumbersOK' /\ AnswersOK' /\ AgentKnows'
  BY Quiet DEF FetchFails
<1>2. AgentTypeOK'
  BY DEF FetchFails, BridgeInv, AgentTypeOK
<1>3. CountsOK'
  <2>1. used' \in [worlds : 0..MaxWorlds, losses : 0..MaxLosses]
        /\ used'.worlds = used.worlds /\ used'.losses = used.losses + 1
    BY BridgeAssumption DEF FetchFails, BridgeInv, CountsOK
  <2>2. attempts \in Nat /\ used.worlds \in Nat /\ used.losses \in Nat
    BY BridgeAssumption DEF BridgeInv, AgentTypeOK, CountsOK
  <2>3. conn' = "away" /\ attempts' = attempts /\ world' = world /\ orders' = orders
    BY DEF FetchFails
  <2>4. attempts <= used.worlds + used.losses
    BY <2>2 DEF BridgeInv, CountsOK
  <2>5. attempts' + 1 <= used'.worlds + used'.losses
    BY <2>1, <2>2, <2>3, <2>4
  <2> QED BY <2>1, <2>3, <2>5 DEF BridgeInv, CountsOK
<1> QED BY <1>1, <1>2, <1>3 DEF BridgeInv

LEMMA IngestedInv == ASSUME BridgeInv, NEW task \in tasks, Ingested(task) PROVE BridgeInv'
<1>1. HookTypeOK' /\ GoesOn' /\ NumbersOK' /\ AnswersOK' /\ AgentKnows'
  BY Quiet DEF Ingested
<1>2. AgentTypeOK'
  <2>1. astray' \subseteq {"Saved"}
    BY DEF Ingested, Reports, BridgeInv, AgentTypeOK
  <2>2. tasks' \subseteq tasks
    BY DEF Ingested
  <2> QED BY <2>1, <2>2 DEF Ingested, BridgeInv, AgentTypeOK
<1>3. CountsOK'
  BY DEF Ingested, BridgeInv, CountsOK
<1> QED BY <1>1, <1>2, <1>3 DEF BridgeInv

LEMMA ReportProgressInv == ASSUME BridgeInv, ReportProgress PROVE BridgeInv'
<1>1. HookTypeOK' /\ GoesOn' /\ NumbersOK' /\ AnswersOK' /\ AgentKnows'
  BY Quiet DEF ReportProgress
<1>2. AgentTypeOK'
  <2>1. progress # None /\ world = Ready /\ progress.of = orders
    BY DEF ReportProgress, BridgeInv, AgentKnows
  <2>2. astray' = astray
    BY <2>1 DEF ReportProgress, Reports, Plays
  <2>3. PICK o \in Loads : o = orders
    BY Bounded
  <2>4. reported' \in Progress
    BY <2>1, <2>3 DEF ReportProgress, BridgeInv, AgentTypeOK, Progress, Mark
  <2> QED BY <2>2, <2>4 DEF ReportProgress, BridgeInv, AgentTypeOK
<1>3. CountsOK'
  BY DEF ReportProgress, BridgeInv, CountsOK
<1> QED BY <1>1, <1>2, <1>3 DEF BridgeInv

LEMMA HoldInv == ASSUME BridgeInv, Hold PROVE BridgeInv'
<1>1. /\ Back' = Back /\ Head(toAgent) \in ToAgent /\ Tail(toAgent) \in Seq(ToAgent)
      /\ Len(Tail(toAgent)) = Len(toAgent) - 1
  BY HoldMoves DEF BridgeInv
<1>2. /\ held' = Append(held, Head(toAgent)) /\ toAgent' = Tail(toAgent)
      /\ Len(held) < HeldLimit /\ hook' = hook /\ gate' = gate /\ game' = game
      /\ UNCHANGED <<conn, follower, world, outbox, sentLoads, orders, attempts, progress,
                     reported, tasks, astray, used, toHook, fault>>
  BY DEF Hold, theHook
<1>3. Peeked' = Peeked /\ Flushed' = Flushed /\ Forth' = Forth
  BY <1>2 DEF Peeked, Flushed, Forth
<1>4. held \in Seq(ToAgent) /\ Len(held) \in Nat /\ Len(toAgent) \in Nat
  BY Queues DEF BridgeInv
<1>5. held' \in Seq(ToAgent) /\ Len(held') <= HeldLimit
  <2>1. Append(held, Head(toAgent)) \in Seq(ToAgent)
        /\ Len(Append(held, Head(toAgent))) = Len(held) + 1
    BY <1>1, <1>4, AppendProperties
  <2> QED BY <1>2, <1>4, <2>1, BridgeAssumption
<1>6. toAgent' \in Seq(ToAgent) /\ Len(toAgent') <= LinkSize
  BY <1>1, <1>2, <1>4, BridgeAssumption DEF BridgeInv, HookTypeOK
<1>7. AgentTypeOK' /\ HookTypeOK'
  BY <1>2, <1>5, <1>6 DEF BridgeInv, AgentTypeOK, HookTypeOK
<1>8. GoesOn' /\ NumbersOK' /\ AnswersOK'
  BY <1>1, <1>2, <1>3, GoesOnKept, NumbersKept, AnswersKept DEF BridgeInv, NumbersOK
<1>9. AgentKnows' /\ CountsOK'
  BY <1>1, <1>2 DEF BridgeInv, AgentKnows, CountsOK
<1> QED BY <1>7, <1>8, <1>9 DEF BridgeInv

-----------------------------------------------------------------------------
(* Other worlds                                                            *)

\* The agent gives up what it has not sent, and stands where the world it
\* fetches begins.
LEMMA FetchWorldKeeps0 ==
    ASSUME BridgeInv, NEW p \in Worlds, FetchWorld(p)
    PROVE  /\ AgentTypeOK' /\ HookTypeOK'
           /\ GoesOn' /\ NumbersOK' /\ AnswersOK' /\ AgentKnows'
<1>1. /\ conn' = "streaming" /\ follower' = [taken |-> p, got |-> p]
      /\ attempts' = attempts + 1 /\ world' = Fetching(p, attempts + 1)
      /\ tasks' = tasks \cup {[kind |-> "Fetch", attempt |-> attempts + 1]}
      /\ outbox' = <<>> /\ progress' = None /\ reported' = None
      /\ hook' = hook /\ gate' = gate /\ game' = game
      /\ UNCHANGED <<sentLoads, orders, held, astray, toHook, toAgent, fault>>
  BY DEF FetchWorld, Voided, theHook
<1>2. PICK none \in Seq(ToHook) : none = <<>>
  BY Empty
<1>3. Len(none) = 0
  BY <1>2
<1>4. Peeked' = Peeked /\ Flushed' = Flushed /\ Back' = Back /\ Pending' = Pending /\ Top' = Top
  BY <1>1 DEF Peeked, Flushed, Back, Pending, Top
<1>5. Forth' = Flushed
  <2>1. Flushed \in Seq(ToHook)
    BY Queues DEF BridgeInv
  <2>2. Flushed \o none = Flushed
    BY <1>2, <2>1, ConcatEmptySeq
  <2> QED BY <1>1, <1>2, <1>4, <2>2 DEF Forth
<1>6. Flushed \in Seq(ToHook) /\ outbox \in Seq(ToHook) /\ Forth = Flushed \o outbox
  BY Queues DEF BridgeInv, Forth
<1>7. AgentTypeOK'
  <2>1. p \in Positions /\ attempts \in Nat
    BY LogFacts DEF BridgeInv, AgentTypeOK
  <2>2. world' \in {Fetching(r, n) : r \in Worlds, n \in 1..attempts'}
    BY <1>1, <2>1
  <2>3. tasks' \subseteq [kind : {"Fetch"}, attempt : 1..attempts']
                    \cup [kind : {"Ingest"}, of : Loads]
    <3>1. 1..attempts \subseteq 1..(attempts + 1) /\ attempts + 1 \in 1..(attempts + 1)
      BY <2>1
    <3>2. tasks \subseteq [kind : {"Fetch"}, attempt : 1..attempts]
                    \cup [kind : {"Ingest"}, of : Loads]
      BY DEF BridgeInv, AgentTypeOK
    <3> QED BY <1>1, <3>1, <3>2
  <2>4. follower' \in [taken : Positions, got : Positions] /\ follower'.taken <= follower'.got
    BY <1>1, <2>1, LogFacts
  <2>5. outbox' \in Seq(ToHook) /\ Len(outbox') <= OutboxLimit + 1
    BY <1>1, <1>2, <1>3, BridgeAssumption
  <2>6. reported' \in Progress
    BY <1>1 DEF Progress
  <2> QED BY <1>1, <2>1, <2>2, <2>3, <2>4, <2>5, <2>6 DEF BridgeInv, AgentTypeOK
<1>8. HookTypeOK'
  BY <1>1 DEF BridgeInv, HookTypeOK
<1>9. GoesOn'
  <2>1. PICK c \in Positions \cup {None} :
            LedTo(hook.load, game, gate, c) /\ Leads(Forth, c)
    BY DEF BridgeInv, GoesOn
  <2>2. Leads(Flushed, c)
    BY <1>6, <2>1, LeadsPart
  <2>3. world'.is = "Fetching"
    BY <1>1 DEF Fetching
  <2> QED BY <1>1, <1>5, <2>1, <2>2, <2>3 DEF GoesOn
<1>10. NumbersOK'
  <2>1. Rises(Forth) /\ Within(Forth, Top, orders)
    BY DEF BridgeInv, NumbersOK
  <2>2. Rises(Flushed) /\ Within(Flushed, Top, orders)
    BY <1>6, <2>1, RisesOn, WithinOn
  <2>3. \A i \in 1..Len(outbox') : outbox'[i].of = orders
    BY <1>1, <1>2, <1>3
  <2> QED BY <1>1, <1>4, <1>5, <2>2, <2>3 DEF BridgeInv, NumbersOK
<1>11. AnswersOK'
  BY <1>1, <1>4 DEF BridgeInv, AnswersOK
<1>12. AgentKnows'
  <2>1. world'.is = "Fetching" /\ world'.at = p /\ world' # Ready
    BY <1>1 DEF Fetching, Ready
  <2> QED BY <1>1, <2>1 DEF AgentKnows
<1> QED BY <1>7, <1>8, <1>9, <1>10, <1>11, <1>12

LEMMA OfferWorldInv == ASSUME BridgeInv, NEW p \in Worlds, OfferWorld(p) PROVE BridgeInv'
<1>1. FetchWorld(p)
  BY DEF OfferWorld
<1>2. CountsOK'
  <2>1. used' \in [worlds : 0..MaxWorlds, losses : 0..MaxLosses]
        /\ used'.worlds = used.worlds + 1 /\ used'.losses = used.losses
    BY BridgeAssumption DEF OfferWorld, BridgeInv, CountsOK
  <2>2. /\ attempts \in Nat /\ orders \in Nat
        /\ used.worlds \in Nat /\ used.losses \in Nat
    BY BridgeAssumption DEF BridgeInv, AgentTypeOK, CountsOK
  <2>3. /\ conn' = "streaming" /\ attempts' = attempts + 1 /\ orders' = orders
        /\ world'.is = "Fetching"
    BY <1>1 DEF FetchWorld, Fetching
  <2>4. attempts <= used.worlds + used.losses /\ orders <= attempts + 1
    BY <2>2 DEF BridgeInv, CountsOK
  <2>5. attempts' <= used'.worlds + used'.losses /\ orders' + 1 <= attempts' + 1
    BY <2>1, <2>2, <2>3, <2>4
  <2>6. attempts' + 0 = attempts'
    BY <2>2, <2>3
  <2> QED BY <2>1, <2>3, <2>5, <2>6 DEF CountsOK
<1> QED BY <1>1, <1>2, FetchWorldKeeps0 DEF BridgeInv

LEMMA OfferAgainInv == ASSUME BridgeInv, NEW p \in Worlds, OfferAgain(p) PROVE BridgeInv'
<1>1. FetchWorld(p)
  BY DEF OfferAgain
<1>2. CountsOK'
  <2>1. used' \in [worlds : 0..MaxWorlds, losses : 0..MaxLosses] /\ used' = used
    BY DEF OfferAgain, BridgeInv, CountsOK
  <2>2. /\ attempts \in Nat /\ orders \in Nat
        /\ used.worlds \in Nat /\ used.losses \in Nat
    BY BridgeAssumption DEF BridgeInv, AgentTypeOK, CountsOK
  <2>3. /\ conn' = "streaming" /\ attempts' = attempts + 1 /\ orders' = orders
        /\ world'.is = "Fetching"
    BY <1>1 DEF FetchWorld, Fetching
  <2>4. attempts + 1 <= used.worlds + used.losses /\ orders <= attempts + 1
    BY <2>2 DEF OfferAgain, BridgeInv, CountsOK
  <2>5. attempts' <= used'.worlds + used'.losses /\ orders' + 1 <= attempts' + 1
    BY <2>1, <2>2, <2>3, <2>4
  <2>6. attempts' + 0 = attempts'
    BY <2>2, <2>3
  <2> QED BY <2>1, <2>3, <2>5, <2>6 DEF CountsOK
<1> QED BY <1>1, <1>2, FetchWorldKeeps0 DEF BridgeInv

\* A load is ordered: what is on its way leads to the world, with a number past
\* all others.
LEMMA FetchedInv ==
    ASSUME BridgeInv, NEW attempt, Fetched(attempt)
    PROVE  BridgeInv'
<1>0. /\ tasks' \subseteq tasks /\ hook' = hook /\ gate' = gate /\ game' = game
      /\ UNCHANGED <<conn, follower, sentLoads, reported, held, astray, attempts, used,
                     toHook, toAgent, fault>>
  BY DEF Fetched, theHook
<1>1. CASE UNCHANGED <<orders, outbox, world, progress>>
  <2>1. HookTypeOK' /\ GoesOn' /\ NumbersOK' /\ AnswersOK' /\ AgentKnows'
    BY <1>0, <1>1, Quiet DEF theHook
  <2>2. AgentTypeOK' /\ CountsOK'
    BY <1>0, <1>1 DEF BridgeInv, AgentTypeOK, CountsOK
  <2> QED BY <2>1, <2>2 DEF BridgeInv
<1>2. CASE ~UNCHANGED <<orders, outbox, world, progress>>
  <2>1. /\ world.is = "Fetching" /\ orders' = orders + 1
        /\ outbox' = Append(<<>>, Message("Load", world.at, orders'))
        /\ world' = Loading(world.at) /\ progress' = None
    BY <1>2 DEF Fetched, Voided
  <2>2. /\ orders \in Nat /\ attempts \in Nat /\ game.of \in Nat /\ orders' \in Nat
        /\ used.worlds \in Nat /\ used.losses \in Nat
    BY <2>1, BridgeAssumption DEF BridgeInv, AgentTypeOK, HookTypeOK, CountsOK
  <2>3. PICK p \in Worlds : p = world.at /\ p \in Positions
    BY <2>1, WorldKinds, LogFacts DEF BridgeInv
  <2>4. outbox = <<>> /\ follower.taken = p
    BY <2>1, <2>3 DEF BridgeInv, AgentKnows
  <2>5. PICK m \in ToHook : m = Message("Load", p, orders + 1)
    <3>1. Message("Load", p, orders + 1) \in ToHook
      BY <2>2, <2>3 DEF Message, ToHook
    <3> QED BY <3>1
  <2>6. m.kind = "Load" /\ m.at = p /\ m.of = orders + 1 /\ IsLoad(m)
    BY <2>5 DEF Message, IsLoad
  <2>7. PICK one \in Seq(ToHook) : one = <<m>>
    BY Single
  <2>8. outbox' = one /\ Len(one) = 1 /\ one[1] = m
    BY <2>1, <2>3, <2>5, <2>7
  <2>9. Peeked' = Peeked /\ Flushed' = Flushed /\ Back' = Back /\ Pending' = Pending /\ Top' = Top
    BY <1>0 DEF Peeked, Flushed, Back, Pending, Top
  <2>10. Flushed \in Seq(ToHook) /\ Forth = Flushed
    <3>1. Flushed \in Seq(ToHook)
      BY Queues DEF BridgeInv
    <3>2. Flushed \o <<>> = Flushed
      BY <3>1, ConcatEmptySeq
    <3> QED BY <2>4, <3>1, <3>2 DEF Forth
  <2>11. Forth' = Flushed \o one /\ Forth' = Append(Flushed, m)
    BY <2>7, <2>8, <2>9, <2>10, AppendIsConcat DEF Forth
  <2>12. AgentTypeOK'
    <3>1. world' \in {Loading(r) : r \in Worlds}
      BY <2>1, <2>3
    <3>2. outbox' \in Seq(ToHook) /\ Len(outbox') <= OutboxLimit + 1
      BY <2>8, BridgeAssumption
    <3> QED BY <1>0, <2>1, <2>2, <3>1, <3>2 DEF BridgeInv, AgentTypeOK
  <2>13. HookTypeOK'
    BY <1>0 DEF BridgeInv, HookTypeOK
  <2>14. GoesOn'
    <3>1. PICK c \in Positions \cup {None} :
            LedTo(hook.load, game, gate, c) /\ Leads(Flushed, c)
      BY <2>10 DEF BridgeInv, GoesOn
    <3>2. Follows(m, End(Flushed, c))
      BY <2>6 DEF Follows
    <3>3. Leads(Forth', c) /\ End(Forth', c) = p
      BY <2>6, <2>10, <2>11, <3>1, <3>2, LeadsOne
    <3> QED BY <1>0, <2>4, <3>1, <3>3 DEF GoesOn
  <2>15. NumbersOK'
    <3>1. /\ game.of <= Top /\ Top <= orders /\ (hook.load # None => game.of < Top)
          /\ Rises(Back) /\ \A i \in 1..Len(Back) : Back[i].of <= game.of
          /\ Rises(Flushed) /\ Within(Flushed, Top, orders)
      BY <2>10 DEF BridgeInv, NumbersOK
    <3>2. Top \in Nat
      BY DEF BridgeInv, HookTypeOK, Top, LoadMessage
    <3>3. Top <= orders + 1 /\ Top < orders + 1
      BY <2>2, <3>1, <3>2
    <3>4. \A i \in 1..Len(Flushed) : Flushed[i].of \in Nat
      BY <2>10, ElementOfSeq, HookTypes
    <3>5. Within(Flushed, Top, orders + 1) /\ Cross(Flushed, one)
      BY <2>2, <2>6, <2>8, <3>1, <3>4 DEF Within, Cross
    <3>6. Rises(one) /\ Within(one, Top, orders + 1)
      BY <2>2, <2>6, <2>7, <3>2, <3>3, OneOf
    <3>7. Rises(Forth') /\ Within(Forth', Top, orders + 1)
      <4>1. PICK q \in Seq(ToHook) : q = Flushed
        BY <2>10
      <4>2. Rises(q \o one) <=> Rises(q) /\ Rises(one) /\ Cross(q, one)
        BY RisesOn
      <4>3. PICK low, high : low = Top /\ high = orders + 1
        OBVIOUS
      <4>4. Within(q \o one, low, high) <=> Within(q, low, high) /\ Within(one, low, high)
        BY WithinOn
      <4> QED BY <2>11, <3>1, <3>5, <3>6, <4>1, <4>2, <4>3, <4>4
    <3>8. \A i \in 1..Len(outbox') : outbox'[i].of = orders'
      BY <2>1, <2>6, <2>8
    <3> QED BY <1>0, <2>1, <2>9, <3>1, <3>3, <3>7, <3>8 DEF NumbersOK
  <2>16. AnswersOK'
    BY <1>0, <2>9 DEF BridgeInv, AnswersOK
  <2>17. AgentKnows'
    BY <2>1 DEF AgentKnows, Loading, Ready
  <2>18. CountsOK'
    <3>1. orders + 1 <= attempts + 1
      BY <2>1 DEF BridgeInv, CountsOK
    <3>2. world'.is # "Fetching" /\ orders' + 0 <= attempts' + 1
      BY <1>0, <2>1, <2>2, <3>1 DEF Loading
    <3> QED BY <1>0, <3>2 DEF BridgeInv, CountsOK
  <2> QED BY <2>12, <2>13, <2>14, <2>15, <2>16, <2>17, <2>18 DEF BridgeInv
<1> QED BY <1>1, <1>2

-----------------------------------------------------------------------------
(* Turns go out                                                            *)

LEMMA PumpInv == ASSUME BridgeInv, Pump PROVE BridgeInv'
<1>1. PICK to \in (follower.taken + 1)..follower.got :
        /\ \A p \in follower.taken..(to - 1) : ~FullAt(p)
        /\ outbox' = outbox \o Sent(follower.taken)[to]
        /\ follower' = [follower EXCEPT !.taken = to]
  BY DEF Pump
<1>2. /\ world.is # "Fetching" /\ hook' = hook /\ gate' = gate /\ game' = game
      /\ UNCHANGED <<conn, world, sentLoads, orders, attempts, progress, reported, held, tasks,
                     astray, used, toHook, toAgent, fault>>
  BY DEF Pump, theHook
<1>3. PICK from \in Positions : from = follower.taken
  BY DEF BridgeInv, AgentTypeOK
<1>4. /\ from \in Nat /\ to \in Positions /\ to - 1 \in Positions
      /\ from < to /\ from <= to /\ from <= to - 1 /\ to <= follower.got
      /\ follower.got \in Positions
  BY <1>3, LogFacts DEF BridgeInv, AgentTypeOK
<1>5. orders \in Nat
  BY DEF BridgeInv, AgentTypeOK
<1>6. PICK sent, prev : sent = Sent(from)[to] /\ prev = Sent(from)[to - 1]
  OBVIOUS
<1>7. /\ SentOK(sent, from, to) /\ SentOK(prev, from, to - 1)
      /\ Len(sent) = IF Log[to] = "step" /\ prev # <<>> /\ Log[to - 1] = "step" THEN Len(prev)
                     ELSE Len(prev) + 1
  BY <1>4, <1>5, <1>6, SentLeads
<1>8. /\ sent \in Seq(ToHook) /\ prev \in Seq(ToHook) /\ outbox \in Seq(ToHook)
      /\ Flushed \in Seq(ToHook) /\ Forth \in Seq(ToHook)
      /\ Len(sent) \in Nat /\ Len(prev) \in Nat /\ Len(outbox) \in Nat
      /\ prev # <<>> => Len(prev) > 0
  BY <1>7, Queues, EmptySeq, SMTT(30) DEF SentOK, BridgeInv
<1>9. outbox' = outbox \o sent
  BY <1>1, <1>3, <1>6
<1>10. /\ Len(outbox') = Len(outbox) + Len(sent) /\ outbox' \in Seq(ToHook)
       /\ \A k \in 1..Len(outbox') :
            \/ k \in 1..Len(outbox) /\ outbox'[k] = outbox[k]
            \/ \E j \in 1..Len(sent) : outbox'[k] = sent[j]
  <2>1. PICK o \in Seq(ToHook) : o = outbox
    BY <1>8
  <2>2. PICK n \in Seq(ToHook) : n = o \o sent /\ Len(n) = Len(o) + Len(sent)
    BY <1>8, ConcatProperties
  <2>3. /\ \A i \in 1..Len(o) : n[i] = o[i]
        /\ \A j \in 1..Len(sent) : n[Len(o) + j] = sent[j]
        /\ \A k \in 1..Len(n) : k \in 1..Len(o) \/ \E j \in 1..Len(sent) : k = Len(o) + j
    <3>1. /\ Len(o) \in Nat /\ Len(sent) \in Nat /\ o \o sent \in Seq(ToHook)
          /\ \A i \in 1..Len(o) : i \in 1..Len(o \o sent) /\ (o \o sent)[i] = o[i]
          /\ \A j \in 1..Len(sent) :
                Len(o) + j \in 1..Len(o \o sent) /\ (o \o sent)[Len(o) + j] = sent[j]
          /\ \A k \in 1..Len(o \o sent) :
                k \in 1..Len(o) \/ \E j \in 1..Len(sent) : k = Len(o) + j
      <4>1. Joins(o \o sent, o, sent)
        BY <1>8, Joined, Zenon
      <4> QED BY <1>8, <4>1, ConcatProperties DEF Joins
    <3> QED BY <2>2, <3>1
  <2>4. outbox' = n
    BY <1>9, <2>1, <2>2
  <2>5. ASSUME NEW k \in 1..Len(n)
        PROVE  \/ k \in 1..Len(o) /\ n[k] = o[k]
               \/ \E j \in 1..Len(sent) : n[k] = sent[j]
    BY <2>3
  <2> QED BY <2>1, <2>2, <2>4, <2>5
<1>11. Len(outbox') <= OutboxLimit + 1
  <2>1. ~FullAt(to - 1)
    BY <1>1, <1>3, <1>4
  <2>2. PICK n : n = IF Len(prev) > 0 /\ Log[to - 1] = "step" THEN 1 ELSE 0
    OBVIOUS
  <2>3. ~(Len(outbox) + Len(prev) - n >= OutboxLimit)
    BY <1>3, <1>6, <2>1, <2>2 DEF FullAt
  <2>4. OutboxLimit \in Nat
    BY BridgeAssumption
  <2>5. n \in 0..1 /\ Len(sent) <= Len(prev) + 1
    BY <1>7, <1>8, <2>2
  <2>6. Len(outbox) + Len(prev) < OutboxLimit + n
    BY <1>8, <2>3, <2>4, <2>5
  <2>7. CASE n = 1
    BY <1>8, <1>10, <2>4, <2>5, <2>6, <2>7
  <2>8. CASE n = 0
    BY <1>8, <1>10, <2>4, <2>5, <2>6, <2>8
  <2> QED BY <2>5, <2>7, <2>8
<1>12. /\ Peeked' = Peeked /\ Flushed' = Flushed /\ Back' = Back /\ Pending' = Pending
       /\ Top' = Top
  BY <1>2 DEF Peeked, Flushed, Back, Pending, Top
<1>13. Forth' = Forth \o sent
  <2>1. PICK f \in Seq(ToHook) : f = Flushed
    BY <1>8
  <2>2. PICK o \in Seq(ToHook) : o = outbox
    BY <1>8
  <2>3. (f \o o) \o sent = f \o (o \o sent)
    <3>1. sent \in Seq(ToHook)
      BY <1>8
    <3>2. Regroups(f, o, sent)
      BY <3>1, Regrouped, Zenon
    <3> QED BY <3>2 DEF Regroups
  <2> QED BY <1>9, <1>12, <2>1, <2>2, <2>3 DEF Forth
<1>14. AgentTypeOK'
  <2>0. follower \in [taken : Positions, got : Positions]
    BY DEF BridgeInv, AgentTypeOK
  <2>1. follower' \in [taken : Positions, got : Positions] /\ follower'.taken <= follower'.got
    <3>1. /\ follower' \in [taken : Positions, got : Positions]
          /\ follower'.taken = to /\ follower'.got = follower.got
      BY <1>1, <1>4, <2>0
    <3> QED BY <1>4, <3>1
  <2> QED BY <1>2, <1>10, <1>11, <2>1 DEF BridgeInv, AgentTypeOK
<1>15. HookTypeOK'
  BY <1>2 DEF BridgeInv, HookTypeOK
<1>16. GoesOn'
  <2>1. PICK c \in Positions \cup {None} :
            LedTo(hook.load, game, gate, c) /\ Leads(Forth, c) /\ End(Forth, c) = from
    BY <1>2, <1>3 DEF BridgeInv, GoesOn
  <2>2. Leads(sent, End(Forth, c)) /\ End(sent, End(Forth, c)) = to
    BY <1>7, <2>1 DEF SentOK
  <2>3. Leads(Forth \o sent, c) /\ End(Forth \o sent, c) = to
    BY <1>8, <2>1, <2>2, LeadsOn
  <2>4. follower'.taken = to
    BY <1>1 DEF BridgeInv, AgentTypeOK
  <2> QED BY <1>2, <1>13, <2>1, <2>3, <2>4 DEF GoesOn
<1>17. NumbersOK'
  <2>1. /\ Rises(Forth) /\ Within(Forth, Top, orders)
        /\ \A i \in 1..Len(outbox) : outbox[i].of = orders
    BY DEF BridgeInv, NumbersOK
  <2>2. \A i \in 1..Len(sent) : sent[i].of = orders /\ ~IsLoad(sent[i])
    BY <1>7 DEF SentOK, IsLoad
  <2>3. PICK low \in Nat, high \in Nat : low = Top /\ high = orders /\ low <= high
    BY Bounded
  <2>4. Rises(sent) /\ Within(sent, low, high)
    BY <2>2, <2>3 DEF Rises, Within
  <2>5. Cross(Forth, sent)
    BY <2>1, <2>2 DEF Cross, Within
  <2>6. Rises(Forth \o sent) /\ Within(Forth \o sent, low, high)
    BY <1>8, <2>1, <2>3, <2>4, <2>5, RisesOn, WithinOn
  <2>7. \A i \in 1..Len(outbox') : outbox'[i].of = orders
    BY <1>10, <2>1, <2>2
  <2> QED BY <1>2, <1>12, <1>13, <2>3, <2>6, <2>7 DEF BridgeInv, NumbersOK
<1>18. AnswersOK'
  BY <1>2, <1>12, AnswersKept DEF BridgeInv
<1>19. AgentKnows'
  BY <1>2, <1>12 DEF BridgeInv, AgentKnows
<1>20. CountsOK'
  BY <1>2 DEF BridgeInv, CountsOK
<1> QED BY <1>14, <1>15, <1>16, <1>17, <1>18, <1>19, <1>20 DEF BridgeInv

\* Every load the agent waits to have answered comes before the messages that it
\* has not sent.
LEMMA SentBefore ==
    ASSUME BridgeInv, NEW x, x \in MarksIn(Back) \cup MarksIn(Pending)
    PROVE  x.of \in Nat /\ x.of <= Top
<1>1. CASE x \in MarksIn(Back)
  <2>1. PICK i \in 1..Len(Back) : x.of = Back[i].of
    BY <1>1 DEF MarksIn
  <2>2. Back[i] \in ToAgent /\ Back[i].of <= game.of
    BY Queues, ElementOfSeq DEF BridgeInv, NumbersOK
  <2> QED BY <2>1, <2>2, Bounded DEF ToAgent
<1>2. CASE x \in MarksIn(Pending)
  <2>1. CASE hook.load # None
    <3>1. MarksIn(Pending) = MarkOf(hook.load)
      BY <2>1, OneOf DEF Pending
    <3>2. x.of = hook.load.of
      BY <1>2, <3>1 DEF MarkOf
    <3> QED BY <2>1, <3>2, Bounded DEF Top
  <2>2. CASE hook.load = None
    BY <1>2, <2>2, OneOf DEF Pending
  <2> QED BY <2>1, <2>2
<1> QED BY <1>1, <1>2

LEMMA FlushInv == ASSUME BridgeInv, Flush PROVE BridgeInv'
<1>1. /\ outbox # <<>> /\ Len(toHook) < LinkSize
      /\ toHook' = Append(toHook, Head(outbox)) /\ outbox' = Tail(outbox)
      /\ sentLoads' = IF Head(outbox).kind = "Load"
                      THEN Append(sentLoads, [at |-> Head(outbox).at, of |-> orders])
                      ELSE sentLoads
      /\ hook' = hook /\ gate' = gate /\ game' = game
      /\ UNCHANGED <<conn, follower, world, orders, attempts, progress, reported, held, tasks,
                     astray, used, toAgent, fault>>
  BY DEF Flush, theHook
<1>2. /\ Forth' = Forth /\ Back' = Back /\ Flushed' = Append(Flushed, Head(outbox))
      /\ Head(outbox) \in ToHook
  BY FlushMoves DEF BridgeInv
<1>3. PICK m \in ToHook : m = Head(outbox)
  BY <1>2
<1>4. PICK rest \in Seq(ToHook) : rest = Tail(outbox) /\ Len(rest) = Len(outbox) - 1
  BY <1>1, Queues, HeadAndTail DEF BridgeInv
<1>5. /\ Len(outbox) \in Nat /\ Len(outbox) >= 1 /\ outbox[1] = m
      /\ \A i \in 1..Len(rest) : i + 1 \in 1..Len(outbox) /\ rest[i] = outbox[i + 1]
  <2>1. outbox \in Seq(ToHook)
    BY Queues DEF BridgeInv
  <2>2. Len(outbox) \in Nat /\ Len(outbox) >= 1 /\ outbox[1] = m
    BY <1>1, <1>3, <2>1, EmptySeq
  <2>3. \A i \in 1..Len(rest) : rest[i] = outbox[i + 1]
    BY <1>1, <1>4, <2>1, HeadTailProperties
  <2> QED BY <1>4, <2>2, <2>3
<1>6. m.of = orders /\ \A i \in 1..Len(rest) : rest[i].of = orders
  BY <1>5 DEF BridgeInv, NumbersOK
<1>7. toHook' \in Seq(ToHook) /\ Len(toHook') <= LinkSize
  <2>1. /\ toHook \in Seq(ToHook) /\ Len(toHook) \in Nat /\ LinkSize \in Nat
    BY Queues, BridgeAssumption DEF BridgeInv
  <2>2. toHook' \in Seq(ToHook) /\ Len(toHook') = Len(toHook) + 1
    BY <1>1, <1>3, <2>1, AppendProperties
  <2> QED BY <1>1, <2>1, <2>2
<1>8. sentLoads' \in Seq(Mark)
  <2>1. [at |-> m.at, of |-> orders] \in Mark
    BY <1>6 DEF ToHook, Mark
  <2> QED BY <1>1, <1>3, <2>1 DEF BridgeInv, AgentTypeOK
<1>9. AgentTypeOK'
  <2>1. outbox' \in Seq(ToHook) /\ Len(outbox') <= OutboxLimit + 1
    BY <1>1, <1>4, <1>5, BridgeAssumption DEF BridgeInv, AgentTypeOK
  <2> QED BY <1>1, <1>8, <2>1 DEF BridgeInv, AgentTypeOK
<1>10. HookTypeOK'
  BY <1>1, <1>7 DEF BridgeInv, HookTypeOK
<1>11. GoesOn'
  BY <1>1, <1>2, GoesOnKept DEF BridgeInv
<1>12. NumbersOK'
  BY <1>1, <1>2, <1>4, <1>6, NumbersKept DEF BridgeInv
<1>13. AnswersOK'
  <2>1. PICK q \in Seq(ToHook), one \in Seq(ToHook) : q = Flushed /\ one = <<m>>
    BY Queues, Single DEF BridgeInv
  <2>2. PICK n \in Seq(ToHook) : n = q \o one
    BY ConcatProperties
  <2>3. Flushed' = n
    BY <1>2, <1>3, <2>1, <2>2, AppendIsConcat
  <2>4. Forth = n \o rest
    BY <1>1, <1>2, <1>4, <2>3 DEF Forth
  <2>5. PICK low, high : low = Top /\ high = orders
    OBVIOUS
  <2>6. Rises(n \o rest) /\ Within(n \o rest, low, high)
    BY <2>4, <2>5 DEF BridgeInv, NumbersOK
  <2>7. Rises(n) /\ Within(n, low, high)
    BY <2>6, RisesOn, WithinOn
  <2>8. Cross(q, one) /\ Within(one, low, high)
    BY <2>2, <2>7, RisesOn, WithinOn
  <2>9. MarksIn(n) = MarksIn(q) \cup MarkOf(m)
    <3>1. MarksIn(one) = MarkOf(m)
      BY <2>1, OneOf
    <3>2. MarksIn(q \o one) = MarksIn(q) \cup MarksIn(one)
      BY MarksOn
    <3> QED BY <2>2, <3>1, <3>2
  <2>10. Pending' = Pending
    BY <1>1 DEF Pending
  <2>11. /\ \A i, j \in 1..Len(sentLoads) : i < j => sentLoads[i].of < sentLoads[j].of
         /\ {sentLoads[i] : i \in 1..Len(sentLoads)} =
                MarksIn(Back) \cup MarksIn(Pending) \cup MarksIn(q)
    BY <2>1 DEF BridgeInv, AnswersOK
  <2>12. CASE m.kind # "Load"
    <3>1. MarkOf(m) = {} /\ sentLoads' = sentLoads
      BY <1>1, <1>3, <2>12 DEF MarkOf, IsLoad, ToHook
    <3> QED BY <1>2, <2>3, <2>9, <2>10, <2>11, <3>1 DEF AnswersOK
  <2>13. CASE m.kind = "Load"
    <3>1. PICK a \in Mark : a = [at |-> m.at, of |-> orders]
      BY <1>6 DEF ToHook, Mark
    <3>2. MarkOf(m) = {a} /\ IsLoad(m)
      BY <1>6, <2>13, <3>1 DEF MarkOf, IsLoad
    <3>3. PICK s \in Seq(Mark) : s = sentLoads
      BY DEF BridgeInv, AgentTypeOK
    <3>4. sentLoads' = Append(s, a)
      BY <1>1, <1>3, <2>13, <3>1, <3>3
    <3>5. low < m.of
      BY <2>1, <2>8, <3>2, OneOf
    <3>6. ASSUME NEW i \in 1..Len(s) PROVE s[i].of < a.of
      <4>1. s[i] \in MarksIn(Back) \cup MarksIn(Pending) \cup MarksIn(q)
        BY <2>11, <3>3
      <4>2. CASE s[i] \in MarksIn(Back) \cup MarksIn(Pending)
        <5>1. PICK x : x = s[i]
          OBVIOUS
        <5>2. x.of \in Nat /\ x.of <= Top
          BY <4>2, <5>1, SentBefore
        <5> QED BY <1>6, <2>5, <3>1, <3>5, <5>1, <5>2, Bounded
      <4>3. CASE s[i] \in MarksIn(q)
        <5>1. PICK j \in 1..Len(q) : s[i].of = q[j].of
          BY <4>3 DEF MarksIn
        <5>2. Len(one) = 1 /\ one[1] = m
          BY <2>1
        <5>3. q[j].of < m.of
          BY <2>8, <3>2, <5>2 DEF Cross
        <5> QED BY <1>6, <3>1, <5>1, <5>3
      <4> QED BY <4>1, <4>2, <4>3
    <3>7. PICK t \in Seq(Mark) : t = Append(s, a)
      BY AppendProperties
    <3>8. /\ Len(s) \in Nat /\ Len(t) = Len(s) + 1 /\ t[Len(s) + 1] = a
          /\ \A i \in 1..Len(s) : t[i] = s[i]
      BY <3>7, AppendProperties
    <3>9. \A i, j \in 1..Len(t) : i < j => t[i].of < t[j].of
      <4> SUFFICES ASSUME NEW i \in 1..Len(t), NEW j \in 1..Len(t), i < j
                   PROVE  t[i].of < t[j].of
        OBVIOUS
      <4>1. i \in 1..Len(s) /\ t[i] = s[i]
        BY <3>8
      <4>2. CASE j \in 1..Len(s)
        BY <2>11, <3>3, <3>8, <4>1, <4>2
      <4>3. CASE j \notin 1..Len(s)
        <5>0. j \in 1..(Len(s) + 1)
          BY <3>8
        <5>2. PICK n0 \in Nat : n0 = Len(s)
          BY <3>8
        <5>3. j \in 1..(n0 + 1) /\ j \notin 1..n0
          BY <4>3, <5>0, <5>2
        <5>4. j = n0 + 1
          BY <5>3
        <5>1. j = Len(s) + 1
          BY <5>2, <5>4
        <5> QED BY <3>6, <3>8, <4>1, <5>1
      <4> QED BY <4>2, <4>3
    <3>10. {t[i] : i \in 1..Len(t)} = {s[i] : i \in 1..Len(s)} \cup {a}
      <4>1. /\ Len(s) + 1 \in 1..Len(t) /\ \A i \in 1..Len(s) : i \in 1..Len(t)
            /\ \A i \in 1..Len(t) : i \in 1..Len(s) \/ i = Len(s) + 1
        BY <3>8
      <4>2. ASSUME NEW i \in 1..Len(t) PROVE t[i] = a \/ \E j \in 1..Len(s) : t[i] = s[j]
        BY <3>8, <4>1
      <4>3. \A j \in 1..Len(s) : \E i \in 1..Len(t) : s[j] = t[i]
        BY <3>8, <4>1
      <4>4. \E i \in 1..Len(t) : a = t[i]
        BY <3>8, <4>1
      <4>5. ASSUME NEW x \in {t[i] : i \in 1..Len(t)}
            PROVE  x \in {s[i] : i \in 1..Len(s)} \cup {a}
        <5>1. PICK i \in 1..Len(t) : x = t[i]
          OBVIOUS
        <5> QED BY <4>2, <5>1
      <4>6. ASSUME NEW j \in 1..Len(s) PROVE s[j] \in {t[i] : i \in 1..Len(t)}
        BY <4>3
      <4>7. a \in {t[i] : i \in 1..Len(t)}
        BY <4>4
      <4> QED BY <4>5, <4>6, <4>7
    <3>11. sentLoads' = t
      BY <3>4, <3>7
    <3>12. {s[i] : i \in 1..Len(s)} = MarksIn(Back) \cup MarksIn(Pending) \cup MarksIn(q)
      BY <2>11, <3>3
    <3>13. {t[i] : i \in 1..Len(t)} =
                MarksIn(Back') \cup MarksIn(Pending') \cup MarksIn(Flushed')
      <4>1. Flushed' = n /\ Pending' = Pending /\ Back' = Back
        BY <1>2, <2>3, <2>10
      <4>2. {t[i] : i \in 1..Len(t)} = MarksIn(Back) \cup MarksIn(Pending) \cup MarksIn(n)
        BY <2>9, <3>2, <3>10, <3>12
      <4> QED BY <4>1, <4>2
    <3> QED BY <3>9, <3>11, <3>13 DEF AnswersOK
  <2> QED BY <2>12, <2>13
<1>14. AgentKnows'
  <2>1. world = Ready => sentLoads' = sentLoads
    <3> SUFFICES ASSUME world = Ready, m.kind = "Load" PROVE FALSE
      BY <1>1, <1>3
    <3>1. game.of = orders
      BY DEF BridgeInv, AgentKnows
    <3>2. outbox \in Seq(ToHook) /\ Flushed \in Seq(ToHook) /\ Forth = Flushed \o outbox
      BY Queues DEF BridgeInv, Forth
    <3>3. PICK low, high : low = Top /\ high = orders
      OBVIOUS
    <3>4. Within(Flushed \o outbox, low, high)
      BY <3>2, <3>3 DEF BridgeInv, NumbersOK
    <3>5. Within(outbox, low, high)
      BY <3>2, <3>4, WithinOn
    <3>6. low < orders
      BY <1>5, <1>6, <3>5 DEF Within, IsLoad
    <3> QED BY <3>1, <3>3, <3>6, Bounded
  <2>2. world.is = "Fetching" => FALSE
    BY <1>1 DEF BridgeInv, AgentKnows
  <2> QED BY <1>1, <1>2, <2>1, <2>2 DEF BridgeInv, AgentKnows
<1>15. CountsOK'
  BY <1>1 DEF BridgeInv, CountsOK
<1> QED BY <1>9, <1>10, <1>11, <1>12, <1>13, <1>14, <1>15 DEF BridgeInv

-----------------------------------------------------------------------------
(* What the hook says is read                                              *)

\* The one mark that comes before all others is the first.
LEMMA FirstAnswer ==
    ASSUME NEW q \in Seq(Mark), \A i, j \in 1..Len(q) : i < j => q[i].of < q[j].of,
           NEW first \in Mark, NEW R, \A x \in R : x \in Mark /\ first.of < x.of,
           {q[i] : i \in 1..Len(q)} = {first} \cup R
    PROVE  /\ q # <<>> /\ Head(q) = first /\ Tail(q) \in Seq(Mark)
           /\ \A i, j \in 1..Len(Tail(q)) : i < j => Tail(q)[i].of < Tail(q)[j].of
           /\ {Tail(q)[i] : i \in 1..Len(Tail(q))} = R
<1>1. PICK k \in 1..Len(q) : q[k] = first
  OBVIOUS
<1>2. Len(q) \in Nat /\ Len(q) >= 1 /\ k \in Int /\ q # <<>>
  BY <1>1, EmptySeq
<1>3. first.of \in Nat /\ \A x \in R : x.of \in Nat
  BY DEF Mark
<1>4. \A i \in 1..Len(q) : q[i] = first \/ q[i] \in R
  OBVIOUS
<1>5. k = 1
  <2> SUFFICES ASSUME k # 1 PROVE FALSE
    OBVIOUS
  <2>1. 1 \in 1..Len(q) /\ 1 < k
    BY <1>2
  <2>2. q[1].of < first.of
    BY <1>1, <2>1
  <2> QED BY <1>3, <1>4, <2>1, <2>2
<1>6. Head(q) = first
  BY <1>1, <1>2, <1>5
<1>7. PICK t \in Seq(Mark) : /\ t = Tail(q) /\ Len(t) = Len(q) - 1
                             /\ \A i \in 1..Len(t) : t[i] = q[i + 1]
  BY <1>2, HeadTailProperties
<1>8. PICK n \in Nat : n = Len(t) /\ Len(q) = n + 1
  <2>1. Len(t) \in Nat
    OBVIOUS
  <2>2. Len(q) = Len(t) + 1
    BY <1>2, <1>7, <2>1
  <2> QED BY <2>1, <2>2
<1>9. \A i \in 1..n : i + 1 \in 1..(n + 1) /\ t[i] = q[i + 1]
  BY <1>7, <1>8
<1>10. ASSUME NEW i \in 1..n, NEW j \in 1..n, i < j PROVE t[i].of < t[j].of
  <2>1. i + 1 < j + 1
    BY <1>8, <1>10
  <2> QED BY <1>8, <1>9, <2>1
<1>11. ASSUME NEW i \in 1..n PROVE t[i] \in R
  <2>1. 1 < i + 1 /\ 1 \in 1..(n + 1)
    BY <1>8
  <2>2. first.of < q[i + 1].of
    BY <1>1, <1>5, <1>8, <1>9, <2>1
  <2>3. q[i + 1] # first
    BY <1>3, <2>2
  <2> QED BY <1>4, <1>8, <1>9, <2>3
<1>12. ASSUME NEW x \in R PROVE \E i \in 1..n : t[i] = x
  <2>1. PICK i \in 1..(n + 1) : q[i] = x
    BY <1>8
  <2>2. i # 1
    BY <1>1, <1>3, <1>5, <2>1
  <2>3. PICK j \in 1..n : i = j + 1
    <3>1. i - 1 \in 1..n /\ i = (i - 1) + 1
      BY <1>8, <2>2
    <3> QED BY <3>1
  <2> QED BY <1>9, <2>1, <2>3
<1>13. {t[i] : i \in 1..n} = R
  BY <1>11, <1>12
<1> QED BY <1>2, <1>6, <1>7, <1>8, <1>10, <1>13

\* What is said first is of an earlier load than those still to be answered.
ComesBefore(m, b) ==
    /\ m.of \in Nat /\ m.of <= game.of /\ Rises(b)
    /\ MarksIn(Back) = MarkOf(m) \cup MarksIn(b)
    /\ \A i \in 1..Len(b) : /\ b[i].of \in Nat /\ m.of <= b[i].of /\ b[i].of <= game.of
                            /\ \E j \in 1..Len(Back) : b[i] = Back[j]
    /\ \E j \in 1..Len(Back) : m = Back[j]
    /\ \A x \in MarksIn(b) \cup MarksIn(Pending) \cup MarksIn(Flushed) :
         x \in Mark /\ m.of < x.of /\ x.of <= orders

LEMMA SaidFirst ==
    ASSUME BridgeInv, NEW m \in ToAgent, NEW b \in Seq(ToAgent), Back = <<m>> \o b
    PROVE  ComesBefore(m, b)
<1>1. PICK one \in Seq(ToAgent) : one = <<m>> /\ Len(one) = 1 /\ one[1] = m
  <2>1. PICK one \in Seq(ToAgent) : one = <<m>>
    BY Single
  <2>2. Len(one) = 1 /\ one[1] = m
    BY <2>1
  <2> QED BY <2>1, <2>2
<1>2. PICK all \in Seq(ToAgent) : all = one \o b
  BY ConcatProperties
<1>3. Back = all
  BY <1>1, <1>2
<1>4. Rises(all) /\ \A i \in 1..Len(all) : all[i].of <= game.of
  BY <1>3 DEF BridgeInv, NumbersOK
<1>5. Rises(b) /\ Cross(one, b)
  <2>1. Rises(one \o b) <=> Rises(one) /\ Rises(b) /\ Cross(one, b)
    BY RisesOn
  <2> QED BY <1>2, <1>4, <2>1
<1>6. /\ \A i \in 1..Len(one) : i \in 1..Len(all) /\ all[i] = one[i]
      /\ \A j \in 1..Len(b) : Len(one) + j \in 1..Len(all) /\ all[Len(one) + j] = b[j]
  <2>1. Joins(one \o b, one, b)
    BY Joined, Zenon
  <2> QED BY <1>2, <2>1 DEF Joins
<1>7. 1 \in 1..Len(all) /\ all[1] = m
  BY <1>1, <1>6
<1>8. m.of \in Nat /\ m.of <= game.of
  BY <1>4, <1>7 DEF ToAgent
<1>9. ASSUME NEW i \in 1..Len(b)
      PROVE  /\ b[i].of \in Nat /\ m.of <= b[i].of /\ b[i].of <= game.of
             /\ (IsLoad(b[i]) => m.of < b[i].of)
             /\ b[i].at \in Positions
             /\ \E j \in 1..Len(all) : b[i] = all[j]
  <2>1. PICK j \in 1..Len(all) : b[i] = all[j]
    BY <1>6
  <2>2. b[i].of <= game.of
    BY <1>4, <2>1
  <2>3. 1 \in 1..Len(one)
    BY <1>1
  <2>4. m.of <= b[i].of /\ (IsLoad(b[i]) => m.of < b[i].of)
    BY <1>1, <1>5, <2>3 DEF Cross
  <2>5. b[i].of \in Nat /\ b[i].at \in Positions
    <3>1. b[i] \in ToAgent
      BY ElementOfSeq
    <3> QED BY <3>1 DEF ToAgent
  <2> QED BY <2>1, <2>2, <2>4, <2>5
<1>10. MarksIn(all) = MarkOf(m) \cup MarksIn(b)
  <2>1. MarksIn(one) = MarkOf(m)
    BY <1>1, OneOf
  <2>2. MarksIn(one \o b) = MarksIn(one) \cup MarksIn(b)
    BY MarksOn
  <2> QED BY <1>2, <2>1, <2>2
<1>11. PICK g \in Nat, top \in Nat, o \in Nat :
        g = game.of /\ top = Top /\ o = orders /\ g <= top /\ top <= o
  BY Bounded
<1>12. ASSUME NEW x \in MarksIn(b) PROVE x \in Mark /\ m.of < x.of /\ x.of <= orders
  <2>1. PICK i \in 1..Len(b) : IsLoad(b[i]) /\ x = [at |-> b[i].at, of |-> b[i].of]
    BY <1>12 DEF MarksIn
  <2>2. x.of = b[i].of /\ x \in Mark
    BY <1>9, <2>1 DEF Mark
  <2> QED BY <1>9, <1>11, <2>1, <2>2
<1>13. ASSUME NEW x \in MarksIn(Pending) PROVE x \in Mark /\ m.of < x.of /\ x.of <= orders
  <2>1. hook.load # None
    <3> SUFFICES ASSUME hook.load = None PROVE FALSE
      OBVIOUS
    <3> QED BY <1>13, OneOf DEF Pending
  <2>2. PICK l \in LoadMessage : l = hook.load
    BY <2>1 DEF BridgeInv, HookTypeOK
  <2>3. MarksIn(<<l>>) = MarkOf(l)
    BY OneOf
  <2>4. x = [at |-> l.at, of |-> l.of]
    BY <1>13, <2>1, <2>2, <2>3 DEF Pending, MarkOf
  <2>5. x \in Mark /\ x.of = l.of
    BY <2>4, LogFacts DEF LoadMessage, Mark
  <2>6. top = l.of /\ g < top
    BY <1>11, <2>1, <2>2, Bounded DEF Top
  <2> QED BY <1>8, <1>11, <2>5, <2>6
<1>14. ASSUME NEW x \in MarksIn(Flushed) PROVE x \in Mark /\ m.of < x.of /\ x.of <= orders
  <2>1. PICK f \in Seq(ToHook) : f = Flushed
    BY Queues DEF BridgeInv
  <2>2. PICK u \in Seq(ToHook) : u = outbox
    BY Queues DEF BridgeInv
  <2>3. Within(f \o u, top, o)
    BY <1>11, <2>1, <2>2 DEF BridgeInv, NumbersOK, Forth
  <2>4. Within(f, top, o)
    BY <2>3, WithinOn
  <2>5. PICK i \in 1..Len(f) : IsLoad(f[i]) /\ x = [at |-> f[i].at, of |-> f[i].of]
    BY <1>14, <2>1 DEF MarksIn
  <2>6. f[i] \in ToHook
    BY ElementOfSeq
  <2>7. x \in Mark /\ x.of = f[i].of /\ f[i].of \in Nat
    BY <2>5, <2>6 DEF ToHook, Mark
  <2>8. top < f[i].of /\ f[i].of <= o
    BY <2>4, <2>5 DEF Within
  <2> QED BY <1>8, <1>11, <2>7, <2>8
<1>15. \E j \in 1..Len(Back) : m = Back[j]
  BY <1>3, <1>7
<1> QED BY <1>3, <1>5, <1>8, <1>9, <1>10, <1>12, <1>13, <1>14, <1>15 DEF ComesBefore

LEMMA ReadHookInv == ASSUME BridgeInv, ReadHook PROVE BridgeInv'
<1>1. /\ hook' = hook /\ gate' = gate /\ game' = game
      /\ UNCHANGED <<conn, follower, outbox, orders, attempts, used, toHook>>
  BY DEF ReadHook, theHook
<1>2. PICK m \in ToAgent : m = ToRead
  BY ReadMoves DEF BridgeInv
<1>3. PICK b \in Seq(ToAgent) : b = Back' /\ Back = <<m>> \o b
  BY <1>2, ReadMoves DEF BridgeInv
<1>4. IF m.kind = "Loaded" THEN OnLoaded(m) ELSE OnReport(m)
  BY <1>2 DEF ReadHook, ToRead
<1>5. PICK g \in Nat, top \in Nat, o \in Nat :
        g = game.of /\ top = Top /\ o = orders /\ g <= top /\ top <= o
  BY Bounded
<1>6. Peeked' = Peeked /\ Flushed' = Flushed /\ Forth' = Forth /\ Pending' = Pending /\ Top' = Top
  BY <1>1 DEF Peeked, Flushed, Forth, Pending, Top
<1>7. /\ m.of \in Nat /\ m.of <= g /\ Rises(b)
      /\ MarksIn(Back) = MarkOf(m) \cup MarksIn(b)
      /\ \A i \in 1..Len(b) : /\ b[i].of \in Nat /\ m.of <= b[i].of /\ b[i].of <= g
                              /\ \E j \in 1..Len(Back) : b[i] = Back[j]
      /\ \E j \in 1..Len(Back) : m = Back[j]
      /\ \A x \in MarksIn(b) \cup MarksIn(Pending) \cup MarksIn(Flushed) :
            x \in Mark /\ m.of < x.of /\ x.of <= o
  <2>1. ComesBefore(m, b)
    BY <1>3, SaidFirst, Zenon
  <2> QED BY <1>5, <2>1 DEF ComesBefore
<1>8. m.of \in Loads
  <2>1. o \in Loads /\ MaxWorlds + MaxLosses + 1 \in Int
    BY <1>5, Bounded, BridgeAssumption
  <2> QED BY <1>5, <1>7, <2>1 DEF Loads
<1>9. NumbersOK'
  <2>1. \A i \in 1..Len(b) : b[i].of <= g
    BY <1>7
  <2> QED BY <1>1, <1>3, <1>5, <1>6, <1>7, <2>1 DEF BridgeInv, NumbersOK
<1>10. HookTypeOK'
  <2>1. /\ toAgent' \in Seq(ToAgent) /\ Len(toAgent') <= LinkSize
    <3>1. toAgent' \in Seq(ToAgent) /\ Len(toAgent') <= Len(toAgent) /\ Len(toAgent) \in Nat
      BY ReadMoves, Queues DEF BridgeInv
    <3>2. Len(toAgent) <= LinkSize /\ LinkSize \in Nat /\ Len(toAgent') \in Nat
      BY <3>1, BridgeAssumption DEF BridgeInv, HookTypeOK
    <3> QED BY <3>1, <3>2
  <2>2. ~fault'
    <3>1. CASE m.kind = "Loaded"
      <4>1. /\ sentLoads # <<>> /\ Head(sentLoads).at = m.at
        <5>1. PICK a \in Mark : a = [at |-> m.at, of |-> m.of]
          BY <1>7 DEF ToAgent, Mark
        <5>2. MarkOf(m) = {a} /\ a.of = m.of /\ a.at = m.at
          BY <3>1, <5>1 DEF MarkOf, IsLoad
        <5>3. PICK q \in Seq(Mark) : q = sentLoads
          BY DEF BridgeInv, AgentTypeOK
        <5>4. PICK R : R = MarksIn(b) \cup MarksIn(Pending) \cup MarksIn(Flushed)
          OBVIOUS
        <5>5. /\ \A i, j \in 1..Len(q) : i < j => q[i].of < q[j].of
              /\ {q[i] : i \in 1..Len(q)} = {a} \cup R
          BY <1>7, <5>2, <5>3, <5>4 DEF BridgeInv, AnswersOK
        <5>6. \A x \in R : x \in Mark /\ a.of < x.of
          BY <1>7, <5>2, <5>4
        <5>7. q # <<>> /\ Head(q) = a
          BY <5>5, <5>6, FirstAnswer
        <5> QED BY <5>2, <5>3, <5>7
      <4>2. OnLoaded(m)
        BY <1>4, <3>1
      <4> QED BY <4>1, <4>2 DEF OnLoaded, BridgeInv, HookTypeOK
    <3>2. CASE m.kind # "Loaded"
      BY <1>4, <3>2 DEF OnReport, BridgeInv, HookTypeOK
    <3> QED BY <3>1, <3>2
  <2> QED BY <1>1, <2>1, <2>2 DEF BridgeInv, HookTypeOK
<1>11. held' \in Seq(ToAgent) /\ Len(held') <= HeldLimit
  <2>1. held' \in Seq(ToAgent) /\ Len(held') <= Len(held) /\ Len(held) \in Nat
    BY ReadMoves, Queues DEF BridgeInv
  <2>2. Len(held) <= HeldLimit /\ HeldLimit \in Nat /\ Len(held') \in Nat
    BY <2>1, BridgeAssumption DEF BridgeInv, AgentTypeOK
  <2> QED BY <2>1, <2>2
<1>12. CASE m.kind # "Loaded"
  <2>1. OnReport(m) /\ UNCHANGED <<world, sentLoads, reported, fault>>
    BY <1>4, <1>12 DEF OnReport
  <2>2. MarksIn(Back) = MarksIn(b)
    BY <1>7, <1>12 DEF MarkOf, IsLoad, ToAgent
  <2>3. AnswersOK'
    BY <1>3, <1>6, <2>1, <2>2 DEF BridgeInv, AnswersOK
  <2>4. GoesOn'
    BY <1>1, <1>6, <2>1, GoesOnKept DEF BridgeInv
  <2>5. world = Ready => m.of = orders
    BY <1>7 DEF BridgeInv, AgentKnows
  <2>6. /\ astray' = astray
        /\ tasks' \subseteq tasks \cup {[kind |-> "Ingest", of |-> m.of]}
        /\ \/ progress' = progress
           \/ world = Ready /\ progress' = [at |-> m.at, of |-> m.of]
    <3>1. CASE world # Ready
      <4>1. UNCHANGED <<progress, tasks, astray>>
        BY <2>1, <3>1 DEF OnReport
      <4> QED BY <4>1
    <3>2. CASE world = Ready /\ m.kind = "Ran"
      <4>1. progress' = [at |-> m.at, of |-> m.of] /\ UNCHANGED <<tasks, astray>>
        BY <2>1, <3>2 DEF OnReport
      <4> QED BY <3>2, <4>1
    <3>3. CASE world = Ready /\ m.kind = "Checkpoint"
      <4>1. Reports(m.kind, m.of) /\ UNCHANGED <<progress, tasks>>
        BY <2>1, <3>3 DEF OnReport
      <4> QED BY <2>5, <3>3, <4>1 DEF Reports, Plays
    <3>4. CASE world = Ready /\ m.kind = "Saved"
      <4>1. tasks' = tasks \cup {[kind |-> "Ingest", of |-> m.of]}
            /\ UNCHANGED <<progress, astray>>
        BY <2>1, <3>4 DEF OnReport
      <4> QED BY <4>1
    <3>5. m.kind \in {"Ran", "Checkpoint", "Saved"}
      BY <1>12 DEF ToAgent
    <3> QED BY <3>1, <3>2, <3>3, <3>4, <3>5
  <2>7. [at |-> m.at, of |-> m.of] \in Mark
    BY <1>7 DEF ToAgent, Mark
  <2>8. AgentTypeOK'
    <3>1. progress' \in {None} \cup Mark
      BY <2>6, <2>7 DEF BridgeInv, AgentTypeOK
    <3>2. tasks' \subseteq [kind : {"Fetch"}, attempt : 1..attempts]
                    \cup [kind : {"Ingest"}, of : Loads]
      BY <1>8, <2>6 DEF BridgeInv, AgentTypeOK
    <3> QED BY <1>1, <1>11, <2>1, <2>6, <3>1, <3>2 DEF BridgeInv, AgentTypeOK
  <2>9. AgentKnows'
    <3>1. world = Ready => game.of = orders /\ sentLoads = <<>>
                           /\ \A i \in 1..Len(b) : b[i].of = orders
      BY <1>7 DEF BridgeInv, AgentKnows
    <3>2. progress' # None => world = Ready /\ progress'.of = orders
      BY <2>5, <2>6 DEF BridgeInv, AgentKnows
    <3>3. world.is = "Fetching" => outbox = <<>> /\ follower.taken = world.at
      BY DEF BridgeInv, AgentKnows
    <3> QED BY <1>1, <1>3, <2>1, <3>1, <3>2, <3>3 DEF AgentKnows
  <2>10. CountsOK'
    BY <1>1, <2>1 DEF BridgeInv, CountsOK
  <2> QED BY <1>9, <1>10, <2>3, <2>4, <2>8, <2>9, <2>10 DEF BridgeInv
<1>13. CASE m.kind = "Loaded"
  <2>1. OnLoaded(m)
    BY <1>4, <1>13
  <2>2. PICK a \in Mark : a = [at |-> m.at, of |-> m.of]
    BY <1>7 DEF ToAgent, Mark
  <2>3. MarkOf(m) = {a} /\ a.of = m.of /\ a.at = m.at
    BY <1>13, <2>2 DEF MarkOf, IsLoad
  <2>4. PICK q \in Seq(Mark) : q = sentLoads
    BY DEF BridgeInv, AgentTypeOK
  <2>5. PICK R : R = MarksIn(b) \cup MarksIn(Pending) \cup MarksIn(Flushed)
    OBVIOUS
  <2>6. /\ \A i, j \in 1..Len(q) : i < j => q[i].of < q[j].of
        /\ {q[i] : i \in 1..Len(q)} = {a} \cup R
    BY <1>7, <2>3, <2>4, <2>5 DEF BridgeInv, AnswersOK
  <2>7. \A x \in R : x \in Mark /\ a.of < x.of
    BY <1>7, <2>3, <2>5
  <2>8. PICK t \in Seq(Mark) :
            /\ t = Tail(q) /\ q # <<>> /\ Head(q) = a
            /\ \A i, j \in 1..Len(t) : i < j => t[i].of < t[j].of
            /\ {t[i] : i \in 1..Len(t)} = R
    <3>1. /\ q # <<>> /\ Head(q) = a /\ Tail(q) \in Seq(Mark)
          /\ \A i, j \in 1..Len(Tail(q)) : i < j => Tail(q)[i].of < Tail(q)[j].of
          /\ {Tail(q)[i] : i \in 1..Len(Tail(q))} = R
      BY <2>6, <2>7, FirstAnswer
    <3>2. PICK t \in Seq(Mark) : t = Tail(q)
      BY <3>1
    <3> QED BY <3>1, <3>2
  <2>9. /\ sentLoads' = t /\ UNCHANGED <<tasks, astray>> /\ ~fault'
    BY <1>10, <2>1, <2>4, <2>8 DEF OnLoaded, HookTypeOK
  <2>10. AnswersOK'
    <3>1. R = MarksIn(Back') \cup MarksIn(Pending') \cup MarksIn(Flushed')
      BY <1>3, <1>6, <2>5
    <3>2. {t[i] : i \in 1..Len(t)} =
                MarksIn(Back') \cup MarksIn(Pending') \cup MarksIn(Flushed')
      BY <2>8, <3>1
    <3> QED BY <2>8, <2>9, <3>2 DEF AnswersOK
  <2>11. world # Ready /\ progress = None
    BY <2>4, <2>8 DEF BridgeInv, AgentKnows
  <2>12. CASE m.of = orders /\ world = Loading(m.at)
    <3>1. /\ world' = Ready /\ reported' = progress' /\ progress' = a
      BY <2>1, <2>2, <2>3, <2>4, <2>8, <2>9, <2>12 DEF OnLoaded
    <3>2. m.of = o /\ g = o
      BY <1>5, <1>7, <2>12
    <3>3. R = {}
      <4> SUFFICES ASSUME NEW x \in R PROVE FALSE
        OBVIOUS
      <4>1. x.of \in Nat /\ m.of < x.of /\ x.of <= o
        BY <1>7, <2>5 DEF Mark
      <4> QED BY <1>5, <3>2, <4>1
    <3>4. t = <<>>
      <4> SUFFICES ASSUME t # <<>> PROVE FALSE
        OBVIOUS
      <4>1. 1 \in 1..Len(t)
        BY EmptySeq
      <4> QED BY <2>8, <3>3, <4>1
    <3>5. \A i \in 1..Len(b) : b[i].of = o
      BY <1>5, <1>7, <3>2
    <3>6. AgentKnows'
      <4>1. Ready.is = "Ready"
        BY DEF Ready
      <4>2. \A i \in 1..Len(Back') : Back'[i].of = orders'
        BY <1>1, <1>3, <1>5, <3>5
      <4> QED BY <1>1, <1>5, <2>3, <2>9, <3>1, <3>2, <3>4, <4>1, <4>2 DEF AgentKnows
    <3>7. AgentTypeOK'
      <4>1. reported' \in Progress
        BY <1>8, <2>2, <3>1 DEF Progress, ToAgent
      <4> QED BY <1>1, <1>11, <2>9, <3>1, <4>1 DEF BridgeInv, AgentTypeOK
    <3>8. world.is # "Fetching" /\ world'.is # "Fetching"
      BY <2>12, <3>1 DEF Loading, Ready
    <3>9. GoesOn'
      BY <1>1, <1>6, <3>8, GoesOnKept DEF BridgeInv
    <3>10. CountsOK'
      BY <1>1, <3>8 DEF BridgeInv, CountsOK
    <3> QED BY <1>9, <1>10, <2>10, <3>6, <3>7, <3>9, <3>10 DEF BridgeInv
  <2>13. CASE ~(m.of = orders /\ world = Loading(m.at))
    <3>1. UNCHANGED <<world, progress, reported>>
      BY <2>1, <2>3, <2>4, <2>8, <2>13 DEF OnLoaded
    <3>2. AgentKnows'
      BY <1>1, <2>11, <3>1 DEF BridgeInv, AgentKnows
    <3>3. AgentTypeOK'
      BY <1>1, <1>11, <2>9, <3>1 DEF BridgeInv, AgentTypeOK
    <3>4. GoesOn'
      BY <1>1, <1>6, <3>1, GoesOnKept DEF BridgeInv
    <3>5. CountsOK'
      BY <1>1, <3>1 DEF BridgeInv, CountsOK
    <3> QED BY <1>9, <1>10, <2>10, <3>2, <3>3, <3>4, <3>5 DEF BridgeInv
  <2> QED BY <2>12, <2>13
<1> QED BY <1>12, <1>13

-----------------------------------------------------------------------------
(* The hook takes messages                                                 *)

LEMMA TakeKeeps ==
    ASSUME AgentTypeOK, HookTypeOK, HasIncoming, Take
    PROVE  toHook' \in Seq(ToHook) /\ Len(toHook') <= LinkSize
<1>1. toHook \in Seq(ToHook) /\ Len(toHook) \in Nat /\ Len(toHook) <= LinkSize
  BY Queues DEF HookTypeOK
<1>2. CASE hook.peeked # None
  BY <1>1, <1>2 DEF Take
<1>3. CASE hook.peeked = None
  <2>1. toHook # <<>> /\ toHook' = Tail(toHook)
    BY <1>3 DEF Take, HasIncoming
  <2>2. Tail(toHook) \in Seq(ToHook) /\ Len(Tail(toHook)) = Len(toHook) - 1
    BY <1>1, <2>1, HeadAndTail
  <2>3. LinkSize \in Nat
    BY BridgeAssumption
  <2> QED BY <1>1, <2>1, <2>2, <2>3
<1> QED BY <1>2, <1>3

\* What the hook was led to, when no load waits for the game.
LEMMA LedThere ==
    ASSUME BridgeInv, hook.load = None
    PROVE  \E c \in Positions \cup {None} :
            /\ Leads(Forth, c) /\ (world.is # "Fetching" => End(Forth, c) = follower.taken)
            /\ game.at = None => c = None /\ gate.next = 1 /\ gate.released = 0
            /\ game.at # None =>
                 /\ game.at \in Positions /\ c \in Positions /\ game.at <= c
                 /\ AllSteps(game.at, c)
                 /\ gate.released = StepsIn(c) /\ gate.next = StepsIn(game.at) + 1
                 /\ StepsIn(c) \in Nat /\ StepsIn(game.at) \in Nat
                 /\ gate.released >= gate.next <=> game.at < c
<1>1. PICK c \in Positions \cup {None} :
        /\ LedTo(hook.load, game, gate, c) /\ Leads(Forth, c)
        /\ world.is # "Fetching" => End(Forth, c) = follower.taken
  BY DEF BridgeInv, GoesOn
<1>2. CASE game.at = None
  BY <1>1, <1>2 DEF LedTo
<1>3. CASE game.at # None
  <2>1. /\ c \in Positions /\ game.at <= c /\ AllSteps(game.at, c)
        /\ gate.released = StepsIn(c) /\ gate.next = StepsIn(game.at) + 1
    BY <1>1, <1>3 DEF LedTo
  <2>2. PICK a \in Positions : a = game.at
    BY <1>3 DEF BridgeInv, HookTypeOK
  <2>3. /\ StepsIn(a) \in Nat /\ StepsIn(c) \in Nat
        /\ StepsIn(c) >= StepsIn(a) + 1 <=> a < c
    BY <2>1, <2>2, MayRunTo
  <2> QED BY <1>1, <1>3, <2>1, <2>2, <2>3
<1> QED BY <1>2, <1>3

\* The first message on its way is of a load the agent ordered.
LEMMA FirstOrdered ==
    ASSUME BridgeInv, NEW m \in ToHook, NEW n \in Seq(ToHook), Forth = <<m>> \o n
    PROVE  m.of \in Loads
<1>1. PICK one \in Seq(ToHook) : one = <<m>>
  BY Single
<1>2. PICK top \in Nat, o \in Loads : top = Top /\ o = orders /\ o \in Nat
  BY Bounded
<1>3. Within(one \o n, top, o)
  BY <1>1, <1>2 DEF BridgeInv, NumbersOK
<1>4. Within(one, top, o)
  BY <1>3, WithinOn
<1>5. m.of <= o /\ m.of \in Nat
  BY <1>1, <1>4, OneOf DEF ToHook
<1>6. MaxWorlds + MaxLosses + 1 \in Int
  BY BridgeAssumption
<1> QED BY <1>2, <1>5, <1>6 DEF Loads

LEMMA HandleTakes ==
    ASSUME BridgeInv, Free, HasIncoming, Handle(Incoming), UNCHANGED outbox,
           ~MayRun \/ Incoming.kind = "Release",
           NEW m \in ToHook, m = Incoming
    PROVE  /\ hook'.out = hook.out /\ hook'.peeked = None
           /\ hook'.load = IF m.kind = "Load" THEN m ELSE None
           /\ hook' \in [load : {None} \cup LoadMessage, save : {None} \cup SaveMessage,
                         peeked : {None} \cup ToHook, out : Seq(ToAgent)]
           /\ ~fault' /\ game'.of = game.of /\ game' \in [at : {None} \cup Positions, of : Nat]
           /\ gate' \in [next : Nat, released : Nat, loading : BOOLEAN]
           /\ gate'.loading = (m.kind = "Load")
           /\ \E p \in Positions \cup {None} : Leads(Forth, p) /\ Follows(m, p)
                /\ (world.is # "Fetching" => End(Forth, p) = follower.taken)
           /\ LedTo(hook'.load, game', gate', m.at)
           /\ m.kind = "Apply" =>
                /\ game.at \in Positions /\ game.at + 1 \in Positions
                /\ game' = [game EXCEPT !.at = game.at + 1]
           /\ m.kind # "Apply" => game' = game
<1>1. hook.load = None /\ hook.out = <<>> /\ ~gate.loading
  BY DEF Free, BridgeInv, HookTypeOK
<1>2. /\ hook \in [load : {None} \cup LoadMessage, save : {None} \cup SaveMessage,
                   peeked : {None} \cup ToHook, out : Seq(ToAgent)]
      /\ gate \in [next : Nat, released : Nat, loading : BOOLEAN]
      /\ game \in [at : {None} \cup Positions, of : Nat] /\ ~fault
  BY DEF BridgeInv, HookTypeOK
<1>3. /\ hook' = [hook EXCEPT !.peeked = None,
                              !.load = IF m.kind = "Load" THEN m ELSE @,
                              !.save = IF m.kind = "Apply" /\ Log[m.at] = "save" THEN m ELSE @]
      /\ game' = IF m.kind = "Apply" THEN [game EXCEPT !.at = m.at] ELSE game
      /\ fault' = (fault \/ Refuses(m)) /\ Take
      /\ gate' = IF Refuses(m) THEN gate
                 ELSE IF m.kind = "Release" THEN [gate EXCEPT !.released = StepsIn(m.at)]
                 ELSE IF m.kind = "Load" THEN [gate EXCEPT !.loading = TRUE]
                 ELSE gate
  BY DEF Handle
<1>4. /\ hook'.out = <<>> /\ hook'.peeked = None
      /\ hook'.load = IF m.kind = "Load" THEN m ELSE None
  BY <1>1, <1>2, <1>3
<1>5. /\ m.at \in Positions /\ m.of \in Nat /\ m.at # None /\ m # None
      /\ m.kind \in {"Apply", "Release", "Load"}
  BY NoneIsNone DEF ToHook
<1>6. PICK c \in Positions \cup {None} :
            /\ Leads(Forth, c) /\ (world.is # "Fetching" => End(Forth, c) = follower.taken)
            /\ game.at = None => c = None /\ gate.next = 1 /\ gate.released = 0
            /\ game.at # None =>
                 /\ game.at \in Positions /\ c \in Positions /\ game.at <= c
                 /\ AllSteps(game.at, c)
                 /\ gate.released = StepsIn(c) /\ gate.next = StepsIn(game.at) + 1
                 /\ StepsIn(c) \in Nat /\ StepsIn(game.at) \in Nat
                 /\ gate.released >= gate.next <=> game.at < c
  BY <1>1, LedThere
<1>7. Follows(m, c) /\ m.of \in Loads
  <2>1. PICK n \in Seq(ToHook) : Forth = <<m>> \o n
    BY <1>3, <1>4, TakeMoves DEF BridgeInv
  <2>2. Leads(<<m>> \o n, c)
    BY <1>6, <2>1
  <2> QED BY <2>1, <2>2, LeadsNext, FirstOrdered
<1>8. hook' \in [load : {None} \cup LoadMessage, save : {None} \cup SaveMessage,
                 peeked : {None} \cup ToHook, out : Seq(ToAgent)]
  <2>1. m.kind = "Load" => m \in LoadMessage
    <3>1. m.kind = "Load" => m.at \in Worlds
      BY <1>7 DEF Follows
    <3> QED BY <3>1 DEF ToHook, LoadMessage
  <2>2. m.kind = "Apply" => m \in SaveMessage
    BY <1>7 DEF ToHook, SaveMessage
  <2> QED BY <1>2, <1>3, <2>1, <2>2
<1>9. CASE m.kind = "Apply"
  <2>1. c # None /\ m.at = c + 1 /\ Log[c + 1] # "step" /\ game.at # None
    BY <1>6, <1>7, <1>9 DEF Follows
  <2>2. PICK a \in Nat : a = game.at /\ a = c /\ a \in Positions
    <3>1. ~(gate.released >= gate.next)
      BY <1>1, <1>9 DEF MayRun
    <3>2. game.at \in Positions /\ c \in Positions /\ game.at <= c /\ ~(game.at < c)
      BY <1>6, <2>1, <3>1
    <3>3. PICK a \in Positions, b \in Positions : a = game.at /\ b = c
      BY <3>2
    <3>4. a \in Nat /\ b \in Nat
      BY LogFacts
    <3>5. a = b
      BY <3>2, <3>3, <3>4
    <3> QED BY <3>3, <3>4, <3>5
  <2>3. StepsIn(m.at) = StepsIn(a) /\ StepsIn(a) \in Nat
    BY <2>1, <2>2, StepsNext, StepSets
  <2>4. gate.next = StepsIn(a) + 1 /\ gate.released = StepsIn(a)
    BY <1>6, <2>1, <2>2
  <2>5. ~Refuses(m)
    BY <1>1, <1>9, <2>3, <2>4 DEF Refuses
  <2>6. gate' = gate
    BY <1>3, <1>9, <2>5
  <2>7. game' = [game EXCEPT !.at = m.at] /\ game'.at = m.at /\ game'.of = game.of
    BY <1>2, <1>3, <1>9
  <2>8. m.at \in Nat /\ AllSteps(m.at, m.at)
    BY <1>5, LogFacts DEF AllSteps
  <2>9. LedTo(hook'.load, game', gate', m.at)
    BY <1>4, <1>5, <1>9, <2>3, <2>4, <2>6, <2>7, <2>8 DEF LedTo
  <2>10. ~fault' /\ gate'.loading = FALSE
    BY <1>1, <1>2, <1>3, <2>5, <2>6
  <2> QED BY <1>1, <1>2, <1>4, <1>5, <1>6, <1>7, <1>8, <1>9, <2>1, <2>2, <2>6, <2>7, <2>9, <2>10
<1>10. CASE m.kind = "Release"
  <2>1. c # None /\ m.at > c /\ AllSteps(c, m.at) /\ game.at # None
    BY <1>6, <1>7, <1>10 DEF Follows
  <2>2. /\ game.at \in Positions /\ c \in Positions /\ game.at <= c /\ AllSteps(game.at, c)
        /\ gate.released = StepsIn(c) /\ gate.next = StepsIn(game.at) + 1
        /\ StepsIn(c) \in Nat
    BY <1>6, <2>1
  <2>3. PICK a \in Nat, b \in Nat, p \in Nat : a = game.at /\ b = c /\ p = m.at
    <3>1. \A x \in Positions : x \in Nat
      BY LogFacts
    <3>2. game.at \in Nat /\ c \in Nat /\ m.at \in Nat
      BY <1>5, <2>2, <3>1
    <3> QED BY <3>2
  <2>4. a <= b /\ b < p /\ AllSteps(a, b) /\ AllSteps(b, p)
    BY <2>1, <2>2, <2>3
  <2>5. a <= p /\ AllSteps(a, p)
    BY <2>4 DEF AllSteps
  <2>6. StepsIn(b) <= StepsIn(p) /\ StepsIn(p) \in Nat /\ StepsIn(b) \in Nat
    BY <2>4, StepsGrow, StepSets
  <2>7. ~Refuses(m)
    BY <1>1, <1>10, <2>2, <2>3, <2>6 DEF Refuses
  <2>8. gate' = [gate EXCEPT !.released = StepsIn(m.at)] /\ game' = game
    BY <1>3, <1>10, <2>7
  <2>9. /\ gate'.released = StepsIn(p) /\ gate'.next = StepsIn(a) + 1 /\ gate'.loading = FALSE
        /\ gate' \in [next : Nat, released : Nat, loading : BOOLEAN]
    BY <1>1, <1>2, <2>2, <2>3, <2>6, <2>8
  <2>10. LedTo(hook'.load, game', gate', m.at)
    BY <1>4, <1>5, <1>10, <2>1, <2>3, <2>5, <2>8, <2>9 DEF LedTo
  <2>11. ~fault'
    BY <1>2, <1>3, <2>7
  <2> QED BY <1>1, <1>2, <1>4, <1>6, <1>7, <1>8, <1>10, <2>8, <2>9, <2>10, <2>11
<1>11. CASE m.kind = "Load"
  <2>1. ~Refuses(m)
    BY <1>1, <1>11 DEF Refuses
  <2>2. gate' = [gate EXCEPT !.loading = TRUE] /\ game' = game /\ ~fault'
    BY <1>2, <1>3, <1>11, <2>1
  <2>3. gate'.loading = TRUE /\ gate' \in [next : Nat, released : Nat, loading : BOOLEAN]
    BY <1>2, <2>2
  <2>4. LedTo(hook'.load, game', gate', m.at)
    BY <1>4, <1>5, <1>11 DEF LedTo
  <2> QED BY <1>1, <1>2, <1>4, <1>6, <1>7, <1>8, <1>11, <2>2, <2>3, <2>4
<1> QED BY <1>5, <1>9, <1>10, <1>11

LEMMA HandleInv ==
    ASSUME BridgeInv, Free, HasIncoming, Handle(Incoming), UNCHANGED <<agent, toAgent>>,
           ~MayRun \/ Incoming.kind = "Release"
    PROVE  BridgeInv'
<1>1. UNCHANGED <<conn, follower, world, outbox, sentLoads, orders, attempts, progress, reported,
                  held, tasks, astray, used, toAgent>>
  BY DEF agent
<1>2. Take /\ hook'.peeked = None
  BY DEF Handle, BridgeInv, HookTypeOK
<1>3. PICK m \in ToHook : m = Incoming
  BY <1>1, <1>2, TakeMoves DEF BridgeInv
<1>4. /\ hook'.out = hook.out /\ hook'.load = IF m.kind = "Load" THEN m ELSE None
      /\ hook' \in [load : {None} \cup LoadMessage, save : {None} \cup SaveMessage,
                    peeked : {None} \cup ToHook, out : Seq(ToAgent)]
      /\ ~fault' /\ game'.of = game.of /\ game' \in [at : {None} \cup Positions, of : Nat]
      /\ gate' \in [next : Nat, released : Nat, loading : BOOLEAN]
      /\ gate'.loading = (m.kind = "Load")
      /\ \E p \in Positions \cup {None} : Leads(Forth, p) /\ Follows(m, p)
                /\ (world.is # "Fetching" => End(Forth, p) = follower.taken)
      /\ LedTo(hook'.load, game', gate', m.at)
  BY <1>1, <1>3, HandleTakes
<1>5. hook.load = None /\ hook.out = <<>>
  BY DEF Free
<1>6. PICK n \in Seq(ToHook), f \in Seq(ToHook), one \in Seq(ToHook) :
        /\ n = Forth' /\ Forth = one \o n /\ f = Flushed' /\ Flushed = one \o f
        /\ one = <<m>>
  <2>1. /\ Flushed' \in Seq(ToHook) /\ Flushed = <<m>> \o Flushed'
        /\ Forth' \in Seq(ToHook) /\ Forth = <<m>> \o Forth'
    BY <1>1, <1>2, <1>3, TakeMoves DEF BridgeInv
  <2>2. PICK one \in Seq(ToHook) : one = <<m>>
    BY Single
  <2> QED BY <2>1, <2>2
<1>7. m # None /\ m.at \in Positions /\ m.of \in Nat /\ (IsLoad(m) <=> m.kind = "Load")
  BY NoneIsNone DEF ToHook, IsLoad
<1>8. Top = game.of /\ Top' = IF m.kind = "Load" THEN m.of ELSE game.of
  BY <1>4, <1>5, <1>7 DEF Top
<1>9. Back' = Back
  BY <1>1, <1>4 DEF Back
<1>10. HookTypeOK'
  <2>1. toHook' \in Seq(ToHook) /\ Len(toHook') <= LinkSize
    BY <1>2, TakeKeeps DEF BridgeInv
  <2>2. gate'.loading = (hook'.load # None)
    BY <1>4, <1>7
  <2>3. Len(hook'.out) <= 2
    BY <1>4 DEF BridgeInv, HookTypeOK
  <2> QED BY <1>1, <1>4, <2>1, <2>2, <2>3 DEF BridgeInv, HookTypeOK
<1>11. GoesOn'
  <2>1. PICK p \in Positions \cup {None} : Leads(Forth, p) /\ Follows(m, p)
                /\ (world.is # "Fetching" => End(Forth, p) = follower.taken)
    BY <1>4
  <2>2. Leads(<<m>> \o n, p)
    BY <1>6, <2>1
  <2>3. Leads(n, m.at) /\ End(n, m.at) = End(<<m>> \o n, p)
    BY <2>2, LeadsNext
  <2>4. /\ LedTo(hook'.load, game', gate', m.at) /\ Leads(Forth', m.at)
        /\ world'.is # "Fetching" => End(Forth', m.at) = follower'.taken
    BY <1>1, <1>4, <1>6, <2>1, <2>3
  <2> QED BY <1>7, <2>4 DEF GoesOn
<1>12. PICK g \in Nat, o \in Nat : g = game.of /\ o = orders /\ g <= o
  BY <1>8, Bounded
<1>13. /\ Rises(n) /\ Within(n, g, o) /\ Cross(one, n) /\ g <= m.of /\ m.of <= o
       /\ IsLoad(m) => g < m.of
  <2>1. Rises(one \o n) /\ Within(one \o n, g, o)
    BY <1>6, <1>8, <1>12 DEF BridgeInv, NumbersOK
  <2>2. Rises(n) /\ Cross(one, n) /\ Within(n, g, o) /\ Within(one, g, o)
    BY <2>1, RisesOn, WithinOn
  <2>3. Within(one, g, o) <=> g <= m.of /\ m.of <= o /\ (IsLoad(m) => g < m.of)
    BY <1>6, OneOf
  <2> QED BY <2>2, <2>3
<1>14. NumbersOK'
  <2>1. Rises(Back) /\ (\A i \in 1..Len(Back) : Back[i].of <= g)
        /\ \A i \in 1..Len(outbox) : outbox[i].of = orders
    BY <1>12 DEF BridgeInv, NumbersOK
  <2>2. Len(one) = 1 /\ one[1] = m
    BY <1>6
  <2>3. m.kind = "Load" => Within(n, m.of, o)
    BY <1>7, <1>13, <2>2 DEF Within, Cross
  <2>4. PICK top \in Nat : /\ top = Top' /\ g <= top /\ top <= o /\ Within(n, top, o)
                           /\ (hook'.load # None => g < top)
    BY <1>4, <1>7, <1>8, <1>12, <1>13, <2>3
  <2> QED BY <1>1, <1>4, <1>6, <1>9, <1>12, <1>13, <2>1, <2>4 DEF NumbersOK
<1>15. AnswersOK'
  <2>1. MarksIn(Pending) = {}
    BY <1>5, OneOf DEF Pending
  <2>2. MarksIn(Pending') = MarkOf(m)
    <3>1. MarksIn(one) = MarkOf(m) /\ MarksIn(<<>>) = {}
      BY <1>6, OneOf
    <3>2. CASE m.kind = "Load"
      <4>1. Pending' = one
        BY <1>4, <1>6, <1>7, <3>2 DEF Pending
      <4> QED BY <3>1, <4>1
    <3>3. CASE m.kind # "Load"
      <4>1. Pending' = <<>> /\ MarkOf(m) = {}
        BY <1>4, <1>7, <3>3 DEF Pending, MarkOf
      <4> QED BY <3>1, <4>1
    <3> QED BY <3>2, <3>3
  <2>3. MarksIn(Flushed) = MarkOf(m) \cup MarksIn(f)
    <3>1. MarksIn(one) = MarkOf(m)
      BY <1>6, OneOf
    <3>2. MarksIn(one \o f) = MarksIn(one) \cup MarksIn(f)
      BY MarksOn
    <3> QED BY <1>6, <3>1, <3>2
  <2>4. MarksIn(Back') \cup MarksIn(Pending') \cup MarksIn(Flushed') =
        MarksIn(Back) \cup MarksIn(Pending) \cup MarksIn(Flushed)
    BY <1>6, <1>9, <2>1, <2>2, <2>3
  <2> QED BY <1>1, <2>4 DEF BridgeInv, AnswersOK
<1>16. AgentKnows'
  BY <1>1, <1>4, <1>9 DEF BridgeInv, AgentKnows
<1>17. AgentTypeOK' /\ CountsOK'
  BY <1>1 DEF BridgeInv, AgentTypeOK, CountsOK
<1> QED BY <1>10, <1>11, <1>14, <1>15, <1>16, <1>17 DEF BridgeInv

LEMMA PeekInv ==
    ASSUME BridgeInv, HasIncoming, Take, hook' = [hook EXCEPT !.peeked = Incoming],
           UNCHANGED <<agent, toAgent, gate, game, fault>>
    PROVE  BridgeInv'
<1>1. UNCHANGED <<conn, follower, world, outbox, sentLoads, orders, attempts, progress, reported,
                  held, tasks, astray, used, toAgent>>
  BY DEF agent
<1>2. /\ hook'.peeked = Incoming /\ hook'.load = hook.load /\ hook'.out = hook.out
      /\ hook'.save = hook.save
  BY DEF BridgeInv, HookTypeOK
<1>3. Flushed' = Flushed /\ Forth' = Forth /\ Incoming \in ToHook
  BY <1>1, <1>2, PeekMoves DEF BridgeInv
<1>4. Back' = Back
  BY <1>1, <1>2 DEF Back
<1>5. HookTypeOK'
  <2>1. toHook' \in Seq(ToHook) /\ Len(toHook') <= LinkSize
    BY TakeKeeps DEF BridgeInv
  <2>2. hook' \in [load : {None} \cup LoadMessage, save : {None} \cup SaveMessage,
                   peeked : {None} \cup ToHook, out : Seq(ToAgent)]
    BY <1>3 DEF BridgeInv, HookTypeOK
  <2> QED BY <1>1, <1>2, <2>1, <2>2 DEF BridgeInv, HookTypeOK
<1>6. GoesOn'
  BY <1>1, <1>2, <1>3, GoesOnKept DEF BridgeInv
<1>7. NumbersOK'
  BY <1>1, <1>2, <1>3, <1>4, NumbersKept DEF BridgeInv, NumbersOK
<1>8. AnswersOK'
  BY <1>1, <1>2, <1>3, <1>4, AnswersKept DEF BridgeInv
<1>9. AgentTypeOK' /\ CountsOK' /\ AgentKnows'
  BY <1>1, <1>4 DEF BridgeInv, AgentTypeOK, CountsOK, AgentKnows
<1> QED BY <1>5, <1>6, <1>7, <1>8, <1>9 DEF BridgeInv

LEMMA PollStepInv == ASSUME BridgeInv, PollStep PROVE BridgeInv'
BY HandleInv DEF PollStep

LEMMA ReadAheadInv == ASSUME BridgeInv, ReadAhead PROVE BridgeInv'
<1>1. Incoming = Head(toHook) /\ HasIncoming
  BY DEF ReadAhead, Incoming, HasIncoming
<1>2. CASE Head(toHook).kind = "Release"
  BY <1>1, <1>2, HandleInv DEF ReadAhead
<1>3. CASE Head(toHook).kind # "Release"
  BY <1>1, <1>3, PeekInv DEF ReadAhead, Take
<1> QED BY <1>2, <1>3

LEMMA StageActionsInv == ASSUME BridgeInv, StageActions PROVE BridgeInv'
BY HandleInv, PeekInv DEF StageActions

-----------------------------------------------------------------------------
(* The game runs, saves and loads                                          *)

\* What the hook says is of the world the game has now, and comes last.
LEMMA SaysMore ==
    ASSUME BridgeInv, hook.out = <<>>, NEW o \in Seq(ToAgent), hook'.out = o,
           UNCHANGED <<held, toAgent>>,
           NEW n \in Nat, game.of <= n, Rises(o),
           \A i \in 1..Len(o) : o[i].of = n /\ (IsLoad(o[i]) => game.of < n)
    PROVE  /\ Rises(Back') /\ \A i \in 1..Len(Back') : Back'[i].of <= n
           /\ MarksIn(Back') = MarksIn(Back) \cup MarksIn(o)
           /\ \A i \in 1..Len(Back') : Back'[i].of = n \/ \E j \in 1..Len(Back) : Back'[i] = Back[j]
<1>1. PICK b \in Seq(ToAgent) : b = Back
  BY Queues DEF BridgeInv
<1>2. PICK all \in Seq(ToAgent) : all = b \o o
  BY ConcatProperties
<1>3. Back' = all
  BY <1>1, <1>2, SayMoves DEF BridgeInv
<1>4. Rises(b) /\ \A i \in 1..Len(b) : b[i].of <= game.of
  BY <1>1 DEF BridgeInv, NumbersOK
<1>5. PICK g \in Nat : g = game.of /\ g <= n
  BY Bounded
<1>6. \A i \in 1..Len(b) : b[i].of \in Nat /\ b[i].of <= g
  <2>1. \A i \in 1..Len(b) : b[i] \in ToAgent
    BY ElementOfSeq
  <2> QED BY <1>4, <1>5, <2>1 DEF ToAgent
<1>7. Cross(b, o)
  BY <1>5, <1>6 DEF Cross
<1>8. Rises(all)
  <2>1. Rises(b \o o) <=> Rises(b) /\ Rises(o) /\ Cross(b, o)
    BY RisesOn
  <2> QED BY <1>2, <1>4, <1>7, <2>1
<1>9. ASSUME NEW k \in 1..Len(all)
      PROVE  all[k].of <= n /\ (all[k].of = n \/ \E j \in 1..Len(b) : all[k] = b[j])
  <2>1. \/ \E i \in 1..Len(b) : all[k] = b[i]
        \/ \E j \in 1..Len(o) : all[k] = o[j]
    <3>1. /\ \A i \in 1..Len(b) : (b \o o)[i] = b[i]
          /\ \A j \in 1..Len(o) : (b \o o)[Len(b) + j] = o[j]
          /\ \A i \in 1..Len(b \o o) :
                i \in 1..Len(b) \/ \E j \in 1..Len(o) : i = Len(b) + j
      <4>1. Joins(b \o o, b, o)
        BY Joined, Zenon
      <4> QED BY <4>1 DEF Joins
    <3>2. k \in 1..Len(b) \/ \E j \in 1..Len(o) : k = Len(b) + j
      BY <1>2, <3>1
    <3> QED BY <1>2, <3>1, <3>2
  <2>2. ASSUME NEW i \in 1..Len(b), all[k] = b[i] PROVE all[k].of <= n
    BY <1>5, <1>6, <2>2
  <2>3. ASSUME NEW j \in 1..Len(o), all[k] = o[j] PROVE all[k].of = n
    BY <2>3
  <2> QED BY <2>1, <2>2, <2>3
<1>10. MarksIn(all) = MarksIn(b) \cup MarksIn(o)
  <2>1. MarksIn(b \o o) = MarksIn(b) \cup MarksIn(o)
    BY MarksOn
  <2> QED BY <1>2, <2>1
<1> QED BY <1>1, <1>3, <1>8, <1>9, <1>10

\* A report is about no load.
LEMMA ReportsMore ==
    ASSUME BridgeInv, hook.out = <<>>, NEW o \in Seq(ToAgent), hook'.out = o,
           UNCHANGED <<agent, toHook, toAgent>>,
           hook'.load = hook.load, hook'.peeked = hook.peeked, game'.of = game.of,
           \A i \in 1..Len(o) : o[i].of = game.of /\ ~IsLoad(o[i])
    PROVE  NumbersOK' /\ AnswersOK' /\ AgentKnows' /\ AgentTypeOK' /\ CountsOK' /\ Forth' = Forth
<1>1. UNCHANGED <<conn, follower, world, outbox, sentLoads, orders, attempts, progress, reported,
                  held, tasks, astray, used, toHook, toAgent>>
  BY DEF agent
<1>2. /\ Peeked' = Peeked /\ Flushed' = Flushed /\ Forth' = Forth /\ Pending' = Pending
      /\ Top' = Top
  BY <1>1 DEF Peeked, Flushed, Forth, Pending, Top
<1>3. PICK n \in Nat : n = game.of /\ game.of <= n
  BY Bounded
<1>4. Rises(o)
  BY <1>3 DEF Rises
<1>5. /\ Rises(Back') /\ \A i \in 1..Len(Back') : Back'[i].of <= n
      /\ MarksIn(Back') = MarksIn(Back) \cup MarksIn(o)
      /\ \A i \in 1..Len(Back') : Back'[i].of = n \/ \E j \in 1..Len(Back) : Back'[i] = Back[j]
  BY <1>1, <1>3, <1>4, SaysMore
<1>6. MarksIn(o) = {}
  BY DEF MarksIn
<1>7. NumbersOK'
  BY <1>1, <1>2, <1>3, <1>5 DEF BridgeInv, NumbersOK
<1>8. AnswersOK'
  <2>1. MarksIn(Back') = MarksIn(Back)
    BY <1>5, <1>6
  <2> QED BY <1>1, <1>2, <2>1 DEF BridgeInv, AnswersOK
<1>9. AgentKnows'
  <2>1. world = Ready => \A i \in 1..Len(Back') : Back'[i].of = orders
    <3>1. world = Ready => n = orders /\ \A i \in 1..Len(Back) : Back[i].of = orders
      BY <1>3 DEF BridgeInv, AgentKnows
    <3> QED BY <1>5, <3>1
  <2> QED BY <1>1, <2>1 DEF BridgeInv, AgentKnows
<1>10. AgentTypeOK' /\ CountsOK'
  BY <1>1 DEF BridgeInv, AgentTypeOK, CountsOK
<1> QED BY <1>2, <1>7, <1>8, <1>9, <1>10

\* The step the game runs is the one after where it is.
LEMMA RunsNext ==
    ASSUME BridgeInv, RunStep
    PROVE  /\ game.at \in Positions /\ game.at + 1 \in Positions
           /\ game' = [game EXCEPT !.at = game.at + 1]
           /\ \E c \in Positions \cup {None} :
                /\ LedTo(hook.load, game', gate', c) /\ Leads(Forth, c)
                /\ world.is # "Fetching" => End(Forth, c) = follower.taken
<1>1. /\ hook.load = None /\ gate.released >= gate.next
      /\ gate' = [gate EXCEPT !.next = gate.next + 1]
      /\ game' = [game EXCEPT !.at = PositionOf(gate.next)]
  BY DEF RunStep, Free, MayRun
<1>2. PICK c \in Positions \cup {None} :
            /\ Leads(Forth, c) /\ (world.is # "Fetching" => End(Forth, c) = follower.taken)
            /\ game.at = None => c = None /\ gate.next = 1 /\ gate.released = 0
            /\ game.at # None =>
                 /\ game.at \in Positions /\ c \in Positions /\ game.at <= c
                 /\ AllSteps(game.at, c)
                 /\ gate.released = StepsIn(c) /\ gate.next = StepsIn(game.at) + 1
                 /\ StepsIn(c) \in Nat /\ StepsIn(game.at) \in Nat
                 /\ gate.released >= gate.next <=> game.at < c
  BY <1>1, LedThere
<1>3. game.at # None
  BY <1>1, <1>2
<1>4. PICK a \in Positions, b \in Positions : a = game.at /\ b = c
  BY <1>2, <1>3
<1>5. a < b /\ a <= b /\ AllSteps(a, b) /\ a \in Nat /\ b \in Nat
  BY <1>1, <1>2, <1>3, <1>4, LogFacts
<1>6. /\ a + 1 \in Positions /\ PositionOf(StepsIn(a) + 1) = a + 1
      /\ StepsIn(a + 1) = StepsIn(a) + 1 /\ AllSteps(a + 1, b)
  BY <1>5, MayRunTo
<1>7. gate.next = StepsIn(a) + 1 /\ gate.released = StepsIn(b)
  BY <1>2, <1>3, <1>4
<1>8. game' = [game EXCEPT !.at = a + 1]
  BY <1>1, <1>6, <1>7
<1>9. game'.at = a + 1 /\ game'.at # None
  <2>1. game'.at = a + 1
    BY <1>8 DEF BridgeInv, HookTypeOK
  <2> QED BY <1>6, <2>1, NoneIsNone
<1>10. gate'.next = StepsIn(a + 1) + 1 /\ gate'.released = StepsIn(b)
  BY <1>1, <1>6, <1>7 DEF BridgeInv, HookTypeOK
<1>11. a + 1 <= b
  BY <1>5
<1>12. LedTo(hook.load, game', gate', b)
  BY <1>1, <1>6, <1>9, <1>10, <1>11 DEF LedTo
<1> QED BY <1>2, <1>4, <1>6, <1>8, <1>12

LEMMA RunStepInv == ASSUME BridgeInv, RunStep PROVE BridgeInv'
<1>1. /\ hook.out = <<>> /\ gate' = [gate EXCEPT !.next = gate.next + 1]
      /\ UNCHANGED <<agent, toHook, toAgent, fault>>
  BY DEF RunStep, Free
<1>2. /\ game.at + 1 \in Positions /\ game' = [game EXCEPT !.at = game.at + 1]
      /\ \E c \in Positions \cup {None} :
            /\ LedTo(hook.load, game', gate', c) /\ Leads(Forth, c)
            /\ world.is # "Fetching" => End(Forth, c) = follower.taken
  BY RunsNext
<1>3. /\ game'.at = game.at + 1 /\ game'.of = game.of
      /\ game' \in [at : {None} \cup Positions, of : Nat]
  BY <1>2 DEF BridgeInv, HookTypeOK
<1>4. PICK p \in Positions, g \in Nat : p = game'.at /\ g = game.of
  BY <1>2, <1>3, Bounded
<1>5. PICK ran \in ToAgent, check \in ToAgent :
        /\ ran = Say("Ran", p) /\ check = Say("Checkpoint", p)
        /\ ran.of = g /\ check.of = g /\ ~IsLoad(ran) /\ ~IsLoad(check)
  <2>1. Message("Ran", p, g) \in ToAgent /\ Message("Checkpoint", p, g) \in ToAgent
    BY DEF Message, ToAgent
  <2>2. /\ Message("Ran", p, g).of = g /\ Message("Checkpoint", p, g).of = g
        /\ ~IsLoad(Message("Ran", p, g)) /\ ~IsLoad(Message("Checkpoint", p, g))
    BY DEF Message, IsLoad
  <2> QED BY <1>4, <2>1, <2>2 DEF Say
<1>6. \E o \in Seq(ToAgent) :
        /\ hook' = [hook EXCEPT !.out = o] /\ Len(o) <= 2
        /\ \A i \in 1..Len(o) : o[i].of = g /\ ~IsLoad(o[i])
  <2>1. hook' = [hook EXCEPT !.out = <<ran>> \o
                    (IF gate.next % Interval = 0 THEN <<check>> ELSE <<>>)]
    BY <1>4, <1>5 DEF RunStep
  <2>2. CASE gate.next % Interval = 0
    <3>1. PICK one \in Seq(ToAgent), two \in Seq(ToAgent) : one = <<ran>> /\ two = <<check>>
      BY Single
    <3>0. Len(one) = 1 /\ one[1] = ran /\ Len(two) = 1 /\ two[1] = check
      BY <3>1
    <3>7. /\ one \o two \in Seq(ToAgent) /\ Len(one \o two) = Len(one) + Len(two)
          /\ \A i \in 1..(Len(one) + Len(two)) :
                (one \o two)[i] = IF i <= Len(one) THEN one[i] ELSE two[i - Len(one)]
      BY ConcatProperties
    <3>3. PICK o \in Seq(ToAgent) :
            /\ o = one \o two /\ Len(o) = Len(one) + Len(two)
            /\ \A i \in 1..(Len(one) + Len(two)) :
                    o[i] = IF i <= Len(one) THEN one[i] ELSE two[i - Len(one)]
      BY <3>7
    <3>2. Len(o) = 2 /\ o[1] = ran /\ o[2] = check
      BY <3>0, <3>3
    <3>4. \A i \in 1..Len(o) : i = 1 \/ i = 2
      BY <3>2
    <3>5. \A i \in 1..Len(o) : o[i].of = g /\ ~IsLoad(o[i])
      BY <1>5, <3>2, <3>4
    <3>6. hook' = [hook EXCEPT !.out = o] /\ Len(o) <= 2
      BY <2>1, <2>2, <3>1, <3>2, <3>3
    <3> QED BY <3>5, <3>6
  <2>3. CASE ~(gate.next % Interval = 0)
    <3>1. PICK o \in Seq(ToAgent) : o = <<ran>>
      BY Single
    <3>2. Len(o) = 1 /\ o[1] = ran
      BY <3>1
    <3>3. <<ran>> \o <<>> = <<ran>>
      OBVIOUS
    <3>4. \A i \in 1..Len(o) : i = 1
      BY <3>2
    <3>5. \A i \in 1..Len(o) : o[i].of = g /\ ~IsLoad(o[i])
      BY <1>5, <3>2, <3>4
    <3>6. hook' = [hook EXCEPT !.out = o] /\ Len(o) <= 2
      BY <2>1, <2>3, <3>1, <3>2, <3>3
    <3> QED BY <3>5, <3>6
  <2> QED BY <2>2, <2>3
<1>7. PICK o \in Seq(ToAgent) :
        /\ hook' = [hook EXCEPT !.out = o] /\ Len(o) <= 2
        /\ \A i \in 1..Len(o) : o[i].of = g /\ ~IsLoad(o[i])
  BY <1>6
<1>8. /\ hook'.out = o /\ hook'.load = hook.load /\ hook'.peeked = hook.peeked
      /\ hook' \in [load : {None} \cup LoadMessage, save : {None} \cup SaveMessage,
                    peeked : {None} \cup ToHook, out : Seq(ToAgent)]
  BY <1>7 DEF BridgeInv, HookTypeOK
<1>9. NumbersOK' /\ AnswersOK' /\ AgentKnows' /\ AgentTypeOK' /\ CountsOK' /\ Forth' = Forth
  BY <1>1, <1>3, <1>4, <1>7, <1>8, ReportsMore
<1>10. HookTypeOK'
  <2>1. gate' \in [next : Nat, released : Nat, loading : BOOLEAN]
        /\ gate'.loading = gate.loading
    <3>1. gate \in [next : Nat, released : Nat, loading : BOOLEAN]
      BY DEF BridgeInv, HookTypeOK
    <3>2. gate.next + 1 \in Nat
      BY <3>1
    <3> QED BY <1>1, <3>1, <3>2
  <2> QED BY <1>1, <1>3, <1>7, <1>8, <2>1 DEF BridgeInv, HookTypeOK
<1>11. GoesOn'
  BY <1>1, <1>2, <1>8, <1>9 DEF GoesOn, agent
<1> QED BY <1>9, <1>10, <1>11 DEF BridgeInv

LEMMA SaveInv == ASSUME BridgeInv, Save PROVE BridgeInv'
<1>1. /\ hook.out = <<>> /\ hook.save # None
      /\ hook' = [hook EXCEPT !.save = None, !.out = <<Say("Saved", hook.save.at)>>]
      /\ gate' = gate /\ game' = game /\ UNCHANGED <<agent, toHook, toAgent, fault>>
  BY DEF Save
<1>2. PICK p \in Positions, g \in Nat : p = hook.save.at /\ g = game.of
  BY <1>1, Bounded DEF BridgeInv, HookTypeOK, SaveMessage
<1>3. PICK m \in ToAgent : m = Say("Saved", p) /\ m.of = g /\ ~IsLoad(m)
  <2>1. Message("Saved", p, g) \in ToAgent /\ Message("Saved", p, g).of = g
        /\ ~IsLoad(Message("Saved", p, g))
    BY DEF Message, ToAgent, IsLoad
  <2> QED BY <1>2, <2>1 DEF Say
<1>4. PICK o \in Seq(ToAgent) : o = <<m>> /\ Len(o) = 1 /\ o[1] = m
  <2>1. PICK o \in Seq(ToAgent) : o = <<m>>
    BY Single
  <2>2. Len(o) = 1 /\ o[1] = m
    BY <2>1
  <2> QED BY <2>1, <2>2
<1>5. \A i \in 1..Len(o) : o[i].of = g /\ ~IsLoad(o[i])
  BY <1>3, <1>4
<1>6. /\ hook'.out = o /\ hook'.load = hook.load /\ hook'.peeked = hook.peeked
      /\ hook' \in [load : {None} \cup LoadMessage, save : {None} \cup SaveMessage,
                    peeked : {None} \cup ToHook, out : Seq(ToAgent)]
  BY <1>1, <1>2, <1>3, <1>4 DEF BridgeInv, HookTypeOK
<1>7. NumbersOK' /\ AnswersOK' /\ AgentKnows' /\ AgentTypeOK' /\ CountsOK' /\ Forth' = Forth
  BY <1>1, <1>2, <1>5, <1>6, ReportsMore
<1>8. HookTypeOK'
  BY <1>1, <1>4, <1>6 DEF BridgeInv, HookTypeOK
<1>9. GoesOn'
  <2>1. UNCHANGED <<game, gate>> /\ follower'.taken = follower.taken /\ world' = world
    BY <1>1 DEF agent
  <2> QED BY <1>6, <1>7, <2>1, GoesOnKept DEF BridgeInv
<1> QED BY <1>7, <1>8, <1>9 DEF BridgeInv

LEMMA LoadInv == ASSUME BridgeInv, Load PROVE BridgeInv'
<1>1. /\ hook.out = <<>> /\ hook.load # None
      /\ gate' = [next |-> StepsIn(hook.load.at) + 1, released |-> StepsIn(hook.load.at),
                  loading |-> FALSE]
      /\ game' = [at |-> hook.load.at, of |-> hook.load.of]
      /\ hook' = [hook EXCEPT !.load = None,
                              !.out = <<Message("Loaded", hook.load.at, hook.load.of)>>]
      /\ UNCHANGED <<agent, toHook, toAgent, fault>>
  BY DEF Load
<1>2. UNCHANGED <<conn, follower, world, outbox, sentLoads, orders, attempts, progress, reported,
                  held, tasks, astray, used, toHook, toAgent, fault>>
  BY <1>1 DEF agent
<1>3. PICK l \in LoadMessage : l = hook.load
  BY <1>1 DEF BridgeInv, HookTypeOK
<1>4. /\ l.at \in Positions /\ l.at \in Nat /\ l.of \in Nat /\ IsLoad(l)
      /\ l.at # None /\ StepsIn(l.at) \in Nat
  <2>1. l.at \in Positions /\ l.of \in Nat /\ IsLoad(l)
    BY LogFacts DEF LoadMessage, IsLoad
  <2>2. l.at \in Nat
    BY <2>1, LogFacts
  <2> QED BY <2>1, <2>2, NoneIsNone, StepSets
<1>5. PICK m \in ToAgent : m = Message("Loaded", l.at, l.of) /\ m.of = l.of /\ IsLoad(m)
                           /\ MarkOf(m) = MarkOf(l)
  <2>1. PICK m : m = Message("Loaded", l.at, l.of)
    OBVIOUS
  <2>2. m \in ToAgent /\ m.of = l.of /\ m.at = l.at /\ IsLoad(m)
    BY <1>4, <2>1 DEF Message, ToAgent, IsLoad
  <2> QED BY <1>4, <2>1, <2>2 DEF MarkOf
<1>6. PICK o \in Seq(ToAgent) : o = <<m>> /\ Len(o) = 1 /\ o[1] = m
  <2>1. PICK o \in Seq(ToAgent) : o = <<m>>
    BY Single
  <2>2. Len(o) = 1 /\ o[1] = m
    BY <2>1
  <2> QED BY <2>1, <2>2
<1>7. /\ hook'.out = o /\ hook'.load = None /\ hook'.peeked = hook.peeked
      /\ hook' \in [load : {None} \cup LoadMessage, save : {None} \cup SaveMessage,
                    peeked : {None} \cup ToHook, out : Seq(ToAgent)]
  BY <1>1, <1>3, <1>5, <1>6 DEF BridgeInv, HookTypeOK
<1>8. game'.at = l.at /\ game'.of = l.of /\ game' \in [at : {None} \cup Positions, of : Nat]
  BY <1>1, <1>3, <1>4
<1>9. /\ gate'.next = StepsIn(l.at) + 1 /\ gate'.released = StepsIn(l.at)
      /\ gate'.loading = FALSE /\ gate' \in [next : Nat, released : Nat, loading : BOOLEAN]
  BY <1>1, <1>3, <1>4
<1>10. /\ Peeked' = Peeked /\ Flushed' = Flushed /\ Forth' = Forth
  BY <1>2, <1>7 DEF Peeked, Flushed, Forth
<1>11. Top = l.of /\ Top' = Top /\ game.of < l.of /\ game.of \in Nat /\ game.of <= l.of
       /\ l.of <= orders
  <2>1. Top = l.of /\ Top' = l.of
    BY <1>1, <1>3, <1>7, <1>8 DEF Top
  <2>2. game.of < Top /\ game.of \in Nat /\ Top <= orders
    BY <1>1, Bounded
  <2> QED BY <1>4, <2>1, <2>2
<1>12. \A i \in 1..Len(o) : o[i].of = l.of /\ (IsLoad(o[i]) => game.of < l.of)
  BY <1>5, <1>6, <1>11
<1>13. Rises(o)
  BY <1>6, OneOf
<1>14. /\ Rises(Back') /\ \A i \in 1..Len(Back') : Back'[i].of <= l.of
       /\ MarksIn(Back') = MarksIn(Back) \cup MarksIn(o)
  BY <1>1, <1>2, <1>4, <1>7, <1>11, <1>12, <1>13, SaysMore
<1>15. HookTypeOK'
  <2>1. gate'.loading = (hook'.load # None) /\ Len(hook'.out) <= 2
    BY <1>6, <1>7, <1>9
  <2> QED BY <1>2, <1>7, <1>8, <1>9, <2>1 DEF BridgeInv, HookTypeOK
<1>16. GoesOn'
  <2>1. PICK c \in Positions \cup {None} :
        /\ LedTo(hook.load, game, gate, c) /\ Leads(Forth, c)
        /\ world.is # "Fetching" => End(Forth, c) = follower.taken
    BY DEF BridgeInv, GoesOn
  <2>2. c = l.at
    BY <1>1, <1>3, <2>1 DEF LedTo
  <2>3. AllSteps(l.at, l.at) /\ l.at <= l.at
    BY <1>4 DEF AllSteps
  <2>4. LedTo(hook'.load, game', gate', c)
    BY <1>4, <1>7, <1>8, <1>9, <2>2, <2>3 DEF LedTo
  <2> QED BY <1>2, <1>10, <2>1, <2>4 DEF GoesOn
<1>17. NumbersOK'
  <2>1. /\ Rises(Forth) /\ Within(Forth, Top, orders)
        /\ \A i \in 1..Len(outbox) : outbox[i].of = orders
    BY DEF BridgeInv, NumbersOK
  <2>2. game'.of <= Top' /\ Top' <= orders'
    BY <1>2, <1>4, <1>8, <1>11
  <2> QED BY <1>2, <1>7, <1>8, <1>10, <1>11, <1>14, <2>1, <2>2 DEF NumbersOK
<1>18. AnswersOK'
  <2>1. MarksIn(o) = MarkOf(l)
    BY <1>5, <1>6, OneOf
  <2>2. MarksIn(Pending) = MarkOf(l)
    BY <1>1, <1>3, OneOf DEF Pending
  <2>3. MarksIn(Pending') = {}
    BY <1>7, OneOf DEF Pending
  <2>4. MarksIn(Back') \cup MarksIn(Pending') \cup MarksIn(Flushed') =
        MarksIn(Back) \cup MarksIn(Pending) \cup MarksIn(Flushed)
    BY <1>10, <1>14, <2>1, <2>2, <2>3
  <2> QED BY <1>2, <2>4 DEF BridgeInv, AnswersOK
<1>19. AgentKnows'
  <2>1. world # Ready
    <3> SUFFICES ASSUME world = Ready PROVE FALSE
      OBVIOUS
    <3>1. game.of = orders
      BY DEF BridgeInv, AgentKnows
    <3> QED BY <1>4, <1>11, <3>1
  <2> QED BY <1>2, <2>1 DEF BridgeInv, AgentKnows
<1>20. AgentTypeOK' /\ CountsOK'
  BY <1>2 DEF BridgeInv, AgentTypeOK, CountsOK
<1> QED BY <1>15, <1>16, <1>17, <1>18, <1>19, <1>20 DEF BridgeInv

LEMMA HookSendsInv == ASSUME BridgeInv, HookSends PROVE BridgeInv'
<1>1. /\ hook.out # <<>> /\ Len(toAgent) < LinkSize
      /\ toAgent' = Append(toAgent, Head(hook.out))
      /\ hook' = [hook EXCEPT !.out = Tail(hook.out)]
      /\ gate' = gate /\ game' = game
      /\ UNCHANGED <<conn, follower, world, outbox, sentLoads, orders, attempts, progress, reported,
                     held, tasks, astray, used, toHook, fault>>
  BY DEF HookSends, agent
<1>2. /\ Back' = Back /\ Head(hook.out) \in ToAgent /\ Tail(hook.out) \in Seq(ToAgent)
      /\ Len(Tail(hook.out)) = Len(hook.out) - 1
  BY HookSendsMoves DEF BridgeInv
<1>3. /\ hook'.out = Tail(hook.out) /\ hook'.load = hook.load /\ hook'.peeked = hook.peeked
      /\ hook' \in [load : {None} \cup LoadMessage, save : {None} \cup SaveMessage,
                    peeked : {None} \cup ToHook, out : Seq(ToAgent)]
  BY <1>1, <1>2 DEF BridgeInv, HookTypeOK
<1>4. /\ Peeked' = Peeked /\ Flushed' = Flushed /\ Forth' = Forth
  BY <1>1, <1>3 DEF Peeked, Flushed, Forth
<1>5. HookTypeOK'
  <2>1. toAgent \in Seq(ToAgent) /\ Len(toAgent) \in Nat /\ LinkSize \in Nat
    BY Queues, BridgeAssumption DEF BridgeInv
  <2>2. toAgent' \in Seq(ToAgent) /\ Len(toAgent') = Len(toAgent) + 1
    BY <1>1, <1>2, <2>1, AppendProperties
  <2>3. Len(toAgent') <= LinkSize
    BY <1>1, <2>1, <2>2
  <2>4. Len(hook'.out) <= 2
    <3>1. Len(hook.out) \in Nat /\ Len(hook.out) <= 2
      BY Queues DEF BridgeInv, HookTypeOK
    <3> QED BY <1>2, <1>3, <3>1
  <2> QED BY <1>1, <1>3, <2>2, <2>3, <2>4 DEF BridgeInv, HookTypeOK
<1>6. GoesOn' /\ AnswersOK'
  BY <1>1, <1>2, <1>3, <1>4, GoesOnKept, AnswersKept DEF BridgeInv
<1>7. NumbersOK'
  BY <1>1, <1>2, <1>3, <1>4, NumbersKept DEF BridgeInv, NumbersOK
<1>8. AgentTypeOK' /\ CountsOK'
  BY <1>1 DEF BridgeInv, AgentTypeOK, CountsOK
<1>9. AgentKnows'
  BY <1>1, <1>2 DEF BridgeInv, AgentKnows
<1> QED BY <1>5, <1>6, <1>7, <1>8, <1>9 DEF BridgeInv

-----------------------------------------------------------------------------
(* The theorems                                                            *)

LEMMA InitInv == ASSUME Init PROVE BridgeInv
<1>1. PICK m \in ToHook : m = Message("Load", 0, 1) /\ IsLoad(m) /\ m.at = 0 /\ m.of = 1
  <2>1. 0 \in Positions /\ 1 \in Nat
    BY LogFacts
  <2>2. PICK m : m = Message("Load", 0, 1)
    OBVIOUS
  <2>3. m \in ToHook /\ IsLoad(m) /\ m.at = 0 /\ m.of = 1 /\ m.kind = "Load"
    BY <2>1, <2>2 DEF Message, ToHook, IsLoad
  <2> QED BY <2>2, <2>3
<1>2. PICK one \in Seq(ToHook), none \in Seq(ToHook) : one = <<m>> /\ none = <<>>
  BY Single, Empty
<1>3. Len(one) = 1 /\ one[1] = m /\ Len(none) = 0
  BY <1>2
<1>4. PICK said \in Seq(ToAgent) : said = <<>> /\ Len(said) = 0
  <2>1. PICK said \in Seq(ToAgent) : said = <<>>
    BY Empty
  <2> QED BY <2>1
<1>5. PICK marks \in Seq(Mark) : marks = <<>> /\ Len(marks) = 0
  <2>1. PICK marks \in Seq(Mark) : marks = <<>>
    BY Empty
  <2> QED BY <2>1
<1>6. 0 \in Worlds /\ 0 \in Positions
  BY LogFacts DEF Worlds, Played!Worlds
<1>7. /\ conn = "streaming" /\ follower = [taken |-> 0, got |-> 0] /\ world = Loading(0)
      /\ outbox = one /\ sentLoads = marks /\ orders = 1 /\ attempts = 0
      /\ progress = None /\ reported = None /\ held = said /\ tasks = {}
      /\ toHook = none /\ toAgent = said
      /\ gate = [next |-> 1, released |-> 0, loading |-> FALSE]
      /\ hook = [load |-> None, save |-> None, peeked |-> None, out |-> said]
      /\ game = [at |-> None, of |-> 0] /\ astray = {} /\ fault = FALSE
      /\ used = [worlds |-> 0, losses |-> 0]
  BY <1>1, <1>2, <1>4, <1>5 DEF Init
<1>8. hook.load = None /\ hook.out = said /\ hook.peeked = None /\ game.of = 0 /\ game.at = None
  BY <1>7
<1>9. Flushed = none
  <2>1. none \o none = none
    BY <1>2, ConcatEmptySeq
  <2> QED BY <1>2, <1>7, <1>8, <2>1 DEF Flushed, Peeked
<1>10. Forth = one
  <2>1. none \o one = one
    BY <1>2, ConcatEmptySeq
  <2> QED BY <1>7, <1>9, <2>1 DEF Forth
<1>11. Back = said
  <2>1. said \o said = said
    BY <1>4, ConcatEmptySeq
  <2> QED BY <1>7, <1>8, <2>1 DEF Back
<1>12. AgentTypeOK
  <2>1. OutboxLimit \in Nat /\ HeldLimit \in Nat
    BY BridgeAssumption
  <2>2. follower \in [taken : Positions, got : Positions] /\ follower.taken <= follower.got
    BY <1>6, <1>7
  <2>3. world \in {Loading(p) : p \in Worlds}
    BY <1>6, <1>7
  <2>4. outbox \in Seq(ToHook) /\ Len(outbox) <= OutboxLimit + 1 /\ sentLoads \in Seq(Mark)
    <3>1. outbox = one /\ sentLoads = marks
      BY <1>7
    <3>2. Len(one) <= OutboxLimit + 1
      BY <1>3, <2>1
    <3>3. one \in Seq(ToHook) /\ marks \in Seq(Mark)
      OBVIOUS
    <3> QED BY <3>1, <3>2, <3>3
  <2>5. held \in Seq(ToAgent) /\ Len(held) <= HeldLimit
    BY <1>4, <1>7, <2>1
  <2>6. progress \in {None} \cup Mark /\ reported \in Progress
    BY <1>7 DEF Progress
  <2> QED BY <1>7, <2>2, <2>3, <2>4, <2>5, <2>6 DEF AgentTypeOK
<1>13. HookTypeOK
  <2>1. LinkSize \in Nat
    BY BridgeAssumption
  <2>2. toHook \in Seq(ToHook) /\ Len(toHook) <= LinkSize
    BY <1>3, <1>7, <2>1
  <2>3. toAgent \in Seq(ToAgent) /\ Len(toAgent) <= LinkSize
    BY <1>4, <1>7, <2>1
  <2>4. gate \in [next : Nat, released : Nat, loading : BOOLEAN] /\ gate.loading = FALSE
    BY <1>7
  <2>5. Len(hook.out) <= 2
    BY <1>4, <1>8
  <2>6. hook \in [load : {None} \cup LoadMessage, save : {None} \cup SaveMessage,
                  peeked : {None} \cup ToHook, out : Seq(ToAgent)]
    BY <1>7
  <2>7. game \in [at : {None} \cup Positions, of : Nat] /\ ~fault
    BY <1>7
  <2> QED BY <1>8, <2>2, <2>3, <2>4, <2>5, <2>6, <2>7 DEF HookTypeOK
<1>14. GoesOn
  <2>1. LedTo(hook.load, game, gate, None)
    BY <1>7, <1>8 DEF LedTo
  <2>2. Follows(m, None) /\ m.at = 0
    BY <1>1, <1>6 DEF Follows, Message
  <2>3. Leads(one, None) /\ End(one, None) = 0
    BY <1>2, <1>3, <2>2, EmptySeq DEF Leads, Before, End
  <2>4. follower.taken = 0
    BY <1>7
  <2> QED BY <1>10, <2>1, <2>3, <2>4 DEF GoesOn
<1>15. NumbersOK
  <2>1. Top = 0
    BY <1>8 DEF Top
  <2>2. /\ Rises(one) /\ Rises(said)
        /\ Within(one, 0, 1) <=> 0 <= m.of /\ m.of <= 1 /\ (IsLoad(m) => 0 < m.of)
    BY <1>2, <1>4, OneOf
  <2>3. Within(one, 0, 1)
    BY <1>1, <2>2
  <2>4. \A i \in 1..Len(outbox) : outbox[i].of = orders
    <3>1. outbox = one /\ orders = 1
      BY <1>7
    <3>2. \A i \in 1..Len(one) : i = 1
      BY <1>3
    <3> QED BY <1>1, <1>3, <3>1, <3>2
  <2>5. Rises(Back) /\ \A i \in 1..Len(Back) : Back[i].of <= game.of
    BY <1>4, <1>11, <2>2
  <2>6. Rises(Forth) /\ Within(Forth, Top, orders)
    BY <1>7, <1>10, <2>1, <2>2, <2>3
  <2>7. game.of <= Top /\ Top <= orders
    BY <1>7, <1>8, <2>1
  <2> QED BY <1>8, <2>4, <2>5, <2>6, <2>7 DEF NumbersOK
<1>16. AnswersOK
  <2>1. MarksIn(Back) = {} /\ MarksIn(Pending) = {} /\ MarksIn(Flushed) = {}
    BY <1>2, <1>4, <1>8, <1>9, <1>11, OneOf DEF Pending
  <2> QED BY <1>5, <1>7, <2>1 DEF AnswersOK
<1>17. AgentKnows
  BY <1>7 DEF AgentKnows, Loading, Ready
<1>18. CountsOK
  <2>1. world.is # "Fetching"
    BY <1>7 DEF Loading
  <2> QED BY <1>7, <2>1, BridgeAssumption DEF CountsOK
<1> QED BY <1>12, <1>13, <1>14, <1>15, <1>16, <1>17, <1>18 DEF BridgeInv

LEMMA StutterInv == ASSUME BridgeInv, UNCHANGED vars PROVE BridgeInv'
<1>1. /\ UNCHANGED <<conn, follower, world, outbox, sentLoads, orders, attempts, progress, reported,
                     held, tasks, astray, used, toHook, toAgent, fault>>
      /\ hook' = hook /\ gate' = gate /\ game' = game /\ UNCHANGED theHook
  BY DEF vars, agent, theHook
<1>2. HookTypeOK' /\ GoesOn' /\ NumbersOK' /\ AnswersOK' /\ AgentKnows'
  BY <1>1, Quiet
<1> QED BY <1>1, <1>2 DEF BridgeInv, AgentTypeOK, CountsOK

\* Whatever the room, the connection, the agent, and the hook do next, what is on
\* its way between the agent and the hook leads from where the game is to where
\* the agent stands, and the agent takes the answers to its loads in order.
THEOREM BridgeInvariant == Spec => []BridgeInv
<1>1. Init => BridgeInv
  BY InitInv
<1>2. BridgeInv /\ [Next]_vars => BridgeInv'
  <2> SUFFICES ASSUME BridgeInv, [Next]_vars PROVE BridgeInv'
    OBVIOUS
  <2>1. CASE Turn \/ Lose \/ Rejoin \/ FetchFails
    BY <2>1, TurnInv, LoseInv, RejoinInv, FetchFailsInv
  <2>2. CASE \E p \in Played!Worlds : OfferWorld(p) \/ OfferAgain(p)
    BY <2>2, OfferWorldInv, OfferAgainInv DEF Worlds
  <2>3. CASE \E task \in tasks : Ingested(task) \/ (task.kind = "Fetch" /\ Fetched(task.attempt))
    BY <2>3, IngestedInv, FetchedInv
  <2>4. CASE Pump \/ Flush \/ Hold \/ ReadHook \/ ReportProgress
    BY <2>4, PumpInv, FlushInv, HoldInv, ReadHookInv, ReportProgressInv
  <2>5. CASE Hook
    BY <2>5, PollStepInv, ReadAheadInv, StageActionsInv, RunStepInv, SaveInv, LoadInv,
       HookSendsInv DEF Hook
  <2>6. CASE UNCHANGED vars
    BY <2>6, StutterInv
  <2> QED BY <2>1, <2>2, <2>3, <2>4, <2>5, <2>6 DEF Next
<1> QED BY <1>1, <1>2, PTL DEF Spec

LEMMA SeqOf ==
    ASSUME NEW S, NEW T, NEW q \in Seq(S), \A i \in 1..Len(q) : q[i] \in T
    PROVE  q \in Seq(T)
<1>1. Len(q) \in Nat /\ q = [i \in 1..Len(q) |-> q[i]]
  OBVIOUS
<1> QED BY <1>1

UpTo(q, n) == \A i \in 1..Len(q) : q[i].of <= n

LEMMA BothBounded ==
    ASSUME NEW S, NEW q \in Seq(S), NEW r \in Seq(S), NEW n, UpTo(q \o r, n)
    PROVE  UpTo(q, n) /\ UpTo(r, n)
<1>1. Joins(q \o r, q, r)
  BY Joined, Zenon
<1>2. UpTo(q, n)
  BY <1>1 DEF Joins, UpTo
<1>3. ASSUME NEW j \in 1..Len(r) PROVE r[j].of <= n
  <2>1. (q \o r)[Len(q) + j].of <= n
    BY <1>1 DEF Joins, UpTo
  <2> QED BY <1>1, <2>1 DEF Joins
<1> QED BY <1>2, <1>3 DEF UpTo

\* What is about a load has a number the agent gave out.
LEMMA Numbered ==
    ASSUME BridgeInv
    PROVE  /\ outbox \in Seq(Messages) /\ toHook \in Seq(Messages)
           /\ held \in Seq(Messages) /\ toAgent \in Seq(Messages) /\ hook.out \in Seq(Messages)
           /\ hook.peeked \in {None} \cup Messages /\ hook.load \in {None} \cup Messages
           /\ sentLoads \in Seq([at : Positions, of : Loads])
           /\ game.of \in Loads /\ orders \in Loads
<1>1. PICK g \in Nat, top \in Nat, o \in Nat :
        /\ g = game.of /\ top = Top /\ o = orders /\ g <= top /\ top <= o
  BY Bounded
<1>2. \A n \in Nat : n <= o => n \in Loads
  <2>1. o \in Loads /\ MaxWorlds + MaxLosses + 1 \in Int
    BY <1>1, Bounded, BridgeAssumption
  <2> QED BY <1>1, <2>1 DEF Loads
<1>3. ASSUME NEW q \in Seq(ToHook), \A i \in 1..Len(q) : q[i].of <= o PROVE q \in Seq(Messages)
  <2>1. ASSUME NEW i \in 1..Len(q) PROVE q[i] \in Messages
    <3>1. q[i] \in ToHook
      BY ElementOfSeq
    <3> QED BY <1>2, <1>3, <3>1 DEF ToHook, Messages
  <2> QED BY <2>1, SeqOf
<1>4. ASSUME NEW q \in Seq(ToAgent), \A i \in 1..Len(q) : q[i].of <= o PROVE q \in Seq(Messages)
  <2>1. ASSUME NEW i \in 1..Len(q) PROVE q[i] \in Messages
    <3>1. q[i] \in ToAgent
      BY ElementOfSeq
    <3> QED BY <1>2, <1>4, <3>1 DEF ToAgent, Messages
  <2> QED BY <2>1, SeqOf
<1>5. PICK p \in Seq(ToHook), t \in Seq(ToHook), u \in Seq(ToHook) :
        p = Peeked /\ t = toHook /\ u = outbox
  BY Queues DEF BridgeInv
<1>6. PICK f \in Seq(ToHook) : f = p \o t /\ Flushed = f
  <2>1. p \o t \in Seq(ToHook)
    BY ConcatProperties
  <2> QED BY <1>5, <2>1 DEF Flushed
<1>7. Within(u, top, o) /\ Within(t, top, o) /\ Within(p, top, o)
  <2>1. Within(f \o u, top, o)
    BY <1>1, <1>5, <1>6 DEF BridgeInv, NumbersOK, Forth
  <2>2. Within(f, top, o) /\ Within(u, top, o)
    BY <2>1, WithinOn
  <2>3. Within(p \o t, top, o)
    BY <1>6, <2>2
  <2> QED BY <2>2, <2>3, WithinOn
<1>8. outbox \in Seq(Messages) /\ toHook \in Seq(Messages)
  BY <1>3, <1>5, <1>7 DEF Within
<1>9. hook.peeked \in {None} \cup Messages
  <2> SUFFICES ASSUME hook.peeked # None PROVE hook.peeked \in Messages
    OBVIOUS
  <2>1. PICK m \in ToHook : m = hook.peeked
    BY DEF BridgeInv, HookTypeOK
  <2>2. p = <<m>>
    BY <1>5, <2>1 DEF Peeked
  <2>3. m.of <= o
    BY <1>7, <2>2, OneOf
  <2> QED BY <1>2, <2>1, <2>3 DEF ToHook, Messages
<1>10. hook.load \in {None} \cup Messages
  <2> SUFFICES ASSUME hook.load # None PROVE hook.load \in Messages
    OBVIOUS
  <2>1. PICK m \in LoadMessage : m = hook.load
    BY DEF BridgeInv, HookTypeOK
  <2>2. m.of = top
    BY <1>1, <2>1 DEF Top
  <2>3. m.of \in Loads /\ m.at \in Positions
    BY <1>1, <1>2, <2>2, LogFacts DEF LoadMessage
  <2> QED BY <2>1, <2>3 DEF LoadMessage, Messages
<1>11. PICK h \in Seq(ToAgent), a \in Seq(ToAgent), s \in Seq(ToAgent) :
        h = held /\ a = toAgent /\ s = hook.out
  BY Queues DEF BridgeInv
<1>12. PICK as \in Seq(ToAgent) : as = a \o s
  BY ConcatProperties
<1>13. UpTo(h \o as, g)
  BY <1>1, <1>11, <1>12 DEF BridgeInv, NumbersOK, Back, UpTo
<1>14. UpTo(h, g) /\ UpTo(as, g)
  BY <1>13, BothBounded, Zenon
<1>15. UpTo(a, g) /\ UpTo(s, g)
  <2>1. UpTo(a \o s, g)
    BY <1>12, <1>14
  <2> QED BY <2>1, BothBounded, Zenon
<1>16. ASSUME NEW q \in Seq(ToAgent), UpTo(q, g) PROVE q \in Seq(Messages)
  <2>1. ASSUME NEW i \in 1..Len(q) PROVE q[i].of <= o
    <3>1. q[i] \in ToAgent
      BY ElementOfSeq
    <3>2. PICK n \in Nat : n = q[i].of /\ n <= g
      BY <1>16, <3>1 DEF ToAgent, UpTo
    <3> QED BY <1>1, <3>2
  <2> QED BY <1>4, <2>1
<1>17. held \in Seq(Messages) /\ toAgent \in Seq(Messages) /\ hook.out \in Seq(Messages)
  BY <1>11, <1>14, <1>15, <1>16
<1>18. sentLoads \in Seq([at : Positions, of : Loads])
  <2>1. PICK q \in Seq(Mark) : q = sentLoads
    BY DEF BridgeInv, AgentTypeOK
  <2>2. ASSUME NEW i \in 1..Len(q) PROVE q[i] \in [at : Positions, of : Loads]
    <3>1. q[i] \in MarksIn(Back) \cup MarksIn(Pending) \cup MarksIn(Flushed)
      BY <2>1 DEF BridgeInv, AnswersOK
    <3>2. q[i] \in Mark
      BY ElementOfSeq
    <3>3. PICK x \in Mark : x = q[i]
      BY <3>2
    <3>4. x.of <= o
      <4>1. CASE x \in MarksIn(Back) \cup MarksIn(Pending)
        <5>1. x.of \in Nat /\ x.of <= Top
          BY <4>1, SentBefore
        <5> QED BY <1>1, <5>1
      <4>2. CASE x \in MarksIn(Flushed)
        <5>1. PICK j \in 1..Len(f) : x.of = f[j].of
          BY <1>6, <4>2 DEF MarksIn
        <5>2. Within(f \o u, top, o)
          BY <1>1, <1>5, <1>6 DEF BridgeInv, NumbersOK, Forth
        <5>3. Within(f, top, o)
          BY <5>2, WithinOn
        <5> QED BY <5>1, <5>3 DEF Within
      <4> QED BY <3>1, <3>3, <4>1, <4>2
    <3> QED BY <1>2, <3>3, <3>4 DEF Mark
  <2>3. q \in Seq([at : Positions, of : Loads])
    BY <2>2, SeqOf
  <2> QED BY <2>1, <2>3
<1>19. game.of \in Loads /\ orders \in Loads
  BY <1>1, <1>2
<1> QED BY <1>8, <1>9, <1>10, <1>17, <1>18, <1>19

\* The queues keep to their bounds, the agent gives out no more numbers than it
\* was handed worlds, and everything has its type.
THEOREM TypesCorrect == Spec => []TypeOK
<1>1. BridgeInv => TypeOK
  <2> SUFFICES ASSUME BridgeInv PROVE TypeOK
    OBVIOUS
  <2>1. /\ outbox \in Seq(Messages) /\ toHook \in Seq(Messages)
        /\ held \in Seq(Messages) /\ toAgent \in Seq(Messages) /\ hook.out \in Seq(Messages)
        /\ hook.peeked \in {None} \cup Messages /\ hook.load \in {None} \cup Messages
        /\ sentLoads \in Seq([at : Positions, of : Loads])
        /\ game.of \in Loads /\ orders \in Loads
    BY Numbered
  <2>2. follower.taken \in Positions /\ follower.got \in follower.taken..Len(Log)
    <3>1. /\ follower.taken \in Positions /\ follower.got \in Positions
          /\ follower.taken <= follower.got
      BY DEF BridgeInv, AgentTypeOK
    <3> QED BY <3>1, LogFacts
  <2>3. world \in {Ready} \cup {Loading(p) : p \in Positions}
                \cup {Fetching(p, n) : p \in Positions, n \in 1..attempts}
    BY LogFacts DEF BridgeInv, AgentTypeOK
  <2>4. attempts \in 0..(MaxWorlds + MaxLosses)
    <3>1. /\ attempts \in Nat /\ used.worlds \in 0..MaxWorlds /\ used.losses \in 0..MaxLosses
          /\ MaxWorlds \in Nat /\ MaxLosses \in Nat
      BY BridgeAssumption DEF BridgeInv, AgentTypeOK, CountsOK
    <3>2. attempts <= used.worlds + used.losses
      BY <3>1 DEF BridgeInv, CountsOK
    <3> QED BY <3>1, <3>2
  <2>5. progress \in Progress
    <3>1. CASE progress = None
      BY <3>1 DEF Progress
    <3>2. CASE progress # None
      <4>1. progress \in Mark /\ progress.of = orders
        BY <3>2 DEF BridgeInv, AgentTypeOK, AgentKnows
      <4> QED BY <2>1, <4>1 DEF Mark, Progress
    <3> QED BY <3>1, <3>2
  <2>6. hook.save \in {None} \cup Messages
    BY DEF BridgeInv, HookTypeOK, SaveMessage, Messages
  <2>7. /\ conn \in {"streaming", "joined", "away"} /\ reported \in Progress
        /\ tasks \subseteq [kind : {"Fetch"}, attempt : 1..attempts]
                    \cup [kind : {"Ingest"}, of : Loads]
        /\ Len(outbox) <= OutboxLimit + 1 /\ Len(held) <= HeldLimit
        /\ astray \subseteq {"Progress", "Checkpoint", "Saved"}
    BY DEF BridgeInv, AgentTypeOK
  <2>8. /\ Len(toHook) <= LinkSize /\ Len(toAgent) <= LinkSize /\ Len(hook.out) <= 2
        /\ gate.next \in Nat /\ gate.released \in Nat
        /\ game.at \in {None} \cup Positions
    BY DEF BridgeInv, HookTypeOK
  <2>9. gate.loading \in BOOLEAN /\ fault \in BOOLEAN
    BY DEF BridgeInv, HookTypeOK
  <2> QED BY <2>1, <2>2, <2>3, <2>4, <2>5, <2>6, <2>7, <2>8, <2>9 DEF TypeOK
<1> QED BY <1>1, BridgeInvariant, PTL

\* Neither side ever gets a message it refuses (gate.rs:158, bridge.rs:2118).
THEOREM NothingRefusedAlways == Spec => []NothingRefused
<1>1. BridgeInv => NothingRefused
  BY DEF BridgeInv, HookTypeOK, NothingRefused
<1> QED BY <1>1, BridgeInvariant, PTL

\* When the agent takes the room's world as loaded, the game plays that one, and
\* not one ordered before it from the same step (bridge.rs:2111).
THEOREM ReadyMeansLoadedAlways == Spec => []ReadyMeansLoaded
<1>1. BridgeInv => ReadyMeansLoaded
  BY DEF BridgeInv, AgentKnows, ReadyMeansLoaded
<1> QED BY <1>1, BridgeInvariant, PTL

\* Every report of steps and checkpoints the agent makes is of the world it plays
\* for the room by then (bridge.rs:983).
THEOREM ReportsOfThisWorldAlways == Spec => []ReportsOfThisWorld
<1>1. BridgeInv => ReportsOfThisWorld
  BY DEF BridgeInv, AgentTypeOK, ReportsOfThisWorld
<1> QED BY <1>1, BridgeInvariant, PTL

LEMMA HandlePlays ==
    ASSUME BridgeInv, Free, HasIncoming, Handle(Incoming), UNCHANGED <<agent, toAgent>>,
           ~MayRun \/ Incoming.kind = "Release"
    PROVE  Played!Next \/ UNCHANGED game.at
<1>1. UNCHANGED outbox
  BY DEF agent
<1>2. Take /\ hook'.peeked = None
  BY DEF Handle, BridgeInv, HookTypeOK
<1>3. PICK m \in ToHook : m = Incoming
  BY <1>1, <1>2, TakeMoves DEF BridgeInv
<1>4. /\ m.kind = "Apply" =>
                /\ game.at \in Positions /\ game.at + 1 \in Positions
                /\ game' = [game EXCEPT !.at = game.at + 1]
      /\ m.kind # "Apply" => game' = game
  BY <1>1, <1>3, HandleTakes
<1>5. CASE m.kind = "Apply"
  <2>1. game'.at = game.at + 1
    BY <1>4, <1>5 DEF BridgeInv, HookTypeOK
  <2>2. game.at # None /\ game.at < Len(Log)
    <3>1. game.at \in Positions /\ game.at + 1 \in Positions
      BY <1>4, <1>5
    <3>2. PICK a \in Nat : a = game.at
      BY <3>1, LogFacts
    <3> QED BY <3>1, <3>2, NoneIsNone, LogFacts
  <2> QED BY <2>1, <2>2 DEF Played!Next, Played!Play
<1>6. CASE m.kind # "Apply"
  BY <1>4, <1>6
<1> QED BY <1>5, <1>6

\* Whatever lies between the game and the room, the game only ever loads worlds
\* the room's history passes through, and plays its events and steps in order,
\* none twice and none left out.
THEOREM BridgeIsPlaying == Spec => Played!Spec
<1>1. Init => Played!Init
  BY DEF Init, Played!Init
<1>2. BridgeInv /\ [Next]_vars => [Played!Next]_(game.at)
  <2> SUFFICES ASSUME BridgeInv, [Next]_vars PROVE Played!Next \/ UNCHANGED game.at
    OBVIOUS
  <2>1. CASE PollStep
    BY <2>1, HandlePlays DEF PollStep
  <2>2. CASE ReadAhead
    <3>1. Incoming = Head(toHook) /\ HasIncoming
      BY <2>2 DEF ReadAhead, Incoming, HasIncoming
    <3>2. CASE Head(toHook).kind = "Release"
      BY <2>2, <3>1, <3>2, HandlePlays DEF ReadAhead
    <3>3. CASE Head(toHook).kind # "Release"
      BY <2>2, <3>3 DEF ReadAhead
    <3> QED BY <3>2, <3>3
  <2>3. CASE StageActions
    BY <2>3, HandlePlays DEF StageActions
  <2>4. CASE RunStep
    <3>1. /\ game.at \in Positions /\ game.at + 1 \in Positions
          /\ game' = [game EXCEPT !.at = game.at + 1]
      BY <2>4, RunsNext
    <3>2. game'.at = game.at + 1
      BY <3>1 DEF BridgeInv, HookTypeOK
    <3>3. PICK a \in Nat : a = game.at
      BY <3>1, LogFacts
    <3>4. game.at # None /\ game.at < Len(Log)
      BY <3>1, <3>3, NoneIsNone, LogFacts
    <3> QED BY <3>2, <3>4 DEF Played!Next, Played!Play
  <2>5. CASE Load
    <3>1. hook.load # None /\ game' = [at |-> hook.load.at, of |-> hook.load.of]
      BY <2>5 DEF Load
    <3>2. hook.load.at \in Played!Worlds
      BY <3>1 DEF BridgeInv, HookTypeOK, LoadMessage, Worlds
    <3>3. game'.at = hook.load.at
      BY <3>1
    <3> QED BY <3>2, <3>3 DEF Played!Next, Played!Load
  <2>6. CASE Save \/ HookSends
    BY <2>6 DEF Save, HookSends
  <2>7. CASE UNCHANGED vars
    BY <2>7 DEF vars, theHook
  <2>8. CASE Turn \/ Lose \/ Rejoin \/ FetchFails \/ Pump \/ Flush \/ Hold \/ ReadHook
             \/ ReportProgress
    BY <2>8 DEF Turn, Lose, Rejoin, FetchFails, Pump, Flush, Hold, ReadHook, ReportProgress,
                theHook
  <2>9. CASE \E p \in Played!Worlds : OfferWorld(p) \/ OfferAgain(p)
    BY <2>9 DEF OfferWorld, OfferAgain, FetchWorld, theHook
  <2>10. CASE \E task \in tasks :
            Ingested(task) \/ (task.kind = "Fetch" /\ Fetched(task.attempt))
    BY <2>10 DEF Ingested, Fetched, theHook
  <2> QED BY <2>1, <2>2, <2>3, <2>4, <2>5, <2>6, <2>7, <2>8, <2>9, <2>10 DEF Next, Hook
<1> QED BY <1>1, <1>2, BridgeInvariant, PTL DEF Spec, Played!Spec
=============================================================================
