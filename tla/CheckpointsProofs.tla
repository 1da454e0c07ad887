------------------------- MODULE CheckpointsProofs -------------------------
(***************************************************************************)
(* What the checkpoint rounds promise, for any number of members, worlds,  *)
(* checkpoints and restarts, and any limits on rounds and reports.         *)
(*                                                                         *)
(* First the vote, for any reports: a player who diverged loads the world  *)
(* of one who did not, so a healthy majority must never be the one that is *)
(* told.  Then, of the room: everybody who differs from a verdict is told, *)
(* whenever the verdict comes; and nobody is told while all games compute  *)
(* what their worlds make them compute, because all the room compares is   *)
(* of one world.  The first holds by RoomInv, the second by AlikeInv.      *)
(***************************************************************************)
EXTENDS Checkpoints, FiniteSetTheorems, WellFoundedInduction, TLAPS

-----------------------------------------------------------------------------
(* The vote                                                                *)

\* Sets of reports that make a strict majority share one.
LEMMA MajoritiesShare ==
    ASSUME NEW R, NEW reports \in Seq(R),
           NEW S \in SUBSET DOMAIN reports, NEW T \in SUBSET DOMAIN reports,
           IsMajority(reports, S), IsMajority(reports, T)
    PROVE  S \cap T # {}
<1>1. DOMAIN reports = 1..Len(reports) /\ Len(reports) \in Nat
  OBVIOUS
<1>2. IsFiniteSet(DOMAIN reports) /\ Cardinality(DOMAIN reports) = Len(reports)
  <2>1. IsFiniteSet(1..Len(reports))
        /\ Cardinality(1..Len(reports)) = IF 1 > Len(reports) THEN 0 ELSE Len(reports) - 1 + 1
    BY <1>1, FS_Interval
  <2> QED BY <1>1, <2>1
<1>3. Cardinality(S) \in Nat /\ Cardinality(T) \in Nat
  BY <1>2, FS_Subset, FS_CardinalityType
<1>4. Cardinality(S) + Cardinality(T) > Cardinality(DOMAIN reports)
  BY <1>1, <1>2, <1>3 DEF IsMajority
<1> QED BY <1>2, <1>4, FS_MajoritiesIntersect

\* A larger set of reports is a majority too.
LEMMA MajorityGrows ==
    ASSUME NEW R, NEW reports \in Seq(R),
           NEW T \in SUBSET DOMAIN reports, NEW S \in SUBSET T, IsMajority(reports, S)
    PROVE  IsMajority(reports, T)
<1>1. DOMAIN reports = 1..Len(reports) /\ Len(reports) \in Nat
  OBVIOUS
<1>2. IsFiniteSet(DOMAIN reports)
  BY <1>1, FS_Interval
<1>3. IsFiniteSet(T)
  BY <1>2, FS_Subset
<1>4. Cardinality(S) <= Cardinality(T) /\ Cardinality(S) \in Nat /\ Cardinality(T) \in Nat
  BY <1>3, FS_Subset, FS_CardinalityType
<1> QED BY <1>1, <1>4 DEF IsMajority

\* At most one digest of a lane has a strict majority, so that the order in
\* which strict_majority looks at the reports does not matter.
THEOREM MajorityIsUnique ==
    ASSUME NEW R, NEW reports \in Seq(R), NEW lane, NEW d, NEW e,
           IsMajority(reports, Saying(reports, lane, d)),
           IsMajority(reports, Saying(reports, lane, e))
    PROVE  d = e
<1>1. Saying(reports, lane, d) \in SUBSET DOMAIN reports
      /\ Saying(reports, lane, e) \in SUBSET DOMAIN reports
  BY DEF Saying
<1>2. Saying(reports, lane, d) \cap Saying(reports, lane, e) # {}
  BY <1>1, MajoritiesShare
<1> QED BY <1>2 DEF Saying

\* What a strict majority says of a lane wins, having no digest of it included.
THEOREM MajorityWins ==
    ASSUME NEW R, NEW reports \in Seq(R), NEW lane, NEW d,
           IsMajority(reports, Saying(reports, lane, d))
    PROVE  Winner(reports, lane) = d
<1> DEFINE said == {DigestOf(reports[i].lanes, lane) : i \in DOMAIN reports}
<1>1. Saying(reports, lane, d) \in SUBSET DOMAIN reports
  BY DEF Saying
<1>2. Saying(reports, lane, d) # {}
  BY <1>1, MajoritiesShare
<1>3. PICK i \in DOMAIN reports : DigestOf(reports[i].lanes, lane) = d
  BY <1>2 DEF Saying
<1>4. IsMajority(reports, Saying(reports, lane, DigestOf(reports[i].lanes, lane)))
  BY <1>3
<1>5. d \in said
  BY <1>3
<1>6. \A e \in said : IsMajority(reports, Saying(reports, lane, e)) => e = d
  BY MajorityIsUnique
<1>7. Winner(reports, lane) = CHOOSE e \in said : IsMajority(reports, Saying(reports, lane, e))
  BY <1>4 DEF Winner
<1> HIDE DEF said
<1>8. (CHOOSE e \in said : IsMajority(reports, Saying(reports, lane, e))) = d
  BY <1>5, <1>6
<1> QED BY <1>7, <1>8

\* A strict majority that reports the same lanes decides the round: the agreed
\* digests are theirs, and none of them is found to diverge, whatever the
\* others report and whichever platform the anchor is on (decide).
THEOREM HealthyMajorityDecides ==
    ASSUME NEW R, NEW reports \in Seq(R), NEW majority \in SUBSET DOMAIN reports,
           IsMajority(reports, majority),
           NEW lanes, lanes = [l \in DOMAIN lanes |-> lanes[l]],
           \A l \in DOMAIN lanes : lanes[l] # None,
           \A i \in majority : reports[i].lanes = lanes
    PROVE  /\ Agreed(reports) = lanes
           /\ \A i \in majority : Diverging(reports[i].lanes, Agreed(reports)) = {}
<1> DEFINE all == UNION {DOMAIN reports[i].lanes : i \in DOMAIN reports}
           won == {l \in all : Winner(reports, l) # None}
<1>1. ASSUME NEW l PROVE Winner(reports, l) = DigestOf(lanes, l)
  <2>1. majority \in SUBSET Saying(reports, l, DigestOf(lanes, l))
    BY DEF Saying
  <2>2. Saying(reports, l, DigestOf(lanes, l)) \in SUBSET DOMAIN reports
    BY DEF Saying
  <2>3. IsMajority(reports, Saying(reports, l, DigestOf(lanes, l)))
    BY <2>1, <2>2, MajorityGrows
  <2> QED BY <2>3, MajorityWins
<1>2. DOMAIN lanes \subseteq all
  <2>1. majority # {}
    BY MajoritiesShare
  <2>2. PICK i \in DOMAIN reports : reports[i].lanes = lanes
    BY <2>1
  <2> QED BY <2>2
<1>3. won = DOMAIN lanes
  <2>1. \A l : DigestOf(lanes, l) # None <=> l \in DOMAIN lanes
    BY DEF DigestOf
  <2> QED BY <1>1, <1>2, <2>1
<1>4. \A l \in won : Winner(reports, l) = lanes[l]
  BY <1>1, <1>3 DEF DigestOf
<1>5. Agreed(reports) = [l \in won |-> Winner(reports, l)]
  BY DEF Agreed
<1> HIDE DEF won
<1>6. Agreed(reports) = [l \in DOMAIN lanes |-> lanes[l]]
  BY <1>3, <1>4, <1>5
<1>7. Agreed(reports) = lanes
  BY <1>6
<1>8. Diverging(lanes, lanes) = {}
  BY DEF Diverging
<1> QED BY <1>7, <1>8

-----------------------------------------------------------------------------
(* The inductive invariants                                                *)

WorldOrNone == World \cup {None}
\* Digests of games that compute what their world makes them compute.
DigestsOf(world) == [lane \in {"world"} |-> <<world>>]
Lanes == {Digests(c, w) : c \in Client, w \in World \cup {Own}}
Needs == [kind : {"nothing", "world", "rebase"}, after : Nat]
MemberType == [linked : BOOLEAN, streaming : BOOLEAN, needs : Needs, loaded : WorldOrNone]
Report == [player : Client, platform : {"macos", "windows"}, lanes : Lanes,
           order : DOMAIN Seats, loaded : WorldOrNone]
Sent(n) == [step : 1..n, world : World \cup {Own}, lanes : Lanes]
Snapshot(n) == [id : World, step : 0..n]

\* The rounds rs, of steps up to n.
Distinct(reports) == \A i, j \in 1..Len(reports) : reports[i].player = reports[j].player => i = j
RoundOK(round) ==
    /\ round = [reports |-> round.reports, verdict |-> round.verdict]
    /\ round.reports \in Seq(Report) /\ round.reports # <<>> /\ Distinct(round.reports)
RoundsOK(rs, n) ==
    /\ DOMAIN rs = Step /\ rs = [s \in Step |-> rs[s]]
    /\ \A s \in Step : rs[s] # None => RoundOK(rs[s]) /\ s <= n
Few(rs) == Cardinality(Decided(rs)) <= KeptLimit

\* A member as it is known to the room.
MemberOK(m) == m \in MemberType /\ (m.streaming => m.linked /\ m.needs # AnyWorld)

\* Whoever differs from a verdict of rs has been told.
AllTold(rs, td) ==
    \A s \in Decided(rs) : \A c \in Divergers(rs[s].reports, rs[s].verdict) : <<c, s>> \in td

\* Reports on their way, of steps up to n.
QueuesOK(queues, n) ==
    queues \in [Client -> Seq(Sent(n))] /\ \A c \in Client : Len(queues[c]) <= QueueLimit

RoomInv ==
    /\ sealed \in 0..MaxStep /\ closed \in 0..MaxStep /\ apart \in BOOLEAN
    /\ RoundsOK(rounds, sealed) /\ Few(rounds) /\ AllTold(rounds, told)
    /\ current \in Snapshot(sealed) \cup {None}
    /\ DOMAIN member = Client /\ \A c \in Client : MemberOK(member[c])
    /\ game \in [Client -> [world : World \cup {Own, None}, ran : 0..sealed]]
    /\ coming \in [Client -> Snapshot(sealed) \cup {None}]
    /\ QueuesOK(up, sealed)

\* Games g and reports q of a world, and that world where it is on its way (co),
\* are past where it was saved.
PastOf(world, g, co, q) ==
    world # None => \A c \in Client :
        /\ g[c].world = world.id => g[c].ran >= world.step
        /\ co[c] # None /\ co[c].id = world.id => co[c].step = world.step
        /\ \A i \in 1..Len(q[c]) : q[c][i].world = world.id => q[c][i].step > world.step

\* To a member that is away nothing is on its way, and what its game reports it
\* made of the world it plays.
AwayOf(m, g, co, q) ==
    \A c \in Client : ~m[c].linked =>
        /\ co[c] = None
        /\ \A i \in 1..Len(q[c]) : q[c][i].world = g[c].world

\* Nothing is on its way to those away, and worlds and reports are past where
\* the room's world was saved.
Behind == AwayOf(member, game, coming, up) /\ PastOf(current, game, coming, up)

\* What a member that waits for no world does while the room compares world w
\* past step b: the room takes it to play `loaded`, which is w, or nothing the
\* room knows of since it started again; it may have been handed w again.
PlaysOne(m, g, way, q, w, b, loaded) ==
    m.needs # AnyWorld =>
        /\ m.loaded = loaded
        /\ loaded = None => g.world = w /\ way = None
        /\ way # None => way.id = w /\ way.step = b
        /\ g.world = w => g.ran >= b
        /\ \A i \in 1..Len(q) :
            /\ loaded = None => q[i].world = w
            /\ q[i].world = w => q[i].step > b

\* The reports of one round are of one world, and their verdict is its digests.
OfOneWorld(round) ==
    \E w \in World \cup {Own} :
        /\ \A i \in 1..Len(round.reports) : round.reports[i].lanes = DigestsOf(w)
        /\ round.verdict \in {None, DigestsOf(w)}
\* A round the room keeps while it compares world w past step b.
Compares(round, s, w, b) ==
    /\ OfOneWorld(round)
    /\ s > b => \A i \in 1..Len(round.reports) : round.reports[i].lanes = DigestsOf(w)
    /\ \A i \in 1..Len(round.reports) :
        round.reports[i].loaded # None =>
            round.reports[i].lanes = DigestsOf(round.reports[i].loaded)
RoundsOf(rs, w, b) == \A s \in Step : rs[s] # None => Compares(rs[s], s, w, b)

\* Reports of games without faults.
SentOf(q) == \A c \in Client : \A i \in 1..Len(q[c]) : q[c][i].lanes = DigestsOf(q[c][i].world)

\* All the room compares is of one world, w past step b.
OneWorld(m, g, co, q, rs, w, b, loaded) ==
    /\ w \in World \cup {Own} /\ b \in Nat /\ loaded \in WorldOrNone /\ loaded \in {None, w}
    /\ RoundsOf(rs, w, b)
    /\ \A c \in Client : PlaysOne(m[c], g[c], co[c], q[c], w, b, loaded)
Alike(m, g, co, q, rs) ==
    SentOf(q) /\ \E w, b, loaded : OneWorld(m, g, co, q, rs, w, b, loaded)

AlikeInv ==
    Faulty = {} /\ ~apart => told = {} /\ Alike(member, game, coming, up, rounds)

-----------------------------------------------------------------------------
(* Induction, and what is kept of a sequence                               *)

\* A set of naturals has a least element.
LEMMA Least ==
    ASSUME NEW T \in SUBSET Nat, T # {}
    PROVE  \E x \in T : \A y \in T : x <= y
<1>1. PICK R : R = OpToRel(<, Nat)
  OBVIOUS
<1>2. IsWellFoundedOn(R, Nat)
  BY <1>1, NatLessThanWellFounded
<1>3. R = {ss \in Nat \X Nat : ss[1] < ss[2]}
  BY <1>1 DEF OpToRel
<1>4. PICK x \in T : \A y \in T : ~(<<y, x>> \in R)
  BY <1>2, WFMin
<1>5. \A y \in T : <<y, x>> \in Nat \X Nat /\ <<y, x>>[1] = y /\ <<y, x>>[2] = x
  OBVIOUS
<1>6. \A y \in T : ~(y < x)
  BY <1>3, <1>4, <1>5
<1> QED BY <1>6

LEMMA Induction ==
    ASSUME NEW T \in SUBSET Nat, 0 \in T, \A n \in T : n + 1 \in T
    PROVE  T = Nat
<1> SUFFICES ASSUME Nat \ T # {} PROVE FALSE
  OBVIOUS
<1>1. PICK x \in Nat \ T : \A y \in Nat \ T : x <= y
  BY Least
<1>2. x # 0 /\ x - 1 \in Nat /\ x - 1 \notin Nat \ T
  BY <1>1
<1> QED BY <1>1, <1>2

\* What is kept of the reports on one world: some of them, in their order.
LEMMA OfSome ==
    ASSUME NEW S, NEW reports \in Seq(S), NEW id, NEW kept, kept = Of(reports, id)
    PROVE  /\ kept \in Seq(S)
           /\ \A i \in 1..Len(kept) : kept[i].loaded = id
           /\ \E at \in [1..Len(kept) -> 1..Len(reports)] :
                /\ \A i \in 1..Len(kept) : kept[i] = reports[at[i]]
                /\ \A i, j \in 1..Len(kept) : i < j => at[i] < at[j]
<1> DEFINE KeepOn(f, i) == IF reports[i].loaded = id THEN Append(f[i - 1], reports[i]) ELSE f[i - 1]
           Is(f, n) == f = [i \in 0..n |-> IF i = 0 THEN <<>> ELSE KeepOn(f, i)]
           Defined == {n \in Nat : \E f : Is(f, n)}
<1>1. PICK m \in Nat : m = Len(reports)
  OBVIOUS
<1>2. m \in Defined
  <2>1. 0 \in Defined
    <3>1. PICK f : f = [i \in 0..0 |-> <<>>]
      OBVIOUS
    <3>2. f = [i \in 0..0 |-> IF i = 0 THEN <<>> ELSE KeepOn(f, i)]
      BY <3>1
    <3> QED BY <3>2
  <2>2. ASSUME NEW n \in Defined PROVE n + 1 \in Defined
    <3>1. PICK f : Is(f, n)
      BY <2>2
    <3>2. n \in Nat /\ n + 1 \in Nat
      BY <2>2
    <3>3. PICK last : last = KeepOn(f, n + 1)
      OBVIOUS
    <3>4. PICK g : g = [i \in 0..(n + 1) |-> IF i = n + 1 THEN last ELSE f[i]]
      OBVIOUS
    <3>5. ASSUME NEW i \in 0..(n + 1)
          PROVE  g[i] = IF i = 0 THEN <<>> ELSE KeepOn(g, i)
      <4>1. CASE i = 0
        BY <3>1, <3>2, <3>4, <4>1
      <4>2. CASE i # 0 /\ i # n + 1
        <5>1. i \in 0..n /\ i - 1 \in 0..(n + 1) /\ i - 1 # n + 1 /\ i # n + 1
          BY <3>2, <4>2
        <5>2. g[i] = f[i] /\ g[i - 1] = f[i - 1]
          BY <3>4, <5>1
        <5>3. f[i] = KeepOn(f, i)
          BY <3>1, <4>2, <5>1
        <5> QED BY <4>2, <5>2, <5>3
      <4>3. CASE i = n + 1
        <5>1. i - 1 \in 0..(n + 1) /\ i - 1 # n + 1 /\ i - 1 = n /\ i # 0
          BY <3>2, <4>3
        <5>2. g[i] = last /\ g[i - 1] = f[i - 1]
          BY <3>4, <4>3, <5>1
        <5> QED BY <3>3, <4>3, <5>1, <5>2
      <4> QED BY <4>1, <4>2, <4>3
    <3> HIDE DEF KeepOn
    <3>6. g = [i \in 0..(n + 1) |-> IF i = 0 THEN <<>> ELSE KeepOn(g, i)]
      BY <3>4, <3>5
    <3> QED BY <3>2, <3>6
  <2> HIDE DEF Is
  <2>3. Defined = Nat
    <3>1. Defined \in SUBSET Nat
      OBVIOUS
    <3> HIDE DEF Defined
    <3> QED BY <2>1, <2>2, <3>1, Induction
  <2> HIDE DEF Defined
  <2> QED BY <2>3
<1>3. PICK f : Is(f, m) /\ kept = f[m]
  <2>1. kept = (CHOOSE f : Is(f, m))[m]
    BY <1>1 DEF Of
  <2>2. \E f : Is(f, m)
    BY <1>2
  <2> HIDE DEF Is
  <2> QED BY <2>1, <2>2
<1>4. f[0] = <<>> /\ \A i \in 1..m : f[i] = KeepOn(f, i)
  <2>1. \A i \in 0..m : f[i] = IF i = 0 THEN <<>> ELSE KeepOn(f, i)
    BY <1>3
  <2> HIDE DEF KeepOn, Is
  <2> QED BY <1>1, <2>1
<1> HIDE DEF Is
<1> DEFINE Shows(k, n, at) ==
                /\ at \in [1..Len(k) -> 1..n]
                /\ \A i \in 1..Len(k) : k[i] = reports[at[i]]
                /\ \A i, j \in 1..Len(k) : i < j => at[i] < at[j]
           Good(k, n) == /\ k \in Seq(S) /\ \A i \in 1..Len(k) : k[i].loaded = id
                         /\ \E at : Shows(k, n, at)
           Reached == {n \in Nat : n <= m => Good(f[n], n)}
<1>5. Good(<<>>, 0)
  <2>1. <<>> \in Seq(S)
    OBVIOUS
  <2>2. PICK none : none = <<>>
    OBVIOUS
  <2>3. none \in Seq(S) /\ Len(none) = 0 /\ 1..Len(none) = {}
    BY <2>1, <2>2
  <2>4. PICK at : at = [i \in 1..Len(none) |-> 1]
    OBVIOUS
  <2>5. Shows(none, 0, at)
    BY <2>3, <2>4
  <2> QED BY <2>2, <2>3, <2>5
<1>6. ASSUME NEW n \in Nat, n + 1 <= m, NEW k, Good(k, n)
      PROVE  Good(k, n + 1) /\ (reports[n + 1].loaded = id => Good(Append(k, reports[n + 1]), n + 1))
  <2>1. PICK at : Shows(k, n, at)
    BY <1>6
  <2>2. Shows(k, n + 1, at)
    BY <1>6, <2>1
  <2>3. ASSUME reports[n + 1].loaded = id PROVE Good(Append(k, reports[n + 1]), n + 1)
    <3>1. k \in Seq(S) /\ Len(k) \in Nat /\ n + 1 \in 1..m /\ reports[n + 1] \in S
      BY <1>1, <1>6
    <3>2. PICK l : l = Append(k, reports[n + 1])
      OBVIOUS
    <3>3. l \in Seq(S) /\ Len(l) = Len(k) + 1 /\ l[Len(k) + 1] = reports[n + 1]
          /\ \A i \in 1..Len(k) : l[i] = k[i]
      BY <3>1, <3>2
    <3>4. \A i \in 1..Len(l) : i \in 1..Len(k) \/ i = Len(k) + 1
      BY <3>1, <3>3
    <3>5. \A i \in 1..Len(l) : l[i].loaded = id
      BY <1>6, <2>3, <3>3, <3>4
    <3>6. PICK to : to = [i \in 1..Len(l) |-> IF i = Len(k) + 1 THEN n + 1 ELSE at[i]]
      OBVIOUS
    <3>7. \A i \in 1..Len(k) : i \in 1..Len(l) /\ to[i] = at[i] /\ at[i] \in 1..n
      BY <2>1, <3>1, <3>3, <3>6
    <3>8. Len(k) + 1 \in 1..Len(l) /\ to[Len(k) + 1] = n + 1
      BY <3>1, <3>3, <3>6
    <3>9. to \in [1..Len(l) -> 1..(n + 1)]
      <4>1. \A i \in 1..Len(l) : to[i] \in 1..(n + 1)
        BY <3>1, <3>4, <3>7, <3>8
      <4> QED BY <3>6, <4>1
    <3>10. \A i \in 1..Len(l) : l[i] = reports[to[i]]
      BY <2>1, <3>3, <3>4, <3>7, <3>8
    <3>11. \A i, j \in 1..Len(l) : i < j => to[i] < to[j]
      BY <2>1, <3>1, <3>3, <3>4, <3>7, <3>8, SMTT(30)
    <3> QED BY <3>2, <3>3, <3>5, <3>9, <3>10, <3>11
  <2> QED BY <1>6, <2>2, <2>3
<1> HIDE DEF Good
<1>7. 0 \in Reached
  BY <1>4, <1>5
<1>8. ASSUME NEW n \in Reached PROVE n + 1 \in Reached
  <2> SUFFICES ASSUME n + 1 <= m PROVE Good(f[n + 1], n + 1)
    OBVIOUS
  <2>1. n \in Nat /\ n + 1 \in 1..m /\ (n + 1) - 1 = n
    BY <1>1
  <2>2. Good(f[n], n)
    BY <1>1, <1>8, <2>1
  <2>3. f[n + 1] = IF reports[n + 1].loaded = id THEN Append(f[n], reports[n + 1]) ELSE f[n]
    BY <1>4, <2>1
  <2> QED BY <1>6, <2>1, <2>2, <2>3
<1>9. Reached = Nat
  <2>1. Reached \in SUBSET Nat
    OBVIOUS
  <2> HIDE DEF Reached
  <2> QED BY <1>7, <1>8, <2>1, Induction
<1>10. Good(kept, m)
  BY <1>1, <1>3, <1>9
<1> QED BY <1>1, <1>10 DEF Good

-----------------------------------------------------------------------------
(* Rounds                                                                  *)

\* As many have reported as there are reports, each once.
LEMMA ReportersOf ==
    ASSUME NEW S, NEW round, round.reports \in Seq(S), Distinct(round.reports)
    PROVE  Cardinality(Reporters(round)) = Len(round.reports)
<1>1. PICK n \in Nat : n = Len(round.reports)
  OBVIOUS
<1>2. DOMAIN round.reports = 1..n
  BY <1>1
<1>3. IsFiniteSet(1..n) /\ Cardinality(1..n) = n
  <2>1. /\ IsFiniteSet(1..n)
        /\ Cardinality(1..n) = IF 1 > n THEN 0 ELSE n-1+1
    BY FS_Interval
  <2> QED BY <1>1, <2>1
<1>4. PICK f : f = [i \in 1..n |-> round.reports[i].player]
  OBVIOUS
<1>5. PICK who : who = Reporters(round)
  OBVIOUS
<1>6. who = {round.reports[i].player : i \in 1..n}
  BY <1>2, <1>5 DEF Reporters
<1>7. f \in [1..n -> who]
  BY <1>4, <1>6
<1>8. \A i, j \in 1..n : f[i] = f[j] => i = j
  BY <1>1, <1>4 DEF Distinct
<1>9. \A c \in who : \E i \in 1..n : f[i] = c
  BY <1>4, <1>6
<1>10. f \in Bijection(1..n, who)
  BY <1>7, <1>8, <1>9 DEF Bijection, Injection, Surjection, IsInjective
<1>11. ExistsBijection(1..n, who)
  BY <1>10 DEF ExistsBijection
<1> QED BY <1>1, <1>3, <1>5, <1>11, FS_Bijection

\* What forgetting leaves of a round: all of it, nothing, or some of its
\* reports, all of them of the world, and no verdict.
LEMMA ForgottenOf ==
    ASSUME NEW n \in Nat, NEW rs, RoundsOK(rs, n), NEW world, NEW s \in Step, rs[s] # None
    PROVE  \/ Forgotten(rs, world)[s] = rs[s]
              /\ (s > world.step => \A i \in 1..Len(rs[s].reports) : rs[s].reports[i].loaded = world.id)
           \/ Forgotten(rs, world)[s] = rs[s] /\ s <= world.step
           \/ Forgotten(rs, world)[s] = None
           \/ /\ RoundOK(Forgotten(rs, world)[s]) /\ Forgotten(rs, world)[s].verdict = None
              /\ \A i \in 1..Len(Forgotten(rs, world)[s].reports) :
                    /\ Forgotten(rs, world)[s].reports[i].loaded = world.id
                    /\ \E j \in 1..Len(rs[s].reports) :
                            Forgotten(rs, world)[s].reports[i] = rs[s].reports[j]
<1>1. PICK kept : kept = Of(rs[s].reports, world.id)
  OBVIOUS
<1>2. Forgotten(rs, world)[s] =
        IF rs[s] = None \/ s <= world.step THEN rs[s]
        ELSE IF kept = rs[s].reports THEN rs[s]
        ELSE IF kept = <<>> THEN None
        ELSE [reports |-> kept, verdict |-> None]
  BY <1>1 DEF Forgotten
<1>3. RoundOK(rs[s])
  BY DEF RoundsOK
<1>4. rs[s].reports \in Seq(Report)
  BY <1>3 DEF RoundOK
<1>5. /\ kept \in Seq(Report)
      /\ \A i \in 1..Len(kept) : kept[i].loaded = world.id
      /\ \E at \in [1..Len(kept) -> 1..Len(rs[s].reports)] :
           /\ \A i \in 1..Len(kept) : kept[i] = rs[s].reports[at[i]]
           /\ \A i, j \in 1..Len(kept) : i < j => at[i] < at[j]
  <2>1. PICK reports \in Seq(Report) : reports = rs[s].reports
    BY <1>4
  <2>2. kept = Of(reports, world.id)
    BY <1>1, <2>1
  <2>3. /\ kept \in Seq(Report)
        /\ \A i \in 1..Len(kept) : kept[i].loaded = world.id
        /\ \E at \in [1..Len(kept) -> 1..Len(reports)] :
             /\ \A i \in 1..Len(kept) : kept[i] = reports[at[i]]
             /\ \A i, j \in 1..Len(kept) : i < j => at[i] < at[j]
    BY <2>2, OfSome
  <2> QED BY <2>1, <2>3
<1>6. CASE s <= world.step
  BY <1>2, <1>6
<1>7. CASE ~(s <= world.step) /\ kept = rs[s].reports
  BY <1>2, <1>5, <1>7
<1>8. CASE ~(s <= world.step) /\ kept # rs[s].reports /\ kept = <<>>
  BY <1>2, <1>8
<1>9. CASE ~(s <= world.step) /\ kept # rs[s].reports /\ kept # <<>>
  <2>1. PICK at \in [1..Len(kept) -> 1..Len(rs[s].reports)] :
           /\ \A i \in 1..Len(kept) : kept[i] = rs[s].reports[at[i]]
           /\ \A i, j \in 1..Len(kept) : i < j => at[i] < at[j]
    BY <1>5
  <2>2. PICK m \in Nat : m = Len(kept)
    BY <1>5
  <2>3. PICK l \in Nat : l = Len(rs[s].reports)
    BY <1>4
  <2>4. \A i, j \in 1..m : at[i] = at[j] => i = j
    <3>1. \A i \in 1..m : at[i] \in 1..l
      BY <2>1, <2>2, <2>3
    <3>2. \A i, j \in 1..m : i < j => at[i] < at[j]
      BY <2>1, <2>2
    <3> QED BY <2>2, <2>3, <3>1, <3>2
  <2>5. Distinct(kept)
    <3>1. \A i, j \in 1..l : rs[s].reports[i].player = rs[s].reports[j].player => i = j
      BY <1>3, <2>3 DEF RoundOK, Distinct
    <3>2. \A i \in 1..m : at[i] \in 1..l /\ kept[i] = rs[s].reports[at[i]]
      BY <2>1, <2>2, <2>3
    <3>3. \A i, j \in 1..m : kept[i].player = kept[j].player => i = j
      <4>1. SUFFICES ASSUME NEW i \in 1..m, NEW j \in 1..m, kept[i].player = kept[j].player
                     PROVE  i = j
        OBVIOUS
      <4>2. /\ at[i] \in 1..l /\ at[j] \in 1..l
            /\ rs[s].reports[at[i]].player = rs[s].reports[at[j]].player
        BY <3>2, <4>1
      <4>3. at[i] = at[j]
        BY <3>1, <4>2
      <4> QED BY <2>4, <4>3
    <3> QED BY <2>2, <3>3 DEF Distinct
  <2>6. PICK r : r = [reports |-> kept, verdict |-> None]
    OBVIOUS
  <2>7. r.reports = kept /\ r.verdict = None /\ r = [reports |-> r.reports, verdict |-> r.verdict]
    BY <2>6
  <2>8. RoundOK(r)
    BY <1>5, <1>9, <2>5, <2>7 DEF RoundOK
  <2>9. Forgotten(rs, world)[s] = r
    BY <1>2, <1>9, <2>6
  <2>10. \A i \in 1..Len(kept) : \E j \in 1..Len(rs[s].reports) : kept[i] = rs[s].reports[j]
    BY <2>1
  <2> QED BY <1>5, <1>9, <2>7, <2>8, <2>9, <2>10
<1> QED BY <1>6, <1>7, <1>8, <1>9

\* Forgetting keeps the rounds as they ought to be, and decides none.
LEMMA ForgottenOK ==
    ASSUME NEW n \in Nat, NEW rs, RoundsOK(rs, n), NEW world
    PROVE  /\ RoundsOK(Forgotten(rs, world), n)
           /\ \A s \in Decided(Forgotten(rs, world)) :
                s \in Decided(rs) /\ Forgotten(rs, world)[s] = rs[s]
<1>1. PICK f : f = Forgotten(rs, world)
  OBVIOUS
<1>2. f = [s \in Step |-> f[s]] /\ DOMAIN f = Step
  BY <1>1 DEF Forgotten
<1>3. \A s \in Step : rs[s] = None => f[s] = None
  BY <1>1 DEF Forgotten
<1>4. \A s \in Step : rs[s] # None => f[s] = rs[s] \/ f[s] = None \/ (RoundOK(f[s]) /\ f[s].verdict = None)
  BY <1>1, ForgottenOf
<1>5. RoundsOK(f, n)
  BY <1>2, <1>3, <1>4 DEF RoundsOK
<1>6. \A s \in Decided(f) : s \in Decided(rs) /\ f[s] = rs[s]
  BY <1>3, <1>4 DEF Decided
<1> QED BY <1>1, <1>5, <1>6

\* There are finitely many steps.
LEMMA StepsFinite ==
    ASSUME NEW rs
    PROVE  IsFiniteSet(Decided(rs)) /\ Cardinality(Decided(rs)) \in Nat
<1>1. IsFiniteSet(Step)
  BY ConstantsAssumption, FS_Interval DEF Step
<1>2. Decided(rs) \in SUBSET Step
  BY DEF Decided
<1> QED BY <1>1, <1>2, FS_Subset, FS_CardinalityType

LEMMA FewerStay ==
    ASSUME NEW rs, NEW fewer, Few(rs), Decided(fewer) \subseteq Decided(rs)
    PROVE  Few(fewer)
<1>1. Cardinality(Decided(fewer)) <= Cardinality(Decided(rs))
  BY StepsFinite, FS_Subset
<1> QED BY <1>1, StepsFinite, ConstantsAssumption DEF Few

\* Pruning keeps the rounds as they ought to be, and few.
LEMMA PrunedOK ==
    ASSUME NEW n \in Nat, NEW rs, RoundsOK(rs, n)
    PROVE  /\ RoundsOK(Pruned(rs), n) /\ Few(Pruned(rs))
           /\ \A s \in Step : Pruned(rs)[s] \in {None, rs[s]}
           /\ \A s \in Decided(Pruned(rs)) : s \in Decided(rs) /\ Pruned(rs)[s] = rs[s]
<1>1. PICK p : p = Pruned(rs)
  OBVIOUS
<1>2. p = [s \in Step |-> p[s]] /\ DOMAIN p = Step
  BY <1>1 DEF Pruned
<1>3. \A s \in Step : p[s] \in {None, rs[s]} /\ (s \in Excess(rs) => p[s] = None)
  BY <1>1 DEF Pruned
<1>4. RoundsOK(p, n)
  BY <1>2, <1>3 DEF RoundsOK
<1>5. \A s \in Decided(p) : s \in Decided(rs) /\ p[s] = rs[s] /\ s \notin Excess(rs)
  BY <1>3 DEF Decided
<1>6. Few(p)
  <2>1. PICK D : D = Decided(p)
    OBVIOUS
  <2>2. CASE D = {}
    <3>1. Cardinality(D) = 0
      BY <2>2, FS_EmptySet
    <3> QED BY <2>1, <3>1, ConstantsAssumption DEF Few
  <2>3. CASE D # {}
    <3>1. D \in SUBSET Nat
      BY <2>1, ConstantsAssumption DEF Decided, Step
    <3>2. PICK x \in D : \A y \in D : x <= y
      BY <2>3, <3>1, Least
    <3>3. PICK later : later = {t \in Decided(rs) : t > x}
      OBVIOUS
    <3>4. IsFiniteSet(later) /\ Cardinality(later) \in Nat
      <4>1. later \in SUBSET Decided(rs)
        BY <3>3
      <4> QED BY <4>1, StepsFinite, FS_Subset, FS_CardinalityType
    <3>5. ~(Cardinality(later) >= KeptLimit)
      BY <1>5, <2>1, <3>2, <3>3 DEF Excess
    <3>6. D \subseteq later \cup {x}
      BY <1>5, <2>1, <3>1, <3>2, <3>3
    <3>7. IsFiniteSet(later \cup {x})
          /\ Cardinality(later \cup {x}) \in {Cardinality(later), Cardinality(later) + 1}
      BY <3>4, FS_AddElement
    <3>8. Cardinality(D) <= Cardinality(later \cup {x}) /\ Cardinality(D) \in Nat
      BY <3>6, <3>7, FS_Subset, FS_CardinalityType
    <3>9. Cardinality(D) <= KeptLimit
      BY <3>4, <3>5, <3>7, <3>8, ConstantsAssumption
    <3> QED BY <2>1, <3>9 DEF Few
  <2> QED BY <2>2, <2>3
<1> QED BY <1>1, <1>3, <1>4, <1>5, <1>6

\* Rounds are closed up to a step there is.
LEMMA ClosingOK ==
    ASSUME NEW rs, NEW from \in 0..MaxStep
    PROVE  Closing(rs, from) \in 0..MaxStep
<1>1. PICK T : T = Excess(rs) \cup {from}
  OBVIOUS
<1>2. T \in SUBSET (0..MaxStep) /\ from \in T
  BY <1>1, ConstantsAssumption DEF Excess, Decided, Step
<1>3. PICK B : B = {MaxStep - t : t \in T}
  OBVIOUS
<1>4. B \in SUBSET Nat /\ B # {}
  BY <1>2, <1>3, ConstantsAssumption
<1>5. PICK b \in B : \A y \in B : b <= y
  BY <1>4, Least
<1>6. PICK s \in T : b = MaxStep - s
  BY <1>3, <1>5
<1>7. \A t \in T : t <= s
  <2>1. ASSUME NEW t \in T PROVE t <= s
    <3>1. b <= MaxStep - t
      BY <1>3, <1>5
    <3> QED BY <1>2, <1>6, <3>1, ConstantsAssumption
  <2> QED BY <2>1
<1>8. (CHOOSE x \in T : \A t \in T : t <= x) \in T
  BY <1>7
<1>9. Closing(rs, from) = CHOOSE x \in T : \A t \in T : t <= x
  BY <1>1 DEF Closing
<1> QED BY <1>2, <1>8, <1>9

-----------------------------------------------------------------------------
(* Worlds                                                                  *)

\* What an offer of a world makes of a member it reaches, of one it does not
\* reach, and of one that plays the world already: of the member, the world on
\* its way to it, and its reports.
Given(m, after, way, sent, left, world) ==
    /\ after.linked /\ m.linked /\ after.streaming
    /\ after.needs = Nothing /\ after.loaded = world.id /\ way = world /\ left = sent
Owed(m, after, was, way, sent, left) ==
    /\ ~after.streaming /\ after.needs = AnyWorld /\ after.loaded = m.loaded
    /\ \/ after.linked = m.linked /\ way = was /\ left = sent
       \/ ~after.linked /\ way = None /\ left = <<>>
Rests(m, after, was, way, sent, left, world) ==
    after = m /\ way = was /\ left = sent /\ m.loaded = world.id

\* The three cases of an offer that feeds anyone, for one member.
Fed(m, after, was, way, sent, left, world) ==
    /\ MemberOK(after)
    /\ \/ Given(m, after, way, sent, left, world)
       \/ Owed(m, after, was, way, sent, left)
       \/ Rests(m, after, was, way, sent, left, world)

LEMMA NeedsTypes ==
    /\ Nothing \in Needs /\ AnyWorld \in Needs /\ Nothing # AnyWorld
    /\ \A s \in Nat : Rebase(s) \in Needs /\ Rebase(s) # Nothing /\ Rebase(s) # AnyWorld
<1>1. Nothing.kind = "nothing" /\ AnyWorld.kind = "world" /\ \A s \in Nat : Rebase(s).kind = "rebase"
  BY DEF Nothing, AnyWorld, Rebase
<1>2. Nothing \in Needs /\ AnyWorld \in Needs
  BY DEF Nothing, AnyWorld, Needs
<1>3. \A s \in Nat : Rebase(s) \in Needs
  BY DEF Rebase, Needs
<1>4. ASSUME NEW s \in Nat PROVE Rebase(s) # Nothing /\ Rebase(s) # AnyWorld
  <2>1. Rebase(s).kind # Nothing.kind /\ Rebase(s).kind # AnyWorld.kind
    BY <1>1
  <2> QED BY <2>1
<1>5. Nothing # AnyWorld
  BY <1>1
<1> QED BY <1>2, <1>3, <1>4, <1>5

LEMMA GivenMember ==
    ASSUME NEW m \in MemberType, m.linked, NEW sent, NEW world, world.id \in World
    PROVE  LET after == [m EXCEPT !.streaming = TRUE, !.needs = Nothing, !.loaded = world.id] IN
           MemberOK(after) /\ Given(m, after, world, sent, sent, world)
<1> DEFINE after == [m EXCEPT !.streaming = TRUE, !.needs = Nothing, !.loaded = world.id]
<1>1. after \in MemberType
  BY NeedsTypes DEF MemberType, WorldOrNone
<1>2. after.linked = m.linked
  BY DEF MemberType
<1>3. after.streaming
  BY DEF MemberType
<1>4. after.needs = Nothing
  BY DEF MemberType
<1>5. after.loaded = world.id
  BY DEF MemberType
<1> HIDE DEF after
<1>6. MemberOK(after) /\ Given(m, after, world, sent, sent, world)
  BY <1>1, <1>2, <1>3, <1>4, <1>5, NeedsTypes DEF MemberOK, Given
<1> QED BY <1>6 DEF after

LEMMA RefusedMember ==
    ASSUME NEW m \in MemberType, NEW was, NEW sent
    PROVE  LET after == [m EXCEPT !.streaming = FALSE, !.linked = FALSE, !.needs = AnyWorld] IN
           MemberOK(after) /\ Owed(m, after, was, None, sent, <<>>)
<1> DEFINE after == [m EXCEPT !.streaming = FALSE, !.linked = FALSE, !.needs = AnyWorld]
<1>1. after \in MemberType
  BY NeedsTypes DEF MemberType
<1>2. ~after.linked
  BY DEF MemberType
<1>3. ~after.streaming
  BY DEF MemberType
<1>4. after.needs = AnyWorld
  BY DEF MemberType
<1>5. after.loaded = m.loaded
  BY DEF MemberType
<1> HIDE DEF after
<1>6. MemberOK(after) /\ Owed(m, after, was, None, sent, <<>>)
  BY <1>1, <1>2, <1>3, <1>4, <1>5 DEF MemberOK, Owed
<1> QED BY <1>6 DEF after

LEMMA OwedMember ==
    ASSUME NEW m \in MemberType, ~m.streaming, NEW was, NEW sent
    PROVE  LET after == [m EXCEPT !.needs = AnyWorld] IN
           MemberOK(after) /\ Owed(m, after, was, was, sent, sent)
<1> DEFINE after == [m EXCEPT !.needs = AnyWorld]
<1>1. after \in MemberType
  BY NeedsTypes DEF MemberType
<1>2. after.linked = m.linked
  BY DEF MemberType
<1>3. ~after.streaming
  BY DEF MemberType
<1>4. after.needs = AnyWorld
  BY DEF MemberType
<1>5. after.loaded = m.loaded
  BY DEF MemberType
<1> HIDE DEF after
<1>6. MemberOK(after) /\ Owed(m, after, was, was, sent, sent)
  BY <1>1, <1>2, <1>3, <1>4, <1>5 DEF MemberOK, Owed
<1> QED BY <1>6 DEF after

\* An offer feeds nobody and changes nothing, or it feeds somebody: then
\* everyone is given the world, owed one, or plays it, and what other worlds
\* reported past it is forgotten.
LEMMA OfferFeeds ==
    ASSUME NEW members, \A c \in Client : MemberOK(members[c]), NEW rs, NEW sent,
           NEW world, world # None => world.id \in World,
           Offer(members, rs, sent, world)
    PROVE  /\ member' = [c \in Client |-> member'[c]] /\ coming' = [c \in Client |-> coming'[c]]
           /\ up' = [c \in Client |-> up'[c]]
           /\ \/ /\ rounds' = rs
                 /\ \A c \in Client : member'[c] = members[c] /\ coming'[c] = coming[c]
                                        /\ up'[c] = sent[c]
              \/ /\ world # None /\ rounds' = Forgotten(rs, world)
                 /\ \A c \in Client : Fed(members[c], member'[c], coming[c], coming'[c],
                                             sent[c], up'[c], world)
<1> DEFINE served == {c \in Client : members[c].linked /\ world # None
                        /\ members[c].needs # Nothing /\ members[c].needs.after <= world.step}
           others == {c \in Client \ served : served # {} /\ members[c].loaded # world.id}
           fed == served \cup {c \in others : members[c].streaming}
           After(given, refused, c) ==
            CASE c \in given -> [members[c] EXCEPT !.streaming = TRUE,
                        !.needs = Nothing, !.loaded = world.id]
              [] c \in refused -> [members[c] EXCEPT !.streaming = FALSE,
                        !.linked = FALSE, !.needs = AnyWorld]
              [] c \in others \ fed -> [members[c] EXCEPT !.needs = AnyWorld]
              [] OTHER -> members[c]
           Way(given, refused, c) ==
                IF c \in given THEN world ELSE IF c \in refused THEN None ELSE coming[c]
           Left(refused, c) == IF c \in refused THEN <<>> ELSE sent[c]
<1>1. PICK refused \in SUBSET {c \in fed : members[c].streaming} :
        LET given == fed \ refused IN
        /\ member' = [c \in Client |-> After(given, refused, c)]
        /\ coming' = [c \in Client |-> Way(given, refused, c)]
        /\ up' = [c \in Client |-> Left(refused, c)]
        /\ rounds' = IF served = {} THEN rs ELSE Forgotten(rs, world)
  BY DEF Offer
<1>2. PICK given : given = fed \ refused
  OBVIOUS
<1>3. /\ member' = [c \in Client |-> After(given, refused, c)]
      /\ coming' = [c \in Client |-> Way(given, refused, c)]
      /\ up' = [c \in Client |-> Left(refused, c)]
      /\ rounds' = IF served = {} THEN rs ELSE Forgotten(rs, world)
  BY <1>1, <1>2
<1>4. \A c \in Client : member'[c] = After(given, refused, c) /\ coming'[c] = Way(given, refused, c)
                       /\ up'[c] = Left(refused, c)
  <2> HIDE DEF After, Way, Left
  <2> QED BY <1>3
<1>5. member' = [c \in Client |-> member'[c]] /\ coming' = [c \in Client |-> coming'[c]]
      /\ up' = [c \in Client |-> up'[c]]
  <2> HIDE DEF After, Way, Left
  <2> QED BY <1>3, SMTT(30)
<1>6. CASE served = {}
  <2>1. others = {} /\ given = {} /\ refused = {}
    BY <1>1, <1>2, <1>6
  <2>2. \A c \in Client : After(given, refused, c) = members[c] /\ Way(given, refused, c) = coming[c]
                         /\ Left(refused, c) = sent[c]
    BY <2>1, SMTT(30)
  <2> QED BY <1>3, <1>4, <1>5, <1>6, <2>2, ZenonT(40)
<1>7. CASE served # {}
  <2>1. world # None /\ world.id \in World
    BY <1>7
  <2>2. ASSUME NEW c \in Client
        PROVE  Fed(members[c], member'[c], coming[c], coming'[c], sent[c], up'[c], world)
    <3>1. MemberOK(members[c]) /\ members[c] \in MemberType
          /\ (members[c].streaming => members[c].linked)
      BY DEF MemberOK
    <3>2. CASE c \in given
      <4>1. members[c].linked
        BY <1>2, <3>1, <3>2
      <4>2. member'[c] = [members[c] EXCEPT !.streaming = TRUE, !.needs = Nothing, !.loaded = world.id]
            /\ coming'[c] = world /\ up'[c] = sent[c]
        <5>1. c \notin refused /\ c \notin others \ fed
          BY <1>2, <3>2
        <5>2. After(given, refused, c) =
                    [members[c] EXCEPT !.streaming = TRUE, !.needs = Nothing, !.loaded = world.id]
              /\ Way(given, refused, c) = world /\ Left(refused, c) = sent[c]
          <6> HIDE DEF fed, others
          <6> QED BY <3>2, <5>1
        <5> HIDE DEF After, Way, Left, fed, others
        <5> QED BY <1>4, <5>2
      <4> HIDE DEF fed, others, served, After, Way, Left
      <4>3. PICK m \in MemberType : m = members[c]
        BY <3>1
      <4>4. m.linked
        BY <4>1, <4>3
      <4>5. PICK left : left = sent[c]
        OBVIOUS
      <4>6. MemberOK([m EXCEPT !.streaming = TRUE, !.needs = Nothing, !.loaded = world.id])
            /\ Given(m, [m EXCEPT !.streaming = TRUE, !.needs = Nothing, !.loaded = world.id], world, left, left, world)
        BY <2>1, <4>4, GivenMember
      <4> QED BY <4>2, <4>3, <4>5, <4>6 DEF Fed
    <3>3. CASE c \notin given /\ c \in refused
      <4>1. member'[c] = [members[c] EXCEPT !.streaming = FALSE, !.linked = FALSE, !.needs = AnyWorld]
            /\ coming'[c] = None /\ up'[c] = <<>>
        BY <1>4, <3>3
      <4> HIDE DEF fed, others, served, After, Way, Left
      <4>2. PICK m \in MemberType : m = members[c]
        BY <3>1
      <4>3. PICK was : was = coming[c]
        OBVIOUS
      <4>4. PICK left : left = sent[c]
        OBVIOUS
      <4>5. PICK after : after = [m EXCEPT !.streaming = FALSE, !.linked = FALSE, !.needs = AnyWorld]
        OBVIOUS
      <4>6. MemberOK(after) /\ Owed(m, after, was, None, left, <<>>)
        BY <4>5, RefusedMember
      <4> QED BY <4>1, <4>2, <4>3, <4>4, <4>5, <4>6, SMTT(30) DEF Fed
    <3>4. CASE c \notin given /\ c \notin refused /\ c \in others \ fed
      <4>1. ~members[c].streaming
        BY <3>4, SMTT(30)
      <4>2. member'[c] = [members[c] EXCEPT !.needs = AnyWorld] /\ coming'[c] = coming[c]
            /\ up'[c] = sent[c]
        BY <1>4, <3>4
      <4> HIDE DEF fed, others, served, After, Way, Left
      <4>3. PICK m \in MemberType : m = members[c]
        BY <3>1
      <4>4. PICK was : was = coming[c]
        OBVIOUS
      <4>5. PICK left : left = sent[c]
        OBVIOUS
      <4>6. MemberOK(member'[c]) /\ Owed(m, member'[c], was, was, left, left)
        BY <4>1, <4>2, <4>3, OwedMember
      <4> QED BY <4>2, <4>3, <4>4, <4>5, <4>6 DEF Fed
    <3>5. CASE c \notin given /\ c \notin refused /\ c \notin others \ fed
      <4>1. c \notin fed /\ c \notin served /\ c \notin others
        BY <1>2, <3>5
      <4>2. members[c].loaded = world.id
        BY <1>7, <4>1, SMTT(30)
      <4>3. member'[c] = members[c] /\ coming'[c] = coming[c] /\ up'[c] = sent[c]
        BY <1>4, <3>5
      <4> QED BY <3>1, <4>2, <4>3 DEF Fed, Rests
    <3> QED BY <3>2, <3>3, <3>4, <3>5
  <2> HIDE DEF served
  <2> QED BY <1>3, <1>5, <1>7, <2>1, <2>2
<1> QED BY <1>6, <1>7, SMTT(30)

-----------------------------------------------------------------------------
(* The steps of the room                                                   *)

\* The parts of the invariant that an offer may disturb, of the next state.
RoomNext ==
    /\ RoundsOK(rounds', sealed) /\ Few(rounds') /\ AllTold(rounds', told')
    /\ DOMAIN member' = Client /\ \A c \in Client : MemberOK(member'[c])
    /\ coming' \in [Client -> Snapshot(sealed) \cup {None}]
    /\ QueuesOK(up', sealed)

LEMMA OfferOK ==
    ASSUME sealed \in Nat, coming \in [Client -> Snapshot(sealed) \cup {None}],
           NEW members, \A c \in Client : MemberOK(members[c]),
           NEW rs, RoundsOK(rs, sealed), Few(rs), AllTold(rs, told'),
           NEW sent, QueuesOK(sent, sealed),
           NEW world \in Snapshot(sealed) \cup {None}, Offer(members, rs, sent, world)
    PROVE  RoomNext
<1>1. PICK n \in Nat : n = sealed
  OBVIOUS
<1>2. world # None => world.id \in World
  BY DEF Snapshot
<1>3. PICK m2 : m2 = member'
  OBVIOUS
<1>4. PICK w2 : w2 = coming'
  OBVIOUS
<1>5. PICK r2 : r2 = rounds'
  OBVIOUS
<1>6. PICK u2 : u2 = up'
  OBVIOUS
<1>7. PICK way : way = coming
  OBVIOUS
<1>8. /\ m2 = [c \in Client |-> m2[c]] /\ w2 = [c \in Client |-> w2[c]]
      /\ u2 = [c \in Client |-> u2[c]]
      /\ \/ r2 = rs /\ \A c \in Client : m2[c] = members[c] /\ w2[c] = way[c] /\ u2[c] = sent[c]
         \/ /\ world # None /\ r2 = Forgotten(rs, world)
            /\ \A c \in Client : Fed(members[c], m2[c], way[c], w2[c], sent[c], u2[c], world)
  <2>1. /\ member' = [c \in Client |-> member'[c]] /\ coming' = [c \in Client |-> coming'[c]]
        /\ up' = [c \in Client |-> up'[c]]
        /\ \/ /\ rounds' = rs
              /\ \A c \in Client : member'[c] = members[c] /\ coming'[c] = coming[c]
                                     /\ up'[c] = sent[c]
           \/ /\ world # None /\ rounds' = Forgotten(rs, world)
              /\ \A c \in Client : Fed(members[c], member'[c], coming[c], coming'[c],
                                          sent[c], up'[c], world)
    BY <1>2, OfferFeeds
  <2> QED BY <1>3, <1>4, <1>5, <1>7, <1>6, <2>1
<1>9. \A c \in Client : MemberOK(m2[c])
  BY <1>8 DEF Fed
<1>10. DOMAIN m2 = Client
  BY <1>8
<1>11. \A c \in Client : way[c] \in Snapshot(n) \cup {None}
  BY <1>1, <1>7
<1>12. \A c \in Client : w2[c] \in Snapshot(n) \cup {None}
  BY <1>1, <1>8, <1>11 DEF Fed, Given, Owed, Rests
<1>13. w2 \in [Client -> Snapshot(n) \cup {None}]
  BY <1>8, <1>12
<1>14. RoundsOK(rs, n)
  BY <1>1
<1>15. RoundsOK(r2, n) /\ \A s \in Decided(r2) : s \in Decided(rs) /\ r2[s] = rs[s]
  BY <1>8, <1>14, ForgottenOK
<1>16. Few(r2)
  BY <1>15, FewerStay
<1>17. PICK td : td = told'
  OBVIOUS
<1>18. AllTold(rs, td)
  BY <1>17
<1>19. AllTold(r2, td)
  BY <1>15, <1>18 DEF AllTold
<1>20. QueuesOK(u2, n)
  <2>1. QueuesOK(sent, n)
    BY <1>1
  <2>2. <<>> \in Seq(Sent(n))
    OBVIOUS
  <2>3. PICK none : none = <<>>
    OBVIOUS
  <2>4. none \in Seq(Sent(n)) /\ Len(none) <= QueueLimit
    BY <2>2, <2>3, ConstantsAssumption
  <2>5. \A c \in Client : u2[c] \in {none, sent[c]}
    BY <1>8, <2>3 DEF Fed, Given, Owed, Rests
  <2>6. \A c \in Client : u2[c] \in Seq(Sent(n)) /\ Len(u2[c]) <= QueueLimit
    <3>1. ASSUME NEW c \in Client PROVE u2[c] \in Seq(Sent(n)) /\ Len(u2[c]) <= QueueLimit
      <4>1. CASE u2[c] = none
        BY <2>4, <4>1
      <4>2. CASE u2[c] = sent[c]
        BY <2>1, <4>2 DEF QueuesOK
      <4> QED BY <2>5, <4>1, <4>2
    <3> QED BY <3>1
  <2>7. u2 \in [Client -> Seq(Sent(n))]
    BY <1>8, <2>6
  <2> QED BY <2>6, <2>7 DEF QueuesOK
<1>21. QueuesOK(up', sealed)
  BY <1>1, <1>6, <1>20
<1> QED BY <1>1, <1>3, <1>4, <1>5, <1>9, <1>10, <1>13, <1>15, <1>16, <1>17, <1>19, <1>21 DEF RoomNext

\* A member that has diverged waits for a world, one way or the other.
LEMMA RestingMember ==
    ASSUME NEW m, MemberOK(m), NEW s \in Nat
    PROVE  MemberOK([m EXCEPT !.needs = Rebase(s)])
<1> DEFINE after == [m EXCEPT !.needs = Rebase(s)]
<1>1. after \in MemberType
  BY NeedsTypes DEF MemberType, MemberOK
<1>2. after.linked = m.linked
  BY DEF MemberType, MemberOK
<1>3. after.streaming = m.streaming
  BY DEF MemberType, MemberOK
<1>4. after.needs = Rebase(s)
  BY DEF MemberType, MemberOK
<1> HIDE DEF after
<1>5. MemberOK(after)
  BY <1>1, <1>2, <1>3, <1>4, NeedsTypes DEF MemberOK
<1> QED BY <1>5 DEF after

\* What follows a verdict: those it finds to differ are told, by `after`.
Spreads(after, diverged, s, sent) ==
    IF diverged = {}
    THEN rounds' = Pruned(after) /\ up' = sent /\ UNCHANGED <<member, coming, told>>
    ELSE Announce(diverged, s, Pruned(after), sent)

LEMMA SpreadsOK ==
    ASSUME RoomInv, NEW after, RoundsOK(after, sealed), NEW s \in Step, NEW diverged,
           NEW sent, QueuesOK(sent, sealed),
           AllTold(after, told \cup {<<c, s>> : c \in diverged}), Spreads(after, diverged, s, sent)
    PROVE  RoomNext
<1>1. sealed \in Nat /\ s \in Nat
  BY ConstantsAssumption DEF RoomInv, Step
<1>2. PICK n \in Nat : n = sealed
  BY <1>1
<1>3. PICK p : p = Pruned(after)
  OBVIOUS
<1>4. RoundsOK(after, n)
  BY <1>2
<1>5. /\ RoundsOK(p, n) /\ Few(p)
      /\ \A t \in Decided(p) : t \in Decided(after) /\ p[t] = after[t]
  BY <1>3, <1>4, PrunedOK
<1>6. PICK td : td = told \cup {<<c, s>> : c \in diverged}
  OBVIOUS
<1>7. AllTold(p, td)
  <2>1. AllTold(after, td)
    BY <1>6
  <2> QED BY <1>5, <2>1 DEF AllTold
<1>8. CASE diverged = {}
  <2>1. rounds' = p /\ member' = member /\ coming' = coming /\ told' = td /\ up' = sent
    BY <1>3, <1>6, <1>8 DEF Spreads
  <2>2. DOMAIN member' = Client /\ \A c \in Client : MemberOK(member'[c])
    BY <2>1 DEF RoomInv
  <2>3. coming' \in [Client -> Snapshot(sealed) \cup {None}]
    BY <2>1 DEF RoomInv
  <2>4. QueuesOK(up', sealed)
    BY <2>1
  <2> QED BY <1>2, <1>5, <1>7, <2>1, <2>2, <2>3, <2>4 DEF RoomNext
<1>9. CASE diverged # {}
  <2>1. Announce(diverged, s, p, sent)
    BY <1>3, <1>9 DEF Spreads
  <2>2. PICK rested \in SUBSET diverged :
            /\ Offer([c \in Client |-> IF c \in rested /\ member[c].needs = Nothing
                        THEN [member[c] EXCEPT !.needs = Rebase(s)] ELSE member[c]], p, sent, current)
            /\ told' = told \cup {<<c, s>> : c \in diverged}
    BY <2>1 DEF Announce
  <2>3. PICK members : members = [c \in Client |-> IF c \in rested /\ member[c].needs = Nothing
                        THEN [member[c] EXCEPT !.needs = Rebase(s)] ELSE member[c]]
    OBVIOUS
  <2>4. ASSUME NEW c \in Client PROVE MemberOK(members[c])
    <3>1. PICK m : m = member[c]
      OBVIOUS
    <3>2. MemberOK(m)
      BY <3>1 DEF RoomInv
    <3>3. members[c] \in {m, [m EXCEPT !.needs = Rebase(s)]}
      BY <2>3, <3>1
    <3> QED BY <1>1, <3>2, <3>3, RestingMember
  <2>5. told' = td /\ AllTold(p, told')
    BY <1>6, <1>7, <2>2
  <2>6. coming \in [Client -> Snapshot(sealed) \cup {None}] /\ current \in Snapshot(sealed) \cup {None}
    BY DEF RoomInv
  <2>7. PICK world \in Snapshot(sealed) \cup {None} : world = current
    BY <2>6
  <2>8. Offer(members, p, sent, world)
    BY <2>2, <2>3, <2>7
  <2>9. RoundsOK(p, sealed)
    BY <1>2, <1>5
  <2> QED BY <1>1, <1>5, <2>4, <2>5, <2>6, <2>7, <2>8, <2>9, OfferOK
<1> QED BY <1>8, <1>9

\* One round replaced.
LEMMA Replaced ==
    ASSUME NEW n \in Nat, NEW rs, RoundsOK(rs, n), NEW s \in Step, s <= n,
           NEW round, RoundOK(round)
    PROVE  /\ RoundsOK([rs EXCEPT ![s] = round], n)
           /\ [rs EXCEPT ![s] = round][s] = round
           /\ \A t \in Step : t # s => [rs EXCEPT ![s] = round][t] = rs[t]
<1>1. PICK f : f = [rs EXCEPT ![s] = round]
  OBVIOUS
<1>2. DOMAIN rs = Step
  BY DEF RoundsOK
<1>3. DOMAIN f = Step /\ f = [t \in Step |-> f[t]] /\ f[s] = round
      /\ \A t \in Step : t # s => f[t] = rs[t]
  BY <1>1, <1>2
<1>4. RoundsOK(f, n)
  BY <1>3 DEF RoundsOK
<1> QED BY <1>1, <1>3, <1>4

\* Nothing else is decided by replacing one round.
LEMMA ReplacedTold ==
    ASSUME NEW rs, NEW f, NEW s \in Step, \A t \in Step : t # s => f[t] = rs[t],
           NEW td, AllTold(rs, td), NEW diverged,
           f[s] # None /\ f[s].verdict # None =>
                \A c \in Divergers(f[s].reports, f[s].verdict) :
                    c \in diverged \/ <<c, s>> \in td
    PROVE  AllTold(f, td \cup {<<c, s>> : c \in diverged})
<1>1. SUFFICES ASSUME NEW t \in Decided(f), NEW c \in Divergers(f[t].reports, f[t].verdict)
               PROVE  <<c, t>> \in td \/ <<c, t>> \in {<<k, s>> : k \in diverged}
  BY DEF AllTold
<1>2. CASE t = s
  <2>1. c \in diverged \/ <<c, s>> \in td
    BY <1>1, <1>2 DEF Decided
  <2> QED BY <1>2, <2>1
<1>3. CASE t # s
  <2>1. t \in Decided(rs) /\ f[t] = rs[t]
    BY <1>1, <1>3 DEF Decided
  <2> QED BY <1>1, <2>1 DEF AllTold
<1> QED BY <1>2, <1>3

-----------------------------------------------------------------------------
(* Reports and verdicts                                                    *)

\* The round a report enters, before it does.
Before0(s) == IF rounds[s] = None THEN [reports |-> <<>>, verdict |-> None] ELSE rounds[s]
With(reports, verdict) == [reports |-> reports, verdict |-> verdict]

\* The verdict v on a round that was `before` once it has the reports, and who
\* of them is told.
Rules(c, before, reports, v, diverged) ==
    \/ before.verdict # None /\ v = before.verdict /\ diverged = Divergers(reports, v) \cap {c}
    \/ before.verdict = None /\ v = Agreed(reports) /\ diverged = Divergers(reports, v)
    \/ before.verdict = None /\ v = None /\ diverged = {}

\* What is on its way once the first report of c is read.
Read(c) == [up EXCEPT ![c] = Tail(@)]

\* A report of c is taken into round s, which is given the reports and v.
Enters(c, s, before, reports, v, diverged) ==
    /\ s = Head(up[c]).step /\ s <= sealed /\ Accepts(c, s)
    /\ before = Before0(s) /\ reports = Append(before.reports, Noted(c, Head(up[c])))
    /\ Rules(c, before, reports, v, diverged)
    /\ apart' = (apart \/ ~member[c].streaming
                       \/ member[c].loaded \notin {None, Head(up[c]).world})
    /\ closed' = Closing([rounds EXCEPT ![s] = With(reports, v)], closed)
    /\ Spreads([rounds EXCEPT ![s] = With(reports, v)], diverged, s, Read(c))

LEMMA WithFields ==
    ASSUME NEW reports, NEW v
    PROVE  /\ With(reports, v).reports = reports /\ With(reports, v).verdict = v
           /\ \A more : [With(reports, v) EXCEPT !.reports = more] = With(more, v)
           /\ \A w : [With(reports, v) EXCEPT !.verdict = w] = With(reports, w)
BY DEF With

\* A round there is, or a new one, is reports and a verdict.
LEMMA Before0OK ==
    ASSUME RoomInv, NEW s \in Step
    PROVE  /\ Before0(s) = With(Before0(s).reports, Before0(s).verdict)
           /\ Before0(s).reports \in Seq(Report) /\ Distinct(Before0(s).reports)
<1>1. CASE rounds[s] = None
  <2>1. <<>> \in Seq(Report)
    OBVIOUS
  <2>2. PICK none : none = <<>>
    OBVIOUS
  <2>3. Before0(s) = With(none, None)
    BY <1>1, <2>2 DEF Before0, With
  <2>4. none \in Seq(Report) /\ Len(none) = 0
    BY <2>1, <2>2
  <2>5. Distinct(none)
    BY <2>4 DEF Distinct
  <2>6. Before0(s).reports = none /\ Before0(s).verdict = None
    BY <2>3, WithFields
  <2> QED BY <2>3, <2>4, <2>5, <2>6
<1>2. CASE rounds[s] # None
  <2>1. RoundOK(rounds[s])
    BY <1>2 DEF RoomInv, RoundsOK
  <2> QED BY <1>2, <2>1 DEF RoundOK, Before0, With
<1> QED BY <1>1, <1>2

\* What the room makes of a report.
LEMMA NotedOK ==
    ASSUME RoomInv, NEW c \in Client, up[c] # <<>>
    PROVE  /\ Head(up[c]) \in Sent(sealed) /\ up[c] = <<Head(up[c])>> \o Tail(up[c])
           /\ Tail(up[c]) \in Seq(Sent(sealed)) /\ Len(Tail(up[c])) <= QueueLimit
           /\ Head(up[c]).step \in Step
           /\ Noted(c, Head(up[c])) \in Report
           /\ Noted(c, Head(up[c])).player = c
           /\ Noted(c, Head(up[c])).lanes = Head(up[c]).lanes
           /\ Noted(c, Head(up[c])).loaded = member[c].loaded
<1>1. PICK n \in Nat : n = sealed /\ n <= MaxStep
  BY ConstantsAssumption DEF RoomInv
<1>2. PICK q \in Seq(Sent(n)) : q = up[c]
  BY <1>1 DEF RoomInv, QueuesOK
<1>3. Len(q) <= QueueLimit /\ q # <<>> /\ QueueLimit \in Nat /\ MaxStep \in Nat
  BY <1>2, ConstantsAssumption DEF RoomInv, QueuesOK
<1>4. PICK r : r = Head(q)
  OBVIOUS
<1>5. r \in Sent(n) /\ q = <<r>> \o Tail(q) /\ Tail(q) \in Seq(Sent(n)) /\ Len(Tail(q)) <= QueueLimit
  <2>1. r \in Sent(n)
    BY <1>3, <1>4
  <2>2. Tail(q) \in Seq(Sent(n)) /\ Len(Tail(q)) = Len(q) - 1
    BY <1>3
  <2>3. q = <<r>> \o Tail(q)
    BY <1>3, <1>4
  <2> QED BY <1>3, <2>1, <2>2, <2>3
<1>6. r.step \in 1..n /\ r.lanes \in Lanes
  BY <1>5 DEF Sent
<1>7. PICK m : m = member[c]
  OBVIOUS
<1>8. m.loaded \in WorldOrNone
  BY <1>7 DEF RoomInv, MemberOK, MemberType
<1>9. PICK order \in DOMAIN Seats : order = CHOOSE i \in DOMAIN Seats : Seats[i] = c
  BY DEF Client
<1>10. Noted(c, r) = [player |-> c, platform |-> IF c \in OnMac THEN "macos" ELSE "windows",
                      lanes |-> r.lanes, order |-> order, loaded |-> m.loaded]
  BY <1>7, <1>9 DEF Noted
<1>11. Noted(c, r) \in Report
  BY <1>6, <1>8, <1>10 DEF Report
<1>12. r.step \in Step
  BY <1>1, <1>3, <1>6 DEF Step
<1>13. Noted(c, r).player = c /\ Noted(c, r).lanes = r.lanes /\ Noted(c, r).loaded = m.loaded
  BY <1>10
<1> QED BY <1>1, <1>2, <1>4, <1>5, <1>7, <1>11, <1>12, <1>13

LEMMA ReadOK ==
    ASSUME RoomInv, NEW c \in Client, up[c] # <<>>
    PROVE  /\ QueuesOK(Read(c), sealed) /\ Read(c)[c] = Tail(up[c])
           /\ \A k \in Client : k # c => Read(c)[k] = up[k]
<1>1. PICK q : q = Tail(up[c])
  OBVIOUS
<1>2. q \in Seq(Sent(sealed)) /\ Len(q) <= QueueLimit
  BY <1>1, NotedOK
<1>3. up \in [Client -> Seq(Sent(sealed))] /\ \A k \in Client : Len(up[k]) <= QueueLimit
  BY DEF RoomInv, QueuesOK
<1>4. Read(c) = [k \in Client |-> IF k = c THEN q ELSE up[k]]
  BY <1>1, <1>3 DEF Read
<1>5. \A k \in Client : Read(c)[k] = IF k = c THEN q ELSE up[k]
  BY <1>4
<1>6. Read(c) \in [Client -> Seq(Sent(sealed))]
  BY <1>2, <1>3, <1>4
<1> QED BY <1>1, <1>2, <1>3, <1>5, <1>6 DEF QueuesOK

\* The room reads a report: it changes nothing more, or takes it.
LEMMA CheckpointTakes ==
    ASSUME RoomInv, NEW c \in Client, Checkpoint(c)
    PROVE  /\ up[c] # <<>> /\ member[c].linked
           /\ UNCHANGED <<sealed, current, game, boundVars>>
           /\ \/ up' = Read(c) /\ UNCHANGED <<roundVars, member, coming, told, apart>>
              \/ \E s \in Step : \E before, reports, v, diverged :
                    Enters(c, s, before, reports, v, diverged)
<1>1. /\ up[c] # <<>> /\ member[c].linked
      /\ UNCHANGED <<sealed, current, game, boundVars>>
  BY DEF Checkpoint
<1>2. PICK s : s = Head(up[c]).step
  OBVIOUS
<1>3. s \in Step
  BY <1>1, <1>2, NotedOK
<1>4. PICK before : before = Before0(s)
  OBVIOUS
<1>5. PICK reports : reports = Append(before.reports, Noted(c, Head(up[c])))
  OBVIOUS
<1>6. PICK round : round = [before EXCEPT !.reports = Append(@, Noted(c, Head(up[c])))]
  OBVIOUS
<1>7. before = With(before.reports, before.verdict)
  BY <1>3, <1>4, Before0OK
<1>8. round = With(reports, before.verdict)
  <2>1. round = [before EXCEPT !.reports = reports]
    BY <1>5, <1>6, <1>7 DEF With
  <2>2. PICK r0, v0 : before = With(r0, v0)
    BY <1>7
  <2>3. before.verdict = v0
    BY <2>2, WithFields
  <2>4. [With(r0, v0) EXCEPT !.reports = reports] = With(reports, v0)
    BY WithFields
  <2> QED BY <2>1, <2>2, <2>3, <2>4
<1>9. round.reports = reports /\ round.verdict = before.verdict /\ Judge(round) = With(reports, Agreed(reports))
  BY <1>8, WithFields DEF Judge
<1>10. SUFFICES ASSUME ~(up' = Read(c) /\ UNCHANGED <<roundVars, member, coming, told, apart>>)
               PROVE  \E v, diverged : Enters(c, s, before, reports, v, diverged)
  BY <1>1, <1>3
<1>11. PICK complete \in Completes(round) :
           LET decides == Len(round.reports) >= MinReports /\ complete
               judged == IF round.verdict = None /\ decides THEN Judge(round) ELSE round
               diverged == IF round.verdict # None THEN Divergers(round.reports, round.verdict) \cap {c}
                           ELSE IF decides THEN Divergers(round.reports, judged.verdict) ELSE {}
               after == [rounds EXCEPT ![s] = judged] IN
           /\ s <= sealed /\ Accepts(c, s)
           /\ closed' = Closing(after, closed)
           /\ apart' = (apart \/ ~member[c].streaming
                                  \/ member[c].loaded \notin {None, Head(up[c]).world})
           /\ IF diverged = {}
              THEN rounds' = Pruned(after) /\ up' = Read(c) /\ UNCHANGED <<member, coming, told>>
              ELSE Announce(diverged, s, Pruned(after), Read(c))
  <2> DEFINE s1 == Head(up[c]).step
             b1 == IF rounds[s1] = None THEN [reports |-> <<>>, verdict |-> None] ELSE rounds[s1]
             r1 == [b1 EXCEPT !.reports = Append(@, Noted(c, Head(up[c])))]
  <2>1. PICK complete \in Completes(r1) :
           LET decides == Len(r1.reports) >= MinReports /\ complete
               judged == IF r1.verdict = None /\ decides THEN Judge(r1) ELSE r1
               diverged == IF r1.verdict # None THEN Divergers(r1.reports, r1.verdict) \cap {c}
                           ELSE IF decides THEN Divergers(r1.reports, judged.verdict) ELSE {}
               after == [rounds EXCEPT ![s1] = judged] IN
           /\ s1 <= sealed /\ Accepts(c, s1)
           /\ closed' = Closing(after, closed)
           /\ apart' = (apart \/ ~member[c].streaming
                                  \/ member[c].loaded \notin {None, Head(up[c]).world})
           /\ IF diverged = {}
              THEN rounds' = Pruned(after) /\ up' = Read(c) /\ UNCHANGED <<member, coming, told>>
              ELSE Announce(diverged, s1, Pruned(after), Read(c))
    BY <1>10, ZenonT(40) DEF Checkpoint, Read
  <2>2. s1 = s /\ r1 = round
    BY <1>2, <1>4, <1>6 DEF Before0
  <2> HIDE DEF s1, r1
  <2> QED BY <2>1, <2>2, SMTT(30)
<1>12. PICK decides : decides = (Len(round.reports) >= MinReports /\ complete)
  OBVIOUS
<1>13. PICK judged : judged = IF round.verdict = None /\ decides THEN Judge(round) ELSE round
  OBVIOUS
<1>14. PICK diverged : diverged =
            IF round.verdict # None THEN Divergers(round.reports, round.verdict) \cap {c}
            ELSE IF decides THEN Divergers(round.reports, judged.verdict) ELSE {}
  OBVIOUS
<1>15. /\ s <= sealed /\ Accepts(c, s)
       /\ closed' = Closing([rounds EXCEPT ![s] = judged], closed)
       /\ apart' = (apart \/ ~member[c].streaming
                          \/ member[c].loaded \notin {None, Head(up[c]).world})
       /\ Spreads([rounds EXCEPT ![s] = judged], diverged, s, Read(c))
  BY <1>11, <1>12, <1>13, <1>14 DEF Spreads
<1>16. PICK v : v = judged.verdict
  OBVIOUS
<1>17. judged = With(reports, v) /\ Rules(c, before, reports, v, diverged)
  <2>1. CASE before.verdict # None
    <3>1. judged = round /\ v = before.verdict
      BY <1>9, <1>13, <1>16, <2>1
    <3> QED BY <1>8, <1>9, <1>14, <2>1, <3>1 DEF Rules
  <2>2. CASE before.verdict = None /\ decides
    <3>1. judged = With(reports, Agreed(reports))
      BY <1>9, <1>13, <2>2
    <3>2. v = Agreed(reports)
      BY <1>16, <3>1, WithFields
    <3> QED BY <1>9, <1>14, <1>16, <2>2, <3>1, <3>2 DEF Rules
  <2>3. CASE before.verdict = None /\ ~decides
    <3>1. judged = round /\ v = None
      BY <1>9, <1>13, <1>16, <2>3, SMTT(30)
    <3> QED BY <1>8, <1>9, <1>14, <2>3, <3>1 DEF Rules
  <2> QED BY <2>1, <2>2, <2>3
<1>18. Enters(c, s, before, reports, v, diverged)
  BY <1>2, <1>4, <1>5, <1>15, <1>17 DEF Enters
<1> QED BY <1>18, SMTT(30)

\* Divergers of more reports are those of fewer and perhaps the last.
LEMMA DivergersAppend ==
    ASSUME NEW S, NEW reports \in Seq(S), NEW r \in S, NEW v
    PROVE  Divergers(Append(reports, r), v) \subseteq Divergers(reports, v) \cup {r.player}
<1>1. PICK n \in Nat : n = Len(reports)
  OBVIOUS
<1>2. PICK more : more = Append(reports, r)
  OBVIOUS
<1>3. DOMAIN more = 1..(n + 1) /\ DOMAIN reports = 1..n /\ more[n + 1] = r
      /\ \A i \in 1..n : more[i] = reports[i]
  BY <1>1, <1>2
<1>4. ASSUME NEW c \in Divergers(more, v)
      PROVE  c \in Divergers(reports, v) \/ c = r.player
  <2>1. PICK i \in 1..(n + 1) : Diverging(more[i].lanes, v) # {} /\ c = more[i].player
    BY <1>3, <1>4 DEF Divergers
  <2>2. CASE i = n + 1
    BY <1>3, <2>1, <2>2
  <2>3. CASE i # n + 1
    <3>1. i \in 1..n /\ more[i] = reports[i]
      BY <1>1, <1>3, <2>1, <2>3
    <3> QED BY <1>3, <2>1, <3>1 DEF Divergers
  <2> QED BY <2>2, <2>3
<1> QED BY <1>2, <1>4

\* One more report, of a player that has not reported, leaves reports distinct.
LEMMA DistinctAppend ==
    ASSUME NEW reports \in Seq(Report), Distinct(reports), NEW r \in Report,
           r.player \notin {reports[i].player : i \in DOMAIN reports}
    PROVE  Distinct(Append(reports, r)) /\ Append(reports, r) \in Seq(Report) /\ Append(reports, r) # <<>>
<1>1. PICK n \in Nat : n = Len(reports)
  OBVIOUS
<1>2. PICK more : more = Append(reports, r)
  OBVIOUS
<1>3. more \in Seq(Report) /\ Len(more) = n + 1 /\ DOMAIN reports = 1..n /\ more[n + 1] = r
      /\ \A i \in 1..n : more[i] = reports[i]
  BY <1>1, <1>2
<1>4. \A i \in 1..(n + 1) : i = n + 1 \/ i \in 1..n
  BY <1>1
<1>5. \A i \in 1..n : reports[i].player # r.player
  BY <1>3
<1>6. \A i, j \in 1..n : reports[i].player = reports[j].player => i = j
  BY <1>1 DEF Distinct
<1>7. \A i, j \in 1..(n + 1) : more[i].player = more[j].player => i = j
  BY <1>3, <1>4, <1>5, <1>6
<1>8. more # <<>>
  BY <1>1, <1>3
<1> QED BY <1>2, <1>3, <1>7, <1>8 DEF Distinct

LEMMA AllToldNow ==
    ASSUME RoomInv, NEW more
    PROVE  AllTold(rounds, told \cup more)
BY DEF RoomInv, AllTold

\* Taking a report keeps the rounds as they ought to be, and nobody untold.
LEMMA EntersOK ==
    ASSUME RoomInv, NEW c \in Client, up[c] # <<>>, NEW s \in Step,
           NEW before, NEW reports, NEW v, NEW diverged,
           Enters(c, s, before, reports, v, diverged)
    PROVE  RoomNext /\ closed' \in 0..MaxStep /\ apart' \in BOOLEAN
<1>1. PICK n \in Nat : n = sealed
  BY ConstantsAssumption DEF RoomInv
<1>2. PICK r : r = Noted(c, Head(up[c]))
  OBVIOUS
<1>3. r \in Report /\ r.player = c
  BY <1>2, NotedOK
<1>4. PICK rs : rs = rounds
  OBVIOUS
<1>5. RoundsOK(rs, n) /\ AllTold(rs, told)
  BY <1>1, <1>4 DEF RoomInv
<1>6. /\ before = Before0(s) /\ reports = Append(before.reports, r)
      /\ s <= n /\ Accepts(c, s) /\ Rules(c, before, reports, v, diverged)
      /\ closed' = Closing([rs EXCEPT ![s] = With(reports, v)], closed)
      /\ Spreads([rs EXCEPT ![s] = With(reports, v)], diverged, s, Read(c))
  BY <1>1, <1>2, <1>4 DEF Enters
<1>7. PICK old : old = before.reports
  OBVIOUS
<1>8. old \in Seq(Report) /\ Distinct(old)
  BY <1>6, <1>7, Before0OK
<1>9. c \notin {old[i].player : i \in DOMAIN old}
  <2>1. CASE rs[s] = None
    <3>1. old = <<>>
      BY <1>4, <1>6, <1>7, <2>1 DEF Before0
    <3>2. PICK none : none = <<>>
      OBVIOUS
    <3>3. DOMAIN none = {}
      BY <3>2
    <3> QED BY <3>1, <3>2, <3>3
  <2>2. CASE rs[s] # None
    <3>1. before = rs[s] /\ c \notin Reporters(rs[s])
      BY <1>4, <1>6, <2>2 DEF Before0, Accepts
    <3> QED BY <1>7, <3>1 DEF Reporters
  <2> QED BY <2>1, <2>2
<1>10. Distinct(reports) /\ reports \in Seq(Report) /\ reports # <<>>
  BY <1>3, <1>6, <1>7, <1>8, <1>9, DistinctAppend
<1>11. PICK round : round = With(reports, v)
  OBVIOUS
<1>12. RoundOK(round) /\ round.reports = reports /\ round.verdict = v
  BY <1>10, <1>11, WithFields DEF RoundOK, With
<1>13. PICK f : f = [rs EXCEPT ![s] = round]
  OBVIOUS
<1>14. RoundsOK(f, n) /\ f[s] = round /\ \A t \in Step : t # s => f[t] = rs[t]
  <2>1. RoundsOK(rs, n) /\ s <= n /\ RoundOK(round)
    BY <1>5, <1>6, <1>12
  <2>2. /\ RoundsOK([rs EXCEPT ![s] = round], n)
        /\ [rs EXCEPT ![s] = round][s] = round
        /\ \A t \in Step : t # s => [rs EXCEPT ![s] = round][t] = rs[t]
    BY <2>1, Replaced
  <2> QED BY <1>13, <2>2
<1>15. f[s].verdict # None => \A k \in Divergers(reports, v) : k \in diverged \/ <<k, s>> \in told
  <2>1. CASE before.verdict # None
    <3>1. v = before.verdict /\ diverged = Divergers(reports, v) \cap {c}
      BY <1>6, <2>1 DEF Rules
    <3>2. Divergers(reports, v) \subseteq Divergers(old, v) \cup {c}
      BY <1>3, <1>6, <1>7, <1>8, DivergersAppend
    <3>3. before = rs[s] /\ rs[s] # None
      <4>1. CASE rs[s] = None
        <5>1. before.verdict = None
          BY <1>4, <1>6, <4>1 DEF Before0
        <5> QED BY <2>1, <5>1
      <4>2. CASE rs[s] # None
        BY <1>4, <1>6, <4>2 DEF Before0
      <4> QED BY <4>1, <4>2
    <3>4. s \in Decided(rs)
      BY <2>1, <3>3 DEF Decided
    <3>5. \A k \in Divergers(old, v) : <<k, s>> \in told
      BY <1>5, <1>7, <3>1, <3>3, <3>4 DEF AllTold
    <3> QED BY <3>1, <3>2, <3>5
  <2>2. CASE before.verdict = None
    BY <1>6, <1>12, <1>14, <2>2 DEF Rules
  <2> QED BY <2>1, <2>2
<1>16. PICK td : td = told
  OBVIOUS
<1>17. AllTold(f, td \cup {<<k, s>> : k \in diverged})
  <2>1. AllTold(rs, td)
    BY <1>5, <1>16
  <2>2. f[s].verdict # None => \A k \in Divergers(f[s].reports, f[s].verdict) : k \in diverged \/ <<k, s>> \in td
    BY <1>12, <1>14, <1>15, <1>16
  <2> QED BY <1>14, <2>1, <2>2, ReplacedTold
<1>18. RoomNext
  <2>1. RoundsOK(f, sealed) /\ AllTold(f, told \cup {<<k, s>> : k \in diverged}) /\ Spreads(f, diverged, s, Read(c))
    BY <1>1, <1>6, <1>11, <1>13, <1>14, <1>16, <1>17
  <2>2. PICK left : left = Read(c)
    OBVIOUS
  <2>3. QueuesOK(left, sealed) /\ Spreads(f, diverged, s, left)
    BY <2>1, <2>2, ReadOK
  <2> QED BY <2>1, <2>3, SpreadsOK
<1>19. closed' \in 0..MaxStep
  <2>1. PICK k \in 0..MaxStep : k = closed
    BY SMTT(30) DEF RoomInv
  <2> QED BY <1>6, <2>1, ClosingOK
<1>20. apart' \in BOOLEAN
  BY DEF Enters
<1> QED BY <1>18, <1>19, <1>20

\* So does a verdict at the deadline.
LEMMA DecideOK ==
    ASSUME RoomInv, NEW s \in Step, Decide(s)
    PROVE  /\ RoomNext /\ closed' \in 0..MaxStep
           /\ UNCHANGED <<sealed, current, game, boundVars, apart>>
           /\ rounds[s] # None
           /\ LET reports == rounds[s].reports
                  v == Agreed(reports) IN
              Spreads([rounds EXCEPT ![s] = With(reports, v)], Divergers(reports, v), s, up)
<1>1. PICK n \in Nat : n = sealed
  BY ConstantsAssumption DEF RoomInv
<1>2. PICK rs : rs = rounds
  OBVIOUS
<1>3. RoundsOK(rs, n) /\ AllTold(rs, told)
  BY <1>1, <1>2 DEF RoomInv
<1>4. rs[s] # None /\ UNCHANGED <<sealed, current, game, boundVars, apart>>
  BY <1>2 DEF Decide, Open
<1>5. RoundOK(rs[s]) /\ s <= n
  BY <1>3, <1>4 DEF RoundsOK
<1>6. PICK reports : reports = rs[s].reports
  OBVIOUS
<1>7. rs[s] = With(reports, rs[s].verdict)
  BY <1>5, <1>6 DEF RoundOK, With
<1>8. PICK v : v = Agreed(reports)
  OBVIOUS
<1>9. PICK round : round = With(reports, v)
  OBVIOUS
<1>10. Judge(rs[s]) = round
  <2>1. PICK w : w = rs[s].verdict
    OBVIOUS
  <2>2. [With(reports, w) EXCEPT !.verdict = v] = With(reports, v)
    BY WithFields
  <2>3. Judge(rs[s]) = [rs[s] EXCEPT !.verdict = v]
    BY <1>6, <1>8 DEF Judge
  <2> QED BY <1>7, <1>9, <2>1, <2>2, <2>3
<1>11. round.reports = reports /\ round.verdict = v
  BY <1>9, WithFields
<1>12. RoundOK(round)
  BY <1>5, <1>6, <1>9, <1>11 DEF RoundOK, With
<1>13. PICK f : f = [rs EXCEPT ![s] = round]
  OBVIOUS
<1>14. RoundsOK(f, n) /\ f[s] = round /\ \A t \in Step : t # s => f[t] = rs[t]
  <2>1. RoundsOK(rs, n) /\ s <= n /\ RoundOK(round)
    BY <1>3, <1>5, <1>12
  <2>2. /\ RoundsOK([rs EXCEPT ![s] = round], n)
        /\ [rs EXCEPT ![s] = round][s] = round
        /\ \A t \in Step : t # s => [rs EXCEPT ![s] = round][t] = rs[t]
    BY <2>1, Replaced
  <2> QED BY <1>13, <2>2
<1>15. PICK diverged : diverged = Divergers(reports, v)
  OBVIOUS
<1>16. closed' = Closing(f, closed) /\ Spreads(f, diverged, s, up)
  <2>1. closed' = Closing([rs EXCEPT ![s] = Judge(rs[s])], closed)
    BY <1>2 DEF Decide
  <2>2. Spreads([rs EXCEPT ![s] = Judge(rs[s])],
                Divergers(Judge(rs[s]).reports, Judge(rs[s]).verdict), s, up)
    BY <1>2 DEF Decide, Spreads
  <2> QED BY <1>10, <1>11, <1>13, <1>15, <2>1, <2>2
<1>17. PICK td : td = told
  OBVIOUS
<1>18. AllTold(f, td \cup {<<k, s>> : k \in diverged})
  <2>1. AllTold(rs, td)
    BY <1>3, <1>17
  <2>2. f[s].verdict # None => \A k \in Divergers(f[s].reports, f[s].verdict) : k \in diverged \/ <<k, s>> \in td
    BY <1>11, <1>14, <1>15
  <2> QED BY <1>14, <2>1, <2>2, ReplacedTold
<1>19. RoomNext
  <2>1. RoundsOK(f, sealed) /\ AllTold(f, told \cup {<<k, s>> : k \in diverged}) /\ Spreads(f, diverged, s, up)
    BY <1>1, <1>14, <1>16, <1>17, <1>18
  <2>2. PICK left : left = up
    OBVIOUS
  <2>3. QueuesOK(left, sealed) /\ Spreads(f, diverged, s, left)
    BY <2>1, <2>2 DEF RoomInv
  <2> QED BY <2>1, <2>3, SpreadsOK
<1>20. closed' \in 0..MaxStep
  <2>1. PICK k \in 0..MaxStep : k = closed
    BY DEF RoomInv
  <2> QED BY <1>16, <2>1, ClosingOK
<1> QED BY <1>2, <1>4, <1>6, <1>8, <1>9, <1>13, <1>15, <1>16, <1>19, <1>20

\* The invariant, from its parts.
LEMMA RoomFrom ==
    ASSUME sealed' = sealed, sealed \in 0..MaxStep, RoomNext,
           closed' \in 0..MaxStep, apart' \in BOOLEAN,
           current' \in Snapshot(sealed) \cup {None},
           game' \in [Client -> [world : World \cup {Own, None}, ran : 0..sealed]]
    PROVE  RoomInv'
<1>1. PICK n : n = sealed
  OBVIOUS
<1>2. RoomNext => /\ RoundsOK(rounds', n) /\ Few(rounds') /\ AllTold(rounds', told')
                  /\ DOMAIN member' = Client /\ \A c \in Client : MemberOK(member'[c])
                  /\ coming' \in [Client -> Snapshot(n) \cup {None}]
                  /\ QueuesOK(up', n)
  BY <1>1 DEF RoomNext
<1>3. /\ sealed' = n /\ n \in 0..MaxStep /\ current' \in Snapshot(n) \cup {None}
      /\ game' \in [Client -> [world : World \cup {Own, None}, ran : 0..n]]
  BY <1>1
<1>4. PICK r2 : r2 = rounds'
  OBVIOUS
<1>5. PICK td : td = told'
  OBVIOUS
<1>6. RoundsOK(r2, n) /\ Few(r2) /\ AllTold(r2, td)
  BY <1>2, <1>4, <1>5
<1>7. /\ RoundsOK(rounds, sealed)' /\ Few(rounds)' /\ AllTold(rounds, told)'
  BY <1>3, <1>4, <1>5, <1>6
<1>8. DOMAIN member' = Client /\ \A c \in Client : MemberOK(member'[c])
  BY <1>2
<1>9. \A c \in Client : MemberOK(member[c])'
  BY <1>8
<1>10. QueuesOK(up, sealed)'
  BY <1>2, <1>3
<1> QED BY <1>2, <1>3, <1>7, <1>8, <1>9, <1>10 DEF RoomInv

\* What stays as it was is as it ought to be.
LEMMA RoomStays ==
    ASSUME RoomInv
    PROVE  /\ (UNCHANGED <<rounds, told>> => RoundsOK(rounds', sealed) /\ Few(rounds') /\ AllTold(rounds', told'))
           /\ (UNCHANGED member => DOMAIN member' = Client /\ \A c \in Client : MemberOK(member'[c]))
           /\ (UNCHANGED coming => coming' \in [Client -> Snapshot(sealed) \cup {None}])
           /\ (UNCHANGED current => current' \in Snapshot(sealed) \cup {None})
           /\ (UNCHANGED game => game' \in [Client -> [world : World \cup {Own, None}, ran : 0..sealed]])
           /\ (UNCHANGED up => QueuesOK(up', sealed))
           /\ (UNCHANGED closed => closed' \in 0..MaxStep)
           /\ (UNCHANGED apart => apart' \in BOOLEAN)
           /\ sealed \in 0..MaxStep /\ sealed \in Nat
<1>1. UNCHANGED <<rounds, told>> => RoundsOK(rounds', sealed) /\ Few(rounds') /\ AllTold(rounds', told')
  BY DEF RoomInv
<1>2. UNCHANGED member => DOMAIN member' = Client /\ \A c \in Client : MemberOK(member'[c])
  BY DEF RoomInv
<1> QED BY <1>1, <1>2, ConstantsAssumption DEF RoomInv

\* The rounds there are, those that expire aside.
LEMMA ExpiredOK ==
    ASSUME NEW n \in Nat, NEW rs, RoundsOK(rs, n), Few(rs), NEW td, AllTold(rs, td), NEW s \in Step
    PROVE  LET f == [rs EXCEPT ![s] = None] IN RoundsOK(f, n) /\ Few(f) /\ AllTold(f, td)
<1>1. PICK f : f = [rs EXCEPT ![s] = None]
  OBVIOUS
<1>2. DOMAIN rs = Step
  BY DEF RoundsOK
<1>3. DOMAIN f = Step /\ f = [t \in Step |-> f[t]] /\ f[s] = None /\ \A t \in Step : t # s => f[t] = rs[t]
  BY <1>1, <1>2
<1>4. RoundsOK(f, n)
  BY <1>3 DEF RoundsOK
<1>5. \A t \in Decided(f) : t \in Decided(rs) /\ f[t] = rs[t]
  BY <1>3 DEF Decided
<1>6. Few(f)
  BY <1>5, FewerStay
<1>7. AllTold(f, td)
  BY <1>5 DEF AllTold
<1> QED BY <1>1, <1>4, <1>6, <1>7

\* With no rounds, nothing is untold.
LEMMA NoRounds ==
    ASSUME NEW n \in Nat, NEW td, NEW f, f = [s \in Step |-> None]
    PROVE  RoundsOK(f, n) /\ Few(f) /\ AllTold(f, td)
<1>1. DOMAIN f = Step /\ f = [s \in Step |-> f[s]] /\ \A s \in Step : f[s] = None
  OBVIOUS
<1>2. Decided(f) = {}
  BY <1>1 DEF Decided
<1>3. Cardinality(Decided(f)) = 0
  BY <1>2, FS_EmptySet
<1> QED BY <1>1, <1>2, <1>3, ConstantsAssumption DEF RoundsOK, Few, AllTold

LEMMA PlainMember ==
    ASSUME NEW needs \in Needs, NEW loaded \in WorldOrNone
    PROVE  /\ (needs \in {Nothing, AnyWorld} => MemberOK(Member(needs, loaded)))
           /\ Member(needs, loaded).needs = needs /\ Member(needs, loaded).loaded = loaded
           /\ Member(needs, loaded).linked /\ Member(needs, loaded).streaming = (needs = Nothing)
           /\ LET away == [Member(Nothing, loaded) EXCEPT !.linked = FALSE, !.streaming = FALSE] IN
              MemberOK(away) /\ away.needs = Nothing /\ away.loaded = loaded /\ ~away.linked /\ ~away.streaming
<1>1. PICK m : m = Member(needs, loaded)
  OBVIOUS
<1>2. m = [linked |-> TRUE, streaming |-> needs = Nothing, needs |-> needs, loaded |-> loaded]
  BY <1>1 DEF Member
<1>3. m \in MemberType
  BY <1>2 DEF MemberType
<1>4. m.needs = needs /\ m.loaded = loaded /\ m.linked /\ m.streaming = (needs = Nothing)
  BY <1>2
<1>5. needs \in {Nothing, AnyWorld} => MemberOK(m)
  BY <1>3, <1>4, NeedsTypes DEF MemberOK
<1>6. PICK away : away = [Member(Nothing, loaded) EXCEPT !.linked = FALSE, !.streaming = FALSE]
  OBVIOUS
<1>7. away = [linked |-> FALSE, streaming |-> FALSE, needs |-> Nothing, loaded |-> loaded]
  BY <1>6 DEF Member
<1>8. away \in MemberType
  BY <1>7, NeedsTypes DEF MemberType
<1>9. away.needs = Nothing /\ away.loaded = loaded /\ ~away.linked /\ ~away.streaming
  BY <1>7
<1>10. MemberOK(away)
  BY <1>8, <1>9 DEF MemberOK
<1> QED BY <1>1, <1>4, <1>5, <1>6, <1>9, <1>10

LEMMA RoomInit == Init => RoomInv
<1> SUFFICES ASSUME Init PROVE RoomInv
  OBVIOUS
<1>1. sealed = 0 /\ closed = 0 /\ apart = FALSE /\ 0 \in 0..MaxStep /\ 0 \in Nat
  BY ConstantsAssumption DEF Init
<1>2. RoundsOK(rounds, sealed) /\ Few(rounds) /\ AllTold(rounds, told)
  <2>1. PICK td : td = told
    OBVIOUS
  <2>2. PICK f : f = rounds
    OBVIOUS
  <2>3. f = [s \in Step |-> None]
    BY <2>2 DEF Init
  <2>4. RoundsOK(f, 0) /\ Few(f) /\ AllTold(f, td)
    BY <1>1, <2>3, NoRounds
  <2> QED BY <1>1, <2>1, <2>2, <2>4
<1>3. coming \in [Client -> Snapshot(sealed) \cup {None}]
  BY DEF Init
<1>4. QueuesOK(up, sealed)
  <2>1. <<>> \in Seq(Sent(sealed))
    OBVIOUS
  <2>2. PICK none : none = <<>>
    OBVIOUS
  <2>3. up = [c \in Client |-> none] /\ none \in Seq(Sent(sealed)) /\ Len(none) = 0
    BY <2>1, <2>2 DEF Init
  <2> QED BY <2>3, ConstantsAssumption DEF QueuesOK
<1>5. /\ current \in Snapshot(sealed) \cup {None}
      /\ DOMAIN member = Client /\ \A c \in Client : MemberOK(member[c])
      /\ game \in [Client -> [world : World \cup {Own, None}, ran : 0..sealed]]
  <2>1. PICK first \in World :
        LET handed == [id |-> first, step |-> 0] IN
        \/ /\ current = handed
           /\ member = [c \in Client |-> Member(Nothing, first)]
           /\ game = [c \in Client |-> [world |-> first, ran |-> 0]]
        \/ /\ current = None
           /\ member = [c \in Client |-> Member(IF c = Seats[1] THEN Nothing ELSE AnyWorld, None)]
           /\ game = [c \in Client |-> [world |-> IF c = Seats[1] THEN Own ELSE None, ran |-> 0]]
    BY DEF Init
  <2>2. [id |-> first, step |-> 0] \in Snapshot(sealed)
    BY <1>1 DEF Snapshot
  <2>3. first \in WorldOrNone /\ None \in WorldOrNone
    BY DEF WorldOrNone
  <2>4. MemberOK(Member(Nothing, first)) /\ MemberOK(Member(Nothing, None)) /\ MemberOK(Member(AnyWorld, None))
    BY <2>3, NeedsTypes, PlainMember
  <2>5. DOMAIN member = Client
    BY <2>1
  <2>6. \A c \in Client : MemberOK(member[c])
    <3>1. ASSUME NEW c \in Client PROVE MemberOK(member[c])
      <4>1. member[c] \in {Member(Nothing, first), Member(Nothing, None), Member(AnyWorld, None)}
        BY <2>1
      <4> QED BY <2>4, <4>1
    <3> QED BY <3>1
  <2>7. current \in Snapshot(sealed) \cup {None}
    BY <2>1, <2>2
  <2>8. game \in [Client -> [world : World \cup {Own, None}, ran : 0..sealed]]
    BY <1>1, <2>1
  <2> QED BY <2>5, <2>6, <2>7, <2>8
<1> QED BY <1>1, <1>2, <1>3, <1>4, <1>5 DEF RoomInv

\* One queue replaced.
LEMMA QueueReplaced ==
    ASSUME RoomInv, NEW c \in Client, NEW q \in Seq(Sent(sealed)), Len(q) <= QueueLimit,
           up' = [up EXCEPT ![c] = q]
    PROVE  QueuesOK(up', sealed)
<1>1. up \in [Client -> Seq(Sent(sealed))] /\ \A k \in Client : Len(up[k]) <= QueueLimit
  BY DEF RoomInv, QueuesOK
<1>2. \A k \in Client : up'[k] = IF k = c THEN q ELSE up[k]
  BY <1>1
<1>3. up' \in [Client -> Seq(Sent(sealed))]
  BY <1>1
<1> QED BY <1>1, <1>2, <1>3 DEF QueuesOK

LEMMA NextTypes == \A w \in World \cup {Own} : \A c \in Client : Digests(c, w) \in Lanes
BY DEF Lanes

LEMMA CheckpointRoom == ASSUME RoomInv, NEW c \in Client, Checkpoint(c) PROVE RoomInv'
<1>1. up[c] # <<>> /\ sealed' = sealed /\ current' = current /\ game' = game
  BY CheckpointTakes DEF boundVars
<1>2. RoomNext /\ closed' \in 0..MaxStep /\ apart' \in BOOLEAN
  <2>1. CASE up' = Read(c) /\ UNCHANGED <<roundVars, member, coming, told, apart>>
    <3>1. QueuesOK(up', sealed)
      BY <1>1, <2>1, ReadOK
    <3> QED BY <2>1, <3>1, RoomStays DEF RoomNext, roundVars
  <2>2. CASE \E s \in Step : \E before, reports, v, diverged : Enters(c, s, before, reports, v, diverged)
    BY <1>1, <2>2, EntersOK
  <2> QED BY <2>1, <2>2, CheckpointTakes
<1>3. /\ sealed \in 0..MaxStep /\ current' \in Snapshot(sealed) \cup {None}
      /\ game' \in [Client -> [world : World \cup {Own, None}, ran : 0..sealed]]
  BY <1>1, RoomStays
<1> QED BY <1>1, <1>2, <1>3, RoomFrom

LEMMA DecideRoom == ASSUME RoomInv, NEW s \in Step, Decide(s) PROVE RoomInv'
<1>1. RoomNext /\ closed' \in 0..MaxStep /\ UNCHANGED <<sealed, current, game, boundVars, apart>>
  BY DecideOK
<1>2. sealed' = sealed /\ current' = current /\ game' = game /\ apart' = apart
  BY <1>1
<1>3. /\ sealed \in 0..MaxStep /\ current' \in Snapshot(sealed) \cup {None}
      /\ game' \in [Client -> [world : World \cup {Own, None}, ran : 0..sealed]]
      /\ apart' \in BOOLEAN
  BY <1>2, RoomStays
<1> QED BY <1>1, <1>2, <1>3, RoomFrom

LEMMA ExpireRoom == ASSUME RoomInv, NEW s \in Step, Expire(s) PROVE RoomInv'
<1>1. /\ rounds' = [rounds EXCEPT ![s] = None] /\ closed' = Larger(closed, s)
      /\ sealed' = sealed /\ current' = current /\ member' = member /\ game' = game /\ up' = up
      /\ coming' = coming /\ told' = told /\ apart' = apart
  BY DEF Expire, gameVars, historyVars
<1>2. RoundsOK(rounds', sealed) /\ Few(rounds') /\ AllTold(rounds', told')
  <2>1. PICK rs : rs = rounds
    OBVIOUS
  <2>2. PICK td : td = told
    OBVIOUS
  <2>3. PICK n \in Nat : n = sealed
    BY RoomStays
  <2>4. RoundsOK(rs, n) /\ Few(rs) /\ AllTold(rs, td)
    BY <2>1, <2>2, <2>3 DEF RoomInv
  <2>5. RoundsOK([rs EXCEPT ![s] = None], n) /\ Few([rs EXCEPT ![s] = None])
        /\ AllTold([rs EXCEPT ![s] = None], td)
    BY <2>4, ExpiredOK
  <2> QED BY <1>1, <2>1, <2>2, <2>3, <2>5
<1>3. closed' \in 0..MaxStep
  BY <1>1, ConstantsAssumption DEF Larger, RoomInv, Step
<1>4. RoomNext
  BY <1>1, <1>2, RoomStays DEF RoomNext
<1> QED BY <1>1, <1>3, <1>4, RoomFrom, RoomStays

LEMMA PromoteRoom == ASSUME RoomInv, NEW at \in 0..sealed, Promote(at) PROVE RoomInv'
<1>1. /\ Offer(member, rounds, up, current')
      /\ sealed' = sealed /\ closed' = closed /\ game' = game
      /\ told' = told /\ apart' = apart
  BY DEF Promote
<1>2. PICK world : world = current'
  OBVIOUS
<1>3. world \in Snapshot(sealed)
  BY <1>2 DEF Promote, Snapshot, Unused
<1>4. PICK members : members = member
  OBVIOUS
<1>5. PICK rs : rs = rounds
  OBVIOUS
<1>6. /\ \A c \in Client : MemberOK(members[c])
      /\ RoundsOK(rs, sealed) /\ Few(rs) /\ AllTold(rs, told')
      /\ coming \in [Client -> Snapshot(sealed) \cup {None}] /\ sealed \in Nat
  BY <1>1, <1>4, <1>5, RoomStays DEF RoomInv
<1>7. PICK sent : sent = up
  OBVIOUS
<1>8. Offer(members, rs, sent, world) /\ QueuesOK(sent, sealed)
  BY <1>1, <1>2, <1>4, <1>5, <1>7 DEF RoomInv
<1>9. world \in Snapshot(sealed) \cup {None}
  BY <1>3
<1>10. RoomNext
  BY <1>6, <1>8, <1>9, OfferOK
<1> QED BY <1>1, <1>2, <1>9, <1>10, RoomFrom, RoomStays

LEMMA RestartRoom == ASSUME RoomInv, ServerRestarts PROVE RoomInv'
<1>1. /\ rounds' = [s \in Step |-> None] /\ closed' = 0 /\ current' \in {current, None}
      /\ member' = [c \in Client |-> [Member(Nothing, None) EXCEPT
                    !.linked = FALSE, !.streaming = FALSE]]
      /\ coming' = [c \in Client |-> None] /\ apart' \in BOOLEAN
      /\ up' = [c \in Client |-> IF member[c].linked THEN <<>> ELSE up[c]]
      /\ sealed' = sealed /\ game' = game /\ told' = told
  BY DEF ServerRestarts
<1>2. RoundsOK(rounds', sealed) /\ Few(rounds') /\ AllTold(rounds', told')
  <2>1. PICK td : td = told
    OBVIOUS
  <2>2. PICK n \in Nat : n = sealed
    BY RoomStays
  <2>3. PICK f : f = rounds'
    OBVIOUS
  <2>4. f = [s \in Step |-> None]
    BY <1>1, <2>3
  <2>5. RoundsOK(f, n) /\ Few(f) /\ AllTold(f, td)
    BY <2>4, NoRounds
  <2> QED BY <1>1, <2>1, <2>2, <2>3, <2>5
<1>3. DOMAIN member' = Client /\ \A c \in Client : MemberOK(member'[c])
  <2>1. MemberOK([Member(Nothing, None) EXCEPT !.linked = FALSE, !.streaming = FALSE])
    BY NeedsTypes, PlainMember DEF WorldOrNone
  <2>2. PICK away : away = [Member(Nothing, None) EXCEPT !.linked = FALSE, !.streaming = FALSE]
    OBVIOUS
  <2>3. member' = [c \in Client |-> away]
    BY <1>1, <2>2
  <2>4. MemberOK(away)
    BY <2>1, <2>2
  <2> QED BY <2>3, <2>4
<1>4. coming' \in [Client -> Snapshot(sealed) \cup {None}]
  BY <1>1
<1>5. QueuesOK(up', sealed)
  <2>1. <<>> \in Seq(Sent(sealed))
    OBVIOUS
  <2>2. PICK none : none = <<>>
    OBVIOUS
  <2>3. none \in Seq(Sent(sealed)) /\ Len(none) = 0
    BY <2>1, <2>2
  <2>4. up \in [Client -> Seq(Sent(sealed))] /\ \A c \in Client : Len(up[c]) <= QueueLimit
    BY DEF RoomInv, QueuesOK
  <2>5. up' = [c \in Client |-> IF member[c].linked THEN none ELSE up[c]]
    BY <1>1, <2>2
  <2>6. \A c \in Client : up'[c] \in {none, up[c]}
    BY <2>5
  <2>7. \A c \in Client : up'[c] \in Seq(Sent(sealed)) /\ Len(up'[c]) <= QueueLimit
    <3>1. Len(none) <= QueueLimit
      BY <2>3, ConstantsAssumption
    <3>2. ASSUME NEW c \in Client PROVE up'[c] \in Seq(Sent(sealed)) /\ Len(up'[c]) <= QueueLimit
      <4>1. CASE up'[c] = none
        BY <2>3, <3>1, <4>1
      <4>2. CASE up'[c] = up[c]
        BY <2>4, <4>2
      <4> QED BY <2>6, <4>1, <4>2
    <3> QED BY <3>2
  <2> QED BY <2>5, <2>7 DEF QueuesOK
<1>6. closed' \in 0..MaxStep
  BY <1>1, ConstantsAssumption
<1>7. current' \in Snapshot(sealed) \cup {None}
  BY <1>1 DEF RoomInv
<1>8. RoomNext
  BY <1>2, <1>3, <1>4, <1>5 DEF RoomNext
<1> QED BY <1>1, <1>5, <1>6, <1>7, <1>8, RoomFrom, RoomStays

LEMMA AwayMember ==
    ASSUME NEW m, MemberOK(m)
    PROVE  LET away == [[m EXCEPT !.linked = FALSE] EXCEPT !.streaming = FALSE] IN
           MemberOK(away) /\ away.needs = m.needs /\ away.loaded = m.loaded /\ ~away.linked /\ ~away.streaming
<1> DEFINE away == [[m EXCEPT !.linked = FALSE] EXCEPT !.streaming = FALSE]
<1>1. away \in MemberType
  BY DEF MemberType, MemberOK
<1>2. ~away.linked
  BY DEF MemberType, MemberOK
<1>3. ~away.streaming
  BY DEF MemberType, MemberOK
<1>4. away.needs = m.needs
  BY DEF MemberType, MemberOK
<1>5. away.loaded = m.loaded
  BY DEF MemberType, MemberOK
<1> HIDE DEF away
<1>6. MemberOK(away) /\ away.needs = m.needs /\ away.loaded = m.loaded /\ ~away.linked /\ ~away.streaming
  BY <1>1, <1>2, <1>3, <1>4, <1>5 DEF MemberOK
<1> QED BY <1>6 DEF away

\* The member that has left, and the others.
LEMMA DisconnectedMember ==
    ASSUME RoomInv, NEW c \in Client, Disconnected(c)
    PROVE  /\ DOMAIN member' = Client /\ \A k \in Client : MemberOK(member'[k])
           /\ \A k \in Client : k # c => member'[k] = member[k]
           /\ member'[c].needs = member[c].needs /\ member'[c].loaded = member[c].loaded
           /\ ~member'[c].linked
<1>1. PICK m : m = member[c]
  OBVIOUS
<1>2. MemberOK(m)
  BY <1>1 DEF RoomInv
<1>3. PICK away : away = [[m EXCEPT !.linked = FALSE] EXCEPT !.streaming = FALSE]
  OBVIOUS
<1>4. MemberOK(away) /\ away.needs = m.needs /\ away.loaded = m.loaded /\ ~away.linked
  BY <1>2, <1>3, AwayMember
<1>5. DOMAIN member = Client /\ \A k \in Client : MemberOK(member[k])
  BY DEF RoomInv
<1>6. member' = [member EXCEPT ![c].linked = FALSE, ![c].streaming = FALSE]
  BY DEF Disconnected
<1>7. member' = [k \in Client |-> IF k = c THEN away ELSE member[k]]
  <2>1. DOMAIN member' = Client /\ \A k \in Client : k # c => member'[k] = member[k]
    BY <1>5, <1>6
  <2>2. member'[c] = away
    BY <1>1, <1>3, <1>5, <1>6
  <2>3. member' = [k \in Client |-> member'[k]]
    BY <1>5, <1>6
  <2> QED BY <2>1, <2>2, <2>3
<1> QED BY <1>1, <1>4, <1>5, <1>7

LEMMA DisconnectedRoom == ASSUME RoomInv, NEW c \in Client, Disconnected(c) PROVE RoomInv'
<1>1. /\ coming' = [coming EXCEPT ![c] = None] /\ up' = [up EXCEPT ![c] = <<>>]
      /\ sealed' = sealed /\ rounds' = rounds /\ closed' = closed /\ current' = current
      /\ game' = game /\ told' = told /\ apart' = apart
  BY DEF Disconnected, roundVars, historyVars
<1>2. QueuesOK(up', sealed)
  <2>1. <<>> \in Seq(Sent(sealed))
    OBVIOUS
  <2>2. PICK none : none = <<>>
    OBVIOUS
  <2>3. none \in Seq(Sent(sealed)) /\ Len(none) <= QueueLimit /\ up' = [up EXCEPT ![c] = none]
    BY <1>1, <2>1, <2>2, ConstantsAssumption
  <2> QED BY <2>3, QueueReplaced
<1>3. coming' \in [Client -> Snapshot(sealed) \cup {None}]
  BY <1>1 DEF RoomInv
<1>4. DOMAIN member' = Client /\ \A k \in Client : MemberOK(member'[k])
  BY DisconnectedMember
<1>5. RoomNext
  BY <1>1, <1>2, <1>3, <1>4, RoomStays DEF RoomNext
<1> QED BY <1>1, <1>2, <1>5, RoomFrom, RoomStays

\* A member that comes back.
Backed(m, streaming, needs) ==
    [[[m EXCEPT !.linked = TRUE] EXCEPT !.streaming = streaming] EXCEPT !.needs = needs]

\* The members once c is back and waits for `needs`.
Backs(members, c, needs) ==
    /\ \A k \in Client : MemberOK(members[k])
    /\ \A k \in Client : k # c => members[k] = member[k]
    /\ members[c].needs = needs /\ members[c].loaded = member[c].loaded /\ members[c].linked

\* The members an offer to one that joins starts from.
LEMMA JoinedMembers ==
    ASSUME RoomInv, NEW c \in Client, NEW streaming \in BOOLEAN, NEW needs \in Needs,
           needs = AnyWorld => streaming = FALSE, Joins(c, streaming, needs)
    PROVE  /\ ~member[c].linked
           /\ UNCHANGED <<sealed, closed, current, game, historyVars>>
           /\ \E members : Backs(members, c, needs) /\ Offer(members, rounds, up, current)
<1>1. /\ ~member[c].linked
      /\ Offer([member EXCEPT ![c].linked = TRUE, ![c].streaming = streaming, ![c].needs = needs],
             rounds, up, current)
      /\ UNCHANGED <<sealed, closed, current, game, historyVars>>
  BY DEF Joins
<1>2. PICK members : members =
            [member EXCEPT ![c].linked = TRUE, ![c].streaming = streaming, ![c].needs = needs]
  OBVIOUS
<1>3. DOMAIN member = Client /\ \A k \in Client : MemberOK(member[k])
  BY DEF RoomInv
<1>4. PICK m : m = member[c]
  OBVIOUS
<1>5. PICK back : back = Backed(m, streaming, needs)
  OBVIOUS
<1>6. members[c] = back
  BY <1>2, <1>3, <1>4, <1>5 DEF Backed
<1>7. \A k \in Client : k # c => members[k] = member[k]
  BY <1>2, <1>3
<1>8. MemberOK(m)
  BY <1>3, <1>4
<1>9. MemberOK(back) /\ back.needs = needs /\ back.loaded = m.loaded /\ back.linked
      /\ back.streaming = streaming
  <2>1. needs = AnyWorld => streaming = FALSE
    OBVIOUS
  <2>2. back \in MemberType /\ back.linked /\ back.needs = needs
    <3>1. back \in MemberType
      BY <1>5, <1>8 DEF Backed, MemberOK, MemberType
    <3>2. back.linked
      BY <1>5, <1>8 DEF Backed, MemberOK, MemberType
    <3>3. back.needs = needs
      BY <1>5, <1>8 DEF Backed, MemberOK, MemberType
    <3> QED BY <3>1, <3>2, <3>3
  <2>3. back.loaded = m.loaded
    BY <1>5, <1>8 DEF Backed, MemberOK, MemberType
  <2>4. back.streaming = streaming
    BY <1>5, <1>8 DEF Backed, MemberOK, MemberType
  <2>5. MemberOK(back)
    BY <2>1, <2>2, <2>4 DEF MemberOK
  <2> QED BY <2>2, <2>3, <2>4, <2>5
<1>10. \A k \in Client : MemberOK(members[k])
  BY <1>3, <1>6, <1>7, <1>9
<1>11. Offer(members, rounds, up, current)
  BY <1>1, <1>2
<1>12. Backs(members, c, needs)
  BY <1>4, <1>6, <1>7, <1>9, <1>10 DEF Backs
<1> QED BY <1>1, <1>11, <1>12

LEMMA JoinsRoom ==
    ASSUME RoomInv, NEW c \in Client, NEW streaming \in BOOLEAN, NEW needs \in Needs,
           needs = AnyWorld => streaming = FALSE, Joins(c, streaming, needs)
    PROVE  RoomInv'
<1>1. /\ sealed' = sealed /\ closed' = closed /\ current' = current /\ game' = game
      /\ told' = told /\ apart' = apart
  BY JoinedMembers DEF historyVars
<1>2. PICK members : Backs(members, c, needs) /\ Offer(members, rounds, up, current)
  BY JoinedMembers
<1>3. PICK rs : rs = rounds
  OBVIOUS
<1>4. PICK world : world = current
  OBVIOUS
<1>5. /\ RoundsOK(rs, sealed) /\ Few(rs) /\ AllTold(rs, told')
      /\ coming \in [Client -> Snapshot(sealed) \cup {None}] /\ sealed \in Nat
      /\ world \in Snapshot(sealed) \cup {None}
  BY <1>1, <1>3, <1>4, RoomStays DEF RoomInv
<1>6. PICK sent : sent = up
  OBVIOUS
<1>7. Offer(members, rs, sent, world) /\ QueuesOK(sent, sealed)
  BY <1>2, <1>3, <1>4, <1>6 DEF RoomInv
<1>8. RoomNext
  BY <1>2, <1>5, <1>7, OfferOK DEF Backs
<1> QED BY <1>1, <1>8, RoomFrom, RoomStays

\* What a game that runs on reports.
LEMMA RunSends ==
    ASSUME RoomInv, NEW c \in Client, Run(c)
    PROVE  /\ game[c].world \in World \cup {Own} /\ game[c].ran + 1 \in 1..sealed
           /\ game' \in [Client -> [world : World \cup {Own, None}, ran : 0..sealed]]
           /\ game'[c].world = game[c].world /\ game'[c].ran = game[c].ran + 1
           /\ \A k \in Client : k # c => game'[k] = game[k] /\ up'[k] = up[k]
           /\ QueuesOK(up', sealed)
           /\ \E r \in Sent(sealed) :
                /\ up'[c] = Append(up[c], r) /\ r.step = game[c].ran + 1
                /\ r.world = game[c].world /\ r.lanes = Digests(c, game[c].world)
           /\ UNCHANGED <<sealed, roundVars, current, member, coming, historyVars>>
<1>1. /\ game[c].world # None /\ game[c].ran < sealed /\ Len(up[c]) < QueueLimit
      /\ game' = [game EXCEPT ![c].ran = @ + 1]
      /\ up' = [up EXCEPT ![c] = Append(@,
                  [step |-> game[c].ran + 1,
                   world |-> game[c].world, lanes |-> Digests(c, game[c].world)])]
      /\ UNCHANGED <<sealed, roundVars, current, member, coming, historyVars>>
  BY DEF Run
<1>2. PICK n \in Nat : n = sealed
  BY RoomStays
<1>3. PICK g \in [world : World \cup {Own, None}, ran : 0..n] : g = game[c]
  BY <1>2 DEF RoomInv
<1>4. g.world \in World \cup {Own} /\ g.ran + 1 \in 1..n /\ g.ran \in Nat
  BY <1>1, <1>2, <1>3
<1>5. PICK lanes \in Lanes : lanes = Digests(c, g.world)
  BY <1>4, NextTypes
<1>6. PICK r : r = [step |-> g.ran + 1, world |-> g.world, lanes |-> lanes]
  OBVIOUS
<1>7. r \in Sent(n) /\ r.step = g.ran + 1 /\ r.world = g.world /\ r.lanes = lanes
  BY <1>4, <1>5, <1>6 DEF Sent
<1>8. PICK q \in Seq(Sent(n)) : q = up[c] /\ Len(q) < QueueLimit
  BY <1>1, <1>2 DEF RoomInv, QueuesOK
<1>9. PICK l : l = Append(q, r)
  OBVIOUS
<1>10. l \in Seq(Sent(n)) /\ Len(l) <= QueueLimit
  BY <1>7, <1>8, <1>9, ConstantsAssumption
<1>11. up' = [up EXCEPT ![c] = l]
  <2>1. up' = [up EXCEPT ![c] = Append(q, [step |-> g.ran + 1, world |-> g.world, lanes |-> lanes])]
    BY <1>1, <1>3, <1>5, <1>8
  <2> QED BY <1>6, <1>9, <2>1
<1>12. QueuesOK(up', sealed)
  <2>1. l \in Seq(Sent(sealed))
    BY <1>2, <1>10
  <2> QED BY <1>10, <1>11, <2>1, QueueReplaced
<1>13. up'[c] = l /\ \A k \in Client : k # c => up'[k] = up[k]
  BY <1>11 DEF RoomInv, QueuesOK
<1>14. PICK h : h = [g EXCEPT !.ran = @ + 1]
  OBVIOUS
<1>15. h \in [world : World \cup {Own, None}, ran : 0..n] /\ h.world = g.world /\ h.ran = g.ran + 1
  <2>1. h.world = g.world /\ h.ran = g.ran + 1
    BY <1>3, <1>14
  <2>2. h = [world |-> g.world, ran |-> g.ran + 1]
    BY <1>3, <1>14
  <2> QED BY <1>3, <1>4, <2>1, <2>2
<1>16. game' = [game EXCEPT ![c] = h]
  BY <1>1, <1>3, <1>14
<1>17. game' \in [Client -> [world : World \cup {Own, None}, ran : 0..sealed]]
       /\ game'[c] = h /\ \A k \in Client : k # c => game'[k] = game[k]
  <2>1. game \in [Client -> [world : World \cup {Own, None}, ran : 0..n]]
    BY <1>2 DEF RoomInv
  <2> QED BY <1>2, <1>15, <1>16, <2>1
<1> QED BY <1>1, <1>2, <1>3, <1>4, <1>5, <1>7, <1>8, <1>9, <1>12, <1>13, <1>15, <1>17

LEMMA RunRoom == ASSUME RoomInv, NEW c \in Client, Run(c) PROVE RoomInv'
<1>1. /\ sealed' = sealed /\ rounds' = rounds /\ closed' = closed /\ current' = current
      /\ member' = member /\ coming' = coming /\ told' = told /\ apart' = apart
  BY RunSends DEF roundVars, historyVars
<1>2. RoomNext
  BY <1>1, RunSends, RoomStays DEF RoomNext
<1> QED BY <1>1, <1>2, RunSends, RoomFrom, RoomStays

\* The game that has loaded a world, and the others.
LEMMA TakesWorld ==
    ASSUME RoomInv, NEW c \in Client, TakeWorld(c)
    PROVE  /\ coming[c] # None /\ coming[c] \in Snapshot(sealed)
           /\ game' \in [Client -> [world : World \cup {Own, None}, ran : 0..sealed]]
           /\ game'[c].world = coming[c].id /\ game'[c].ran = coming[c].step
           /\ coming' \in [Client -> Snapshot(sealed) \cup {None}] /\ coming'[c] = None
           /\ \A k \in Client : k # c => game'[k] = game[k] /\ coming'[k] = coming[k]
           /\ UNCHANGED <<sealed, roundVars, current, member, up, historyVars>>
<1>1. /\ coming[c] # None
      /\ game' = [game EXCEPT ![c] = [world |-> coming[c].id, ran |-> coming[c].step]]
      /\ coming' = [coming EXCEPT ![c] = None]
      /\ UNCHANGED <<sealed, roundVars, current, member, up, historyVars>>
  BY DEF TakeWorld
<1>2. PICK n \in Nat : n = sealed
  BY RoomStays
<1>3. PICK w \in Snapshot(n) : w = coming[c]
  BY <1>1, <1>2 DEF RoomInv
<1>4. w.id \in World /\ w.step \in 0..n
  BY <1>3 DEF Snapshot
<1>5. PICK h : h = [world |-> w.id, ran |-> w.step]
  OBVIOUS
<1>6. h \in [world : World \cup {Own, None}, ran : 0..n] /\ h.world = w.id /\ h.ran = w.step
  BY <1>4, <1>5
<1>7. game' = [game EXCEPT ![c] = h]
  BY <1>1, <1>3, <1>5
<1>8. game \in [Client -> [world : World \cup {Own, None}, ran : 0..n]]
      /\ coming \in [Client -> Snapshot(n) \cup {None}]
  BY <1>2 DEF RoomInv
<1>9. game' \in [Client -> [world : World \cup {Own, None}, ran : 0..sealed]]
      /\ game'[c] = h /\ \A k \in Client : k # c => game'[k] = game[k]
  BY <1>2, <1>6, <1>7, <1>8
<1>10. coming' \in [Client -> Snapshot(sealed) \cup {None}] /\ coming'[c] = None
       /\ \A k \in Client : k # c => coming'[k] = coming[k]
  BY <1>1, <1>2, <1>8
<1> QED BY <1>1, <1>2, <1>3, <1>6, <1>9, <1>10

LEMMA TakeRoom == ASSUME RoomInv, NEW c \in Client, TakeWorld(c) PROVE RoomInv'
<1>1. /\ sealed' = sealed /\ rounds' = rounds /\ closed' = closed /\ current' = current
      /\ member' = member /\ up' = up /\ told' = told /\ apart' = apart
  BY TakesWorld DEF roundVars, historyVars
<1>2. RoomNext
  BY <1>1, TakesWorld, RoomStays DEF RoomNext
<1> QED BY <1>1, <1>2, TakesWorld, RoomFrom, RoomStays

\* With more sealed, everything is as it was.
LEMMA SealRoom == ASSUME RoomInv, Seal PROVE RoomInv'
<1>1. PICK n \in 0..MaxStep : n = sealed
  BY DEF RoomInv
<1>2. PICK m : m = n + 1
  OBVIOUS
<1>3. m \in 0..MaxStep /\ n \in Nat /\ m \in Nat /\ n < m /\ sealed' = m
  BY <1>1, <1>2, ConstantsAssumption DEF Seal
<1>4. UNCHANGED <<rounds, closed, current, member, game, up, coming, told, apart>>
  BY DEF Seal, roundVars, gameVars, historyVars
<1>5. Snapshot(n) \subseteq Snapshot(m) /\ Sent(n) \subseteq Sent(m)
  BY <1>3 DEF Snapshot, Sent
<1>6. PICK rs : rs = rounds
  OBVIOUS
<1>7. RoundsOK(rs, n)
  BY <1>1, <1>6 DEF RoomInv
<1>8. RoundsOK(rs, m)
  BY <1>3, <1>7, ConstantsAssumption DEF RoundsOK, Step
<1>9. RoundsOK(rounds, sealed)'
  BY <1>3, <1>4, <1>6, <1>8
<1>10. Few(rounds)' /\ AllTold(rounds, told)'
  BY <1>4 DEF RoomInv
<1>11. current' \in Snapshot(m) \cup {None} /\ coming' \in [Client -> Snapshot(m) \cup {None}]
  BY <1>1, <1>4, <1>5 DEF RoomInv
<1>12. game' \in [Client -> [world : World \cup {Own, None}, ran : 0..m]]
  <2>1. game \in [Client -> [world : World \cup {Own, None}, ran : 0..n]]
    BY <1>1 DEF RoomInv
  <2>2. [world : World \cup {Own, None}, ran : 0..n] \subseteq [world : World \cup {Own, None}, ran : 0..m]
    BY <1>3
  <2> QED BY <1>4, <2>1, <2>2
<1>13. QueuesOK(up', m)
  <2>1. up \in [Client -> Seq(Sent(n))] /\ \A c \in Client : Len(up[c]) <= QueueLimit
    BY <1>1 DEF RoomInv, QueuesOK
  <2>2. \A q \in Seq(Sent(n)) : q \in Seq(Sent(m))
    BY <1>5
  <2>3. up' \in [Client -> Seq(Sent(m))] /\ \A c \in Client : Len(up'[c]) <= QueueLimit
    BY <1>4, <2>1, <2>2
  <2> QED BY <2>3 DEF QueuesOK
<1>14. DOMAIN member' = Client /\ \A c \in Client : MemberOK(member'[c])
  BY <1>4 DEF RoomInv
<1>15. closed' \in 0..MaxStep /\ apart' \in BOOLEAN
  BY <1>4 DEF RoomInv
<1>16. QueuesOK(up, sealed)'
  BY <1>3, <1>13
<1> QED BY <1>3, <1>9, <1>10, <1>11, <1>12, <1>13, <1>14, <1>15, <1>16 DEF RoomInv

\* No step disturbs the invariant.
LEMMA RoomStep == RoomInv /\ [Next]_vars => RoomInv'
<1> SUFFICES ASSUME RoomInv, [Next]_vars PROVE RoomInv'
  OBVIOUS
<1>1. CASE Seal
  BY <1>1, SealRoom
<1>2. CASE ServerRestarts
  BY <1>2, RestartRoom
<1>3. ASSUME NEW s \in Step, Decide(s) \/ Expire(s) PROVE RoomInv'
  BY <1>3, DecideRoom, ExpireRoom
<1>4. ASSUME NEW at \in 0..sealed, Promote(at) PROVE RoomInv'
  BY <1>4, PromoteRoom
<1>5. ASSUME NEW c \in Client,
             \/ Checkpoint(c) \/ Disconnected(c) \/ JoinResuming(c) \/ JoinForWorld(c)
             \/ Run(c) \/ TakeWorld(c)
      PROVE  RoomInv'
  <2>1. CASE Checkpoint(c)
    BY <2>1, CheckpointRoom
  <2>2. CASE Disconnected(c)
    BY <2>2, DisconnectedRoom
  <2>3. CASE JoinResuming(c)
    <3>1. Joins(c, TRUE, Nothing) /\ Nothing \in Needs /\ Nothing # AnyWorld
      BY <2>3, NeedsTypes DEF JoinResuming
    <3> QED BY <3>1, JoinsRoom
  <2>4. CASE JoinForWorld(c)
    <3>1. Joins(c, FALSE, AnyWorld) /\ AnyWorld \in Needs
      BY <2>4, NeedsTypes DEF JoinForWorld
    <3> QED BY <3>1, JoinsRoom
  <2>5. CASE Run(c)
    BY <2>5, RunRoom
  <2>6. CASE TakeWorld(c)
    BY <2>6, TakeRoom
  <2> QED BY <1>5, <2>1, <2>2, <2>3, <2>4, <2>5, <2>6
<1>6. CASE UNCHANGED vars
  BY <1>6 DEF vars, roundVars, gameVars, historyVars, RoomInv, RoundsOK, Few, AllTold, QueuesOK
<1> QED BY <1>1, <1>2, <1>3, <1>4, <1>5, <1>6 DEF Next

\* Initially and after every step, the room is as it ought to be: rounds of
\* reports each of another player, few of them decided, members that stream
\* linked and waiting for no world, and nobody untold.
THEOREM RoomInvariant == Spec => []RoomInv
<1>1. Init => RoomInv
  BY RoomInit
<1>2. RoomInv /\ [Next]_vars => RoomInv'
  BY RoomStep
<1> QED BY <1>1, <1>2, PTL DEF Spec

\* The bookkeeping of the rounds holds: a round kept has a report, at most one
\* of each player, of a step that is sealed; at most DECIDED_ROUNDS_KEPT stay
\* decided, however checkpoints, deadlines and worlds interleave.
THEOREM TypesCorrect == Spec => []TypeOK
<1>1. RoomInv => TypeOK
  <2> SUFFICES ASSUME RoomInv PROVE TypeOK
    OBVIOUS
  <2>1. /\ sealed \in 0..MaxStep /\ closed \in 0..MaxStep /\ apart \in BOOLEAN
        /\ Cardinality(Decided(rounds)) <= KeptLimit
    BY DEF RoomInv, Few
  <2>2. ASSUME NEW s \in Step, rounds[s] # None
        PROVE  /\ s <= sealed /\ rounds[s].reports # <<>>
               /\ Cardinality(Reporters(rounds[s])) = Len(rounds[s].reports)
    <3>1. RoundOK(rounds[s]) /\ s <= sealed
      BY <2>2 DEF RoomInv, RoundsOK
    <3>2. PICK round : round = rounds[s]
      OBVIOUS
    <3>3. round.reports \in Seq(Report) /\ Distinct(round.reports) /\ round.reports # <<>>
      BY <3>1, <3>2 DEF RoundOK
    <3>4. Cardinality(Reporters(round)) = Len(round.reports)
      BY <3>3, ReportersOf
    <3> QED BY <3>1, <3>2, <3>3, <3>4
  <2>3. ASSUME NEW c \in Client
        PROVE  /\ member[c].streaming => member[c].linked /\ member[c].needs # AnyWorld
               /\ member[c].loaded \in World \cup {None} /\ game[c].world \in World \cup {Own, None}
               /\ game[c].ran \in 0..sealed /\ Len(up[c]) <= QueueLimit
    <3>1. MemberOK(member[c])
      BY DEF RoomInv
    <3>2. game[c] \in [world : World \cup {Own, None}, ran : 0..sealed] /\ Len(up[c]) <= QueueLimit
      BY DEF RoomInv, QueuesOK
    <3>3. member[c].loaded \in World \cup {None}
      BY <3>1 DEF MemberOK, MemberType, WorldOrNone
    <3>4. game[c].world \in World \cup {Own, None} /\ game[c].ran \in 0..sealed
      BY <3>2
    <3> QED BY <3>1, <3>2, <3>3, <3>4 DEF MemberOK
  <2> QED BY <2>1, <2>2, <2>3 DEF TypeOK
<1> QED BY <1>1, RoomInvariant, PTL

\* Whoever differs from a verdict the room keeps has been told, whether the
\* verdict came with its report, before it, or at the deadline (checkpoint,
\* decide_waiting_rounds, announce_divergence).
THEOREM NobodyIsUntold == Spec => []NobodyUntold
<1>1. RoomInv => NobodyUntold
  BY DEF RoomInv, AllTold, NobodyUntold
<1> QED BY <1>1, RoomInvariant, PTL

-----------------------------------------------------------------------------
(* Like with like                                                          *)

\* Every report in q2 is in q1.
Part(q2, q1) ==
    \A c \in Client : \A i \in 1..Len(q2[c]) : \E j \in 1..Len(q1[c]) : q2[c][i] = q1[c][j]

LEMMA PartKeeps ==
    ASSUME NEW q1, NEW q2, Part(q2, q1)
    PROVE  /\ SentOf(q1) => SentOf(q2)
           /\ \A world, g, co : PastOf(world, g, co, q1) => PastOf(world, g, co, q2)
           /\ \A m, g, co : AwayOf(m, g, co, q1) => AwayOf(m, g, co, q2)
           /\ \A c \in Client : \A m, g, way, w, b, loaded :
                PlaysOne(m, g, way, q1[c], w, b, loaded) => PlaysOne(m, g, way, q2[c], w, b, loaded)
<1>1. SentOf(q1) => SentOf(q2)
  BY DEF SentOf, Part
<1>2. ASSUME NEW world, NEW g, NEW co, PastOf(world, g, co, q1)
      PROVE  PastOf(world, g, co, q2)
  <2>1. SUFFICES ASSUME world # None, NEW c \in Client
                 PROVE  /\ g[c].world = world.id => g[c].ran >= world.step
                        /\ co[c] # None /\ co[c].id = world.id => co[c].step = world.step
                        /\ \A i \in 1..Len(q2[c]) : q2[c][i].world = world.id => q2[c][i].step > world.step
    BY DEF PastOf
  <2>2. /\ g[c].world = world.id => g[c].ran >= world.step
        /\ co[c] # None /\ co[c].id = world.id => co[c].step = world.step
        /\ \A i \in 1..Len(q1[c]) : q1[c][i].world = world.id => q1[c][i].step > world.step
    BY <1>2, <2>1 DEF PastOf
  <2>3. \A i \in 1..Len(q2[c]) : \E j \in 1..Len(q1[c]) : q2[c][i] = q1[c][j]
    BY DEF Part
  <2> QED BY <2>2, <2>3
<1>3. ASSUME NEW m, NEW g, NEW co, AwayOf(m, g, co, q1)
      PROVE  AwayOf(m, g, co, q2)
  BY <1>3 DEF AwayOf, Part
<1>4. ASSUME NEW c \in Client, NEW m, NEW g, NEW way, NEW w, NEW b, NEW loaded,
             PlaysOne(m, g, way, q1[c], w, b, loaded)
      PROVE  PlaysOne(m, g, way, q2[c], w, b, loaded)
  BY <1>4 DEF PlaysOne, Part
<1> QED BY <1>1, <1>2, <1>3, <1>4

\* What is left once a report is read.
LEMMA ReadPart == ASSUME RoomInv, NEW c \in Client, up[c] # <<>> PROVE Part(Read(c), up)
<1>1. SUFFICES ASSUME NEW k \in Client, NEW i \in 1..Len(Read(c)[k])
               PROVE  \E j \in 1..Len(up[k]) : Read(c)[k][i] = up[k][j]
  BY DEF Part
<1>2. CASE k # c
  <2>1. Read(c)[k] = up[k]
    BY <1>2, ReadOK
  <2> QED BY <1>1, <2>1
<1>3. CASE k = c
  <2>1. PICK q \in Seq(Sent(sealed)) : q = up[c]
    BY DEF RoomInv, QueuesOK
  <2>2. q # <<>> /\ Len(q) \in Nat /\ Read(c)[c] = Tail(q)
    BY <2>1, ReadOK
  <2>3. Len(Tail(q)) = Len(q) - 1 /\ \A j \in 1..Len(Tail(q)) : Tail(q)[j] = q[j + 1]
    BY <2>2
  <2>4. i \in 1..Len(Tail(q))
    BY <1>1, <1>3, <2>2
  <2>5. i + 1 \in 1..Len(q) /\ Tail(q)[i] = q[i + 1]
    BY <2>2, <2>3, <2>4
  <2> QED BY <1>3, <2>1, <2>2, <2>5
<1> QED BY <1>2, <1>3

\* What an offer leaves of the reports on their way, and of worlds.
LEMMA OfferPast ==
    ASSUME NEW members, \A c \in Client : MemberOK(members[c]), NEW rs, NEW sent,
           NEW world, world # None => world.id \in World,
           Offer(members, rs, sent, world), NEW g
    PROVE  /\ Part(up', sent)
           /\ PastOf(world, g, coming, sent) => PastOf(world, g, coming', up')
           /\ AwayOf(members, g, coming, sent) => AwayOf(member', g, coming', up')
<1>1. PICK u2 : u2 = up'
  OBVIOUS
<1>2. PICK w1 : w1 = coming
  OBVIOUS
<1>3. PICK w2 : w2 = coming'
  OBVIOUS
<1>4. PICK m2 : m2 = member'
  OBVIOUS
<1>5. ASSUME NEW c \in Client
      PROVE  /\ u2[c] \in {<<>>, sent[c]} /\ w2[c] \in {None, w1[c], world}
             /\ m2[c].linked \/ (m2[c].linked = members[c].linked /\ w2[c] = w1[c] /\ u2[c] = sent[c])
                             \/ (w2[c] = None /\ u2[c] = <<>>)
  <2>1. \/ m2[c] = members[c] /\ w2[c] = w1[c] /\ u2[c] = sent[c]
        \/ Fed(members[c], m2[c], w1[c], w2[c], sent[c], u2[c], world)
    BY <1>1, <1>2, <1>3, <1>4, OfferFeeds
  <2> QED BY <2>1 DEF Fed, Given, Owed, Rests
<1>6. Part(u2, sent)
  <2>1. PICK none : none = <<>>
    OBVIOUS
  <2>2. 1..Len(none) = {}
    BY <2>1
  <2>3. \A c \in Client : u2[c] = none \/ u2[c] = sent[c]
    BY <1>5, <2>1
  <2> QED BY <2>2, <2>3 DEF Part
<1>7. ASSUME PastOf(world, g, w1, sent) PROVE PastOf(world, g, w2, u2)
  <2>1. PastOf(world, g, w1, u2)
    BY <1>6, <1>7, PartKeeps
  <2> QED BY <1>5, <2>1 DEF PastOf
<1>8. ASSUME AwayOf(members, g, w1, sent) PROVE AwayOf(m2, g, w2, u2)
  <2>1. SUFFICES ASSUME NEW c \in Client, ~m2[c].linked
                 PROVE  w2[c] = None /\ \A i \in 1..Len(u2[c]) : u2[c][i].world = g[c].world
    BY DEF AwayOf
  <2>2. CASE w2[c] = None /\ u2[c] = <<>>
    <3>1. PICK none : none = <<>>
      OBVIOUS
    <3>2. 1..Len(none) = {} /\ u2[c] = none
      BY <2>2, <3>1
    <3> QED BY <2>2, <3>2
  <2>3. CASE m2[c].linked = members[c].linked /\ w2[c] = w1[c] /\ u2[c] = sent[c]
    BY <1>8, <2>1, <2>3 DEF AwayOf
  <2> QED BY <1>5, <2>1, <2>2, <2>3
<1> QED BY <1>1, <1>2, <1>3, <1>4, <1>6, <1>7, <1>8

LEMMA SpreadsPast ==
    ASSUME RoomInv, NEW after, NEW diverged, NEW s \in Step, NEW sent,
           Spreads(after, diverged, s, sent),
           AwayOf(member, game, coming, sent), PastOf(current, game, coming, sent)
    PROVE  AwayOf(member', game, coming', up') /\ PastOf(current, game, coming', up')
<1>1. CASE diverged = {}
  <2>1. member' = member /\ coming' = coming /\ up' = sent
    BY <1>1 DEF Spreads
  <2> QED BY <2>1
<1>2. CASE diverged # {}
  <2>1. PICK p : p = Pruned(after)
    OBVIOUS
  <2>2. PICK rested \in SUBSET diverged :
            Offer([c \in Client |-> IF c \in rested /\ member[c].needs = Nothing
                        THEN [member[c] EXCEPT !.needs = Rebase(s)] ELSE member[c]], p, sent, current)
    BY <1>2, <2>1 DEF Spreads, Announce
  <2>3. PICK members : members = [c \in Client |-> IF c \in rested /\ member[c].needs = Nothing
                        THEN [member[c] EXCEPT !.needs = Rebase(s)] ELSE member[c]]
    OBVIOUS
  <2>4. ASSUME NEW c \in Client PROVE MemberOK(members[c]) /\ members[c].linked = member[c].linked
    <3>1. PICK m : m = member[c]
      OBVIOUS
    <3>2. MemberOK(m) /\ s \in Nat
      BY <3>1, ConstantsAssumption DEF RoomInv, Step
    <3>3. PICK rest : rest = [m EXCEPT !.needs = Rebase(s)]
      OBVIOUS
    <3>4. members[c] \in {m, rest}
      BY <2>3, <3>1, <3>3
    <3>5. MemberOK(rest)
      BY <3>2, <3>3, RestingMember
    <3>6. rest.linked = m.linked
      BY <3>2, <3>3 DEF MemberOK, MemberType
    <3> QED BY <3>1, <3>2, <3>4, <3>5, <3>6
  <2>5. PICK world : world = current
    OBVIOUS
  <2>6. PICK g : g = game
    OBVIOUS
  <2>7. world # None => world.id \in World
    BY <2>5 DEF RoomInv, Snapshot
  <2>8. Offer(members, p, sent, world)
    BY <2>2, <2>3, <2>5
  <2>9. AwayOf(members, g, coming, sent)
    BY <2>4, <2>6 DEF AwayOf
  <2>10. PastOf(world, g, coming, sent)
    BY <2>5, <2>6
  <2>11. AwayOf(member', g, coming', up') /\ PastOf(world, g, coming', up')
    BY <2>4, <2>7, <2>8, <2>9, <2>10, OfferPast
  <2> QED BY <2>5, <2>6, <2>11
<1> QED BY <1>1, <1>2

LEMMA BehindFrom ==
    ASSUME NEW m, NEW g, NEW co, NEW q, NEW world,
           member' = m, game' = g, coming' = co, up' = q, current' = world,
           AwayOf(m, g, co, q), PastOf(world, g, co, q)
    PROVE  Behind'
BY DEF Behind

LEMMA CheckpointBehind == ASSUME RoomInv, Behind, NEW c \in Client, Checkpoint(c) PROVE Behind'
<1>1. up[c] # <<>> /\ current' = current /\ game' = game
  BY CheckpointTakes
<1>2. PICK left : left = Read(c)
  OBVIOUS
<1>3. AwayOf(member, game, coming, left) /\ PastOf(current, game, coming, left)
  <2>1. PICK q : q = up
    OBVIOUS
  <2>2. Part(left, q)
    BY <1>1, <1>2, <2>1, ReadPart
  <2>3. PICK m : m = member
    OBVIOUS
  <2>4. PICK g : g = game
    OBVIOUS
  <2>5. PICK co : co = coming
    OBVIOUS
  <2>6. PICK world : world = current
    OBVIOUS
  <2>7. AwayOf(m, g, co, q) /\ PastOf(world, g, co, q)
    BY <2>1, <2>3, <2>4, <2>5, <2>6 DEF Behind
  <2>8. AwayOf(m, g, co, left) /\ PastOf(world, g, co, left)
    BY <2>2, <2>7, PartKeeps
  <2> QED BY <2>3, <2>4, <2>5, <2>6, <2>8
<1>4. AwayOf(member', game, coming', up') /\ PastOf(current, game, coming', up')
  <2>1. CASE up' = Read(c) /\ UNCHANGED <<roundVars, member, coming, told, apart>>
    BY <1>2, <1>3, <2>1
  <2>2. CASE \E s \in Step : \E before, reports, v, diverged : Enters(c, s, before, reports, v, diverged)
    <3>1. PICK s \in Step : \E before, reports, v, diverged : Enters(c, s, before, reports, v, diverged)
      BY <2>2
    <3>2. PICK before, reports, v, diverged : Enters(c, s, before, reports, v, diverged)
      BY <3>1
    <3>3. PICK after : after = [rounds EXCEPT ![s] = With(reports, v)]
      OBVIOUS
    <3>4. Spreads(after, diverged, s, left)
      BY <1>2, <3>2, <3>3 DEF Enters
    <3> QED BY <1>3, <3>4, SpreadsPast
  <2> QED BY <2>1, <2>2, CheckpointTakes
<1> QED BY <1>1, <1>4 DEF Behind

LEMMA DecideBehind == ASSUME RoomInv, Behind, NEW s \in Step, Decide(s) PROVE Behind'
<1>1. PICK reports : reports = rounds[s].reports
  OBVIOUS
<1>2. PICK v : v = Agreed(reports)
  OBVIOUS
<1>3. PICK after : after = [rounds EXCEPT ![s] = With(reports, v)]
  OBVIOUS
<1>4. PICK diverged : diverged = Divergers(reports, v)
  OBVIOUS
<1>5. PICK sent : sent = up
  OBVIOUS
<1>6. current' = current /\ game' = game /\ Spreads(after, diverged, s, sent)
  BY <1>1, <1>2, <1>3, <1>4, <1>5, DecideOK
<1>7. AwayOf(member, game, coming, sent) /\ PastOf(current, game, coming, sent)
  BY <1>5 DEF Behind
<1>8. AwayOf(member', game, coming', up') /\ PastOf(current, game, coming', up')
  BY <1>6, <1>7, SpreadsPast
<1> QED BY <1>6, <1>8 DEF Behind

\* A world nobody plays, that is on no way, and that no report is of.
LEMMA UnusedPast ==
    ASSUME RoomInv, NEW id \in Unused, NEW at
    PROVE  PastOf([id |-> id, step |-> at], game, coming, up)
<1>1. PICK world : world = [id |-> id, step |-> at]
  OBVIOUS
<1>2. world.id = id
  BY <1>1
<1>3. ASSUME NEW c \in Client
      PROVE  /\ game[c].world # id /\ (coming[c] # None => coming[c].id # id)
             /\ \A i \in 1..Len(up[c]) : up[c][i].world # id
  <2>1. game[c].world # id
    BY DEF Unused
  <2>2. coming[c] # None => coming[c].id # id
    BY DEF Unused
  <2>3. PICK q \in Seq(Sent(sealed)) : q = up[c]
    BY DEF RoomInv, QueuesOK
  <2>4. ASSUME NEW i \in 1..Len(q) PROVE q[i].world # id
    <3>1. i \in DOMAIN q
      OBVIOUS
    <3>2. q[i].world \in {up[c][k].world : k \in DOMAIN up[c]}
      BY <2>3, <3>1
    <3>3. q[i].world \in UNION {{up[k][j].world : j \in DOMAIN up[k]} : k \in Client}
      BY <3>2
    <3> QED BY <3>3 DEF Unused
  <2> QED BY <2>1, <2>2, <2>3, <2>4
<1>4. PastOf(world, game, coming, up)
  BY <1>2, <1>3 DEF PastOf
<1> QED BY <1>1, <1>4

LEMMA PromoteBehind == ASSUME RoomInv, Behind, NEW at \in 0..sealed, Promote(at) PROVE Behind'
<1>1. Offer(member, rounds, up, current') /\ game' = game
  BY DEF Promote
<1>2. PICK id \in Unused : current' = [id |-> id, step |-> at]
  BY DEF Promote
<1>3. PICK world : world = [id |-> id, step |-> at]
  OBVIOUS
<1>4. PICK members : members = member
  OBVIOUS
<1>5. PICK rs : rs = rounds
  OBVIOUS
<1>6. PICK sent : sent = up
  OBVIOUS
<1>7. PICK g : g = game
  OBVIOUS
<1>8. Offer(members, rs, sent, world) /\ world.id \in World
  BY <1>1, <1>2, <1>3, <1>4, <1>5, <1>6 DEF Unused
<1>9. \A c \in Client : MemberOK(members[c])
  BY <1>4 DEF RoomInv
<1>10. PastOf(world, g, coming, sent)
  BY <1>3, <1>6, <1>7, UnusedPast
<1>11. AwayOf(members, g, coming, sent)
  BY <1>4, <1>6, <1>7 DEF Behind
<1>12. AwayOf(member', g, coming', up') /\ PastOf(world, g, coming', up')
  BY <1>8, <1>9, <1>10, <1>11, OfferPast
<1> QED BY <1>1, <1>2, <1>3, <1>7, <1>12 DEF Behind

LEMMA JoinsBehind ==
    ASSUME RoomInv, Behind, NEW c \in Client, NEW streaming \in BOOLEAN, NEW needs \in Needs,
           needs = AnyWorld => streaming = FALSE, Joins(c, streaming, needs)
    PROVE  Behind'
<1>1. current' = current /\ game' = game
  BY JoinedMembers DEF historyVars
<1>2. PICK members : Backs(members, c, needs) /\ Offer(members, rounds, up, current)
  BY JoinedMembers
<1>3. PICK world : world = current
  OBVIOUS
<1>4. PICK rs : rs = rounds
  OBVIOUS
<1>5. PICK sent : sent = up
  OBVIOUS
<1>6. PICK g : g = game
  OBVIOUS
<1>7. world # None => world.id \in World
  BY <1>3 DEF RoomInv, Snapshot
<1>8. Offer(members, rs, sent, world)
  BY <1>2, <1>3, <1>4, <1>5
<1>9. PastOf(world, g, coming, sent)
  BY <1>3, <1>5, <1>6 DEF Behind
<1>10. AwayOf(members, g, coming, sent)
  BY <1>2, <1>5, <1>6 DEF Behind, AwayOf, Backs
<1>11. AwayOf(member', g, coming', up') /\ PastOf(world, g, coming', up')
  <2>1. \A k \in Client : MemberOK(members[k])
    BY <1>2 DEF Backs
  <2> QED BY <1>2, <2>1, <1>7, <1>8, <1>9, <1>10, OfferPast
<1> QED BY <1>1, <1>3, <1>6, <1>11 DEF Behind

LEMMA RestartBehind == ASSUME RoomInv, Behind, ServerRestarts PROVE Behind'
<1>1. /\ current' \in {current, None} /\ coming' = [c \in Client |-> None]
      /\ up' = [c \in Client |-> IF member[c].linked THEN <<>> ELSE up[c]] /\ game' = game
  BY DEF ServerRestarts
<1>2. PICK none : none = <<>>
  OBVIOUS
<1>3. \A c \in Client : coming'[c] = None
  BY <1>1
<1>4. \A c \in Client : up'[c] = IF member[c].linked THEN none ELSE up[c]
  BY <1>1, <1>2
<1>5. 1..Len(none) = {}
  BY <1>2
<1>6. PICK q : q = up
  OBVIOUS
<1>7. PICK q2 : q2 = up'
  OBVIOUS
<1>8. PICK g : g = game
  OBVIOUS
<1>9. PICK co : co = coming'
  OBVIOUS
<1>10. Part(q2, q)
  <2>1. \A c \in Client : q2[c] = none \/ q2[c] = q[c]
    BY <1>4, <1>6, <1>7
  <2> QED BY <1>5, <2>1 DEF Part
<1>11. ASSUME NEW world, PastOf(world, g, coming, q) PROVE PastOf(world, g, co, q2)
  <2>1. PastOf(world, g, coming, q2)
    <3>1. PICK was : was = coming
      OBVIOUS
    <3>2. PastOf(world, g, was, q2)
      BY <1>10, <1>11, <3>1, PartKeeps
    <3> QED BY <3>1, <3>2
  <2> QED BY <1>3, <1>9, <2>1 DEF PastOf
<1>12. PastOf(current', g, co, q2)
  <2>1. CASE current' = None
    BY <2>1 DEF PastOf
  <2>2. CASE current' = current
    <3>1. PICK world : world = current
      OBVIOUS
    <3>2. PastOf(world, g, coming, q)
      BY <1>6, <1>8, <3>1 DEF Behind
    <3> QED BY <1>11, <2>2, <3>1, <3>2
  <2> QED BY <1>1, <2>1, <2>2
<1>13. PICK m : m = member'
  OBVIOUS
<1>14. AwayOf(m, g, co, q2)
  <2>1. SUFFICES ASSUME NEW c \in Client
                 PROVE  co[c] = None /\ \A i \in 1..Len(q2[c]) : q2[c][i].world = g[c].world
    BY DEF AwayOf
  <2>2. CASE member[c].linked
    <3>1. q2[c] = none
      BY <1>4, <1>7, <2>2
    <3> QED BY <1>3, <1>5, <1>9, <3>1
  <2>3. CASE ~member[c].linked
    <3>1. q2[c] = up[c]
      BY <1>4, <1>7, <2>3
    <3>2. \A i \in 1..Len(up[c]) : up[c][i].world = g[c].world
      BY <1>8, <2>3 DEF Behind, AwayOf
    <3> QED BY <1>3, <1>9, <3>1, <3>2
  <2> QED BY <2>2, <2>3
<1>15. game' = g
  BY <1>1, <1>8
<1> QED BY <1>7, <1>9, <1>12, <1>13, <1>14, <1>15 DEF Behind

LEMMA DisconnectedBehind == ASSUME RoomInv, Behind, NEW c \in Client, Disconnected(c) PROVE Behind'
<1>1. /\ coming' = [coming EXCEPT ![c] = None] /\ up' = [up EXCEPT ![c] = <<>>]
      /\ current' = current /\ game' = game
  BY DEF Disconnected
<1>2. PICK none : none = <<>>
  OBVIOUS
<1>3. 1..Len(none) = {}
  BY <1>2
<1>4. \A k \in Client : /\ coming'[k] = IF k = c THEN None ELSE coming[k]
                        /\ up'[k] = IF k = c THEN none ELSE up[k]
  BY <1>1, <1>2 DEF RoomInv, QueuesOK
<1>5. \A k \in Client : k # c => member'[k] = member[k]
  BY DisconnectedMember
<1>6. AwayOf(member, game, coming, up)'
  <2>1. SUFFICES ASSUME NEW k \in Client, ~member'[k].linked
                 PROVE  coming'[k] = None /\ \A i \in 1..Len(up'[k]) : up'[k][i].world = game'[k].world
    BY DEF AwayOf
  <2>2. CASE k = c
    BY <1>3, <1>4, <2>2
  <2>3. CASE k # c
    <3>1. ~member[k].linked /\ coming'[k] = coming[k] /\ up'[k] = up[k]
      BY <1>4, <1>5, <2>1, <2>3
    <3>2. coming[k] = None /\ \A i \in 1..Len(up[k]) : up[k][i].world = game[k].world
      BY <3>1 DEF Behind, AwayOf
    <3> QED BY <1>1, <3>1, <3>2
  <2> QED BY <2>2, <2>3
<1>7. PastOf(current, game, coming, up)'
  <2>1. SUFFICES ASSUME current # None, NEW k \in Client
                 PROVE  /\ game[k].world = current.id => game[k].ran >= current.step
                        /\ coming'[k] # None /\ coming'[k].id = current.id => coming'[k].step = current.step
                        /\ \A i \in 1..Len(up'[k]) : up'[k][i].world = current.id => up'[k][i].step > current.step
    BY <1>1 DEF PastOf
  <2>2. /\ game[k].world = current.id => game[k].ran >= current.step
        /\ coming[k] # None /\ coming[k].id = current.id => coming[k].step = current.step
        /\ \A i \in 1..Len(up[k]) : up[k][i].world = current.id => up[k][i].step > current.step
    BY <2>1 DEF Behind, PastOf
  <2>3. CASE k = c
    BY <1>3, <1>4, <2>2, <2>3
  <2>4. CASE k # c
    <3>1. coming'[k] = coming[k] /\ up'[k] = up[k]
      BY <1>4, <2>4
    <3> QED BY <2>2, <3>1
  <2> QED BY <2>3, <2>4
<1> QED BY <1>6, <1>7 DEF Behind

LEMMA RunBehind == ASSUME RoomInv, Behind, NEW c \in Client, Run(c) PROVE Behind'
<1>1. PICK r \in Sent(sealed) :
        /\ up'[c] = Append(up[c], r) /\ r.step = game[c].ran + 1
        /\ r.world = game[c].world /\ r.lanes = Digests(c, game[c].world)
  BY RunSends
<1>2. /\ game'[c].world = game[c].world /\ game'[c].ran = game[c].ran + 1
      /\ \A k \in Client : k # c => game'[k] = game[k] /\ up'[k] = up[k]
      /\ current' = current /\ member' = member /\ coming' = coming
  BY RunSends
<1>3. PICK q \in Seq(Sent(sealed)) : q = up[c]
  BY DEF RoomInv, QueuesOK
<1>4. \A i \in 1..Len(up'[c]) : (i \in 1..Len(up[c]) /\ up'[c][i] = up[c][i]) \/ up'[c][i] = r
  <2>1. PICK l : l = Append(q, r)
    OBVIOUS
  <2>2. Len(q) \in Nat /\ Len(l) = Len(q) + 1 /\ l[Len(q) + 1] = r /\ \A i \in 1..Len(q) : l[i] = q[i]
    BY <2>1
  <2>3. \A i \in 1..Len(l) : i \in 1..Len(q) \/ i = Len(q) + 1
    BY <2>2
  <2> QED BY <1>1, <1>3, <2>1, <2>2, <2>3
<1>5. game[c].ran \in Nat
  BY RoomStays DEF RoomInv
<1>6. AwayOf(member, game, coming, up)'
  <2>1. SUFFICES ASSUME NEW k \in Client, ~member[k].linked
                 PROVE  coming[k] = None /\ \A i \in 1..Len(up'[k]) : up'[k][i].world = game'[k].world
    BY <1>2 DEF AwayOf
  <2>2. coming[k] = None /\ \A i \in 1..Len(up[k]) : up[k][i].world = game[k].world
    BY <2>1 DEF Behind, AwayOf
  <2>3. CASE k = c
    BY <1>1, <1>2, <1>4, <2>2, <2>3
  <2>4. CASE k # c
    BY <1>2, <2>2, <2>4
  <2> QED BY <2>3, <2>4
<1>7. PastOf(current, game, coming, up)'
  <2>1. SUFFICES ASSUME current # None, NEW k \in Client
                 PROVE  /\ game'[k].world = current.id => game'[k].ran >= current.step
                        /\ coming[k] # None /\ coming[k].id = current.id => coming[k].step = current.step
                        /\ \A i \in 1..Len(up'[k]) : up'[k][i].world = current.id => up'[k][i].step > current.step
    BY <1>2 DEF PastOf
  <2>2. /\ game[k].world = current.id => game[k].ran >= current.step
        /\ coming[k] # None /\ coming[k].id = current.id => coming[k].step = current.step
        /\ \A i \in 1..Len(up[k]) : up[k][i].world = current.id => up[k][i].step > current.step
    BY <2>1 DEF Behind, PastOf
  <2>3. CASE k = c
    <3>1. current.step \in Nat
      BY <2>1 DEF RoomInv, Snapshot
    <3>2. r.world = current.id => r.step > current.step
      BY <1>1, <1>5, <2>2, <2>3, <3>1
    <3>3. game'[c].world = current.id => game'[c].ran >= current.step
      BY <1>2, <1>5, <2>2, <2>3, <3>1
    <3>4. \A i \in 1..Len(up'[c]) : up'[c][i].world = current.id => up'[c][i].step > current.step
      BY <1>4, <2>2, <2>3, <3>2
    <3> QED BY <2>2, <2>3, <3>3, <3>4
  <2>4. CASE k # c
    BY <1>2, <2>2, <2>4
  <2> QED BY <2>3, <2>4
<1> QED BY <1>6, <1>7 DEF Behind

LEMMA TakeBehind == ASSUME RoomInv, Behind, NEW c \in Client, TakeWorld(c) PROVE Behind'
<1>1. /\ coming[c] # None /\ coming[c] \in Snapshot(sealed)
      /\ game'[c].world = coming[c].id /\ game'[c].ran = coming[c].step /\ coming'[c] = None
      /\ \A k \in Client : k # c => game'[k] = game[k] /\ coming'[k] = coming[k]
      /\ current' = current /\ member' = member /\ up' = up
  BY TakesWorld
<1>2. AwayOf(member, game, coming, up)'
  <2>1. SUFFICES ASSUME NEW k \in Client, ~member[k].linked
                 PROVE  coming'[k] = None /\ \A i \in 1..Len(up[k]) : up[k][i].world = game'[k].world
    BY <1>1 DEF AwayOf
  <2>2. coming[k] = None /\ \A i \in 1..Len(up[k]) : up[k][i].world = game[k].world
    BY <2>1 DEF Behind, AwayOf
  <2> QED BY <1>1, <2>2
<1>3. PastOf(current, game, coming, up)'
  <2>1. SUFFICES ASSUME current # None, NEW k \in Client
                 PROVE  /\ game'[k].world = current.id => game'[k].ran >= current.step
                        /\ coming'[k] # None /\ coming'[k].id = current.id => coming'[k].step = current.step
                        /\ \A i \in 1..Len(up[k]) : up[k][i].world = current.id => up[k][i].step > current.step
    BY <1>1 DEF PastOf
  <2>2. /\ game[k].world = current.id => game[k].ran >= current.step
        /\ coming[k] # None /\ coming[k].id = current.id => coming[k].step = current.step
        /\ \A i \in 1..Len(up[k]) : up[k][i].world = current.id => up[k][i].step > current.step
    BY <2>1 DEF Behind, PastOf
  <2>3. CASE k = c
    <3>1. coming[c].step \in Nat
      BY <1>1 DEF Snapshot
    <3> QED BY <1>1, <2>2, <2>3, <3>1
  <2>4. CASE k # c
    BY <1>1, <2>2, <2>4
  <2> QED BY <2>3, <2>4
<1> QED BY <1>2, <1>3 DEF Behind

LEMMA InitBehind == Init => Behind
<1> SUFFICES ASSUME Init PROVE Behind
  OBVIOUS
<1>1. PICK none : none = <<>>
  OBVIOUS
<1>2. 1..Len(none) = {}
  BY <1>1
<1>3. \A c \in Client : coming[c] = None /\ up[c] = none
  BY <1>1 DEF Init
<1>4. AwayOf(member, game, coming, up)
  BY <1>2, <1>3 DEF AwayOf
<1>5. current # None => current.step = 0
  BY DEF Init
<1>6. \A c \in Client : game[c].ran = 0
  BY DEF Init
<1>7. PastOf(current, game, coming, up)
  BY <1>2, <1>3, <1>5, <1>6 DEF PastOf
<1> QED BY <1>4, <1>7 DEF Behind

LEMMA BehindStep == RoomInv /\ Behind /\ [Next]_vars => Behind'
<1> SUFFICES ASSUME RoomInv, Behind, [Next]_vars PROVE Behind'
  OBVIOUS
<1>1. CASE Seal
  BY <1>1 DEF Seal, gameVars, Behind, AwayOf, PastOf
<1>2. CASE ServerRestarts
  BY <1>2, RestartBehind
<1>3. ASSUME NEW s \in Step, Decide(s) PROVE Behind'
  BY <1>3, DecideBehind
<1>4. ASSUME NEW s \in Step, Expire(s) PROVE Behind'
  BY <1>4 DEF Expire, gameVars, Behind, AwayOf, PastOf
<1>5. ASSUME NEW at \in 0..sealed, Promote(at) PROVE Behind'
  BY <1>5, PromoteBehind
<1>6. ASSUME NEW c \in Client,
             \/ Checkpoint(c) \/ Disconnected(c) \/ JoinResuming(c) \/ JoinForWorld(c)
             \/ Run(c) \/ TakeWorld(c)
      PROVE  Behind'
  <2>1. CASE Checkpoint(c)
    BY <2>1, CheckpointBehind
  <2>2. CASE Disconnected(c)
    BY <2>2, DisconnectedBehind
  <2>3. CASE JoinResuming(c)
    <3>1. Joins(c, TRUE, Nothing) /\ Nothing \in Needs /\ Nothing # AnyWorld
      BY <2>3, NeedsTypes DEF JoinResuming
    <3> QED BY <3>1, JoinsBehind
  <2>4. CASE JoinForWorld(c)
    <3>1. Joins(c, FALSE, AnyWorld) /\ AnyWorld \in Needs
      BY <2>4, NeedsTypes DEF JoinForWorld
    <3> QED BY <3>1, JoinsBehind
  <2>5. CASE Run(c)
    BY <2>5, RunBehind
  <2>6. CASE TakeWorld(c)
    BY <2>6, TakeBehind
  <2> QED BY <1>6, <2>1, <2>2, <2>3, <2>4, <2>5, <2>6
<1>7. CASE UNCHANGED vars
  BY <1>7 DEF vars, gameVars, Behind, AwayOf, PastOf
<1> QED BY <1>1, <1>2, <1>3, <1>4, <1>5, <1>6, <1>7 DEF Next

\* Games of one world compute the same digests, and only of one.
LEMMA DigestsTell ==
    ASSUME NEW v \in World \cup {Own}, NEW w \in World \cup {Own}
    PROVE  /\ DigestsOf(w) = [l \in DOMAIN DigestsOf(w) |-> DigestsOf(w)[l]]
           /\ \A l \in DOMAIN DigestsOf(w) : DigestsOf(w)[l] # None
           /\ DigestsOf(v) = DigestsOf(w) => v = w
<1>1. DOMAIN DigestsOf(w) = {"world"} /\ DigestsOf(w)["world"] = <<w>> /\ DigestsOf(v)["world"] = <<v>>
  BY DEF DigestsOf
<1>2. None # <<w>>
  BY ConstantsAssumption
<1>3. DigestsOf(w) = [l \in DOMAIN DigestsOf(w) |-> DigestsOf(w)[l]]
  BY DEF DigestsOf
<1>4. <<v>> = <<w>> => v = w
  OBVIOUS
<1> QED BY <1>1, <1>2, <1>3, <1>4

\* A round of games of one world is decided for its digests, and finds nobody
\* to differ.
LEMMA Unanimous ==
    ASSUME NEW reports \in Seq(Report), reports # <<>>, NEW w \in World \cup {Own},
           \A i \in 1..Len(reports) : reports[i].lanes = DigestsOf(w)
    PROVE  Agreed(reports) = DigestsOf(w) /\ Divergers(reports, DigestsOf(w)) = {}
<1>1. PICK lanes : lanes = DigestsOf(w)
  OBVIOUS
<1>2. lanes = [l \in DOMAIN lanes |-> lanes[l]] /\ \A l \in DOMAIN lanes : lanes[l] # None
  BY <1>1, DigestsTell
<1>3. DOMAIN reports = 1..Len(reports) /\ Len(reports) \in Nat \ {0}
  OBVIOUS
<1>4. PICK majority : majority = DOMAIN reports
  OBVIOUS
<1>5. majority \in SUBSET DOMAIN reports /\ \A i \in majority : reports[i].lanes = lanes
  BY <1>1, <1>3, <1>4
<1>6. IsMajority(reports, majority)
  <2>1. Cardinality(1..Len(reports)) = IF 1 > Len(reports) THEN 0 ELSE Len(reports) - 1 + 1
    BY <1>3, FS_Interval
  <2>2. Cardinality(majority) = Len(reports)
    BY <1>3, <1>4, <2>1
  <2> QED BY <1>3, <2>2 DEF IsMajority
<1>7. /\ Agreed(reports) = lanes
      /\ \A i \in majority : Diverging(reports[i].lanes, Agreed(reports)) = {}
  BY <1>2, <1>5, <1>6, HealthyMajorityDecides
<1>8. Divergers(reports, lanes) = {}
  BY <1>4, <1>7 DEF Divergers
<1> QED BY <1>1, <1>7, <1>8

\* Rounds that are compared alike stay so when some are dropped or one is
\* replaced by such a round.
LEMMA FewerAlike ==
    ASSUME NEW rs, NEW fewer, NEW w, NEW b, RoundsOf(rs, w, b),
           \A s \in Step : fewer[s] \in {None, rs[s]}
    PROVE  RoundsOf(fewer, w, b)
BY DEF RoundsOf

LEMMA ReplacedAlike ==
    ASSUME NEW rs, NEW f, NEW w, NEW b, RoundsOf(rs, w, b), NEW s \in Step,
           Compares(f[s], s, w, b), \A t \in Step : t # s => f[t] = rs[t]
    PROVE  RoundsOf(f, w, b)
<1>1. SUFFICES ASSUME NEW t \in Step, f[t] # None PROVE Compares(f[t], t, w, b)
  BY DEF RoundsOf
<1>2. CASE t = s
  BY <1>2
<1>3. CASE t # s
  BY <1>1, <1>3 DEF RoundsOf
<1> QED BY <1>2, <1>3

\* Once a world is handed out, and what others reported past it forgotten, the
\* rounds compare it.
LEMMA ForgottenAlike ==
    ASSUME NEW n \in Nat, NEW rs, RoundsOK(rs, n), NEW world, world.id \in World,
           world.step \in Nat, NEW w, NEW b, RoundsOf(rs, w, b)
    PROVE  RoundsOf(Forgotten(rs, world), world.id, world.step)
<1>1. PICK f : f = Forgotten(rs, world)
  OBVIOUS
<1>2. PICK v : v = world.id
  OBVIOUS
<1>3. v \in World /\ v # None
  BY <1>2, ConstantsAssumption
<1>4. ASSUME NEW s \in Step, f[s] # None PROVE Compares(f[s], s, v, world.step)
  <2>1. CASE rs[s] = None
    <3>1. f[s] = None
      BY <1>1, <2>1 DEF Forgotten
    <3> QED BY <1>4, <3>1
  <2>2. CASE rs[s] # None
    <3>1. Compares(rs[s], s, w, b)
      BY <2>2 DEF RoundsOf
    <3>2. \A i \in 1..Len(rs[s].reports) :
                rs[s].reports[i].loaded = v => rs[s].reports[i].lanes = DigestsOf(v)
      BY <1>3, <3>1 DEF Compares
    <3>3. \/ f[s] = rs[s]
             /\ (s > world.step => \A i \in 1..Len(rs[s].reports) : rs[s].reports[i].loaded = v)
          \/ f[s] = rs[s] /\ s <= world.step
          \/ f[s] = None
          \/ /\ RoundOK(f[s]) /\ f[s].verdict = None
             /\ \A i \in 1..Len(f[s].reports) :
                   /\ f[s].reports[i].loaded = v
                   /\ \E j \in 1..Len(rs[s].reports) : f[s].reports[i] = rs[s].reports[j]
      BY <1>1, <1>2, <2>2, ForgottenOf
    <3>4. CASE f[s] = rs[s] /\ (s > world.step => \A i \in 1..Len(rs[s].reports) : rs[s].reports[i].loaded = v)
      BY <3>1, <3>2, <3>4 DEF Compares
    <3>5. CASE f[s] = rs[s] /\ s <= world.step
      <4>1. ~(s > world.step)
        BY <3>5 DEF Step
      <4> QED BY <3>1, <3>5, <4>1 DEF Compares
    <3>6. CASE /\ f[s].verdict = None
               /\ \A i \in 1..Len(f[s].reports) :
                   /\ f[s].reports[i].loaded = v
                   /\ \E j \in 1..Len(rs[s].reports) : f[s].reports[i] = rs[s].reports[j]
      <4>1. \A i \in 1..Len(f[s].reports) : f[s].reports[i].loaded = v /\ f[s].reports[i].lanes = DigestsOf(v)
        BY <3>2, <3>6
      <4>2. OfOneWorld(f[s])
        BY <1>3, <3>6, <4>1 DEF OfOneWorld
      <4> QED BY <4>1, <4>2 DEF Compares
    <3> QED BY <1>4, <3>3, <3>4, <3>5, <3>6
  <2> QED BY <2>1, <2>2
<1> QED BY <1>1, <1>2, <1>4 DEF RoundsOf

\* A member that an offer feeds compares the world offered.
LEMMA FedAlike ==
    ASSUME NEW m, NEW after, NEW was, NEW way, NEW sent, NEW left, NEW world,
           Fed(m, after, was, way, sent, left, world), world # None, world.id \in World,
           NEW g, NEW w, NEW b, NEW loaded, loaded \in {None, w},
           PlaysOne(m, g, was, sent, w, b, loaded),
           g.world = world.id => g.ran >= world.step,
           way # None /\ way.id = world.id => way.step = world.step,
           \A i \in 1..Len(left) : left[i].world = world.id => left[i].step > world.step
    PROVE  PlaysOne(after, g, way, left, world.id, world.step, world.id)
<1>1. PICK v : v = world.id
  OBVIOUS
<1>2. v # None
  BY <1>1, ConstantsAssumption
<1>3. Nothing # AnyWorld
  BY NeedsTypes
<1>4. CASE Given(m, after, way, sent, left, world)
  <2>1. after.loaded = v /\ way.id = v /\ way.step = world.step
    BY <1>1, <1>4 DEF Given
  <2> QED BY <1>1, <1>2, <2>1 DEF PlaysOne
<1>5. CASE Owed(m, after, was, way, sent, left)
  <2>1. after.needs = AnyWorld
    BY <1>5 DEF Owed
  <2> QED BY <2>1 DEF PlaysOne
<1>6. CASE Rests(m, after, was, way, sent, left, world)
  <2>1. after = m /\ way = was /\ m.loaded = v
    BY <1>1, <1>6 DEF Rests
  <2>2. SUFFICES ASSUME m.needs # AnyWorld
                 PROVE  PlaysOne(after, g, way, left, world.id, world.step, world.id)
    BY <2>1 DEF PlaysOne
  <2>3. m.loaded = loaded /\ (was # None => was.id = w)
    BY <2>2 DEF PlaysOne
  <2>4. w = v
    BY <1>2, <2>1, <2>3
  <2> QED BY <1>1, <1>2, <2>1, <2>3, <2>4 DEF PlaysOne
<1> QED BY <1>4, <1>5, <1>6 DEF Fed

\* An offer leaves the room comparing one world.
LEMMA OfferAlike ==
    ASSUME NEW members, \A c \in Client : MemberOK(members[c]),
           NEW n \in Nat, NEW rs, RoundsOK(rs, n), NEW sent,
           NEW world, world # None => world.id \in World /\ world.step \in Nat,
           Offer(members, rs, sent, world), NEW g, PastOf(world, g, coming, sent),
           SentOf(sent), NEW w, NEW b, NEW loaded,
           OneWorld(members, g, coming, sent, rs, w, b, loaded)
    PROVE  Alike(member', g, coming', up', rounds')
<1>1. PICK m2 : m2 = member'
  OBVIOUS
<1>2. PICK co1 : co1 = coming
  OBVIOUS
<1>3. PICK co2 : co2 = coming'
  OBVIOUS
<1>4. PICK q2 : q2 = up'
  OBVIOUS
<1>5. PICK rs2 : rs2 = rounds'
  OBVIOUS
<1>6. Part(q2, sent) /\ PastOf(world, g, co2, q2)
  BY <1>2, <1>3, <1>4, OfferPast
<1>7. SentOf(q2)
  BY <1>6, PartKeeps
<1>8. /\ w \in World \cup {Own} /\ b \in Nat /\ loaded \in WorldOrNone /\ loaded \in {None, w}
      /\ RoundsOf(rs, w, b)
      /\ \A c \in Client : PlaysOne(members[c], g[c], co1[c], sent[c], w, b, loaded)
  BY <1>2 DEF OneWorld
<1>9. CASE rs2 = rs /\ \A c \in Client : m2[c] = members[c] /\ co2[c] = co1[c] /\ q2[c] = sent[c]
  <2>1. OneWorld(m2, g, co2, q2, rs2, w, b, loaded)
    BY <1>8, <1>9 DEF OneWorld
  <2> QED BY <1>1, <1>3, <1>4, <1>5, <1>7, <2>1 DEF Alike
<1>10. CASE /\ world # None /\ rs2 = Forgotten(rs, world)
            /\ \A c \in Client : Fed(members[c], m2[c], co1[c], co2[c], sent[c], q2[c], world)
  <2>1. world.id \in World /\ world.step \in Nat
    BY <1>10
  <2>2. RoundsOf(rs2, world.id, world.step)
    <3>1. RoundsOf(Forgotten(rs, world), world.id, world.step)
      BY <1>8, <2>1, ForgottenAlike
    <3> QED BY <1>10, <3>1
  <2>3. ASSUME NEW c \in Client
        PROVE  PlaysOne(m2[c], g[c], co2[c], q2[c], world.id, world.step, world.id)
    <3>1. PICK a, m, was, way, left, now, s : /\ a = g[c] /\ m = members[c] /\ was = co1[c] /\ way = co2[c]
                                          /\ left = q2[c] /\ now = m2[c] /\ s = sent[c]
      OBVIOUS
    <3>2. Fed(m, now, was, way, s, left, world) /\ PlaysOne(m, a, was, s, w, b, loaded)
      BY <1>8, <1>10, <3>1
    <3>3. /\ a.world = world.id => a.ran >= world.step
          /\ way # None /\ way.id = world.id => way.step = world.step
          /\ \A i \in 1..Len(left) : left[i].world = world.id => left[i].step > world.step
      BY <1>6, <1>10, <3>1 DEF PastOf
    <3>4. PlaysOne(now, a, way, left, world.id, world.step, world.id)
      BY <1>8, <1>10, <2>1, <3>2, <3>3, FedAlike
    <3> QED BY <3>1, <3>4
  <2>4. OneWorld(m2, g, co2, q2, rs2, world.id, world.step, world.id)
    BY <2>1, <2>2, <2>3 DEF OneWorld, WorldOrNone
  <2> QED BY <1>1, <1>3, <1>4, <1>5, <1>7, <2>4 DEF Alike
<1>11. \/ rs2 = rs /\ \A c \in Client : m2[c] = members[c] /\ co2[c] = co1[c] /\ q2[c] = sent[c]
       \/ /\ world # None /\ rs2 = Forgotten(rs, world)
          /\ \A c \in Client : Fed(members[c], m2[c], co1[c], co2[c], sent[c], q2[c], world)
  BY <1>1, <1>2, <1>3, <1>4, <1>5, OfferFeeds
<1> QED BY <1>9, <1>10, <1>11

\* A report taken while all are of one world is of it, and so is its round: the
\* verdict is its digests, and nobody is told.
LEMMA TakenAlike ==
    ASSUME RoomInv, NEW c \in Client, up[c] # <<>>, NEW s \in Step,
           NEW before, NEW reports, NEW v, NEW diverged,
           Enters(c, s, before, reports, v, diverged),
           member[c].streaming, member[c].loaded \in {None, Head(up[c]).world},
           SentOf(up), NEW w, NEW b, NEW loaded,
           OneWorld(member, game, coming, up, rounds, w, b, loaded)
    PROVE  diverged = {} /\ Compares(With(reports, v), s, w, b)
<1>1. PICK q \in Seq(Sent(sealed)) : q = up[c]
  BY DEF RoomInv, QueuesOK
<1>2. PICK r : r = Head(up[c])
  OBVIOUS
<1>3. 1 \in 1..Len(q) /\ q[1] = r
  BY <1>1, <1>2
<1>4. w \in World \cup {Own} /\ b \in Nat /\ loaded \in {None, w} /\ RoundsOf(rounds, w, b)
      /\ PlaysOne(member[c], game[c], coming[c], q, w, b, loaded)
  BY <1>1 DEF OneWorld
<1>5. member[c].needs # AnyWorld
  BY DEF RoomInv, MemberOK
<1>6. r.lanes = DigestsOf(r.world)
  BY <1>1, <1>3 DEF SentOf
<1>7. r.world = w
  <2>1. CASE loaded = None
    BY <1>3, <1>4, <1>5, <2>1 DEF PlaysOne
  <2>2. CASE loaded # None
    <3>1. member[c].loaded = loaded
      BY <1>4, <1>5 DEF PlaysOne
    <3> QED BY <1>2, <1>4, <2>2, <3>1
  <2> QED BY <2>1, <2>2
<1>8. r.step = s /\ s > b
  <2>1. r.step = s
    BY <1>2 DEF Enters
  <2> QED BY <1>3, <1>4, <1>5, <1>7, <2>1, SMTT(30) DEF PlaysOne
<1>9. PICK old : old = before.reports
  BY SMTT(30)
<1>10. before = With(old, before.verdict) /\ old \in Seq(Report) /\ before = Before0(s)
  BY <1>9, Before0OK DEF Enters
<1>11. /\ \A i \in 1..Len(old) : /\ old[i].lanes = DigestsOf(w)
                                 /\ old[i].loaded # None => old[i].lanes = DigestsOf(old[i].loaded)
       /\ before.verdict \in {None, DigestsOf(w)}
  <2>1. CASE rounds[s] = None
    <3>1. before = With(<<>>, None)
      BY <1>10, <2>1 DEF Before0, With
    <3>2. before.verdict = None /\ old = <<>>
      BY <1>9, <3>1, WithFields
    <3> QED BY <3>2
  <2>2. CASE rounds[s] # None
    <3>1. before = rounds[s] /\ Compares(before, s, w, b) /\ RoundOK(before)
      BY <1>4, <1>10, <2>2 DEF Before0, RoundsOf, RoomInv, RoundsOK
    <3>2. \A i \in 1..Len(old) : /\ old[i].lanes = DigestsOf(w)
                                 /\ old[i].loaded # None => old[i].lanes = DigestsOf(old[i].loaded)
      BY <1>8, <1>9, <3>1 DEF Compares
    <3>3. PICK w1 \in World \cup {Own} : /\ \A i \in 1..Len(old) : old[i].lanes = DigestsOf(w1)
                                         /\ before.verdict \in {None, DigestsOf(w1)}
      BY <1>9, <3>1 DEF Compares, OfOneWorld
    <3>4. old # <<>>
      BY <1>9, <3>1 DEF RoundOK
    <3>5. 1 \in 1..Len(old)
      BY <1>10, <3>4
    <3>6. DigestsOf(w1) = DigestsOf(w)
      BY <3>2, <3>3, <3>5
    <3> QED BY <3>2, <3>3, <3>6
  <2> QED BY <2>1, <2>2
<1>12. PICK noted \in Report : noted = Noted(c, r)
  BY <1>2, NotedOK
<1>13. noted.lanes = DigestsOf(w) /\ (noted.loaded # None => noted.lanes = DigestsOf(noted.loaded))
  <2>1. noted.lanes = r.lanes /\ noted.loaded = member[c].loaded
    BY <1>2, <1>12, NotedOK
  <2>2. noted.loaded \in {None, w}
    BY <1>2, <1>7, <2>1
  <2> QED BY <1>6, <1>7, <2>1, <2>2
<1>14. reports = Append(old, noted)
  BY <1>2, <1>9, <1>12 DEF Enters
<1>15. reports \in Seq(Report) /\ reports # <<>>
       /\ \A i \in 1..Len(reports) : reports[i] = noted \/ \E j \in 1..Len(old) : reports[i] = old[j]
  <2>1. /\ reports \in Seq(Report) /\ Len(old) \in Nat /\ Len(reports) = Len(old) + 1
        /\ reports[Len(old) + 1] = noted /\ \A j \in 1..Len(old) : reports[j] = old[j]
    BY <1>10, <1>12, <1>14
  <2>2. \A i \in 1..Len(reports) : i = Len(old) + 1 \/ i \in 1..Len(old)
    BY <2>1
  <2> QED BY <2>1, <2>2
<1>16. \A i \in 1..Len(reports) : reports[i].lanes = DigestsOf(w)
            /\ (reports[i].loaded # None => reports[i].lanes = DigestsOf(reports[i].loaded))
  BY <1>11, <1>13, <1>15
<1>17. Agreed(reports) = DigestsOf(w) /\ Divergers(reports, DigestsOf(w)) = {}
  BY <1>4, <1>15, <1>16, Unanimous
<1>18. v \in {None, DigestsOf(w)} /\ diverged = {}
  <2>1. Rules(c, before, reports, v, diverged)
    BY DEF Enters
  <2> QED BY <1>11, <1>17, <2>1, SMTT(30) DEF Rules
<1>19. PICK round : round = With(reports, v)
  OBVIOUS
<1>20. round.reports = reports /\ round.verdict = v
  BY <1>19, WithFields
<1>21. OfOneWorld(round)
  BY <1>4, <1>16, <1>18, <1>20 DEF OfOneWorld
<1>22. Compares(round, s, w, b)
  BY <1>16, <1>20, <1>21 DEF Compares
<1> QED BY <1>18, <1>19, <1>22

\* Where nobody is told, only rounds may go.
LEMMA SilentAlike ==
    ASSUME NEW after, NEW s, NEW sent, Spreads(after, {}, s, sent), SentOf(sent),
           NEW w, NEW b, NEW loaded, OneWorld(member, game, coming, sent, rounds, w, b, loaded),
           RoundsOf(after, w, b)
    PROVE  told' = told /\ Alike(member', game, coming', up', rounds')
<1>1. PICK p : p = Pruned(after)
  OBVIOUS
<1>2. rounds' = p /\ up' = sent /\ member' = member /\ coming' = coming /\ told' = told
  BY <1>1 DEF Spreads
<1>3. \A t \in Step : p[t] \in {None, after[t]}
  BY <1>1 DEF Pruned
<1>4. RoundsOf(p, w, b)
  BY <1>3, FewerAlike
<1>5. OneWorld(member, game, coming, sent, p, w, b, loaded)
  BY <1>4 DEF OneWorld
<1> QED BY <1>2, <1>5 DEF Alike

\* Reports that are read are of one world still.
LEMMA PartAlike ==
    ASSUME NEW q1, NEW q2, Part(q2, q1), SentOf(q1), NEW w, NEW b, NEW loaded,
           OneWorld(member, game, coming, q1, rounds, w, b, loaded)
    PROVE  SentOf(q2) /\ OneWorld(member, game, coming, q2, rounds, w, b, loaded)
<1>1. SentOf(q2)
  BY PartKeeps
<1>2. ASSUME NEW c \in Client PROVE PlaysOne(member[c], game[c], coming[c], q2[c], w, b, loaded)
  <2>1. PICK m, g, way : m = member[c] /\ g = game[c] /\ way = coming[c]
    OBVIOUS
  <2>2. PlaysOne(m, g, way, q1[c], w, b, loaded)
    BY <2>1 DEF OneWorld
  <2>3. PlaysOne(m, g, way, q2[c], w, b, loaded)
    BY <2>2, PartKeeps
  <2> QED BY <2>1, <2>3
<1> QED BY <1>1, <1>2 DEF OneWorld

\* What all compare, where the invariant says that they do.
LEMMA AlikeNow ==
    ASSUME AlikeInv, Faulty = {}, ~apart
    PROVE  /\ told = {} /\ SentOf(up)
           /\ \E w, b, loaded : OneWorld(member, game, coming, up, rounds, w, b, loaded)
BY DEF AlikeInv, Alike

LEMMA AlikeNext ==
    ASSUME Faulty = {} /\ ~apart' => told' = {} /\ Alike(member', game', coming', up', rounds')
    PROVE  AlikeInv'
BY DEF AlikeInv

LEMMA CheckpointAlike ==
    ASSUME RoomInv, AlikeInv, NEW c \in Client, Checkpoint(c)
    PROVE  AlikeInv'
<1> SUFFICES ASSUME Faulty = {}, ~apart'
             PROVE  told' = {} /\ Alike(member', game', coming', up', rounds')
  BY AlikeNext
<1>1. up[c] # <<>> /\ game' = game
  BY CheckpointTakes
<1>2. PICK left : left = Read(c)
  OBVIOUS
<1>3. Part(left, up)
  BY <1>1, <1>2, ReadPart
<1>4. CASE up' = Read(c) /\ UNCHANGED <<roundVars, member, coming, told, apart>>
  <2>1. /\ up' = left /\ rounds' = rounds /\ member' = member /\ coming' = coming
        /\ told' = told /\ ~apart
    BY <1>2, <1>4 DEF roundVars
  <2>2. PICK w, b, loaded : OneWorld(member, game, coming, up, rounds, w, b, loaded)
    BY <2>1, AlikeNow
  <2>3. told = {} /\ SentOf(up)
    BY <2>1, AlikeNow
  <2>4. SentOf(left) /\ OneWorld(member, game, coming, left, rounds, w, b, loaded)
    <3>1. PICK q : q = up
      OBVIOUS
    <3> QED BY <1>3, <2>2, <2>3, <3>1, PartAlike
  <2> QED BY <1>1, <2>1, <2>3, <2>4 DEF Alike
<1>5. CASE \E s \in Step : \E before, reports, v, diverged : Enters(c, s, before, reports, v, diverged)
  <2>1. PICK s \in Step : \E before, reports, v, diverged : Enters(c, s, before, reports, v, diverged)
    BY <1>5
  <2>2. PICK before, reports, v, diverged : Enters(c, s, before, reports, v, diverged)
    BY <2>1, SMTT(30)
  <2>3. ~apart /\ member[c].streaming /\ member[c].loaded \in {None, Head(up[c]).world}
    BY <2>2 DEF Enters
  <2>4. PICK w, b, loaded : OneWorld(member, game, coming, up, rounds, w, b, loaded)
    BY <2>3, AlikeNow
  <2>5. told = {} /\ SentOf(up)
    BY <2>3, AlikeNow
  <2>6. diverged = {} /\ Compares(With(reports, v), s, w, b)
    BY <1>1, <2>2, <2>3, <2>4, <2>5, TakenAlike
  <2>7. PICK after : after = [rounds EXCEPT ![s] = With(reports, v)]
    OBVIOUS
  <2>8. RoundsOf(after, w, b)
    <3>1. RoundsOf(rounds, w, b) /\ DOMAIN rounds = Step
      BY <2>4 DEF OneWorld, RoomInv, RoundsOK
    <3>2. PICK rs : rs = rounds
      OBVIOUS
    <3>3. after[s] = With(reports, v) /\ \A t \in Step : t # s => after[t] = rs[t]
      BY <2>7, <3>1, <3>2, SMTT(30)
    <3> QED BY <2>6, <3>1, <3>2, <3>3, ReplacedAlike
  <2>9. Spreads(after, {}, s, left)
    BY <1>2, <2>2, <2>6, <2>7 DEF Enters
  <2>10. SentOf(left) /\ OneWorld(member, game, coming, left, rounds, w, b, loaded)
    <3>1. PICK q : q = up
      OBVIOUS
    <3> QED BY <1>3, <2>4, <2>5, <3>1, PartAlike
  <2>11. told' = told /\ Alike(member', game, coming', up', rounds')
    BY <2>8, <2>9, <2>10, SilentAlike
  <2> QED BY <1>1, <2>5, <2>11
<1> QED BY <1>4, <1>5, CheckpointTakes

LEMMA DecideAlike == ASSUME RoomInv, AlikeInv, NEW s \in Step, Decide(s) PROVE AlikeInv'
<1> SUFFICES ASSUME Faulty = {}, ~apart'
             PROVE  told' = {} /\ Alike(member', game', coming', up', rounds')
  BY AlikeNext
<1>1. PICK reports : reports = rounds[s].reports
  OBVIOUS
<1>2. PICK v : v = Agreed(reports)
  OBVIOUS
<1>3. PICK after : after = [rounds EXCEPT ![s] = With(reports, v)]
  OBVIOUS
<1>4. PICK diverged : diverged = Divergers(reports, v)
  OBVIOUS
<1>5. PICK sent : sent = up
  OBVIOUS
<1>6. game' = game /\ ~apart /\ rounds[s] # None /\ Spreads(after, diverged, s, sent)
  BY <1>1, <1>2, <1>3, <1>4, <1>5, DecideOK
<1>7. PICK w, b, loaded : OneWorld(member, game, coming, sent, rounds, w, b, loaded)
  BY <1>5, <1>6, AlikeNow
<1>8. told = {} /\ SentOf(sent)
  BY <1>5, <1>6, AlikeNow
<1>9. RoundsOf(rounds, w, b) /\ Compares(rounds[s], s, w, b)
  BY <1>6, <1>7 DEF OneWorld, RoundsOf
<1>10. RoundOK(rounds[s]) /\ DOMAIN rounds = Step
  BY <1>6 DEF RoomInv, RoundsOK
<1>11. reports \in Seq(Report) /\ reports # <<>>
  BY <1>1, <1>10 DEF RoundOK
<1>12. PICK w1 \in World \cup {Own} : \A i \in 1..Len(reports) : reports[i].lanes = DigestsOf(w1)
  BY <1>1, <1>9 DEF Compares, OfOneWorld
<1>13. v = DigestsOf(w1) /\ diverged = {}
  <2>1. Agreed(reports) = DigestsOf(w1) /\ Divergers(reports, DigestsOf(w1)) = {}
    BY <1>11, <1>12, Unanimous
  <2> QED BY <1>2, <1>4, <2>1
<1>14. PICK round : round = With(reports, v)
  OBVIOUS
<1>15. round.reports = reports /\ round.verdict = v
  BY <1>14, WithFields
<1>16. Compares(round, s, w, b)
  <2>1. OfOneWorld(round)
    BY <1>12, <1>13, <1>15 DEF OfOneWorld
  <2> QED BY <1>1, <1>9, <1>15, <2>1 DEF Compares
<1>17. RoundsOf(after, w, b)
  <2>1. PICK rs : rs = rounds
    OBVIOUS
  <2>2. after[s] = round /\ \A t \in Step : t # s => after[t] = rs[t]
    BY <1>3, <1>10, <1>14, <2>1
  <2> QED BY <1>9, <1>16, <2>1, <2>2, ReplacedAlike
<1>18. Spreads(after, {}, s, sent)
  BY <1>6, <1>13
<1>19. told' = told /\ Alike(member', game, coming', up', rounds')
  BY <1>7, <1>8, <1>17, <1>18, SilentAlike
<1> QED BY <1>6, <1>8, <1>19

LEMMA PromoteAlike ==
    ASSUME RoomInv, AlikeInv, NEW at \in 0..sealed, Promote(at)
    PROVE  AlikeInv'
<1> SUFFICES ASSUME Faulty = {}, ~apart'
             PROVE  told' = {} /\ Alike(member', game', coming', up', rounds')
  BY AlikeNext
<1>1. Offer(member, rounds, up, current') /\ game' = game /\ told' = told /\ ~apart
  BY DEF Promote
<1>2. PICK id \in Unused : current' = [id |-> id, step |-> at]
  BY DEF Promote
<1>3. PICK world : world = [id |-> id, step |-> at]
  OBVIOUS
<1>4. PICK members : members = member
  OBVIOUS
<1>5. PICK rs : rs = rounds
  OBVIOUS
<1>6. PICK sent : sent = up
  OBVIOUS
<1>7. PICK g : g = game
  OBVIOUS
<1>8. Offer(members, rs, sent, world)
  BY <1>1, <1>2, <1>3, <1>4, <1>5, <1>6
<1>9. world.id \in World /\ world.step \in Nat
  BY <1>3, ConstantsAssumption DEF Unused, RoomInv
<1>10. (\A c \in Client : MemberOK(members[c])) /\ RoundsOK(rs, sealed) /\ sealed \in Nat
  BY <1>4, <1>5, ConstantsAssumption DEF RoomInv
<1>11. PICK n \in Nat : n = sealed
  BY <1>10
<1>12. PastOf(world, g, coming, sent)
  BY <1>3, <1>6, <1>7, UnusedPast
<1>13. told = {} /\ SentOf(sent)
  BY <1>1, <1>6, AlikeNow
<1>14. PICK w, b, loaded : OneWorld(members, g, coming, sent, rs, w, b, loaded)
  BY <1>1, <1>4, <1>5, <1>6, <1>7, AlikeNow
<1>15. Alike(member', g, coming', up', rounds')
  <2>1. RoundsOK(rs, n)
    BY <1>10, <1>11
  <2> QED BY <1>8, <1>9, <1>10, <1>12, <1>13, <1>14, <2>1, OfferAlike
<1> QED BY <1>1, <1>7, <1>13, <1>15

LEMMA JoinsAlike ==
    ASSUME RoomInv, Behind, AlikeInv, NEW c \in Client, NEW streaming \in BOOLEAN,
           NEW needs \in Needs, needs = AnyWorld => streaming = FALSE,
           needs = AnyWorld \/ member[c].needs # AnyWorld, Joins(c, streaming, needs)
    PROVE  AlikeInv'
<1> SUFFICES ASSUME Faulty = {}, ~apart'
             PROVE  told' = {} /\ Alike(member', game', coming', up', rounds')
  BY AlikeNext
<1>1. game' = game /\ told' = told /\ ~apart
  BY JoinedMembers DEF historyVars
<1>2. PICK members : Backs(members, c, needs) /\ Offer(members, rounds, up, current)
  BY JoinedMembers
<1>3. PICK world : world = current
  OBVIOUS
<1>4. PICK rs : rs = rounds
  OBVIOUS
<1>5. PICK sent : sent = up
  OBVIOUS
<1>6. PICK g : g = game
  OBVIOUS
<1>7. world # None => world.id \in World /\ world.step \in Nat
  BY <1>3, ConstantsAssumption DEF RoomInv, Snapshot
<1>8. Offer(members, rs, sent, world)
  BY <1>2, <1>3, <1>4, <1>5
<1>9. RoundsOK(rs, sealed) /\ sealed \in Nat
  BY <1>4, ConstantsAssumption DEF RoomInv
<1>10. PICK n \in Nat : n = sealed
  BY <1>9
<1>11. PastOf(world, g, coming, sent)
  BY <1>3, <1>5, <1>6 DEF Behind
<1>12. told = {} /\ SentOf(sent)
  BY <1>1, <1>5, AlikeNow
<1>13. PICK w, b, loaded : OneWorld(member, g, coming, sent, rs, w, b, loaded)
  BY <1>1, <1>4, <1>5, <1>6, AlikeNow
<1>14. ASSUME NEW k \in Client
       PROVE  PlaysOne(members[k], g[k], coming[k], sent[k], w, b, loaded)
  <2>1. PlaysOne(member[k], g[k], coming[k], sent[k], w, b, loaded)
    BY <1>13 DEF OneWorld
  <2>2. \/ members[k].needs = AnyWorld
        \/ member[k].needs # AnyWorld /\ members[k].loaded = member[k].loaded
    <3>1. CASE k = c
      BY <1>2, <3>1 DEF Backs
    <3>2. CASE k # c
      BY <1>2, <3>2 DEF Backs
    <3> QED BY <3>1, <3>2
  <2> QED BY <2>1, <2>2 DEF PlaysOne
<1>15. OneWorld(members, g, coming, sent, rs, w, b, loaded)
  BY <1>13, <1>14 DEF OneWorld
<1>16. Alike(member', g, coming', up', rounds')
  <2>1. RoundsOK(rs, n)
    BY <1>9, <1>10
  <2>2. \A k \in Client : MemberOK(members[k])
    BY <1>2 DEF Backs
  <2> QED BY <1>7, <1>8, <1>11, <1>12, <1>15, <2>1, <2>2, OfferAlike
<1> QED BY <1>1, <1>6, <1>12, <1>16

\* A restart that forgets of nobody that a world is owed: all play one.
LEMMA RestartAlike == ASSUME RoomInv, Behind, AlikeInv, ServerRestarts PROVE AlikeInv'
<1> SUFFICES ASSUME Faulty = {}, ~apart'
             PROVE  told' = {} /\ Alike(member', game', coming', up', rounds')
  BY AlikeNext
<1>1. /\ rounds' = [s \in Step |-> None] /\ coming' = [c \in Client |-> None]
      /\ up' = [c \in Client |-> IF member[c].linked THEN <<>> ELSE up[c]]
      /\ game' = game /\ told' = told /\ ~apart
      /\ \A c \in Client : member[c].needs # AnyWorld
                           /\ member[c].loaded \in {None, game[c].world}
  BY DEF ServerRestarts
<1>2. \A c \in Client : member'[c].loaded = None
  <2>1. PICK away : away = [Member(Nothing, None) EXCEPT !.linked = FALSE, !.streaming = FALSE]
    OBVIOUS
  <2>2. away.loaded = None
    BY <2>1 DEF Member
  <2>3. member' = [c \in Client |-> away]
    BY <2>1 DEF ServerRestarts
  <2> QED BY <2>2, <2>3
<1>3. PICK w, b, loaded : OneWorld(member, game, coming, up, rounds, w, b, loaded)
  BY <1>1, AlikeNow
<1>4. told = {} /\ SentOf(up)
  BY <1>1, AlikeNow
<1>5. PICK none : none = <<>>
  OBVIOUS
<1>6. 1..Len(none) = {} /\ \A c \in Client : up'[c] = IF member[c].linked THEN none ELSE up[c]
  BY <1>1, <1>5
<1>7. SentOf(up')
  BY <1>4, <1>6 DEF SentOf
<1>8. ASSUME NEW c \in Client
      PROVE  PlaysOne(member'[c], game[c], coming'[c], up'[c], w, b, None)
  <2>1. PlaysOne(member[c], game[c], coming[c], up[c], w, b, loaded) /\ loaded \in {None, w}
    BY <1>3 DEF OneWorld
  <2>2. game[c].world = w
    BY <1>1, <2>1 DEF PlaysOne
  <2>3. game[c].ran >= b
    BY <1>1, <2>1, <2>2 DEF PlaysOne
  <2>4. \A i \in 1..Len(up'[c]) : up'[c][i].world = w /\ up'[c][i].step > b
    <3>1. CASE member[c].linked
      BY <1>6, <3>1
    <3>2. CASE ~member[c].linked
      <4>1. up'[c] = up[c] /\ \A i \in 1..Len(up[c]) : up[c][i].world = game[c].world
        BY <1>6, <3>2 DEF Behind, AwayOf
      <4> QED BY <1>1, <2>1, <2>2, <4>1 DEF PlaysOne
    <3> QED BY <3>1, <3>2
  <2>5. coming'[c] = None
    BY <1>1
  <2> QED BY <1>2, <2>2, <2>3, <2>4, <2>5 DEF PlaysOne
<1>9. RoundsOf(rounds', w, b)
  BY <1>1 DEF RoundsOf
<1>10. OneWorld(member', game, coming', up', rounds', w, b, None)
  BY <1>3, <1>8, <1>9 DEF OneWorld, WorldOrNone
<1> QED BY <1>1, <1>4, <1>7, <1>10 DEF Alike

LEMMA DisconnectedAlike ==
    ASSUME RoomInv, AlikeInv, NEW c \in Client, Disconnected(c)
    PROVE  AlikeInv'
<1> SUFFICES ASSUME Faulty = {}, ~apart'
             PROVE  told' = {} /\ Alike(member', game', coming', up', rounds')
  BY AlikeNext
<1>1. /\ coming' = [coming EXCEPT ![c] = None] /\ up' = [up EXCEPT ![c] = <<>>]
      /\ rounds' = rounds /\ game' = game /\ told' = told /\ ~apart
  BY DEF Disconnected, roundVars, historyVars
<1>2. PICK none : none = <<>>
  OBVIOUS
<1>3. 1..Len(none) = {}
  BY <1>2
<1>4. \A k \in Client : /\ coming'[k] = IF k = c THEN None ELSE coming[k]
                        /\ up'[k] = IF k = c THEN none ELSE up[k]
  BY <1>1, <1>2 DEF RoomInv, QueuesOK
<1>5. \A k \in Client : member'[k].needs = member[k].needs /\ member'[k].loaded = member[k].loaded
  BY DisconnectedMember
<1>6. PICK w, b, loaded : OneWorld(member, game, coming, up, rounds, w, b, loaded)
  BY <1>1, AlikeNow
<1>7. told = {} /\ SentOf(up)
  BY <1>1, AlikeNow
<1>8. SentOf(up')
  BY <1>3, <1>4, <1>7 DEF SentOf
<1>9. ASSUME NEW k \in Client
      PROVE  PlaysOne(member'[k], game[k], coming'[k], up'[k], w, b, loaded)
  <2>1. PlaysOne(member[k], game[k], coming[k], up[k], w, b, loaded)
    BY <1>6 DEF OneWorld
  <2>2. CASE k = c
    BY <1>3, <1>4, <1>5, <2>1, <2>2 DEF PlaysOne
  <2>3. CASE k # c
    <3>1. coming'[k] = coming[k] /\ up'[k] = up[k]
      BY <1>4, <2>3
    <3> QED BY <1>5, <2>1, <3>1 DEF PlaysOne
  <2> QED BY <2>2, <2>3
<1>10. OneWorld(member', game, coming', up', rounds, w, b, loaded)
  BY <1>6, <1>9 DEF OneWorld
<1> QED BY <1>1, <1>7, <1>8, <1>10 DEF Alike

LEMMA RunAlike == ASSUME RoomInv, AlikeInv, NEW c \in Client, Run(c) PROVE AlikeInv'
<1> SUFFICES ASSUME Faulty = {}, ~apart'
             PROVE  told' = {} /\ Alike(member', game', coming', up', rounds')
  BY AlikeNext
<1>1. PICK r \in Sent(sealed) :
        /\ up'[c] = Append(up[c], r) /\ r.step = game[c].ran + 1
        /\ r.world = game[c].world /\ r.lanes = Digests(c, game[c].world)
  BY RunSends
<1>2. /\ game'[c].world = game[c].world /\ game'[c].ran = game[c].ran + 1
      /\ \A k \in Client : k # c => game'[k] = game[k] /\ up'[k] = up[k]
      /\ rounds' = rounds /\ member' = member /\ coming' = coming /\ told' = told /\ ~apart
  BY RunSends DEF roundVars, historyVars
<1>3. PICK q \in Seq(Sent(sealed)) : q = up[c]
  BY DEF RoomInv, QueuesOK
<1>4. \A i \in 1..Len(up'[c]) : (i \in 1..Len(up[c]) /\ up'[c][i] = up[c][i]) \/ up'[c][i] = r
  <2>1. PICK l : l = Append(q, r)
    OBVIOUS
  <2>2. Len(q) \in Nat /\ Len(l) = Len(q) + 1 /\ l[Len(q) + 1] = r /\ \A i \in 1..Len(q) : l[i] = q[i]
    BY <2>1
  <2>3. \A i \in 1..Len(l) : i \in 1..Len(q) \/ i = Len(q) + 1
    BY <2>2
  <2> QED BY <1>1, <1>3, <2>1, <2>2, <2>3
<1>5. r.lanes = DigestsOf(r.world)
  BY <1>1 DEF Digests, DigestsOf
<1>6. PICK w, b, loaded : OneWorld(member, game, coming, up, rounds, w, b, loaded)
  BY <1>2, AlikeNow
<1>7. told = {} /\ SentOf(up)
  BY <1>2, AlikeNow
<1>8. SentOf(up')
  <2>1. ASSUME NEW k \in Client PROVE \A i \in 1..Len(up'[k]) : up'[k][i].lanes = DigestsOf(up'[k][i].world)
    <3>1. \A i \in 1..Len(up[k]) : up[k][i].lanes = DigestsOf(up[k][i].world)
      BY <1>7 DEF SentOf
    <3>2. CASE k = c
      BY <1>4, <1>5, <3>1, <3>2
    <3>3. CASE k # c
      BY <1>2, <3>1, <3>3
    <3> QED BY <3>2, <3>3
  <2> QED BY <2>1 DEF SentOf
<1>9. ASSUME NEW k \in Client
      PROVE  PlaysOne(member[k], game'[k], coming[k], up'[k], w, b, loaded)
  <2>1. PlaysOne(member[k], game[k], coming[k], up[k], w, b, loaded) /\ b \in Nat
    BY <1>6 DEF OneWorld
  <2>2. CASE k = c
    <3>1. SUFFICES ASSUME member[c].needs # AnyWorld
                   PROVE  PlaysOne(member[k], game'[k], coming[k], up'[k], w, b, loaded)
      BY <2>2 DEF PlaysOne
    <3>2. game[c].ran \in Nat
      BY RoomStays DEF RoomInv
    <3>3. game[c].world = w => game'[c].ran >= b /\ r.step > b
      BY <1>1, <1>2, <2>1, <2>2, <3>1, <3>2 DEF PlaysOne
    <3>4. loaded = None => r.world = w
      BY <1>1, <2>1, <2>2, <3>1 DEF PlaysOne
    <3>5. \A i \in 1..Len(up'[c]) : /\ loaded = None => up'[c][i].world = w
                                    /\ up'[c][i].world = w => up'[c][i].step > b
      BY <1>1, <1>4, <2>1, <2>2, <3>1, <3>3, <3>4 DEF PlaysOne
    <3> QED BY <1>2, <2>1, <2>2, <3>1, <3>3, <3>5 DEF PlaysOne
  <2>3. CASE k # c
    BY <1>2, <2>1, <2>3
  <2> QED BY <2>2, <2>3
<1>10. OneWorld(member, game', coming, up', rounds, w, b, loaded)
  BY <1>6, <1>9 DEF OneWorld
<1> QED BY <1>2, <1>7, <1>8, <1>10 DEF Alike

LEMMA TakeAlike == ASSUME RoomInv, AlikeInv, NEW c \in Client, TakeWorld(c) PROVE AlikeInv'
<1> SUFFICES ASSUME Faulty = {}, ~apart'
             PROVE  told' = {} /\ Alike(member', game', coming', up', rounds')
  BY AlikeNext
<1>1. /\ coming[c] # None
      /\ game'[c].world = coming[c].id /\ game'[c].ran = coming[c].step /\ coming'[c] = None
      /\ \A k \in Client : k # c => game'[k] = game[k] /\ coming'[k] = coming[k]
      /\ rounds' = rounds /\ member' = member /\ up' = up /\ told' = told /\ ~apart
  BY TakesWorld DEF roundVars, historyVars
<1>2. PICK w, b, loaded : OneWorld(member, game, coming, up, rounds, w, b, loaded)
  BY <1>1, AlikeNow
<1>3. told = {} /\ SentOf(up)
  BY <1>1, AlikeNow
<1>4. ASSUME NEW k \in Client
      PROVE  PlaysOne(member[k], game'[k], coming'[k], up[k], w, b, loaded)
  <2>1. PlaysOne(member[k], game[k], coming[k], up[k], w, b, loaded) /\ b \in Nat
    BY <1>2 DEF OneWorld
  <2>2. CASE k = c
    BY <1>1, <2>1, <2>2 DEF PlaysOne
  <2>3. CASE k # c
    BY <1>1, <2>1, <2>3
  <2> QED BY <2>2, <2>3
<1>5. OneWorld(member, game', coming', up, rounds, w, b, loaded)
  BY <1>2, <1>4 DEF OneWorld
<1> QED BY <1>1, <1>3, <1>5 DEF Alike

LEMMA ExpireAlike == ASSUME RoomInv, AlikeInv, NEW s \in Step, Expire(s) PROVE AlikeInv'
<1> SUFFICES ASSUME Faulty = {}, ~apart'
             PROVE  told' = {} /\ Alike(member', game', coming', up', rounds')
  BY AlikeNext
<1>1. /\ rounds' = [rounds EXCEPT ![s] = None] /\ member' = member /\ game' = game
      /\ coming' = coming /\ up' = up /\ told' = told /\ ~apart
  BY DEF Expire, gameVars, historyVars
<1>2. PICK w, b, loaded : OneWorld(member, game, coming, up, rounds, w, b, loaded)
  BY <1>1, AlikeNow
<1>3. told = {} /\ SentOf(up)
  BY <1>1, AlikeNow
<1>4. PICK f : f = [rounds EXCEPT ![s] = None]
  OBVIOUS
<1>5. \A t \in Step : f[t] \in {None, rounds[t]}
  BY <1>4 DEF RoomInv, RoundsOK
<1>6. RoundsOf(f, w, b)
  BY <1>2, <1>5 DEF OneWorld, RoundsOf
<1>7. OneWorld(member, game, coming, up, f, w, b, loaded)
  BY <1>2, <1>6 DEF OneWorld
<1> QED BY <1>1, <1>3, <1>4, <1>7 DEF Alike

LEMMA InitAlike == Init => AlikeInv
<1> SUFFICES ASSUME Init PROVE told = {} /\ Alike(member, game, coming, up, rounds)
  BY DEF AlikeInv
<1>1. PICK none : none = <<>>
  OBVIOUS
<1>2. 1..Len(none) = {}
  BY <1>1
<1>3. \A c \in Client : coming[c] = None /\ up[c] = none
  BY <1>1 DEF Init
<1>4. told = {} /\ \A s \in Step : rounds[s] = None
  BY DEF Init
<1>5. SentOf(up)
  BY <1>2, <1>3 DEF SentOf
<1>6. \A w : RoundsOf(rounds, w, 0)
  BY <1>4 DEF RoundsOf
<1>7. PICK first \in World :
        \/ /\ member = [c \in Client |-> Member(Nothing, first)]
           /\ game = [c \in Client |-> [world |-> first, ran |-> 0]]
        \/ /\ member = [c \in Client |-> Member(IF c = Seats[1] THEN Nothing ELSE AnyWorld, None)]
           /\ game = [c \in Client |-> [world |-> IF c = Seats[1] THEN Own ELSE None, ran |-> 0]]
  BY DEF Init
<1>8. CASE /\ member = [c \in Client |-> Member(Nothing, first)]
           /\ game = [c \in Client |-> [world |-> first, ran |-> 0]]
  <2>1. ASSUME NEW c \in Client
        PROVE  PlaysOne(member[c], game[c], coming[c], up[c], first, 0, first)
    <3>1. member[c].loaded = first /\ game[c].ran = 0 /\ first # None
      BY <1>8, ConstantsAssumption DEF Member
    <3> QED BY <1>2, <1>3, <3>1 DEF PlaysOne
  <2>2. OneWorld(member, game, coming, up, rounds, first, 0, first)
    BY <1>6, <2>1 DEF OneWorld, WorldOrNone
  <2> QED BY <1>4, <1>5, <2>2 DEF Alike
<1>9. CASE /\ member = [c \in Client |-> Member(IF c = Seats[1] THEN Nothing ELSE AnyWorld, None)]
           /\ game = [c \in Client |-> [world |-> IF c = Seats[1] THEN Own ELSE None, ran |-> 0]]
  <2>1. ASSUME NEW c \in Client
        PROVE  PlaysOne(member[c], game[c], coming[c], up[c], Own, 0, None)
    <3>1. CASE c = Seats[1]
      <4>1. member[c].loaded = None /\ game[c].ran = 0 /\ game[c].world = Own
        BY <1>9, <3>1 DEF Member
      <4> QED BY <1>2, <1>3, <4>1 DEF PlaysOne
    <3>2. CASE c # Seats[1]
      <4>1. member[c].needs = AnyWorld
        BY <1>9, <3>2 DEF Member
      <4> QED BY <4>1 DEF PlaysOne
    <3> QED BY <3>1, <3>2
  <2>2. OneWorld(member, game, coming, up, rounds, Own, 0, None)
    BY <1>6, <2>1 DEF OneWorld, WorldOrNone
  <2> QED BY <1>4, <1>5, <2>2 DEF Alike
<1> QED BY <1>7, <1>8, <1>9

LEMMA AlikeStep == RoomInv /\ Behind /\ AlikeInv /\ [Next]_vars => AlikeInv'
<1> SUFFICES ASSUME RoomInv, Behind, AlikeInv, [Next]_vars PROVE AlikeInv'
  OBVIOUS
<1>1. CASE Seal
  BY <1>1 DEF Seal, roundVars, gameVars, historyVars, AlikeInv, Alike, OneWorld
<1>2. CASE ServerRestarts
  BY <1>2, RestartAlike
<1>3. ASSUME NEW s \in Step, Decide(s) PROVE AlikeInv'
  BY <1>3, DecideAlike
<1>4. ASSUME NEW s \in Step, Expire(s) PROVE AlikeInv'
  BY <1>4, ExpireAlike
<1>5. ASSUME NEW at \in 0..sealed, Promote(at) PROVE AlikeInv'
  BY <1>5, PromoteAlike
<1>6. ASSUME NEW c \in Client,
             \/ Checkpoint(c) \/ Disconnected(c) \/ JoinResuming(c) \/ JoinForWorld(c)
             \/ Run(c) \/ TakeWorld(c)
      PROVE  AlikeInv'
  <2>1. CASE Checkpoint(c)
    BY <2>1, CheckpointAlike
  <2>2. CASE Disconnected(c)
    BY <2>2, DisconnectedAlike
  <2>3. CASE JoinResuming(c)
    <3>1. /\ Joins(c, TRUE, Nothing) /\ Nothing \in Needs /\ Nothing # AnyWorld
          /\ member[c].needs # AnyWorld
      BY <2>3, NeedsTypes DEF JoinResuming
    <3> QED BY <3>1, JoinsAlike
  <2>4. CASE JoinForWorld(c)
    <3>1. Joins(c, FALSE, AnyWorld) /\ AnyWorld \in Needs
      BY <2>4, NeedsTypes DEF JoinForWorld
    <3> QED BY <3>1, JoinsAlike
  <2>5. CASE Run(c)
    BY <2>5, RunAlike
  <2>6. CASE TakeWorld(c)
    BY <2>6, TakeAlike
  <2> QED BY <1>6, <2>1, <2>2, <2>3, <2>4, <2>5, <2>6
<1>7. CASE UNCHANGED vars
  BY <1>7 DEF vars, roundVars, gameVars, historyVars, AlikeInv, Alike, OneWorld
<1> QED BY <1>1, <1>2, <1>3, <1>4, <1>5, <1>6, <1>7 DEF Next

\* No game is said to have diverged while all compute what their worlds make
\* them compute, but after the room took a report for one of another world, or
\* a restart forgot who was owed one (`apart`): as long as it did not, all that
\* wait for no world play one world, the rounds kept past where it was saved
\* hold only its digests, and forget_reports_after drops what others reported
\* when the room hands out a new one.
THEOREM LikeWithLike == Spec => []ComparesLikeWithLike
<1>1. Init => Behind /\ AlikeInv
  BY InitBehind, InitAlike
<1>2. RoomInv /\ Behind /\ AlikeInv /\ [Next]_vars => Behind' /\ AlikeInv'
  BY BehindStep, AlikeStep
<1>3. AlikeInv => ComparesLikeWithLike
  BY DEF AlikeInv, ComparesLikeWithLike
<1> QED BY <1>1, <1>2, <1>3, RoomInvariant, PTL DEF Spec
=============================================================================
