---------------------------- MODULE TurnLogProofs ----------------------------
(***************************************************************************)
(* The inductive invariant of TurnLog, and the proofs that rest on it.     *)
(*                                                                         *)
(* The room's own part (LInv) is inductive without the clients: what the   *)
(* room holds in memory, on the disk and in a compacted log being written  *)
(* are pieces of one chain of turns.  The clients' part (CInv, the second  *)
(* half of the module) rests on it: every world, saved or played, agrees   *)
(* with the room, and every stream on its way leads its reader along a     *)
(* line of turns that does.                                                *)
(***************************************************************************)
EXTENDS TurnLog, SequenceTheorems, FiniteSetTheorems, TLAPS

-----------------------------------------------------------------------------
(* The inductive invariant                                                 *)

\* Where the turns before the i-th leave the event numbers and the frontier.
EventBefore(p, i) == IF i = 1 THEN 1 ELSE p[i - 1].first + Len(p[i - 1].events)
SealedBefore(p, i) == IF i = 1 THEN 0 ELSE p[i - 1].sealed

\* Turn t is the one that may follow a turn that left `event` and `frontier`.
Follows(t, number, event, frontier) ==
    /\ t.number = number
    /\ t.first = event
    /\ t.sealed >= frontier
    /\ \A j \in 1..Len(t.events) :
        t.events[j].seq = event + j - 1 /\ t.events[j].step = frontier + 1

\* Events ordered one after the other while the frontier stands.
Numbered(es, event, frontier) ==
    \A j \in 1..Len(es) : es[j].seq = event + j - 1 /\ es[j].step = frontier + 1

\* The turns w are the end of the log p, from turn f on.
Piece(p, w, f) ==
    /\ f \in Nat \ {0} /\ w \in Seq(Turn)
    /\ f + Len(w) = Len(p) + 1
    /\ \A i \in 1..Len(w) : w[i] = p[f + i - 1]

\* The histories of a log of n turns.
HistoriesOK(hs, n) ==
    /\ hs \in Seq(History) /\ hs # <<>> /\ hs[1].after = 0
    /\ \A i \in 1..Len(hs) : hs[i].id \in HistoryId /\ hs[i].after \in Nat /\ hs[i].after <= n
    /\ \A i \in 1..(Len(hs) - 1) : hs[i].after <= hs[i + 1].after

\* One chain of turns from the first.  (That the numbers never fall follows
\* from the first conjunct, by induction; here it is part of the invariant.)
Chain(p) ==
    /\ \A i \in 1..Len(p) : Follows(p[i], i, EventBefore(p, i), SealedBefore(p, i))
    /\ \A i, j \in 1..(Len(p) + 1) : i <= j =>
        /\ 1 <= EventBefore(p, i) /\ EventBefore(p, i) <= EventBefore(p, j)
        /\ SealedBefore(p, i) <= SealedBefore(p, j)

\* What the room holds in memory is the end of the log.
WindowOK ==
    /\ nextTurn = Len(played) + 1
    /\ Piece(played, log, logFirst)
    /\ sealedBefore = SealedBefore(played, logFirst)
    /\ sealed = SealedBefore(played, nextTurn)
PendingOK ==
    /\ nextEvent = EventBefore(played, nextTurn) + Len(pending)
    /\ Numbered(pending, EventBefore(played, nextTurn), sealed)
GameOK == up => WindowOK /\ PendingOK /\ histories = DiskHistories(disk)

\* A log file holds turns of the log p, in their order, and a base and
\* markers that say where they stand.
TurnsOK(d, p) ==
    /\ 1 <= d.first /\ d.first <= d.after + 1
    /\ d.first + Len(d.turns) <= Len(p) + 1
    /\ \A i \in 1..Len(d.turns) : d.turns[i] = p[d.first + i - 1]
    /\ Kept(d) <= d.synced /\ d.synced <= Len(d.turns)
BaseOK(d, p) ==
    /\ d.firstEvent = EventBefore(p, d.first)
    /\ d.sealedBefore = SealedBefore(p, d.first)
    /\ d.nextEvent = EventBefore(p, d.after + 1)
    /\ d.sealed = SealedBefore(p, d.after + 1)
    /\ d.histories # <<>> /\ d.histories[1].after = 0
    /\ \A i \in 1..Len(d.histories) - 1 : d.histories[i].after <= d.histories[i + 1].after
    /\ \A i \in 1..Len(d.histories) : d.histories[i].after <= d.after
MarksOK(d, p) ==
    /\ \A i \in 1..Len(d.marks) :
        /\ Kept(d) <= d.marks[i].at /\ d.marks[i].at <= Len(d.turns)
        /\ d.marks[i].after = d.first + d.marks[i].at - 1
        /\ d.marks[i].event = EventBefore(p, d.marks[i].after + 1)
    /\ \A i \in 1..Len(d.marks) - 1 : d.marks[i].at <= d.marks[i + 1].at
FileOK(d, p) == TurnsOK(d, p) /\ BaseOK(d, p) /\ MarksOK(d, p)

Complete(d, p) == d.first + Len(d.turns) = Len(p) + 1

DiskOK ==
    /\ FileOK(disk, played)
    /\ logOpen \/ ~up => Complete(disk, played)
    /\ logOpen => up
    /\ compaction # None =>
        /\ up /\ FileOK(compaction, played) /\ Complete(compaction, played)
        /\ DiskHistories(compaction) = DiskHistories(disk)

\* The room's part of TypeOK.
LogTypeOK ==
    /\ up \in BOOLEAN /\ logOpen \in BOOLEAN
    /\ nextTurn \in Nat \ {0} /\ nextEvent \in Nat \ {0} /\ sealed \in Nat
    /\ pending \in Seq(Event) /\ log \in Seq(Turn)
    /\ logFirst \in Nat \ {0} /\ sealedBefore \in Nat
    /\ histories \in Seq(History) /\ histories # <<>>
    /\ disk \in Disk /\ compaction \in Disk \cup {None}
    /\ played \in Seq(Turn)

\* The room's part of the inductive invariant: no client appears in it.
LInv == LogTypeOK /\ Chain(played) /\ GameOK /\ DiskOK

logVars == <<up, nextTurn, nextEvent, sealed, pending, log, logFirst, sealedBefore,
             histories, logOpen, compaction, disk, played>>

-----------------------------------------------------------------------------
(* Facts about turns and chains                                            *)

LEMMA SubSeqPrefix ==
    ASSUME NEW S, NEW s \in Seq(S), NEW n \in 0..Len(s)
    PROVE  /\ SubSeq(s, 1, n) \in Seq(S) /\ Len(SubSeq(s, 1, n)) = n
           /\ \A i \in 1..n : SubSeq(s, 1, n)[i] = s[i]
<1>1. \A i \in 1..n : s[i] \in S
  BY ElementOfSeq
<1>2. /\ SubSeq(s, 1, n) \in Seq(S)
      /\ Len(SubSeq(s, 1, n)) = IF 1 <= n THEN n - 1 + 1 ELSE 0
      /\ \A i \in 1 .. n - 1 + 1 : SubSeq(s, 1, n)[i] = s[1 + i - 1]
  BY <1>1, SubSeqProperties
<1> QED BY <1>2

LEMMA TurnType ==
    ASSUME NEW t \in Turn
    PROVE  /\ t.number \in Nat /\ t.first \in Nat /\ t.sealed \in Nat
           /\ t.events \in Seq(Event) /\ Len(t.events) \in Nat
BY DEF Turn

LEMMA BeforeType ==
    ASSUME NEW p \in Seq(Turn), NEW i \in 1..(Len(p) + 1)
    PROVE  EventBefore(p, i) \in Nat /\ SealedBefore(p, i) \in Nat
<1>1. CASE i = 1
  BY <1>1 DEF EventBefore, SealedBefore
<1>2. CASE i # 1
  <2>1. i - 1 \in 1..Len(p) /\ p[i - 1] \in Turn
    BY <1>2, ElementOfSeq
  <2> QED BY <1>2, <2>1, TurnType DEF EventBefore, SealedBefore
<1> QED BY <1>1, <1>2

\* q begins with p: where turns stand in p, they stand in q.
Extends(q, p) == Len(p) <= Len(q) /\ \A i \in 1..Len(p) : q[i] = p[i]

LEMMA BeforeExtends ==
    ASSUME NEW p \in Seq(Turn), NEW q \in Seq(Turn), Extends(q, p),
           NEW i \in 1..(Len(p) + 1)
    PROVE  EventBefore(q, i) = EventBefore(p, i) /\ SealedBefore(q, i) = SealedBefore(p, i)
<1>1. CASE i = 1
  BY <1>1 DEF EventBefore, SealedBefore
<1>2. CASE i # 1
  <2>1. i - 1 \in 1..Len(p)
    BY <1>2
  <2> QED BY <1>2, <2>1 DEF EventBefore, SealedBefore, Extends
<1> QED BY <1>1, <1>2

\* Turns q that carry on where p ends.
NextEvent(t) == t.first + Len(t.events)
CarriesOn(p, q) ==
    /\ \A k \in 1..Len(q) :
        Follows(q[k], Len(p) + k,
                IF k = 1 THEN EventBefore(p, Len(p) + 1) ELSE NextEvent(q[k - 1]),
                IF k = 1 THEN SealedBefore(p, Len(p) + 1) ELSE q[k - 1].sealed)
    /\ \A k, l \in 1..Len(q) : k <= l =>
        /\ EventBefore(p, Len(p) + 1) <= NextEvent(q[k]) /\ NextEvent(q[k]) <= NextEvent(q[l])
        /\ SealedBefore(p, Len(p) + 1) <= q[k].sealed /\ q[k].sealed <= q[l].sealed

LEMMA ChainConcat ==
    ASSUME NEW p \in Seq(Turn), NEW q \in Seq(Turn), Chain(p), CarriesOn(p, q)
    PROVE  /\ p \o q \in Seq(Turn) /\ Len(p \o q) = Len(p) + Len(q)
           /\ Extends(p \o q, p)
           /\ \A k \in 1..Len(q) : (p \o q)[Len(p) + k] = q[k]
           /\ Chain(p \o q)
<1> DEFINE r == p \o q
<1>1. /\ r \in Seq(Turn) /\ Len(r) = Len(p) + Len(q)
      /\ \A i \in 1..(Len(p) + Len(q)) : r[i] = IF i <= Len(p) THEN p[i] ELSE q[i - Len(p)]
  BY ConcatProperties
<1> HIDE DEF r
<1>2. Extends(r, p)
  BY <1>1 DEF Extends
<1>3. \A k \in 1..Len(q) : r[Len(p) + k] = q[k]
  BY <1>1
<1>4. ASSUME NEW i \in 1..Len(r)
      PROVE  Follows(r[i], i, EventBefore(r, i), SealedBefore(r, i))
  <2>1. CASE i <= Len(p)
    <3>1. i \in 1..Len(p) /\ i \in 1..(Len(p) + 1) /\ r[i] = p[i]
      BY <2>1, <1>1
    <3> QED BY <3>1, <1>1, <1>2, BeforeExtends DEF Chain
  <2>2. CASE i = Len(p) + 1
    <3>1. r[i] = q[1] /\ 1 \in 1..Len(q)
      BY <2>2, <1>1, <1>3
    <3>2. Follows(q[1], Len(p) + 1, EventBefore(p, Len(p) + 1), SealedBefore(p, Len(p) + 1))
      <4>1. \A k \in 1..Len(q) : k = 1 =>
              Follows(q[k], Len(p) + k, EventBefore(p, Len(p) + 1), SealedBefore(p, Len(p) + 1))
        BY DEF CarriesOn
      <4> QED BY <3>1, <4>1
    <3>3. i \in 1..(Len(p) + 1)
      BY <2>2
    <3> QED BY <2>2, <3>1, <3>2, <3>3, <1>1, <1>2, BeforeExtends
  <2>3. CASE i > Len(p) + 1
    <3> DEFINE k == i - Len(p)
    <3>1. k \in 2..Len(q) /\ k \in 1..Len(q) /\ k - 1 \in 1..Len(q) /\ i = Len(p) + k
      BY <2>3, <1>1
    <3>2. r[i] = q[k] /\ r[i - 1] = q[k - 1]
      BY <3>1, <1>1, SMTT(30)
    <3>3. Follows(q[k], Len(p) + k, NextEvent(q[k - 1]), q[k - 1].sealed)
      <4>1. \A x \in 1..Len(q) : x # 1 =>
              Follows(q[x], Len(p) + x, NextEvent(q[x - 1]), q[x - 1].sealed)
        BY DEF CarriesOn
      <4>2. k \in 1..Len(q) /\ k # 1
        BY <3>1
      <4> HIDE DEF k
      <4> QED BY <4>1, <4>2
    <3>4. i # 1
      BY <3>1
    <3> HIDE DEF k
    <3> QED BY <3>1, <3>2, <3>3, <3>4 DEF EventBefore, SealedBefore, NextEvent
  <2> QED BY <2>1, <2>2, <2>3, <1>1
<1>5. ASSUME NEW i \in 1..(Len(r) + 1), NEW j \in 1..(Len(r) + 1), i <= j
      PROVE  /\ 1 <= EventBefore(r, i) /\ EventBefore(r, i) <= EventBefore(r, j)
             /\ SealedBefore(r, i) <= SealedBefore(r, j)
  <2> DEFINE n == Len(p) + 1
  <2>0. n \in Nat /\ n \in 1..n /\ Len(q) \in Nat /\ Len(r) = Len(p) + Len(q)
    BY <1>1
  <2>1. ASSUME NEW x \in 1..n
        PROVE  EventBefore(r, x) = EventBefore(p, x) /\ SealedBefore(r, x) = SealedBefore(p, x)
    BY <1>1, <1>2, BeforeExtends
  <2>2. ASSUME NEW x \in 1..(Len(r) + 1), x > n
        PROVE  /\ x - n \in 1..Len(q)
               /\ EventBefore(r, x) = NextEvent(q[x - n]) /\ SealedBefore(r, x) = q[x - n].sealed
    <3>1. x - n \in 1..Len(q) /\ r[x - 1] = q[x - n] /\ x # 1
      <4>1. x - n \in 1..Len(q) /\ x # 1 /\ x - 1 = Len(p) + (x - n)
        BY <2>0, <2>2
      <4> QED BY <4>1, <1>3
    <3> QED BY <3>1 DEF EventBefore, SealedBefore, NextEvent
  <2>3. \A x, y \in 1..n : x <= y =>
            /\ 1 <= EventBefore(p, x) /\ EventBefore(p, x) <= EventBefore(p, y)
            /\ SealedBefore(p, x) <= SealedBefore(p, y)
    BY DEF Chain
  <2>4. \A x \in 1..n : EventBefore(p, x) \in Nat /\ SealedBefore(p, x) \in Nat
    BY BeforeType
  <2>5. \A k \in 1..Len(q) : NextEvent(q[k]) \in Nat /\ q[k].sealed \in Nat
    BY ElementOfSeq, TurnType DEF NextEvent
  <2>6. CASE i <= n /\ j <= n
    <3>1. i \in 1..n /\ j \in 1..n /\ i <= j
      BY <1>5, <2>6
    <3> HIDE DEF n
    <3> QED BY <2>1, <2>3, <3>1
  <2>7. CASE i <= n /\ j > n
    <3>1. /\ EventBefore(p, n) <= EventBefore(r, j)
          /\ SealedBefore(p, n) <= SealedBefore(r, j)
      BY <2>2, <2>7, SMTT(30) DEF CarriesOn
    <3>2. i \in 1..n
      BY <2>0, <2>7
    <3>3. EventBefore(r, j) \in Nat /\ SealedBefore(r, j) \in Nat
      BY <2>2, <2>5, <2>7
    <3> HIDE DEF n
    <3> QED BY <2>0, <2>1, <2>3, <2>4, <3>1, <3>2, <3>3
  <2>8. CASE i > n
    <3>1. j > n /\ n >= 1
      BY <1>5, <2>0, <2>8
    <3>2. i - n \in 1..Len(q) /\ j - n \in 1..Len(q) /\ i - n <= j - n
      BY <1>5, <2>0, <2>2, <2>8, <3>1
    <3>3. /\ EventBefore(p, n) <= EventBefore(r, i) /\ EventBefore(r, i) <= EventBefore(r, j)
          /\ SealedBefore(r, i) <= SealedBefore(r, j)
      BY <2>2, <2>8, <3>1, <3>2 DEF CarriesOn
    <3>4. 1 <= EventBefore(p, n) /\ EventBefore(r, i) \in Nat
      BY <2>0, <2>2, <2>3, <2>5, <2>8
    <3> HIDE DEF n
    <3> QED BY <2>0, <2>4, <3>3, <3>4
  <2> QED BY <2>0, <2>6, <2>7, <2>8
<1>6. Chain(r)
  BY <1>4, <1>5 DEF Chain
<1> QED BY <1>1, <1>2, <1>3, <1>6 DEF r

LEMMA ChainCut ==
    ASSUME NEW p \in Seq(Turn), Chain(p), NEW n \in 0..Len(p)
    PROVE  /\ SubSeq(p, 1, n) \in Seq(Turn) /\ Len(SubSeq(p, 1, n)) = n
           /\ Extends(p, SubSeq(p, 1, n))
           /\ Chain(SubSeq(p, 1, n))
<1> DEFINE r == SubSeq(p, 1, n)
<1>2. r \in Seq(Turn) /\ Len(r) = n /\ \A i \in 1..n : r[i] = p[i]
  BY SubSeqPrefix
<1> HIDE DEF r
<1>3. Extends(p, r)
  BY <1>2 DEF Extends
<1>4. ASSUME NEW i \in 1..Len(r)
      PROVE  Follows(r[i], i, EventBefore(r, i), SealedBefore(r, i))
  <2>1. i \in 1..Len(p) /\ i \in 1..(Len(r) + 1) /\ r[i] = p[i]
    BY <1>2
  <2>2. EventBefore(p, i) = EventBefore(r, i) /\ SealedBefore(p, i) = SealedBefore(r, i)
    BY <1>2, <1>3, <2>1, BeforeExtends
  <2> QED BY <2>1, <2>2 DEF Chain
<1>5. \A i \in 1..(n + 1) :
        EventBefore(p, i) = EventBefore(r, i) /\ SealedBefore(p, i) = SealedBefore(r, i)
  BY <1>2, <1>3, BeforeExtends
<1>6. \A i \in 1..(n + 1) : i \in 1..(Len(p) + 1)
  OBVIOUS
<1>7. Chain(r)
  BY <1>2, <1>4, <1>5, <1>6 DEF Chain
<1> QED BY <1>2, <1>3, <1>7 DEF r

-----------------------------------------------------------------------------
(* Facts about log files                                                   *)

LEMMA DiskType ==
    ASSUME NEW d \in Disk
    PROVE  /\ d.first \in Nat /\ d.firstEvent \in Nat /\ d.sealedBefore \in Nat
           /\ d.after \in Nat /\ d.nextEvent \in Nat /\ d.sealed \in Nat /\ d.synced \in Nat
           /\ d.histories \in Seq(History) /\ Len(d.histories) \in Nat
           /\ d.turns \in Seq(Turn) /\ Len(d.turns) \in Nat
           /\ d.marks \in Seq(Mark) /\ Len(d.marks) \in Nat
           /\ \A i \in 1..Len(d.marks) :
                d.marks[i].id \in HistoryId /\ d.marks[i].after \in Nat
                /\ d.marks[i].event \in Nat /\ d.marks[i].at \in Nat
           /\ \A i \in 1..Len(d.histories) :
                d.histories[i].id \in HistoryId /\ d.histories[i].after \in Nat
<1>1. /\ d.first \in Nat /\ d.firstEvent \in Nat /\ d.sealedBefore \in Nat
      /\ d.after \in Nat /\ d.nextEvent \in Nat /\ d.sealed \in Nat /\ d.synced \in Nat
      /\ d.histories \in Seq(History) /\ Len(d.histories) \in Nat
      /\ d.turns \in Seq(Turn) /\ Len(d.turns) \in Nat
      /\ d.marks \in Seq(Mark) /\ Len(d.marks) \in Nat
  BY DEF Disk
<1>2. \A i \in 1..Len(d.marks) : d.marks[i] \in Mark
  BY <1>1, ElementOfSeq
<1>3. \A i \in 1..Len(d.histories) : d.histories[i] \in History
  BY <1>1, ElementOfSeq
<1> QED BY <1>1, <1>2, <1>3 DEF Mark, History

\* The histories of a file are those of its base, then its markers.
LEMMA DiskHistoriesType ==
    ASSUME NEW d \in Disk
    PROVE  /\ DiskHistories(d) \in Seq(History)
           /\ Len(DiskHistories(d)) = Len(d.histories) + Len(d.marks)
           /\ \A i \in 1..Len(d.histories) : DiskHistories(d)[i] = d.histories[i]
           /\ \A i \in 1..Len(d.marks) :
                DiskHistories(d)[Len(d.histories) + i] =
                    [id |-> d.marks[i].id, after |-> d.marks[i].after]
<1> DEFINE e(i) == [id |-> d.marks[i].id, after |-> d.marks[i].after]
           ms == [i \in 1..Len(d.marks) |-> e(i)]
<1>2. \A i \in 1..Len(d.marks) : e(i) \in History
  BY DiskType DEF History
<1>3. ms \in Seq(History) /\ Len(ms) = Len(d.marks)
  <2>1. Len(d.marks) \in Nat
    BY DiskType
  <2> HIDE DEF e
  <2> QED BY <2>1, <1>2
<1>4. DiskHistories(d) = d.histories \o ms
  BY DEF DiskHistories
<1>5. \A i \in 1..Len(d.marks) : ms[i] = e(i)
  OBVIOUS
<1> HIDE DEF ms
<1>6. /\ d.histories \o ms \in Seq(History)
      /\ Len(d.histories \o ms) = Len(d.histories) + Len(ms)
      /\ \A i \in 1..(Len(d.histories) + Len(ms)) : (d.histories \o ms)[i] =
            IF i <= Len(d.histories) THEN d.histories[i] ELSE ms[i - Len(d.histories)]
  BY <1>3, DiskType, ConcatProperties
<1> QED BY <1>3, <1>4, <1>5, <1>6, DiskType

\* Sealing more turns leaves a file as true of the log as it was.
LEMMA FileExtends ==
    ASSUME NEW d \in Disk, NEW p \in Seq(Turn), NEW q \in Seq(Turn),
           FileOK(d, p), Extends(q, p)
    PROVE  FileOK(d, q)
<1>1. Len(p) \in Nat /\ Len(q) \in Nat /\ Len(p) <= Len(q)
  BY DEF Extends
<1>2. d.first \in 1..(Len(p) + 1) /\ d.after + 1 \in 1..(Len(p) + 1)
  BY <1>1, DiskType, SMTT(30) DEF FileOK, TurnsOK, Kept
<1>3. TurnsOK(d, q)
  <2>1. ASSUME NEW i \in 1..Len(d.turns)
        PROVE  d.turns[i] = q[d.first + i - 1]
    <3>1. d.first + i - 1 \in 1..Len(p) /\ d.turns[i] = p[d.first + i - 1]
      BY <1>1, DiskType, SMTT(30) DEF FileOK, TurnsOK
    <3> QED BY <3>1 DEF Extends
  <2>2. d.first + Len(d.turns) <= Len(q) + 1
    BY <1>1, DiskType DEF FileOK, TurnsOK
  <2> QED BY <2>1, <2>2 DEF FileOK, TurnsOK
<1>4. BaseOK(d, q)
  BY <1>2, BeforeExtends DEF FileOK, BaseOK
<1>5. MarksOK(d, q)
  <2>1. ASSUME NEW i \in 1..Len(d.marks)
        PROVE  d.marks[i].after + 1 \in 1..(Len(p) + 1)
    <3> DEFINE a == d.marks[i].after
               t == d.marks[i].at
    <3>1. a = d.first + t - 1 /\ t <= Len(d.turns)
      BY DEF FileOK, MarksOK
    <3>2. 1 <= d.first /\ d.first + Len(d.turns) <= Len(p) + 1
      BY DEF FileOK, TurnsOK
    <3>3. t \in Nat /\ a \in Nat
      BY DiskType
    <3>4. d.first \in Nat /\ Len(d.turns) \in Nat
      BY DiskType
    <3> HIDE DEF a, t
    <3>5. a + 1 \in 1..(Len(p) + 1)
      BY <1>1, <3>1, <3>2, <3>3, <3>4
    <3> QED BY <3>5 DEF a
  <2> QED BY <2>1, BeforeExtends DEF FileOK, MarksOK
<1> QED BY <1>3, <1>4, <1>5 DEF FileOK

\* The numbers of a file.
LEMMA DiskNumbers ==
    ASSUME NEW d \in Disk
    PROVE  /\ d.first \in Nat /\ d.after \in Nat /\ d.synced \in Nat
           /\ Len(d.turns) \in Nat /\ Len(d.marks) \in Nat /\ Len(d.histories) \in Nat
BY DEF Disk

\* What recovery reads from a file that holds turns of the log.
LEMMA FileEnd ==
    ASSUME NEW d \in Disk, NEW p \in Seq(Turn), Chain(p), FileOK(d, p), NEW n \in 0..Len(d.turns)
    PROVE  /\ SubSeq(d.turns, 1, n) \in Seq(Turn) /\ Len(SubSeq(d.turns, 1, n)) = n
           /\ NextEventAfter(SubSeq(d.turns, 1, n), d.firstEvent) = EventBefore(p, d.first + n)
           /\ Frontier(SubSeq(d.turns, 1, n), d.sealedBefore) = SealedBefore(p, d.first + n)
<1> DEFINE s == SubSeq(d.turns, 1, n)
<1>2. s \in Seq(Turn) /\ Len(s) = n /\ \A i \in 1..n : s[i] = d.turns[i]
  <2>1. d.turns \in Seq(Turn)
    BY DiskType
  <2> QED BY <2>1, SubSeqPrefix
<1> HIDE DEF s
<1>3. CASE n = 0
  <2>1. s = <<>>
    BY <1>2, <1>3, EmptySeq
  <2> QED BY <2>1, <1>2, <1>3, DiskType DEF FileOK, BaseOK, NextEventAfter, Frontier, s
<1>4. CASE n # 0
  <2>1. s # <<>> /\ s[Len(s)] = p[d.first + n - 1]
    <3>1. n \in 1..Len(d.turns) /\ n \in 1..n
      BY <1>4, DiskType
    <3>2. d.turns[n] = p[d.first + n - 1]
      BY <3>1 DEF FileOK, TurnsOK
    <3> QED BY <1>2, <1>4, <3>1, <3>2, EmptySeq
  <2>2. d.first + n # 1
    BY <1>4, DiskType DEF FileOK, TurnsOK
  <2> DEFINE k == d.first + n
  <2>3. k # 1 /\ k - 1 = d.first + n - 1 /\ s # <<>>
    BY <2>1, <2>2, DiskNumbers
  <2>4. s[Len(s)] = p[k - 1]
    BY <2>1, <2>3
  <2> HIDE DEF k
  <2>5. NextEventAfter(s, d.firstEvent) = EventBefore(p, k)
    BY <2>3, <2>4 DEF NextEventAfter, EventBefore
  <2>6. Frontier(s, d.sealedBefore) = SealedBefore(p, k)
    BY <2>3, <2>4 DEF Frontier, SealedBefore
  <2> QED BY <1>2, <2>5, <2>6 DEF s, k
<1> QED BY <1>3, <1>4

\* Recovery accepts a file that holds turns of the log.
LEMMA FileRecoverable ==
    ASSUME NEW d \in Disk, NEW p \in Seq(Turn), Chain(p), FileOK(d, p)
    PROVE  Recoverable(d)
<1>0. Len(p) \in Nat
  OBVIOUS
<1>1. d.first \in 1..(Len(p) + 1) /\ d.after + 1 \in 1..(Len(p) + 1) /\ Kept(d) \in 0..Len(d.turns)
  BY <1>0, DiskType, SMTT(30) DEF FileOK, TurnsOK, Kept
<1>2. BaseConsistent(d)
  <2>1. /\ 1 <= EventBefore(p, d.first) /\ EventBefore(p, d.first) <= EventBefore(p, d.after + 1)
        /\ SealedBefore(p, d.first) <= SealedBefore(p, d.after + 1)
    BY <1>1, DiskType DEF FileOK, TurnsOK, Chain
  <2>2. Len(d.histories) \in 1..Len(d.histories)
    BY DiskType, EmptySeq DEF FileOK, BaseOK
  <2> QED BY <2>1, <2>2 DEF BaseConsistent, FileOK, TurnsOK, BaseOK
<1>3. ASSUME NEW i \in 1..Len(d.turns)
      PROVE  LET before == SubSeq(d.turns, 1, i - 1) IN
             /\ d.turns[i].number = d.first + i - 1
             /\ d.turns[i].sealed >= Frontier(before, d.sealedBefore)
             /\ \A j \in 1..Len(d.turns[i].events) :
                    d.turns[i].events[j].seq = NextEventAfter(before, d.firstEvent) + j - 1
  <2> DEFINE k == d.first + i - 1
  <2>1. i - 1 \in 0..Len(d.turns) /\ k \in 1..Len(p) /\ d.turns[i] = p[k] /\ d.first + (i - 1) = k
    <3>1. d.first \in Nat /\ Len(d.turns) \in Nat /\ i \in Nat /\ 1 <= i /\ i <= Len(d.turns)
      BY DiskNumbers
    <3>2. 1 <= d.first /\ d.first + Len(d.turns) <= Len(p) + 1
      BY DEF FileOK, TurnsOK
    <3>3. d.turns[i] = p[k]
      BY DEF FileOK, TurnsOK
    <3>4. i - 1 \in 0..Len(d.turns) /\ k \in 1..Len(p) /\ d.first + (i - 1) = k
      BY <1>0, <3>1, <3>2
    <3> QED BY <3>3, <3>4
  <2>2. /\ NextEventAfter(SubSeq(d.turns, 1, i - 1), d.firstEvent) = EventBefore(p, k)
        /\ Frontier(SubSeq(d.turns, 1, i - 1), d.sealedBefore) = SealedBefore(p, k)
    BY <2>1, FileEnd
  <2>3. Follows(p[k], k, EventBefore(p, k), SealedBefore(p, k))
    BY <2>1 DEF Chain
  <2> QED BY <2>1, <2>2, <2>3 DEF Follows
<1>4. LET kept == SubSeq(d.turns, 1, Kept(d)) IN
      /\ NextEventAfter(kept, d.firstEvent) = d.nextEvent
      /\ Frontier(kept, d.sealedBefore) = d.sealed
  <2>1. d.first + Kept(d) = d.after + 1
    BY DiskType DEF Kept
  <2> QED BY <1>1, <2>1, FileEnd DEF FileOK, BaseOK
<1>5. ASSUME NEW i \in 1..Len(d.marks)
      PROVE  LET before == SubSeq(d.turns, 1, d.marks[i].at) IN
             /\ d.marks[i].at >= Kept(d)
             /\ d.marks[i].after = d.first + d.marks[i].at - 1
             /\ d.marks[i].event = NextEventAfter(before, d.firstEvent)
  <2>1. /\ d.marks[i].at \in 0..Len(d.turns) /\ d.marks[i].at >= Kept(d)
        /\ d.marks[i].after = d.first + d.marks[i].at - 1
        /\ d.marks[i].event = EventBefore(p, d.marks[i].after + 1)
        /\ d.marks[i].after + 1 = d.first + d.marks[i].at
    <3> DEFINE a == d.marks[i].after
               t == d.marks[i].at
    <3>1. t \in Nat /\ a \in Nat /\ d.first \in Nat
      BY DiskType
    <3>2. Kept(d) <= t /\ t <= Len(d.turns) /\ a = d.first + t - 1
      BY DEF FileOK, MarksOK
    <3>3. d.marks[i].event = EventBefore(p, a + 1)
      BY DEF FileOK, MarksOK
    <3> DEFINE l == Len(d.turns)
               b == Kept(d)
               f == d.first
    <3>5. b \in Nat /\ l \in Nat /\ t \in Nat /\ a \in Nat /\ f \in Nat
      BY <1>1, <3>1, DiskNumbers
    <3>6. b <= t /\ t <= l /\ a = f + t - 1
      BY <3>2
    <3> HIDE DEF a, t, l, b, f
    <3>4. t \in 0..l /\ t >= b /\ a + 1 = f + t
      BY <3>5, <3>6
    <3> QED BY <3>2, <3>3, <3>4 DEF a, t, l, b, f
  <2> QED BY <2>1, FileEnd
<1> QED BY <1>1, <1>2, <1>3, <1>4, <1>5 DEF Recoverable
\* Where a file stands in the log it holds turns of.
LEMMA FileBounds ==
    ASSUME NEW d \in Disk, NEW p \in Seq(Turn), FileOK(d, p)
    PROVE  /\ Len(p) \in Nat
           /\ 1 <= d.first /\ d.first <= d.after + 1 /\ d.after <= Len(p)
           /\ d.first + Len(d.turns) <= Len(p) + 1
           /\ d.after + 1 - d.first <= d.synced /\ d.synced <= Len(d.turns)
<1>1. /\ 1 <= d.first /\ d.first <= d.after + 1
      /\ d.first + Len(d.turns) <= Len(p) + 1
      /\ d.after + 1 - d.first <= d.synced /\ d.synced <= Len(d.turns)
  BY DEF FileOK, TurnsOK, Kept
<1>2. Len(p) \in Nat
  OBVIOUS
<1> QED BY <1>1, <1>2, DiskNumbers

\* What a crash leaves of a file is as true of what it leaves of the log.
LEMMA FileCut ==
    ASSUME NEW d \in Disk, NEW e \in Disk, NEW p \in Seq(Turn), Chain(p), FileOK(d, p),
           e.first = d.first, e.firstEvent = d.firstEvent, e.sealedBefore = d.sealedBefore,
           e.after = d.after, e.nextEvent = d.nextEvent, e.sealed = d.sealed,
           e.synced = d.synced, e.histories = d.histories,
           d.synced <= Len(e.turns), Len(e.turns) <= Len(d.turns),
           \A i \in 1..Len(e.turns) : e.turns[i] = d.turns[i],
           Len(e.marks) <= Len(d.marks),
           \A i \in 1..Len(e.marks) : e.marks[i] = d.marks[i] /\ e.marks[i].at <= Len(e.turns)
    PROVE  LET q == SubSeq(p, 1, e.first - 1 + Len(e.turns)) IN
           /\ q \in Seq(Turn) /\ Chain(q) /\ Extends(p, q) /\ Len(q) = e.first - 1 + Len(e.turns)
           /\ FileOK(e, q) /\ Complete(e, q)
<1> DEFINE n == e.first - 1 + Len(e.turns)
           q == SubSeq(p, 1, n)
<1>0. /\ e.first \in Nat /\ e.after \in Nat /\ e.synced \in Nat /\ Len(e.turns) \in Nat
      /\ Len(e.marks) \in Nat /\ Len(d.turns) \in Nat /\ Len(d.marks) \in Nat
  BY DiskNumbers
<1>b. /\ 1 <= e.first /\ e.first <= e.after + 1
      /\ e.first + Len(d.turns) <= Len(p) + 1 /\ Len(p) \in Nat
      /\ e.after + 1 - e.first <= e.synced /\ e.synced <= Len(e.turns)
  BY FileBounds
<1> DEFINE le == Len(e.turns)
           ld == Len(d.turns)
           f  == e.first
<1>c. /\ f \in Nat /\ le \in Nat /\ ld \in Nat /\ e.after \in Nat /\ le <= ld
      /\ 1 <= f /\ f <= e.after + 1 /\ f + ld <= Len(p) + 1 /\ Len(p) \in Nat
      /\ e.after + 1 - f <= le /\ n = f - 1 + le
  <2>1. e.after + 1 - f <= le
    <3> DEFINE y == e.synced
    <3>1. y \in Nat /\ f \in Nat /\ e.after \in Nat /\ le \in Nat
      BY <1>0
    <3>2. e.after + 1 - f <= y /\ y <= le
      BY <1>b
    <3> HIDE DEF y, f, le
    <3> QED BY <3>1, <3>2
  <2> QED BY <1>0, <1>b, <2>1
<1>1. n \in 0..Len(p) /\ n \in Nat /\ Len(p) \in Nat
  <2> HIDE DEF n, f, le, ld
  <2> QED BY <1>c
<1>2. q \in Seq(Turn) /\ Len(q) = n /\ Extends(p, q) /\ Chain(q)
  BY <1>1, ChainCut
<1> HIDE DEF q
<1>3. Complete(e, q)
  BY <1>0, <1>1, <1>2 DEF Complete
<1>4. TurnsOK(e, q)
  <2>1. ASSUME NEW i \in 1..Len(e.turns)
        PROVE  e.turns[i] = q[e.first + i - 1]
    <3>1. i \in 1..ld /\ f + i - 1 \in 1..n
      <4>1. i \in 1..le
        OBVIOUS
      <4> HIDE DEF n, f, le, ld
      <4> QED BY <1>c, <4>1
    <3>2. d.turns[i] = p[d.first + i - 1]
      BY <3>1 DEF FileOK, TurnsOK
    <3>3. q[e.first + i - 1] = p[e.first + i - 1]
      BY <1>2, <3>1 DEF Extends
    <3> QED BY <3>1, <3>2, <3>3
  <2>2. f + le <= Len(q) + 1
    <3>1. Len(q) = n
      BY <1>2
    <3> HIDE DEF n, f, le, ld
    <3> QED BY <1>c, <3>1
  <2> QED BY <1>b, <2>1, <2>2 DEF TurnsOK, Kept
<1>5. \A i \in 1..(n + 1) : EventBefore(p, i) = EventBefore(q, i) /\ SealedBefore(p, i) = SealedBefore(q, i)
  BY <1>2, BeforeExtends
<1>6. BaseOK(e, q)
  <2>1. f \in 1..(n + 1) /\ e.after + 1 \in 1..(n + 1)
    <3> DEFINE g == e.after
    <3>1. f \in Nat /\ le \in Nat /\ g \in Nat /\ 1 <= f /\ g + 1 - f <= le /\ n = f - 1 + le
      BY <1>c
    <3> HIDE DEF n, f, le, g
    <3>2. f \in 1..(n + 1)
      BY <3>1
    <3>3. g + 1 \in 1..(n + 1)
      BY <3>1
    <3> QED BY <3>2, <3>3 DEF g
  <2> QED BY <1>5, <2>1 DEF FileOK, BaseOK
<1>7. MarksOK(e, q)
  <2>1. ASSUME NEW i \in 1..Len(e.marks)
        PROVE  /\ Kept(e) <= e.marks[i].at /\ e.marks[i].at <= Len(e.turns)
               /\ e.marks[i].after = e.first + e.marks[i].at - 1
               /\ e.marks[i].event = EventBefore(q, e.marks[i].after + 1)
    <3> DEFINE a == d.marks[i].after
               t == d.marks[i].at
    <3>1. i \in 1..Len(d.marks) /\ e.marks[i] = d.marks[i]
      BY DiskType
    <3>2. t \in Nat /\ a \in Nat /\ e.first \in Nat /\ Len(e.turns) \in Nat
      BY <1>0, <3>1, DiskType
    <3>3. Kept(d) <= t /\ a = d.first + t - 1 /\ d.marks[i].event = EventBefore(p, a + 1)
      BY <3>1 DEF FileOK, MarksOK
    <3>4. t <= Len(e.turns) /\ 1 <= e.first
      BY <3>1 DEF FileOK, TurnsOK
    <3>5. Kept(e) = Kept(d)
      BY DEF Kept
    <3> HIDE DEF a, t
    <3>6. a + 1 \in 1..(n + 1)
      BY <3>2, <3>3, <3>4, SMTT(30)
    <3> QED BY <1>5, <3>1, <3>3, <3>4, <3>5, <3>6 DEF a, t
  <2>2. ASSUME NEW i \in 1..(Len(e.marks) - 1)
        PROVE  e.marks[i].at <= e.marks[i + 1].at
    <3>1. i \in 1..(Len(d.marks) - 1) /\ i \in 1..Len(e.marks) /\ i + 1 \in 1..Len(e.marks)
      BY <1>0
    <3> QED BY <3>1 DEF FileOK, MarksOK
  <2> QED BY <2>1, <2>2 DEF MarksOK
<1> QED BY <1>2, <1>3, <1>4, <1>6, <1>7 DEF FileOK, q

\* The histories a file names begin within the log, the first at its start.
LEMMA FileHistories ==
    ASSUME NEW d \in Disk, NEW p \in Seq(Turn), FileOK(d, p)
    PROVE  HistoriesOK(DiskHistories(d), Len(p))
<1> DEFINE H == DiskHistories(d)
           b == Len(d.histories)
<1>1. H \in Seq(History) /\ Len(H) = b + Len(d.marks) /\ b \in Nat /\ Len(d.marks) \in Nat /\ b >= 1
  <2>1. H \in Seq(History) /\ Len(H) = b + Len(d.marks)
    BY DiskHistoriesType
  <2>2. b \in Nat /\ Len(d.marks) \in Nat /\ d.histories \in Seq(History)
    BY DEF Disk
  <2>3. b # 0
    BY <2>2, EmptySeq DEF FileOK, BaseOK
  <2> QED BY <2>1, <2>2, <2>3
<1>2. \A i \in 1..b : H[i] = d.histories[i]
  BY DiskHistoriesType
<1>3. \A i \in 1..Len(d.marks) : H[b + i].id = d.marks[i].id /\ H[b + i].after = d.marks[i].after
  <2>1. \A i \in 1..Len(d.marks) :
          H[b + i] = [id |-> d.marks[i].id, after |-> d.marks[i].after]
    BY DiskHistoriesType
  <2> HIDE DEF H
  <2> TAKE i \in 1..Len(d.marks)
  <2>2. H[b + i] = [id |-> d.marks[i].id, after |-> d.marks[i].after]
    BY <2>1
  <2> QED BY <2>2
<1> HIDE DEF H, b
<1>4. d.after <= Len(p) /\ d.after \in Nat /\ Len(p) \in Nat
  BY FileBounds, DiskNumbers
<1>5. \A i \in 1..Len(d.marks) :
        /\ d.after <= d.marks[i].after /\ d.marks[i].after <= Len(p)
        /\ d.marks[i].after = d.first + d.marks[i].at - 1
        /\ d.marks[i].at \in Nat /\ d.first \in Nat
  <2> TAKE i \in 1..Len(d.marks)
  <2> DEFINE a == d.marks[i].after
             t == d.marks[i].at
  <2>1. t \in Nat /\ a \in Nat /\ d.first \in Nat /\ Len(d.turns) \in Nat
    BY DiskType
  <2>2. Kept(d) <= t /\ t <= Len(d.turns) /\ a = d.first + t - 1
    BY DEF FileOK, MarksOK
  <2>3. d.first + Len(d.turns) <= Len(p) + 1
    BY DEF FileOK, TurnsOK
  <2> HIDE DEF a, t
  <2>4. d.after <= a /\ a <= Len(p)
    BY <1>4, <2>1, <2>2, <2>3, SMTT(30) DEF Kept
  <2> QED BY <2>1, <2>2, <2>4 DEF a, t
<1>6. H # <<>> /\ H[1].after = 0
  <2>1. 1 \in 1..b /\ Len(H) # 0
    BY <1>1
  <2>2. d.histories[1].after = 0
    BY DEF FileOK, BaseOK
  <2> QED BY <1>1, <1>2, <2>1, <2>2, EmptySeq
<1>7. ASSUME NEW i \in 1..Len(H)
      PROVE  H[i].id \in HistoryId /\ H[i].after \in Nat /\ H[i].after <= Len(p)
  <2>1. H[i] \in History
    BY <1>1, ElementOfSeq
  <2>2. CASE i <= b
    <3>1. i \in 1..b
      BY <1>1, <2>2
    <3>2. H[i].after <= d.after
      BY <1>2, <3>1 DEF FileOK, BaseOK, b
    <3> QED BY <1>4, <2>1, <3>2 DEF History
  <2>3. CASE i > b
    <3> DEFINE x == i - b
    <3>1. x \in 1..Len(d.marks) /\ i = b + x
      BY <1>1, <2>3
    <3> HIDE DEF x
    <3> QED BY <1>3, <1>5, <2>1, <3>1 DEF History
  <2> QED BY <1>1, <2>2, <2>3
<1>8. ASSUME NEW i \in 1..(Len(H) - 1)
      PROVE  H[i].after <= H[i + 1].after
  <2>1. CASE i + 1 <= b
    <3>1. i \in 1..b /\ i + 1 \in 1..b /\ i \in 1..(b - 1)
      BY <1>1, <2>1
    <3>2. \A k \in 1..(b - 1) : d.histories[k].after <= d.histories[k + 1].after
      BY DEF FileOK, BaseOK, b
    <3> QED BY <1>2, <3>1, <3>2
  <2>2. CASE i = b
    <3>1. i \in 1..b /\ 1 \in 1..Len(d.marks)
      BY <1>1, <2>2
    <3>2. H[i].after <= d.after /\ d.after <= H[b + 1].after
      <4>1. d.histories[i].after <= d.after
        BY <3>1 DEF FileOK, BaseOK, b
      <4> QED BY <1>2, <1>3, <1>5, <3>1, <4>1
    <3>3. i \in 1..Len(H) /\ i + 1 \in 1..Len(H)
      BY <1>1
    <3>4. H[i].after \in Nat /\ H[i + 1].after \in Nat
      BY <1>7, <3>3
    <3> QED BY <1>4, <2>2, <3>2, <3>4
  <2>3. CASE i > b
    <3> DEFINE x == i - b
    <3>1. x \in 1..(Len(d.marks) - 1) /\ x \in 1..Len(d.marks) /\ x + 1 \in 1..Len(d.marks)
          /\ i = b + x /\ i + 1 = b + (x + 1)
      BY <1>1, <2>3
    <3> HIDE DEF x
    <3>2. d.marks[x].at <= d.marks[x + 1].at
      BY <3>1 DEF FileOK, MarksOK
    <3>3. d.marks[x].after <= d.marks[x + 1].after
      <4> DEFINE y == x + 1
                 tx == d.marks[x].at
                 ty == d.marks[y].at
      <4>1. d.marks[x].after = d.first + tx - 1 /\ d.marks[y].after = d.first + ty - 1
            /\ tx \in Nat /\ ty \in Nat /\ d.first \in Nat
        BY <1>5, <3>1
      <4>2. tx <= ty
        BY <3>2
      <4> HIDE DEF tx, ty
      <4> QED BY <4>1, <4>2
    <3> QED BY <1>3, <3>1, <3>3
  <2> QED BY <1>1, <2>1, <2>2, <2>3
<1> QED BY <1>1, <1>6, <1>7, <1>8 DEF H, HistoriesOK
-----------------------------------------------------------------------------
(* What sealing makes                                                      *)

\* Game::seal is asked to seal `events` up to `frontier` where the log ends.
Sealing(events, next, cut, m, frontier) ==
    /\ played \in Seq(Turn) /\ nextTurn = Len(played) + 1
    /\ sealed \in Nat /\ sealed = SealedBefore(played, nextTurn)
    /\ events \in Seq(Event) /\ next \in Nat
    /\ next = EventBefore(played, nextTurn) + Len(events)
    /\ Numbered(events, EventBefore(played, nextTurn), sealed)
    /\ m \in 1..(Len(events) + 1) /\ cut \in [0..m -> 0..Len(events)]
    /\ IsCut(cut, m, Len(events))
    /\ frontier \in Nat /\ frontier >= sealed

\* The turns one sealing makes carry on where the log ends, and leave the
\* event numbers and the frontier where Game::seal says.
LEMMA SealedTurnsCarryOn ==
    ASSUME NEW events, NEW next, NEW cut, NEW m, NEW frontier,
           Sealing(events, next, cut, m, frontier)
    PROVE  LET new == SealedTurns(events, next, cut, m, frontier) IN
           /\ new \in Seq(Turn) /\ Len(new) = m
           /\ CarriesOn(played, new)
           /\ NextEvent(new[m]) = next /\ new[m].sealed = frontier
<1> DEFINE E0 == EventBefore(played, nextTurn)
           n == Len(events)
           new == SealedTurns(events, next, cut, m, frontier)
           first(k) == E0 + cut[k - 1]
           mark(k) == IF k = m THEN frontier ELSE sealed
<1>0. /\ played \in Seq(Turn) /\ nextTurn = Len(played) + 1
      /\ sealed \in Nat /\ sealed = SealedBefore(played, nextTurn)
      /\ events \in Seq(Event) /\ next \in Nat /\ next = E0 + n
      /\ m \in 1..(n + 1) /\ cut \in [0..m -> 0..n] /\ IsCut(cut, m, n)
      /\ frontier \in Nat /\ frontier >= sealed
  BY DEF Sealing
<1>n. \A j \in 1..n : events[j].seq = E0 + j - 1 /\ events[j].step = sealed + 1
  BY DEF Sealing, Numbered
<1>1. n \in Nat /\ m \in Nat /\ m >= 1 /\ nextTurn \in Nat /\ nextTurn >= 1
  BY <1>0
<1>2. E0 \in Nat
  <2>1. nextTurn \in 1..(Len(played) + 1)
    BY <1>0, <1>1
  <2> QED BY <1>0, <2>1, BeforeType
<1>3. \A k \in 0..m : cut[k] \in Nat /\ cut[k] <= n
  BY <1>0, <1>1
<1>4. \A k, l \in 0..m : k <= l => cut[k] <= cut[l]
  <2> TAKE k \in 0..m, l \in 0..m
  <2>1. CASE n = 0
    BY <1>1, <1>3, <2>1
  <2>2. CASE n # 0
    <3>1. k < l => cut[k] < cut[l]
      BY <1>0, <2>2 DEF IsCut
    <3> QED BY <1>1, <1>3, <3>1
  <2> QED BY <2>1, <2>2
<1>5. cut[0] = 0 /\ cut[m] = n
  BY <1>0 DEF IsCut
<1>6. ASSUME NEW k \in 1..m
      PROVE  /\ k \in 0..m /\ k - 1 \in 0..m
             /\ cut[k] \in Nat /\ cut[k - 1] \in Nat /\ cut[k - 1] <= cut[k] /\ cut[k] <= n
  <2>1. k \in 0..m /\ k - 1 \in 0..m /\ k - 1 <= k
    BY <1>1
  <2> QED BY <1>3, <1>4, <2>1
<1>7. ASSUME NEW k \in 1..m
      PROVE  /\ SubSeq(events, cut[k - 1] + 1, cut[k]) \in Seq(Event)
             /\ Len(SubSeq(events, cut[k - 1] + 1, cut[k])) = cut[k] - cut[k - 1]
             /\ \A j \in 1..(cut[k] - cut[k - 1]) :
                  SubSeq(events, cut[k - 1] + 1, cut[k])[j] = events[cut[k - 1] + j]
  <2> DEFINE a == cut[k - 1]
             b == cut[k]
  <2>1. a \in Nat /\ b \in Nat /\ a <= b /\ b <= n
    BY <1>6
  <2> HIDE DEF a, b
  <2>2. \A i \in (a + 1)..b : events[i] \in Event
    <3>1. \A i \in (a + 1)..b : i \in 1..n
      BY <1>1, <2>1
    <3> QED BY <1>0, <3>1, ElementOfSeq
  <2>3. /\ SubSeq(events, a + 1, b) \in Seq(Event)
        /\ Len(SubSeq(events, a + 1, b)) = (IF a + 1 <= b THEN b - (a + 1) + 1 ELSE 0)
        /\ \A i \in 1 .. b - (a + 1) + 1 : SubSeq(events, a + 1, b)[i] = events[a + 1 + i - 1]
    BY <1>0, <2>1, <2>2, SubSeqProperties
  <2>4. \A i \in 1..(b - a) : i \in 1 .. b - (a + 1) + 1 /\ a + 1 + i - 1 = a + i
    BY <2>1
  <2>5. Len(SubSeq(events, a + 1, b)) = b - a
    BY <2>1, <2>3
  <2>6. \A i \in 1..(b - a) : SubSeq(events, a + 1, b)[i] = events[a + i]
    BY <2>3, <2>4
  <2> QED BY <2>3, <2>5, <2>6 DEF a, b
<1>8. ASSUME NEW k \in 1..m
      PROVE  /\ (IF events = <<>> THEN next ELSE events[cut[k - 1] + 1].seq) = first(k)
             /\ first(k) \in Nat
  <2> DEFINE a == cut[k - 1]
  <2>1. CASE n = 0
    <3>1. events = <<>> /\ a = 0 /\ next = E0
      BY <1>0, <1>2, <1>6, <2>1, EmptySeq
    <3> QED BY <1>2, <3>1
  <2>2. CASE n # 0
    <3>1. events # <<>>
      BY <2>2
    <3>2. cut[k - 1] < cut[k]
      <4>1. k \in 0..m /\ k - 1 \in 0..m /\ k - 1 < k
        BY <1>1, <1>6
      <4> QED BY <1>0, <2>2, <4>1 DEF IsCut
    <3>3. a + 1 \in 1..n /\ a \in Nat
      <4> DEFINE b == cut[k]
      <4>1. a \in Nat /\ b \in Nat /\ b <= n /\ a < b
        BY <1>6, <3>2
      <4> HIDE DEF a, b, n
      <4> QED BY <1>1, <4>1
    <3>4. events[a + 1].seq = E0 + (a + 1) - 1
      BY <1>n, <3>3
    <3> HIDE DEF a, E0
    <3>5. events[a + 1].seq = E0 + a
      BY <1>2, <3>3, <3>4
    <3>6. first(k) = E0 + a /\ E0 + a \in Nat
      BY <1>2, <3>3 DEF a
    <3> HIDE DEF first
    <3> QED BY <3>1, <3>5, <3>6 DEF a
  <2> QED BY <2>1, <2>2
<1>9. ASSUME NEW k \in 1..m
      PROVE  /\ new[k].number = Len(played) + k /\ new[k].first = first(k)
             /\ new[k].sealed = mark(k)
             /\ new[k].events = SubSeq(events, cut[k - 1] + 1, cut[k])
             /\ new[k] \in Turn
  <2>1. new[k] = [number |-> nextTurn + k - 1,
                  first  |-> IF events = <<>> THEN next ELSE events[cut[k - 1] + 1].seq,
                  sealed |-> mark(k),
                  events |-> SubSeq(events, cut[k - 1] + 1, cut[k])]
    BY DEF SealedTurns
  <2>2. nextTurn + k - 1 = Len(played) + k /\ nextTurn + k - 1 \in Nat
    BY <1>0, <1>1
  <2> HIDE DEF first, new
  <2>3. new[k] = [number |-> Len(played) + k, first |-> first(k), sealed |-> mark(k),
                  events |-> SubSeq(events, cut[k - 1] + 1, cut[k])]
    BY <1>8, <2>1, <2>2
  <2>4. mark(k) \in Nat
    BY <1>0
  <2> DEFINE x == Len(played) + k
             f == first(k)
             z == mark(k)
             es == SubSeq(events, cut[k - 1] + 1, cut[k])
  <2>5. x \in Nat /\ f \in Nat /\ z \in Nat /\ es \in Seq(Event)
    BY <1>7, <1>8, <2>2, <2>4
  <2>6. new[k] = [number |-> x, first |-> f, sealed |-> z, events |-> es]
    BY <2>3
  <2> HIDE DEF mark, x, f, z, es
  <2>7. /\ new[k].number = x /\ new[k].first = f /\ new[k].sealed = z /\ new[k].events = es
        /\ new[k] \in Turn
    BY <2>5, <2>6 DEF Turn
  <2> QED BY <2>7 DEF x, f, z, es
<1>10. new \in Seq(Turn) /\ Len(new) = m
  <2>1. \A k \in 1..m : new[k] \in Turn
    BY <1>9
  <2>2. new = [k \in 1..m |-> new[k]]
    BY DEF SealedTurns
  <2> HIDE DEF new
  <2>3. new \in [1..m -> Turn]
    BY <2>1, <2>2
  <2> QED BY <1>1, <2>3
<1> HIDE DEF new, first
<1>11. ASSUME NEW k \in 1..m
       PROVE  NextEvent(new[k]) = E0 + cut[k] /\ NextEvent(new[k]) \in Nat
  <2> DEFINE a == cut[k - 1]
             b == cut[k]
  <2>1. new[k].first = E0 + a /\ Len(new[k].events) = b - a
    BY <1>7, <1>9 DEF first
  <2>2. a \in Nat /\ b \in Nat
    BY <1>6
  <2> HIDE DEF a, b, E0
  <2>3. NextEvent(new[k]) = E0 + b /\ NextEvent(new[k]) \in Nat
    BY <1>2, <2>1, <2>2 DEF NextEvent
  <2> QED BY <2>3 DEF b
<1>12. ASSUME NEW k \in 1..m
       PROVE  Follows(new[k], Len(played) + k,
                      IF k = 1 THEN EventBefore(played, Len(played) + 1) ELSE NextEvent(new[k - 1]),
                      IF k = 1 THEN SealedBefore(played, Len(played) + 1) ELSE new[k - 1].sealed)
  <2> DEFINE ev == IF k = 1 THEN EventBefore(played, Len(played) + 1) ELSE NextEvent(new[k - 1])
             fr == IF k = 1 THEN SealedBefore(played, Len(played) + 1) ELSE new[k - 1].sealed
  <2>1. ev = E0 + cut[k - 1]
    <3>1. CASE k = 1
      BY <1>0, <1>2, <1>5, <3>1
    <3>2. CASE k # 1
      <4>1. k - 1 \in 1..m
        BY <1>1, <3>2
      <4> QED BY <1>11, <3>2, <4>1
    <3> QED BY <3>1, <3>2
  <2>2. fr = sealed
    <3>1. CASE k = 1
      BY <1>0, <3>1
    <3>2. CASE k # 1
      <4>1. k - 1 \in 1..m /\ k - 1 # m
        BY <1>1, <3>2
      <4> QED BY <1>9, <3>2, <4>1
    <3> QED BY <3>1, <3>2
  <2>3. new[k].first = ev
    BY <1>9, <2>1 DEF first
  <2>4. new[k].sealed >= fr
    <3>1. mark(k) >= sealed
      BY <1>0
    <3> QED BY <1>9, <2>2, <3>1
  <2>5. ASSUME NEW j \in 1..Len(new[k].events)
        PROVE  new[k].events[j].seq = ev + j - 1 /\ new[k].events[j].step = fr + 1
    <3> DEFINE a == cut[k - 1]
               b == cut[k]
    <3>1. a \in Nat /\ b \in Nat /\ b <= n
      BY <1>6
    <3>2. Len(new[k].events) = b - a
      BY <1>7, <1>9
    <3>3. j \in 1..(b - a)
      BY <3>2
    <3>4. new[k].events[j] = events[a + j]
      BY <1>7, <1>9, <3>3
    <3> HIDE DEF a, b, E0, n
    <3>5. a + j \in 1..n
      BY <1>1, <3>1, <3>3
    <3>6. events[a + j].seq = E0 + (a + j) - 1 /\ events[a + j].step = sealed + 1
      BY <1>n, <3>5
    <3>7. E0 + (a + j) - 1 = (E0 + a) + j - 1
      BY <1>2, <3>1, <3>3
    <3> QED BY <2>1, <2>2, <3>4, <3>6, <3>7 DEF a
  <2> HIDE DEF ev, fr
  <2>6. Follows(new[k], Len(played) + k, ev, fr)
    BY <1>9, <2>3, <2>4, <2>5 DEF Follows
  <2> QED BY <2>6 DEF ev, fr
<1>13. ASSUME NEW k \in 1..m, NEW l \in 1..m, k <= l
       PROVE  /\ EventBefore(played, Len(played) + 1) <= NextEvent(new[k])
              /\ NextEvent(new[k]) <= NextEvent(new[l])
              /\ SealedBefore(played, Len(played) + 1) <= new[k].sealed
              /\ new[k].sealed <= new[l].sealed
  <2> DEFINE a == cut[k]
             b == cut[l]
  <2>1. a \in Nat /\ b \in Nat /\ a <= b
    <3>1. k \in 0..m /\ l \in 0..m
      BY <1>1
    <3> QED BY <1>3, <1>4, <1>13, <3>1
  <2>2. NextEvent(new[k]) = E0 + a /\ NextEvent(new[l]) = E0 + b
    BY <1>11
  <2>3. EventBefore(played, Len(played) + 1) = E0
    BY <1>0
  <2>4. new[k].sealed = mark(k) /\ new[l].sealed = mark(l)
    BY <1>9
  <2>5. k = m => l = m
    BY <1>1, <1>13
  <2>6. SealedBefore(played, Len(played) + 1) <= mark(k) /\ mark(k) <= mark(l)
    BY <1>0, <2>5
  <2> HIDE DEF a, b, E0, mark
  <2> QED BY <1>2, <2>1, <2>2, <2>3, <2>4, <2>6
<1>14. CarriesOn(played, new)
  BY <1>10, <1>12, <1>13 DEF CarriesOn
<1>15. NextEvent(new[m]) = next /\ new[m].sealed = frontier
  <2>1. m \in 1..m
    BY <1>1
  <2> QED BY <1>0, <1>5, <1>9, <1>11, <2>1
<1> QED BY <1>10, <1>14, <1>15 DEF new
-----------------------------------------------------------------------------
(* What the actions make of a log file                                     *)

\* Turns appended to a complete file.
LEMMA FileAppend ==
    ASSUME NEW d \in Disk, NEW p \in Seq(Turn), NEW q \in Seq(Turn), NEW w \in Seq(Turn),
           FileOK(d, p), Complete(d, p), Extends(q, p),
           Len(p) + Len(w) <= Len(q),
           \A i \in 1..Len(w) : w[i] = q[Len(p) + i]
    PROVE  LET e == [d EXCEPT !.turns = @ \o w] IN
           /\ e \in Disk /\ FileOK(e, q) /\ DiskHistories(e) = DiskHistories(d)
           /\ Len(p) + Len(w) = Len(q) => Complete(e, q)
<1> DEFINE e == [d EXCEPT !.turns = @ \o w]
           dl == Len(d.turns)
           wl == Len(w)
           el == Len(e.turns)
           f  == d.first
           g  == d.after
           y  == d.synced
<1>1. /\ e.first = f /\ e.firstEvent = d.firstEvent /\ e.sealedBefore = d.sealedBefore
      /\ e.after = g /\ e.nextEvent = d.nextEvent /\ e.sealed = d.sealed
      /\ e.histories = d.histories /\ e.marks = d.marks /\ e.synced = y
      /\ e.turns = d.turns \o w
  BY DEF Disk
<1>2. /\ d.turns \in Seq(Turn)
      /\ d.turns \o w \in Seq(Turn) /\ el = dl + wl
      /\ \A i \in 1..(dl + wl) :
            (d.turns \o w)[i] = IF i <= dl THEN d.turns[i] ELSE w[i - dl]
  <2>1. d.turns \in Seq(Turn)
    BY DiskType
  <2> QED BY <1>1, <2>1, ConcatProperties
<1>3. e \in Disk
  BY <1>2 DEF Disk
<1> HIDE DEF e
<1>4. /\ f \in Nat /\ g \in Nat /\ y \in Nat /\ dl \in Nat /\ wl \in Nat
      /\ 1 <= f /\ f <= g + 1 /\ f + dl = Len(p) + 1 /\ Len(p) \in Nat /\ Len(q) \in Nat
      /\ g + 1 - f <= y /\ y <= dl
  BY DiskNumbers, FileBounds DEF Complete
<1>5. FileOK(d, q)
  BY FileExtends
<1>6. TurnsOK(e, q)
  <2>1. ASSUME NEW i \in 1..el
        PROVE  e.turns[i] = q[f + i - 1]
    <3>1. CASE i <= dl
      <4>1. i \in 1..dl /\ i \in 1..(dl + wl)
        BY <1>2, <1>4, <3>1
      <4>2. d.turns[i] = q[f + i - 1]
        BY <1>5, <4>1 DEF FileOK, TurnsOK
      <4> QED BY <1>1, <1>2, <3>1, <4>1, <4>2
    <3>2. CASE i > dl
      <4> DEFINE x == i - dl
                 lp == Len(p)
      <4>1. lp \in Nat /\ f + dl = lp + 1
        BY <1>4
      <4>2. x \in 1..wl /\ lp + x = f + i - 1 /\ i \in 1..(dl + wl) /\ ~(i <= dl)
        <5>1. i \in 1..(dl + wl)
          BY <1>2
        <5> HIDE DEF dl, wl, f, lp
        <5> QED BY <1>4, <3>2, <4>1, <5>1
      <4>3. w[x] = q[lp + x]
        BY <4>2
      <4>4. e.turns[i] = w[x]
        BY <1>1, <1>2, <4>2
      <4> QED BY <4>2, <4>3, <4>4
    <3> QED BY <1>2, <1>4, <3>1, <3>2
  <2>2. f + el <= Len(q) + 1 /\ y <= el
    <3>1. el = dl + wl /\ Len(p) + wl <= Len(q)
      BY <1>2
    <3> HIDE DEF dl, wl, el, f, y, g
    <3> QED BY <1>4, <3>1
  <2> HIDE DEF el, f, y
  <2>3. e.first = f /\ e.after = g /\ e.synced = y /\ Len(e.turns) = el
    BY <1>1 DEF el
  <2> QED BY <1>4, <2>1, <2>2, <2>3 DEF TurnsOK, Kept
<1>7. BaseOK(e, q)
  BY <1>1, <1>5 DEF FileOK, BaseOK
<1>8. MarksOK(e, q)
  <2>1. ASSUME NEW i \in 1..Len(d.marks)
        PROVE  d.marks[i].at <= el
    <3>1. d.marks[i].at \in Nat /\ d.marks[i].at <= dl
      BY <1>5, DiskType DEF FileOK, MarksOK
    <3>2. el = dl + wl
      BY <1>2
    <3>3. dl \in Nat /\ wl \in Nat
      BY <1>4
    <3> DEFINE at == d.marks[i].at
    <3>4. at \in Nat /\ at <= dl
      BY <3>1
    <3> HIDE DEF dl, wl, el, f, y, g, at
    <3>5. at <= el
      BY <3>2, <3>3, <3>4
    <3> QED BY <3>5 DEF at
  <2>2. Kept(e) = Kept(d)
    BY <1>1 DEF Kept
  <2> QED BY <1>1, <1>5, <2>1, <2>2 DEF FileOK, MarksOK
<1>9. DiskHistories(e) = DiskHistories(d)
  BY <1>1 DEF DiskHistories
<1>10. ASSUME Len(p) + Len(w) = Len(q)
       PROVE  Complete(e, q)
  <2> DEFINE lp == Len(p)
             lq == Len(q)
  <2>1. lp + wl = lq /\ lp \in Nat /\ f + dl = lp + 1 /\ el = dl + wl
    BY <1>2, <1>4, <1>10
  <2>3. f \in Nat /\ dl \in Nat /\ wl \in Nat
    BY <1>4
  <2> HIDE DEF lp, lq, dl, wl, el, f
  <2>2. f + el = lq + 1
    BY <2>1, <2>3
  <2> QED BY <1>1, <2>2 DEF Complete, el, f, lq
<1> QED BY <1>3, <1>6, <1>7, <1>8, <1>9, <1>10 DEF FileOK, e

\* The marker of a new history appended to a complete file.
LEMMA FileMark ==
    ASSUME NEW d \in Disk, NEW p \in Seq(Turn), FileOK(d, p), Complete(d, p), NEW id \in HistoryId
    PROVE  LET h == [id |-> id, after |-> Len(p)]
               k == [id |-> id, after |-> Len(p), event |-> EventBefore(p, Len(p) + 1),
                     at |-> Len(d.turns)]
               e == [d EXCEPT !.marks = Append(@, k)] IN
           /\ e \in Disk /\ FileOK(e, p) /\ Complete(e, p)
           /\ DiskHistories(e) = Append(DiskHistories(d), h)
<1> DEFINE h == [id |-> id, after |-> Len(p)]
           k == [id |-> id, after |-> Len(p), event |-> EventBefore(p, Len(p) + 1),
                 at |-> Len(d.turns)]
           e == [d EXCEPT !.marks = Append(@, k)]
           n == Len(d.marks)
<1>1. /\ e.first = d.first /\ e.firstEvent = d.firstEvent /\ e.sealedBefore = d.sealedBefore
      /\ e.after = d.after /\ e.nextEvent = d.nextEvent /\ e.sealed = d.sealed
      /\ e.histories = d.histories /\ e.turns = d.turns /\ e.synced = d.synced
      /\ e.marks = Append(d.marks, k)
  BY DEF Disk
<1>2. k \in Mark
  <2>1. Len(p) + 1 \in 1..(Len(p) + 1) /\ Len(p) \in Nat
    OBVIOUS
  <2>2. EventBefore(p, Len(p) + 1) \in Nat
    BY <2>1, BeforeType
  <2> QED BY <2>1, <2>2, DiskNumbers DEF Mark
<1>3. /\ d.marks \in Seq(Mark) /\ e.marks \in Seq(Mark) /\ Len(e.marks) = n + 1 /\ n \in Nat
      /\ \A i \in 1..n : e.marks[i] = d.marks[i]
      /\ e.marks[n + 1] = k
  <2>1. d.marks \in Seq(Mark) /\ n \in Nat
    BY DiskType
  <2> HIDE DEF k
  <2>2. /\ Append(d.marks, k) \in Seq(Mark) /\ Len(Append(d.marks, k)) = n + 1
        /\ \A i \in 1..n : Append(d.marks, k)[i] = d.marks[i]
        /\ Append(d.marks, k)[n + 1] = k
    BY <1>2, <2>1, AppendProperties
  <2> QED BY <1>1, <2>1, <2>2
<1>4. e \in Disk
  BY <1>1, <1>3 DEF Disk
<1> HIDE DEF e
<1>5. TurnsOK(e, p) /\ BaseOK(e, p) /\ Complete(e, p)
  BY <1>1 DEF FileOK, TurnsOK, BaseOK, Complete, Kept
<1>6. MarksOK(e, p)
  <2>1. Kept(e) = Kept(d) /\ Kept(d) <= Len(d.turns) /\ Len(d.turns) \in Nat
        /\ Len(p) = d.first + Len(d.turns) - 1 /\ Len(p) \in Nat
    <3>1. d.first + Len(d.turns) = Len(p) + 1
      BY DEF Complete
    <3>2. Kept(e) = Kept(d)
      BY <1>1 DEF Kept
    <3>3. Kept(d) <= Len(d.turns)
      <4>1. d.after + 1 - d.first <= d.synced /\ d.synced <= Len(d.turns)
        BY FileBounds
      <4>2. d.first \in Nat /\ d.after \in Nat /\ d.synced \in Nat /\ Len(d.turns) \in Nat
        BY DiskNumbers
      <4> QED BY <4>1, <4>2 DEF Kept
    <3>4. d.first \in Nat /\ Len(d.turns) \in Nat /\ Len(p) \in Nat
      BY DiskNumbers
    <3>5. Len(p) = d.first + Len(d.turns) - 1
      BY <3>1, <3>4
    <3> QED BY <3>2, <3>3, <3>4, <3>5
  <2>2. ASSUME NEW i \in 1..(n + 1)
        PROVE  /\ Kept(e) <= e.marks[i].at /\ e.marks[i].at <= Len(e.turns)
               /\ e.marks[i].after = e.first + e.marks[i].at - 1
               /\ e.marks[i].event = EventBefore(p, e.marks[i].after + 1)
    <3>1. CASE i \in 1..n
      <4>1. /\ Kept(d) <= d.marks[i].at /\ d.marks[i].at <= Len(d.turns)
            /\ d.marks[i].after = d.first + d.marks[i].at - 1
            /\ d.marks[i].event = EventBefore(p, d.marks[i].after + 1)
        BY <3>1 DEF FileOK, MarksOK
      <4>2. e.marks[i] = d.marks[i]
        BY <1>3, <3>1
      <4> QED BY <1>1, <2>1, <4>1, <4>2
    <3>2. CASE i = n + 1
      <4>1. e.marks[i] = k
        BY <1>3, <3>2
      <4> QED BY <1>1, <2>1, <4>1, SMTT(30)
    <3> QED BY <1>3, <3>1, <3>2
  <2>3. ASSUME NEW i \in 1..n
        PROVE  e.marks[i].at <= e.marks[i + 1].at
    <3>1. CASE i = n
      <4>1. e.marks[i] = d.marks[i] /\ e.marks[i + 1] = k
        BY <1>3, <3>1
      <4>2. d.marks[i].at <= Len(d.turns)
        BY DEF FileOK, MarksOK
      <4> QED BY <4>1, <4>2
    <3>2. CASE i # n
      <4>1. i \in 1..(n - 1) /\ i + 1 \in 1..n
        BY <1>3, <3>2
      <4>2. d.marks[i].at <= d.marks[i + 1].at
        BY <4>1 DEF FileOK, MarksOK
      <4> QED BY <1>3, <4>1, <4>2
    <3> QED BY <3>1, <3>2
  <2>4. \A i \in 1..(Len(e.marks) - 1) : i \in 1..n
    BY <1>3
  <2> HIDE DEF n
  <2> QED BY <1>3, <2>2, <2>3, <2>4 DEF MarksOK
<1>7. DiskHistories(e) = Append(DiskHistories(d), h)
  <2> DEFINE H == DiskHistories(d)
             G == DiskHistories(e)
             b == Len(d.histories)
  <2>1. /\ H \in Seq(History) /\ Len(H) = b + n
        /\ \A i \in 1..b : H[i] = d.histories[i]
        /\ \A i \in 1..n : H[b + i] = [id |-> d.marks[i].id, after |-> d.marks[i].after]
    BY DiskHistoriesType
  <2>2. /\ G \in Seq(History) /\ Len(G) = b + (n + 1)
        /\ \A i \in 1..b : G[i] = e.histories[i]
        /\ \A i \in 1..(n + 1) : G[b + i] = [id |-> e.marks[i].id, after |-> e.marks[i].after]
    <3>1. e \in Disk /\ e.histories = d.histories /\ Len(e.marks) = n + 1
      BY <1>1, <1>3, <1>4
    <3>2. /\ G \in Seq(History) /\ Len(G) = Len(e.histories) + Len(e.marks)
          /\ \A i \in 1..Len(e.histories) : G[i] = e.histories[i]
          /\ \A i \in 1..Len(e.marks) :
                G[Len(e.histories) + i] = [id |-> e.marks[i].id, after |-> e.marks[i].after]
      BY <3>1, DiskHistoriesType
    <3> HIDE DEF n, G
    <3> QED BY <3>1, <3>2
  <2>3. b \in Nat /\ n \in Nat
    BY DiskNumbers
  <2>4. h \in History
    <3>1. Len(p) \in Nat
      OBVIOUS
    <3> QED BY <3>1 DEF History
  <2> HIDE DEF G, H, b, n
  <2>5. ASSUME NEW i \in 1..Len(H)
        PROVE  G[i] = H[i]
    <3>1. CASE i <= b
      <4>1. i \in 1..b
        BY <2>1, <2>3, <3>1
      <4> QED BY <1>1, <2>1, <2>2, <4>1
    <3>2. CASE i > b
      <4> DEFINE x == i - b
      <4>1. x \in 1..n /\ x \in 1..(n + 1) /\ i = b + x
        BY <2>1, <2>3, <3>2
      <4>2. e.marks[x] = d.marks[x]
        BY <1>3, <4>1
      <4> HIDE DEF x
      <4> QED BY <2>1, <2>2, <4>1, <4>2, ZenonT(40)
    <3> QED BY <2>1, <2>3, <3>1, <3>2
  <2>6. G[Len(H) + 1] = h
    <3>1. n + 1 \in 1..(n + 1) /\ Len(H) + 1 = b + (n + 1)
      BY <2>1, <2>3
    <3>2. G[b + (n + 1)] = [id |-> e.marks[n + 1].id, after |-> e.marks[n + 1].after]
      BY <2>2, <3>1
    <3>3. e.marks[n + 1] = k
      BY <1>3
    <3> QED BY <3>1, <3>2, <3>3
  <2>7. Len(G) = Len(H) + 1
    BY <2>1, <2>2, <2>3
  <2> HIDE DEF h
  <2>8. /\ Append(H, h) \in Seq(History) /\ Len(Append(H, h)) = Len(H) + 1
        /\ \A i \in 1..Len(H) : Append(H, h)[i] = H[i]
        /\ Append(H, h)[Len(H) + 1] = h
    BY <2>1, <2>4, AppendProperties
  <2>9. ASSUME NEW i \in 1..Len(G)
        PROVE  G[i] = Append(H, h)[i]
    <3>1. i \in 1..Len(H) \/ i = Len(H) + 1
      BY <2>1, <2>3, <2>7
    <3> QED BY <2>5, <2>6, <2>8, <3>1
  <2>10. G = Append(H, h)
    BY <2>2, <2>7, <2>8, <2>9, SeqEqual
  <2> QED BY <2>10 DEF G, H
<1> QED BY <1>4, <1>5, <1>6, <1>7 DEF FileOK, e, k, h
-----------------------------------------------------------------------------
(* What the actions make of the room's memory                              *)

\* The end of a sequence of turns is the end of the log it is part of.
LEMMA WindowOf ==
    ASSUME NEW p \in Seq(Turn), NEW all, NEW first, Piece(p, all, first),
           NEW before \in Nat, before = SealedBefore(p, first), NEW n \in 0..Len(all)
    PROVE  LET w == SubSeq(all, n + 1, Len(all))
               f == first + n
               s == IF n = 0 THEN before ELSE all[n].sealed IN
           Piece(p, w, f) /\ s \in Nat /\ s = SealedBefore(p, f)
<1> DEFINE w == SubSeq(all, n + 1, Len(all))
           f == first + n
           s == IF n = 0 THEN before ELSE all[n].sealed
           a == Len(all)
<1>0. /\ all \in Seq(Turn) /\ first \in Nat /\ 1 <= first
      /\ first + a = Len(p) + 1
      /\ \A i \in 1..a : all[i] = p[first + i - 1]
  BY DEF Piece
<1>1. a \in Nat /\ n \in Nat /\ n <= a
  BY <1>0
<1>2. /\ w \in Seq(Turn) /\ Len(w) = a - n
      /\ \A i \in 1..(a - n) : w[i] = all[n + i]
  <2>1. \A i \in (n + 1)..a : all[i] \in Turn
    <3>1. \A i \in (n + 1)..a : i \in 1..a
      BY <1>1
    <3> QED BY <1>0, <3>1, ElementOfSeq
  <2> HIDE DEF a
  <2>2. /\ SubSeq(all, n + 1, a) \in Seq(Turn)
        /\ Len(SubSeq(all, n + 1, a)) = (IF n + 1 <= a THEN a - (n + 1) + 1 ELSE 0)
        /\ \A i \in 1 .. a - (n + 1) + 1 : SubSeq(all, n + 1, a)[i] = all[n + 1 + i - 1]
    BY <1>0, <1>1, <2>1, SubSeqProperties
  <2>3. \A i \in 1..(a - n) : i \in 1 .. a - (n + 1) + 1 /\ n + 1 + i - 1 = n + i
    BY <1>1
  <2>4. Len(SubSeq(all, n + 1, a)) = a - n
    BY <1>1, <2>2
  <2>5. \A i \in 1..(a - n) : SubSeq(all, n + 1, a)[i] = all[n + i]
    BY <2>2, <2>3
  <2> QED BY <2>2, <2>4, <2>5 DEF a
<1> HIDE DEF w
<1>3. f \in Nat \ {0} /\ f + Len(w) = Len(p) + 1
  <2> DEFINE lw == Len(w)
             lp == Len(p)
  <2>1. first + a = lp + 1 /\ lw = a - n /\ lp \in Nat
    BY <1>0, <1>2
  <2>2. first \in Nat /\ 1 <= first /\ n \in Nat
    BY <1>0, <1>1
  <2> HIDE DEF a, lw, lp
  <2>3. first + n \in Nat \ {0} /\ (first + n) + lw = lp + 1
    BY <1>1, <2>1, <2>2
  <2> QED BY <2>3 DEF lw, lp
<1>4. ASSUME NEW i \in 1..Len(w)
      PROVE  w[i] = p[f + i - 1]
  <2>1. i \in 1..(a - n) /\ n + i \in 1..a /\ first + (n + i) - 1 = f + i - 1
    BY <1>0, <1>1, <1>2, SMTT(30)
  <2> QED BY <1>0, <1>2, <2>1
<1>5. s \in Nat /\ s = SealedBefore(p, f)
  <2>1. CASE n = 0
    BY <1>0, <2>1
  <2>2. CASE n # 0
    <3>1. n \in 1..a /\ f # 1 /\ first + n - 1 = f - 1
      BY <1>0, <1>1, <2>2
    <3>2. all[n] = p[f - 1] /\ all[n].sealed \in Nat
      BY <1>0, <3>1, ElementOfSeq, TurnType
    <3> HIDE DEF f
    <3> QED BY <2>2, <3>1, <3>2 DEF SealedBefore
  <2> QED BY <2>1, <2>2
<1> QED BY <1>2, <1>3, <1>4, <1>5 DEF w, Piece

\* The log Game::base and the window's turns make.
LEMMA Compacted ==
    ASSUME NEW p \in Seq(Turn), Chain(p), NEW w, NEW f, Piece(p, w, f),
           NEW sb \in Nat, sb = SealedBefore(p, f),
           NEW ne \in Nat, ne = EventBefore(p, Len(p) + 1),
           NEW sl \in Nat, sl = SealedBefore(p, Len(p) + 1),
           NEW hs, HistoriesOK(hs, Len(p)), NEW d, d = [first |-> f, sealedBefore |-> sb,
                       firstEvent |-> IF w = <<>> THEN ne ELSE w[1].first,
                       after |-> Len(p), nextEvent |-> ne, sealed |-> sl,
                       histories |-> hs, turns |-> w, marks |-> <<>>, synced |-> Len(w)]
    PROVE  /\ d \in Disk /\ FileOK(d, p) /\ Complete(d, p)
           /\ DiskHistories(d) = hs
<1> DEFINE wl == Len(w)
           lp == Len(p)
<1> USE DEF Piece, HistoriesOK
<1>1. wl \in Nat /\ lp \in Nat /\ f + wl = lp + 1 /\ f >= 1
  OBVIOUS
<1>2. d.firstEvent = EventBefore(p, f) /\ d.firstEvent \in Nat
  <2>1. CASE w = <<>>
    <3>1. wl = 0
      BY <2>1
    <3> HIDE DEF wl, lp
    <3>2. f = lp + 1
      BY <1>1, <3>1
    <3> QED BY <2>1, <3>2 DEF lp
  <2>2. CASE w # <<>>
    <3>1. wl # 0
      BY <2>2, EmptySeq
    <3>2. 1 \in 1..wl /\ f \in 1..lp /\ f + 1 - 1 = f
      <4> HIDE DEF wl, lp
      <4> QED BY <1>1, <3>1
    <3>3. w[1] = p[f] /\ w[1] \in Turn
      BY <3>2, ElementOfSeq
    <3>4. p[f].first = EventBefore(p, f)
      BY <3>2 DEF Chain, Follows
    <3> QED BY <2>2, <3>3, <3>4, TurnType
  <2> QED BY <2>1, <2>2
<1>3. d \in Disk
  <2> DEFINE fe == d.firstEvent
  <2>1. d = [first |-> f, sealedBefore |-> sb, firstEvent |-> fe,
             after |-> lp, nextEvent |-> ne, sealed |-> sl,
             histories |-> hs, turns |-> w, marks |-> <<>>, synced |-> wl]
    OBVIOUS
  <2>2. fe \in Nat /\ <<>> \in Seq(Mark)
    BY <1>2
  <2> HIDE DEF fe, wl, lp
  <2> QED BY <1>1, <2>1, <2>2 DEF Disk
<1>4. /\ d.first = f /\ d.sealedBefore = sb /\ d.after = lp /\ d.nextEvent = ne /\ d.sealed = sl
      /\ d.histories = hs /\ d.turns = w /\ d.marks = <<>> /\ d.synced = wl
  OBVIOUS
<1>5. lp + 1 - f = wl /\ f <= lp + 1
  <2> HIDE DEF wl, lp
  <2> QED BY <1>1
<1>6. TurnsOK(d, p)
  BY <1>1, <1>4, <1>5 DEF TurnsOK, Kept
<1>7. BaseOK(d, p)
  BY <1>2, <1>4 DEF BaseOK
<1>8. MarksOK(d, p)
  BY <1>4 DEF MarksOK
<1>9. DiskHistories(d) = hs
  <2> DEFINE H == DiskHistories(d)
  <2>1. H \in Seq(History) /\ Len(H) = Len(hs) + 0 /\ \A i \in 1..Len(hs) : H[i] = hs[i]
    BY <1>3, <1>4, DiskHistoriesType, ZenonT(40)
  <2>2. Len(hs) \in Nat
    OBVIOUS
  <2> HIDE DEF H
  <2>3. Len(H) = Len(hs)
    BY <2>1, <2>2
  <2>4. H = hs
    BY <2>1, <2>3, SeqEqual
  <2> QED BY <2>4 DEF H
<1> QED BY <1>3, <1>4, <1>6, <1>7, <1>8, <1>9 DEF FileOK, Complete
-----------------------------------------------------------------------------
(* LInv is inductive                                                       *)

LEMMA LInvInit == Init => LInv
<1> SUFFICES ASSUME Init PROVE LInv
  OBVIOUS
<1> DEFINE n == Cardinality(Client)
           h == [id |-> FirstHistory, after |-> 0]
<1>1. n \in Nat
  BY ConstantsAssumption, FS_CardinalityType
<1>2. /\ up = TRUE /\ logOpen = TRUE /\ compaction = None /\ played = <<>>
      /\ nextTurn = 1 /\ sealed = 0 /\ log = <<>> /\ logFirst = 1 /\ sealedBefore = 0
      /\ nextEvent = n + 1
      /\ pending = [i \in 1..n |-> [seq |-> i, step |-> 1, body |-> FirstHistory]]
      /\ histories = <<h>> /\ disk = NewDisk
  BY DEF Init
<1>3. h \in History /\ FirstHistory \in HistoryId
  BY ConstantsAssumption DEF History
<1>4. NewDisk \in Disk /\ FileOK(NewDisk, <<>>) /\ Complete(NewDisk, <<>>)
  <2>1. /\ NewDisk.first = 1 /\ NewDisk.firstEvent = 1 /\ NewDisk.sealedBefore = 0
        /\ NewDisk.after = 0 /\ NewDisk.nextEvent = 1 /\ NewDisk.sealed = 0
        /\ NewDisk.histories = <<h>> /\ NewDisk.turns = <<>> /\ NewDisk.marks = <<>>
        /\ NewDisk.synced = 0
    BY DEF NewDisk
  <2>2. NewDisk \in Disk
    <3>1. <<h>> \in Seq(History) /\ <<>> \in Seq(Turn) /\ <<>> \in Seq(Mark)
      BY <1>3
    <3> HIDE DEF h
    <3>2. NewDisk = [first |-> 1, firstEvent |-> 1, sealedBefore |-> 0,
            after |-> 0, nextEvent |-> 1, sealed |-> 0,
            histories |-> <<h>>, turns |-> <<>>, marks |-> <<>>, synced |-> 0]
      BY DEF NewDisk, h
    <3> QED BY <3>1, <3>2 DEF Disk
  <2>3. TurnsOK(NewDisk, <<>>) /\ MarksOK(NewDisk, <<>>) /\ Complete(NewDisk, <<>>)
    BY <2>1 DEF TurnsOK, MarksOK, Complete, Kept
  <2>4. BaseOK(NewDisk, <<>>)
    BY <2>1 DEF BaseOK, EventBefore, SealedBefore
  <2> QED BY <2>2, <2>3, <2>4 DEF FileOK
<1>5. LogTypeOK
  <2>1. pending \in Seq(Event)
    <3>1. \A i \in 1..n : [seq |-> i, step |-> 1, body |-> FirstHistory] \in Event
      BY <1>3 DEF Event
    <3> HIDE DEF n
    <3> QED BY <1>1, <1>2, <3>1
  <2>2. histories \in Seq(History) /\ histories # <<>>
    BY <1>2, <1>3
  <2> HIDE DEF n, h
  <2> QED BY <1>1, <1>2, <1>4, <2>1, <2>2 DEF LogTypeOK
<1>6. Chain(played)
  BY <1>2 DEF Chain, EventBefore, SealedBefore
<1>7. GameOK
  <2>1. WindowOK
    BY <1>2 DEF WindowOK, SealedBefore, Piece
  <2>2. Len(pending) = n /\ \A j \in 1..n : pending[j].seq = j /\ pending[j].step = 1
    <3> HIDE DEF n
    <3> QED BY <1>1, <1>2
  <2>3. EventBefore(played, nextTurn) = 1
    BY <1>2 DEF EventBefore
  <2>4. PendingOK
    <3> HIDE DEF n
    <3> QED BY <1>1, <1>2, <2>2, <2>3 DEF PendingOK, Numbered
  <2>5. histories = DiskHistories(disk)
    <3> DEFINE H == DiskHistories(NewDisk)
    <3>1. H \in Seq(History) /\ Len(H) = 1 /\ H[1] = h
      <4>1. Len(NewDisk.histories) = 1 /\ Len(NewDisk.marks) = 0 /\ NewDisk.histories[1] = h
        BY DEF NewDisk
      <4>2. /\ H \in Seq(History) /\ Len(H) = Len(NewDisk.histories) + Len(NewDisk.marks)
            /\ \A i \in 1..Len(NewDisk.histories) : H[i] = NewDisk.histories[i]
        BY <1>4, DiskHistoriesType
      <4> HIDE DEF H, h
      <4> QED BY <4>1, <4>2
    <3> HIDE DEF H, h
    <3>2. H = <<h>>
      BY <3>1
    <3> QED BY <1>2, <3>2 DEF H
  <2> QED BY <2>1, <2>4, <2>5 DEF GameOK
<1>8. DiskOK
  BY <1>2, <1>4 DEF DiskOK
<1> QED BY <1>5, <1>6, <1>7, <1>8 DEF LInv

\* Sealing keeps the invariant: the window, the file and a compacted log
\* being written get the same turns, which carry on the chain.
LEMMA LInvSeal ==
    ASSUME LInv, up, NEW events \in Seq(Event), NEW next \in Nat,
           next = EventBefore(played, nextTurn) + Len(events),
           Numbered(events, EventBefore(played, nextTurn), sealed),
           NEW frontier, SealAndPublish(events, next, frontier)
    PROVE  LInv'
<1>0. /\ nextTurn = Len(played) + 1 /\ sealed \in Nat /\ played \in Seq(Turn) /\ Chain(played)
      /\ sealed = SealedBefore(played, nextTurn)
      /\ histories = DiskHistories(disk) /\ disk \in Disk /\ FileOK(disk, played)
      /\ logOpen => Complete(disk, played)
  BY DEF LInv, LogTypeOK, GameOK, WindowOK, DiskOK
<1> DEFINE turns(m, cut) == SealedTurns(events, next, cut, m, frontier)
<1>m. PICK m \in 1..(Len(events) + 1) :
        \E cut \in [0..m -> 0..Len(events)] :
            /\ IsCut(cut, m, Len(events))
            /\ frontier \in sealed..MaxSteps
            /\ UNCHANGED <<up, histories>>
            /\ nextTurn' = nextTurn + m /\ nextEvent' = next /\ sealed' = frontier /\ pending' = <<>>
            /\ Remember(turns(m, cut)) /\ LogTurns(turns(m, cut)) /\ Compact(turns(m, cut))
            /\ played' = played \o turns(m, cut)
  BY DEF SealAndPublish
<1>1. PICK cut \in [0..m -> 0..Len(events)] :
        /\ IsCut(cut, m, Len(events))
        /\ frontier \in sealed..MaxSteps
        /\ UNCHANGED <<up, histories>>
        /\ nextTurn' = nextTurn + m /\ nextEvent' = next /\ sealed' = frontier /\ pending' = <<>>
        /\ Remember(turns(m, cut)) /\ LogTurns(turns(m, cut)) /\ Compact(turns(m, cut))
        /\ played' = played \o turns(m, cut)
  BY <1>m
<1> DEFINE new == SealedTurns(events, next, cut, m, frontier)
<1>2. frontier \in Nat /\ frontier >= sealed
  BY <1>0, <1>1
<1>3. /\ new \in Seq(Turn) /\ Len(new) = m
      /\ CarriesOn(played, new)
      /\ NextEvent(new[m]) = next /\ new[m].sealed = frontier
  <2> HIDE DEF new
  <2>1. Sealing(events, next, cut, m, frontier)
    BY <1>0, <1>1, <1>2 DEF Sealing
  <2>2. new = SealedTurns(events, next, cut, m, frontier)
    BY DEF new
  <2>4. LET n == SealedTurns(events, next, cut, m, frontier) IN
        /\ n \in Seq(Turn) /\ Len(n) = m /\ CarriesOn(played, n)
        /\ NextEvent(n[m]) = next /\ n[m].sealed = frontier
    BY <2>1, SealedTurnsCarryOn
  <2> QED BY <2>2, <2>4
<1>4. played' = played \o new /\ Remember(new) /\ LogTurns(new) /\ Compact(new)
  BY <1>1
<1> HIDE DEF new
<1>5. /\ played' \in Seq(Turn) /\ Len(played') = Len(played) + Len(new)
      /\ Extends(played', played) /\ Chain(played')
      /\ \A k \in 1..Len(new) : played'[Len(played) + k] = new[k]
  BY <1>0, <1>3, <1>4, ChainConcat
<1>6. /\ nextTurn' = Len(played') + 1 /\ nextTurn' \in Nat \ {0}
      /\ m \in 1..m /\ m \in Nat /\ Len(played) \in Nat /\ nextTurn' # 1
      /\ nextTurn' - 1 = Len(played) + m
  <2> DEFINE lp == Len(played)
             lq == Len(played')
             le == Len(events)
  <2>1. /\ nextTurn = lp + 1 /\ nextTurn' = nextTurn + m /\ lq = lp + m /\ lp \in Nat
        /\ le \in Nat /\ m \in 1..(le + 1)
    BY <1>0, <1>1, <1>3, <1>5, SMTT(30)
  <2> HIDE DEF lp, lq, le
  <2>2. /\ m \in Nat /\ m >= 1
    BY <2>1
  <2>3. /\ nextTurn' = lq + 1 /\ nextTurn' \in Nat \ {0} /\ m \in 1..m /\ nextTurn' # 1
        /\ nextTurn' - 1 = lp + m
    BY <2>1, <2>2
  <2> QED BY <2>1, <2>2, <2>3 DEF lp, lq
<1>7. /\ EventBefore(played', nextTurn') = next
      /\ SealedBefore(played', nextTurn') = frontier
  <2>1. played'[nextTurn' - 1] = new[m]
    BY <1>3, <1>5, <1>6
  <2> QED BY <1>3, <1>6, <2>1 DEF EventBefore, SealedBefore, NextEvent
<1>8. next \in Nat \ {0}
  <2>1. nextTurn \in 1..(Len(played) + 1)
    BY <1>0, <1>6
  <2>2. 1 <= EventBefore(played, nextTurn) /\ EventBefore(played, nextTurn) \in Nat
    BY <1>0, <2>1, BeforeType DEF Chain
  <2>3. Len(events) \in Nat
    OBVIOUS
  <2> QED BY <2>2, <2>3
<1>9. Piece(played', log', logFirst') /\ sealedBefore' \in Nat
      /\ sealedBefore' = SealedBefore(played', logFirst')
  <2> DEFINE all == log \o new
             a == Len(all)
             ll == Len(log)
  <2>1. PICK dropped \in 0..(a - 1) :
          /\ log' = SubSeq(all, dropped + 1, a)
          /\ logFirst' = logFirst + dropped
          /\ sealedBefore' = IF dropped = 0 THEN sealedBefore ELSE all[dropped].sealed
    BY <1>4 DEF Remember
  <2>0. /\ Piece(played, log, logFirst)
        /\ sealedBefore \in Nat /\ sealedBefore = SealedBefore(played, logFirst)
    BY DEF LInv, LogTypeOK, GameOK, WindowOK
  <2>2. /\ log \in Seq(Turn) /\ logFirst \in Nat /\ logFirst >= 1
        /\ logFirst + ll = nextTurn
        /\ \A i \in 1..ll : log[i] = played[logFirst + i - 1]
    BY <1>0, <2>0 DEF Piece
  <2>3. /\ all \in Seq(Turn) /\ a = ll + m /\ ll \in Nat /\ a \in Nat
        /\ \A i \in 1..(ll + m) : all[i] = IF i <= ll THEN log[i] ELSE new[i - ll]
    <3>1. /\ all \in Seq(Turn) /\ Len(all) = Len(log) + Len(new)
          /\ \A i \in 1..(Len(log) + Len(new)) :
                all[i] = IF i <= Len(log) THEN log[i] ELSE new[i - Len(log)]
      <4>1. log \in Seq(Turn) /\ new \in Seq(Turn)
        BY <1>3, <2>2
      <4> QED BY <4>1, ConcatProperties
    <3>2. Len(log) \in Nat
      BY <2>2
    <3> HIDE DEF all
    <3> QED BY <1>3, <1>6, <3>1, <3>2
  <2> HIDE DEF all, a, ll
  <2>4. Piece(played', all, logFirst)
    <3>1. logFirst + a = Len(played') + 1
      <4> DEFINE lp == Len(played)
                 lq == Len(played')
      <4>1. nextTurn = lp + 1 /\ nextTurn' = lq + 1 /\ nextTurn' - 1 = lp + m /\ lp \in Nat
            /\ nextTurn' \in Nat
        BY <1>0, <1>6
      <4>2. lq = lp + m
        BY <1>3, <1>5
      <4> HIDE DEF lp, lq
      <4>3. logFirst + a = lq + 1
        BY <1>6, <2>2, <2>3, <4>1, <4>2
      <4> QED BY <4>3 DEF lq
    <3>2. ASSUME NEW i \in 1..a
          PROVE  all[i] = played'[logFirst + i - 1]
      <4>1. CASE i <= ll
        <5>1. i \in 1..ll /\ i \in 1..(ll + m) /\ logFirst + i - 1 \in 1..Len(played)
          <6> DEFINE lp == Len(played)
          <6>1. logFirst + ll = lp + 1 /\ lp \in Nat /\ m \in Nat
            BY <1>0, <1>6, <2>2
          <6>2. logFirst \in Nat /\ logFirst >= 1 /\ ll \in Nat /\ i \in Nat /\ i >= 1
            BY <2>2, <2>3
          <6> HIDE DEF lp
          <6>3. i \in 1..ll /\ i \in 1..(ll + m) /\ logFirst + i - 1 \in 1..lp
            BY <4>1, <6>1, <6>2
          <6> QED BY <6>3 DEF lp
        <5> QED BY <1>5, <2>2, <2>3, <4>1, <5>1 DEF Extends
      <4>2. CASE i > ll
        <5> DEFINE x == i - ll
        <5>1. x \in 1..m /\ i \in 1..(ll + m) /\ ~(i <= ll) /\ logFirst + i - 1 = Len(played) + x
          <6> DEFINE lp == Len(played)
          <6>1. logFirst + ll = lp + 1 /\ lp \in Nat /\ m \in Nat
            BY <1>0, <1>6, <2>2
          <6> HIDE DEF lp
          <6>2. /\ logFirst \in Nat /\ ll \in Nat /\ i \in Nat /\ i >= 1 /\ i <= a /\ a = ll + m
                /\ x = i - ll
            BY <2>2, <2>3
          <6> HIDE DEF x
          <6>3. x \in 1..m /\ i \in 1..(ll + m) /\ ~(i <= ll) /\ logFirst + i - 1 = lp + x
            BY <4>2, <6>1, <6>2
          <6> QED BY <6>3 DEF lp
        <5> QED BY <1>3, <1>5, <2>3, <5>1
      <4> QED BY <2>3, <4>1, <4>2
    <3>3. logFirst \in Nat \ {0}
      BY <2>2
    <3> QED BY <2>3, <3>1, <3>2, <3>3 DEF Piece, a
  <2>6. sealedBefore = SealedBefore(played', logFirst)
    <3>1. logFirst \in 1..(Len(played) + 1)
      BY <1>0, <1>6, <2>2, <2>3
    <3> QED BY <1>0, <1>5, <2>0, <3>1, BeforeExtends
  <2>7. dropped \in 0..Len(all)
    BY <2>3 DEF a
  <2> DEFINE w == SubSeq(all, dropped + 1, Len(all))
             f == logFirst + dropped
             s == IF dropped = 0 THEN sealedBefore ELSE all[dropped].sealed
  <2>8. Piece(played', w, f) /\ s \in Nat /\ s = SealedBefore(played', f)
    <3>1. played' \in Seq(Turn) /\ sealedBefore \in Nat
      BY <1>5, <2>0
    <3> QED BY <2>4, <2>6, <2>7, <3>1, WindowOf
  <2>9. w = log' /\ f = logFirst' /\ s = sealedBefore'
    BY <2>1 DEF a
  <2> HIDE DEF w, f, s
  <2> QED BY <2>8, <2>9
<1>10. PICK written \in 0..Len(new) :
         /\ ~logOpen => written = 0
         /\ disk' = [disk EXCEPT !.turns = @ \o SubSeq(new, 1, written)]
         /\ logOpen' = (logOpen /\ written = Len(new))
  BY <1>4 DEF LogTurns
<1>11. /\ disk' \in Disk /\ FileOK(disk', played') /\ DiskHistories(disk') = histories
       /\ logOpen' => Complete(disk', played')
  <2> DEFINE w == SubSeq(new, 1, written)
  <2>1. /\ w \in Seq(Turn) /\ Len(w) = written /\ \A i \in 1..written : w[i] = new[i]
    BY <1>3, SubSeqPrefix
  <2>2. disk' = [disk EXCEPT !.turns = @ \o w]
    BY <1>10
  <2> HIDE DEF w
  <2>3. CASE logOpen
    <3>1. Len(played) + Len(w) <= Len(played') /\ Len(w) \in Nat
      BY <1>3, <1>5, <1>6, <2>1
    <3>2. \A i \in 1..Len(w) : w[i] = played'[Len(played) + i]
      <4>1. \A i \in 1..written : i \in 1..Len(new)
        BY <1>3, <1>6
      <4> QED BY <1>5, <2>1, <4>1
    <3>3. /\ disk' \in Disk /\ FileOK(disk', played') /\ DiskHistories(disk') = DiskHistories(disk)
          /\ Len(played) + Len(w) = Len(played') => Complete(disk', played')
      BY <1>0, <1>5, <2>1, <2>2, <2>3, <3>1, <3>2, FileAppend
    <3>4. logOpen' => Len(played) + Len(w) = Len(played')
      BY <1>5, <1>10, <2>1
    <3> QED BY <1>0, <3>3, <3>4
  <2>4. CASE ~logOpen
    <3>1. w = <<>>
      BY <1>10, <2>1, <2>4, EmptySeq
    <3>2. disk.turns \o w = disk.turns
      BY <1>0, <3>1, DiskType, ConcatEmptySeq
    <3>3. disk' = disk
      BY <1>0, <2>2, <3>2 DEF Disk
    <3>4. FileOK(disk, played')
      BY <1>0, <1>5, FileExtends
    <3> QED BY <1>0, <1>10, <2>4, <3>3, <3>4
  <2> QED BY <2>3, <2>4
<1>12. LogTypeOK' /\ (compaction' # None =>
            /\ up' /\ FileOK(compaction', played') /\ Complete(compaction', played')
            /\ DiskHistories(compaction') = DiskHistories(disk'))
  <2>1. /\ compaction' \in Disk \cup {None}
        /\ compaction' # None =>
            /\ FileOK(compaction', played') /\ Complete(compaction', played')
            /\ DiskHistories(compaction') = histories
    <3>1. CASE compaction # None
      <4>1. /\ compaction \in Disk /\ FileOK(compaction, played) /\ Complete(compaction, played)
            /\ DiskHistories(compaction) = DiskHistories(disk)
        BY <3>1 DEF LInv, LogTypeOK, DiskOK
      <4>2. compaction' = [compaction EXCEPT !.turns = @ \o new]
        BY <1>4, <3>1 DEF Compact
      <4>3. Len(played) + Len(new) = Len(played') /\ Len(played) + Len(new) <= Len(played')
        BY <1>3, <1>5, <1>6
      <4>4. \A i \in 1..Len(new) : new[i] = played'[Len(played) + i]
        BY <1>5
      <4>5. /\ compaction' \in Disk /\ FileOK(compaction', played')
            /\ DiskHistories(compaction') = DiskHistories(compaction)
            /\ Complete(compaction', played')
        BY <1>0, <1>3, <1>5, <4>1, <4>2, <4>3, <4>4, FileAppend
      <4> QED BY <1>0, <4>1, <4>5
    <3>2. CASE compaction = None /\ compaction' # None
      <4>1. compaction' = CompactedLog'
        BY <1>4, <3>2 DEF Compact
      <4>2. compaction' = [first |-> logFirst', sealedBefore |-> sealedBefore',
                           firstEvent |-> IF log' = <<>> THEN nextEvent' ELSE log'[1].first,
                           after |-> nextTurn' - 1, nextEvent |-> nextEvent', sealed |-> sealed',
                           histories |-> histories', turns |-> log', marks |-> <<>>,
                           synced |-> Len(log')]
        BY <4>1 DEF CompactedLog
      <4>3. nextTurn' - 1 = Len(played')
        BY <1>5, <1>6
      <4>4. /\ histories' = histories /\ sealed' = frontier /\ nextEvent' = next
        BY <1>1
      <4>5. HistoriesOK(histories, Len(played'))
        <5>1. disk' \in Disk /\ FileOK(disk', played') /\ DiskHistories(disk') = histories
          BY <1>11
        <5> QED BY <1>5, <5>1, FileHistories
      <4>6. /\ compaction' \in Disk /\ FileOK(compaction', played') /\ Complete(compaction', played')
            /\ DiskHistories(compaction') = histories
        <5>1. compaction' = [first |-> logFirst', sealedBefore |-> sealedBefore',
                           firstEvent |-> IF log' = <<>> THEN next ELSE log'[1].first,
                           after |-> Len(played'), nextEvent |-> next, sealed |-> frontier,
                           histories |-> histories, turns |-> log', marks |-> <<>>,
                           synced |-> Len(log')]
          BY <4>2, <4>3, <4>4
        <5>2. /\ next = EventBefore(played', Len(played') + 1)
              /\ frontier = SealedBefore(played', Len(played') + 1)
          BY <1>6, <1>7
        <5>3. next \in Nat /\ frontier \in Nat
          BY <1>2
        <5>4. /\ played' \in Seq(Turn) /\ Chain(played') /\ Piece(played', log', logFirst')
              /\ sealedBefore' \in Nat /\ sealedBefore' = SealedBefore(played', logFirst')
          BY <1>5, <1>9
        <5> QED BY <4>5, <5>1, <5>2, <5>3, <5>4, Compacted, SMTT(30)
      <4> QED BY <4>6
    <3>3. CASE compaction' = None
      BY <3>3
    <3> QED BY <3>1, <3>2, <3>3
  <2>2. up' /\ up' \in BOOLEAN /\ logOpen' \in BOOLEAN
    BY <1>1, <1>10 DEF LInv, LogTypeOK
  <2>3. histories' \in Seq(History) /\ histories' # <<>> /\ histories' = histories
    BY <1>1 DEF LInv, LogTypeOK
  <2>4. pending' \in Seq(Event)
    BY <1>1
  <2>5. nextTurn' \in Nat \ {0} /\ nextEvent' \in Nat \ {0} /\ sealed' \in Nat
    BY <1>1, <1>2, <1>6, <1>8
  <2>6. LogTypeOK'
    BY <1>5, <1>9, <1>11, <2>1, <2>2, <2>3, <2>4, <2>5 DEF LogTypeOK, Piece
  <2> QED BY <1>11, <2>1, <2>2, <2>6
<1>13. GameOK'
  <2>1. WindowOK'
    BY <1>1, <1>6, <1>7, <1>9 DEF WindowOK
  <2>2. PendingOK'
    <3>1. pending' = <<>> /\ nextEvent' = next /\ Len(pending') = 0
      BY <1>1
    <3> QED BY <1>7, <3>1 DEF PendingOK, Numbered
  <2> QED BY <1>1, <1>11, <2>1, <2>2 DEF GameOK
<1>14. DiskOK'
  <2>1. up' /\ (logOpen' => up')
    BY <1>1
  <2> QED BY <1>11, <1>12, <2>1 DEF DiskOK
<1> QED BY <1>5, <1>12, <1>13, <1>14 DEF LInv
\* Game::append numbers the event after those that wait.
LEMMA OrderedOK ==
    ASSUME LInv, up
    PROVE  /\ Ordered \in Seq(Event) /\ nextEvent + 1 \in Nat \ {0}
           /\ nextEvent + 1 = EventBefore(played, nextTurn) + Len(Ordered)
           /\ Numbered(Ordered, EventBefore(played, nextTurn), sealed)
<1> DEFINE e == [seq |-> nextEvent, step |-> sealed + 1, body |-> Current(histories)]
           E0 == EventBefore(played, nextTurn)
           n == Len(pending)
<1>1. /\ pending \in Seq(Event) /\ n \in Nat /\ nextEvent \in Nat /\ sealed \in Nat
      /\ histories \in Seq(History) /\ histories # <<>>
      /\ played \in Seq(Turn) /\ nextTurn = Len(played) + 1
      /\ nextEvent = E0 + n
      /\ Numbered(pending, E0, sealed)
  <2>1. LogTypeOK /\ WindowOK /\ PendingOK
    BY DEF LInv, GameOK
  <2> QED BY <2>1 DEF LogTypeOK, WindowOK, PendingOK
<1>2. E0 \in Nat
  <2>1. nextTurn \in 1..(Len(played) + 1)
    BY <1>1
  <2> QED BY <1>1, <2>1, BeforeType
<1>3. Current(histories) \in HistoryId
  <2>1. Len(histories) \in 1..Len(histories)
    BY <1>1, EmptySeq
  <2>2. histories[Len(histories)] \in History
    BY <1>1, <2>1, ElementOfSeq
  <2> QED BY <2>2 DEF Current, History
<1>4. e \in Event
  BY <1>1, <1>3 DEF Event
<1>5. Ordered = Append(pending, e)
  BY DEF Ordered
<1>6. e.seq = nextEvent /\ e.step = sealed + 1
  OBVIOUS
<1> HIDE DEF e, E0
<1>7. /\ Ordered \in Seq(Event) /\ Len(Ordered) = n + 1
      /\ \A i \in 1..n : Ordered[i] = pending[i]
      /\ Ordered[n + 1] = e
  BY <1>1, <1>4, <1>5, AppendProperties
<1> HIDE DEF n
<1>8. \A j \in 1..(n + 1) : Ordered[j].seq = E0 + j - 1 /\ Ordered[j].step = sealed + 1
  <2> TAKE j \in 1..(n + 1)
  <2>1. CASE j = n + 1
    BY <1>1, <1>2, <1>6, <1>7, <2>1
  <2>2. CASE j # n + 1
    <3>1. j \in 1..n
      BY <1>1, <2>2
    <3> QED BY <1>1, <1>7, <3>1 DEF Numbered, n
  <2> QED BY <2>1, <2>2
<1> QED BY <1>1, <1>2, <1>7, <1>8, SMTT(30) DEF Numbered, E0

LEMMA LInvOrderEvent == ASSUME LInv, OrderEvent PROVE LInv'
<1>1. /\ up /\ pending' = Ordered /\ nextEvent' = nextEvent + 1
      /\ UNCHANGED <<up, nextTurn, sealed, log, logFirst, sealedBefore, histories,
                     logOpen, compaction, disk, played>>
  BY DEF OrderEvent, diskVars, ghostVars
<1>2. LogTypeOK'
  BY <1>1, OrderedOK DEF LInv, LogTypeOK
<1>3. GameOK'
  <2>1. WindowOK /\ histories = DiskHistories(disk)
    BY <1>1 DEF LInv, GameOK
  <2> QED BY <1>1, <2>1, OrderedOK DEF GameOK, WindowOK, PendingOK
<1>4. DiskOK' /\ Chain(played)'
  BY <1>1 DEF LInv, DiskOK
<1> QED BY <1>2, <1>3, <1>4 DEF LInv

\* What a crash leaves of the log is what the disk holds.
LEMMA LInvStop ==
    ASSUME LInv, Stop, disk' \in Disk,
           LET q == SubSeq(played, 1, disk'.first - 1 + Len(disk'.turns)) IN
             q \in Seq(Turn) /\ Chain(q) /\ FileOK(disk', q) /\ Complete(disk', q)
    PROVE  LInv'
<1> DEFINE q == SubSeq(played, 1, disk'.first - 1 + Len(disk'.turns))
<1>1. q \in Seq(Turn) /\ Chain(q) /\ FileOK(disk', q) /\ Complete(disk', q)
  OBVIOUS
<1>2. /\ up' = FALSE /\ nextTurn' = 1 /\ nextEvent' = 1 /\ sealed' = 0 /\ pending' = <<>>
      /\ log' = <<>> /\ logFirst' = 1 /\ sealedBefore' = 0
      /\ histories' = <<[id |-> FirstHistory, after |-> 0]>>
      /\ logOpen' = FALSE /\ compaction' = None /\ played' = q
  BY DEF Stop
<1> HIDE DEF q
<1>3. histories' \in Seq(History) /\ histories' # <<>>
  <2>1. [id |-> FirstHistory, after |-> 0] \in History
    BY ConstantsAssumption DEF History
  <2> QED BY <1>2, <2>1
<1>4. LogTypeOK'
  <2>0. up' \in BOOLEAN /\ logOpen' \in BOOLEAN
    <3>1. up' = FALSE /\ logOpen' = FALSE
      BY <1>2
    <3> QED BY <3>1
  <2>1. /\ nextTurn' \in Nat \ {0} /\ nextEvent' \in Nat \ {0} /\ sealed' \in Nat
        /\ logFirst' \in Nat \ {0} /\ sealedBefore' \in Nat
    BY <1>2
  <2>2. pending' \in Seq(Event) /\ log' \in Seq(Turn)
    <3>1. <<>> \in Seq(Event) /\ <<>> \in Seq(Turn)
      OBVIOUS
    <3>2. pending' = <<>> /\ log' = <<>>
      BY <1>2
    <3> QED BY <3>1, <3>2
  <2>3. disk' \in Disk /\ compaction' \in Disk \cup {None} /\ played' \in Seq(Turn)
    BY <1>1, <1>2
  <2> QED BY <1>3, <2>0, <2>1, <2>2, <2>3 DEF LogTypeOK
<1>5. GameOK' /\ DiskOK' /\ Chain(played)'
  BY <1>1, <1>2 DEF GameOK, DiskOK
<1> QED BY <1>4, <1>5 DEF LInv

LEMMA LInvCrash == ASSUME LInv, Crash PROVE LInv'
<1>1. Stop /\ disk' = disk /\ disk \in Disk /\ FileOK(disk, played)
      /\ played \in Seq(Turn) /\ Chain(played)
  BY DEF Crash, LInv, LogTypeOK, DiskOK
<1>2. LET q == SubSeq(played, 1, disk.first - 1 + Len(disk.turns)) IN
        q \in Seq(Turn) /\ Chain(q) /\ FileOK(disk, q) /\ Complete(disk, q)
  <2>1. /\ disk.synced <= Len(disk.turns) /\ Len(disk.turns) <= Len(disk.turns)
        /\ \A i \in 1..Len(disk.marks) : disk.marks[i].at <= Len(disk.turns)
        /\ Len(disk.marks) <= Len(disk.marks)
    BY <1>1, DiskNumbers DEF FileOK, TurnsOK, MarksOK
  <2> QED BY <1>1, <2>1, FileCut
<1> QED BY <1>1, <1>2, LInvStop

LEMMA LInvMachineCrash == ASSUME LInv, MachineCrash PROVE LInv'
<1>1. Stop /\ disk \in Disk /\ FileOK(disk, played) /\ played \in Seq(Turn) /\ Chain(played)
  BY DEF MachineCrash, LInv, LogTypeOK, DiskOK
<1>2. PICK n \in disk.synced..Len(disk.turns), k \in 0..Len(disk.marks) :
        /\ \A i \in 1..k : disk.marks[i].at <= n
        /\ disk' = [disk EXCEPT !.turns = SubSeq(@, 1, n), !.marks = SubSeq(@, 1, k)]
  BY DEF MachineCrash
<1>3. /\ disk.turns \in Seq(Turn) /\ disk.marks \in Seq(Mark) /\ n \in 0..Len(disk.turns)
      /\ disk.synced \in Nat /\ disk.synced <= n
  BY <1>1, DiskType
<1>4. /\ SubSeq(disk.turns, 1, n) \in Seq(Turn) /\ Len(SubSeq(disk.turns, 1, n)) = n
      /\ \A i \in 1..n : SubSeq(disk.turns, 1, n)[i] = disk.turns[i]
  BY <1>3, SubSeqPrefix
<1>5. /\ SubSeq(disk.marks, 1, k) \in Seq(Mark) /\ Len(SubSeq(disk.marks, 1, k)) = k
      /\ \A i \in 1..k : SubSeq(disk.marks, 1, k)[i] = disk.marks[i]
  BY <1>3, SubSeqPrefix
<1>6. /\ disk'.first = disk.first /\ disk'.firstEvent = disk.firstEvent
      /\ disk'.sealedBefore = disk.sealedBefore /\ disk'.after = disk.after
      /\ disk'.nextEvent = disk.nextEvent /\ disk'.sealed = disk.sealed
      /\ disk'.synced = disk.synced /\ disk'.histories = disk.histories
      /\ disk'.turns = SubSeq(disk.turns, 1, n) /\ disk'.marks = SubSeq(disk.marks, 1, k)
      /\ disk' \in Disk
  BY <1>1, <1>2, <1>4, <1>5 DEF Disk
<1>7. /\ disk.synced <= Len(disk'.turns) /\ Len(disk'.turns) <= Len(disk.turns)
      /\ \A i \in 1..Len(disk'.turns) : disk'.turns[i] = disk.turns[i]
      /\ Len(disk'.marks) <= Len(disk.marks)
      /\ \A i \in 1..Len(disk'.marks) :
            disk'.marks[i] = disk.marks[i] /\ disk'.marks[i].at <= Len(disk'.turns)
  BY <1>2, <1>3, <1>4, <1>5, <1>6, SMTT(30)
<1>8. LET q == SubSeq(played, 1, disk'.first - 1 + Len(disk'.turns)) IN
        q \in Seq(Turn) /\ Chain(q) /\ FileOK(disk', q) /\ Complete(disk', q)
  BY <1>1, <1>6, <1>7, FileCut
<1> QED BY <1>1, <1>6, <1>8, LInvStop

\* Recovery reads the whole chain the disk holds.
LEMMA LInvRecover == ASSUME LInv, Recover PROVE LInv'
<1>1. /\ up' = TRUE /\ pending' = <<>> /\ RecoveredWindow
      /\ nextTurn' = disk.first + Len(disk.turns)
      /\ nextEvent' = NextEventAfter(disk.turns, disk.firstEvent)
      /\ sealed' = Frontier(disk.turns, disk.sealedBefore)
      /\ played' = played /\ logOpen' = TRUE /\ compaction' = None /\ ~up
  BY DEF Recover
<1>2. /\ disk \in Disk /\ FileOK(disk, played) /\ Complete(disk, played)
      /\ played \in Seq(Turn) /\ Chain(played) /\ disk.turns \in Seq(Turn)
      /\ Len(disk.turns) \in Nat /\ disk.first \in Nat
  BY <1>1, DiskType DEF LInv, LogTypeOK, DiskOK
<1>3. PICK fresh \in HistoryId :
        /\ histories' = Append(DiskHistories(disk), [id |-> fresh, after |-> nextTurn' - 1])
        /\ disk' = [disk EXCEPT !.marks = Append(@,
                        [id |-> fresh, after |-> nextTurn' - 1, event |-> nextEvent',
                         at |-> Len(disk.turns)])]
  BY DEF Recover
<1>4. /\ nextTurn' = Len(played) + 1 /\ nextTurn' - 1 = Len(played) /\ Len(played) \in Nat
      /\ nextTurn' \in 1..(Len(played) + 1) /\ nextTurn' \in Nat \ {0}
  <2>1. nextTurn' = Len(played) + 1 /\ Len(played) \in Nat
    BY <1>1, <1>2 DEF Complete
  <2> QED BY <2>1
<1>5. /\ nextEvent' = EventBefore(played, nextTurn') /\ sealed' = SealedBefore(played, nextTurn')
      /\ nextEvent' \in Nat \ {0} /\ sealed' \in Nat
  <2>1. SubSeq(disk.turns, 1, Len(disk.turns)) = disk.turns
    BY <1>2, SubSeqFull
  <2>2. Len(disk.turns) \in 0..Len(disk.turns) /\ disk.first + Len(disk.turns) = nextTurn'
    BY <1>1, <1>2
  <2>3. /\ nextEvent' = EventBefore(played, nextTurn')
        /\ sealed' = SealedBefore(played, nextTurn')
    <3> DEFINE n == Len(disk.turns)
    <3>1. /\ NextEventAfter(SubSeq(disk.turns, 1, n), disk.firstEvent) = EventBefore(played, disk.first + n)
          /\ Frontier(SubSeq(disk.turns, 1, n), disk.sealedBefore) = SealedBefore(played, disk.first + n)
      BY <1>2, <2>2, FileEnd
    <3> QED BY <1>1, <2>1, <2>2, <3>1
  <2>4. 1 <= EventBefore(played, nextTurn')
    BY <1>2, <1>4 DEF Chain
  <2>5. EventBefore(played, nextTurn') \in Nat /\ SealedBefore(played, nextTurn') \in Nat
    BY <1>2, <1>4, BeforeType
  <2> QED BY <2>3, <2>4, <2>5
<1>6. /\ disk' \in Disk /\ FileOK(disk', played) /\ Complete(disk', played)
      /\ DiskHistories(disk') = histories'
  <2>1. disk' = [disk EXCEPT !.marks = Append(@,
                    [id |-> fresh, after |-> Len(played),
                     event |-> EventBefore(played, Len(played) + 1), at |-> Len(disk.turns)])]
    BY <1>3, <1>4, <1>5
  <2>2. histories' = Append(DiskHistories(disk), [id |-> fresh, after |-> Len(played)])
    BY <1>3, <1>4
  <2> QED BY <1>2, <2>1, <2>2, FileMark
<1>7. histories' \in Seq(History) /\ histories' # <<>>
  BY <1>2, <1>6, FileHistories DEF HistoriesOK
<1>8. Piece(played, log', logFirst') /\ sealedBefore' \in Nat
      /\ sealedBefore' = SealedBefore(played, logFirst')
  <2>1. PICK dropped \in 0..Len(disk.turns) :
          /\ log' = SubSeq(disk.turns, dropped + 1, Len(disk.turns))
          /\ logFirst' = disk.first + dropped
          /\ sealedBefore' = IF dropped = 0 THEN disk.sealedBefore ELSE disk.turns[dropped].sealed
    BY <1>1 DEF RecoveredWindow
  <2>2. Piece(played, disk.turns, disk.first)
    <3>1. 1 <= disk.first /\ \A i \in 1..Len(disk.turns) : disk.turns[i] = played[disk.first + i - 1]
      BY <1>2 DEF FileOK, TurnsOK
    <3> QED BY <1>2, <3>1 DEF Piece, Complete
  <2>3. disk.sealedBefore \in Nat /\ disk.sealedBefore = SealedBefore(played, disk.first)
    BY <1>2, DiskType DEF FileOK, BaseOK
  <2> QED BY <1>2, <2>1, <2>2, <2>3, WindowOf, SMTT(30)
<1>9. LogTypeOK'
  BY <1>1, <1>2, <1>4, <1>5, <1>6, <1>7, <1>8 DEF LogTypeOK, Piece
<1>10. GameOK'
  <2>1. Len(pending') = 0
    BY <1>1
  <2> QED BY <1>1, <1>4, <1>5, <1>6, <1>8, <2>1 DEF GameOK, WindowOK, PendingOK, Numbered
<1>11. DiskOK' /\ Chain(played)'
  BY <1>1, <1>2, <1>6 DEF DiskOK
<1> QED BY <1>9, <1>10, <1>11 DEF LInv

LEMMA LInvFinishCompaction == ASSUME LInv, FinishCompaction PROVE LInv'
<1>1. /\ up /\ compaction # None /\ compaction' = None
      /\ (disk' = disk /\ logOpen' = logOpen) \/ (disk' = compaction /\ logOpen' = TRUE)
      /\ UNCHANGED <<up, nextTurn, nextEvent, sealed, pending, log, logFirst, sealedBefore,
                     histories, played>>
  BY DEF FinishCompaction, gameVars, ghostVars
<1>2. LogTypeOK'
  BY <1>1 DEF LInv, LogTypeOK
<1>3. GameOK'
  <2>1. WindowOK' /\ PendingOK'
    BY <1>1 DEF LInv, GameOK, WindowOK, PendingOK
  <2>2. histories' = DiskHistories(disk')
    BY <1>1 DEF LInv, GameOK, DiskOK
  <2> QED BY <2>1, <2>2 DEF GameOK
<1>4. DiskOK' /\ Chain(played)'
  BY <1>1 DEF LInv, DiskOK
<1> QED BY <1>2, <1>3, <1>4 DEF LInv

LEMMA LInvUnchanged == ASSUME LInv, UNCHANGED logVars PROVE LInv'
BY DEF LInv, LogTypeOK, GameOK, WindowOK, PendingOK, DiskOK, logVars

\* The room's part of the invariant is inductive.
LEMMA LInvNext == LInv /\ [Next]_vars => LInv'
<1> SUFFICES ASSUME LInv, [Next]_vars PROVE LInv'
  OBVIOUS
<1>1. CASE OrderEvent
  BY <1>1, LInvOrderEvent
<1>2. CASE Intent \/ Save
  <2>1. PICK frontier : up /\ SealAndPublish(Ordered, nextEvent + 1, frontier)
    BY <1>2 DEF Intent, Save
  <2> QED BY <2>1, OrderedOK, LInvSeal
<1>3. CASE Tick
  <2>1. PICK frontier : up /\ SealAndPublish(pending, nextEvent, frontier)
    BY <1>3 DEF Tick
  <2>2. /\ pending \in Seq(Event) /\ nextEvent \in Nat
        /\ nextEvent = EventBefore(played, nextTurn) + Len(pending)
        /\ Numbered(pending, EventBefore(played, nextTurn), sealed)
    BY <2>1 DEF LInv, LogTypeOK, GameOK, PendingOK
  <2> QED BY <2>1, <2>2, LInvSeal
<1>4. CASE Crash
  BY <1>4, LInvCrash
<1>5. CASE MachineCrash
  BY <1>5, LInvMachineCrash
<1>6. CASE Recover
  BY <1>6, LInvRecover
<1>7. CASE FinishCompaction
  BY <1>7, LInvFinishCompaction
<1>8. CASE Promote
  BY <1>8, LInvUnchanged DEF Promote, logVars, diskVars, ghostVars
<1>9. CASE WritePointer
  BY <1>9, LInvUnchanged DEF WritePointer, logVars, gameVars, ghostVars
<1>10. ASSUME NEW c \in Client,
              \/ Disconnected(c) \/ Drop(c) \/ Restart(c)
              \/ JoinResuming(c) \/ JoinFromStart(c) \/ JoinForWorld(c)
              \/ ReceiveOpen(c) \/ ReceiveTurn(c) \/ Fetched(c)
       PROVE  LInv'
  <2>1. UNCHANGED <<up, gameVars, diskVars, ghostVars>>
    BY <1>10 DEF Disconnected, Drop, Restart, JoinResuming, JoinFromStart, JoinForWorld,
                 ReceiveOpen, ReceiveTurn, Fetched
  <2> QED BY <2>1, LInvUnchanged DEF logVars, gameVars, diskVars, ghostVars
<1>11. CASE UNCHANGED vars
  BY <1>11, LInvUnchanged DEF vars, logVars, gameVars, diskVars, ghostVars
<1> QED BY <1>1, <1>2, <1>3, <1>4, <1>5, <1>6, <1>7, <1>8, <1>9, <1>10, <1>11 DEF Next

\* In every state the room's memory, its log file and a compacted log being
\* written are pieces of one chain of turns: numbers without gaps, events
\* numbered through, a frontier that never moves back.
THEOREM LogInvariant == Spec => []LInv
BY LInvInit, LInvNext, PTL DEF Spec

\* The log file a running or crashed room leaves passes every check
\* Room::recover makes, for any number of crashes, compactions and appends
\* that failed.
THEOREM SurvivesCrashes == Spec => []AlwaysRecoverable
<1>1. LInv => AlwaysRecoverable
  BY FileRecoverable DEF LInv, LogTypeOK, DiskOK, AlwaysRecoverable
<1> QED BY <1>1, LogInvariant, PTL

-----------------------------------------------------------------------------
(* The clients' part of the inductive invariant                            *)

\* What clients depend on: the histories the log file knows, its turns, the
\* identifiers given, whether the server runs, and whether a turn was lost.
Room == [hs |-> DiskHistories(disk), log |-> played, used |-> used,
         up |-> up, intact |-> intact]

\* A world that embodies the turns s of history h agrees with the room: when
\* the room would serve it a resume, s is what the log begins with (or, until
\* the room recovers, goes beyond what is left of the log).
Agrees(r, h, s) ==
    /\ h \in r.used /\ s \in Seq(Turn) /\ Chain(s)
    /\ Shares(r.hs, h, Len(s)) => IsPrefixOf(s, r.log) \/ (~r.up /\ Len(s) > Len(r.log))
    /\ r.intact => Shares(r.hs, h, Len(s)) /\ IsPrefixOf(s, r.log)
AgreesAlong(r, h, q) == \A n \in 0..Len(q) : Agrees(r, h, SubSeq(q, 1, n))

\* A follower f whose world embodies the turns s.
FollowerOK(r, f, s) ==
    /\ f.world # "failed"
    /\ f.world # "none" =>
        /\ Agrees(r, f.history, s)
        /\ f.nextTurn = Len(s) + 1
        /\ f.nextEvent = EventBefore(s, Len(s) + 1)
        /\ f.sealed = SealedBefore(s, Len(s) + 1)
\* A place of a world.
PointOK(r, p) == p # None => Agrees(r, p.history, p.world) /\ p.after = Len(p.world)

\* Follower f stands on the line of turns q, whose history is h.
OnLine(f, s, h, q) ==
    f.world \in {"fetching", "playing"} /\ f.history = h /\ IsPrefixOf(s, q)

\* Message m is one of a stream over the turns q.
MessageOK(m, h, q) ==
    /\ m.type = "frame" => m.frame.number \in 1..Len(q) /\ m.frame = q[m.frame.number]
    /\ m.type = "open" =>
        /\ m.history = h /\ m.turn \in 1..(Len(q) + 1)
        /\ m.event = EventBefore(q, m.turn) /\ m.sealed = SealedBefore(q, m.turn)
        /\ m.world # None => Len(m.world.world) = m.turn - 1 /\ IsPrefixOf(m.world.world, q)
\* The turn a message leaves its reader at.
TurnAfter(m) == IF m.type = "open" THEN m.turn ELSE m.frame.number + 1
\* Message m may follow when its reader is left at `turn`.
ComesNext(m, turn) ==
    /\ m.type = "frame" => m.frame.number = turn
    /\ m.type = "open" => m.world # None
\* Message m may be the first its reader finds.
ComesFirst(m, f, s, h, q) ==
    /\ m.type = "frame" => OnLine(f, s, h, q) /\ f.nextTurn = m.frame.number
    /\ m.type = "open" /\ m.world = None /\ m.turn # 1 =>
        f.world \in {"fetching", "playing"} /\ f.nextTurn = m.turn /\ IsPrefixOf(s, q)
StreamOK(f, s, h, msgs, q) ==
    /\ \A i \in 1..Len(msgs) : MessageOK(msgs[i], h, q)
    /\ \A i \in 2..Len(msgs) : ComesNext(msgs[i], TurnAfter(msgs[i - 1]))
    /\ msgs # <<>> => ComesFirst(msgs[1], f, s, h, q)
\* What is on its way takes the reader to `turn`.
Reaches(f, s, h, msgs, q, turn) ==
    IF msgs = <<>> THEN OnLine(f, s, h, q) /\ f.nextTurn = turn
    ELSE TurnAfter(msgs[Len(msgs)]) = turn

Line(r, f, s, k, q) ==
    /\ Chain(q) /\ AgreesAlong(r, k.history, q)
    /\ StreamOK(f, s, k.history, k.msgs, q)
ConnOK(c) ==
    conn[c].open =>
        \E q \in Seq(Turn) :
            /\ Line(Room, client[c], seen[c], conn[c], q)
            /\ c \in linked => q = played /\ conn[c].history = Current(histories)
            /\ c \in streaming =>
                Reaches(client[c], seen[c], conn[c].history, conn[c].msgs, q, Len(q) + 1)

\* The clients' part of TypeOK.
ClientTypeOK ==
    /\ intact \in BOOLEAN /\ used \subseteq HistoryId
    /\ saved \in Point \cup {None} /\ point \in Point \cup {None}
    /\ pointer \in Point \cup {None}
    /\ linked \subseteq Client /\ streaming \subseteq linked /\ loaded \subseteq Client
    /\ client \in [Client -> [world : {"none", "fetching", "playing", "failed"},
                              nextTurn : Nat, nextEvent : Nat, sealed : Nat,
                              history : HistoryId]]
    /\ conn \in [Client -> [open : BOOLEAN, history : HistoryId, msgs : Seq(Message)]]
    /\ seen \in [Client -> Seq(Turn)]

\* The clients' part of the inductive invariant.
LogKept == intact /\ up => logOpen
IdsOK == \A i \in 1..Len(DiskHistories(disk)) : DiskHistories(disk)[i].id \in used
PointsOK == PointOK(Room, saved) /\ PointOK(Room, point) /\ PointOK(Room, pointer)
FollowersOK == \A c \in Client : FollowerOK(Room, client[c], seen[c])
ConnsOK == \A c \in Client : ConnOK(c)
CInv ==
    /\ ClientTypeOK
    /\ LogKept
    /\ linked # {} => up
    /\ IdsOK
    /\ PointsOK
    /\ FollowersOK
    /\ ConnsOK

-----------------------------------------------------------------------------
(* Facts about worlds that agree with the room                             *)

LEMMA PrefixIsCut ==
    ASSUME NEW s \in Seq(Turn), NEW q \in Seq(Turn), IsPrefixOf(s, q)
    PROVE  Len(s) \in 0..Len(q) /\ s = SubSeq(q, 1, Len(s))
<1>1. Len(s) \in 0..Len(q) /\ \A i \in 1..Len(s) : s[i] = q[i]
  BY DEF IsPrefixOf
<1>2. /\ SubSeq(q, 1, Len(s)) \in Seq(Turn) /\ Len(SubSeq(q, 1, Len(s))) = Len(s)
      /\ \A i \in 1..Len(s) : SubSeq(q, 1, Len(s))[i] = q[i]
  BY <1>1, SubSeqPrefix
<1>3. \A i \in 1..Len(s) : s[i] = SubSeq(q, 1, Len(s))[i]
  BY <1>1, <1>2
<1> QED BY <1>1, <1>2, <1>3, SeqEqual

LEMMA CutIsPrefix ==
    ASSUME NEW q \in Seq(Turn), NEW n \in 0..Len(q)
    PROVE  /\ SubSeq(q, 1, n) \in Seq(Turn) /\ Len(SubSeq(q, 1, n)) = n
           /\ IsPrefixOf(SubSeq(q, 1, n), q)
<1>1. /\ SubSeq(q, 1, n) \in Seq(Turn) /\ Len(SubSeq(q, 1, n)) = n
      /\ \A i \in 1..n : SubSeq(q, 1, n)[i] = q[i]
  BY SubSeqPrefix
<1> QED BY <1>1 DEF IsPrefixOf

LEMMA PrefixExtends ==
    ASSUME NEW s \in Seq(Turn), NEW q \in Seq(Turn), NEW p \in Seq(Turn),
           IsPrefixOf(s, q), Extends(p, q)
    PROVE  IsPrefixOf(s, p)
BY DEF IsPrefixOf, Extends

\* A world on a line stands where the line stands at its turn.
LEMMA PrefixStands ==
    ASSUME NEW s \in Seq(Turn), NEW q \in Seq(Turn), IsPrefixOf(s, q)
    PROVE  /\ Len(s) + 1 \in 1..(Len(q) + 1)
           /\ EventBefore(s, Len(s) + 1) = EventBefore(q, Len(s) + 1)
           /\ SealedBefore(s, Len(s) + 1) = SealedBefore(q, Len(s) + 1)
<1>1. Extends(q, s) /\ Len(s) + 1 \in 1..(Len(s) + 1) /\ Len(s) + 1 \in 1..(Len(q) + 1)
  BY DEF IsPrefixOf, Extends
<1> QED BY <1>1, BeforeExtends

\* Every world on a line that agrees with the room agrees with it.
LEMMA OnAgreedLine ==
    ASSUME NEW r, NEW h, NEW q \in Seq(Turn), AgreesAlong(r, h, q),
           NEW s \in Seq(Turn), IsPrefixOf(s, q)
    PROVE  Agrees(r, h, s)
BY PrefixIsCut DEF AgreesAlong

\* The room's own turns agree with it under the history it plays.
LEMMA OwnTurnsAgree ==
    ASSUME NEW r, r.hs \in Seq(History), r.hs # <<>>,
           \A i \in 1..Len(r.hs) : r.hs[i].id \in r.used,
           r.log \in Seq(Turn), Chain(r.log)
    PROVE  AgreesAlong(r, Current(r.hs), r.log)
<1>1. Len(r.hs) \in 1..Len(r.hs) /\ ~(Len(r.hs) < Len(r.hs))
  BY EmptySeq
<1>2. Current(r.hs) = r.hs[Len(r.hs)].id /\ Current(r.hs) \in r.used
  BY <1>1 DEF Current
<1>3. ASSUME NEW n \in 0..Len(r.log)
      PROVE  Agrees(r, Current(r.hs), SubSeq(r.log, 1, n))
  <2>1. SubSeq(r.log, 1, n) \in Seq(Turn) /\ IsPrefixOf(SubSeq(r.log, 1, n), r.log)
    BY CutIsPrefix
  <2>2. Chain(SubSeq(r.log, 1, n))
    BY ChainCut
  <2>3. Shares(r.hs, Current(r.hs), Len(SubSeq(r.log, 1, n)))
    BY <1>1, <1>2 DEF Shares
  <2> QED BY <1>2, <2>1, <2>2, <2>3 DEF Agrees
<1> QED BY <1>3 DEF AgreesAlong

\* What agreed with the room r agrees with the room r2.
Keeps(r, r2) == \A h, s : Agrees(r, h, s) => Agrees(r2, h, s)

LEMMA KeptFollower ==
    ASSUME NEW r, NEW r2, Keeps(r, r2), NEW f, NEW s, FollowerOK(r, f, s)
    PROVE  FollowerOK(r2, f, s)
BY DEF Keeps, FollowerOK
LEMMA KeptPoint ==
    ASSUME NEW r, NEW r2, Keeps(r, r2), NEW p, PointOK(r, p)
    PROVE  PointOK(r2, p)
BY DEF Keeps, PointOK
LEMMA KeptLine ==
    ASSUME NEW r, NEW r2, Keeps(r, r2), NEW f, NEW s, NEW k, NEW q, Line(r, f, s, k, q)
    PROVE  Line(r2, f, s, k, q)
BY DEF Keeps, Line, AgreesAlong

-----------------------------------------------------------------------------
(* Facts about streams on their way                                        *)

\* A stream over some turns is one over more of them.
LEMMA StreamExtends ==
    ASSUME NEW q \in Seq(Turn), NEW p \in Seq(Turn), Extends(p, q),
           NEW f, NEW s \in Seq(Turn), NEW h, NEW msgs \in Seq(Message), StreamOK(f, s, h, msgs, q)
    PROVE  StreamOK(f, s, h, msgs, p)
<1>0. Len(q) \in Nat /\ Len(p) \in Nat /\ Len(q) <= Len(p)
  BY DEF Extends
<1>1. ASSUME NEW i \in 1..Len(msgs)
      PROVE  MessageOK(msgs[i], h, p)
  <2>0. PICK m \in Message : m = msgs[i]
    BY ElementOfSeq
  <2>1. MessageOK(m, h, q)
    BY <2>0 DEF StreamOK
  <2>2. m.type = "frame" => m.frame.number \in 1..Len(p) /\ m.frame = p[m.frame.number]
    BY <1>0, <2>1 DEF MessageOK, Extends
  <2>3. ASSUME m.type = "open"
        PROVE  /\ m.history = h /\ m.turn \in 1..(Len(p) + 1)
               /\ m.event = EventBefore(p, m.turn) /\ m.sealed = SealedBefore(p, m.turn)
    BY <1>0, <2>1, <2>3, BeforeExtends DEF MessageOK
  <2>4. ASSUME m.type = "open", m.world # None
        PROVE  Len(m.world.world) = m.turn - 1 /\ IsPrefixOf(m.world.world, p)
    <3>1. Len(m.world.world) = m.turn - 1 /\ IsPrefixOf(m.world.world, q)
      BY <2>1, <2>4 DEF MessageOK
    <3>2. m.world.world \in Seq(Turn)
      BY <2>4 DEF Message, Point
    <3> QED BY <3>1, <3>2, PrefixExtends
  <2> QED BY <2>0, <2>2, <2>3, <2>4 DEF MessageOK
<1>2. ASSUME msgs # <<>>
      PROVE  ComesFirst(msgs[1], f, s, h, p)
  <2>1. ComesFirst(msgs[1], f, s, h, q)
    BY <1>2 DEF StreamOK
  <2>2. IsPrefixOf(s, q) => IsPrefixOf(s, p)
    BY PrefixExtends
  <2> QED BY <2>1, <2>2 DEF ComesFirst, OnLine
<1> QED BY <1>1, <1>2 DEF StreamOK

LEMMA ReachesExtends ==
    ASSUME NEW q \in Seq(Turn), NEW p \in Seq(Turn), Extends(p, q),
           NEW f, NEW s \in Seq(Turn), NEW h, NEW msgs, NEW turn, Reaches(f, s, h, msgs, q, turn)
    PROVE  Reaches(f, s, h, msgs, p, turn)
BY PrefixExtends DEF Reaches, OnLine

\* More messages after those on their way.
LEMMA StreamConcat ==
    ASSUME NEW q \in Seq(Turn), NEW f, NEW s, NEW h,
           NEW msgs \in Seq(Message), NEW more \in Seq(Message), more # <<>>,
           StreamOK(f, s, h, msgs, q),
           \A i \in 1..Len(more) : MessageOK(more[i], h, q),
           \A i \in 2..Len(more) : ComesNext(more[i], TurnAfter(more[i - 1])),
           msgs # <<>> => ComesNext(more[1], TurnAfter(msgs[Len(msgs)])),
           msgs = <<>> => ComesFirst(more[1], f, s, h, q)
    PROVE  /\ msgs \o more \in Seq(Message)
           /\ StreamOK(f, s, h, msgs \o more, q)
           /\ Reaches(f, s, h, msgs \o more, q, TurnAfter(more[Len(more)]))
<1> DEFINE all == msgs \o more
           l == Len(msgs)
           n == Len(more)
<1>1. /\ all \in Seq(Message) /\ Len(all) = l + n /\ l \in Nat /\ n \in Nat /\ n >= 1
      /\ \A i \in 1..(l + n) : all[i] = IF i <= l THEN msgs[i] ELSE more[i - l]
  BY ConcatProperties, EmptySeq
<1>2. all # <<>>
  <2>1. Len(all) # 0
    BY <1>1
  <2> QED BY <2>1, EmptySeq
<1> HIDE DEF all
<1>3. ASSUME NEW i \in 1..Len(all)
      PROVE  MessageOK(all[i], h, q)
  <2>1. CASE i <= l
    <3>1. i \in 1..Len(msgs) /\ all[i] = msgs[i]
      BY <1>1, <2>1
    <3> QED BY <3>1 DEF StreamOK
  <2>2. CASE i > l
    <3>1. i - l \in 1..Len(more) /\ all[i] = more[i - l]
      BY <1>1, <2>2
    <3> QED BY <3>1
  <2> QED BY <1>1, <2>1, <2>2
<1>4. ASSUME NEW i \in 2..Len(all)
      PROVE  ComesNext(all[i], TurnAfter(all[i - 1]))
  <2> HIDE DEF l, n
  <2>0. i \in Nat /\ i >= 2 /\ i <= l + n /\ i \in 1..(l + n) /\ i - 1 \in 1..(l + n)
    BY <1>1
  <2>1. CASE i <= l
    <3>1. i \in 2..l /\ all[i] = msgs[i] /\ all[i - 1] = msgs[i - 1]
      BY <1>1, <2>0, <2>1
    <3> QED BY <3>1 DEF StreamOK, l
  <2>2. CASE i = l + 1
    <3>1. i - 1 = l /\ i - l = 1 /\ ~(i <= l) /\ l # 0
      BY <1>1, <2>0, <2>2
    <3>2. all[i] = more[1] /\ all[i - 1] = msgs[l]
      BY <1>1, <2>0, <3>1
    <3>3. msgs # <<>>
      BY <3>1, EmptySeq DEF l
    <3> QED BY <3>2, <3>3 DEF l
  <2>3. CASE i > l + 1
    <3>1. i - l \in 2..n /\ ~(i <= l) /\ ~(i - 1 <= l) /\ (i - 1) - l = (i - l) - 1
      BY <1>1, <2>0, <2>3
    <3>2. all[i] = more[i - l] /\ all[i - 1] = more[(i - l) - 1]
      BY <1>1, <2>0, <3>1
    <3>3. ComesNext(more[i - l], TurnAfter(more[(i - l) - 1]))
      BY <3>1 DEF n
    <3> QED BY <3>2, <3>3
  <2> QED BY <1>1, <2>0, <2>1, <2>2, <2>3
<1>5. ComesFirst(all[1], f, s, h, q)
  <2>1. CASE msgs = <<>>
    <3>1. all[1] = more[1]
      BY <1>1, <2>1, EmptySeq
    <3> QED BY <2>1, <3>1
  <2>2. CASE msgs # <<>>
    <3>1. all[1] = msgs[1]
      BY <1>1, <2>2, EmptySeq
    <3> QED BY <2>2, <3>1 DEF StreamOK
  <2> QED BY <2>1, <2>2
<1>6. all[Len(all)] = more[Len(more)]
  BY <1>1
<1> QED BY <1>1, <1>2, <1>3, <1>4, <1>5, <1>6 DEF StreamOK, Reaches, all

\* The turns ts, sent after what takes the reader to `turn`.
LEMMA StreamSent ==
    ASSUME NEW q \in Seq(Turn), NEW f, NEW s, NEW h, NEW msgs \in Seq(Message),
           StreamOK(f, s, h, msgs, q),
           NEW turn \in Nat \ {0}, Reaches(f, s, h, msgs, q, turn),
           NEW ts \in Seq(Turn), turn + Len(ts) <= Len(q) + 1,
           \A i \in 1..Len(ts) : ts[i] = q[turn + i - 1] /\ ts[i].number = turn + i - 1
    PROVE  /\ msgs \o Frames(ts) \in Seq(Message)
           /\ StreamOK(f, s, h, msgs \o Frames(ts), q)
           /\ Reaches(f, s, h, msgs \o Frames(ts), q, turn + Len(ts))
<1> DEFINE n == Len(ts)
           more == Frames(ts)
<1>0. n \in Nat /\ Len(q) \in Nat
  OBVIOUS
<1>1. \A i \in 1..n : FrameMsg(ts[i]) \in Message
  <2>1. \A i \in 1..n : ts[i] \in Turn
    BY ElementOfSeq
  <2> QED BY <2>1 DEF FrameMsg, Message
<1>2. /\ more \in Seq(Message) /\ Len(more) = n
      /\ \A i \in 1..n : more[i] = FrameMsg(ts[i])
  <2> HIDE DEF n
  <2>1. more = [i \in 1..n |-> FrameMsg(ts[i])]
    BY DEF Frames, n
  <2> QED BY <1>0, <1>1, <2>1
<1> HIDE DEF more
<1>3. CASE n = 0
  <2>1. more = <<>>
    BY <1>2, <1>3, EmptySeq
  <2>2. msgs \o more = msgs /\ turn + n = turn
    BY <1>3, <2>1, ConcatEmptySeq
  <2> QED BY <2>2 DEF more
<1>4. CASE n # 0
  <2>0. more # <<>>
    BY <1>0, <1>2, <1>4, EmptySeq
  <2>1. ASSUME NEW i \in 1..n
        PROVE  /\ more[i].type = "frame" /\ more[i].frame = ts[i]
               /\ more[i].frame.number = turn + i - 1 /\ TurnAfter(more[i]) = turn + i
               /\ MessageOK(more[i], h, q)
    <3>0. more[i] = FrameMsg(ts[i])
      BY <1>2
    <3>1. more[i].type = "frame" /\ more[i].frame = ts[i]
      BY <3>0 DEF FrameMsg
    <3>2. ts[i].number = turn + i - 1 /\ ts[i] = q[turn + i - 1]
      OBVIOUS
    <3>3. turn + i - 1 \in 1..Len(q) /\ (turn + i - 1) + 1 = turn + i
      BY <1>0
    <3> QED BY <3>1, <3>2, <3>3 DEF TurnAfter, MessageOK
  <2>2. ASSUME NEW i \in 2..n
        PROVE  ComesNext(more[i], TurnAfter(more[i - 1]))
    <3>1. i \in 1..n /\ i - 1 \in 1..n /\ turn + (i - 1) = turn + i - 1
      BY <1>0
    <3> QED BY <2>1, <3>1 DEF ComesNext
  <2>3. 1 \in 1..n /\ n \in 1..n /\ turn + 1 - 1 = turn
    BY <1>0, <1>4
  <2>4. ASSUME msgs # <<>>
        PROVE  ComesNext(more[1], TurnAfter(msgs[Len(msgs)]))
    <3>1. TurnAfter(msgs[Len(msgs)]) = turn
      BY <2>4 DEF Reaches
    <3> QED BY <2>1, <2>3, <3>1 DEF ComesNext
  <2>5. ASSUME msgs = <<>>
        PROVE  ComesFirst(more[1], f, s, h, q)
    <3>1. OnLine(f, s, h, q) /\ f.nextTurn = turn
      BY <2>5 DEF Reaches
    <3> QED BY <2>1, <2>3, <3>1 DEF ComesFirst
  <2>6. TurnAfter(more[Len(more)]) = turn + n
    BY <1>2, <2>1, <2>3
  <2>7. \A i \in 1..Len(more) : MessageOK(more[i], h, q)
    BY <1>2, <2>1
  <2>8. \A i \in 2..Len(more) : ComesNext(more[i], TurnAfter(more[i - 1]))
    BY <1>2, <2>2
  <2>9. /\ msgs \o more \in Seq(Message)
        /\ StreamOK(f, s, h, msgs \o more, q)
        /\ Reaches(f, s, h, msgs \o more, q, TurnAfter(more[Len(more)]))
    BY <1>2, <2>0, <2>4, <2>5, <2>7, <2>8, StreamConcat
  <2> QED BY <2>6, <2>9 DEF more
<1> QED BY <1>3, <1>4

\* An opening message o, after what is on its way or as the first.
LEMMA StreamOpened ==
    ASSUME NEW q \in Seq(Turn), NEW f, NEW s, NEW h, NEW msgs \in Seq(Message),
           StreamOK(f, s, h, msgs, q),
           NEW o \in Message, o.type = "open", MessageOK(o, h, q),
           msgs # <<>> => o.world # None,
           msgs = <<>> => ComesFirst(o, f, s, h, q)
    PROVE  /\ msgs \o <<o>> \in Seq(Message)
           /\ StreamOK(f, s, h, msgs \o <<o>>, q)
           /\ Reaches(f, s, h, msgs \o <<o>>, q, o.turn)
<1> DEFINE more == <<o>>
<1>1. /\ more \in Seq(Message) /\ Len(more) = 1 /\ more[1] = o /\ more # <<>>
      /\ more[Len(more)] = o
  OBVIOUS
<1> HIDE DEF more
<1>2. \A i \in 1..Len(more) : MessageOK(more[i], h, q)
  <2>1. \A i \in 1..Len(more) : i = 1
    BY <1>1
  <2> QED BY <1>1, <2>1
<1>3. \A i \in 2..Len(more) : ComesNext(more[i], TurnAfter(more[i - 1]))
  <2>1. ~(\E i \in 2..Len(more) : TRUE)
    BY <1>1
  <2> QED BY <2>1
<1>4. msgs # <<>> => ComesNext(more[1], TurnAfter(msgs[Len(msgs)]))
  BY <1>1 DEF ComesNext
<1>5. TurnAfter(more[Len(more)]) = o.turn
  BY <1>1 DEF TurnAfter
<1>6. msgs = <<>> => ComesFirst(more[1], f, s, h, q)
  BY <1>1
<1>7. /\ msgs \o more \in Seq(Message)
      /\ StreamOK(f, s, h, msgs \o more, q)
      /\ Reaches(f, s, h, msgs \o more, q, TurnAfter(more[Len(more)]))
  BY <1>1, <1>2, <1>3, <1>4, <1>6, StreamConcat
<1> QED BY <1>5, <1>7 DEF more

\* The reader takes the first message and stands where it leaves it.
LEMMA StreamConsumed ==
    ASSUME NEW q \in Seq(Turn), NEW f, NEW s, NEW h, NEW msgs \in Seq(Message), msgs # <<>>,
           StreamOK(f, s, h, msgs, q),
           NEW f2, NEW s2, OnLine(f2, s2, h, q), f2.nextTurn = TurnAfter(msgs[1])
    PROVE  /\ Tail(msgs) \in Seq(Message)
           /\ StreamOK(f2, s2, h, Tail(msgs), q)
           /\ \A turn : Reaches(f, s, h, msgs, q, turn) => Reaches(f2, s2, h, Tail(msgs), q, turn)
<1> DEFINE t == Tail(msgs)
           n == Len(msgs)
<1>1. /\ t \in Seq(Message) /\ n \in Nat /\ n >= 1 /\ Len(t) = n - 1
      /\ \A i \in 1..(n - 1) : t[i] = msgs[i + 1]
  BY HeadTailProperties, EmptySeq
<1> HIDE DEF t
<1>2. ASSUME NEW i \in 1..Len(t)
      PROVE  MessageOK(t[i], h, q)
  <2>1. i + 1 \in 1..n /\ t[i] = msgs[i + 1]
    BY <1>1
  <2> QED BY <2>1 DEF StreamOK
<1>3. ASSUME NEW i \in 2..Len(t)
      PROVE  ComesNext(t[i], TurnAfter(t[i - 1]))
  <2> HIDE DEF n
  <2>1. i + 1 \in 2..n /\ i \in 1..(n - 1) /\ i - 1 \in 1..(n - 1) /\ (i - 1) + 1 = (i + 1) - 1
    BY <1>1
  <2>2. t[i] = msgs[i + 1] /\ t[i - 1] = msgs[(i + 1) - 1]
    BY <1>1, <2>1
  <2> QED BY <2>1, <2>2 DEF StreamOK, n
<1>4. ASSUME t # <<>>
      PROVE  ComesFirst(t[1], f2, s2, h, q)
  <2>1. n >= 2
    BY <1>1, <1>4, EmptySeq
  <2>2. t[1] = msgs[2] /\ 2 \in 2..n /\ 2 - 1 = 1
    BY <1>1, <2>1
  <2>3. ComesNext(msgs[2], TurnAfter(msgs[1]))
    BY <2>2 DEF StreamOK
  <2> QED BY <2>2, <2>3 DEF ComesNext, ComesFirst
<1>5. ASSUME NEW turn, Reaches(f, s, h, msgs, q, turn)
      PROVE  Reaches(f2, s2, h, t, q, turn)
  <2>1. TurnAfter(msgs[n]) = turn
    BY <1>5 DEF Reaches
  <2>2. CASE t = <<>>
    <3>1. n = 1
      BY <1>1, <2>2, EmptySeq
    <3> QED BY <2>1, <2>2, <3>1 DEF Reaches
  <2>3. CASE t # <<>>
    <3>1. n >= 2 /\ Len(t) \in 1..(n - 1) /\ Len(t) + 1 = n
      BY <1>1, <2>3, EmptySeq
    <3>2. t[Len(t)] = msgs[n]
      BY <1>1, <3>1
    <3> QED BY <2>1, <2>3, <3>2 DEF Reaches
  <2> QED BY <2>2, <2>3
<1> QED BY <1>1, <1>2, <1>3, <1>4, <1>5 DEF StreamOK, t

-----------------------------------------------------------------------------
(* What the room sends                                                     *)

\* From any turn of its window the room streams the log.
LEMMA WindowStreams ==
    ASSUME LInv, up, NEW from \in Nat, InWindow(from)
    PROVE  /\ from \in 1..(Len(played) + 1)
           /\ Stream(from).turn = from
           /\ Stream(from).event = EventBefore(played, from)
           /\ Stream(from).sealed = SealedBefore(played, from)
           /\ Backlog(from) \in Seq(Turn)
           /\ from + Len(Backlog(from)) = Len(played) + 1
           /\ \A i \in 1..Len(Backlog(from)) : Backlog(from)[i] = played[from + i - 1]
<1> DEFINE ll == Len(log)
           lp == Len(played)
<1>0. /\ played \in Seq(Turn) /\ Chain(played) /\ log \in Seq(Turn) /\ pending \in Seq(Event)
      /\ nextTurn = lp + 1 /\ lp \in Nat /\ ll \in Nat /\ logFirst \in Nat /\ logFirst >= 1
      /\ logFirst + ll = lp + 1
      /\ \A i \in 1..ll : log[i] = played[logFirst + i - 1]
      /\ sealedBefore = SealedBefore(played, logFirst)
      /\ nextEvent = EventBefore(played, nextTurn) + Len(pending)
      /\ Numbered(pending, EventBefore(played, nextTurn), sealed)
  <2>1. LogTypeOK /\ WindowOK /\ PendingOK /\ Chain(played)
    BY DEF LInv, GameOK
  <2> QED BY <2>1 DEF LogTypeOK, WindowOK, PendingOK, Piece
<1>1. logFirst <= from /\ from <= lp + 1
  BY <1>0 DEF InWindow
<1> HIDE DEF ll, lp
<1>2. from \in 1..(lp + 1)
  BY <1>0, <1>1
<1>3. ASSUME from < nextTurn
      PROVE  log[from - logFirst + 1].first = EventBefore(played, from)
  <2>1. /\ from - logFirst + 1 \in 1..ll /\ logFirst + (from - logFirst + 1) - 1 = from
        /\ from \in 1..lp
    BY <1>0, <1>1, <1>3
  <2>2. log[from - logFirst + 1] = played[from]
    BY <1>0, <2>1
  <2>3. played[from].first = EventBefore(played, from)
    BY <1>0, <2>1 DEF Chain, Follows, lp
  <2> QED BY <2>2, <2>3
<1>4. ASSUME ~(from < nextTurn)
      PROVE  (IF pending # <<>> THEN pending[1].seq ELSE nextEvent) = EventBefore(played, from)
  <2>1. from = nextTurn
    BY <1>0, <1>1, <1>4
  <2>2. EventBefore(played, from) \in Nat
    BY <1>0, <1>2, BeforeType DEF lp
  <2>3. CASE pending = <<>>
    <3>1. Len(pending) = 0
      BY <2>3
    <3> QED BY <1>0, <2>1, <2>2, <2>3, <3>1
  <2>4. CASE pending # <<>>
    <3>1. 1 \in 1..Len(pending)
      BY <1>0, <2>4, EmptySeq
    <3>2. pending[1].seq = EventBefore(played, nextTurn) + 1 - 1
      BY <1>0, <3>1 DEF Numbered
    <3> QED BY <2>1, <2>2, <2>4, <3>2
  <2> QED BY <2>3, <2>4
<1>5. ASSUME from # logFirst
      PROVE  log[from - logFirst].sealed = SealedBefore(played, from)
  <2>1. /\ from - logFirst \in 1..ll /\ logFirst + (from - logFirst) - 1 = from - 1 /\ from # 1
    BY <1>0, <1>1, <1>5
  <2>2. log[from - logFirst] = played[from - 1]
    BY <1>0, <2>1
  <2> QED BY <2>1, <2>2 DEF SealedBefore
<1>6. /\ Stream(from).turn = from
      /\ Stream(from).event = IF from < nextTurn THEN log[from - logFirst + 1].first
                              ELSE IF pending # <<>> THEN pending[1].seq ELSE nextEvent
      /\ Stream(from).sealed = IF from = logFirst THEN sealedBefore ELSE log[from - logFirst].sealed
  BY DEF Stream
<1>7. Stream(from).event = EventBefore(played, from)
  BY <1>3, <1>4, <1>6
<1>8. Stream(from).sealed = SealedBefore(played, from)
  BY <1>0, <1>5, <1>6
<1>9. /\ Backlog(from) \in Seq(Turn) /\ from + Len(Backlog(from)) = lp + 1
      /\ \A i \in 1..Len(Backlog(from)) : Backlog(from)[i] = played[from + i - 1]
  <2> DEFINE m == from - logFirst + 1
  <2>1. m \in Int /\ m >= 1 /\ ll \in Int /\ m <= ll + 1
    BY <1>0, <1>1
  <2>2. \A i \in m..ll : log[i] \in Turn
    <3>1. \A i \in m..ll : i \in 1..Len(log)
      BY <2>1 DEF ll
    <3> QED BY <1>0, <3>1, ElementOfSeq
  <2>3. Backlog(from) = SubSeq(log, m, ll)
    BY DEF Backlog, ll
  <2> HIDE DEF m
  <2>4. /\ SubSeq(log, m, ll) \in Seq(Turn)
        /\ Len(SubSeq(log, m, ll)) = IF m <= ll THEN ll - m + 1 ELSE 0
        /\ \A i \in 1..(ll - m + 1) : SubSeq(log, m, ll)[i] = log[m + i - 1]
    BY <2>1, <2>2, SubSeqProperties
  <2>5. Len(Backlog(from)) = ll - m + 1
    BY <2>1, <2>3, <2>4
  <2>6. m = from - logFirst + 1
    BY DEF m
  <2>7. from + (ll - m + 1) = lp + 1
    BY <1>0, <2>1, <2>6
  <2>8. ASSUME NEW i \in 1..(ll - m + 1)
        PROVE  SubSeq(log, m, ll)[i] = played[from + i - 1]
    <3>1. m + i - 1 \in 1..ll /\ logFirst + (m + i - 1) - 1 = from + i - 1
      BY <1>0, <2>1, <2>6
    <3> QED BY <1>0, <2>4, <3>1
  <2> QED BY <2>3, <2>4, <2>5, <2>7, <2>8
<1> QED BY <1>2, <1>6, <1>7, <1>8, <1>9 DEF lp

\* Sealing puts new turns at the end of the log, sends them, and touches
\* nothing else a client depends on.
LEMMA SealExtends ==
    ASSUME LInv, up, NEW events \in Seq(Event), NEW next \in Nat,
           next = EventBefore(played, nextTurn) + Len(events),
           Numbered(events, EventBefore(played, nextTurn), sealed),
           NEW frontier, SealAndPublish(events, next, frontier)
    PROVE  \E new \in Seq(Turn) :
             /\ Extends(played', played) /\ Len(played') = Len(played) + Len(new)
             /\ \A k \in 1..Len(new) :
                  new[k] = played'[Len(played) + k] /\ new[k].number = Len(played) + k
             /\ Send(new)
             /\ logOpen' => logOpen
             /\ intact' => intact
             /\ intact' /\ logOpen => logOpen'
             /\ DiskHistories(disk') = DiskHistories(disk)
             /\ UNCHANGED <<up, histories, point, loaded, pointer, client, seen, used>>
             /\ pending' = <<>> /\ nextEvent' = next /\ sealed' = frontier
             /\ intact' \in BOOLEAN
<1>0. /\ nextTurn = Len(played) + 1 /\ sealed \in Nat /\ played \in Seq(Turn) /\ Chain(played)
      /\ sealed = SealedBefore(played, nextTurn) /\ disk \in Disk /\ Len(played) \in Nat
  BY DEF LInv, LogTypeOK, GameOK, WindowOK, DiskOK
<1> DEFINE turns(m, cut) == SealedTurns(events, next, cut, m, frontier)
<1>m. PICK m \in 1..(Len(events) + 1) :
        \E cut \in [0..m -> 0..Len(events)] :
            /\ IsCut(cut, m, Len(events))
            /\ frontier \in sealed..MaxSteps
            /\ UNCHANGED <<up, histories, point, loaded, pointer, client, seen, used>>
            /\ nextEvent' = next /\ sealed' = frontier /\ pending' = <<>>
            /\ LogTurns(turns(m, cut)) /\ Send(turns(m, cut))
            /\ played' = played \o turns(m, cut)
  BY DEF SealAndPublish
<1>1. PICK cut \in [0..m -> 0..Len(events)] :
        /\ IsCut(cut, m, Len(events))
        /\ frontier \in sealed..MaxSteps
        /\ UNCHANGED <<up, histories, point, loaded, pointer, client, seen, used>>
        /\ nextEvent' = next /\ sealed' = frontier /\ pending' = <<>>
        /\ LogTurns(turns(m, cut)) /\ Send(turns(m, cut))
        /\ played' = played \o turns(m, cut)
  BY <1>m
<1>2. PICK new : new = SealedTurns(events, next, cut, m, frontier)
  OBVIOUS
<1>3. new \in Seq(Turn) /\ CarriesOn(played, new)
  <2>1. Sealing(events, next, cut, m, frontier)
    BY <1>0, <1>1 DEF Sealing
  <2>2. LET n == SealedTurns(events, next, cut, m, frontier) IN
        n \in Seq(Turn) /\ CarriesOn(played, n)
    BY <2>1, SealedTurnsCarryOn
  <2> QED BY <1>2, <2>2
<1>4. played' = played \o new /\ LogTurns(new) /\ Send(new)
  BY <1>1, <1>2
<1>5. /\ Len(played') = Len(played) + Len(new) /\ Extends(played', played)
      /\ \A k \in 1..Len(new) : played'[Len(played) + k] = new[k]
  BY <1>0, <1>3, <1>4, ChainConcat
<1>6. \A k \in 1..Len(new) : new[k].number = Len(played) + k
  BY <1>3 DEF CarriesOn, Follows
<1>7. /\ logOpen' => logOpen
      /\ intact' => intact
      /\ intact' /\ logOpen => logOpen'
      /\ DiskHistories(disk') = DiskHistories(disk)
      /\ intact' \in BOOLEAN
  <2>1. PICK written \in 0..Len(new) :
          /\ disk' = [disk EXCEPT !.turns = @ \o SubSeq(new, 1, written)]
          /\ logOpen' = (logOpen /\ written = Len(new))
          /\ intact' = (intact /\ written = Len(new))
    BY <1>4 DEF LogTurns
  <2>2. disk'.histories = disk.histories /\ disk'.marks = disk.marks
    BY <1>0, <2>1 DEF Disk
  <2>3. DiskHistories(disk') = DiskHistories(disk)
    BY <2>2 DEF DiskHistories
  <2> QED BY <2>1, <2>3
<1> QED BY <1>1, <1>3, <1>4, <1>5, <1>6, <1>7

-----------------------------------------------------------------------------
(* What agrees with the room still does after its steps                    *)

LEMMA KeepsSealed ==
    ASSUME NEW r, NEW r2, r.up, r2.hs = r.hs, r2.used = r.used, r2.intact => r.intact,
           r.log \in Seq(Turn), r2.log \in Seq(Turn), Extends(r2.log, r.log)
    PROVE  Keeps(r, r2)
<1> SUFFICES ASSUME NEW h, NEW s, Agrees(r, h, s) PROVE Agrees(r2, h, s)
  BY DEF Keeps
<1>1. s \in Seq(Turn) /\ IsPrefixOf(s, r.log) => IsPrefixOf(s, r2.log)
  BY PrefixExtends DEF Agrees
<1> QED BY <1>1 DEF Agrees

\* Recovery begins a history no client knows.
LEMMA KeepsRecovered ==
    ASSUME NEW r, NEW r2, ~r.up, NEW fresh, fresh \notin r.used, r2.used = r.used \cup {fresh},
           r.log \in Seq(Turn), r2.log = r.log, r2.intact = r.intact,
           HistoriesOK(r.hs, Len(r.log)), r2.hs \in Seq(History),
           Len(r2.hs) = Len(r.hs) + 1, \A i \in 1..Len(r.hs) : r2.hs[i] = r.hs[i],
           r2.hs[Len(r.hs) + 1].id = fresh, r2.hs[Len(r.hs) + 1].after = Len(r.log)
    PROVE  Keeps(r, r2)
<1> SUFFICES ASSUME NEW h, NEW s, Agrees(r, h, s) PROVE Agrees(r2, h, s)
  BY DEF Keeps
<1> DEFINE n == Len(r.hs)
<1>1. h \in r.used /\ h # fresh /\ h \in r2.used /\ s \in Seq(Turn) /\ Chain(s) /\ Len(s) \in Nat
  BY DEF Agrees
<1>2. /\ n \in Nat /\ Len(r.log) \in Nat
      /\ \A i \in 1..n : r.hs[i].after \in Nat /\ r.hs[i].after <= Len(r.log)
  <2>1. r.hs \in Seq(History) /\ n \in Nat /\ Len(r.log) \in Nat
    BY DEF HistoriesOK
  <2> QED BY <2>1 DEF HistoriesOK
<1>3. \A i \in 1..(n + 1) : r2.hs[i].id = h => i \in 1..n
  <2>1. \A i \in 1..(n + 1) : i \in 1..n \/ i = n + 1
    BY <1>2
  <2> QED BY <1>1, <2>1
<1>4. ASSUME Shares(r2.hs, h, Len(s))
      PROVE  Shares(r.hs, h, Len(s)) /\ Len(s) <= Len(r.log)
  <2> HIDE DEF n
  <2>0. Len(r2.hs) = n + 1 /\ r2.hs[n + 1].after = Len(r.log)
    BY DEF n
  <2>1. PICK i \in 1..(n + 1) : r2.hs[i].id = h /\ (i < n + 1 => Len(s) <= r2.hs[i + 1].after)
    BY <1>4, <2>0 DEF Shares
  <2>2. i \in 1..n /\ i < n + 1 /\ r2.hs[i] = r.hs[i]
    BY <1>2, <1>3, <2>1 DEF n
  <2>3. CASE i < n
    <3>1. i + 1 \in 1..n /\ r2.hs[i + 1] = r.hs[i + 1]
      BY <1>2, <2>2, <2>3 DEF n
    <3>2. Len(s) <= r.hs[i + 1].after /\ Len(s) <= Len(r.log)
      BY <1>1, <1>2, <2>1, <2>2, <3>1
    <3> QED BY <2>1, <2>2, <3>2 DEF Shares, n
  <2>4. CASE ~(i < n)
    <3>1. i + 1 = n + 1
      BY <1>2, <2>2, <2>4
    <3>2. Len(s) <= Len(r.log)
      BY <2>0, <2>1, <2>2, <3>1
    <3> QED BY <2>1, <2>2, <2>4, <3>2 DEF Shares, n
  <2> QED BY <2>3, <2>4
<1>5. Shares(r2.hs, h, Len(s)) => IsPrefixOf(s, r2.log)
  <2>1. Shares(r.hs, h, Len(s)) => IsPrefixOf(s, r.log) \/ Len(s) > Len(r.log)
    BY DEF Agrees
  <2> QED BY <1>1, <1>2, <1>4, <2>1
<1>6. ASSUME r2.intact
      PROVE  Shares(r2.hs, h, Len(s)) /\ IsPrefixOf(s, r2.log)
  <2>1. Shares(r.hs, h, Len(s)) /\ IsPrefixOf(s, r.log) /\ Len(s) <= Len(r.log)
    BY <1>6 DEF Agrees, IsPrefixOf
  <2> HIDE DEF n
  <2>0. Len(r2.hs) = n + 1 /\ r2.hs[n + 1].after = Len(r.log)
    BY DEF n
  <2>2. PICK i \in 1..n : r.hs[i].id = h /\ (i < n => Len(s) <= r.hs[i + 1].after)
    BY <2>1 DEF Shares, n
  <2>3. i \in 1..(n + 1) /\ r2.hs[i].id = h
    BY <1>2, <2>2 DEF n
  <2>4. Len(s) <= r2.hs[i + 1].after
    <3>1. CASE i < n
      <4>1. i + 1 \in 1..n /\ r2.hs[i + 1] = r.hs[i + 1]
        BY <1>2, <3>1 DEF n
      <4> QED BY <2>2, <3>1, <4>1
    <3>2. CASE ~(i < n)
      <4>1. i + 1 = n + 1
        BY <1>2, <3>2
      <4> QED BY <2>0, <2>1, <4>1
    <3> QED BY <3>1, <3>2
  <2> QED BY <2>0, <2>1, <2>3, <2>4 DEF Shares
<1> QED BY <1>1, <1>5, <1>6 DEF Agrees

\* A crash leaves the first turns of the log, and every history that began
\* within them.
LEMMA KeepsCut ==
    ASSUME NEW r, NEW r2, r.up, ~r2.up, r2.used = r.used,
           r.log \in Seq(Turn), r2.log \in Seq(Turn), Extends(r.log, r2.log),
           r.hs \in Seq(History), r2.hs \in Seq(History), Len(r2.hs) <= Len(r.hs),
           \A i \in 1..Len(r2.hs) : r2.hs[i] = r.hs[i],
           Len(r2.hs) < Len(r.hs) => Len(r2.log) <= r.hs[Len(r2.hs) + 1].after,
           r2.intact => r.intact /\ r2.log = r.log /\ r2.hs = r.hs,
           \A i \in 1..Len(r.hs) : r.hs[i].after \in Nat
    PROVE  Keeps(r, r2)
<1> SUFFICES ASSUME NEW h, NEW s, Agrees(r, h, s) PROVE Agrees(r2, h, s)
  BY DEF Keeps
<1> DEFINE n == Len(r.hs)
           m == Len(r2.hs)
           l == Len(s)
<1>1. /\ h \in r2.used /\ s \in Seq(Turn) /\ Chain(s) /\ l \in Nat /\ n \in Nat /\ m \in Nat
      /\ m <= n /\ Len(r2.log) \in Nat
  BY DEF Agrees
<1>2. ASSUME Shares(r2.hs, h, l), ~(l > Len(r2.log))
      PROVE  IsPrefixOf(s, r2.log)
  <2> HIDE DEF n, m, l
  <2>1. PICK i \in 1..m : r2.hs[i].id = h /\ (i < m => l <= r2.hs[i + 1].after)
    BY <1>2 DEF Shares, m
  <2>2. i \in 1..n /\ r.hs[i].id = h
    BY <1>1, <2>1 DEF m
  <2>3. ASSUME i < n
        PROVE  l <= r.hs[i + 1].after
    <3>0. i + 1 \in 1..n /\ r.hs[i + 1].after \in Nat
      BY <1>1, <2>3 DEF n
    <3>1. CASE i < m
      <4>1. i + 1 \in 1..m /\ r2.hs[i + 1] = r.hs[i + 1]
        BY <1>1, <3>1 DEF m
      <4> QED BY <2>1, <3>1, <4>1
    <3>2. CASE ~(i < m)
      <4>1. i = m /\ m < n
        BY <1>1, <2>3, <3>2
      <4>2. Len(r2.log) <= r.hs[i + 1].after
        BY <4>1 DEF m, n
      <4> QED BY <1>1, <1>2, <3>0, <4>2
    <3> QED BY <3>1, <3>2
  <2>4. Shares(r.hs, h, l)
    BY <2>2, <2>3 DEF Shares, n
  <2>5. IsPrefixOf(s, r.log) /\ l <= Len(r2.log)
    BY <1>1, <1>2, <2>4 DEF Agrees, l
  <2> QED BY <1>1, <2>5 DEF IsPrefixOf, Extends, l
<1>3. ASSUME r2.intact
      PROVE  Shares(r2.hs, h, Len(s)) /\ IsPrefixOf(s, r2.log)
  BY <1>3 DEF Agrees
<1> QED BY <1>1, <1>2, <1>3 DEF Agrees

-----------------------------------------------------------------------------
(* The steps of the room                                                   *)

LEMMA RoomFacts ==
    ASSUME LInv
    PROVE  /\ Room.hs = DiskHistories(disk) /\ Room.log = played /\ Room.used = used
           /\ Room.up = up /\ Room.intact = intact
           /\ played \in Seq(Turn) /\ Chain(played) /\ disk \in Disk /\ FileOK(disk, played)
           /\ HistoriesOK(DiskHistories(disk), Len(played))
           /\ DiskHistories(disk) \in Seq(History) /\ DiskHistories(disk) # <<>>
           /\ up => histories = DiskHistories(disk) /\ nextTurn = Len(played) + 1
<1>1. /\ played \in Seq(Turn) /\ Chain(played) /\ disk \in Disk /\ FileOK(disk, played)
      /\ up => histories = DiskHistories(disk) /\ nextTurn = Len(played) + 1
  BY DEF LInv, LogTypeOK, DiskOK, GameOK, WindowOK
<1>2. HistoriesOK(DiskHistories(disk), Len(played))
  BY <1>1, FileHistories
<1> QED BY <1>1, <1>2 DEF Room, HistoriesOK

\* A client no step touches, on a connection that leads where it led.
LEMMA ClientKept ==
    ASSUME CInv, Keeps(Room, Room'), NEW c \in Client,
           client'[c] = client[c], seen'[c] = seen[c], conn'[c] = conn[c],
           c \in linked' => c \in linked /\ played' = played /\ Current(histories') = Current(histories),
           c \in streaming' => c \in streaming
    PROVE  FollowerOK(Room', client'[c], seen'[c]) /\ ConnOK(c)'
<1>1. FollowerOK(Room', client'[c], seen'[c])
  BY KeptFollower DEF CInv, FollowersOK
<1>2. ASSUME conn'[c].open
      PROVE  \E q \in Seq(Turn) :
                /\ Line(Room', client'[c], seen'[c], conn'[c], q)
                /\ c \in linked' => q = played' /\ conn'[c].history = Current(histories')
                /\ c \in streaming' =>
                    Reaches(client'[c], seen'[c], conn'[c].history, conn'[c].msgs, q, Len(q) + 1)
  <2>1. PICK q \in Seq(Turn) :
            /\ Line(Room, client[c], seen[c], conn[c], q)
            /\ c \in linked => q = played /\ conn[c].history = Current(histories)
            /\ c \in streaming =>
                Reaches(client[c], seen[c], conn[c].history, conn[c].msgs, q, Len(q) + 1)
    BY <1>2 DEF CInv, ConnsOK, ConnOK
  <2>2. Line(Room', client'[c], seen'[c], conn'[c], q)
    BY <2>1, KeptLine
  <2> QED BY <2>1, <2>2
<1>3. ConnOK(c)'
  BY <1>2 DEF ConnOK
<1> QED BY <1>1, <1>3

\* Nothing a client depends on has changed.
LEMMA KeepsSame == ASSUME Room' = Room PROVE Keeps(Room, Room')
BY DEF Keeps

LEMMA PointsKept ==
    ASSUME CInv, Keeps(Room, Room'), NEW p, p \in {saved, point, pointer}
    PROVE  PointOK(Room', p)
BY KeptPoint DEF CInv, PointsOK

\* A step that touches no client and starts no stream.
LEMMA QuietClients ==
    ASSUME CInv, Keeps(Room, Room'), UNCHANGED clientVars,
           linked' \subseteq linked, streaming' \subseteq streaming,
           linked' # {} => played' = played /\ Current(histories') = Current(histories)
    PROVE  FollowersOK' /\ ConnsOK'
<1>1. ASSUME NEW c \in Client
      PROVE  FollowerOK(Room', client'[c], seen'[c]) /\ ConnOK(c)'
  <2>1. client'[c] = client[c] /\ seen'[c] = seen[c] /\ conn'[c] = conn[c]
    BY DEF clientVars
  <2>2. c \in linked' => c \in linked /\ played' = played /\ Current(histories') = Current(histories)
    OBVIOUS
  <2>3. c \in streaming' => c \in streaming
    OBVIOUS
  <2> QED BY <2>1, <2>2, <2>3, ClientKept
<1> QED BY <1>1 DEF FollowersOK, ConnsOK

LEMMA CInvOrderEvent == ASSUME LInv, CInv, OrderEvent PROVE CInv'
<1>1. /\ UNCHANGED <<up, histories, saved, point, linkVars, diskVars, clientVars, ghostVars>>
  BY DEF OrderEvent
<1>2. Room' = Room
  BY <1>1 DEF Room, diskVars, ghostVars
<1>3. FollowersOK' /\ ConnsOK'
  BY <1>1, <1>2, KeepsSame, QuietClients DEF linkVars, ghostVars
<1>4. PointsOK'
  BY <1>1, <1>2 DEF CInv, PointsOK, diskVars
<1>5. ClientTypeOK' /\ LogKept' /\ (linked' # {} => up') /\ IdsOK'
  BY <1>1 DEF CInv, ClientTypeOK, LogKept, IdsOK, linkVars, diskVars, clientVars, ghostVars
<1> QED BY <1>3, <1>4, <1>5 DEF CInv

LEMMA CInvWritePointer == ASSUME LInv, CInv, WritePointer PROVE CInv'
<1>1. /\ UNCHANGED <<up, gameVars, linkVars, logOpen, disk, clientVars, ghostVars>>
      /\ pointer' = point
  BY DEF WritePointer
<1>2. Room' = Room
  BY <1>1 DEF Room, ghostVars
<1>3. FollowersOK' /\ ConnsOK'
  BY <1>1, <1>2, KeepsSame, QuietClients DEF linkVars, ghostVars, gameVars
<1>4. PointsOK'
  BY <1>1, <1>2 DEF CInv, PointsOK, gameVars
<1>5. ClientTypeOK' /\ LogKept' /\ (linked' # {} => up') /\ IdsOK'
  BY <1>1 DEF CInv, ClientTypeOK, LogKept, IdsOK, linkVars, gameVars, clientVars, ghostVars
<1> QED BY <1>3, <1>4, <1>5 DEF CInv

LEMMA CInvFinishCompaction == ASSUME LInv, CInv, FinishCompaction PROVE CInv'
<1>1. /\ UNCHANGED <<up, gameVars, linkVars, pointer, clientVars, ghostVars>>
      /\ compaction # None
      /\ (disk' = disk /\ logOpen' = logOpen) \/ (disk' = compaction /\ logOpen' = TRUE)
  BY DEF FinishCompaction
<1>2. DiskHistories(disk') = DiskHistories(disk)
  BY <1>1 DEF LInv, DiskOK
<1>3. Room' = Room
  BY <1>1, <1>2 DEF Room, ghostVars
<1>4. FollowersOK' /\ ConnsOK'
  BY <1>1, <1>3, KeepsSame, QuietClients DEF linkVars, ghostVars, gameVars
<1>5. PointsOK'
  BY <1>1, <1>3 DEF CInv, PointsOK, gameVars
<1>6. IdsOK'
  BY <1>1, <1>2 DEF CInv, IdsOK, ghostVars
<1>7. ClientTypeOK' /\ LogKept' /\ (linked' # {} => up')
  BY <1>1 DEF CInv, ClientTypeOK, LogKept, linkVars, gameVars, clientVars, ghostVars
<1> QED BY <1>4, <1>5, <1>6, <1>7 DEF CInv

LEMMA CInvDisconnected ==
    ASSUME LInv, CInv, NEW c \in Client, Disconnected(c) PROVE CInv'
<1>1. /\ linked' = linked \ {c} /\ streaming' = streaming \ {c}
      /\ UNCHANGED <<up, gameVars, loaded, diskVars, clientVars, ghostVars>>
  BY DEF Disconnected
<1>2. Room' = Room
  BY <1>1 DEF Room, diskVars, ghostVars
<1>3. FollowersOK' /\ ConnsOK'
  BY <1>1, <1>2, KeepsSame, QuietClients DEF ghostVars, gameVars
<1>4. PointsOK'
  BY <1>1, <1>2 DEF CInv, PointsOK, gameVars, diskVars
<1>5. ClientTypeOK' /\ LogKept' /\ (linked' # {} => up') /\ IdsOK'
  BY <1>1 DEF CInv, ClientTypeOK, LogKept, IdsOK, gameVars, diskVars, clientVars, ghostVars
<1> QED BY <1>3, <1>4, <1>5 DEF CInv

\* A crash ends every connection the room knows.
LEMMA CInvStop ==
    ASSUME LInv, CInv, Stop, Keeps(Room, Room'), IdsOK', intact' \in BOOLEAN
    PROVE  CInv'
<1>1. /\ up' = FALSE /\ saved' = None /\ point' = None
      /\ linked' = {} /\ streaming' = {} /\ loaded' = {}
      /\ UNCHANGED <<pointer, clientVars, used>>
  BY DEF Stop
<1>2. FollowersOK' /\ ConnsOK'
  BY <1>1, QuietClients
<1>3. PointsOK'
  <2>1. PointOK(Room', pointer)
    BY PointsKept
  <2> QED BY <1>1, <2>1 DEF PointsOK, PointOK
<1>4. ClientTypeOK' /\ LogKept' /\ (linked' # {} => up')
  BY <1>1 DEF CInv, ClientTypeOK, LogKept, clientVars
<1> QED BY <1>2, <1>3, <1>4 DEF CInv

LEMMA CInvCrash == ASSUME LInv, CInv, Crash PROVE CInv'
<1>1. /\ disk' = disk /\ Stop /\ intact' = intact /\ up /\ up' = FALSE /\ used' = used
      /\ played' = SubSeq(played, 1, disk'.first - 1 + Len(disk'.turns))
  BY DEF Crash, Stop
<1>2. /\ played \in Seq(Turn) /\ Chain(played) /\ disk \in Disk /\ FileOK(disk, played)
      /\ HistoriesOK(DiskHistories(disk), Len(played))
  BY RoomFacts
<1>3. disk.first - 1 + Len(disk.turns) \in 0..Len(played)
  BY <1>2, FileBounds, DiskNumbers
<1>4. played' \in Seq(Turn) /\ Extends(played, played')
  BY <1>1, <1>2, <1>3, ChainCut
<1>5. ASSUME intact
      PROVE  played' = played
  <2>1. logOpen
    BY <1>1, <1>5 DEF CInv, LogKept
  <2>2. disk.first - 1 + Len(disk.turns) = Len(played)
    BY <1>2, <2>1, DiskNumbers DEF LInv, DiskOK, Complete
  <2> QED BY <1>1, <1>2, <2>2, SubSeqFull
<1>6. Keeps(Room, Room')
  <2> DEFINE r == Room
             r2 == Room'
  <2>1. /\ r.hs = DiskHistories(disk) /\ r.log = played /\ r.used = used /\ r.up = up
        /\ r.intact = intact
        /\ r2.hs = DiskHistories(disk') /\ r2.log = played' /\ r2.used = used' /\ r2.up = up'
        /\ r2.intact = intact'
    BY DEF Room
  <2>2. r2.hs = r.hs /\ r.hs \in Seq(History) /\ \A i \in 1..Len(r.hs) : r.hs[i].after \in Nat
    BY <1>1, <1>2, <2>1 DEF HistoriesOK
  <2>3. Len(r2.hs) <= Len(r.hs) /\ ~(Len(r2.hs) < Len(r.hs))
    BY <2>2
  <2> HIDE DEF r, r2
  <2>4. Keeps(r, r2)
    BY <1>1, <1>2, <1>4, <1>5, <2>1, <2>2, <2>3, KeepsCut
  <2> QED BY <2>4 DEF r, r2
<1>7. IdsOK'
  BY <1>1 DEF CInv, IdsOK
<1>8. intact' \in BOOLEAN
  BY <1>1 DEF CInv, ClientTypeOK
<1> QED BY <1>1, <1>6, <1>7, <1>8, CInvStop

LEMMA CInvMachineCrash == ASSUME LInv, LInv', CInv, MachineCrash PROVE CInv'
<1>1. /\ Stop /\ intact' = FALSE /\ up /\ up' = FALSE /\ used' = used
      /\ played' = SubSeq(played, 1, disk'.first - 1 + Len(disk'.turns))
  BY DEF MachineCrash, Stop
<1>2. PICK n \in disk.synced..Len(disk.turns), k \in 0..Len(disk.marks) :
        /\ \A i \in (k + 1)..Len(disk.marks) : disk.marks[i].at >= n
        /\ disk' = [disk EXCEPT !.turns = SubSeq(@, 1, n), !.marks = SubSeq(@, 1, k)]
  BY DEF MachineCrash
<1>3. /\ played \in Seq(Turn) /\ Chain(played) /\ disk \in Disk /\ FileOK(disk, played)
      /\ HistoriesOK(DiskHistories(disk), Len(played))
  BY RoomFacts
<1>4. /\ disk.turns \in Seq(Turn) /\ disk.marks \in Seq(Mark) /\ disk.synced \in Nat
      /\ Len(disk.turns) \in Nat /\ Len(disk.marks) \in Nat /\ Len(disk.histories) \in Nat
      /\ disk.first \in Nat /\ n \in Nat /\ n <= Len(disk.turns)
  BY <1>3, DiskType
<1>5. /\ disk' \in Disk /\ disk'.first = disk.first /\ disk'.histories = disk.histories
      /\ Len(disk'.turns) = n /\ Len(disk'.marks) = k
      /\ \A i \in 1..k : disk'.marks[i] = disk.marks[i]
  <2>1. disk' \in Disk
    BY DEF LInv, LogTypeOK
  <2>2. /\ disk'.first = disk.first /\ disk'.histories = disk.histories
        /\ disk'.turns = SubSeq(disk.turns, 1, n) /\ disk'.marks = SubSeq(disk.marks, 1, k)
    BY <1>2, <1>3 DEF Disk
  <2>3. Len(SubSeq(disk.turns, 1, n)) = n
    BY <1>4, SubSeqPrefix
  <2>4. Len(SubSeq(disk.marks, 1, k)) = k /\ \A i \in 1..k : SubSeq(disk.marks, 1, k)[i] = disk.marks[i]
    BY <1>4, SubSeqPrefix
  <2> QED BY <2>1, <2>2, <2>3, <2>4
<1>6. /\ disk.first - 1 + n \in 0..Len(played)
      /\ played' \in Seq(Turn) /\ Extends(played, played') /\ Len(played') = disk.first - 1 + n
  <2>1. disk.first - 1 + n \in 0..Len(played)
    BY <1>3, <1>4, FileBounds, SMTT(30)
  <2>2. played' = SubSeq(played, 1, disk.first - 1 + n)
    BY <1>1, <1>5
  <2> QED BY <1>3, <2>1, <2>2, ChainCut
<1> DEFINE hs == DiskHistories(disk)
           hs2 == DiskHistories(disk')
           b == Len(disk.histories)
<1>7. /\ hs \in Seq(History) /\ Len(hs) = b + Len(disk.marks)
      /\ \A i \in 1..b : hs[i] = disk.histories[i]
      /\ \A i \in 1..Len(disk.marks) : hs[b + i] = [id |-> disk.marks[i].id, after |-> disk.marks[i].after]
  BY <1>3, DiskHistoriesType
<1>8. /\ hs2 \in Seq(History) /\ Len(hs2) = b + k
      /\ \A i \in 1..b : hs2[i] = disk.histories[i]
      /\ \A i \in 1..k : hs2[b + i] = [id |-> disk.marks[i].id, after |-> disk.marks[i].after]
  <2>1. /\ hs2 \in Seq(History) /\ Len(hs2) = Len(disk'.histories) + Len(disk'.marks)
        /\ \A i \in 1..Len(disk'.histories) : hs2[i] = disk'.histories[i]
        /\ \A i \in 1..Len(disk'.marks) :
             hs2[Len(disk'.histories) + i] = [id |-> disk'.marks[i].id, after |-> disk'.marks[i].after]
    BY <1>5, DiskHistoriesType
  <2> HIDE DEF hs2
  <2> QED BY <1>5, <2>1
<1> HIDE DEF hs, hs2, b
<1>9. /\ b \in Nat /\ Len(hs2) <= Len(hs)
      /\ \A i \in 1..Len(hs2) : hs2[i] = hs[i]
  <2>1. b \in Nat /\ b + k <= b + Len(disk.marks)
    BY <1>4 DEF b
  <2>2. ASSUME NEW i \in 1..(b + k)
        PROVE  hs2[i] = hs[i]
    <3>1. CASE i <= b
      <4>1. i \in 1..b
        BY <2>1, <3>1
      <4> QED BY <1>7, <1>8, <4>1
    <3>2. CASE i > b
      <4>1. i - b \in 1..k /\ i - b \in 1..Len(disk.marks) /\ b + (i - b) = i
        BY <1>4, <2>1, <3>2
      <4> QED BY <1>7, <1>8, <4>1, ZenonT(40)
    <3> QED BY <2>1, <3>1, <3>2
  <2> QED BY <1>7, <1>8, <2>1, <2>2
<1>10. ASSUME Len(hs2) < Len(hs)
       PROVE  Len(played') <= hs[Len(hs2) + 1].after
  <2>1. k + 1 \in 1..Len(disk.marks) /\ k + 1 \in (k + 1)..Len(disk.marks) /\ Len(hs2) + 1 = b + (k + 1)
    BY <1>4, <1>7, <1>8, <1>9, <1>10
  <2> DEFINE x == disk.marks[k + 1]
  <2>2. hs[Len(hs2) + 1].after = x.after
    <3>1. hs[b + (k + 1)] = [id |-> x.id, after |-> x.after]
      BY <1>7, <2>1
    <3> HIDE DEF x
    <3> QED BY <2>1, <3>1
  <2>3. x.after = disk.first + x.at - 1
    BY <1>3, <2>1 DEF FileOK, MarksOK
  <2>4. x.at >= n
    BY <1>2, <2>1
  <2>5. x.at \in Nat
    BY <1>3, <2>1, DiskType
  <2> HIDE DEF x
  <2> QED BY <1>4, <1>6, <2>2, <2>3, <2>4, <2>5
<1>11. Keeps(Room, Room')
  <2> DEFINE r == Room
             r2 == Room'
  <2>1. /\ r.hs = hs /\ r.log = played /\ r.used = used /\ r.up = up
        /\ r2.hs = hs2 /\ r2.log = played' /\ r2.used = used' /\ r2.up = up'
        /\ r2.intact = intact'
    BY DEF Room, hs, hs2
  <2>2. \A i \in 1..Len(hs) : hs[i].after \in Nat
    BY <1>3 DEF HistoriesOK, hs
  <2> HIDE DEF r, r2
  <2>4. Keeps(r, r2)
    BY <1>1, <1>3, <1>6, <1>7, <1>8, <1>9, <1>10, <2>1, <2>2, KeepsCut
  <2> QED BY <2>4 DEF r, r2
<1>12. IdsOK'
  <2>1. \A i \in 1..Len(hs) : hs[i].id \in used
    BY DEF CInv, IdsOK, hs
  <2>2. \A i \in 1..Len(hs2) : i \in 1..Len(hs)
    BY <1>7, <1>8, <1>9
  <2>3. \A i \in 1..Len(hs2) : hs2[i].id \in used'
    BY <1>1, <1>9, <2>1, <2>2
  <2> QED BY <2>3 DEF IdsOK, hs2
<1> QED BY <1>1, <1>11, <1>12, CInvStop

LEMMA CInvRecover == ASSUME LInv, LInv', CInv, Recover PROVE CInv'
<1>1. /\ ~up /\ up' = TRUE /\ linked' = {} /\ streaming' = {} /\ loaded' = {}
      /\ UNCHANGED <<pointer, clientVars, played, intact>>
      /\ point' \in {pointer, None} /\ saved' = None /\ logOpen' = TRUE
      /\ nextTurn' = disk.first + Len(disk.turns)
  BY DEF Recover
<1>2. PICK fresh \in HistoryId \ used :
        /\ histories' = Append(DiskHistories(disk), [id |-> fresh, after |-> nextTurn' - 1])
        /\ used' = used \cup {fresh}
  BY DEF Recover
<1>3. /\ played \in Seq(Turn) /\ disk \in Disk
      /\ HistoriesOK(DiskHistories(disk), Len(played)) /\ DiskHistories(disk) \in Seq(History)
  BY RoomFacts
<1>4. nextTurn' - 1 = Len(played) /\ Len(played) \in Nat
  BY <1>1, <1>3 DEF LInv, GameOK, WindowOK
<1>5. DiskHistories(disk') = histories'
  BY <1>1 DEF LInv, GameOK
<1> DEFINE hs == DiskHistories(disk)
           hs2 == DiskHistories(disk')
           e == [id |-> fresh, after |-> Len(played)]
<1>6. /\ hs2 \in Seq(History) /\ Len(hs2) = Len(hs) + 1
      /\ \A i \in 1..Len(hs) : hs2[i] = hs[i]
      /\ hs2[Len(hs) + 1] = e
  <2>1. e \in History
    BY <1>4 DEF History
  <2>2. hs2 = Append(hs, e)
    BY <1>2, <1>4, <1>5
  <2> HIDE DEF e, hs, hs2
  <2> QED BY <1>3, <2>1, <2>2, AppendProperties DEF hs
<1>7. e.id = fresh /\ e.after = Len(played) /\ Len(hs) \in Nat
  BY <1>3
<1> HIDE DEF hs, hs2, e
<1>8. Keeps(Room, Room')
  <2> DEFINE r == Room
             r2 == Room'
  <2>1. /\ r.hs = hs /\ r.log = played /\ r.used = used /\ r.up = up /\ r.intact = intact
        /\ r2.hs = hs2 /\ r2.log = played' /\ r2.used = used' /\ r2.up = up'
        /\ r2.intact = intact'
    BY DEF Room, hs, hs2
  <2>2. HistoriesOK(hs, Len(played))
    BY <1>3 DEF hs
  <2> HIDE DEF r, r2
  <2>4. Keeps(r, r2)
    BY <1>1, <1>2, <1>3, <1>6, <1>7, <2>1, <2>2, KeepsRecovered
  <2> QED BY <2>4 DEF r, r2
<1>9. IdsOK'
  <2>1. \A i \in 1..Len(hs) : hs[i].id \in used
    BY DEF CInv, IdsOK, hs
  <2>2. \A i \in 1..Len(hs2) : i \in 1..Len(hs) \/ i = Len(hs) + 1
    BY <1>6, <1>7
  <2>3. \A i \in 1..Len(hs2) : hs2[i].id \in used'
    BY <1>2, <1>6, <1>7, <2>1, <2>2
  <2> QED BY <2>3 DEF IdsOK, hs2
<1>10. FollowersOK' /\ ConnsOK'
  BY <1>1, <1>8, QuietClients
<1>11. PointsOK'
  <2>1. PointOK(Room', pointer)
    BY <1>8, PointsKept
  <2> QED BY <1>1, <2>1 DEF PointsOK, PointOK
<1>12. ClientTypeOK' /\ LogKept' /\ (linked' # {} => up')
  BY <1>1, <1>2 DEF CInv, ClientTypeOK, LogKept, clientVars
<1> QED BY <1>9, <1>10, <1>11, <1>12 DEF CInv

-----------------------------------------------------------------------------
(* New turns                                                               *)

\* The turns the room plays agree with it, under the history it plays.
LEMMA PlayedAgrees ==
    ASSUME LInv, IdsOK, up
    PROVE  AgreesAlong(Room, Current(histories), played)
<1> DEFINE r == Room
<1>1. /\ r.hs = histories /\ r.log = played /\ r.used = used
      /\ histories \in Seq(History) /\ histories # <<>>
      /\ played \in Seq(Turn) /\ Chain(played)
  BY RoomFacts
<1>2. \A i \in 1..Len(histories) : histories[i].id \in used
  BY RoomFacts DEF IdsOK
<1> HIDE DEF r
<1>3. AgreesAlong(r, Current(r.hs), r.log)
  BY <1>1, <1>2, OwnTurnsAgree
<1> QED BY <1>1, <1>3 DEF r

\* So do those it plays after a step of sealing.
LEMMA SealedAgrees ==
    ASSUME LInv', IdsOK', up', histories' = histories
    PROVE  AgreesAlong(Room', Current(histories), played')
<1> DEFINE r == Room'
<1>0. played' \in Seq(Turn) /\ Chain(played')
  BY DEF LInv, LogTypeOK
<1>1. /\ r.hs = DiskHistories(disk') /\ r.log = played' /\ r.used = used'
  BY DEF Room
<1>2. /\ DiskHistories(disk') = histories' /\ histories' = histories
      /\ histories \in Seq(History) /\ histories # <<>>
  BY DEF LInv, GameOK, LogTypeOK
<1>3. \A i \in 1..Len(histories) : histories[i].id \in used'
  BY <1>2 DEF IdsOK
<1> HIDE DEF r
<1>4. AgreesAlong(r, Current(r.hs), r.log)
  BY <1>0, <1>1, <1>2, <1>3, OwnTurnsAgree
<1> QED BY <1>1, <1>2, <1>4 DEF r

\* What a step of sealing sends keeps every client on its line.
LEMMA SealClients ==
    ASSUME LInv, LInv', CInv, up, IdsOK', Keeps(Room, Room'),
           NEW new \in Seq(Turn),
           Extends(played', played), Len(played') = Len(played) + Len(new),
           \A k \in 1..Len(new) : new[k] = played'[Len(played) + k] /\ new[k].number = Len(played) + k,
           Send(new), UNCHANGED <<up, histories, client, seen>>
    PROVE  /\ FollowersOK' /\ ConnsOK'
           /\ streaming' \subseteq streaming /\ streaming' \subseteq linked' /\ linked' \subseteq linked
           /\ conn' \in [Client -> [open : BOOLEAN, history : HistoryId, msgs : Seq(Message)]]
<1>1. PICK got \in [streaming -> 0..Len(new)] :
        /\ streaming' = {c \in streaming : got[c] = Len(new)}
        /\ linked' = linked \ (streaming \ streaming')
        /\ conn' = [c \in Client |->
                        IF c \in streaming /\ conn[c].open
                        THEN [conn[c] EXCEPT !.msgs = @ \o Frames(SubSeq(new, 1, got[c]))]
                        ELSE conn[c]]
  BY DEF Send
<1>2. streaming \subseteq linked /\ linked \subseteq Client
      /\ conn \in [Client -> [open : BOOLEAN, history : HistoryId, msgs : Seq(Message)]]
      /\ seen \in [Client -> Seq(Turn)]
  BY DEF CInv, ClientTypeOK
<1>3. streaming' \subseteq streaming /\ streaming' \subseteq linked' /\ linked' \subseteq linked
  BY <1>1, <1>2
<1>4. /\ played \in Seq(Turn) /\ played' \in Seq(Turn) /\ Chain(played) /\ Chain(played')
      /\ Len(played) \in Nat /\ Len(new) \in Nat
  BY SMTT(30) DEF LInv, LogTypeOK
<1>5. AgreesAlong(Room', Current(histories), played')
  BY SealedAgrees
<1>6. ASSUME NEW c \in Client
      PROVE  /\ FollowerOK(Room', client'[c], seen'[c]) /\ ConnOK(c)'
             /\ conn'[c] \in [open : BOOLEAN, history : HistoryId, msgs : Seq(Message)]
  <2> DEFINE k == conn[c]
             f == client[c]
             s == seen[c]
             h == conn[c].history
             n == got[c]
             ts == SubSeq(new, 1, n)
  <2>0. /\ k \in [open : BOOLEAN, history : HistoryId, msgs : Seq(Message)]
        /\ k.msgs \in Seq(Message) /\ s \in Seq(Turn) /\ client'[c] = f /\ seen'[c] = s
    BY <1>2
  <2>1. CASE c \notin linked \/ ~conn[c].open
    <3>1. conn'[c] = conn[c]
      BY <1>1, <1>2, <2>1
    <3>2. FollowerOK(Room', client'[c], seen'[c])
      BY <2>0, KeptFollower DEF CInv, FollowersOK
    <3>3. CASE ~conn[c].open
      <4>1. ~conn'[c].open
        BY <3>1, <3>3
      <4> QED BY <2>0, <3>1, <3>2, <4>1 DEF ConnOK
    <3>4. CASE c \notin linked
      <4>1. c \notin linked' /\ c \notin streaming'
        BY <1>1, <1>2, <3>4
      <4> QED BY <2>0, <3>1, <4>1, ClientKept
    <3> QED BY <2>1, <3>3, <3>4
  <2>2. CASE c \in linked /\ conn[c].open
    <3>1. /\ StreamOK(f, s, h, k.msgs, played) /\ h = Current(histories)
          /\ c \in streaming => Reaches(f, s, h, k.msgs, played, Len(played) + 1)
      BY <2>2 DEF CInv, ConnsOK, ConnOK, Line
    <3>2. StreamOK(f, s, h, k.msgs, played')
      BY <1>4, <2>0, <3>1, StreamExtends
    <3>3. FollowerOK(Room', client'[c], seen'[c])
      BY <2>0, KeptFollower DEF CInv, FollowersOK
    <3>4. CASE c \notin streaming
      <4>1. conn'[c] = k /\ c \notin streaming'
        BY <1>1, <3>4
      <4>2. Line(Room', f, s, k, played')
        BY <1>4, <1>5, <3>1, <3>2 DEF Line
      <4>3. ConnOK(c)'
        BY <1>4, <2>0, <3>1, <4>1, <4>2 DEF ConnOK
      <4> QED BY <2>0, <3>3, <4>1, <4>3
    <3>5. CASE c \in streaming
      <4>1. /\ n \in 0..Len(new) /\ n \in Nat
            /\ conn'[c] = [k EXCEPT !.msgs = @ \o Frames(ts)]
        BY <1>1, <2>2, <3>5
      <4>2. ts \in Seq(Turn) /\ Len(ts) = n /\ \A i \in 1..n : ts[i] = new[i]
        BY <4>1, SubSeqPrefix
      <4>3. Reaches(f, s, h, k.msgs, played', Len(played) + 1)
        BY <1>4, <2>0, <3>1, <3>5, ReachesExtends
      <4> HIDE DEF ts, n, k, f, s, h
      <4>a. PICK turn : turn = Len(played) + 1
        OBVIOUS
      <4>b. turn \in Nat \ {0} /\ turn + Len(ts) <= Len(played') + 1
        <5> DEFINE a == Len(played)
                   b == Len(new)
        <5>1. /\ a \in Nat /\ b \in Nat /\ Len(played') = a + b /\ n <= b /\ Len(ts) = n
              /\ turn = a + 1
          BY <1>4, <4>1, <4>2, <4>a
        <5> HIDE DEF a, b
        <5> QED BY <4>1, <5>1
      <4>4. \A i \in 1..Len(ts) : ts[i] = played'[turn + i - 1] /\ ts[i].number = turn + i - 1
        <5> TAKE i \in 1..Len(ts)
        <5>0. i \in Nat /\ i >= 1 /\ i <= n /\ n \in Nat /\ n <= Len(new) /\ i \in 1..n
          BY <1>4, <4>1, <4>2
        <5>1. i \in 1..n /\ i \in 1..Len(new) /\ turn + i - 1 = Len(played) + i
          <6> DEFINE a == Len(played)
                     b == Len(new)
          <6>1. a \in Nat /\ b \in Nat /\ turn = a + 1 /\ n <= b
            BY <1>4, <4>a, <5>0
          <6> HIDE DEF a, b
          <6>2. i \in 1..b
            BY <5>0, <6>1
          <6>3. turn + i - 1 = a + i
            BY <5>0, <6>1
          <6> QED BY <5>0, <6>2, <6>3 DEF a, b
        <5>2. ts[i] = new[i]
          BY <4>2, <5>1
        <5>3. new[i] = played'[Len(played) + i] /\ new[i].number = Len(played) + i
          BY <5>1
        <5> QED BY <5>1, <5>2, <5>3
      <4>5. /\ k.msgs \o Frames(ts) \in Seq(Message)
            /\ StreamOK(f, s, h, k.msgs \o Frames(ts), played')
            /\ Reaches(f, s, h, k.msgs \o Frames(ts), played', turn + Len(ts))
        <5>1. Reaches(f, s, h, k.msgs, played', turn)
          BY <4>3, <4>a
        <5>2. k.msgs \in Seq(Message) /\ ts \in Seq(Turn) /\ played' \in Seq(Turn)
          BY <1>4, <2>0, <4>2
        <5> QED BY <3>2, <4>4, <4>b, <5>1, <5>2, StreamSent
      <4>6. /\ conn'[c] \in [open : BOOLEAN, history : HistoryId, msgs : Seq(Message)]
            /\ conn'[c].history = h /\ conn'[c].msgs = k.msgs \o Frames(ts)
        BY <2>0, <4>1, <4>5 DEF h, k
      <4>7. Line(Room', f, s, conn'[c], played')
        BY <1>4, <1>5, <3>1, <4>5, <4>6 DEF Line
      <4>8. ASSUME c \in streaming'
            PROVE  turn + Len(ts) = Len(played') + 1
        <5>1. n = Len(new)
          BY <1>1, <4>8 DEF n
        <5> QED BY <1>4, <4>2, <4>a, <5>1
      <4>9. ConnOK(c)'
        BY <1>4, <2>0, <3>1, <4>5, <4>6, <4>7, <4>8 DEF ConnOK
      <4> QED BY <3>3, <4>6, <4>9
    <3> QED BY <3>4, <3>5
  <2> QED BY <2>1, <2>2
<1>7. conn' \in [Client -> [open : BOOLEAN, history : HistoryId, msgs : Seq(Message)]]
  BY <1>1, <1>6
<1> QED BY <1>3, <1>6, <1>7 DEF FollowersOK, ConnsOK

LEMMA CInvSeal ==
    ASSUME LInv, LInv', CInv, up, NEW events \in Seq(Event), NEW next \in Nat,
           next = EventBefore(played, nextTurn) + Len(events),
           Numbered(events, EventBefore(played, nextTurn), sealed),
           NEW frontier, SealAndPublish(events, next, frontier),
           saved' = saved \/ (saved' \in Point /\ PointOK(Room', saved'))
    PROVE  CInv'
<1>1. PICK new \in Seq(Turn) :
        /\ Extends(played', played) /\ Len(played') = Len(played) + Len(new)
        /\ \A k \in 1..Len(new) :
             new[k] = played'[Len(played) + k] /\ new[k].number = Len(played) + k
        /\ Send(new)
        /\ intact' => intact
        /\ intact' /\ logOpen => logOpen'
        /\ DiskHistories(disk') = DiskHistories(disk)
        /\ UNCHANGED <<up, histories, point, loaded, pointer, client, seen, used>>
        /\ intact' \in BOOLEAN
  BY SealExtends
<1>2. played \in Seq(Turn) /\ played' \in Seq(Turn)
  BY DEF LInv, LogTypeOK
<1>3. Keeps(Room, Room')
  <2> DEFINE r == Room
             r2 == Room'
  <2>1. /\ r.hs = DiskHistories(disk) /\ r.log = played /\ r.used = used /\ r.up = up
        /\ r.intact = intact
        /\ r2.hs = DiskHistories(disk') /\ r2.log = played' /\ r2.used = used'
        /\ r2.intact = intact'
    BY DEF Room
  <2> HIDE DEF r, r2
  <2>2. Keeps(r, r2)
    BY <1>1, <1>2, <2>1, KeepsSealed, ZenonT(40)
  <2> QED BY <2>2 DEF r, r2
<1>4. IdsOK'
  BY <1>1 DEF CInv, IdsOK
<1>5. /\ FollowersOK' /\ ConnsOK'
      /\ streaming' \subseteq streaming /\ streaming' \subseteq linked' /\ linked' \subseteq linked
      /\ conn' \in [Client -> [open : BOOLEAN, history : HistoryId, msgs : Seq(Message)]]
  BY <1>1, <1>3, <1>4, SealClients
<1>6. PointsOK'
  <2>1. PointOK(Room', saved) /\ PointOK(Room', point) /\ PointOK(Room', pointer)
    BY <1>3, PointsKept
  <2> QED BY <1>1, <2>1 DEF PointsOK
<1>7. LogKept' /\ (linked' # {} => up')
  BY <1>1 DEF CInv, LogKept
<1>8. ClientTypeOK'
  BY <1>1, <1>5 DEF CInv, ClientTypeOK
<1> QED BY <1>4, <1>5, <1>6, <1>7, <1>8 DEF CInv

-----------------------------------------------------------------------------
(* Streams that begin                                                      *)

\* The backlog from a turn, after what takes the reader there.
LEMMA BacklogSent ==
    ASSUME LInv, up, NEW from \in Nat, InWindow(from),
           NEW f, NEW s, NEW h, NEW msgs \in Seq(Message),
           StreamOK(f, s, h, msgs, played), Reaches(f, s, h, msgs, played, from)
    PROVE  /\ msgs \o Frames(Backlog(from)) \in Seq(Message)
           /\ StreamOK(f, s, h, msgs \o Frames(Backlog(from)), played)
           /\ Reaches(f, s, h, msgs \o Frames(Backlog(from)), played, Len(played) + 1)
<1>1. PICK ts : ts = Backlog(from)
  OBVIOUS
<1>2. /\ from \in 1..(Len(played) + 1) /\ ts \in Seq(Turn)
      /\ from + Len(ts) = Len(played) + 1
      /\ \A i \in 1..Len(ts) : ts[i] = played[from + i - 1]
  BY <1>1, WindowStreams
<1>3. played \in Seq(Turn) /\ Chain(played) /\ Len(played) \in Nat
  BY RoomFacts
<1>4. from \in Nat \ {0} /\ from + Len(ts) <= Len(played) + 1 /\ Len(ts) \in Nat
  BY <1>2, <1>3
<1>5. ASSUME NEW i \in 1..Len(ts)
      PROVE  ts[i] = played[from + i - 1] /\ ts[i].number = from + i - 1
  <2> DEFINE x == from + i - 1
             a == Len(played)
             b == Len(ts)
  <2>1. from \in Nat /\ from >= 1 /\ a \in Nat /\ b \in Nat /\ from + b = a + 1 /\ i \in 1..b
    BY <1>2, <1>3, <1>4
  <2> HIDE DEF a, b
  <2>2. x \in 1..a
    BY <2>1
  <2>3. ts[i] = played[x]
    BY <1>2
  <2> HIDE DEF x
  <2>4. played[x].number = x
    BY <1>3, <2>2 DEF Chain, Follows, a
  <2> QED BY <2>3, <2>4 DEF x
<1>6. /\ msgs \o Frames(ts) \in Seq(Message)
      /\ StreamOK(f, s, h, msgs \o Frames(ts), played)
      /\ Reaches(f, s, h, msgs \o Frames(ts), played, from + Len(ts))
  BY <1>2, <1>3, <1>4, <1>5, StreamSent
<1> QED BY <1>1, <1>2, <1>6

\* The opening message of a stream from a turn of the window.
LEMMA OpeningOK ==
    ASSUME LInv, up, NEW from \in Nat, InWindow(from), Current(histories) \in HistoryId,
           NEW w \in Point \cup {None},
           w # None => Len(w.world) = from - 1 /\ IsPrefixOf(w.world, played)
    PROVE  LET o == OpenMsg(Stream(from), Current(histories), w) IN
           /\ o \in Message /\ o.type = "open" /\ o.turn = from /\ o.world = w
           /\ MessageOK(o, Current(histories), played)
<1>1. /\ from \in 1..(Len(played) + 1) /\ Stream(from).turn = from
      /\ Stream(from).event = EventBefore(played, from)
      /\ Stream(from).sealed = SealedBefore(played, from)
  BY WindowStreams
<1>2. EventBefore(played, from) \in Nat /\ SealedBefore(played, from) \in Nat
  BY <1>1, RoomFacts, BeforeType
<1>3. PICK o : o = OpenMsg(Stream(from), Current(histories), w)
  OBVIOUS
<1>4. o = [type |-> "open", turn |-> from, event |-> EventBefore(played, from),
           sealed |-> SealedBefore(played, from), history |-> Current(histories), world |-> w]
  BY <1>1, <1>3 DEF OpenMsg
<1>5. o \in Message
  BY <1>2, <1>4 DEF Message
<1>6. MessageOK(o, Current(histories), played)
  BY <1>1, <1>4 DEF MessageOK
<1> QED BY <1>3, <1>4, <1>5, <1>6

LEMMA CurrentType ==
    ASSUME LInv PROVE Current(histories) \in HistoryId
<1>1. histories \in Seq(History) /\ histories # <<>>
  BY DEF LInv, LogTypeOK
<1>2. Len(histories) \in 1..Len(histories)
  BY <1>1, EmptySeq
<1>3. histories[Len(histories)] \in History
  BY <1>1, <1>2, ElementOfSeq
<1> QED BY <1>3 DEF Current, History

\* The room streams from a world only when that world is on its log.
LEMMA ServedWorld ==
    ASSUME LInv, up, NEW p \in Point, PointOK(Room, p), ServesPoint(p)
    PROVE  /\ p.after + 1 \in Nat /\ InWindow(p.after + 1)
           /\ Len(p.world) = (p.after + 1) - 1 /\ IsPrefixOf(p.world, played)
<1>1. /\ Shares(Room.hs, p.history, p.after) /\ InWindow(p.after + 1) /\ p # None
  BY RoomFacts DEF ServesPoint, Resumable
<1>2. /\ Agrees(Room, p.history, p.world) /\ p.after = Len(p.world) /\ p.after \in Nat
  BY <1>1 DEF PointOK, Point
<1>3. IsPrefixOf(p.world, played)
  BY <1>1, <1>2, RoomFacts DEF Agrees
<1> QED BY <1>1, <1>2, <1>3

LEMMA FeedType ==
    ASSUME LInv, up, NEW p \in Point, PointOK(Room, p), ServesPoint(p)
    PROVE  Feed(p) \in Seq(Message)
<1>1. PICK from \in Nat : from = p.after + 1
  BY ServedWorld
<1>2. InWindow(from) /\ Len(p.world) = from - 1 /\ IsPrefixOf(p.world, played)
  BY <1>1, ServedWorld
<1>3. PICK o : o = OpenMsg(Stream(from), Current(histories), p)
  OBVIOUS
<1>4. o \in Message
  BY <1>2, <1>3, CurrentType, OpeningOK
<1>5. PICK ts : ts = Backlog(from)
  OBVIOUS
<1>6. ts \in Seq(Turn)
  BY <1>2, <1>5, WindowStreams
<1>7. \A i \in 1..Len(ts) : FrameMsg(ts[i]) \in Message
  BY <1>6, ElementOfSeq DEF FrameMsg, Message
<1>8. PICK fr : fr = [i \in 1..Len(ts) |-> FrameMsg(ts[i])]
  OBVIOUS
<1>9. fr \in Seq(Message) /\ <<o>> \in Seq(Message)
  BY <1>4, <1>6, <1>7, <1>8
<1>10. Feed(p) = <<o>> \o fr
  BY <1>1, <1>3, <1>5, <1>8 DEF Feed, Frames
<1> QED BY <1>9, <1>10, ConcatProperties

LEMMA FeedOK ==
    ASSUME LInv, up, NEW p \in Point, PointOK(Room, p), ServesPoint(p),
           NEW f, NEW s, NEW msgs \in Seq(Message),
           StreamOK(f, s, Current(histories), msgs, played)
    PROVE  /\ msgs \o Feed(p) \in Seq(Message)
           /\ StreamOK(f, s, Current(histories), msgs \o Feed(p), played)
           /\ Reaches(f, s, Current(histories), msgs \o Feed(p), played, Len(played) + 1)
<1>1. PICK from \in Nat : from = p.after + 1
  BY ServedWorld
<1>2. /\ InWindow(from) /\ Len(p.world) = from - 1 /\ IsPrefixOf(p.world, played) /\ p # None
  BY <1>1, ServedWorld DEF ServesPoint
<1>3. PICK h : h = Current(histories)
  OBVIOUS
<1>4. PICK o : o = OpenMsg(Stream(from), h, p)
  OBVIOUS
<1>5. o \in Message /\ o.type = "open" /\ o.turn = from /\ o.world = p /\ MessageOK(o, h, played)
  BY <1>2, <1>3, <1>4, CurrentType, OpeningOK
<1>6. played \in Seq(Turn)
  BY RoomFacts
<1>7. ComesFirst(o, f, s, h, played)
  BY <1>2, <1>5 DEF ComesFirst
<1>8. PICK ms : ms = msgs \o <<o>>
  OBVIOUS
<1>9. ms \in Seq(Message) /\ StreamOK(f, s, h, ms, played) /\ Reaches(f, s, h, ms, played, from)
  BY <1>2, <1>3, <1>5, <1>6, <1>7, <1>8, StreamOpened
<1>10. PICK fr : fr = Frames(Backlog(from))
  OBVIOUS
<1>11. /\ ms \o fr \in Seq(Message) /\ StreamOK(f, s, h, ms \o fr, played)
       /\ Reaches(f, s, h, ms \o fr, played, Len(played) + 1)
  BY <1>2, <1>9, <1>10, BacklogSent
<1>12. Feed(p) = <<o>> \o fr
  BY <1>1, <1>3, <1>4, <1>10 DEF Feed
<1>13. fr \in Seq(Message) /\ <<o>> \in Seq(Message)
  <2>1. Backlog(from) \in Seq(Turn)
    BY <1>2, WindowStreams
  <2>2. \A i \in 1..Len(Backlog(from)) : FrameMsg(Backlog(from)[i]) \in Message
    BY <2>1, ElementOfSeq DEF FrameMsg, Message
  <2>3. PICK ts : ts = Backlog(from)
    OBVIOUS
  <2>4. fr = [i \in 1..Len(ts) |-> FrameMsg(ts[i])]
    BY <1>10, <2>3 DEF Frames
  <2> QED BY <1>5, <2>1, <2>2, <2>3, <2>4
<1>14. (msgs \o <<o>>) \o fr = msgs \o (<<o>> \o fr)
  BY <1>13, ConcatAssociative
<1> QED BY <1>3, <1>8, <1>11, <1>12, <1>14

\* A stream to a client that connects: from the first turn, or from where a
\* world on the log stands.
LEMMA StreamFromOK ==
    ASSUME LInv, up, NEW from \in Nat, InWindow(from), NEW f, NEW s,
           from # 1 => f.world \in {"fetching", "playing"} /\ f.nextTurn = from /\ IsPrefixOf(s, played)
    PROVE  /\ StreamFrom(from) \in Seq(Message)
           /\ StreamOK(f, s, Current(histories), StreamFrom(from), played)
           /\ Reaches(f, s, Current(histories), StreamFrom(from), played, Len(played) + 1)
<1>1. PICK h : h = Current(histories)
  OBVIOUS
<1>2. PICK o : o = OpenMsg(Stream(from), h, None)
  OBVIOUS
<1>3. o \in Message /\ o.type = "open" /\ o.turn = from /\ o.world = None /\ MessageOK(o, h, played)
  BY <1>1, <1>2, CurrentType, OpeningOK
<1>4. played \in Seq(Turn)
  BY RoomFacts
<1>5. ComesFirst(o, f, s, h, played)
  BY <1>3 DEF ComesFirst
<1>6. PICK none : none = <<>>
  OBVIOUS
<1>7. none \in Seq(Message) /\ StreamOK(f, s, h, none, played)
  <2>1. Len(none) = 0 /\ none \in Seq(Message)
    BY <1>6
  <2> QED BY <1>6, <2>1 DEF StreamOK
<1>8. PICK ms : ms = none \o <<o>>
  OBVIOUS
<1>9. ms \in Seq(Message) /\ StreamOK(f, s, h, ms, played) /\ Reaches(f, s, h, ms, played, from)
  BY <1>3, <1>4, <1>5, <1>6, <1>7, <1>8, StreamOpened
<1>10. /\ ms \o Frames(Backlog(from)) \in Seq(Message)
       /\ StreamOK(f, s, h, ms \o Frames(Backlog(from)), played)
       /\ Reaches(f, s, h, ms \o Frames(Backlog(from)), played, Len(played) + 1)
  BY <1>9, BacklogSent
<1>11. ms = <<o>>
  <2>1. <<o>> \in Seq(Message)
    BY <1>3
  <2> QED BY <1>6, <1>8, <2>1, ConcatEmptySeq
<1>12. StreamFrom(from) = <<o>> \o Frames(Backlog(from))
  BY <1>1, <1>2 DEF StreamFrom
<1> QED BY <1>1, <1>10, <1>11, <1>12

-----------------------------------------------------------------------------
(* Worlds handed out, and connections                                      *)

ConnType == [open : BOOLEAN, history : HistoryId, msgs : Seq(Message)]
FollowerType == [world : {"none", "fetching", "playing", "failed"},
                 nextTurn : Nat, nextEvent : Nat, sealed : Nat, history : HistoryId]

\* A connection that gets other messages.
LEMMA ConnWith ==
    ASSUME NEW k \in ConnType, NEW ms \in Seq(Message), NEW e, e = [k EXCEPT !.msgs = ms]
    PROVE  e \in ConnType /\ e.open = k.open /\ e.history = k.history /\ e.msgs = ms
BY DEF ConnType

\* A member that is handed a world keeps to the room's line.
LEMMA FedClient ==
    ASSUME LInv, CInv, up, Room' = Room, played' = played, histories' = histories,
           NEW c \in Client, c \in linked, conn[c].open,
           NEW p \in Point, PointOK(Room, p), ServesPoint(p),
           client'[c] = client[c], seen'[c] = seen[c],
           conn'[c] = [conn[c] EXCEPT !.msgs = @ \o Feed(p)]
    PROVE  FollowerOK(Room', client'[c], seen'[c]) /\ ConnOK(c)' /\ conn'[c] \in ConnType
<1>1. PICK k \in ConnType : k = conn[c]
  BY DEF CInv, ClientTypeOK, ConnType
<1>2. k.msgs \in Seq(Message) /\ k.history \in HistoryId /\ k.open /\ k.open \in BOOLEAN
  BY <1>1 DEF ConnType
<1>3. /\ Line(Room, client[c], seen[c], k, played) /\ k.history = Current(histories)
  BY <1>1 DEF CInv, ConnsOK, ConnOK
<1>4. PICK ms : ms = k.msgs \o Feed(p)
  OBVIOUS
<1>5. /\ ms \in Seq(Message)
      /\ StreamOK(client[c], seen[c], k.history, ms, played)
      /\ Reaches(client[c], seen[c], k.history, ms, played, Len(played) + 1)
  BY <1>2, <1>3, <1>4, FeedOK DEF Line
<1>6. conn'[c] \in ConnType /\ conn'[c].history = k.history /\ conn'[c].msgs = ms
  <2>1. PICK e : e = [k EXCEPT !.msgs = ms]
    OBVIOUS
  <2>2. k \in ConnType /\ ms \in Seq(Message) /\ conn'[c] = e
    BY <1>1, <1>4, <1>5, <2>1
  <2>3. e \in ConnType /\ e.history = k.history /\ e.msgs = ms
    BY <2>1, <2>2, ConnWith
  <2> QED BY <2>2, <2>3
<1>7. Line(Room', client'[c], seen'[c], conn'[c], played')
  BY <1>3, <1>5, <1>6 DEF Line
<1>8. played' \in Seq(Turn)
  BY RoomFacts
<1>9. ConnOK(c)'
  BY <1>3, <1>5, <1>6, <1>7, <1>8 DEF ConnOK
<1>10. FollowerOK(Room', client'[c], seen'[c])
  BY DEF CInv, FollowersOK
<1> QED BY <1>6, <1>9, <1>10

\* A client that connects, with a stream over what the room has played.
LEMMA NewClient ==
    ASSUME LInv, CInv, up, Room' = Room, played' = played, histories' = histories,
           NEW c \in Client, NEW msgs \in Seq(Message),
           StreamOK(client[c], seen[c], Current(histories), msgs, played),
           c \in streaming' =>
                Reaches(client[c], seen[c], Current(histories), msgs, played, Len(played) + 1),
           client'[c] = client[c], seen'[c] = seen[c], conn'[c] = Connected(msgs)
    PROVE  FollowerOK(Room', client'[c], seen'[c]) /\ ConnOK(c)' /\ conn'[c] \in ConnType
<1>1. /\ conn'[c].history = Current(histories) /\ conn'[c].msgs = msgs /\ conn'[c] \in ConnType
  BY CurrentType DEF Connected, ConnType
<1>2. played \in Seq(Turn) /\ Chain(played)
  BY RoomFacts
<1>3. AgreesAlong(Room, Current(histories), played)
  BY PlayedAgrees DEF CInv
<1>4. Line(Room', client'[c], seen'[c], conn'[c], played')
  BY <1>1, <1>2, <1>3 DEF Line
<1>5. ConnOK(c)'
  BY <1>1, <1>2, <1>4 DEF ConnOK
<1>6. FollowerOK(Room', client'[c], seen'[c])
  BY DEF CInv, FollowersOK
<1> QED BY <1>1, <1>5, <1>6

LEMMA CInvPromote == ASSUME LInv, CInv, Promote PROVE CInv'
<1>1. PICK wanted \in BOOLEAN, same \in {{}, loaded} :
        LET given == IF wanted /\ ServesPoint(saved) THEN linked \ (same \cap streaming) ELSE {} IN
        /\ streaming' = streaming \cup given
        /\ loaded' = same \cup given
        /\ conn' = [c \in Client |-> Fed(c, given, saved)]
  BY DEF Promote
<1>2. /\ up /\ saved # None /\ point' = saved /\ saved' = None
      /\ UNCHANGED <<up, histories, linked, diskVars, client, seen, ghostVars>>
  BY DEF Promote
<1>3. PICK given : /\ given = IF wanted /\ ServesPoint(saved) THEN linked \ (same \cap streaming) ELSE {}
                   /\ streaming' = streaming \cup given
                   /\ loaded' = same \cup given
                   /\ conn' = [c \in Client |-> Fed(c, given, saved)]
  BY <1>1
<1>4. Room' = Room /\ played' = played /\ histories' = histories
  BY <1>2 DEF Room, diskVars, ghostVars
<1>5. /\ ClientTypeOK /\ saved \in Point /\ PointOK(Room, saved)
  BY <1>2 DEF CInv, ClientTypeOK, PointsOK
<1>6. given \subseteq linked /\ (given # {} => ServesPoint(saved))
  BY <1>3
<1>7. ASSUME NEW c \in Client
      PROVE  FollowerOK(Room', client'[c], seen'[c]) /\ ConnOK(c)' /\ conn'[c] \in ConnType
  <2>1. client'[c] = client[c] /\ seen'[c] = seen[c] /\ conn'[c] = Fed(c, given, saved)
    BY <1>2, <1>3
  <2>2. CASE c \in given /\ conn[c].open
    <3>1. conn'[c] = [conn[c] EXCEPT !.msgs = @ \o Feed(saved)]
      BY <2>1, <2>2 DEF Fed
    <3> QED BY <1>2, <1>4, <1>5, <1>6, <2>1, <2>2, <3>1, FedClient
  <2>3. CASE ~(c \in given /\ conn[c].open)
    <3>1. conn'[c] = conn[c]
      BY <2>1, <2>3 DEF Fed
    <3>2. conn'[c] \in ConnType
      BY <1>5, <3>1 DEF ClientTypeOK, ConnType
    <3>3. FollowerOK(Room', client'[c], seen'[c])
      BY <1>4, <2>1 DEF CInv, FollowersOK
    <3>4. CASE ~conn[c].open
      BY <3>1, <3>2, <3>3, <3>4 DEF ConnOK
    <3>5. CASE conn[c].open
      <4>1. c \in streaming' => c \in streaming
        BY <1>3, <2>3, <3>5
      <4> QED BY <1>2, <1>4, <2>1, <3>1, <3>2, <4>1, KeepsSame, ClientKept
    <3> QED BY <3>4, <3>5
  <2> QED BY <2>2, <2>3
<1>8. FollowersOK' /\ ConnsOK'
  BY <1>7 DEF FollowersOK, ConnsOK
<1>9. PointsOK'
  BY <1>2, <1>4 DEF CInv, PointsOK, PointOK, diskVars
<1>10. LogKept' /\ (linked' # {} => up') /\ IdsOK'
  BY <1>2 DEF CInv, LogKept, IdsOK, diskVars, ghostVars
<1>11. ClientTypeOK'
  <2>1. conn' \in [Client -> ConnType]
    BY <1>3, <1>7
  <2>2. streaming' \subseteq linked' /\ loaded' \subseteq Client
    BY <1>2, <1>3, <1>5, <1>6 DEF ClientTypeOK
  <2> QED BY <1>2, <1>5, <2>1, <2>2 DEF ClientTypeOK, ConnType, diskVars, ghostVars
<1> QED BY <1>8, <1>9, <1>10, <1>11 DEF CInv

\* A connection begins, and no other client is touched.
LEMMA CInvJoined ==
    ASSUME LInv, CInv, up, NEW c \in Client,
           UNCHANGED <<up, gameVars, loaded, diskVars, client, seen, ghostVars>>,
           NEW msgs \in Seq(Message), conn' = [conn EXCEPT ![c] = Connected(msgs)],
           linked' = linked \cup {c}, streaming' = streaming \cup {c},
           StreamOK(client[c], seen[c], Current(histories), msgs, played),
           Reaches(client[c], seen[c], Current(histories), msgs, played, Len(played) + 1)
    PROVE  CInv'
<1>1. Room' = Room /\ played' = played /\ histories' = histories
  BY DEF Room, diskVars, ghostVars, gameVars
<1>2. ClientTypeOK
  BY DEF CInv
<1>3. ASSUME NEW d \in Client
      PROVE  FollowerOK(Room', client'[d], seen'[d]) /\ ConnOK(d)' /\ conn'[d] \in ConnType
  <2>1. client'[d] = client[d] /\ seen'[d] = seen[d]
    OBVIOUS
  <2>2. CASE d = c
    <3>1. conn'[d] = Connected(msgs)
      BY <1>2, <2>2 DEF ClientTypeOK
    <3> QED BY <1>1, <2>1, <2>2, <3>1, NewClient
  <2>3. CASE d # c
    <3>1. conn'[d] = conn[d] /\ conn'[d] \in ConnType
      BY <1>2, <2>3 DEF ClientTypeOK, ConnType
    <3>2. (d \in linked' => d \in linked) /\ (d \in streaming' => d \in streaming)
      BY <2>3
    <3> QED BY <1>1, <2>1, <3>1, <3>2, KeepsSame, ClientKept
  <2> QED BY <2>2, <2>3
<1>4. FollowersOK' /\ ConnsOK'
  BY <1>3 DEF FollowersOK, ConnsOK
<1>5. PointsOK' /\ LogKept' /\ (linked' # {} => up') /\ IdsOK'
  BY <1>1 DEF CInv, PointsOK, LogKept, IdsOK, diskVars, ghostVars, gameVars
<1>6. ClientTypeOK'
  <2>1. conn' \in [Client -> ConnType]
    BY <1>2, <1>3 DEF ClientTypeOK
  <2>2. streaming' \subseteq linked' /\ linked' \subseteq Client
    BY <1>2 DEF ClientTypeOK
  <2> QED BY <1>2, <2>1, <2>2 DEF ClientTypeOK, ConnType, diskVars, ghostVars, gameVars
<1> QED BY <1>4, <1>5, <1>6 DEF CInv

LEMMA CInvJoinResuming ==
    ASSUME LInv, CInv, NEW c \in Client, JoinResuming(c) PROVE CInv'
<1>1. /\ up /\ client[c].world = "playing"
      /\ Resumable(client[c].history, client[c].nextTurn - 1)
      /\ conn' = [conn EXCEPT ![c] = Connected(StreamFrom(client[c].nextTurn))]
      /\ linked' = linked \cup {c} /\ streaming' = streaming \cup {c}
      /\ UNCHANGED <<up, gameVars, loaded, diskVars, client, seen, ghostVars>>
  BY DEF JoinResuming, Resumes
<1>2. PICK from : from = client[c].nextTurn
  OBVIOUS
<1>3. /\ Agrees(Room, client[c].history, seen[c]) /\ from = Len(seen[c]) + 1
      /\ Len(seen[c]) \in Nat
  <2>1. FollowerOK(Room, client[c], seen[c]) /\ seen[c] \in Seq(Turn)
    BY DEF CInv, FollowersOK, ClientTypeOK
  <2> QED BY <1>1, <1>2, <2>1 DEF FollowerOK
<1>4. from - 1 = Len(seen[c]) /\ (from - 1) + 1 = from /\ from \in Nat
  BY <1>3
<1>5. Shares(histories, client[c].history, Len(seen[c])) /\ InWindow(from)
  BY <1>1, <1>2, <1>4 DEF Resumable
<1>6. IsPrefixOf(seen[c], played)
  BY <1>1, <1>3, <1>5, RoomFacts DEF Agrees
<1>7. /\ StreamFrom(from) \in Seq(Message)
      /\ StreamOK(client[c], seen[c], Current(histories), StreamFrom(from), played)
      /\ Reaches(client[c], seen[c], Current(histories), StreamFrom(from), played, Len(played) + 1)
  BY <1>1, <1>2, <1>4, <1>5, <1>6, StreamFromOK
<1> QED BY <1>1, <1>2, <1>7, CInvJoined

LEMMA CInvJoinFromStart ==
    ASSUME LInv, CInv, NEW c \in Client, JoinFromStart(c) PROVE CInv'
<1>1. /\ up /\ InWindow(1)
      /\ conn' = [conn EXCEPT ![c] = Connected(StreamFrom(1))]
      /\ linked' = linked \cup {c} /\ streaming' = streaming \cup {c}
      /\ UNCHANGED <<up, gameVars, loaded, diskVars, client, seen, ghostVars>>
  BY DEF JoinFromStart
<1>2. /\ StreamFrom(1) \in Seq(Message)
      /\ StreamOK(client[c], seen[c], Current(histories), StreamFrom(1), played)
      /\ Reaches(client[c], seen[c], Current(histories), StreamFrom(1), played, Len(played) + 1)
  BY <1>1, StreamFromOK
<1> QED BY <1>1, <1>2, CInvJoined

LEMMA CInvJoinForWorld ==
    ASSUME LInv, CInv, NEW c \in Client, JoinForWorld(c) PROVE CInv'
<1>1. PICK given :
        /\ given = IF ServesPoint(point) THEN (linked \ loaded) \cup {c} ELSE {}
        /\ streaming' = (streaming \ {c}) \cup given
        /\ loaded' = loaded \cup given
        /\ conn' = [k \in Client |->
                    IF k = c THEN Connected(IF c \in given THEN Feed(point) ELSE <<>>)
                    ELSE Fed(k, given, point)]
  BY DEF JoinForWorld
<1>2. /\ up /\ linked' = linked \cup {c}
      /\ UNCHANGED <<up, gameVars, diskVars, client, seen, ghostVars>>
  BY DEF JoinForWorld
<1>3. Room' = Room /\ played' = played /\ histories' = histories
  BY <1>2 DEF Room, diskVars, ghostVars, gameVars
<1>4. ClientTypeOK /\ PointOK(Room, point)
  BY DEF CInv, PointsOK
<1>5. /\ given \subseteq linked \cup {c}
      /\ given # {} => ServesPoint(point) /\ point \in Point
  BY <1>1, <1>4 DEF ServesPoint, ClientTypeOK
<1>6. ASSUME NEW d \in Client
      PROVE  FollowerOK(Room', client'[d], seen'[d]) /\ ConnOK(d)' /\ conn'[d] \in ConnType
  <2>1. client'[d] = client[d] /\ seen'[d] = seen[d]
    BY <1>2
  <2>2. CASE d = c
    <3>1. PICK none : none = <<>>
      OBVIOUS
    <3>2. none \in Seq(Message) /\ StreamOK(client[c], seen[c], Current(histories), none, played)
      <4>1. Len(none) = 0 /\ none \in Seq(Message)
        BY <3>1
      <4> QED BY <3>1, <4>1 DEF StreamOK
    <3>3. CASE c \in given
      <4>1. PICK ms : ms = none \o Feed(point)
        OBVIOUS
      <4>2. /\ ms \in Seq(Message)
            /\ StreamOK(client[c], seen[c], Current(histories), ms, played)
            /\ Reaches(client[c], seen[c], Current(histories), ms, played, Len(played) + 1)
        BY <1>2, <1>4, <1>5, <3>2, <3>3, <4>1, FeedOK
      <4>3. ms = Feed(point)
        <5>1. Feed(point) \in Seq(Message)
          BY <1>2, <1>4, <1>5, <3>3, FeedType
        <5> QED BY <3>1, <4>1, <5>1, ConcatEmptySeq
      <4>4. conn'[d] = Connected(ms)
        BY <1>1, <2>2, <3>3, <4>3
      <4> QED BY <1>2, <1>3, <2>1, <2>2, <4>2, <4>4, NewClient
    <3>4. CASE c \notin given
      <4>1. conn'[d] = Connected(none) /\ c \notin streaming'
        BY <1>1, <2>2, <3>1, <3>4
      <4> QED BY <1>2, <1>3, <2>1, <2>2, <3>2, <4>1, NewClient
    <3> QED BY <3>3, <3>4
  <2>3. CASE d # c /\ d \in given /\ conn[d].open
    <3>1. conn'[d] = [conn[d] EXCEPT !.msgs = @ \o Feed(point)] /\ d \in linked
      BY <1>1, <1>5, <2>3 DEF Fed
    <3> QED BY <1>2, <1>3, <1>4, <1>5, <2>1, <2>3, <3>1, FedClient
  <2>4. CASE d # c /\ ~(d \in given /\ conn[d].open)
    <3>1. conn'[d] = conn[d]
      BY <1>1, <2>4 DEF Fed
    <3>2. conn'[d] \in ConnType
      BY <1>4, <3>1 DEF ClientTypeOK, ConnType
    <3>3. FollowerOK(Room', client'[d], seen'[d])
      BY <1>3, <2>1 DEF CInv, FollowersOK
    <3>4. CASE ~conn[d].open
      BY <3>1, <3>2, <3>3, <3>4 DEF ConnOK
    <3>5. CASE conn[d].open
      <4>1. (d \in streaming' => d \in streaming) /\ (d \in linked' => d \in linked)
        BY <1>1, <1>2, <2>4, <3>5
      <4> QED BY <1>3, <2>1, <3>1, <3>2, <4>1, KeepsSame, ClientKept
    <3> QED BY <3>4, <3>5
  <2> QED BY <2>2, <2>3, <2>4
<1>7. FollowersOK' /\ ConnsOK'
  BY <1>6 DEF FollowersOK, ConnsOK
<1>8. PointsOK' /\ LogKept' /\ (linked' # {} => up') /\ IdsOK'
  BY <1>2, <1>3 DEF CInv, PointsOK, LogKept, IdsOK, diskVars, ghostVars, gameVars
<1>9. ClientTypeOK'
  <2>1. conn' \in [Client -> ConnType]
    BY <1>1, <1>6
  <2>2. streaming' \subseteq linked' /\ linked' \subseteq Client /\ loaded' \subseteq Client
    BY <1>1, <1>2, <1>4, <1>5 DEF ClientTypeOK
  <2> QED BY <1>2, <1>4, <2>1, <2>2 DEF ClientTypeOK, ConnType, diskVars, ghostVars, gameVars
<1> QED BY <1>7, <1>8, <1>9 DEF CInv

-----------------------------------------------------------------------------
(* The steps of a client                                                   *)

\* A step of one client, on a connection that is no worse for it.
LEMMA CInvClient ==
    ASSUME LInv, CInv, NEW c \in Client,
           UNCHANGED <<up, gameVars, linkVars, diskVars, ghostVars>>,
           \A d \in Client : d # c =>
                client'[d] = client[d] /\ seen'[d] = seen[d] /\ conn'[d] = conn[d],
           client' \in [Client -> FollowerType], conn' \in [Client -> ConnType],
           seen' \in [Client -> Seq(Turn)],
           FollowerOK(Room, client'[c], seen'[c]),
           conn'[c].open =>
             \E q \in Seq(Turn) :
                /\ Line(Room, client'[c], seen'[c], conn'[c], q)
                /\ c \in linked => q = played /\ conn'[c].history = Current(histories)
                /\ c \in streaming =>
                    Reaches(client'[c], seen'[c], conn'[c].history, conn'[c].msgs, q, Len(q) + 1)
    PROVE  CInv'
<1>1. Room' = Room /\ played' = played /\ histories' = histories /\ linked' = linked
      /\ streaming' = streaming
  BY DEF Room, diskVars, ghostVars, gameVars, linkVars
<1>2. ASSUME NEW d \in Client
      PROVE  FollowerOK(Room', client'[d], seen'[d]) /\ ConnOK(d)'
  <2>1. CASE d = c
    BY <1>1, <2>1 DEF ConnOK
  <2>2. CASE d # c
    BY <1>1, <2>2, KeepsSame, ClientKept
  <2> QED BY <2>1, <2>2
<1>3. FollowersOK' /\ ConnsOK'
  BY <1>2 DEF FollowersOK, ConnsOK
<1>4. PointsOK' /\ LogKept' /\ (linked' # {} => up') /\ IdsOK'
  BY <1>1 DEF CInv, PointsOK, LogKept, IdsOK, diskVars, ghostVars, gameVars, linkVars
<1>5. ClientTypeOK'
  BY DEF CInv, ClientTypeOK, ConnType, FollowerType, diskVars, ghostVars, gameVars, linkVars
<1> QED BY <1>3, <1>4, <1>5 DEF CInv

LEMMA NoTypes == NoConn \in ConnType /\ ~NoConn.open /\ NoFollower \in FollowerType
                 /\ NoFollower.world = "none"
<1>1. PICK ms \in Seq(Message) : ms = <<>>
  <2>1. <<>> \in Seq(Message)
    OBVIOUS
  <2> QED BY <2>1
<1>2. FirstHistory \in HistoryId
  BY ConstantsAssumption
<1>3. NoConn = [open |-> FALSE, history |-> FirstHistory, msgs |-> ms]
  BY <1>1 DEF NoConn
<1>4. NoConn \in ConnType /\ ~NoConn.open
  <2>1. FALSE \in BOOLEAN
    OBVIOUS
  <2>2. [open |-> FALSE, history |-> FirstHistory, msgs |-> ms] \in ConnType
    BY <1>1, <1>2, <2>1 DEF ConnType
  <2> QED BY <1>3, <2>2
<1> QED BY <1>2, <1>4 DEF NoFollower, FollowerType

LEMMA ClientTypes ==
    ASSUME CInv
    PROVE  /\ client \in [Client -> FollowerType] /\ conn \in [Client -> ConnType]
           /\ seen \in [Client -> Seq(Turn)]
BY DEF CInv, ClientTypeOK, ConnType, FollowerType

LEMMA CInvDrop == ASSUME LInv, CInv, NEW c \in Client, Drop(c) PROVE CInv'
<1>1. /\ conn' = [conn EXCEPT ![c] = NoConn] /\ client' = client /\ seen' = seen
      /\ UNCHANGED <<up, gameVars, linkVars, diskVars, ghostVars>>
  BY DEF Drop
<1>2. conn' \in [Client -> ConnType] /\ ~conn'[c].open
  BY <1>1, ClientTypes, NoTypes
<1>3. FollowerOK(Room, client'[c], seen'[c])
  BY <1>1 DEF CInv, FollowersOK
<1>4. \A d \in Client : d # c => conn'[d] = conn[d]
  BY <1>1, ClientTypes
<1> QED BY <1>1, <1>2, <1>3, <1>4, ClientTypes, CInvClient

LEMMA CInvRestart == ASSUME LInv, CInv, NEW c \in Client, Restart(c) PROVE CInv'
<1>1. /\ client' = [client EXCEPT ![c] = NoFollower]
      /\ seen' = [seen EXCEPT ![c] = <<>>]
      /\ conn' = [conn EXCEPT ![c] = NoConn]
      /\ UNCHANGED <<up, gameVars, linkVars, diskVars, ghostVars>>
  BY DEF Restart
<1>2. conn' \in [Client -> ConnType] /\ ~conn'[c].open
  BY <1>1, ClientTypes, NoTypes
<1>3. client' \in [Client -> FollowerType] /\ client'[c].world = "none"
  BY <1>1, ClientTypes, NoTypes
<1>4. seen' \in [Client -> Seq(Turn)]
  <2>1. <<>> \in Seq(Turn)
    OBVIOUS
  <2> QED BY <1>1, <2>1, ClientTypes
<1>5. FollowerOK(Room, client'[c], seen'[c])
  BY <1>3 DEF FollowerOK
<1>6. \A d \in Client : d # c =>
        client'[d] = client[d] /\ seen'[d] = seen[d] /\ conn'[d] = conn[d]
  BY <1>1, ClientTypes
<1> QED BY <1>1, <1>2, <1>3, <1>4, <1>5, <1>6, CInvClient

LEMMA CInvFetched == ASSUME LInv, CInv, NEW c \in Client, Fetched(c) PROVE CInv'
<1>1. /\ client[c].world = "fetching" /\ conn[c].open
      /\ client' = [client EXCEPT ![c].world = "playing"]
      /\ UNCHANGED <<up, gameVars, linkVars, diskVars, conn, seen, ghostVars>>
  BY DEF Fetched
<1>2. /\ client' \in [Client -> FollowerType]
      /\ client'[c].world = "playing" /\ client'[c].nextTurn = client[c].nextTurn
      /\ client'[c].nextEvent = client[c].nextEvent /\ client'[c].sealed = client[c].sealed
      /\ client'[c].history = client[c].history
      /\ \A d \in Client : d # c => client'[d] = client[d]
  BY <1>1, ClientTypes DEF FollowerType
<1>3. FollowerOK(Room, client'[c], seen'[c])
  <2>1. FollowerOK(Room, client[c], seen[c])
    BY DEF CInv, FollowersOK
  <2> QED BY <1>1, <1>2, <2>1 DEF FollowerOK
<1>4. PICK q \in Seq(Turn) :
        /\ Line(Room, client[c], seen[c], conn[c], q)
        /\ c \in linked => q = played /\ conn[c].history = Current(histories)
        /\ c \in streaming =>
            Reaches(client[c], seen[c], conn[c].history, conn[c].msgs, q, Len(q) + 1)
  BY <1>1 DEF CInv, ConnsOK, ConnOK
<1>5. OnLine(client'[c], seen[c], conn[c].history, q)
            <=> OnLine(client[c], seen[c], conn[c].history, q)
  BY <1>1, <1>2 DEF OnLine
<1>6. Line(Room, client'[c], seen'[c], conn'[c], q)
  BY <1>1, <1>2, <1>4, <1>5 DEF Line, StreamOK, ComesFirst
<1>7. c \in streaming =>
        Reaches(client'[c], seen'[c], conn'[c].history, conn'[c].msgs, q, Len(q) + 1)
  BY <1>1, <1>2, <1>4, <1>5 DEF Reaches
<1> QED BY <1>1, <1>2, <1>3, <1>4, <1>6, <1>7, ClientTypes, CInvClient

\* The reader of a stream takes its first message, and stands at its end.
LEMMA CInvConsumed ==
    ASSUME LInv, CInv, NEW c \in Client, conn[c].open, conn[c].msgs # <<>>,
           UNCHANGED <<up, gameVars, linkVars, diskVars, ghostVars>>,
           NEW f2 \in FollowerType, NEW s2 \in Seq(Turn), NEW q \in Seq(Turn),
           client' = [client EXCEPT ![c] = f2], seen' = [seen EXCEPT ![c] = s2],
           conn' = [conn EXCEPT ![c].msgs = Tail(@)],
           Line(Room, client[c], seen[c], conn[c], q),
           c \in linked => q = played /\ conn[c].history = Current(histories),
           c \in streaming =>
                Reaches(client[c], seen[c], conn[c].history, conn[c].msgs, q, Len(q) + 1),
           OnLine(f2, s2, conn[c].history, q),
           f2.nextTurn = TurnAfter(conn[c].msgs[1]), f2.nextTurn = Len(s2) + 1,
           f2.nextEvent = EventBefore(q, f2.nextTurn), f2.sealed = SealedBefore(q, f2.nextTurn)
    PROVE  CInv'
<1>1. PICK k \in ConnType : k = conn[c]
  BY ClientTypes
<1>2. k.msgs \in Seq(Message) /\ k.msgs # <<>> /\ k.open
  BY <1>1 DEF ConnType
<1>3. /\ client' \in [Client -> FollowerType] /\ client'[c] = f2
      /\ seen' \in [Client -> Seq(Turn)] /\ seen'[c] = s2
      /\ \A d \in Client : d # c => client'[d] = client[d] /\ seen'[d] = seen[d] /\ conn'[d] = conn[d]
  BY ClientTypes
<1>4. /\ Chain(q) /\ AgreesAlong(Room, k.history, q)
      /\ StreamOK(client[c], seen[c], k.history, k.msgs, q)
  BY <1>1 DEF Line
<1>5. PICK t : t = Tail(k.msgs)
  OBVIOUS
<1>6. /\ t \in Seq(Message)
      /\ StreamOK(f2, s2, k.history, t, q)
      /\ \A turn : Reaches(client[c], seen[c], k.history, k.msgs, q, turn)
                    => Reaches(f2, s2, k.history, t, q, turn)
  <2>1. OnLine(f2, s2, k.history, q) /\ f2.nextTurn = TurnAfter(k.msgs[1])
    BY <1>1
  <2> QED BY <1>2, <1>4, <1>5, <2>1, StreamConsumed
<1>7. conn'[c] = [k EXCEPT !.msgs = t] /\ conn' \in [Client -> ConnType]
  <2>1. conn'[c] = [k EXCEPT !.msgs = t]
    BY <1>1, <1>5, ClientTypes
  <2>2. t \in Seq(Message)
    BY <1>6
  <2>3. conn'[c] \in ConnType
    BY <1>1, <2>1, <2>2, ConnWith
  <2> QED BY <2>1, <2>3, ClientTypes
<1>8. conn'[c].history = k.history /\ conn'[c].msgs = t
  BY <1>7 DEF ConnType
<1>9. FollowerOK(Room, f2, s2)
  <2>1. IsPrefixOf(s2, q) /\ f2.history = k.history /\ f2.world # "failed"
    BY <1>1 DEF OnLine
  <2>2. Agrees(Room, k.history, s2)
    BY <1>4, <2>1, OnAgreedLine
  <2>3. EventBefore(s2, Len(s2) + 1) = EventBefore(q, Len(s2) + 1)
        /\ SealedBefore(s2, Len(s2) + 1) = SealedBefore(q, Len(s2) + 1)
    BY <2>1, PrefixStands
  <2> QED BY <2>1, <2>2, <2>3 DEF FollowerOK
<1>10. Line(Room, client'[c], seen'[c], conn'[c], q)
  BY <1>3, <1>4, <1>6, <1>8 DEF Line
<1>11. c \in linked => q = played /\ conn'[c].history = Current(histories)
  BY <1>1, <1>8
<1>12. c \in streaming =>
         Reaches(client'[c], seen'[c], conn'[c].history, conn'[c].msgs, q, Len(q) + 1)
  BY <1>1, <1>3, <1>6, <1>8
<1>13. FollowerOK(Room, client'[c], seen'[c])
  BY <1>3, <1>9
<1>14. \E x \in Seq(Turn) :
         /\ Line(Room, client'[c], seen'[c], conn'[c], x)
         /\ c \in linked => x = played /\ conn'[c].history = Current(histories)
         /\ c \in streaming =>
             Reaches(client'[c], seen'[c], conn'[c].history, conn'[c].msgs, x, Len(x) + 1)
  BY <1>10, <1>11, <1>12
<1> QED BY <1>3, <1>7, <1>13, <1>14, CInvClient

\* What a stream that opens finds: a follower it continues, or one that may
\* begin at the first turn.
LEMMA OpenMeets ==
    ASSUME NEW r, NEW q \in Seq(Turn), NEW f \in FollowerType, NEW s \in Seq(Turn), NEW h,
           FollowerOK(r, f, s),
           NEW o \in Message, o.type = "open", o.world = None,
           MessageOK(o, h, q), ComesFirst(o, f, s, h, q)
    PROVE  /\ o.turn # 1 => f.world # "none" /\ Continues(f, o)
           /\ o.turn = 1 => o.event = 1 /\ o.sealed = 0
           /\ f.world # "none" /\ Continues(f, o) =>
                f.world \in {"fetching", "playing"} /\ IsPrefixOf(s, q)
<1>1. /\ o.turn \in 1..(Len(q) + 1)
      /\ o.event = EventBefore(q, o.turn) /\ o.sealed = SealedBefore(q, o.turn)
  BY DEF MessageOK
<1>2. ASSUME o.turn # 1
      PROVE  f.world \in {"fetching", "playing"} /\ Continues(f, o) /\ IsPrefixOf(s, q)
  <2>1. f.world \in {"fetching", "playing"} /\ f.nextTurn = o.turn /\ IsPrefixOf(s, q)
    BY <1>2 DEF ComesFirst
  <2>2. /\ f.nextTurn = Len(s) + 1 /\ f.nextEvent = EventBefore(s, Len(s) + 1)
        /\ f.sealed = SealedBefore(s, Len(s) + 1)
    BY <2>1 DEF FollowerOK
  <2>3. /\ EventBefore(s, Len(s) + 1) = EventBefore(q, Len(s) + 1)
        /\ SealedBefore(s, Len(s) + 1) = SealedBefore(q, Len(s) + 1)
    BY <2>1, PrefixStands
  <2> QED BY <1>1, <2>1, <2>2, <2>3 DEF Continues
<1>3. o.turn = 1 => o.event = 1 /\ o.sealed = 0
  BY <1>1 DEF EventBefore, SealedBefore
<1>4. ASSUME f.world # "none", Continues(f, o)
      PROVE  f.world \in {"fetching", "playing"} /\ IsPrefixOf(s, q)
  <2>1. f.world \in {"fetching", "playing"} /\ f.nextTurn = Len(s) + 1
    BY <1>4 DEF FollowerOK, FollowerType
  <2>2. CASE o.turn = 1
    <3>1. Len(s) = 0 /\ Len(q) \in Nat
      BY <1>4, <2>1, <2>2 DEF Continues
    <3> QED BY <2>1, <3>1 DEF IsPrefixOf
  <2>3. CASE o.turn # 1
    BY <1>2, <2>1, <2>3
  <2> QED BY <2>2, <2>3
<1> QED BY <1>2, <1>3, <1>4

LEMMA CInvReceiveOpen ==
    ASSUME LInv, CInv, NEW c \in Client, ReceiveOpen(c) PROVE CInv'
<1>1. /\ conn[c].open /\ conn[c].msgs # <<>> /\ Head(conn[c].msgs).type = "open"
      /\ UNCHANGED <<up, gameVars, linkVars, diskVars, ghostVars>>
  BY DEF ReceiveOpen
<1>2. PICK q \in Seq(Turn) :
        /\ Line(Room, client[c], seen[c], conn[c], q)
        /\ c \in linked => q = played /\ conn[c].history = Current(histories)
        /\ c \in streaming =>
            Reaches(client[c], seen[c], conn[c].history, conn[c].msgs, q, Len(q) + 1)
  BY <1>1 DEF CInv, ConnsOK, ConnOK
<1>3. /\ client \in [Client -> FollowerType] /\ seen \in [Client -> Seq(Turn)]
      /\ conn \in [Client -> ConnType]
      /\ conn[c].msgs \in Seq(Message) /\ client[c] \in FollowerType /\ seen[c] \in Seq(Turn)
  BY ClientTypes DEF ConnType
<1>4. PICK h : h = conn[c].history
  OBVIOUS
<1>5. PICK o \in Message : o = conn[c].msgs[1]
  <2>1. 1 \in 1..Len(conn[c].msgs)
    BY <1>1, <1>3, EmptySeq
  <2> QED BY <1>3, <2>1, ElementOfSeq
<1>6. Head(conn[c].msgs) = o
  BY <1>5
<1>7. /\ o.type = "open" /\ MessageOK(o, h, q) /\ ComesFirst(o, client[c], seen[c], h, q)
  <2>1. StreamOK(client[c], seen[c], h, conn[c].msgs, q)
    BY <1>2, <1>4 DEF Line
  <2>2. 1 \in 1..Len(conn[c].msgs)
    BY <1>1, <1>3, EmptySeq
  <2> QED BY <1>1, <1>5, <1>6, <2>1, <2>2 DEF StreamOK
<1>8. /\ o.turn \in Nat /\ o.event \in Nat /\ o.sealed \in Nat /\ o.history \in HistoryId
      /\ o.history = h /\ o.turn \in 1..(Len(q) + 1) /\ TurnAfter(o) = o.turn
      /\ o.event = EventBefore(q, o.turn) /\ o.sealed = SealedBefore(q, o.turn)
  BY <1>7 DEF Message, MessageOK, TurnAfter
<1>9. FollowerOK(Room, client[c], seen[c])
  BY DEF CInv, FollowersOK
<1>10. ASSUME NEW f2 \in FollowerType, NEW s2 \in Seq(Turn),
              client' = [client EXCEPT ![c] = f2], seen' = [seen EXCEPT ![c] = s2], Consume(c),
              f2.world \in {"fetching", "playing"}, f2.history = h, IsPrefixOf(s2, q),
              f2.nextTurn = o.turn, f2.nextEvent = o.event, f2.sealed = o.sealed,
              o.turn = Len(s2) + 1
       PROVE  CInv'
  <2>1. conn' = [conn EXCEPT ![c].msgs = Tail(@)]
    BY <1>10 DEF Consume
  <2>2. OnLine(f2, s2, conn[c].history, q)
    BY <1>4, <1>10 DEF OnLine
  <2>3. f2.nextTurn = TurnAfter(conn[c].msgs[1]) /\ f2.nextTurn = Len(s2) + 1
    BY <1>5, <1>8, <1>10
  <2>4. f2.nextEvent = EventBefore(q, f2.nextTurn) /\ f2.sealed = SealedBefore(q, f2.nextTurn)
    BY <1>8, <1>10
  <2> QED BY <1>1, <1>2, <1>10, <2>1, <2>2, <2>3, <2>4, CInvConsumed
<1>11. PICK f : f = client[c]
  OBVIOUS
<1>12. \A w : w \in {"fetching", "playing"} =>
         /\ Follower(o, w) \in FollowerType
         /\ Follower(o, w).world = w /\ Follower(o, w).history = h
         /\ Follower(o, w).nextTurn = o.turn /\ Follower(o, w).nextEvent = o.event
         /\ Follower(o, w).sealed = o.sealed
  BY <1>8 DEF Follower, FollowerType
<1>13. CASE /\ o.world # None
            /\ client' = [client EXCEPT ![c] = Follower(o, "fetching")]
            /\ seen' = [seen EXCEPT ![c] = o.world.world]
            /\ Consume(c)
  <2>1. o.world.world \in Seq(Turn)
    BY <1>7, <1>13 DEF Message, Point
  <2>2. Len(o.world.world) = o.turn - 1 /\ IsPrefixOf(o.world.world, q)
    BY <1>7, <1>13 DEF MessageOK
  <2>3. o.turn = Len(o.world.world) + 1
    BY <1>8, <2>1, <2>2
  <2> QED BY <1>10, <1>12, <1>13, <2>1, <2>2, <2>3
<1>14. ASSUME o.world = None
       PROVE  /\ o.turn # 1 => f.world # "none" /\ Continues(f, o)
              /\ o.turn = 1 => o.event = 1 /\ o.sealed = 0
              /\ f.world # "none" /\ Continues(f, o) =>
                    f.world \in {"fetching", "playing"} /\ IsPrefixOf(seen[c], q)
  BY <1>3, <1>7, <1>9, <1>11, <1>14, OpenMeets
<1>15. CASE /\ o.world = None /\ f.world # "none" /\ Continues(f, o)
            /\ client' = [client EXCEPT ![c].history = o.history]
            /\ Consume(c) /\ seen' = seen
  <2>1. PICK f2 : f2 = [f EXCEPT !.history = o.history]
    OBVIOUS
  <2>2. /\ f2 \in FollowerType /\ f2.history = h /\ f2.world = f.world
        /\ f2.nextTurn = f.nextTurn /\ f2.nextEvent = f.nextEvent /\ f2.sealed = f.sealed
    BY <1>3, <1>8, <1>11, <2>1 DEF FollowerType
  <2>3. client' = [client EXCEPT ![c] = f2] /\ seen' = [seen EXCEPT ![c] = seen[c]]
    BY <1>3, <1>11, <1>15, <2>1
  <2>4. f.world \in {"fetching", "playing"} /\ IsPrefixOf(seen[c], q)
    BY <1>14, <1>15
  <2>5. f.nextTurn = o.turn /\ f.nextEvent = o.event /\ f.sealed = o.sealed
        /\ f.nextTurn = Len(seen[c]) + 1
    BY <1>9, <1>11, <1>15 DEF Continues, FollowerOK
  <2> QED BY <1>3, <1>10, <1>15, <2>2, <2>3, <2>4, <2>5
<1>16. CASE /\ o.world = None
            /\ f.world = "none" \/ ~Continues(f, o)
            /\ client' = [client EXCEPT ![c] = Follower(o, "playing")]
            /\ seen' = [seen EXCEPT ![c] = <<>>]
            /\ Consume(c)
  <2>1. o.turn = 1
    BY <1>14, <1>16
  <2>2. PICK none \in Seq(Turn) : none = <<>>
    <3>1. <<>> \in Seq(Turn)
      OBVIOUS
    <3> QED BY <3>1
  <2>3. Len(none) = 0 /\ IsPrefixOf(none, q)
    <3>1. Len(none) = 0 /\ Len(q) \in Nat
      BY <2>2
    <3> QED BY <3>1 DEF IsPrefixOf
  <2>4. seen' = [seen EXCEPT ![c] = none] /\ o.turn = Len(none) + 1
    BY <1>16, <2>1, <2>2, <2>3
  <2>5. PICK f2 : f2 = Follower(o, "playing")
    OBVIOUS
  <2>6. client' = [client EXCEPT ![c] = f2]
    BY <1>16, <2>5
  <2>7. /\ f2 \in FollowerType /\ f2.world \in {"fetching", "playing"} /\ f2.history = h
        /\ f2.nextTurn = o.turn /\ f2.nextEvent = o.event /\ f2.sealed = o.sealed
    BY <1>12, <2>5
  <2> QED BY <1>10, <1>16, <2>3, <2>4, <2>6, <2>7
<1>17. CASE /\ o.world = None /\ f.world # "none" /\ ~Continues(f, o)
            /\ ~(o.event = 1 /\ o.sealed = 0)
  BY <1>14, <1>17
<1> QED BY <1>6, <1>11, <1>13, <1>15, <1>16, <1>17 DEF ReceiveOpen

\* The frame that comes next is one its reader accepts.
LEMMA FrameMeets ==
    ASSUME NEW r, NEW q \in Seq(Turn), Chain(q), NEW f \in FollowerType, NEW s \in Seq(Turn), NEW h,
           FollowerOK(r, f, s), OnLine(f, s, h, q),
           NEW t \in Turn, t.number \in 1..Len(q), t = q[t.number], f.nextTurn = t.number
    PROVE  /\ Accepts(f, t)
           /\ Append(s, t) \in Seq(Turn) /\ Len(Append(s, t)) = Len(s) + 1
           /\ IsPrefixOf(Append(s, t), q)
           /\ f.nextTurn + 1 = Len(Append(s, t)) + 1
           /\ f.nextEvent + Len(t.events) = EventBefore(q, f.nextTurn + 1)
           /\ t.sealed = SealedBefore(q, f.nextTurn + 1)
<1> DEFINE n == t.number
<1>1. /\ f.world # "none" /\ IsPrefixOf(s, q) /\ n = Len(s) + 1 /\ Len(s) \in Nat /\ n \in Nat
      /\ f.nextEvent = EventBefore(s, Len(s) + 1) /\ f.sealed = SealedBefore(s, Len(s) + 1)
  BY DEF OnLine, FollowerOK
<1>2. f.nextEvent = EventBefore(q, n) /\ f.sealed = SealedBefore(q, n)
  BY <1>1, PrefixStands
<1>3. Follows(t, n, EventBefore(q, n), SealedBefore(q, n))
  BY DEF Chain
<1>4. Accepts(f, t)
  BY <1>1, <1>2, <1>3 DEF Accepts, Follows
<1>5. /\ Append(s, t) \in Seq(Turn) /\ Len(Append(s, t)) = Len(s) + 1
      /\ \A i \in 1..Len(s) : Append(s, t)[i] = s[i]
      /\ Append(s, t)[Len(s) + 1] = t
  BY AppendProperties
<1>6. IsPrefixOf(Append(s, t), q)
  <2>1. Len(s) + 1 <= Len(q)
    BY <1>1
  <2>2. ASSUME NEW i \in 1..(Len(s) + 1)
        PROVE  Append(s, t)[i] = q[i]
    <3>1. CASE i = Len(s) + 1
      BY <1>1, <1>5, <3>1
    <3>2. CASE i # Len(s) + 1
      <4>1. i \in 1..Len(s)
        BY <1>1, <3>2
      <4> QED BY <1>1, <1>5, <4>1 DEF IsPrefixOf
    <3> QED BY <3>1, <3>2
  <2> QED BY <1>5, <2>1, <2>2 DEF IsPrefixOf
<1>7. n + 1 # 1 /\ (n + 1) - 1 = n
  BY <1>1
<1>8. EventBefore(q, n + 1) = t.first + Len(t.events) /\ SealedBefore(q, n + 1) = t.sealed
  BY <1>7 DEF EventBefore, SealedBefore
<1>9. t.first = EventBefore(q, n)
  BY <1>3 DEF Follows
<1> QED BY <1>1, <1>2, <1>4, <1>5, <1>6, <1>8, <1>9

LEMMA CInvReceiveTurn ==
    ASSUME LInv, CInv, NEW c \in Client, ReceiveTurn(c) PROVE CInv'
<1>1. /\ conn[c].open /\ conn[c].msgs # <<>> /\ Head(conn[c].msgs).type = "frame"
      /\ UNCHANGED <<up, gameVars, linkVars, diskVars, ghostVars>>
  BY DEF ReceiveTurn
<1>2. PICK q \in Seq(Turn) :
        /\ Line(Room, client[c], seen[c], conn[c], q)
        /\ c \in linked => q = played /\ conn[c].history = Current(histories)
        /\ c \in streaming =>
            Reaches(client[c], seen[c], conn[c].history, conn[c].msgs, q, Len(q) + 1)
  BY <1>1 DEF CInv, ConnsOK, ConnOK
<1>3. /\ client \in [Client -> FollowerType] /\ seen \in [Client -> Seq(Turn)]
      /\ conn \in [Client -> ConnType]
      /\ conn[c].msgs \in Seq(Message) /\ client[c] \in FollowerType /\ seen[c] \in Seq(Turn)
  BY ClientTypes DEF ConnType
<1>4. PICK h : h = conn[c].history
  OBVIOUS
<1>5. 1 \in 1..Len(conn[c].msgs)
  BY <1>1, <1>3, EmptySeq
<1>6. PICK m \in Message : m = conn[c].msgs[1]
  BY <1>3, <1>5, ElementOfSeq
<1>7. Head(conn[c].msgs) = m
  BY <1>6
<1>8. m.type = "frame" /\ MessageOK(m, h, q) /\ ComesFirst(m, client[c], seen[c], h, q) /\ Chain(q)
  <2>1. StreamOK(client[c], seen[c], h, conn[c].msgs, q) /\ Chain(q)
    BY <1>2, <1>4 DEF Line
  <2> QED BY <1>1, <1>5, <1>6, <1>7, <2>1 DEF StreamOK
<1>9. PICK t \in Turn : t = m.frame
  BY <1>8 DEF Message
<1>10. /\ t.number \in 1..Len(q) /\ t = q[t.number]
       /\ OnLine(client[c], seen[c], h, q) /\ client[c].nextTurn = t.number
       /\ TurnAfter(m) = t.number + 1
  BY <1>8, <1>9 DEF MessageOK, ComesFirst, TurnAfter
<1>11. FollowerOK(Room, client[c], seen[c])
  BY DEF CInv, FollowersOK
<1>13. PICK f \in FollowerType : f = client[c]
  BY <1>3
<1>21. PICK s \in Seq(Turn) : s = seen[c]
  BY <1>3
<1>22. FollowerOK(Room, f, s) /\ OnLine(f, s, h, q) /\ f.nextTurn = t.number
  BY <1>10, <1>11, <1>13, <1>21
<1>23. /\ Accepts(f, t)
       /\ Append(s, t) \in Seq(Turn) /\ Len(Append(s, t)) = Len(s) + 1
       /\ IsPrefixOf(Append(s, t), q)
       /\ f.nextTurn + 1 = Len(Append(s, t)) + 1
       /\ f.nextEvent + Len(t.events) = EventBefore(q, f.nextTurn + 1)
       /\ t.sealed = SealedBefore(q, f.nextTurn + 1)
  <2>1. q \in Seq(Turn) /\ Chain(q) /\ f \in FollowerType /\ s \in Seq(Turn) /\ t \in Turn
    BY <1>2, <1>8, <1>9, <1>13, <1>21
  <2>2. t.number \in 1..Len(q) /\ t = q[t.number]
    BY <1>10
  <2> QED BY <1>22, <2>1, <2>2, FrameMeets, ZenonT(40)
<1>12. PICK s2 : s2 = Append(s, t)
  OBVIOUS
<1>14. /\ Accepts(f, t)
       /\ s2 \in Seq(Turn) /\ IsPrefixOf(s2, q)
       /\ f.nextTurn + 1 = Len(s2) + 1
       /\ f.nextEvent + Len(t.events) = EventBefore(q, f.nextTurn + 1)
       /\ t.sealed = SealedBefore(q, f.nextTurn + 1)
  BY <1>12, <1>23
<1>15. PICK f2 : f2 = [f EXCEPT !.nextTurn = @ + 1, !.nextEvent = @ + Len(t.events),
                                !.sealed = t.sealed]
  OBVIOUS
<1>16. /\ f2 \in FollowerType /\ f2.world = f.world /\ f2.history = f.history
       /\ f2.nextTurn = f.nextTurn + 1 /\ f2.nextEvent = f.nextEvent + Len(t.events)
       /\ f2.sealed = t.sealed
  <2>1. Len(t.events) \in Nat /\ t.sealed \in Nat
    BY TurnType
  <2>2. f.nextTurn \in Nat /\ f.nextEvent \in Nat
    BY <1>13 DEF FollowerType
  <2>3. f.nextTurn + 1 \in Nat /\ f.nextEvent + Len(t.events) \in Nat
    BY <2>1, <2>2
  <2>4. PICK a \in Nat, b \in Nat, e \in Nat :
          /\ a = f.nextTurn + 1 /\ b = f.nextEvent + Len(t.events) /\ e = t.sealed
    BY <2>1, <2>3
  <2>5. f2 = [f EXCEPT !.nextTurn = a, !.nextEvent = b, !.sealed = e]
    BY <1>15, <2>4
  <2>6. /\ f2 \in FollowerType /\ f2.world = f.world /\ f2.history = f.history
        /\ f2.nextTurn = a /\ f2.nextEvent = b /\ f2.sealed = e
    BY <1>13, <2>4, <2>5 DEF FollowerType
  <2> QED BY <2>4, <2>6
<1>17. /\ client' = [client EXCEPT ![c] = f2] /\ seen' = [seen EXCEPT ![c] = s2]
       /\ conn' = [conn EXCEPT ![c].msgs = Tail(@)]
  <2>1. LET g == client[c] IN
        IF Accepts(g, t)
        THEN /\ client' = [client EXCEPT ![c] =
                    [g EXCEPT !.nextTurn = @ + 1, !.nextEvent = @ + Len(t.events),
                              !.sealed = t.sealed]]
             /\ seen' = [seen EXCEPT ![c] = Append(@, t)]
             /\ Consume(c)
        ELSE Ends(c)
    BY <1>7, <1>9 DEF ReceiveTurn
  <2>2. /\ client' = [client EXCEPT ![c] =
                    [f EXCEPT !.nextTurn = @ + 1, !.nextEvent = @ + Len(t.events),
                              !.sealed = t.sealed]]
        /\ seen' = [seen EXCEPT ![c] = Append(@, t)]
        /\ Consume(c)
    BY <1>13, <1>14, <2>1
  <2> QED BY <1>3, <1>12, <1>15, <1>21, <2>2 DEF Consume
<1>18. OnLine(f2, s2, conn[c].history, q)
  BY <1>4, <1>10, <1>13, <1>14, <1>16 DEF OnLine
<1>19. f2.nextTurn = TurnAfter(conn[c].msgs[1]) /\ f2.nextTurn = Len(s2) + 1
  BY <1>6, <1>10, <1>13, <1>14, <1>16
<1>20. f2.nextEvent = EventBefore(q, f2.nextTurn) /\ f2.sealed = SealedBefore(q, f2.nextTurn)
  BY <1>14, <1>16
<1> QED BY <1>1, <1>2, <1>14, <1>16, <1>17, <1>18, <1>19, <1>20, CInvConsumed

LEMMA CInvIntent == ASSUME LInv, LInv', CInv, Intent PROVE CInv'
<1>1. PICK frontier : up /\ SealAndPublish(Ordered, nextEvent + 1, frontier) /\ saved' = saved
  BY DEF Intent
<1> QED BY <1>1, OrderedOK, CInvSeal

LEMMA CInvTick == ASSUME LInv, LInv', CInv, Tick PROVE CInv'
<1>1. PICK frontier : up /\ SealAndPublish(pending, nextEvent, frontier) /\ saved' = saved
  BY DEF Tick
<1>2. /\ pending \in Seq(Event) /\ nextEvent \in Nat
      /\ nextEvent = EventBefore(played, nextTurn) + Len(pending)
      /\ Numbered(pending, EventBefore(played, nextTurn), sealed)
  BY <1>1 DEF LInv, LogTypeOK, GameOK, PendingOK
<1> QED BY <1>1, <1>2, CInvSeal

\* The save stands at the end of the log.
LEMMA CInvSave == ASSUME LInv, LInv', CInv, Save PROVE CInv'
<1>1. /\ up /\ SealAndPublish(Ordered, nextEvent + 1, sealed)
      /\ saved' = [event |-> nextEvent, after |-> nextTurn' - 1, sealed |-> sealed,
                   history |-> Current(histories), world |-> played']
  BY DEF Save
<1>2. /\ DiskHistories(disk') = DiskHistories(disk)
      /\ UNCHANGED <<up, histories, used>>
  BY <1>1, OrderedOK, SealExtends
<1>3. IdsOK' /\ up'
  BY <1>1, <1>2 DEF CInv, IdsOK
<1>4. /\ nextTurn' = Len(played') + 1 /\ played' \in Seq(Turn) /\ Len(played') \in Nat
      /\ nextEvent \in Nat /\ sealed \in Nat
  BY <1>3 DEF LInv, LogTypeOK, GameOK, WindowOK
<1>5. Agrees(Room', Current(histories), played')
  <2>1. AgreesAlong(Room', Current(histories), played')
    BY <1>2, <1>3, SealedAgrees
  <2>2. IsPrefixOf(played', played')
    BY <1>4 DEF IsPrefixOf
  <2> QED BY <1>4, <2>1, <2>2, OnAgreedLine
<1>6. saved' \in Point /\ saved'.history = Current(histories) /\ saved'.world = played'
      /\ saved'.after = Len(played')
  BY <1>1, <1>4, CurrentType DEF Point
<1>7. PointOK(Room', saved')
  BY <1>5, <1>6 DEF PointOK
<1> QED BY <1>1, <1>6, <1>7, OrderedOK, CInvSeal

-----------------------------------------------------------------------------
(* The whole invariant                                                     *)

LEMMA CInvInit == Init => CInv
<1> SUFFICES ASSUME Init PROVE CInv
  OBVIOUS
<1>1. PICK there \in SUBSET Client, owner \in Client, handed \in BOOLEAN :
        /\ linked = there
        /\ streaming = IF KeepsWorlds /\ ~handed THEN there \cap {owner} ELSE there
        /\ loaded = IF handed THEN there ELSE {}
        /\ point = IF handed THEN StartPoint ELSE None
        /\ conn = [c \in Client |->
                    [open |-> c \in there, history |-> FirstHistory,
                     msgs |-> IF c \in streaming
                              THEN <<OpenMsg(FirstStream, FirstHistory, point)>> ELSE <<>>]]
  BY DEF Init
<1>2. /\ up = TRUE /\ logOpen = TRUE /\ saved = None /\ pointer = None /\ disk = NewDisk
      /\ histories = <<[id |-> FirstHistory, after |-> 0]>>
      /\ client = [c \in Client |-> NoFollower] /\ seen = [c \in Client |-> <<>>]
      /\ played = <<>> /\ used = {FirstHistory} /\ intact = TRUE
  BY DEF Init
<1>3. LInv
  BY LInvInit
<1>4. /\ histories = DiskHistories(disk) /\ Len(histories) = 1
      /\ histories[1] = [id |-> FirstHistory, after |-> 0] /\ Current(histories) = FirstHistory
  BY <1>2, <1>3, RoomFacts DEF Current
<1>5. FirstHistory \in HistoryId
  BY ConstantsAssumption
<1>6. IdsOK
  BY <1>2, <1>4 DEF IdsOK
<1>7. AgreesAlong(Room, FirstHistory, played)
  BY <1>2, <1>3, <1>4, <1>6, PlayedAgrees
<1>8. PICK none \in Seq(Turn) : none = <<>>
  <2>1. <<>> \in Seq(Turn)
    OBVIOUS
  <2> QED BY <2>1
<1>9. /\ Len(none) = 0 /\ played = none /\ IsPrefixOf(none, played) /\ Chain(played)
      /\ played \in Seq(Turn)
  <2>1. Len(none) = 0 /\ played = none
    BY <1>2, <1>8
  <2> QED BY <1>3, <2>1 DEF IsPrefixOf, LInv
<1>10. Agrees(Room, FirstHistory, none)
  BY <1>7, <1>9, OnAgreedLine
<1>11. /\ StartPoint \in Point /\ StartPoint.history = FirstHistory
       /\ StartPoint.world = none /\ StartPoint.after = 0
  <2>1. StartPoint = [event |-> 0, after |-> 0, history |-> FirstHistory, sealed |-> 0,
                      world |-> none]
    BY <1>8 DEF StartPoint
  <2> QED BY <1>5, <2>1 DEF Point
<1>12. PointsOK
  <2>1. PointOK(Room, StartPoint)
    BY <1>9, <1>10, <1>11 DEF PointOK
  <2>2. PointOK(Room, None)
    BY DEF PointOK
  <2> QED BY <1>1, <1>2, <2>1, <2>2 DEF PointsOK
<1>13. FollowersOK
  <2>1. \A c \in Client : client[c].world = "none"
    BY <1>2, NoTypes
  <2> QED BY <2>1 DEF FollowersOK, FollowerOK
<1>14. ASSUME NEW c \in Client
       PROVE  conn[c] \in ConnType /\ ConnOK(c)
  <2>1. PICK w \in Point \cup {None} : w = point
    BY <1>1, <1>11
  <2>2. PICK o : o = OpenMsg(FirstStream, FirstHistory, w)
    OBVIOUS
  <2>3. /\ o \in Message /\ o.type = "open" /\ o.turn = 1 /\ o.event = 1 /\ o.sealed = 0
        /\ o.history = FirstHistory /\ o.world = w
    BY <1>5, <2>1, <2>2 DEF OpenMsg, FirstStream, Message
  <2>4. w # None => w.world = none
    BY <1>1, <1>11, <2>1
  <2>5. MessageOK(o, FirstHistory, played)
    <3>1. Len(played) = 0 /\ 1 \in 1..(Len(played) + 1)
      BY <1>9
    <3>2. EventBefore(played, 1) = 1 /\ SealedBefore(played, 1) = 0
      BY DEF EventBefore, SealedBefore
    <3> QED BY <1>9, <2>3, <2>4, <3>1, <3>2 DEF MessageOK
  <2>6. ComesFirst(o, client[c], seen[c], FirstHistory, played)
    BY <2>3 DEF ComesFirst
  <2>7. PICK empty \in Seq(Message) : empty = <<>>
    <3>1. <<>> \in Seq(Message)
      OBVIOUS
    <3> QED BY <3>1
  <2>8. Len(empty) = 0
    BY <2>7
  <2>9. StreamOK(client[c], seen[c], FirstHistory, empty, played)
    BY <2>7, <2>8 DEF StreamOK
  <2>10. PICK one : one = <<o>>
    OBVIOUS
  <2>11. empty \o <<o>> = one
    BY <2>3, <2>7, <2>10
  <2>12. /\ one \in Seq(Message) /\ StreamOK(client[c], seen[c], FirstHistory, one, played)
         /\ Reaches(client[c], seen[c], FirstHistory, one, played, 1)
    <3>1. /\ empty \o <<o>> \in Seq(Message)
          /\ StreamOK(client[c], seen[c], FirstHistory, empty \o <<o>>, played)
          /\ Reaches(client[c], seen[c], FirstHistory, empty \o <<o>>, played, o.turn)
      BY <1>9, <2>3, <2>5, <2>6, <2>7, <2>9, StreamOpened
    <3> QED BY <2>3, <2>11, <3>1
  <2>13. /\ conn[c] = [open |-> c \in linked, history |-> FirstHistory,
                       msgs |-> IF c \in streaming THEN one ELSE empty]
    BY <1>1, <2>1, <2>2, <2>7, <2>10
  <2>14. /\ conn[c] \in ConnType /\ conn[c].history = FirstHistory
         /\ c \in streaming => conn[c].msgs = one
         /\ c \notin streaming => conn[c].msgs = empty
    BY <1>5, <2>7, <2>12, <2>13 DEF ConnType
  <2>15. Line(Room, client[c], seen[c], conn[c], played)
    BY <1>7, <1>9, <2>9, <2>12, <2>14 DEF Line
  <2>16. Len(played) + 1 = 1
    BY <1>9
  <2> QED BY <1>4, <1>9, <2>12, <2>14, <2>15, <2>16 DEF ConnOK
<1>15. ClientTypeOK
  <2>1. client \in [Client -> FollowerType] /\ seen \in [Client -> Seq(Turn)]
    BY <1>2, <1>8, NoTypes
  <2>2. conn \in [Client -> ConnType]
    BY <1>1, <1>14
  <2>3. streaming \subseteq linked /\ linked \subseteq Client /\ loaded \subseteq Client
    BY <1>1
  <2>4. point \in Point \cup {None}
    BY <1>1, <1>11
  <2> QED BY <1>2, <1>5, <2>1, <2>2, <2>3, <2>4 DEF ClientTypeOK, ConnType, FollowerType
<1>16. LogKept /\ (linked # {} => up)
  BY <1>2 DEF LogKept
<1> QED BY <1>6, <1>12, <1>13, <1>14, <1>15, <1>16 DEF CInv, ConnsOK

LEMMA CInvUnchanged == ASSUME CInv, UNCHANGED vars PROVE CInv'
<1>1. UNCHANGED <<up, saved, point, linkVars, diskVars, clientVars, ghostVars, histories>>
  BY DEF vars, gameVars
<1>2. Room' = Room
  BY <1>1 DEF Room, diskVars, ghostVars
<1>3. FollowersOK' /\ ConnsOK'
  BY <1>1, <1>2, KeepsSame, QuietClients DEF linkVars, ghostVars
<1>4. PointsOK'
  BY <1>1, <1>2 DEF CInv, PointsOK, diskVars
<1>5. ClientTypeOK' /\ LogKept' /\ (linked' # {} => up') /\ IdsOK'
  BY <1>1 DEF CInv, ClientTypeOK, LogKept, IdsOK, linkVars, diskVars, clientVars, ghostVars
<1> QED BY <1>3, <1>4, <1>5 DEF CInv

\* With the room's part, the clients' part is inductive.
LEMMA CInvNext == LInv /\ LInv' /\ CInv /\ [Next]_vars => CInv'
<1> SUFFICES ASSUME LInv, LInv', CInv, [Next]_vars PROVE CInv'
  OBVIOUS
<1>1. CASE OrderEvent \/ WritePointer \/ FinishCompaction \/ Promote
  BY <1>1, CInvOrderEvent, CInvWritePointer, CInvFinishCompaction, CInvPromote
<1>2. CASE Intent \/ Tick \/ Save
  BY <1>2, CInvIntent, CInvTick, CInvSave
<1>3. CASE Crash \/ MachineCrash \/ Recover
  BY <1>3, CInvCrash, CInvMachineCrash, CInvRecover
<1>4. ASSUME NEW c \in Client, Disconnected(c) \/ Drop(c) \/ Restart(c) PROVE CInv'
  BY <1>4, CInvDisconnected, CInvDrop, CInvRestart
<1>5. ASSUME NEW c \in Client, JoinResuming(c) \/ JoinFromStart(c) \/ JoinForWorld(c) PROVE CInv'
  BY <1>5, CInvJoinResuming, CInvJoinFromStart, CInvJoinForWorld
<1>6. ASSUME NEW c \in Client, ReceiveOpen(c) \/ ReceiveTurn(c) \/ Fetched(c) PROVE CInv'
  BY <1>6, CInvReceiveOpen, CInvReceiveTurn, CInvFetched
<1>7. CASE UNCHANGED vars
  BY <1>7, CInvUnchanged
<1> QED BY <1>1, <1>2, <1>3, <1>4, <1>5, <1>6, <1>7 DEF Next

\* In every state every world embodies turns that agree with the room's log,
\* and what is on its way to a client leads its follower along turns the
\* room played in the history the client was told.
THEOREM ClientInvariant == Spec => []CInv
BY LogInvariant, CInvInit, CInvNext, PTL DEF Spec

\* Every variable has its type, the clients' and the connections' included.
THEOREM TypesCorrect == Spec => []TypeOK
<1>1. LInv /\ CInv => TypeOK
  BY DEF LInv, LogTypeOK, CInv, ClientTypeOK, TypeOK
<1> QED BY <1>1, LogInvariant, ClientInvariant, PTL

\* Game::stream_after, stream_from_save and TurnFollower agree: whichever
\* way a client came to its world, the turns it embodies are the first turns
\* of the log while the room streams to it, over any number of crashes.
THEOREM ClientsInLockstep == Spec => []Lockstep
<1>1. LInv /\ CInv => Lockstep
  <2> SUFFICES ASSUME LInv, CInv, NEW c \in streaming,
                      client[c].world \in {"fetching", "playing"}, conn[c].open,
                      ~Restarts(conn[c].msgs)
               PROVE  Len(seen[c]) = client[c].nextTurn - 1 /\ IsPrefixOf(seen[c], played)
    BY DEF Lockstep
  <2>1. c \in linked /\ c \in Client /\ seen[c] \in Seq(Turn) /\ conn[c].msgs \in Seq(Message)
    BY DEF CInv, ClientTypeOK
  <2>2. /\ Line(Room, client[c], seen[c], conn[c], played)
        /\ Reaches(client[c], seen[c], conn[c].history, conn[c].msgs, played, Len(played) + 1)
    BY <2>1 DEF CInv, ConnsOK, ConnOK
  <2>3. FollowerOK(Room, client[c], seen[c])
    BY <2>1 DEF CInv, FollowersOK
  <2>4. client[c].nextTurn = Len(seen[c]) + 1 /\ Len(seen[c]) \in Nat
    BY <2>1, <2>3 DEF FollowerOK
  <2>5. CASE conn[c].msgs = <<>>
    BY <2>2, <2>4, <2>5 DEF Reaches, OnLine
  <2>6. CASE conn[c].msgs # <<>>
    <3>1. 1 \in 1..Len(conn[c].msgs)
      BY <2>1, <2>6, EmptySeq
    <3>2. PICK m \in Message : m = conn[c].msgs[1]
      BY <2>1, <3>1, ElementOfSeq
    <3>3. m.type = "frame"
      BY <3>1, <3>2 DEF Restarts, Message
    <3>4. ComesFirst(m, client[c], seen[c], conn[c].history, played)
      BY <2>2, <2>6, <3>2 DEF Line, StreamOK
    <3> QED BY <2>4, <3>3, <3>4 DEF ComesFirst, OnLine
  <2> QED BY <2>5, <2>6
<1> QED BY <1>1, LogInvariant, ClientInvariant, PTL

\* No stream an honest server sends makes TurnFollower::accept or restart
\* fail, whatever is dropped, resumed, compacted, lost or recovered.
THEOREM FollowersNeverFail == Spec => []NeverFails
<1>1. CInv => NeverFails
  BY DEF CInv, FollowersOK, FollowerOK, NeverFails
<1> QED BY <1>1, ClientInvariant, PTL

\* RoomLog::append comes before Room::publish: while no append failed and no
\* machine stopped, every client's turns are still in the recovered log, in
\* the history the client knows.
THEOREM NothingIsLost == Spec => []NothingLostWithoutTheDisk
<1>1. LInv /\ CInv => NothingLostWithoutTheDisk
  <2> SUFFICES ASSUME LInv, CInv, intact, up, NEW c \in Client, Resumes(c)
               PROVE  /\ Shares(histories, client[c].history, client[c].nextTurn - 1)
                      /\ client[c].nextTurn <= nextTurn
    BY DEF NothingLostWithoutTheDisk
  <2>1. /\ Agrees(Room, client[c].history, seen[c]) /\ client[c].nextTurn = Len(seen[c]) + 1
    BY DEF CInv, FollowersOK, FollowerOK, Resumes
  <2>2. /\ seen[c] \in Seq(Turn)
        /\ Shares(histories, client[c].history, Len(seen[c])) /\ IsPrefixOf(seen[c], played)
    BY <2>1, RoomFacts DEF Agrees
  <2>3. Len(seen[c]) \in Nat /\ client[c].nextTurn - 1 = Len(seen[c])
    BY <2>1, <2>2
  <2>4. nextTurn = Len(played) + 1 /\ Len(played) \in Nat /\ Len(seen[c]) <= Len(played)
    BY <2>2, RoomFacts DEF IsPrefixOf
  <2> QED BY <2>1, <2>2, <2>3, <2>4
<1> QED BY <1>1, LogInvariant, ClientInvariant, PTL

=============================================================================
