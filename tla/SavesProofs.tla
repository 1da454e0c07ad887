----------------------------- MODULE SavesProofs -----------------------------
(***************************************************************************)
(* That every hold on a snapshot has a holder that will give it back, that *)
(* the store keeps what the room may hand out, and that the room hands out *)
(* the saves its players reported, for every number of players and         *)
(* snapshots, and however uploads, releases, departures and restarts       *)
(* interleave.                                                             *)
(*                                                                         *)
(* The argument is a balance: of each snapshot, the holds its holders      *)
(* have, one by one, never exceed those the store counts, and are as many  *)
(* where no task is cut off.  So a snapshot found unheld is in no slot and *)
(* in no result on its way to the room, and may be dropped.                *)
(***************************************************************************)
EXTENDS Saves, FiniteSetTheorems, TLAPS

Candidate == [player : Player, id : Snapshot]
Upload == [from : Player, id : Snapshot, rest : Seq(Candidate), receiving : BOOLEAN]
Stream == [from : Player, id : Snapshot]
Message == [from : Player, id : Snapshot, ok : BOOLEAN]

\* The world the game starts from is the one that was named, and only a lobby
\* has one.
StartOK ==
    /\ start # None => phase = "lobby"
    /\ \/ start = None
       \/ /\ start.is = "Asked"
          /\ \E id \in Snapshot, receiving \in BOOLEAN :
                start = [is |-> "Asked", id |-> id, save |-> id, from |-> start.from,
                         receiving |-> receiving]
       \/ \E id \in Snapshot : start = [is |-> "Held", id |-> id, save |-> id]

\* A slot is empty, or holds the snapshot that was reported.
SlotOK(slot) == slot = None \/ \E id \in Snapshot : slot = World(id, id)

UploadOK == upload # None => upload \in Upload

RoomOK ==
    /\ phase \in {"lobby", "running", "closed"}
    /\ member \in [Player -> {"linked", "away", "gone"}]
    /\ round # None => /\ upload = None
                       /\ DOMAIN round \subseteq Player /\ Range(round) \subseteq Snapshot
    /\ StartOK /\ UploadOK
    /\ SlotOK(current) /\ SlotOK(previous)
    /\ phase = "lobby" => current = None
    /\ failed \subseteq Player

TasksOK ==
    /\ inbox \in Seq(Message)
    /\ streams \subseteq Stream /\ IsFiniteSet(streams)
    /\ holds \in [Snapshot -> Nat] /\ releasing \in [Snapshot -> Nat]
    /\ retained \subseteq Snapshot /\ dropping \subseteq Snapshot

Accounted ==
    \A id \in Snapshot : /\ HoldersOf(id) <= holds[id]
                         /\ ~Abrupt => HoldersOf(id) = holds[id]

\* The worlds that arrived, of which the room is yet to hear.
Told(messages) == {messages[i].id : i \in {j \in DOMAIN messages : messages[j].ok}}

Retained ==
    IdsOf(current) \cup IdsOf(previous) \cup HeldStart \cup Told(inbox) \subseteq retained

SavesInv == RoomOK /\ TasksOK /\ Accounted /\ Retained

-----------------------------------------------------------------------------
(* Induction                                                               *)

\* A set of naturals has a least element.
LEMMA Least ==
    ASSUME NEW T \in SUBSET Nat, T # {}
    PROVE  Min(T) \in T /\ \A y \in T : Min(T) <= y
<1>1. PICK R : R = OpToRel(<, Nat)
  OBVIOUS
<1>2. IsWellFoundedOn(R, Nat)
  BY <1>1, NatLessThanWellFounded
<1>3. R = {ss \in Nat \X Nat : ss[1] < ss[2]}
  BY <1>1 DEF OpToRel
<1>4. PICK x \in T : \A y \in T : ~(<<y, x>> \in R)
  BY <1>2, WFMin
<1>5. \A y \in T : <<y, x>> \in Nat \X Nat /\ <<y, x>>[1] = y /\ <<y, x>>[2] = x
  OBVIOUS
<1>6. \A y \in T : ~(y < x)
  BY <1>3, <1>4, <1>5
<1>7. \A y \in T : x <= y
  BY <1>6
<1> QED BY <1>7 DEF Min

LEMMA Induction ==
    ASSUME NEW T \in SUBSET Nat, 0 \in T, \A n \in T : n + 1 \in T
    PROVE  T = Nat
<1> SUFFICES ASSUME Nat \ T # {} PROVE FALSE
  OBVIOUS
<1>1. PICK x \in Nat \ T : \A y \in Nat \ T : x <= y
  <2>1. Nat \ T \in SUBSET Nat
    OBVIOUS
  <2> QED BY <2>1, Least
<1>2. x # 0 /\ x - 1 \in Nat /\ x - 1 \notin Nat \ T
  BY <1>1
<1> QED BY <1>1, <1>2

-----------------------------------------------------------------------------
(* Whose saves may be uploaded                                             *)

LEMMA InOrderSeq ==
    ASSUME NEW P, NEW sorted, sorted = InOrder(P)
    PROVE  sorted \in Seq(P)
<1> DEFINE KeepOn(f, i) == IF Order[i] \in P THEN Append(f[i - 1], Order[i]) ELSE f[i - 1]
           Is(f, n) == f = [i \in 0..n |-> IF i = 0 THEN <<>> ELSE KeepOn(f, i)]
           Defined == {n \in Nat : \E f : Is(f, n)}
<1>1. PICK m \in Nat : m = Len(Order)
  BY SavesAssumption
<1>2. m \in Defined
  <2>1. 0 \in Defined
    <3>1. PICK f : f = [i \in 0..0 |-> <<>>]
      OBVIOUS
    <3>2. f = [i \in 0..0 |-> IF i = 0 THEN <<>> ELSE KeepOn(f, i)]
      BY <3>1
    <3> QED BY <3>2
  <2>2. ASSUME NEW n \in Defined PROVE n + 1 \in Defined
    <3>1. PICK f : Is(f, n)
      BY <2>2
    <3>2. n \in Nat /\ n + 1 \in Nat
      BY <2>2
    <3>3. PICK last : last = KeepOn(f, n + 1)
      OBVIOUS
    <3>4. PICK g : g = [i \in 0..(n + 1) |-> IF i = n + 1 THEN last ELSE f[i]]
      OBVIOUS
    <3>5. ASSUME NEW i \in 0..(n + 1)
          PROVE  g[i] = IF i = 0 THEN <<>> ELSE KeepOn(g, i)
      <4>1. CASE i = 0
        BY <3>1, <3>2, <3>4, <4>1
      <4>2. CASE i # 0 /\ i # n + 1
        <5>1. i \in 0..n /\ i - 1 \in 0..(n + 1) /\ i - 1 # n + 1 /\ i # n + 1
          BY <3>2, <4>2
        <5>2. g[i] = f[i] /\ g[i - 1] = f[i - 1]
          BY <3>4, <5>1
        <5>3. f[i] = KeepOn(f, i)
          BY <3>1, <4>2, <5>1
        <5> QED BY <4>2, <5>2, <5>3
      <4>3. CASE i = n + 1
        <5>1. i - 1 \in 0..(n + 1) /\ i - 1 # n + 1 /\ i - 1 = n /\ i # 0
          BY <3>2, <4>3
        <5>2. g[i] = last /\ g[i - 1] = f[i - 1]
          BY <3>4, <4>3, <5>1
        <5> QED BY <3>3, <4>3, <5>1, <5>2
      <4> QED BY <4>1, <4>2, <4>3
    <3> HIDE DEF KeepOn
    <3>6. g = [i \in 0..(n + 1) |-> IF i = 0 THEN <<>> ELSE KeepOn(g, i)]
      BY <3>4, <3>5
    <3> QED BY <3>2, <3>6
  <2> HIDE DEF Is
  <2>3. Defined = Nat
    <3>1. Defined \in SUBSET Nat
      OBVIOUS
    <3> HIDE DEF Defined
    <3> QED BY <2>1, <2>2, <3>1, Induction
  <2> HIDE DEF Defined
  <2> QED BY <2>3
<1>3. PICK f : Is(f, m) /\ sorted = f[m]
  <2>1. sorted = (CHOOSE f : Is(f, m))[m]
    BY <1>1 DEF InOrder
  <2>2. \E f : Is(f, m)
    BY <1>2
  <2> HIDE DEF Is
  <2> QED BY <2>1, <2>2
<1>4. f[0] = <<>> /\ \A i \in 1..m : f[i] = KeepOn(f, i)
  <2>1. \A i \in 0..m : f[i] = IF i = 0 THEN <<>> ELSE KeepOn(f, i)
    BY <1>3
  <2> HIDE DEF KeepOn, Is
  <2> QED BY <1>1, <2>1
<1> DEFINE Reached == {n \in Nat : n <= m => f[n] \in Seq(P)}
<1>5. 0 \in Reached
  <2>1. <<>> \in Seq(P)
    OBVIOUS
  <2>2. PICK none : none = <<>>
    OBVIOUS
  <2> QED BY <1>4, <2>1, <2>2
<1>6. ASSUME NEW n \in Reached PROVE n + 1 \in Reached
  <2> SUFFICES ASSUME n + 1 <= m PROVE f[n + 1] \in Seq(P)
    OBVIOUS
  <2>1. n \in Nat /\ n + 1 \in 1..m /\ (n + 1) - 1 = n
    BY <1>1
  <2>2. f[n] \in Seq(P)
    BY <1>1, <1>6, <2>1
  <2>3. f[n + 1] = IF Order[n + 1] \in P THEN Append(f[n], Order[n + 1]) ELSE f[n]
    BY <1>4, <2>1
  <2>4. PICK before \in Seq(P) : before = f[n]
    BY <2>2
  <2> QED BY <2>3, <2>4
<1>7. Reached = Nat
  <2>1. Reached \in SUBSET Nat
    OBVIOUS
  <2> HIDE DEF Reached
  <2> QED BY <1>5, <1>6, <2>1, Induction
<1>8. m \in Reached
  BY <1>1, <1>7
<1> QED BY <1>1, <1>3, <1>8

LEMMA CandidatesSeq ==
    ASSUME NEW reported, reported # None, round = reported,
           DOMAIN reported \subseteq Player, Range(reported) \subseteq Snapshot,
           NEW agreeing \in SUBSET DOMAIN reported, NEW candidates,
           candidates = Candidates(agreeing)
    PROVE  candidates \in Seq(Candidate)
<1>1. PICK first : first = InOrder(agreeing \ failed)
  OBVIOUS
<1>2. PICK last : last = InOrder(agreeing \cap failed)
  OBVIOUS
<1>3. first \in Seq(agreeing \ failed) /\ last \in Seq(agreeing \cap failed)
  BY <1>1, <1>2, InOrderSeq
<1>4. first \in Seq(agreeing) /\ last \in Seq(agreeing)
  BY <1>3
<1>5. PICK sorted : sorted = first \o last
  OBVIOUS
<1>6. sorted \in Seq(agreeing)
  BY <1>4, <1>5
<1>7. PICK n \in Nat : n = Len(sorted)
  BY <1>6
<1>8. candidates = [i \in 1..n |-> [player |-> sorted[i], id |-> reported[sorted[i]]]]
  BY <1>1, <1>2, <1>5, <1>6, <1>7 DEF Candidates
<1>9. \A i \in 1..n : sorted[i] \in agreeing
  BY <1>6, <1>7
<1>10. \A p \in agreeing : p \in Player /\ reported[p] \in Snapshot
  BY DEF Range
<1>11. \A i \in 1..n : candidates[i] \in Candidate
  BY <1>8, <1>9, <1>10 DEF Candidate
<1>12. candidates \in [1..n -> Candidate]
  BY <1>8, <1>11
<1> QED BY <1>7, <1>12

-----------------------------------------------------------------------------
(* Counting holds                                                          *)

LEMMA HoldsType == \A ids, id : Holds(ids, id) \in 0..1
BY DEF Holds

\* What letting go of `ids` adds.
LEMMA LetGoAdds ==
    ASSUME NEW rel \in [Snapshot -> Nat], NEW ids, NEW after, after = LetGo(rel, ids)
    PROVE  /\ after \in [Snapshot -> Nat]
           /\ \A id \in Snapshot : after[id] = rel[id] + Holds(ids, id)
<1>1. \A id \in Snapshot : after[id] = rel[id] + Holds(ids, id) /\ after[id] \in Nat
  BY DEF LetGo, Holds
<1> QED BY <1>1 DEF LetGo

LEMMA UploadingType ==
    ASSUME NEW from, IsFiniteSet(from), NEW id
    PROVE  Uploading(from, id) \in Nat
<1>1. {stream \in from : stream.id = id} \in SUBSET from
  OBVIOUS
<1> QED BY <1>1, FS_Subset, FS_CardinalityType DEF Uploading

LEMMA UploadingOneMore ==
    ASSUME NEW from, IsFiniteSet(from), NEW new, new \notin from, NEW id
    PROVE  Uploading(from \cup {new}, id) = Uploading(from, id) + Holds({new.id}, id)
<1>1. PICK of : of = {stream \in from : stream.id = id}
  OBVIOUS
<1>2. IsFiniteSet(of) /\ new \notin of
  BY <1>1, FS_Subset
<1>3. Cardinality(of) \in Nat
  BY <1>2, FS_CardinalityType
<1>4. CASE new.id = id
  <2>1. {stream \in from \cup {new} : stream.id = id} = of \cup {new}
    BY <1>1, <1>4
  <2>2. Cardinality(of \cup {new}) = Cardinality(of) + 1
    BY <1>2, FS_AddElement
  <2> QED BY <1>1, <1>4, <2>1, <2>2 DEF Uploading, Holds
<1>5. CASE new.id # id
  <2>1. {stream \in from \cup {new} : stream.id = id} = of
    BY <1>1, <1>5
  <2>2. Holds({new.id}, id) = 0
    BY <1>5 DEF Holds
  <2>3. Uploading(from, id) = Cardinality(of) /\ Uploading(from \cup {new}, id) = Cardinality(of)
    BY <1>1, <2>1 DEF Uploading
  <2> QED BY <1>3, <2>2, <2>3
<1> QED BY <1>4, <1>5

LEMMA UploadingOneLess ==
    ASSUME NEW from, IsFiniteSet(from), NEW old \in from, NEW id
    PROVE  /\ IsFiniteSet(from \ {old})
           /\ Uploading(from, id) = Uploading(from \ {old}, id) + Holds({old.id}, id)
<1>1. PICK rest : rest = from \ {old}
  OBVIOUS
<1>2. IsFiniteSet(rest) /\ old \notin rest /\ rest \cup {old} = from
  BY <1>1, FS_RemoveElement
<1> QED BY <1>1, <1>2, UploadingOneMore

LEMMA ArrivingType ==
    ASSUME NEW S, NEW messages \in Seq(S), NEW id
    PROVE  /\ Arriving(messages, id) \in Nat
           /\ IsFiniteSet({i \in DOMAIN messages : messages[i].id = id /\ messages[i].ok})
<1>1. PICK n \in Nat : n = Len(messages)
  OBVIOUS
<1>2. IsFiniteSet(1..n) /\ DOMAIN messages = 1..n
  BY <1>1, FS_Interval
<1>3. {i \in DOMAIN messages : messages[i].id = id /\ messages[i].ok} \in SUBSET (1..n)
  BY <1>2
<1> QED BY <1>2, <1>3, FS_Subset, FS_CardinalityType DEF Arriving

\* The hold a result brings along.
Brings(message, id) == Holds(IF message.ok THEN {message.id} ELSE {}, id)

LEMMA ArrivingOneMore ==
    ASSUME NEW S, NEW messages \in Seq(S), NEW message \in S, NEW id
    PROVE  Arriving(Append(messages, message), id)
             = Arriving(messages, id) + Brings(message, id)
<1>1. PICK n \in Nat : n = Len(messages)
  OBVIOUS
<1>2. PICK after \in Seq(S) : after = Append(messages, message)
  <2>1. Append(messages, message) \in Seq(S)
    OBVIOUS
  <2> QED BY <2>1
<1>3. /\ DOMAIN messages = 1..n /\ DOMAIN after = 1..(n + 1) /\ after[n + 1] = message
      /\ \A i \in 1..n : after[i] = messages[i]
  BY <1>1, <1>2
<1>4. PICK at : at = {i \in DOMAIN messages : messages[i].id = id /\ messages[i].ok}
  OBVIOUS
<1>5. IsFiniteSet(at) /\ Cardinality(at) \in Nat /\ n + 1 \notin at
  <2>1. IsFiniteSet(at)
    BY <1>4, ArrivingType
  <2> QED BY <1>3, <1>4, <2>1, FS_CardinalityType
<1>6. CASE message.id = id /\ message.ok
  <2>1. {i \in DOMAIN after : after[i].id = id /\ after[i].ok} = at \cup {n + 1}
    BY <1>3, <1>4, <1>6
  <2>2. Cardinality(at \cup {n + 1}) = Cardinality(at) + 1
    BY <1>5, FS_AddElement
  <2>3. Brings(message, id) = 1
    BY <1>6 DEF Brings, Holds
  <2> QED BY <1>2, <1>4, <2>1, <2>2, <2>3 DEF Arriving
<1>7. CASE ~(message.id = id /\ message.ok)
  <2>1. {i \in DOMAIN after : after[i].id = id /\ after[i].ok} = at
    BY <1>3, <1>4, <1>7
  <2>2. Brings(message, id) = 0
    BY <1>7 DEF Brings, Holds
  <2>3. Arriving(after, id) = Cardinality(at) /\ Arriving(messages, id) = Cardinality(at)
    BY <1>4, <2>1 DEF Arriving
  <2> QED BY <1>2, <1>5, <2>2, <2>3
<1> QED BY <1>6, <1>7

LEMMA ArrivingOneLess ==
    ASSUME NEW S, NEW messages \in Seq(S), messages # <<>>, NEW id
    PROVE  Arriving(messages, id)
             = Arriving(Tail(messages), id) + Brings(Head(messages), id)
<1>1. PICK n \in Nat : n = Len(messages) /\ n >= 1
  OBVIOUS
<1>2. PICK rest \in Seq(S) : rest = Tail(messages)
  <2>1. Tail(messages) \in Seq(S)
    OBVIOUS
  <2> QED BY <2>1
<1>3. /\ DOMAIN messages = 1..n /\ DOMAIN rest = 1..(n - 1) /\ messages[1] = Head(messages)
      /\ \A i \in 1..(n - 1) : rest[i] = messages[i + 1]
  BY <1>1, <1>2
<1>4. PICK at : at = {i \in DOMAIN rest : rest[i].id = id /\ rest[i].ok}
  OBVIOUS
<1>5. PICK later : later = {i \in 2..n : messages[i].id = id /\ messages[i].ok}
  OBVIOUS
<1>6. IsFiniteSet(at) /\ Cardinality(at) \in Nat
  BY <1>4, ArrivingType, FS_CardinalityType
<1>7. IsFiniteSet(later) /\ Cardinality(later) = Cardinality(at) /\ 1 \notin later
  <2>1. PICK f : f = [i \in at |-> i + 1]
    OBVIOUS
  <2>2. f \in [at -> later]
    <3>1. \A i \in at : f[i] \in later
      BY <1>1, <1>3, <1>4, <1>5, <2>1
    <3> QED BY <2>1, <3>1
  <2>3. \A i, j \in at : f[i] = f[j] => i = j
    BY <1>3, <1>4, <2>1
  <2>4. \A k \in later : \E i \in at : f[i] = k
    <3>1. ASSUME NEW k \in later PROVE k - 1 \in at /\ f[k - 1] = k
      BY <1>1, <1>3, <1>4, <1>5, <2>1
    <3> QED BY <3>1
  <2>5. f \in Bijection(at, later)
    BY <2>2, <2>3, <2>4 DEF Bijection, Injection, Surjection, IsInjective
  <2> QED BY <1>5, <1>6, <2>5, FS_Bijection DEF ExistsBijection
<1>8. CASE messages[1].id = id /\ messages[1].ok
  <2>1. {i \in DOMAIN messages : messages[i].id = id /\ messages[i].ok} = later \cup {1}
    BY <1>1, <1>3, <1>5, <1>8
  <2>2. Cardinality(later \cup {1}) = Cardinality(later) + 1
    BY <1>7, FS_AddElement
  <2>3. Brings(Head(messages), id) = 1
    BY <1>3, <1>8 DEF Brings, Holds
  <2> QED BY <1>2, <1>4, <1>7, <2>1, <2>2, <2>3 DEF Arriving
<1>9. CASE ~(messages[1].id = id /\ messages[1].ok)
  <2>1. {i \in DOMAIN messages : messages[i].id = id /\ messages[i].ok} = later
    BY <1>1, <1>3, <1>5, <1>9
  <2>2. Brings(Head(messages), id) = 0
    BY <1>3, <1>9 DEF Brings, Holds
  <2>3. Arriving(messages, id) = Cardinality(at) /\ Arriving(rest, id) = Cardinality(at)
    BY <1>4, <1>7, <2>1 DEF Arriving
  <2> QED BY <1>2, <1>6, <2>2, <2>3
<1> QED BY <1>8, <1>9
-----------------------------------------------------------------------------
(* What the invariant says of the holds                                    *)

LEMMA RoomKept == RoomOK /\ UNCHANGED room => RoomOK'
BY DEF RoomOK, StartOK, SlotOK, UploadOK, room

LEMMA SlotIds ==
    ASSUME NEW slot, SlotOK(slot)
    PROVE  IdsOf(slot) \subseteq Snapshot
BY DEF SlotOK, IdsOf, World

LEMMA IdsOfWorld ==
    ASSUME NEW id \in Snapshot
    PROVE  SlotOK(World(id, id)) /\ IdsOf(World(id, id)) = {id}
<1>1. World(id, id) \in [id : Snapshot, save : Snapshot] /\ World(id, id).id = id
  BY DEF World
<1>2. World(id, id) # None
  BY <1>1, SavesAssumption
<1> QED BY <1>1, <1>2 DEF SlotOK, IdsOf

LEMMA NoneHeld == IdsOf(None) = {} /\ SlotOK(None) /\ \A id : Holds({}, id) = 0
BY DEF IdsOf, SlotOK, Holds

LEMMA Counts ==
    ASSUME SavesInv, NEW id \in Snapshot
    PROVE  /\ holds[id] \in Nat /\ releasing[id] \in Nat
           /\ Uploading(streams, id) \in Nat /\ Arriving(inbox, id) \in Nat
           /\ HoldersOf(id) \in Nat
           /\ releasing[id] <= HoldersOf(id)
           /\ Uploading(streams, id) <= HoldersOf(id) /\ Arriving(inbox, id) <= HoldersOf(id)
           /\ Holds(IdsOf(current), id) <= HoldersOf(id)
           /\ Holds(IdsOf(previous), id) <= HoldersOf(id)
           /\ Holds(HeldStart, id) <= HoldersOf(id)
<1>1. holds[id] \in Nat /\ releasing[id] \in Nat
  BY DEF SavesInv, TasksOK
<1>2. Uploading(streams, id) \in Nat
  BY UploadingType DEF SavesInv, TasksOK
<1>3. Arriving(inbox, id) \in Nat
  BY ArrivingType DEF SavesInv, TasksOK
<1>4. /\ Holds(IdsOf(current), id) \in 0..1 /\ Holds(IdsOf(previous), id) \in 0..1
      /\ Holds(HeldStart, id) \in 0..1
  BY HoldsType
<1> QED BY <1>1, <1>2, <1>3, <1>4 DEF HoldersOf

\* A step after which every holder that is new has a hold of its own.
LEMMA Balance ==
    ASSUME SavesInv,
           \A id \in Snapshot : /\ HoldersOf(id)' \in Nat /\ holds'[id] \in Nat
                                /\ HoldersOf(id)' + holds[id] = HoldersOf(id) + holds'[id]
    PROVE  Accounted'
<1> SUFFICES ASSUME NEW id \in Snapshot
             PROVE  /\ HoldersOf(id)' <= holds'[id]
                    /\ ~Abrupt => HoldersOf(id)' = holds'[id]
  BY DEF Accounted
<1>1. HoldersOf(id) \in Nat /\ holds[id] \in Nat
  BY Counts
<1>2. HoldersOf(id) <= holds[id] /\ (~Abrupt => HoldersOf(id) = holds[id])
  BY DEF SavesInv, Accounted
<1> QED BY <1>1, <1>2

\* What comes of a slot's world being replaced.
LEMMA Promoting ==
    ASSUME SavesInv, NEW id \in Snapshot, Promote(World(id, id))
    PROVE  /\ SlotOK(current') /\ SlotOK(previous')
           /\ releasing' \in [Snapshot -> Nat]
           /\ IdsOf(current') \cup IdsOf(previous') \subseteq {id} \cup IdsOf(current)
           /\ \A x \in Snapshot :
                Holds(IdsOf(current'), x) + Holds(IdsOf(previous'), x) + releasing'[x]
                = Holds({id}, x) + Holds(IdsOf(current), x) + Holds(IdsOf(previous), x)
                    + releasing[x]
<1>1. SlotOK(current) /\ releasing \in [Snapshot -> Nat]
  BY DEF SavesInv, RoomOK, TasksOK
<1>2. current' = World(id, id) /\ previous' = current
      /\ releasing' = LetGo(releasing, IdsOf(previous))
  BY DEF Promote
<1>3. SlotOK(World(id, id)) /\ IdsOf(World(id, id)) = {id}
  BY IdsOfWorld
<1>4. releasing' \in [Snapshot -> Nat]
      /\ \A x \in Snapshot : releasing'[x] = releasing[x] + Holds(IdsOf(previous), x)
  BY <1>1, <1>2, LetGoAdds
<1>5. IdsOf(current') = {id} /\ IdsOf(previous') = IdsOf(current)
  BY <1>2, <1>3
<1>6. ASSUME NEW x \in Snapshot
      PROVE  Holds(IdsOf(current'), x) + Holds(IdsOf(previous'), x) + releasing'[x]
             = Holds({id}, x) + Holds(IdsOf(current), x) + Holds(IdsOf(previous), x)
                    + releasing[x]
  <2>1. PICK a, b, c : /\ a = Holds({id}, x) /\ b = Holds(IdsOf(current), x)
                       /\ c = Holds(IdsOf(previous), x)
    OBVIOUS
  <2>2. a \in 0..1 /\ b \in 0..1 /\ c \in 0..1 /\ releasing[x] \in Nat
    BY <1>1, <2>1, HoldsType
  <2>3. Holds(IdsOf(current'), x) = a /\ Holds(IdsOf(previous'), x) = b
    BY <1>5, <2>1
  <2>4. releasing'[x] = releasing[x] + c
    BY <1>4, <2>1
  <2> QED BY <2>1, <2>2, <2>3, <2>4
<1> QED BY <1>1, <1>2, <1>3, <1>4, <1>5, <1>6

\* What comes of asking for the next upload.
LEMMA Asking ==
    ASSUME SavesInv, NEW candidates \in Seq(Candidate), AskForUpload(candidates)
    PROVE  /\ upload' = None \/ upload' \in Upload
           /\ SlotOK(current') /\ SlotOK(previous')
           /\ holds' \in [Snapshot -> Nat] /\ releasing' \in [Snapshot -> Nat]
           /\ IdsOf(current') \cup IdsOf(previous') \subseteq IdsOf(current) \cup IdsOf(previous)
           /\ \A x \in Snapshot :
                Holds(IdsOf(current'), x) + Holds(IdsOf(previous'), x) + releasing'[x] + holds[x]
                = Holds(IdsOf(current), x) + Holds(IdsOf(previous), x) + releasing[x] + holds'[x]
<1>1. /\ SlotOK(current) /\ SlotOK(previous)
      /\ holds \in [Snapshot -> Nat] /\ releasing \in [Snapshot -> Nat]
  BY DEF SavesInv, RoomOK, TasksOK
<1>2. PICK kept : kept = {slot.id : slot \in Slots}
  OBVIOUS
<1>3. PICK usable : usable = {i \in DOMAIN candidates :
                      candidates[i].id \in kept \/ member[candidates[i].player] = "linked"}
  OBVIOUS
<1>4. PICK next : next = candidates[Min(usable)]
  OBVIOUS
<1>5. \/ usable = {} /\ upload' = None /\ UNCHANGED <<current, previous, holds, releasing>>
      \/ /\ usable # {} /\ next.id \in kept /\ upload' = None
         /\ holds' = [holds EXCEPT ![next.id] = @ + 1]
         /\ Promote(World(next.id, next.id))
      \/ /\ usable # {}
         /\ upload' = [from |-> next.player, id |-> next.id,
                       rest |-> SubSeq(candidates, Min(usable) + 1, Len(candidates)),
                       receiving |-> FALSE]
         /\ UNCHANGED <<current, previous, holds, releasing>>
  BY <1>2, <1>3, <1>4 DEF AskForUpload
<1>6. ASSUME NEW x \in Snapshot
      PROVE  /\ Holds(IdsOf(current), x) \in 0..1 /\ Holds(IdsOf(previous), x) \in 0..1
             /\ releasing[x] \in Nat /\ holds[x] \in Nat
  BY <1>1, HoldsType
<1>7. usable # {} => Min(usable) \in 1..Len(candidates) /\ next \in Candidate
  <2> SUFFICES ASSUME usable # {} PROVE Min(usable) \in 1..Len(candidates) /\ next \in Candidate
    OBVIOUS
  <2>1. usable \in SUBSET Nat /\ usable \subseteq 1..Len(candidates)
    BY <1>3
  <2>2. PICK k : k = Min(usable)
    OBVIOUS
  <2>3. k \in usable
    BY <2>1, <2>2, Least
  <2>4. k \in 1..Len(candidates) /\ next = candidates[k]
    BY <1>4, <2>1, <2>2, <2>3
  <2>5. candidates[k] \in Candidate
    BY <2>4
  <2> QED BY <2>2, <2>4, <2>5
<1>8. CASE UNCHANGED <<current, previous, holds, releasing>>
  <2>1. current' = current /\ previous' = previous /\ holds' = holds /\ releasing' = releasing
    BY <1>8
  <2>2. upload' = None \/ upload' \in Upload
    <3>1. CASE usable # {} /\ upload' = [from |-> next.player, id |-> next.id,
                          rest |-> SubSeq(candidates, Min(usable) + 1, Len(candidates)),
                          receiving |-> FALSE]
      <4>1. next.player \in Player /\ next.id \in Snapshot
        BY <1>7, <3>1 DEF Candidate
      <4>2. PICK k \in Nat : k = Min(usable) + 1
        BY <1>7, <3>1
      <4>3. PICK rest : rest = SubSeq(candidates, k, Len(candidates))
        OBVIOUS
      <4>4. rest \in Seq(Candidate)
        BY <1>7, <3>1, <4>2, <4>3
      <4> QED BY <3>1, <4>1, <4>2, <4>3, <4>4 DEF Upload
    <3> QED BY <1>5, <3>1
  <2> QED BY <1>1, <1>6, <2>1, <2>2
<1>9. CASE /\ usable # {} /\ next.id \in kept /\ upload' = None
           /\ holds' = [holds EXCEPT ![next.id] = @ + 1]
           /\ Promote(World(next.id, next.id))
  <2>1. next.id \in Snapshot /\ next.id \in IdsOf(current) \cup IdsOf(previous)
    BY <1>2, <1>7, <1>9 DEF Slots, IdsOf, Candidate
  <2>2. PICK w \in Snapshot : w = next.id
    BY <2>1
  <2>3. Promote(World(w, w)) /\ holds' = [holds EXCEPT ![w] = @ + 1]
    BY <1>9, <2>2
  <2>4. /\ SlotOK(current') /\ SlotOK(previous')
        /\ releasing' \in [Snapshot -> Nat]
        /\ IdsOf(current') \cup IdsOf(previous') \subseteq {w} \cup IdsOf(current)
        /\ \A x \in Snapshot :
                Holds(IdsOf(current'), x) + Holds(IdsOf(previous'), x) + releasing'[x]
                = Holds({w}, x) + Holds(IdsOf(current), x) + Holds(IdsOf(previous), x)
                    + releasing[x]
    BY <2>3, Promoting
  <2>5. holds' \in [Snapshot -> Nat] /\ \A x \in Snapshot : holds'[x] = holds[x] + Holds({w}, x)
    BY <1>1, <2>3 DEF Holds
  <2>6. ASSUME NEW x \in Snapshot
        PROVE  Holds(IdsOf(current'), x) + Holds(IdsOf(previous'), x) + releasing'[x] + holds[x]
               = Holds(IdsOf(current), x) + Holds(IdsOf(previous), x) + releasing[x] + holds'[x]
    <3>1. PICK a, b, c, d, e : /\ a = Holds(IdsOf(current'), x)
                               /\ b = Holds(IdsOf(previous'), x)
                               /\ c = Holds({w}, x) /\ d = Holds(IdsOf(current), x)
                               /\ e = Holds(IdsOf(previous), x)
      OBVIOUS
    <3>2. a \in 0..1 /\ b \in 0..1 /\ c \in 0..1 /\ d \in 0..1 /\ e \in 0..1
      BY <3>1, HoldsType
    <3>3. PICK new, old, had \in Nat : new = releasing'[x] /\ old = releasing[x] /\ had = holds[x]
      BY <1>6, <2>4
    <3>4. a + b + new = c + d + e + old
      BY <2>4, <3>1, <3>3
    <3>5. holds'[x] = had + c
      BY <2>5, <3>1, <3>3
    <3>6. a \in Int /\ b \in Int /\ c \in Int /\ d \in Int /\ e \in Int
      BY <3>2
    <3>7. a + b + new + had = d + e + old + (had + c)
      <4> HIDE <3>1, <3>2, <3>3
      <4> QED BY <3>4, <3>6
    <3> QED BY <3>1, <3>3, <3>5, <3>7
  <2> QED BY <1>9, <2>1, <2>2, <2>4, <2>5, <2>6
<1> QED BY <1>5, <1>8, <1>9

-----------------------------------------------------------------------------
(* What every action keeps                                                 *)

LEMMA ToldAppend ==
    ASSUME NEW messages \in Seq(Message), NEW message \in Message
    PROVE  Told(Append(messages, message))
             \subseteq Told(messages) \cup (IF message.ok THEN {message.id} ELSE {})
<1>1. PICK n \in Nat : n = Len(messages)
  OBVIOUS
<1>2. PICK after : after = Append(messages, message)
  OBVIOUS
<1>3. /\ DOMAIN messages = 1..n /\ DOMAIN after = 1..(n + 1) /\ after[n + 1] = message
      /\ \A i \in 1..n : after[i] = messages[i]
  BY <1>1, <1>2
<1>4. \A i \in DOMAIN after : i \in 1..n \/ i = n + 1
  BY <1>3
<1>5. ASSUME NEW i \in DOMAIN after, after[i].ok
      PROVE  after[i].id \in Told(messages) \cup (IF message.ok THEN {message.id} ELSE {})
  BY <1>3, <1>4, <1>5 DEF Told
<1>6. Told(after) \subseteq Told(messages) \cup (IF message.ok THEN {message.id} ELSE {})
  BY <1>5 DEF Told
<1> QED BY <1>2, <1>6

LEMMA ToldTail ==
    ASSUME NEW messages \in Seq(Message), messages # <<>>
    PROVE  /\ Told(Tail(messages)) \subseteq Told(messages)
           /\ Head(messages).ok => Head(messages).id \in Told(messages)
           /\ Head(messages) \in Message /\ Tail(messages) \in Seq(Message)
<1>1. PICK n \in Nat : n = Len(messages) /\ n >= 1
  OBVIOUS
<1>2. PICK rest \in Seq(Message) : rest = Tail(messages)
  <2>1. Tail(messages) \in Seq(Message)
    OBVIOUS
  <2> QED BY <2>1
<1>3. /\ DOMAIN messages = 1..n /\ DOMAIN rest = 1..(n - 1) /\ messages[1] = Head(messages)
      /\ \A i \in 1..(n - 1) : rest[i] = messages[i + 1] /\ i + 1 \in 1..n
  BY <1>1, <1>2
<1>4. 1 \in 1..n
  BY <1>1
<1>5. Told(rest) \subseteq Told(messages)
  BY <1>3 DEF Told
<1>6. messages[1].ok => messages[1].id \in Told(messages)
  BY <1>3, <1>4 DEF Told
<1>7. messages[1] \in Message
  BY <1>1, <1>4
<1> QED BY <1>2, <1>3, <1>5, <1>6, <1>7

LEMMA ToldNone ==
    /\ Told(<<>>) = {}
    /\ \A id : Arriving(<<>>, id) = 0 /\ Uploading({}, id) = 0
    /\ \A q, id : q \in Seq(Message) /\ Arriving(q, id) = 0 => id \notin Told(q)
<1>1. PICK none : none = <<>>
  OBVIOUS
<1>2. none \in Seq(Message) /\ DOMAIN none = {}
  BY <1>1
<1>3. Told(none) = {}
  BY <1>2 DEF Told
<1>4. ASSUME NEW id PROVE Arriving(none, id) = 0 /\ Uploading({}, id) = 0
  <2>1. {i \in DOMAIN none : none[i].id = id /\ none[i].ok} = {}
    BY <1>2
  <2>2. {stream \in {} : stream.id = id} = {}
    OBVIOUS
  <2> QED BY <2>1, <2>2, FS_EmptySet DEF Arriving, Uploading
<1>5. ASSUME NEW q, NEW id, q \in Seq(Message), Arriving(q, id) = 0 PROVE id \notin Told(q)
  <2>1. PICK at : at = {i \in DOMAIN q : q[i].id = id /\ q[i].ok}
    OBVIOUS
  <2>2. IsFiniteSet(at)
    BY <1>5, <2>1, ArrivingType
  <2>3. Cardinality(at) = 0
    BY <1>5, <2>1 DEF Arriving
  <2>4. at = {}
    BY <2>2, <2>3, FS_EmptySet
  <2> QED BY <2>1, <2>4 DEF Told
<1> QED BY <1>1, <1>3, <1>4, <1>5

LEMMA Terms ==
    ASSUME SavesInv, TasksOK', NEW x \in Snapshot
    PROVE  /\ Holds(IdsOf(current), x) \in Int /\ Holds(IdsOf(current'), x) \in 0..1
           /\ Holds(IdsOf(previous), x) \in Int /\ Holds(IdsOf(previous'), x) \in 0..1
           /\ Holds(HeldStart, x) \in Int /\ Holds(HeldStart', x) \in 0..1
           /\ Uploading(streams, x) \in Int /\ Uploading(streams', x) \in Nat
           /\ Arriving(inbox, x) \in Int /\ Arriving(inbox', x) \in Nat
           /\ releasing[x] \in Int /\ releasing'[x] \in Nat
           /\ holds[x] \in Int /\ holds'[x] \in Nat
<1>1. /\ Holds(IdsOf(current), x) \in 0..1 /\ Holds(IdsOf(current'), x) \in 0..1
      /\ Holds(IdsOf(previous), x) \in 0..1 /\ Holds(IdsOf(previous'), x) \in 0..1
      /\ Holds(HeldStart, x) \in 0..1 /\ Holds(HeldStart', x) \in 0..1
  BY HoldsType
<1>2. /\ Uploading(streams, x) \in Nat /\ Arriving(inbox, x) \in Nat
      /\ releasing[x] \in Nat /\ holds[x] \in Nat
  BY Counts
<1>3. /\ inbox' \in Seq(Message) /\ IsFiniteSet(streams')
      /\ holds' \in [Snapshot -> Nat] /\ releasing' \in [Snapshot -> Nat]
  BY DEF TasksOK
<1>4. Uploading(streams', x) \in Nat /\ Arriving(inbox', x) \in Nat
  BY <1>3, UploadingType, ArrivingType
<1> QED BY <1>1, <1>2, <1>3, <1>4

\* A step whose holders' counts come out as the store's do.
LEMMA Books ==
    ASSUME SavesInv, TasksOK',
           \A x \in Snapshot :
              Holds(IdsOf(current'), x) + Holds(IdsOf(previous'), x) + Holds(HeldStart', x)
                + Uploading(streams', x) + Arriving(inbox', x) + releasing'[x] + holds[x]
              = Holds(IdsOf(current), x) + Holds(IdsOf(previous), x) + Holds(HeldStart, x)
                + Uploading(streams, x) + Arriving(inbox, x) + releasing[x] + holds'[x]
    PROVE  Accounted'
<1>1. ASSUME NEW x \in Snapshot
      PROVE  /\ HoldersOf(x)' \in Nat /\ holds'[x] \in Nat
             /\ HoldersOf(x)' + holds[x] = HoldersOf(x) + holds'[x]
  <2>1. /\ Holds(IdsOf(current), x) \in Int /\ Holds(IdsOf(current'), x) \in 0..1
        /\ Holds(IdsOf(previous), x) \in Int /\ Holds(IdsOf(previous'), x) \in 0..1
        /\ Holds(HeldStart, x) \in Int /\ Holds(HeldStart', x) \in 0..1
        /\ Uploading(streams, x) \in Int /\ Uploading(streams', x) \in Nat
        /\ Arriving(inbox, x) \in Int /\ Arriving(inbox', x) \in Nat
        /\ releasing[x] \in Int /\ releasing'[x] \in Nat
        /\ holds[x] \in Int /\ holds'[x] \in Nat
    BY Terms
  <2>2. HoldersOf(x)' = Holds(IdsOf(current'), x) + Holds(IdsOf(previous'), x)
          + Holds(HeldStart', x) + Uploading(streams', x) + Arriving(inbox', x) + releasing'[x]
    BY DEF HoldersOf, Holds, IdsOf, Uploading, Arriving
  <2>3. HoldersOf(x) = Holds(IdsOf(current), x) + Holds(IdsOf(previous), x)
          + Holds(HeldStart, x) + Uploading(streams, x) + Arriving(inbox, x) + releasing[x]
    BY DEF HoldersOf
  <2>4. Holds(IdsOf(current'), x) + Holds(IdsOf(previous'), x) + Holds(HeldStart', x)
                + Uploading(streams', x) + Arriving(inbox', x) + releasing'[x] + holds[x]
              = Holds(IdsOf(current), x) + Holds(IdsOf(previous), x) + Holds(HeldStart, x)
                + Uploading(streams, x) + Arriving(inbox, x) + releasing[x] + holds'[x]
    OBVIOUS
  <2> QED BY <2>1, <2>2, <2>3, <2>4
<1> QED BY <1>1, Balance

\* A step that moves holds between the store and its releases only.
LEMMA Same ==
    ASSUME SavesInv, TasksOK', current' = current, previous' = previous,
           HeldStart' = HeldStart, streams' = streams, inbox' = inbox,
           \A x \in Snapshot : releasing'[x] + holds[x] = releasing[x] + holds'[x]
    PROVE  Accounted'
<1>1. ASSUME NEW x \in Snapshot
      PROVE Holds(IdsOf(current'), x) + Holds(IdsOf(previous'), x) + Holds(HeldStart', x)
                + Uploading(streams', x) + Arriving(inbox', x) + releasing'[x] + holds[x]
              = Holds(IdsOf(current), x) + Holds(IdsOf(previous), x) + Holds(HeldStart, x)
                + Uploading(streams, x) + Arriving(inbox, x) + releasing[x] + holds'[x]
  <2>1. /\ Holds(IdsOf(current), x) \in Int /\ Holds(IdsOf(previous), x) \in Int
        /\ Holds(HeldStart, x) \in Int /\ Uploading(streams, x) \in Int
        /\ Arriving(inbox, x) \in Int /\ releasing[x] \in Int /\ releasing'[x] \in Nat
        /\ holds[x] \in Int /\ holds'[x] \in Nat
    BY Terms
  <2>2. PICK a \in Int : a = Holds(IdsOf(current), x) + Holds(IdsOf(previous), x)
                + Holds(HeldStart, x) + Uploading(streams, x) + Arriving(inbox, x)
    BY <2>1
  <2>3. a + releasing'[x] + holds[x] = a + releasing[x] + holds'[x]
    BY <2>1
  <2> QED BY <2>2, <2>3
<1> QED BY <1>1, Books

-----------------------------------------------------------------------------
(* The store                                                               *)

LEMMA ReleaseOneKeeps ==
    ASSUME SavesInv, NEW id \in Snapshot, ReleaseOne(id)
    PROVE  SavesInv'
<1>1. /\ releasing[id] > 0 /\ releasing' = [releasing EXCEPT ![id] = @ - 1]
      /\ UNCHANGED <<room, inbox, streams, retained, count>>
      /\ dropping' \in {dropping, dropping \cup {id}}
      /\ holds' = [holds EXCEPT ![id] = IF holds[id] > 1 THEN @ - 1 ELSE 0]
  BY DEF ReleaseOne
<1>2. RoomOK /\ TasksOK /\ Retained /\ holds \in [Snapshot -> Nat]
      /\ releasing \in [Snapshot -> Nat]
  BY DEF SavesInv, TasksOK
<1>3. RoomOK'
  BY <1>1, <1>2, RoomKept
<1>4. holds[id] >= 1
  <2>1. HoldersOf(id) <= holds[id]
    BY DEF SavesInv, Accounted
  <2>2. releasing[id] <= HoldersOf(id) /\ HoldersOf(id) \in Nat
    BY Counts
  <2> QED BY <1>1, <1>2, <2>1, <2>2
<1>5. /\ holds' \in [Snapshot -> Nat] /\ releasing' \in [Snapshot -> Nat]
      /\ holds'[id] = holds[id] - 1 /\ releasing'[id] = releasing[id] - 1
      /\ \A x \in Snapshot : x # id => holds'[x] = holds[x] /\ releasing'[x] = releasing[x]
  BY <1>1, <1>2, <1>4
<1>6. TasksOK'
  BY <1>1, <1>2, <1>5 DEF TasksOK
<1>7. /\ current' = current /\ previous' = previous /\ start' = start /\ HeldStart' = HeldStart
      /\ inbox' = inbox /\ streams' = streams /\ retained' = retained
  BY <1>1 DEF room, HeldStart, IsHeld
<1>8. ASSUME NEW x \in Snapshot
      PROVE  releasing'[x] + holds[x] = releasing[x] + holds'[x]
  BY <1>2, <1>5
<1>9. Accounted'
  BY <1>6, <1>7, <1>8, Same
<1>10. Retained'
  BY <1>2, <1>7 DEF Retained
<1> QED BY <1>3, <1>6, <1>9, <1>10 DEF SavesInv

LEMMA DropUnheldKeeps ==
    ASSUME SavesInv, NEW id \in Snapshot, DropUnheld(id)
    PROVE  SavesInv'
<1>1. /\ dropping' = dropping \ {id}
      /\ retained' = IF holds[id] > 0 THEN retained ELSE retained \ {id}
      /\ UNCHANGED <<room, inbox, streams, holds, releasing, count>>
  BY DEF DropUnheld
<1>2. RoomOK /\ TasksOK /\ Retained /\ holds \in [Snapshot -> Nat]
      /\ releasing \in [Snapshot -> Nat]
  BY DEF SavesInv, TasksOK
<1>3. RoomOK'
  BY <1>1, <1>2, RoomKept
<1>4. TasksOK'
  BY <1>1, <1>2 DEF TasksOK
<1>5. /\ current' = current /\ previous' = previous /\ start' = start /\ HeldStart' = HeldStart
      /\ inbox' = inbox /\ streams' = streams /\ holds' = holds /\ releasing' = releasing
  BY <1>1 DEF room, HeldStart, IsHeld
<1>6. ASSUME NEW x \in Snapshot
      PROVE  releasing'[x] + holds[x] = releasing[x] + holds'[x]
  BY <1>5
<1>7. Accounted'
  BY <1>4, <1>5, <1>6, Same
<1>8. ASSUME ~(holds[id] > 0)
      PROVE  id \notin IdsOf(current) \cup IdsOf(previous) \cup HeldStart \cup Told(inbox)
  <2>1. HoldersOf(id) <= holds[id]
    BY DEF SavesInv, Accounted
  <2>2. HoldersOf(id) \in Nat /\ Arriving(inbox, id) <= HoldersOf(id)
        /\ Arriving(inbox, id) \in Nat
        /\ Holds(IdsOf(current), id) <= HoldersOf(id)
        /\ Holds(IdsOf(previous), id) <= HoldersOf(id)
        /\ Holds(HeldStart, id) <= HoldersOf(id)
    BY Counts
  <2>3. HoldersOf(id) = 0
    BY <1>2, <1>8, <2>1, <2>2
  <2>4. /\ Holds(IdsOf(current), id) <= 0 /\ Holds(IdsOf(previous), id) <= 0
        /\ Holds(HeldStart, id) <= 0 /\ Arriving(inbox, id) = 0
    BY <2>2, <2>3
  <2>5. id \notin IdsOf(current) /\ id \notin IdsOf(previous) /\ id \notin HeldStart
    BY <2>4 DEF Holds
  <2>6. inbox \in Seq(Message)
    BY <1>2 DEF TasksOK
  <2>7. id \notin Told(inbox)
    BY <2>4, <2>6, ToldNone
  <2> QED BY <2>5, <2>7
<1>9. Retained'
  <2>1. IdsOf(current) \cup IdsOf(previous) \cup HeldStart \cup Told(inbox) \subseteq retained'
    BY <1>1, <1>2, <1>8 DEF Retained
  <2> QED BY <1>5, <2>1 DEF Retained
<1> QED BY <1>3, <1>4, <1>7, <1>9 DEF SavesInv

-----------------------------------------------------------------------------
(* Uploads                                                                 *)

LEMMA OpenUploadKeeps ==
    ASSUME SavesInv, NEW p \in Player, NEW id \in Snapshot, OpenUpload(p, id)
    PROVE  SavesInv'
<1>1. /\ \A stream \in streams : stream.from # p
      /\ Wanted(p, id)
      /\ IF phase = "lobby" THEN start' = [start EXCEPT !.receiving = TRUE] /\ UNCHANGED upload
         ELSE upload' = [upload EXCEPT !.receiving = TRUE] /\ UNCHANGED start
      /\ holds' = [holds EXCEPT ![id] = @ + 1]
      /\ streams' = streams \cup {[from |-> p, id |-> id]}
      /\ UNCHANGED <<phase, member, round, current, previous, failed, retained, releasing,
                     dropping, inbox, count>>
  BY DEF OpenUpload
<1>2. RoomOK /\ TasksOK /\ Retained /\ StartOK /\ UploadOK
  BY DEF SavesInv, RoomOK
<1>3. IsFiniteSet(streams) /\ streams \subseteq Stream /\ holds \in [Snapshot -> Nat]
  BY <1>2 DEF TasksOK
<1>4. PICK new \in Stream : new = [from |-> p, id |-> id] /\ new.from = p /\ new.id = id
  <2>1. PICK new : new = [from |-> p, id |-> id]
    OBVIOUS
  <2>2. new \in Stream /\ new.from = p /\ new.id = id
    BY <2>1 DEF Stream
  <2> QED BY <2>1, <2>2
<1>5. new \notin streams /\ streams' = streams \cup {new}
  BY <1>1, <1>4
<1>6. TasksOK'
  <2>1. streams' \subseteq Stream /\ IsFiniteSet(streams')
    BY <1>3, <1>4, <1>5, FS_AddElement
  <2>2. holds' \in [Snapshot -> Nat]
    BY <1>1, <1>3
  <2> QED BY <1>1, <1>2, <2>1, <2>2 DEF TasksOK
<1>7. /\ StartOK' /\ HeldStart' = HeldStart /\ (upload = None => upload' = None) /\ UploadOK'
  <2>1. CASE phase = "lobby"
    <3>1. start.is = "Asked" /\ start # None
      BY <1>1, <2>1 DEF Wanted, IsAsked
    <3>2. PICK n \in Snapshot, r \in BOOLEAN :
              start = [is |-> "Asked", id |-> n, save |-> n, from |-> start.from,
                       receiving |-> r]
      BY <1>2, <3>1 DEF StartOK
    <3>3. PICK f : f = start.from
      OBVIOUS
    <3>4. start = [is |-> "Asked", id |-> n, save |-> n, from |-> f, receiving |-> r]
      BY <3>2, <3>3
    <3>5. start' = [is |-> "Asked", id |-> n, save |-> n, from |-> f, receiving |-> TRUE]
      BY <1>1, <2>1, <3>4
    <3>6. start'.is = "Asked" /\ start'.from = f
      BY <3>5
    <3>7. StartOK'
      BY <1>1, <2>1, <3>5, <3>6 DEF StartOK
    <3>8. HeldStart = {} /\ HeldStart' = {}
      BY <3>1, <3>6 DEF HeldStart, IsHeld
    <3> QED BY <1>1, <1>2, <2>1, <3>7, <3>8 DEF UploadOK
  <2>2. CASE phase # "lobby"
    <3>1. upload # None /\ upload \in Upload /\ start' = start /\ phase' = phase
          /\ upload' = [upload EXCEPT !.receiving = TRUE]
      BY <1>1, <1>2, <2>2 DEF Wanted, UploadOK
    <3>2. upload' \in Upload
      BY <3>1 DEF Upload
    <3> QED BY <1>2, <3>1, <3>2 DEF StartOK, UploadOK, HeldStart, IsHeld
  <2> QED BY <2>1, <2>2
<1>8. RoomOK'
  BY <1>1, <1>2, <1>7 DEF RoomOK, SlotOK
<1>9. Accounted'
  <2>1. ASSUME NEW x \in Snapshot
        PROVE Holds(IdsOf(current'), x) + Holds(IdsOf(previous'), x) + Holds(HeldStart', x)
                + Uploading(streams', x) + Arriving(inbox', x) + releasing'[x] + holds[x]
              = Holds(IdsOf(current), x) + Holds(IdsOf(previous), x) + Holds(HeldStart, x)
                + Uploading(streams, x) + Arriving(inbox, x) + releasing[x] + holds'[x]
    <3>1. /\ Holds(IdsOf(current), x) \in Int /\ Holds(IdsOf(previous), x) \in Int
          /\ Holds(HeldStart, x) \in Int /\ Uploading(streams, x) \in Int
          /\ Arriving(inbox, x) \in Int /\ releasing[x] \in Int /\ holds[x] \in Int
      BY <1>6, Terms
    <3>2. PICK h \in 0..1 : h = Holds({id}, x)
      BY HoldsType
    <3>3. Uploading(streams', x) = Uploading(streams, x) + h
      BY <1>3, <1>4, <1>5, <3>2, UploadingOneMore
    <3>4. holds'[x] = holds[x] + h
      BY <1>1, <1>3, <3>2 DEF Holds
    <3>5. current' = current /\ previous' = previous /\ HeldStart' = HeldStart
          /\ inbox' = inbox /\ releasing' = releasing
      BY <1>1, <1>7
    <3>6. PICK a \in Int : a = Holds(IdsOf(current), x) + Holds(IdsOf(previous), x)
                               + Holds(HeldStart, x)
      BY <3>1
    <3>7. a + Uploading(streams', x) + Arriving(inbox, x) + releasing[x] + holds[x]
          = a + Uploading(streams, x) + Arriving(inbox, x) + releasing[x] + holds'[x]
      BY <3>1, <3>3, <3>4
    <3> QED BY <3>5, <3>6, <3>7
  <2> QED BY <1>6, <2>1, Books
<1>10. Retained'
  BY <1>1, <1>2, <1>7 DEF Retained
<1> QED BY <1>6, <1>8, <1>9, <1>10 DEF SavesInv

\* An upload ends, well or not, and its hold passes to its result, or is given
\* back.
LEMMA UploadEnds ==
    ASSUME SavesInv, NEW stream \in streams, streams' = streams \ {stream},
           UNCHANGED <<room, holds, dropping>>,
           NEW message \in Message, message.id = stream.id,
           retained \subseteq retained', retained' \subseteq Snapshot,
           message.ok => message.id \in retained',
           \/ inbox' = Append(inbox, message) /\ releasing' = releasing /\ message.ok
           \/ /\ inbox' = inbox \/ (inbox' = Append(inbox, message) /\ ~message.ok)
              /\ releasing' = LetGo(releasing, {stream.id})
    PROVE  SavesInv'
<1>1. RoomOK /\ TasksOK /\ Retained
  BY DEF SavesInv
<1>2. RoomOK'
  BY <1>1, RoomKept
<1>3. IsFiniteSet(streams) /\ streams \subseteq Stream /\ releasing \in [Snapshot -> Nat]
      /\ inbox \in Seq(Message)
  BY <1>1 DEF TasksOK
<1>4. stream.id \in Snapshot
  BY <1>3 DEF Stream
<1>5. /\ IsFiniteSet(streams')
      /\ \A x \in Snapshot : Uploading(streams, x) = Uploading(streams', x) + Holds({stream.id}, x)
  BY <1>3, UploadingOneLess
<1>6. releasing' \in [Snapshot -> Nat]
  BY <1>3, LetGoAdds
<1>7. inbox' \in Seq(Message)
  <2>1. PICK q \in Seq(Message) : q = Append(inbox, message)
    <3>1. Append(inbox, message) \in Seq(Message)
      BY <1>3
    <3> QED BY <3>1
  <2>2. inbox' = inbox \/ inbox' = q
    BY <2>1
  <2> QED BY <1>3, <2>2
<1>8. TasksOK'
  BY <1>1, <1>3, <1>5, <1>6, <1>7 DEF TasksOK
<1>9. current' = current /\ previous' = previous /\ HeldStart' = HeldStart /\ holds' = holds
  BY DEF room, HeldStart, IsHeld
<1>10. Accounted'
  <2>1. ASSUME NEW x \in Snapshot
        PROVE Holds(IdsOf(current'), x) + Holds(IdsOf(previous'), x) + Holds(HeldStart', x)
                + Uploading(streams', x) + Arriving(inbox', x) + releasing'[x] + holds[x]
              = Holds(IdsOf(current), x) + Holds(IdsOf(previous), x) + Holds(HeldStart, x)
                + Uploading(streams, x) + Arriving(inbox, x) + releasing[x] + holds'[x]
    <3>1. /\ Holds(IdsOf(current), x) \in Int /\ Holds(IdsOf(previous), x) \in Int
          /\ Holds(HeldStart, x) \in Int /\ Uploading(streams', x) \in Nat
          /\ Arriving(inbox, x) \in Int /\ releasing[x] \in Int /\ holds[x] \in Int
      BY <1>8, Terms
    <3>2. PICK h \in 0..1 : h = Holds({stream.id}, x)
      BY HoldsType
    <3>3. Uploading(streams, x) = Uploading(streams', x) + h
      BY <1>5, <3>2
    <3>4. Arriving(inbox', x) + releasing'[x] = Arriving(inbox, x) + releasing[x] + h
      <4>1. inbox' = Append(inbox, message)
              => Arriving(inbox', x) = Arriving(inbox, x) + Brings(message, x)
        BY <1>3, ArrivingOneMore
      <4>2. message.ok => Brings(message, x) = h
        BY <3>2 DEF Brings
      <4>3. ~message.ok => Brings(message, x) = 0
        BY DEF Brings, Holds
      <4>4. releasing' = LetGo(releasing, {stream.id}) => releasing'[x] = releasing[x] + h
        BY <1>3, <3>2, LetGoAdds
      <4>5. CASE inbox' = Append(inbox, message) /\ releasing' = releasing /\ message.ok
        <5>1. Arriving(inbox', x) = Arriving(inbox, x) + h /\ releasing'[x] = releasing[x]
          BY <4>1, <4>2, <4>5
        <5> QED BY <3>1, <5>1
      <4>6. CASE inbox' = inbox /\ releasing' = LetGo(releasing, {stream.id})
        <5>1. Arriving(inbox', x) = Arriving(inbox, x) /\ releasing'[x] = releasing[x] + h
          BY <4>4, <4>6
        <5> QED BY <3>1, <5>1
      <4>7. CASE /\ inbox' = Append(inbox, message) /\ ~message.ok
                 /\ releasing' = LetGo(releasing, {stream.id})
        <5>1. Arriving(inbox', x) = Arriving(inbox, x) + 0 /\ releasing'[x] = releasing[x] + h
          BY <4>1, <4>3, <4>4, <4>7
        <5> QED BY <3>1, <5>1
      <4> QED BY <4>5, <4>6, <4>7
    <3>5. PICK a \in Int : a = Holds(IdsOf(current), x) + Holds(IdsOf(previous), x)
                               + Holds(HeldStart, x)
      BY <3>1
    <3>6. Arriving(inbox', x) \in Nat /\ releasing'[x] \in Nat
      BY <1>8, Terms
    <3>7. a + Uploading(streams', x) + Arriving(inbox', x) + releasing'[x] + holds[x]
          = a + Uploading(streams, x) + Arriving(inbox, x) + releasing[x] + holds[x]
      <4>1. PICK u, n, r, hd \in Int : /\ u = Uploading(streams', x) /\ n = Arriving(inbox, x)
                                       /\ r = releasing[x] /\ hd = holds[x]
        BY <3>1
      <4>2. PICK m, s \in Int : m = Arriving(inbox', x) /\ s = releasing'[x]
        BY <3>6
      <4>3. m + s = n + r + h /\ Uploading(streams, x) = u + h
        BY <3>3, <3>4, <4>1, <4>2
      <4>4. a + u + m + s + hd = a + (u + h) + n + r + hd
        BY <4>3
      <4> QED BY <4>1, <4>2, <4>3, <4>4
    <3> QED BY <1>9, <3>5, <3>7
  <2> QED BY <1>8, <2>1, Books
<1>11. Retained'
  <2>1. Told(inbox') \subseteq retained'
    BY <1>1, <1>3, ToldAppend DEF Retained
  <2> QED BY <1>1, <1>9, <2>1 DEF Retained
<1> QED BY <1>2, <1>8, <1>10, <1>11 DEF SavesInv

LEMMA ArrivesKeeps ==
    ASSUME SavesInv, NEW stream \in streams, Arrives(stream)
    PROVE  SavesInv'
<1>1. stream.from \in Player /\ stream.id \in Snapshot /\ retained \subseteq Snapshot
  BY DEF SavesInv, TasksOK, Stream
<1>2. PICK message : message = [from |-> stream.from, id |-> stream.id, ok |-> TRUE]
  OBVIOUS
<1>3. message \in Message /\ message.id = stream.id /\ message.ok
  BY <1>1, <1>2 DEF Message
<1>4. /\ streams' = streams \ {stream} /\ UNCHANGED <<room, holds, dropping>>
      /\ retained' = retained \cup {stream.id}
      /\ \/ inbox' = Append(inbox, message) /\ releasing' = releasing
         \/ inbox' = inbox /\ releasing' = LetGo(releasing, {stream.id})
  BY <1>2 DEF Arrives, Tell
<1>5. retained \subseteq retained' /\ retained' \subseteq Snapshot /\ message.id \in retained'
  BY <1>1, <1>3, <1>4
<1>6. CASE inbox' = Append(inbox, message) /\ releasing' = releasing
  BY <1>3, <1>4, <1>5, <1>6, UploadEnds
<1>7. CASE inbox' = inbox /\ releasing' = LetGo(releasing, {stream.id})
  <2>1. /\ inbox' = inbox \/ (inbox' = Append(inbox, message) /\ ~message.ok)
        /\ releasing' = LetGo(releasing, {stream.id})
    BY <1>7
  <2> QED BY <1>3, <1>4, <1>5, <2>1, UploadEnds
<1> QED BY <1>4, <1>6, <1>7

LEMMA FailsKeeps ==
    ASSUME SavesInv, NEW stream \in streams, Fails(stream)
    PROVE  SavesInv'
<1>1. stream.from \in Player /\ stream.id \in Snapshot /\ retained \subseteq Snapshot
  BY DEF SavesInv, TasksOK, Stream
<1>2. PICK message : message = [from |-> stream.from, id |-> stream.id, ok |-> FALSE]
  OBVIOUS
<1>3. message \in Message /\ message.id = stream.id /\ ~message.ok
  BY <1>1, <1>2 DEF Message
<1>4. /\ streams' = streams \ {stream} /\ UNCHANGED <<room, holds, dropping>>
      /\ retained' = retained
  BY DEF Fails
<1>5. \/ /\ inbox' = inbox \/ inbox' = Append(inbox, message)
         /\ releasing' = LetGo(releasing, {stream.id})
      \/ inbox' = inbox /\ releasing' = releasing /\ Abrupt
  BY <1>2 DEF Fails, Tell, Says
<1>6. CASE /\ inbox' = inbox \/ inbox' = Append(inbox, message)
           /\ releasing' = LetGo(releasing, {stream.id})
  BY <1>1, <1>3, <1>4, <1>6, UploadEnds
\* Nobody gives its hold back.
<1>7. CASE inbox' = inbox /\ releasing' = releasing /\ Abrupt
  <2>1. RoomOK /\ TasksOK /\ Retained /\ IsFiniteSet(streams)
    BY DEF SavesInv, TasksOK
  <2>2. RoomOK'
    BY <1>4, <2>1, RoomKept
  <2>3. IsFiniteSet(streams')
        /\ \A x \in Snapshot : Uploading(streams, x) = Uploading(streams', x) + Holds({stream.id}, x)
    BY <1>4, <2>1, UploadingOneLess
  <2>4. TasksOK'
    BY <1>4, <1>7, <2>1, <2>3 DEF TasksOK
  <2>5. current' = current /\ previous' = previous /\ HeldStart' = HeldStart /\ holds' = holds
    BY <1>4 DEF room, HeldStart, IsHeld
  <2>6. ASSUME NEW x \in Snapshot PROVE HoldersOf(x)' <= holds'[x]
    <3>1. /\ Holds(IdsOf(current), x) \in Int /\ Holds(IdsOf(previous), x) \in Int
          /\ Holds(HeldStart, x) \in Int /\ Uploading(streams', x) \in Nat
          /\ Arriving(inbox, x) \in Int /\ releasing[x] \in Int /\ holds[x] \in Int
          /\ Uploading(streams, x) \in Int
      BY <2>4, Terms
    <3>2. PICK h \in 0..1 : h = Holds({stream.id}, x)
      BY HoldsType
    <3>3. Uploading(streams, x) = Uploading(streams', x) + h
      BY <2>3, <3>2
    <3>4. HoldersOf(x)' = Holds(IdsOf(current), x) + Holds(IdsOf(previous), x)
          + Holds(HeldStart, x) + Uploading(streams', x) + Arriving(inbox, x) + releasing[x]
      BY <1>7, <2>5 DEF HoldersOf, Holds, IdsOf, Uploading, Arriving
    <3>5. HoldersOf(x) = Holds(IdsOf(current), x) + Holds(IdsOf(previous), x)
          + Holds(HeldStart, x) + Uploading(streams, x) + Arriving(inbox, x) + releasing[x]
      BY DEF HoldersOf
    <3>6. HoldersOf(x) <= holds[x] /\ holds'[x] = holds[x]
      BY <2>5 DEF SavesInv, Accounted
    <3>7. PICK a \in Int : a = Holds(IdsOf(current), x) + Holds(IdsOf(previous), x)
                               + Holds(HeldStart, x)
      BY <3>1
    <3>8. HoldersOf(x)' = a + Uploading(streams', x) + Arriving(inbox, x) + releasing[x]
          /\ HoldersOf(x) = a + Uploading(streams, x) + Arriving(inbox, x) + releasing[x]
      BY <3>4, <3>5, <3>7
    <3> QED BY <3>1, <3>3, <3>6, <3>8
  <2>7. Accounted'
    BY <1>7, <2>6 DEF Accounted
  <2>8. Retained'
    BY <1>4, <1>7, <2>1, <2>5 DEF Retained
  <2> QED BY <2>2, <2>4, <2>7, <2>8 DEF SavesInv
<1> QED BY <1>5, <1>6, <1>7

-----------------------------------------------------------------------------
(* The world the game starts from                                          *)

\* A lobby that gives up the world it holds gives its hold back.
LEMMA StartGoes ==
    ASSUME SavesInv, UNCHANGED <<current, previous, inbox, streams, holds, retained, dropping>>,
           HeldStart' = {},
           \/ releasing' = LetGo(releasing, HeldStart)
           \/ HeldStart = {} /\ releasing' = releasing
    PROVE  TasksOK' /\ Accounted' /\ Retained'
<1>1. TasksOK /\ Retained /\ releasing \in [Snapshot -> Nat]
  BY DEF SavesInv, TasksOK
<1>2. ASSUME NEW x \in Snapshot
      PROVE  releasing'[x] = releasing[x] + Holds(HeldStart, x)
  <2>1. HeldStart = {} => Holds(HeldStart, x) = 0
    BY NoneHeld
  <2> QED BY <1>1, <2>1, LetGoAdds
<1>3. releasing' \in [Snapshot -> Nat]
  BY <1>1, LetGoAdds
<1>4. TasksOK'
  BY <1>1, <1>3 DEF TasksOK
<1>5. Accounted'
  <2>1. ASSUME NEW x \in Snapshot
        PROVE Holds(IdsOf(current'), x) + Holds(IdsOf(previous'), x) + Holds(HeldStart', x)
                + Uploading(streams', x) + Arriving(inbox', x) + releasing'[x] + holds[x]
              = Holds(IdsOf(current), x) + Holds(IdsOf(previous), x) + Holds(HeldStart, x)
                + Uploading(streams, x) + Arriving(inbox, x) + releasing[x] + holds'[x]
    <3>1. /\ Holds(IdsOf(current), x) \in Int /\ Holds(IdsOf(previous), x) \in Int
          /\ Holds(HeldStart, x) \in Int /\ Uploading(streams, x) \in Int
          /\ Arriving(inbox, x) \in Int /\ releasing[x] \in Int /\ holds[x] \in Int
      BY <1>4, Terms
    <3>2. PICK a, h, u, n, r, hd \in Int :
              /\ a = Holds(IdsOf(current), x) + Holds(IdsOf(previous), x)
              /\ h = Holds(HeldStart, x) /\ u = Uploading(streams, x)
              /\ n = Arriving(inbox, x) /\ r = releasing[x] /\ hd = holds[x]
      BY <3>1
    <3>3. Holds(HeldStart', x) = 0 /\ releasing'[x] = r + h
      BY <1>2, <3>2, NoneHeld
    <3>4. a + 0 + u + n + (r + h) + hd = a + h + u + n + r + hd
      BY <3>2
    <3>5. current' = current /\ previous' = previous /\ streams' = streams /\ inbox' = inbox
          /\ holds' = holds
      OBVIOUS
    <3> QED BY <3>2, <3>3, <3>4, <3>5
  <2> QED BY <1>4, <2>1, Books
<1>6. Retained'
  BY <1>1 DEF Retained
<1> QED BY <1>4, <1>5, <1>6

LEMMA NameWorldKeeps ==
    ASSUME SavesInv, NEW id \in Snapshot, NameWorld(id)
    PROVE  SavesInv'
<1>1. RoomOK
  BY DEF SavesInv
<1>2. PICK f : f = Owner
  OBVIOUS
<1>3. /\ phase = "lobby" /\ releasing' = LetGo(releasing, HeldStart)
      /\ start' = [is |-> "Asked", id |-> id, save |-> id, from |-> f, receiving |-> FALSE]
      /\ UNCHANGED <<phase, member, round, upload, current, previous, failed, inbox,
                     streams, holds, retained, dropping>>
  BY <1>2 DEF NameWorld
<1>4. start'.is = "Asked" /\ start'.from = f
  BY <1>3
<1>5. HeldStart' = {}
  BY <1>4 DEF HeldStart, IsHeld
<1>6. StartOK'
  BY <1>3, <1>4 DEF StartOK
<1>7. RoomOK'
  BY <1>1, <1>3, <1>6 DEF RoomOK, SlotOK, UploadOK
<1>8. TasksOK' /\ Accounted' /\ Retained'
  BY <1>3, <1>5, StartGoes
<1> QED BY <1>7, <1>8 DEF SavesInv

LEMMA ClearWorldKeeps ==
    ASSUME SavesInv, ClearWorld \/ ExpireStart
    PROVE  SavesInv'
<1>1. RoomOK
  BY DEF SavesInv
<1>2. /\ start' = None
      /\ \/ releasing' = LetGo(releasing, HeldStart)
         \/ HeldStart = {} /\ releasing' = releasing
      /\ UNCHANGED <<phase, member, round, upload, current, previous, failed, inbox,
                     streams, holds, retained, dropping>>
  BY DEF ClearWorld, ExpireStart, store, HeldStart, IsHeld, IsAsked
<1>3. HeldStart' = {}
  BY <1>2 DEF HeldStart, IsHeld
<1>4. RoomOK'
  BY <1>1, <1>2 DEF RoomOK, StartOK, SlotOK, UploadOK
<1>5. TasksOK' /\ Accounted' /\ Retained'
  BY <1>2, <1>3, StartGoes
<1> QED BY <1>4, <1>5 DEF SavesInv

LEMMA HeldShape ==
    ASSUME StartOK, IsHeld
    PROVE  start.id \in Snapshot /\ start.save = start.id /\ HeldStart = {start.id}
BY DEF StartOK, IsHeld, HeldStart

LEMMA StartKeeps ==
    ASSUME SavesInv, Start
    PROVE  SavesInv'
<1>1. RoomOK /\ TasksOK /\ Retained /\ StartOK
  BY DEF SavesInv, RoomOK
<1>2. /\ phase = "lobby" /\ ~IsAsked /\ phase' = "running" /\ start' = None
      /\ current' = IF IsHeld THEN World(start.id, start.save) ELSE None
      /\ UNCHANGED <<member, round, upload, previous, failed, store, inbox, streams, count>>
  BY DEF Start
<1>3. current = None /\ IdsOf(current) = {}
  BY <1>1, <1>2, NoneHeld DEF RoomOK
<1>4. HeldStart' = {}
  BY <1>2 DEF HeldStart, IsHeld
<1>5. SlotOK(current') /\ IdsOf(current') = HeldStart
  <2>1. CASE IsHeld
    <3>1. PICK w \in Snapshot : w = start.id /\ start.save = w /\ HeldStart = {w}
      BY <1>1, <2>1, HeldShape
    <3>2. current' = World(w, w)
      BY <1>2, <2>1, <3>1
    <3>3. SlotOK(World(w, w)) /\ IdsOf(World(w, w)) = {w}
      BY IdsOfWorld
    <3> QED BY <3>1, <3>2, <3>3
  <2>2. CASE ~IsHeld
    BY <1>2, <2>2, NoneHeld DEF HeldStart
  <2> QED BY <2>1, <2>2
<1>6. RoomOK'
  BY <1>1, <1>2, <1>5 DEF RoomOK, StartOK, SlotOK, UploadOK
<1>7. /\ holds' = holds /\ releasing' = releasing /\ retained' = retained
      /\ dropping' = dropping /\ previous' = previous /\ streams' = streams /\ inbox' = inbox
  BY <1>2 DEF store
<1>8. TasksOK'
  BY <1>1, <1>7 DEF TasksOK
<1>9. Accounted'
  <2>1. ASSUME NEW x \in Snapshot
        PROVE Holds(IdsOf(current'), x) + Holds(IdsOf(previous'), x) + Holds(HeldStart', x)
                + Uploading(streams', x) + Arriving(inbox', x) + releasing'[x] + holds[x]
              = Holds(IdsOf(current), x) + Holds(IdsOf(previous), x) + Holds(HeldStart, x)
                + Uploading(streams, x) + Arriving(inbox, x) + releasing[x] + holds'[x]
    <3>1. /\ Holds(IdsOf(previous), x) \in Int
          /\ Holds(HeldStart, x) \in Int /\ Uploading(streams, x) \in Int
          /\ Arriving(inbox, x) \in Int /\ releasing[x] \in Int /\ holds[x] \in Int
      BY <1>8, Terms
    <3>2. /\ Holds(IdsOf(current), x) = 0 /\ Holds(HeldStart', x) = 0
          /\ Holds(IdsOf(current'), x) = Holds(HeldStart, x)
      BY <1>3, <1>4, <1>5, NoneHeld
    <3>3. PICK a, b, c \in Int :
              /\ a = Holds(IdsOf(previous), x) /\ b = Holds(HeldStart, x)
              /\ c = Uploading(streams, x)
      BY <3>1
    <3>4. PICK n, r, hd \in Int : n = Arriving(inbox, x) /\ r = releasing[x] /\ hd = holds[x]
      BY <3>1
    <3>5. b + a + 0 + c + n + r + hd = 0 + a + b + c + n + r + hd
      BY <3>3, <3>4
    <3> QED BY <1>7, <3>2, <3>3, <3>4, <3>5
  <2> QED BY <1>8, <2>1, Books
<1>10. Retained'
  <2>1. IdsOf(current') \cup IdsOf(previous') \cup HeldStart' \subseteq retained'
        /\ Told(inbox') \subseteq retained'
    BY <1>1, <1>4, <1>5, <1>7 DEF Retained
  <2> QED BY <2>1 DEF Retained
<1> QED BY <1>6, <1>8, <1>9, <1>10 DEF SavesInv

-----------------------------------------------------------------------------
(* The game's saves                                                        *)

\* A step that leaves the store, its tasks, the slots and the lobby's world
\* alone.
LEMMA OnlyRoom ==
    ASSUME SavesInv, RoomOK',
           UNCHANGED <<start, current, previous, store, inbox, streams>>
    PROVE  SavesInv'
<1>1. TasksOK /\ Retained
  BY DEF SavesInv
<1>2. /\ holds' = holds /\ releasing' = releasing /\ HeldStart' = HeldStart
      /\ retained' = retained /\ dropping' = dropping /\ inbox' = inbox /\ streams' = streams
      /\ current' = current /\ previous' = previous
  BY DEF store, HeldStart, IsHeld
<1>3. TasksOK'
  BY <1>1, <1>2 DEF TasksOK
<1>4. Accounted'
  <2>1. \A x \in Snapshot : releasing'[x] + holds[x] = releasing[x] + holds'[x]
    BY <1>2
  <2> QED BY <1>2, <1>3, <2>1, Same
<1>5. Retained'
  BY <1>1, <1>2 DEF Retained
<1> QED BY <1>3, <1>4, <1>5 DEF SavesInv

LEMMA SaveDueKeeps ==
    ASSUME SavesInv, SaveDue
    PROVE  SavesInv'
<1>1. PICK none : none = [p \in {} |-> None]
  OBVIOUS
<1>2. /\ upload = None /\ round' = none
      /\ UNCHANGED <<phase, member, start, upload, current, previous, failed, store, inbox,
                     streams>>
  BY <1>1 DEF SaveDue
<1>3. DOMAIN none = {} /\ Range(none) = {}
  BY <1>1 DEF Range
<1>4. RoomOK
  BY DEF SavesInv
<1>5. RoomOK'
  BY <1>2, <1>3, <1>4 DEF RoomOK, StartOK, SlotOK, UploadOK
<1> QED BY <1>2, <1>5, OnlyRoom

LEMMA ReportKeeps ==
    ASSUME SavesInv, NEW p \in Player, NEW id \in Snapshot, Report(p, id)
    PROVE  SavesInv'
<1>1. PICK after : after = [q \in DOMAIN round \cup {p} |-> IF q = p THEN id ELSE round[q]]
  OBVIOUS
<1>2. /\ round # None /\ round' = after
      /\ UNCHANGED <<phase, member, start, upload, current, previous, failed, store, inbox,
                     streams>>
  BY <1>1 DEF Report
<1>3. RoomOK
  BY DEF SavesInv
<1>4. upload = None /\ DOMAIN round \subseteq Player
      /\ \A q \in DOMAIN round : round[q] \in Snapshot
  BY <1>2, <1>3 DEF RoomOK, Range
<1>5. DOMAIN after \subseteq Player /\ \A q \in DOMAIN after : after[q] \in Snapshot
  BY <1>1, <1>4
<1>6. Range(after) \subseteq Snapshot
  BY <1>5 DEF Range
<1>7. RoomOK'
  BY <1>2, <1>3, <1>4, <1>5, <1>6 DEF RoomOK, StartOK, SlotOK, UploadOK
<1> QED BY <1>2, <1>7, OnlyRoom

\* The room asks for another upload, for whatever reason.
LEMMA AskingKeeps ==
    ASSUME SavesInv, NEW candidates \in Seq(Candidate), AskForUpload(candidates),
           phase = "running", phase' = phase, round' = None,
           member' \in [Player -> {"linked", "away", "gone"}], failed' \subseteq Player,
           UNCHANGED <<start, streams, retained, dropping>>,
           inbox' \in Seq(Message), Told(inbox') \subseteq Told(inbox),
           \A x \in Snapshot : Arriving(inbox', x) = Arriving(inbox, x)
    PROVE  SavesInv'
<1>1. RoomOK /\ TasksOK /\ Retained
  BY DEF SavesInv
<1>2. /\ upload' = None \/ upload' \in Upload
      /\ SlotOK(current') /\ SlotOK(previous')
      /\ holds' \in [Snapshot -> Nat] /\ releasing' \in [Snapshot -> Nat]
      /\ IdsOf(current') \cup IdsOf(previous') \subseteq IdsOf(current) \cup IdsOf(previous)
      /\ \A x \in Snapshot :
           Holds(IdsOf(current'), x) + Holds(IdsOf(previous'), x) + releasing'[x] + holds[x]
           = Holds(IdsOf(current), x) + Holds(IdsOf(previous), x) + releasing[x] + holds'[x]
  BY Asking
<1>3. RoomOK'
  <2>1. StartOK' /\ UploadOK'
    BY <1>1, <1>2 DEF RoomOK, StartOK, UploadOK
  <2>2. SlotOK(current)' /\ SlotOK(previous)'
    BY <1>2 DEF SlotOK
  <2> QED BY <1>1, <2>1, <2>2 DEF RoomOK
<1>4. TasksOK'
  BY <1>1, <1>2 DEF TasksOK
<1>5. HeldStart' = HeldStart /\ streams' = streams /\ retained' = retained
  BY DEF HeldStart, IsHeld
<1>6. Accounted'
  <2>1. ASSUME NEW x \in Snapshot
        PROVE Holds(IdsOf(current'), x) + Holds(IdsOf(previous'), x) + Holds(HeldStart', x)
                + Uploading(streams', x) + Arriving(inbox', x) + releasing'[x] + holds[x]
              = Holds(IdsOf(current), x) + Holds(IdsOf(previous), x) + Holds(HeldStart, x)
                + Uploading(streams, x) + Arriving(inbox, x) + releasing[x] + holds'[x]
    <3>1. /\ Holds(IdsOf(current), x) \in Int /\ Holds(IdsOf(previous), x) \in Int
          /\ Holds(HeldStart, x) \in Int /\ Uploading(streams, x) \in Int
          /\ Arriving(inbox, x) \in Int /\ releasing[x] \in Int /\ holds[x] \in Int
          /\ Holds(IdsOf(current'), x) \in 0..1 /\ Holds(IdsOf(previous'), x) \in 0..1
          /\ releasing'[x] \in Nat /\ holds'[x] \in Nat
      BY <1>4, Terms
    <3>2. PICK a, b, s, t \in Int :
              /\ a = Holds(IdsOf(current), x) /\ b = Holds(IdsOf(previous), x)
              /\ s = Holds(IdsOf(current'), x) /\ t = Holds(IdsOf(previous'), x)
      <4>1. PICK a, b, s, t : /\ a = Holds(IdsOf(current), x) /\ b = Holds(IdsOf(previous), x)
                              /\ s = Holds(IdsOf(current'), x) /\ t = Holds(IdsOf(previous'), x)
        OBVIOUS
      <4>2. a \in Int /\ b \in Int /\ s \in Int /\ t \in Int
        BY <3>1, <4>1
      <4> QED BY <4>1, <4>2
    <3>3. PICK r, rr, hd, hh \in Int :
              r = releasing[x] /\ rr = releasing'[x] /\ hd = holds[x] /\ hh = holds'[x]
      BY <3>1
    <3>4. PICK h, u, n \in Int :
              h = Holds(HeldStart, x) /\ u = Uploading(streams, x) /\ n = Arriving(inbox, x)
      BY <3>1
    <3>5. s + t + rr + hd = a + b + r + hh
      BY <1>2, <3>2, <3>3
    <3>6. s + t + h + u + n + rr + hd = a + b + h + u + n + r + hh
      <4> HIDE <3>2, <3>3, <3>4
      <4> QED BY <3>5
    <3>7. Arriving(inbox', x) = n
      BY <3>4
    <3> QED BY <1>5, <3>2, <3>3, <3>4, <3>6, <3>7
  <2> QED BY <1>4, <2>1, Books
<1>7. Retained'
  BY <1>1, <1>2, <1>5 DEF Retained
<1> QED BY <1>3, <1>4, <1>6, <1>7 DEF SavesInv

LEMMA DecideSaveKeeps ==
    ASSUME SavesInv, DecideSave
    PROVE  SavesInv'
<1>1. RoomOK /\ TasksOK
  BY DEF SavesInv
<1>2. PICK reported : reported = round
  OBVIOUS
<1>3. PICK agreeing \in SUBSET DOMAIN reported : AskForUpload(Candidates(agreeing))
  BY <1>2 DEF DecideSave
<1>4. /\ phase = "running" /\ round # None /\ round' = None
      /\ UNCHANGED <<phase, member, start, failed, inbox, streams, retained, dropping>>
  BY DEF DecideSave
<1>5. DOMAIN reported \subseteq Player /\ Range(reported) \subseteq Snapshot /\ reported # None
  BY <1>1, <1>2, <1>4 DEF RoomOK
<1>6. PICK candidates : candidates = Candidates(agreeing)
  OBVIOUS
<1>7. candidates \in Seq(Candidate)
  BY <1>2, <1>3, <1>5, <1>6, CandidatesSeq
<1>8. AskForUpload(candidates)
  BY <1>3, <1>6
<1>9. /\ member' \in [Player -> {"linked", "away", "gone"}] /\ failed' \subseteq Player
      /\ inbox' = inbox /\ inbox' \in Seq(Message)
  BY <1>1, <1>4 DEF RoomOK, TasksOK
<1> QED BY <1>4, <1>7, <1>8, <1>9, AskingKeeps

LEMMA StalledKeeps ==
    ASSUME SavesInv, Stalled
    PROVE  SavesInv'
<1>1. RoomOK /\ TasksOK
  BY DEF SavesInv
<1>2. /\ phase = "running" /\ upload # None
      /\ failed' = failed \cup {upload.from}
      /\ AskForUpload(upload.rest)
      /\ member' = IF upload.receiving /\ member[upload.from] = "linked"
                   THEN [member EXCEPT ![upload.from] = "away"] ELSE member
      /\ UNCHANGED <<phase, start, round, inbox, streams, retained, dropping>>
  BY DEF Stalled
<1>3. upload.rest \in Seq(Candidate) /\ upload.from \in Player /\ round = None
  BY <1>1, <1>2 DEF RoomOK, UploadOK, Upload
<1>4. member' \in [Player -> {"linked", "away", "gone"}] /\ failed' \subseteq Player
  BY <1>1, <1>2, <1>3 DEF RoomOK
<1>5. inbox' = inbox /\ inbox' \in Seq(Message)
  BY <1>1, <1>2 DEF TasksOK
<1>6. PICK rest \in Seq(Candidate) : rest = upload.rest
  BY <1>3
<1>7. AskForUpload(rest)
  BY <1>2, <1>6
<1> QED BY <1>2, <1>3, <1>4, <1>5, <1>7, AskingKeeps

\* A result the room does not wait for any more: its hold goes back.
LEMMA Unawaited ==
    ASSUME SavesInv, inbox # <<>>, inbox' = Tail(inbox),
           releasing' = LetGo(releasing, IF Head(inbox).ok THEN {Head(inbox).id} ELSE {}),
           UNCHANGED <<room, streams, holds, retained, dropping>>
    PROVE  SavesInv'
<1>1. RoomOK /\ TasksOK /\ Retained
  BY DEF SavesInv
<1>2. RoomOK'
  BY <1>1, RoomKept
<1>3. inbox \in Seq(Message) /\ releasing \in [Snapshot -> Nat]
  BY <1>1 DEF TasksOK
<1>4. inbox' \in Seq(Message) /\ Told(inbox') \subseteq Told(inbox)
  BY <1>3, ToldTail
<1>5. /\ releasing' \in [Snapshot -> Nat]
      /\ \A x \in Snapshot : releasing'[x] = releasing[x] + Brings(Head(inbox), x)
  BY <1>3, LetGoAdds DEF Brings
<1>6. TasksOK'
  BY <1>1, <1>4, <1>5 DEF TasksOK
<1>7. current' = current /\ previous' = previous /\ HeldStart' = HeldStart
  BY DEF room, HeldStart, IsHeld
<1>8. Accounted'
  <2>1. ASSUME NEW x \in Snapshot
        PROVE Holds(IdsOf(current'), x) + Holds(IdsOf(previous'), x) + Holds(HeldStart', x)
                + Uploading(streams', x) + Arriving(inbox', x) + releasing'[x] + holds[x]
              = Holds(IdsOf(current), x) + Holds(IdsOf(previous), x) + Holds(HeldStart, x)
                + Uploading(streams, x) + Arriving(inbox, x) + releasing[x] + holds'[x]
    <3>1. /\ Holds(IdsOf(current), x) \in Int /\ Holds(IdsOf(previous), x) \in Int
          /\ Holds(HeldStart, x) \in Int /\ Uploading(streams, x) \in Int
          /\ releasing[x] \in Int /\ holds[x] \in Int /\ Arriving(inbox', x) \in Nat
      BY <1>6, Terms
    <3>2. PICK a, n, r, hd \in Int :
              /\ a = Holds(IdsOf(current), x) + Holds(IdsOf(previous), x)
                       + Holds(HeldStart, x) + Uploading(streams, x)
              /\ n = Arriving(inbox', x) /\ r = releasing[x] /\ hd = holds[x]
      <4>1. PICK a : a = Holds(IdsOf(current), x) + Holds(IdsOf(previous), x)
                       + Holds(HeldStart, x) + Uploading(streams, x)
        OBVIOUS
      <4>2. a \in Int
        BY <3>1, <4>1
      <4>3. Arriving(inbox', x) \in Int
        BY <3>1
      <4> QED BY <3>1, <4>1, <4>2, <4>3
    <3>3. PICK h \in 0..1 : h = Brings(Head(inbox), x)
      BY HoldsType DEF Brings
    <3>4. Arriving(inbox, x) = n + h
      BY <1>3, <3>2, <3>3, ArrivingOneLess
    <3>5. releasing'[x] = r + h
      BY <1>5, <3>2, <3>3
    <3>6. a + n + (r + h) + hd = a + (n + h) + r + hd
      BY <3>2, <3>3
    <3> QED BY <1>7, <3>2, <3>4, <3>5, <3>6
  <2> QED BY <1>6, <2>1, Books
<1>9. Retained'
  BY <1>1, <1>4, <1>7 DEF Retained
<1> QED BY <1>2, <1>6, <1>8, <1>9 DEF SavesInv

\* A failed upload brings no hold along.
LEMMA Failed ==
    ASSUME TasksOK, inbox # <<>>, ~Head(inbox).ok
    PROVE  /\ Tail(inbox) \in Seq(Message) /\ Told(Tail(inbox)) \subseteq Told(inbox)
           /\ \A x \in Snapshot : Arriving(Tail(inbox), x) = Arriving(inbox, x)
<1>1. inbox \in Seq(Message)
  BY DEF TasksOK
<1>2. Tail(inbox) \in Seq(Message) /\ Told(Tail(inbox)) \subseteq Told(inbox)
  BY <1>1, ToldTail
<1>3. ASSUME NEW x \in Snapshot PROVE Arriving(Tail(inbox), x) = Arriving(inbox, x)
  <2>1. Arriving(Tail(inbox), x) \in Nat
    BY <1>2, ArrivingType
  <2>2. Brings(Head(inbox), x) = 0
    BY DEF Brings, Holds
  <2>3. Arriving(inbox, x) = Arriving(Tail(inbox), x) + 0
    BY <1>1, <2>2, ArrivingOneLess
  <2> QED BY <2>1, <2>3
<1> QED BY <1>2, <1>3

\* In the lobby the result is the world the game starts from.
LEMMA StartArrives ==
    ASSUME SavesInv, phase = "lobby", phase' = phase, inbox # <<>>, inbox' = Tail(inbox),
           Head(inbox).ok, IsAsked, start.id = Head(inbox).id,
           start' = [is |-> "Held", id |-> Head(inbox).id, save |-> start.save],
           UNCHANGED <<member, round, upload, current, previous, failed, streams, holds,
                       retained, releasing, dropping>>
    PROVE  SavesInv'
<1>1. RoomOK /\ TasksOK /\ Retained /\ StartOK
  BY DEF SavesInv, RoomOK
<1>2. inbox \in Seq(Message)
  BY <1>1 DEF TasksOK
<1>3. PICK w \in Snapshot : w = Head(inbox).id /\ w \in Told(inbox)
  BY <1>2, ToldTail DEF Message
<1>4. start.save = w
  <2>1. start.is = "Asked" /\ start # None
    BY DEF IsAsked
  <2>2. PICK n \in Snapshot, r \in BOOLEAN :
              start = [is |-> "Asked", id |-> n, save |-> n, from |-> start.from,
                       receiving |-> r]
    BY <1>1, <2>1 DEF StartOK
  <2>3. PICK f : f = start.from
    OBVIOUS
  <2>4. start = [is |-> "Asked", id |-> n, save |-> n, from |-> f, receiving |-> r]
    BY <2>2, <2>3
  <2> QED BY <1>3, <2>4
<1>5. start' = [is |-> "Held", id |-> w, save |-> w]
  BY <1>3, <1>4
<1>6. start' \in [is : {"Held"}, id : Snapshot, save : Snapshot]
  BY <1>5
<1>7. start' # None
  BY <1>6, SavesAssumption
<1>8. HeldStart' = {w}
  BY <1>5, <1>7 DEF HeldStart, IsHeld
<1>9. HeldStart = {}
  BY DEF HeldStart, IsHeld, IsAsked
<1>10. RoomOK'
  <2>1. StartOK'
    BY <1>5 DEF StartOK
  <2> QED BY <1>1, <2>1 DEF RoomOK, SlotOK, UploadOK
<1>11. inbox' \in Seq(Message) /\ Told(inbox') \subseteq Told(inbox)
  BY <1>2, ToldTail
<1>12. TasksOK'
  BY <1>1, <1>11 DEF TasksOK
<1>13. Accounted'
  <2>1. ASSUME NEW x \in Snapshot
        PROVE Holds(IdsOf(current'), x) + Holds(IdsOf(previous'), x) + Holds(HeldStart', x)
                + Uploading(streams', x) + Arriving(inbox', x) + releasing'[x] + holds[x]
              = Holds(IdsOf(current), x) + Holds(IdsOf(previous), x) + Holds(HeldStart, x)
                + Uploading(streams, x) + Arriving(inbox, x) + releasing[x] + holds'[x]
    <3>1. /\ Holds(IdsOf(current), x) \in Int /\ Holds(IdsOf(previous), x) \in Int
          /\ Uploading(streams, x) \in Int /\ Arriving(inbox', x) \in Nat
          /\ releasing[x] \in Int /\ holds[x] \in Int
      BY <1>12, Terms
    <3>2. PICK h \in 0..1 : h = Holds({w}, x)
      BY HoldsType
    <3>3. PICK n \in Nat : n = Arriving(inbox', x)
      BY <3>1
    <3>4. Arriving(inbox, x) = n + h
      <4>1. Brings(Head(inbox), x) = h
        BY <1>3, <3>2 DEF Brings
      <4> QED BY <1>2, <3>3, <4>1, ArrivingOneLess
    <3>5. Holds(HeldStart', x) = h /\ Holds(HeldStart, x) = 0
      BY <1>8, <1>9, <3>2, NoneHeld
    <3>6. PICK a, u, r, hd \in Int :
              /\ a = Holds(IdsOf(current), x) + Holds(IdsOf(previous), x)
              /\ u = Uploading(streams, x) /\ r = releasing[x] /\ hd = holds[x]
      BY <3>1
    <3>7. a + h + u + n + r + hd = a + 0 + u + (n + h) + r + hd
      BY <3>2, <3>3, <3>6
    <3>8. current' = current /\ previous' = previous /\ streams' = streams
          /\ holds' = holds /\ releasing' = releasing
      OBVIOUS
    <3> QED BY <3>3, <3>4, <3>5, <3>6, <3>7, <3>8
  <2> QED BY <1>12, <2>1, Books
<1>14. Retained'
  <2>1. /\ IdsOf(current') \subseteq retained' /\ IdsOf(previous') \subseteq retained'
        /\ HeldStart' \subseteq retained' /\ Told(inbox') \subseteq retained'
    BY <1>1, <1>3, <1>8, <1>11 DEF Retained
  <2> QED BY <2>1 DEF Retained
<1> QED BY <1>10, <1>12, <1>13, <1>14 DEF SavesInv

\* In the game the result is the save the room asked for.
LEMMA SaveArrives ==
    ASSUME SavesInv, phase = "running", inbox # <<>>, inbox' = Tail(inbox),
           Head(inbox).ok, NEW w \in Snapshot, w = Head(inbox).id,
           Promote(World(w, w)), upload' = None,
           UNCHANGED <<phase, member, start, round, failed, streams, holds, retained, dropping>>
    PROVE  SavesInv'
<1>1. RoomOK /\ TasksOK /\ Retained
  BY DEF SavesInv
<1>2. inbox \in Seq(Message)
  BY <1>1 DEF TasksOK
<1>3. /\ SlotOK(current') /\ SlotOK(previous')
      /\ releasing' \in [Snapshot -> Nat]
      /\ IdsOf(current') \cup IdsOf(previous') \subseteq {w} \cup IdsOf(current)
      /\ \A x \in Snapshot :
           Holds(IdsOf(current'), x) + Holds(IdsOf(previous'), x) + releasing'[x]
           = Holds({w}, x) + Holds(IdsOf(current), x) + Holds(IdsOf(previous), x)
               + releasing[x]
  BY Promoting
<1>4. /\ inbox' \in Seq(Message) /\ Told(inbox') \subseteq Told(inbox)
      /\ w \in Told(inbox)
  BY <1>2, ToldTail
<1>5. RoomOK'
  <2>1. StartOK' /\ UploadOK'
    BY <1>1 DEF RoomOK, StartOK, UploadOK
  <2>2. SlotOK(current)' /\ SlotOK(previous)'
    BY <1>3 DEF SlotOK
  <2> QED BY <1>1, <2>1, <2>2 DEF RoomOK
<1>6. TasksOK'
  BY <1>1, <1>3, <1>4 DEF TasksOK
<1>7. HeldStart' = HeldStart /\ streams' = streams /\ holds' = holds /\ retained' = retained
  BY DEF HeldStart, IsHeld
<1>8. Accounted'
  <2>1. ASSUME NEW x \in Snapshot
        PROVE Holds(IdsOf(current'), x) + Holds(IdsOf(previous'), x) + Holds(HeldStart', x)
                + Uploading(streams', x) + Arriving(inbox', x) + releasing'[x] + holds[x]
              = Holds(IdsOf(current), x) + Holds(IdsOf(previous), x) + Holds(HeldStart, x)
                + Uploading(streams, x) + Arriving(inbox, x) + releasing[x] + holds'[x]
    <3>1. /\ Holds(IdsOf(current), x) \in Int /\ Holds(IdsOf(previous), x) \in Int
          /\ Holds(HeldStart, x) \in Int /\ Uploading(streams, x) \in Int
          /\ Arriving(inbox', x) \in Nat /\ releasing[x] \in Int /\ holds[x] \in Int
          /\ Holds(IdsOf(current'), x) \in 0..1 /\ Holds(IdsOf(previous'), x) \in 0..1
          /\ releasing'[x] \in Nat
      BY <1>6, Terms
    <3>2. PICK h \in 0..1 : h = Holds({w}, x)
      BY HoldsType
    <3>3. Arriving(inbox, x) = Arriving(inbox', x) + h
      <4>1. Brings(Head(inbox), x) = h
        BY <3>2 DEF Brings
      <4> QED BY <1>2, <4>1, ArrivingOneLess
    <3>4. PICK a, b, r, hd \in Int :
              /\ a = Holds(IdsOf(current), x) /\ b = Holds(IdsOf(previous), x)
              /\ r = releasing[x] /\ hd = holds[x]
      BY <3>1
    <3>5. PICK s, t, rr, n \in Int :
              /\ s = Holds(IdsOf(current'), x) /\ t = Holds(IdsOf(previous'), x)
              /\ rr = releasing'[x] /\ n = Arriving(inbox', x)
      <4>1. PICK s, t, rr, n : /\ s = Holds(IdsOf(current'), x) /\ t = Holds(IdsOf(previous'), x)
                               /\ rr = releasing'[x] /\ n = Arriving(inbox', x)
        OBVIOUS
      <4>2. s \in Int /\ t \in Int /\ rr \in Int /\ n \in Int
        BY <3>1, <4>1
      <4> QED BY <4>1, <4>2
    <3>6. PICK g, u \in Int : g = Holds(HeldStart, x) /\ u = Uploading(streams, x)
      BY <3>1
    <3>7. s + t + rr = h + a + b + r
      BY <1>3, <3>2, <3>4, <3>5
    <3>8. s + t + g + u + n + rr + hd = a + b + g + u + (n + h) + r + hd
      <4> HIDE <3>2, <3>4, <3>5, <3>6
      <4> QED BY <3>7
    <3> QED BY <1>7, <3>3, <3>4, <3>5, <3>6, <3>8
  <2> QED BY <1>6, <2>1, Books
<1>9. Retained'
  <2>1. /\ IdsOf(current') \cup IdsOf(previous') \subseteq retained'
        /\ HeldStart' \subseteq retained' /\ Told(inbox') \subseteq retained'
    BY <1>1, <1>3, <1>4, <1>7 DEF Retained
  <2> QED BY <2>1 DEF Retained
<1> QED BY <1>5, <1>6, <1>8, <1>9 DEF SavesInv

\* In the lobby no result of the upload comes: it failed.
LEMMA StartFails ==
    ASSUME SavesInv, start' = None, HeldStart = {}, HeldStart' = {},
           inbox' = Tail(inbox), Tail(inbox) \in Seq(Message),
           Told(Tail(inbox)) \subseteq Told(inbox),
           \A x \in Snapshot : Arriving(Tail(inbox), x) = Arriving(inbox, x),
           UNCHANGED <<phase, member, round, upload, current, previous, failed, streams,
                       holds, retained, releasing, dropping>>
    PROVE  SavesInv'
<1>1. RoomOK /\ TasksOK /\ Retained
  BY DEF SavesInv
<1>2. RoomOK'
  BY <1>1 DEF RoomOK, StartOK, SlotOK, UploadOK
<1>3. TasksOK'
  BY <1>1 DEF TasksOK
<1>4. Accounted'
  <2>1. ASSUME NEW x \in Snapshot
        PROVE Holds(IdsOf(current'), x) + Holds(IdsOf(previous'), x) + Holds(HeldStart', x)
                + Uploading(streams', x) + Arriving(inbox', x) + releasing'[x] + holds[x]
              = Holds(IdsOf(current), x) + Holds(IdsOf(previous), x) + Holds(HeldStart, x)
                + Uploading(streams, x) + Arriving(inbox, x) + releasing[x] + holds'[x]
    <3>1. Arriving(inbox', x) = Arriving(inbox, x)
      OBVIOUS
    <3> QED BY <3>1
  <2> QED BY <1>3, <2>1, Books
<1>5. Retained'
  BY <1>1 DEF Retained
<1> QED BY <1>2, <1>3, <1>4, <1>5 DEF SavesInv

LEMMA UploadedKeeps ==
    ASSUME SavesInv, Uploaded
    PROVE  SavesInv'
<1>1. RoomOK /\ TasksOK
  BY DEF SavesInv
<1>2. PICK message : message = Head(inbox)
  OBVIOUS
<1>3. /\ phase \in {"lobby", "running"} /\ phase # "closed" /\ inbox # <<>>
      /\ inbox' = Tail(inbox)
      /\ IF phase = "lobby" THEN StartUploaded(message) ELSE GameUploaded(message)
      /\ UNCHANGED <<phase, member, round, streams, retained, dropping, count>>
  BY <1>1, <1>2 DEF Uploaded, RoomOK
<1>4. inbox \in Seq(Message) /\ message \in Message /\ message.id \in Snapshot
      /\ message.from \in Player
  BY <1>1, <1>2, <1>3, ToldTail DEF TasksOK, Message
<1>5. CASE phase = "lobby"
  <2>1. StartUploaded(message)
    BY <1>3, <1>5
  <2>2. UNCHANGED <<upload, current, previous, failed, holds>>
    BY <2>1 DEF StartUploaded
  <2>3. CASE IsAsked /\ start.from = message.from /\ start.id = message.id
    <3>1. /\ start' = IF message.ok THEN [is |-> "Held", id |-> message.id, save |-> start.save]
                      ELSE None
          /\ UNCHANGED releasing
      BY <2>1, <2>3 DEF StartUploaded
    <3>2. CASE message.ok
      BY <1>2, <1>3, <1>5, <2>2, <2>3, <3>1, <3>2, StartArrives
    <3>3. CASE ~message.ok
      <4>1. /\ Tail(inbox) \in Seq(Message) /\ Told(Tail(inbox)) \subseteq Told(inbox)
            /\ \A x \in Snapshot : Arriving(Tail(inbox), x) = Arriving(inbox, x)
        BY <1>1, <1>2, <1>3, <3>3, Failed
      <4>2. start' = None
        BY <3>1, <3>3
      <4>3. HeldStart = {} /\ HeldStart' = {}
        BY <2>3, <4>2 DEF HeldStart, IsHeld, IsAsked
      <4> QED BY <1>3, <2>2, <3>1, <4>1, <4>2, <4>3, StartFails
    <3> QED BY <3>2, <3>3
  <2>4. CASE ~(IsAsked /\ start.from = message.from /\ start.id = message.id)
    <3>1. /\ releasing' = LetGo(releasing, IF message.ok THEN {message.id} ELSE {})
          /\ UNCHANGED start
      BY <2>1, <2>4 DEF StartUploaded
    <3>2. UNCHANGED <<room, streams, holds, retained, dropping>>
      BY <1>3, <2>2, <3>1 DEF room
    <3> QED BY <1>2, <1>3, <3>1, <3>2, Unawaited
  <2> QED BY <2>3, <2>4
<1>6. CASE phase = "running"
  <2>1. GameUploaded(message)
    BY <1>3, <1>6
  <2>2. UNCHANGED start
    BY <2>1 DEF GameUploaded
  <2>3. CASE ~Awaited(message)
    <3>1. /\ releasing' = LetGo(releasing, IF message.ok THEN {message.id} ELSE {})
          /\ UNCHANGED <<upload, current, previous, failed, holds>>
      BY <2>1, <2>3 DEF GameUploaded
    <3>2. UNCHANGED <<room, streams, holds, retained, dropping>>
      BY <1>3, <2>2, <3>1 DEF room
    <3> QED BY <1>2, <1>3, <3>1, <3>2, Unawaited
  <2>4. CASE Awaited(message) /\ message.ok
    <3>1. upload' = None /\ Promote(World(message.id, upload.id)) /\ UNCHANGED <<failed, holds>>
      BY <2>1, <2>4 DEF GameUploaded
    <3>2. PICK w \in Snapshot : w = message.id /\ w = upload.id
      BY <1>4, <2>4 DEF Awaited
    <3>3. Promote(World(w, w))
      BY <3>1, <3>2
    <3>4. UNCHANGED <<phase, member, start, round, failed, streams, holds, retained, dropping>>
      BY <1>3, <2>2, <3>1
    <3> QED BY <1>2, <1>3, <1>6, <2>4, <3>1, <3>2, <3>3, <3>4, SaveArrives
  <2>5. CASE Awaited(message) /\ ~message.ok
    <3>1. failed' = failed \cup {message.from} /\ AskForUpload(upload.rest)
      BY <2>1, <2>5 DEF GameUploaded
    <3>2. upload \in Upload /\ round = None
      BY <1>1, <2>5 DEF RoomOK, UploadOK, Awaited
    <3>3. PICK rest \in Seq(Candidate) : rest = upload.rest
      BY <3>2 DEF Upload
    <3>4. AskForUpload(rest)
      BY <3>1, <3>3
    <3>5. /\ Tail(inbox) \in Seq(Message) /\ Told(Tail(inbox)) \subseteq Told(inbox)
          /\ \A x \in Snapshot : Arriving(Tail(inbox), x) = Arriving(inbox, x)
      BY <1>1, <1>2, <1>3, <2>5, Failed
    <3>6. member' \in [Player -> {"linked", "away", "gone"}] /\ failed' \subseteq Player
          /\ round' = None
      BY <1>1, <1>3, <1>4, <3>1, <3>2 DEF RoomOK
    <3>7. /\ inbox' \in Seq(Message) /\ Told(inbox') \subseteq Told(inbox)
          /\ \A x \in Snapshot : Arriving(inbox', x) = Arriving(inbox, x)
          /\ phase' = phase /\ UNCHANGED <<start, streams, retained, dropping>>
      BY <1>3, <2>2, <3>5
    <3> QED BY <1>6, <3>4, <3>6, <3>7, AskingKeeps
  <2> QED BY <2>3, <2>4, <2>5
<1> QED BY <1>3, <1>5, <1>6

-----------------------------------------------------------------------------
(* Players and servers come and go                                         *)

\* The last one out lets go of all the room holds.
LEMMA RoomCloses ==
    ASSUME SavesInv, Abrupt \/ inbox = <<>>,
           current' = None, previous' = None, start' = None, inbox' = <<>>,
           upload' = None, round' = None, phase' = "closed",
           member' \in [Player -> {"linked", "away", "gone"}],
           releasing' = LetGo(LetGo(LetGo(releasing, HeldStart), IdsOf(current)), IdsOf(previous)),
           UNCHANGED <<failed, streams, holds, retained, dropping>>
    PROVE  SavesInv'
<1>1. RoomOK /\ TasksOK /\ Retained
  BY DEF SavesInv
<1>2. RoomOK'
  BY <1>1 DEF RoomOK, StartOK, SlotOK, UploadOK
<1>3. releasing \in [Snapshot -> Nat] /\ IsFiniteSet(streams)
  BY <1>1 DEF TasksOK
<1>4. PICK one : one = LetGo(releasing, HeldStart)
  OBVIOUS
<1>5. one \in [Snapshot -> Nat] /\ \A x \in Snapshot : one[x] = releasing[x] + Holds(HeldStart, x)
  BY <1>3, <1>4, LetGoAdds
<1>6. PICK two : two = LetGo(one, IdsOf(current))
  OBVIOUS
<1>7. two \in [Snapshot -> Nat] /\ \A x \in Snapshot : two[x] = one[x] + Holds(IdsOf(current), x)
  BY <1>5, <1>6, LetGoAdds
<1>8. releasing' = LetGo(two, IdsOf(previous))
  BY <1>4, <1>6
<1>9. releasing' \in [Snapshot -> Nat]
      /\ \A x \in Snapshot : releasing'[x] = two[x] + Holds(IdsOf(previous), x)
  BY <1>7, <1>8, LetGoAdds
<1>10. PICK none : none = <<>>
  OBVIOUS
<1>11. none \in Seq(Message) /\ inbox' = none /\ Told(none) = {}
       /\ \A x : Arriving(none, x) = 0
  <2>1. <<>> \in Seq(Message)
    OBVIOUS
  <2> QED BY <1>10, <2>1, ToldNone
<1>12. TasksOK'
  BY <1>1, <1>9, <1>11 DEF TasksOK
<1>13. HeldStart' = {} /\ IdsOf(current') = {} /\ IdsOf(previous') = {}
  BY NoneHeld DEF HeldStart, IsHeld
<1>14. ASSUME NEW x \in Snapshot
       PROVE  /\ HoldersOf(x)' <= holds'[x]
              /\ ~Abrupt => HoldersOf(x)' = holds'[x]
  <2>1. /\ Holds(IdsOf(current), x) \in Int /\ Holds(IdsOf(previous), x) \in Int
        /\ Holds(HeldStart, x) \in Int /\ Uploading(streams, x) \in Int
        /\ Arriving(inbox, x) \in Int /\ releasing[x] \in Int /\ holds[x] \in Int
    BY <1>12, Terms
  <2>2. PICK a, b, h, u, n, r, hd \in Int :
            /\ a = Holds(IdsOf(current), x) /\ b = Holds(IdsOf(previous), x)
            /\ h = Holds(HeldStart, x) /\ u = Uploading(streams, x)
            /\ n = Arriving(inbox, x) /\ r = releasing[x] /\ hd = holds[x]
    BY <2>1
  <2>3. n >= 0 /\ (~Abrupt => n = 0)
    <3>1. n \in Nat
      BY <2>2, Counts
    <3>2. ~Abrupt => n = 0
      BY <2>2, ToldNone
    <3> QED BY <3>1, <3>2
  <2>4. HoldersOf(x) = a + b + h + u + n + r
    BY <2>2 DEF HoldersOf
  <2>5. HoldersOf(x) <= hd /\ (~Abrupt => HoldersOf(x) = hd)
    BY <2>2 DEF SavesInv, Accounted
  <2>6. releasing'[x] = r + h + a + b
    BY <1>5, <1>7, <1>9, <2>2
  <2>7. HoldersOf(x)' = Holds(IdsOf(current'), x) + Holds(IdsOf(previous'), x)
          + Holds(HeldStart', x) + Uploading(streams, x) + Arriving(none, x) + releasing'[x]
    BY <1>11 DEF HoldersOf, Holds, IdsOf, Uploading, Arriving
  <2>8. Holds(IdsOf(current'), x) = 0 /\ Holds(IdsOf(previous'), x) = 0
        /\ Holds(HeldStart', x) = 0 /\ Arriving(none, x) = 0
    BY <1>11, <1>13, NoneHeld
  <2>9. HoldersOf(x)' = u + (r + h + a + b)
    BY <2>2, <2>6, <2>7, <2>8
  <2>10. holds'[x] = hd
    BY <2>2
  <2>11. a + b + h + u + n + r <= hd
    BY <2>4, <2>5
  <2>12. u + (r + h + a + b) <= hd
    <3> HIDE <2>2
    <3> QED BY <2>3, <2>11
  <2>13. ASSUME ~Abrupt PROVE u + (r + h + a + b) = hd
    <3>1. n = 0 /\ a + b + h + u + n + r = hd
      BY <2>3, <2>4, <2>5, <2>13
    <3> HIDE <2>2
    <3> QED BY <3>1
  <2> QED BY <2>9, <2>10, <2>12, <2>13
<1>15. Accounted'
  BY <1>14 DEF Accounted
<1>16. Retained'
  <2>1. Told(inbox') = {}
    BY <1>11
  <2> QED BY <1>13, <2>1 DEF Retained
<1> QED BY <1>2, <1>12, <1>15, <1>16 DEF SavesInv

LEMMA DepartedKeeps ==
    ASSUME SavesInv, NEW p \in Player, phase # "closed", Departed(p),
           UNCHANGED <<failed, streams, holds, retained, dropping>>
    PROVE  SavesInv'
<1>1. RoomOK
  BY DEF SavesInv
<1>2. member' \in [Player -> {"linked", "away", "gone"}]
  BY <1>1 DEF Departed, RoomOK
<1>3. CASE Staying = {p}
  BY <1>2, <1>3, RoomCloses DEF Departed
<1>4. CASE Staying # {p}
  <2>1. /\ phase' = phase /\ inbox' = inbox
        /\ start' = IF p = Owner THEN None ELSE start
        /\ releasing' = IF p = Owner THEN LetGo(releasing, HeldStart) ELSE releasing
        /\ UNCHANGED <<current, previous, upload, round>>
    BY <1>4 DEF Departed
  <2>2. RoomOK'
    BY <1>1, <1>2, <2>1 DEF RoomOK, StartOK, SlotOK, UploadOK
  <2>3. CASE p = Owner
    <3>1. HeldStart' = {} /\ releasing' = LetGo(releasing, HeldStart)
      BY <2>1, <2>3 DEF HeldStart, IsHeld
    <3>2. TasksOK' /\ Accounted' /\ Retained'
      BY <2>1, <3>1, StartGoes
    <3> QED BY <2>2, <3>2 DEF SavesInv
  <2>4. CASE p # Owner
    BY <2>1, <2>2, <2>4, OnlyRoom DEF store
  <2> QED BY <2>3, <2>4
<1> QED BY <1>3, <1>4

LEMMA LeavesKeeps ==
    ASSUME SavesInv, NEW p \in Player, Leaves(p)
    PROVE  SavesInv'
BY DepartedKeeps DEF Leaves

LEMMA DisconnectedKeeps ==
    ASSUME SavesInv, NEW p \in Player, Disconnected(p)
    PROVE  SavesInv'
<1>1. phase # "closed" /\ UNCHANGED <<failed, streams, holds, retained, dropping>>
  BY DEF Disconnected
<1>2. CASE phase = "lobby"
  BY <1>1, <1>2, DepartedKeeps DEF Disconnected
<1>3. CASE phase # "lobby"
  <2>1. /\ member' = [member EXCEPT ![p] = "away"]
        /\ UNCHANGED <<phase, start, round, upload, current, previous, inbox, releasing>>
    BY <1>3 DEF Disconnected
  <2>2. RoomOK
    BY DEF SavesInv
  <2>3. RoomOK'
    BY <1>1, <2>1, <2>2 DEF RoomOK, StartOK, SlotOK, UploadOK
  <2> QED BY <1>1, <2>1, <2>3, OnlyRoom DEF store
<1> QED BY <1>2, <1>3

LEMMA ReturnsKeeps ==
    ASSUME SavesInv, NEW p \in Player, Returns(p)
    PROVE  SavesInv'
<1>1. /\ member' = [member EXCEPT ![p] = "linked"]
      /\ UNCHANGED <<phase, start, round, upload, current, previous, failed, store, inbox,
                     streams>>
  BY DEF Returns
<1>2. RoomOK
  BY DEF SavesInv
<1>3. RoomOK'
  BY <1>1, <1>2 DEF RoomOK, StartOK, SlotOK, UploadOK
<1> QED BY <1>1, <1>3, OnlyRoom

LEMMA RestartKeeps ==
    ASSUME SavesInv, Restart
    PROVE  SavesInv'
<1>1. RoomOK /\ TasksOK
  BY DEF SavesInv
<1>2. PICK kept \in {slot \in Slots : slot.id \in retained} \cup {None} :
        /\ current' = kept
        /\ retained' = retained \cap IdsOf(kept)
        /\ holds' = [id \in Snapshot |-> IF id \in IdsOf(kept) THEN 1 ELSE 0]
  BY DEF Restart
<1>3. /\ phase = "running" /\ previous' = None /\ round' = None /\ upload' = None
      /\ failed' = {} /\ inbox' = <<>> /\ streams' = {} /\ dropping' = {}
      /\ releasing' = [id \in Snapshot |-> 0]
      /\ member' = [p \in Player |-> IF member[p] = "gone" THEN "gone" ELSE "away"]
      /\ phase' = phase /\ start' = start
  BY DEF Restart
<1>4. SlotOK(kept) /\ IdsOf(kept) \subseteq retained
  BY <1>1, <1>2, NoneHeld DEF Slots, RoomOK, IdsOf
<1>5. member' \in [Player -> {"linked", "away", "gone"}]
  <2>1. \A p \in Player : member'[p] \in {"linked", "away", "gone"}
    BY <1>3
  <2> QED BY <1>3, <2>1
<1>6. start = None
  BY <1>1, <1>3 DEF RoomOK, StartOK
<1>7. RoomOK'
  <2>1. StartOK' /\ UploadOK'
    BY <1>3, <1>6 DEF StartOK, UploadOK
  <2>2. SlotOK(current)' /\ SlotOK(previous)'
    BY <1>2, <1>3, <1>4, NoneHeld DEF SlotOK
  <2> QED BY <1>3, <1>5, <2>1, <2>2 DEF RoomOK
<1>8. PICK none : none = <<>>
  OBVIOUS
<1>9. none \in Seq(Message) /\ inbox' = none /\ Told(none) = {}
      /\ \A x : Arriving(none, x) = 0 /\ Uploading({}, x) = 0
  <2>1. <<>> \in Seq(Message)
    OBVIOUS
  <2> QED BY <1>3, <1>8, <2>1, ToldNone
<1>10. holds' \in [Snapshot -> Nat] /\ releasing' \in [Snapshot -> Nat]
  BY <1>2, <1>3
<1>11. TasksOK'
  BY <1>1, <1>2, <1>3, <1>9, <1>10, FS_EmptySet DEF TasksOK
<1>12. HeldStart' = {} /\ IdsOf(current') = IdsOf(kept) /\ IdsOf(previous') = {}
  BY <1>2, <1>3, <1>6, NoneHeld DEF HeldStart, IsHeld
<1>13. ASSUME NEW x \in Snapshot PROVE HoldersOf(x)' = holds'[x] /\ holds'[x] \in Nat
  <2>1. HoldersOf(x)' = Holds(IdsOf(current'), x) + Holds(IdsOf(previous'), x)
          + Holds(HeldStart', x) + Uploading({}, x) + Arriving(none, x) + releasing'[x]
    BY <1>3, <1>9 DEF HoldersOf, Holds, IdsOf, Uploading, Arriving
  <2>2. PICK h \in 0..1 : h = Holds(IdsOf(kept), x)
    BY HoldsType
  <2>3. Holds(IdsOf(current'), x) = h /\ Holds(IdsOf(previous'), x) = 0
        /\ Holds(HeldStart', x) = 0 /\ Uploading({}, x) = 0 /\ Arriving(none, x) = 0
    BY <1>9, <1>12, <2>2, NoneHeld
  <2>4. releasing'[x] = 0
    BY <1>3
  <2>5. holds'[x] = h
    BY <1>2, <2>2 DEF Holds
  <2> QED BY <2>1, <2>2, <2>3, <2>4, <2>5
<1>14. Accounted'
  <2>1. ASSUME NEW x \in Snapshot
        PROVE  HoldersOf(x)' <= holds'[x] /\ (~Abrupt => HoldersOf(x)' = holds'[x])
    <3>1. HoldersOf(x)' = holds'[x] /\ holds'[x] \in Nat
      BY <1>13
    <3> QED BY <3>1
  <2> QED BY <2>1 DEF Accounted
<1>15. Retained'
  <2>1. Told(inbox') = {}
    BY <1>9
  <2>2. IdsOf(current') \subseteq retained'
    BY <1>2, <1>4, <1>12
  <2> QED BY <1>12, <2>1, <2>2 DEF Retained
<1> QED BY <1>7, <1>11, <1>14, <1>15 DEF SavesInv

-----------------------------------------------------------------------------
(* The theorems                                                            *)

LEMMA Initially == Init => SavesInv
<1> SUFFICES ASSUME Init PROVE SavesInv
  OBVIOUS
<1>1. RoomOK
  BY NoneHeld DEF Init, RoomOK, StartOK, UploadOK
<1>2. PICK none : none = <<>>
  OBVIOUS
<1>3. none \in Seq(Message) /\ inbox = none /\ Told(none) = {}
      /\ \A x : Arriving(none, x) = 0 /\ Uploading({}, x) = 0
  <2>1. <<>> \in Seq(Message)
    OBVIOUS
  <2> QED BY <1>2, <2>1, ToldNone DEF Init
<1>4. TasksOK
  BY <1>3, FS_EmptySet DEF Init, TasksOK
<1>5. HeldStart = {} /\ IdsOf(current) = {} /\ IdsOf(previous) = {}
  BY NoneHeld DEF Init, HeldStart, IsHeld
<1>6. Accounted
  <2>1. ASSUME NEW x \in Snapshot PROVE HoldersOf(x) = 0 /\ holds[x] = 0
    <3>1. Holds(IdsOf(current), x) = 0 /\ Holds(IdsOf(previous), x) = 0
          /\ Holds(HeldStart, x) = 0 /\ Uploading(streams, x) = 0 /\ Arriving(inbox, x) = 0
          /\ releasing[x] = 0 /\ holds[x] = 0
      BY <1>3, <1>5, NoneHeld DEF Init
    <3> QED BY <3>1 DEF HoldersOf
  <2>2. \A x \in Snapshot : HoldersOf(x) <= holds[x] /\ (~Abrupt => HoldersOf(x) = holds[x])
    BY <2>1
  <2> QED BY <2>2 DEF Accounted
<1>7. Retained
  BY <1>3, <1>5 DEF Retained
<1> QED BY <1>1, <1>4, <1>6, <1>7 DEF SavesInv

LEMMA Inductively == SavesInv /\ [Next]_vars => SavesInv'
<1> SUFFICES ASSUME SavesInv, [Next]_vars PROVE SavesInv'
  OBVIOUS
<1>1. CASE \E id \in Snapshot : ReleaseOne(id) \/ DropUnheld(id) \/ NameWorld(id)
  BY <1>1, ReleaseOneKeeps, DropUnheldKeeps, NameWorldKeeps
<1>2. CASE \E p \in Player, id \in Snapshot : OpenUpload(p, id) \/ Report(p, id)
  BY <1>2, OpenUploadKeeps, ReportKeeps
<1>3. CASE \E stream \in streams : Arrives(stream) \/ Fails(stream)
  BY <1>3, ArrivesKeeps, FailsKeeps
<1>4. CASE ClearWorld \/ ExpireStart \/ Start
  BY <1>4, ClearWorldKeeps, StartKeeps
<1>5. CASE SaveDue \/ DecideSave \/ Uploaded \/ Stalled
  BY <1>5, SaveDueKeeps, DecideSaveKeeps, UploadedKeeps, StalledKeeps
<1>6. CASE \E p \in Player : Leaves(p) \/ Disconnected(p) \/ Returns(p)
  BY <1>6, LeavesKeeps, DisconnectedKeeps, ReturnsKeeps
<1>7. CASE Restart
  BY <1>7, RestartKeeps
<1>8. CASE UNCHANGED vars
  <2>1. RoomOK /\ UNCHANGED room
    BY <1>8 DEF vars, SavesInv
  <2>2. UNCHANGED <<start, current, previous, store, inbox, streams>>
    BY <1>8 DEF vars, room
  <2>3. RoomOK'
    BY <2>1, RoomKept
  <2> QED BY <2>2, <2>3, OnlyRoom
<1> QED BY <1>1, <1>2, <1>3, <1>4, <1>5, <1>6, <1>7, <1>8 DEF Next

\* The room, the store, and the holds between them agree in every state of the
\* room's life, whatever its tasks and players do.
THEOREM HoldsBalance == Spec => []SavesInv
<1>1. Init => SavesInv
  BY Initially
<1>2. SavesInv /\ [Next]_vars => SavesInv'
  BY Inductively
<1> QED BY <1>1, <1>2, PTL DEF Spec

\* Every variable has its type.
THEOREM TypesCorrect == Spec => []TypeOK
<1>1. SavesInv => TypeOK
  <2> SUFFICES ASSUME SavesInv PROVE TypeOK
    OBVIOUS
  <2>1. RoomOK /\ TasksOK
    BY DEF SavesInv
  <2>2. start # None => start.is \in {"Asked", "Held"} /\ start.id \in Snapshot /\ phase = "lobby"
    <3>1. ASSUME start # None, start.is = "Asked" PROVE start.id \in Snapshot
      <4>1. PICK n \in Snapshot, r \in BOOLEAN :
              start = [is |-> "Asked", id |-> n, save |-> n, from |-> start.from,
                       receiving |-> r]
        BY <2>1, <3>1 DEF RoomOK, StartOK
      <4>2. PICK f : f = start.from
        OBVIOUS
      <4>3. start = [is |-> "Asked", id |-> n, save |-> n, from |-> f, receiving |-> r]
        BY <4>1, <4>2
      <4> QED BY <4>3
    <3>2. ASSUME start # None, start.is # "Asked"
          PROVE  start.is = "Held" /\ start.id \in Snapshot
      BY <2>1, <3>2 DEF RoomOK, StartOK
    <3> QED BY <2>1, <3>1, <3>2 DEF RoomOK, StartOK
  <2>3. upload # None => upload.from \in Player /\ upload.id \in Snapshot
    BY <2>1 DEF RoomOK, UploadOK, Upload
  <2>4. Slots \subseteq [id : Snapshot, save : Snapshot]
    BY <2>1 DEF RoomOK, Slots, SlotOK, World
  <2>5. Range(inbox) \subseteq [from : Player, id : Snapshot, ok : BOOLEAN]
    <3>1. inbox \in Seq(Message)
      BY <2>1 DEF TasksOK
    <3>2. \A i \in DOMAIN inbox : inbox[i] \in Message
      BY <3>1
    <3> QED BY <3>2 DEF Range, Message
  <2> QED BY <2>1, <2>2, <2>3, <2>4, <2>5 DEF TypeOK, RoomOK, TasksOK, Stream
<1> QED BY <1>1, HoldsBalance, PTL

\* No hold is leaked and none is given back twice, as long as no connection or
\* room ends with its tasks' work undone.
THEOREM HoldsComeOut == ~Abrupt /\ Spec => []HoldsAccounted
<1>1. SavesInv => (~Abrupt => HoldsAccounted)
  BY DEF SavesInv, Accounted, HoldsAccounted
<1>2. CASE Abrupt
  BY <1>2
<1>3. CASE ~Abrupt
  <2>1. SavesInv => HoldsAccounted
    BY <1>1, <1>3
  <2> QED BY <2>1, HoldsBalance, PTL
<1> QED BY <1>2, <1>3

\* Whatever ends abruptly, no hold is given back twice: the store never counts
\* fewer holds of a snapshot than there are holders.
THEOREM NoneTaken == Spec => [](\A id \in Snapshot : HoldersOf(id) <= holds[id])
<1>1. SavesInv => \A id \in Snapshot : HoldersOf(id) <= holds[id]
  BY DEF SavesInv, Accounted
<1> QED BY <1>1, HoldsBalance, PTL

\* The store keeps every world the room may hand out.
THEOREM WorldsKept == Spec => []KeptWhileUsed
<1>1. SavesInv => KeptWhileUsed
  BY DEF SavesInv, Retained, KeptWhileUsed
<1> QED BY <1>1, HoldsBalance, PTL

\* The room hands out the worlds its players named and reported.
THEOREM WorldsAgreed == Spec => []AgreedWorlds
<1>1. SavesInv => AgreedWorlds
  <2> SUFFICES ASSUME SavesInv PROVE AgreedWorlds
    OBVIOUS
  <2>1. StartOK /\ SlotOK(current) /\ SlotOK(previous)
    BY DEF SavesInv, RoomOK
  <2>2. \A slot \in Slots : slot.id = slot.save
    BY <2>1 DEF Slots, SlotOK, World
  <2>3. IsHeld => start.id = start.save
    BY <2>1, HeldShape
  <2> QED BY <2>2, <2>3 DEF AgreedWorlds
<1> QED BY <1>1, HoldsBalance, PTL

=============================================================================
