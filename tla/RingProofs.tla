----------------------------- MODULE RingProofs -----------------------------
(***************************************************************************)
(* The ring carries frames whole, once and in order, for every capacity,   *)
(* every value its counters wrap at that the capacity divides, and any     *)
(* messages: Ring implements Channel.                                      *)
(*                                                                         *)
(* The invariant RInv says where the frames lie: `start` gives, for every  *)
(* frame pushed and not popped, its distance from the head.  It rests on   *)
(* facts about remainders (ModUnique, ModShift): a counter keeps its place *)
(* when it wraps, and counters less than a capacity apart have different   *)
(* places.                                                                 *)
(***************************************************************************)
EXTENDS Ring, TLAPS

\* Quotient and remainder are unique.
LEMMA ModUnique ==
    ASSUME NEW m \in Nat \ {0}, NEW a \in Int, NEW q \in Int, NEW r \in 0..(m - 1), a = m * q + r
    PROVE  (a % m) = r
<1> DEFINE d == a \div m  s == a % m
<1>1. s \in 0..(m - 1) /\ d \in Int
  OBVIOUS
<1>2. a = m * d + s
  OBVIOUS
<1> HIDE DEF d, s
<1>3. m * (q - d) = s - r
  BY <1>1, <1>2
<1>4. CASE q - d >= 1
  <2>1. m * (q - d) >= m
    BY <1>1, <1>4
  <2> QED BY <2>1, <1>1, <1>3
<1>5. CASE q - d <= -1
  <2>1. m * (q - d) <= -m
    BY <1>1, <1>5
  <2> QED BY <2>1, <1>1, <1>3
<1>6. CASE q - d = 0
  <2>1. s = r
    BY <1>6, <1>3, <1>1
  <2> QED BY <2>1 DEF s
<1> QED BY <1>1, <1>4, <1>5, <1>6

\* A number is a multiple of m and its remainder.
LEMMA ModSplit ==
    ASSUME NEW m \in Nat \ {0}, NEW a \in Int
    PROVE  (a % m) \in 0..(m - 1) /\ \E q \in Int : a = m * q + (a % m)
<1>1. (a % m) \in 0..(m - 1) /\ (a \div m) \in Int /\ a = m * (a \div m) + (a % m)
  OBVIOUS
<1> QED BY <1>1

\* Two numbers with the same remainder have the same remainder after a shift.
LEMMA ModShift ==
    ASSUME NEW m \in Nat \ {0}, NEW a \in Int, NEW b \in Int
    PROVE  (((a % m) + b) % m) = ((a + b) % m)
<1>1. PICK q \in Int : a = m * q + (a % m)
  BY ModSplit
<1>0. a + b \in Int
  OBVIOUS
<1>2. PICK p \in Int : a + b = m * p + ((a + b) % m)
  BY <1>0, ModSplit, Zenon
<1> DEFINE s == a % m  t == (a + b) % m
<1>3. s \in 0..(m - 1) /\ t \in 0..(m - 1)
  BY <1>0, ModSplit, Zenon
<1>4. s + b = m * (p - q) + t
  <2> HIDE DEF s, t
  <2>1. a = m * q + s /\ a + b = m * p + t
    BY <1>1, <1>2 DEF s, t
  <2> QED BY <2>1, <1>3
<1>5. (s + b) % m = t
  <2> HIDE DEF s, t
  <2>1. s + b \in Int /\ p - q \in Int
    BY <1>3
  <2> QED BY <2>1, <1>3, <1>4, ModUnique, Zenon
<1> QED BY <1>5
\* What the proofs use of the assumption on the constants.
LEMMA Params ==
    /\ Capacity \in Nat \ {0} /\ Wrap \in Nat \ {0} /\ Prefix \in Nat \ {0}
    /\ 2 * Capacity <= Wrap
    /\ \A m \in Message : Need(m) \in Nat /\ Need(m) >= Prefix
BY RingAssumption DEF Need

\* A counter's place is its value modulo the capacity, since the capacity
\* divides the value at which counters wrap.
LEMMA PlaceMod ==
    ASSUME NEW a \in Int
    PROVE  Place(a) = (a % Capacity)
<1> USE Params
<1>1. PICK q \in Int : a = Wrap * q + (a % Wrap)
  BY ModSplit
<1>2. PICK k \in Int : Wrap = Capacity * k
  <2>1. Wrap \in Int /\ (Wrap % Capacity) = 0
    BY RingAssumption
  <2>2. PICK k \in Int : Wrap = Capacity * k + (Wrap % Capacity)
    BY <2>1, ModSplit, Zenon
  <2> QED BY <2>1, <2>2
<1> DEFINE s == a % Wrap
<1>3. s \in Int
  BY ModSplit
<1> HIDE DEF s
<1>4. PICK p \in Int : s = Capacity * p + (s % Capacity)
  BY <1>3, ModSplit
<1> DEFINE t == s % Capacity
<1>5. t \in 0..(Capacity - 1)
  BY <1>3, ModSplit
<1>6. s = Capacity * p + t
  BY <1>4
<1> HIDE DEF t
<1>7. a = Capacity * (k * q + p) + t
  <2>1. Wrap * q = Capacity * (k * q)
    BY <1>2
  <2>2. a = Wrap * q + s
    BY <1>1 DEF s
  <2> QED BY <2>1, <2>2, <1>6, <1>5
<1>8. (a % Capacity) = t
  <2>1. k * q + p \in Int
    OBVIOUS
  <2> QED BY <1>5, <1>7, <2>1, ModUnique, Zenon
<1> QED BY <1>8 DEF t, s, Place

\* A place is an index of the buffer.
LEMMA PlaceRange ==
    ASSUME NEW a \in Int
    PROVE  Place(a) \in 0..(Capacity - 1)
BY PlaceMod, ModSplit, Params

\* The place of a counter is that of its value before it wrapped.
LEMMA PlaceWrapped ==
    ASSUME NEW a \in Int, NEW b \in Int
    PROVE  Place((a % Wrap) + b) = Place(a + b)
BY ModShift, Params DEF Place

\* Counters less than a capacity apart have places of their own.
LEMMA PlaceDistinct ==
    ASSUME NEW a \in Int, NEW b \in Int, a < b, b < a + Capacity
    PROVE  Place(a) # Place(b)
<1> USE Params
<1> SUFFICES ASSUME Place(a) = Place(b) PROVE FALSE
  OBVIOUS
<1> DEFINE t == a % Capacity
<1>1. t = (b % Capacity)
  BY PlaceMod
<1>2. PICK q \in Int : a = Capacity * q + t
  BY ModSplit
<1>3. PICK p \in Int : b = Capacity * p + t
  BY <1>1, ModSplit
<1>4. t \in Int
  BY ModSplit
<1> HIDE DEF t
<1>5. b - a = Capacity * (p - q)
  BY <1>2, <1>3, <1>4
<1>6. p - q <= 0 \/ p - q >= 1
  OBVIOUS
<1>7. Capacity * (p - q) <= 0 \/ Capacity * (p - q) >= Capacity
  BY <1>6
<1> QED BY <1>5, <1>7

\* Subtracting a wrapped counter is subtracting the counter.
LEMMA ModShiftDown ==
    ASSUME NEW m \in Nat \ {0}, NEW a \in Int, NEW b \in Int
    PROVE  ((b - (a % m)) % m) = ((b - a) % m)
<1> DEFINE s == a % m
<1>1. PICK q \in Int : a = m * q + s
  BY ModSplit
<1>2. s \in 0..(m - 1)
  BY ModSplit
<1>3. b - a \in Int
  OBVIOUS
<1> DEFINE t == (b - a) % m
<1>4. PICK p \in Int : b - a = m * p + t
  BY <1>3, ModSplit, Zenon
<1>5. t \in 0..(m - 1)
  BY <1>3, ModSplit, Zenon
<1> HIDE DEF s, t
<1>6. b - s = m * (p + q) + t
  BY <1>1, <1>2, <1>4, <1>5
<1>7. b - s \in Int /\ p + q \in Int
  BY <1>2
<1>8. ((b - s) % m) = t
  BY <1>5, <1>6, <1>7, ModUnique, Zenon
<1> QED BY <1>8 DEF s, t

\* A number below m is its own remainder.
LEMMA ModSmall ==
    ASSUME NEW m \in Nat \ {0}, NEW a \in 0..(m - 1)
    PROVE  (a % m) = a
<1>1. a = m * 0 + a /\ a \in Int /\ 0 \in Int
  OBVIOUS
<1> QED BY <1>1, ModUnique, Zenon

\* Where the tail is, as bytes used from the head.
LEMMA UsedIs ==
    ASSUME head \in 0..(Wrap - 1), tail \in 0..(Wrap - 1)
    PROVE  Used \in 0..(Wrap - 1) /\ tail = ((head + Used) % Wrap)
<1> USE Params
<1>1. tail - head \in Int /\ head \in Int
  OBVIOUS
<1>2. Used \in 0..(Wrap - 1)
  BY <1>1, ModSplit, Zenon DEF Used
<1>3. ((((tail - head) % Wrap) + head) % Wrap) = (((tail - head) + head) % Wrap)
  BY <1>1, ModShift, Zenon
<1>4. (tail - head) + head = tail /\ Used + head = head + Used
  BY <1>2
<1>5. (tail % Wrap) = tail
  BY ModSmall
<1> QED BY <1>2, <1>3, <1>4, <1>5 DEF Used

\* What follows the tail follows the used bytes.
LEMMA PlaceTail ==
    ASSUME head \in 0..(Wrap - 1), tail \in 0..(Wrap - 1), NEW i \in Int
    PROVE  Place(tail + i) = Place(head + (Used + i))
<1>1. Used \in Int /\ tail = ((head + Used) % Wrap) /\ head \in Int
  BY UsedIs, Params
<1>2. head + Used \in Int /\ (head + Used) + i = head + (Used + i)
  BY <1>1
<1>3. Place(((head + Used) % Wrap) + i) = Place((head + Used) + i)
  BY <1>2, PlaceWrapped, Zenon
<1> QED BY <1>1, <1>2, <1>3

\* Moving the tail by n uses n bytes more; moving the head, n fewer.
LEMMA UsedGrows ==
    ASSUME head \in 0..(Wrap - 1), tail \in 0..(Wrap - 1), NEW n \in Nat, Used + n < Wrap
    PROVE  ((((tail + n) % Wrap) - head) % Wrap) = Used + n
<1> USE Params
<1>1. tail + n \in Int /\ -head \in Int /\ tail - head \in Int /\ n \in Int
  OBVIOUS
<1>2. ((((tail + n) % Wrap) + (-head)) % Wrap) = (((tail + n) + (-head)) % Wrap)
  BY <1>1, ModShift, Zenon
<1>3. ((((tail - head) % Wrap) + n) % Wrap) = (((tail - head) + n) % Wrap)
  BY <1>1, ModShift, Zenon
<1>4. (tail + n) + (-head) = (tail - head) + n
  OBVIOUS
<1>5. Used + n \in 0..(Wrap - 1)
  BY UsedIs
<1>6. ((Used + n) % Wrap) = Used + n
  BY <1>5, ModSmall
<1> DEFINE z == (tail + n) % Wrap
<1>7. z \in 0..(Wrap - 1)
  BY <1>1, ModSplit, Zenon
<1>8. z + (-head) = z - head
  <2> HIDE DEF z
  <2> QED BY <1>7
<1> QED BY <1>2, <1>3, <1>4, <1>6, <1>8 DEF Used

LEMMA UsedShrinks ==
    ASSUME head \in 0..(Wrap - 1), tail \in 0..(Wrap - 1), NEW n \in Nat, n <= Used
    PROVE  ((tail - ((head + n) % Wrap)) % Wrap) = Used - n
<1> USE Params
<1>1. head + n \in Int /\ tail \in Int /\ tail - head \in Int /\ -n \in Int
  OBVIOUS
<1>2. ((tail - ((head + n) % Wrap)) % Wrap) = ((tail - (head + n)) % Wrap)
  BY <1>1, ModShiftDown, Zenon
<1>3. ((((tail - head) % Wrap) + (-n)) % Wrap) = (((tail - head) + (-n)) % Wrap)
  BY <1>1, ModShift, Zenon
<1>4. (tail - head) + (-n) = tail - (head + n)
  OBVIOUS
<1>5. Used - n \in 0..(Wrap - 1) /\ Used + (-n) = Used - n
  BY UsedIs
<1>6. ((Used - n) % Wrap) = Used - n
  BY <1>5, ModSmall
<1> QED BY <1>2, <1>3, <1>4, <1>5, <1>6 DEF Used
-----------------------------------------------------------------------------
\* The byte j places on from the head.
At(j) == data[Place(head + j)]

RTypeOK ==
    /\ TypeOK
    /\ pop \in {None} \cup [available : 0..Capacity, bytes : Seq(Nat \X Nat)]
    /\ Len(got) <= Len(sent) /\ Used <= Capacity /\ ~torn

\* The frames not popped yet lie one after the other from the head to the
\* tail: start[f] is where frame f begins.
Laid(start) ==
    /\ start[Len(got) + 1] = 0 /\ start[Len(sent) + 1] = Used
    /\ \A f \in (Len(got) + 1)..Len(sent) :
          /\ start[f + 1] = start[f] + Need(sent[f])
          /\ \A k \in 0..(Need(sent[f]) - 1) : At(start[f] + k) = <<f, k>>
    /\ \A f, g \in (Len(got) + 1)..(Len(sent) + 1) : f <= g => start[f] <= start[g]

FramesLaid == \E start \in [(Len(got) + 1)..(Len(sent) + 1) -> 0..Used] : Laid(start)

\* A push under way has the room it needs, and what it wrote is after the tail.
PushOK ==
    push # None =>
        /\ Need(push.msg) <= Capacity - Used /\ push.written <= Need(push.msg)
        /\ Len(sent) < MaxSent
        /\ \A k \in 0..(push.written - 1) : data[Place(tail + k)] = <<Len(sent) + 1, k>>

\* A pop under way has read the beginning of the first frame.
PopOK ==
    pop # None =>
        /\ Len(got) < Len(sent)
        /\ Need(sent[Len(got) + 1]) <= pop.available
        /\ Len(pop.bytes) <= Need(sent[Len(got) + 1])
        /\ \A i \in 1..Len(pop.bytes) : pop.bytes[i] = <<Len(got) + 1, i - 1>>

RInv == RTypeOK /\ FramesLaid /\ PushOK /\ PopOK
-----------------------------------------------------------------------------
\* What the proofs use of the types.
LEMMA Types ==
    ASSUME RTypeOK
    PROVE  /\ head \in 0..(Wrap - 1) /\ tail \in 0..(Wrap - 1)
           /\ head \in Int /\ tail \in Int /\ Used \in 0..Capacity
           /\ sent \in Seq(Message) /\ got \in Seq(Message)
           /\ Len(sent) \in Nat /\ Len(got) \in Nat /\ Len(got) <= Len(sent)
           /\ \A f \in 1..Len(sent) : Need(sent[f]) \in Nat /\ Need(sent[f]) >= Prefix
<1>1. head \in 0..(Wrap - 1) /\ tail \in 0..(Wrap - 1) /\ sent \in Seq(Message)
      /\ got \in Seq(Message)
  BY DEF RTypeOK, TypeOK
<1>2. Used \in 0..Capacity
  BY <1>1, UsedIs, Params DEF RTypeOK
<1> QED BY <1>1, <1>2, Params DEF RTypeOK

\* Where a frame lies.
LEMMA FrameWithin ==
    ASSUME RTypeOK, NEW start \in [(Len(got) + 1)..(Len(sent) + 1) -> 0..Used], Laid(start),
           NEW f \in (Len(got) + 1)..Len(sent)
    PROVE  /\ start[f] \in 0..Used /\ start[f + 1] \in 0..Used
           /\ start[f + 1] = start[f] + Need(sent[f])
           /\ Need(sent[f]) \in Nat /\ Need(sent[f]) >= Prefix
<1>1. f \in (Len(got) + 1)..(Len(sent) + 1) /\ f + 1 \in (Len(got) + 1)..(Len(sent) + 1)
      /\ f \in 1..Len(sent)
  BY Types
<1>2. start[f + 1] = start[f] + Need(sent[f])
  BY DEF Laid
<1> QED BY <1>1, <1>2, Types

\* What the consumer may read stays as it was laid out.
LEMMA LaidSame ==
    ASSUME RTypeOK, FramesLaid, UNCHANGED <<head, tail, sent, got>>,
           \A j \in 0..(Used - 1) : data'[Place(head + j)] = data[Place(head + j)]
    PROVE  FramesLaid'
<1> USE Params
<1>0. Used \in 0..Capacity
  BY Types
<1>1. PICK start \in [(Len(got) + 1)..(Len(sent) + 1) -> 0..Used] : Laid(start)
  BY DEF FramesLaid
<1>2. \A f \in (Len(got) + 1)..Len(sent) : \A k \in 0..(Need(sent[f]) - 1) :
          data'[Place(head + (start[f] + k))] = <<f, k>>
  <2> SUFFICES ASSUME NEW f \in (Len(got) + 1)..Len(sent), NEW k \in 0..(Need(sent[f]) - 1)
               PROVE  data'[Place(head + (start[f] + k))] = <<f, k>>
    OBVIOUS
  <2>1. start[f + 1] \in 0..Used /\ start[f] \in 0..Used
        /\ start[f + 1] = start[f] + Need(sent[f]) /\ Need(sent[f]) \in Nat
    BY <1>1, FrameWithin
  <2>2. start[f] + k \in 0..(Used - 1)
    BY <2>1, <1>0
  <2>3. data[Place(head + (start[f] + k))] = <<f, k>>
    BY <1>1 DEF Laid, At
  <2> QED BY <2>2, <2>3
<1>3. Used' = Used
  BY DEF Used
<1>4. Laid(start)'
  BY <1>0, <1>1, <1>2, <1>3 DEF Laid, At
<1> QED BY <1>1, <1>3, <1>4 DEF FramesLaid

LEMMA InitRInv == Init => RInv
<1> SUFFICES ASSUME Init PROVE RInv
  OBVIOUS
<1> USE Params
<1>1. Used = 0
  <2>1. 0 \in 0..(Wrap - 1) /\ tail - head = 0
    BY DEF Init
  <2>2. (0 % Wrap) = 0
    BY <2>1, ModSmall
  <2> QED BY <2>1, <2>2 DEF Used
<1>2. RTypeOK
  BY <1>1, RingAssumption DEF Init, RTypeOK, TypeOK
<1>3. FramesLaid
  <2> DEFINE start == [f \in 1..1 |-> 0]
  <2>1. Len(got) = 0 /\ Len(sent) = 0
    BY DEF Init
  <2>2. start \in [(Len(got) + 1)..(Len(sent) + 1) -> 0..Used]
    BY <2>1, <1>1
  <2>3. Laid(start)
    BY <2>1, <1>1 DEF Laid
  <2> QED BY <2>2, <2>3 DEF FramesLaid
<1> QED BY <1>2, <1>3 DEF RInv, Init, PushOK, PopOK

LEMMA StartPushKeeps ==
    ASSUME RInv, NEW m \in Message, StartPush(m)
    PROVE  RInv'
<1> USE Types, Params DEF RInv
<1> USE DEF StartPush
<1>0. Used' = Used
  BY DEF Used
<1>1. RTypeOK'
  <2>1. push' \in [msg : Message, written : 0..Capacity]
    OBVIOUS
  <2> QED BY <2>1, <1>0 DEF RTypeOK, TypeOK
<1>2. FramesLaid'
  BY LaidSame
<1>3. PushOK'
  <2>1. push'.msg = m /\ push'.written = 0
    OBVIOUS
  <2> QED BY <2>1, <1>0 DEF PushOK
<1>4. PopOK'
  BY DEF PopOK
<1> QED BY <1>1, <1>2, <1>3, <1>4

LEMMA WriteByteKeeps ==
    ASSUME RInv, WriteByte
    PROVE  RInv'
<1> USE Types, Params
<1>0. RTypeOK /\ FramesLaid /\ PushOK /\ PopOK /\ Used' = Used
  BY DEF RInv, WriteByte, Used
<1> DEFINE w == push.written  m == push.msg  p == Place(tail + w)
<1>1. push \in [msg : Message, written : 0..Capacity] /\ w \in Nat /\ w < Need(m)
      /\ Need(m) <= Capacity - Used /\ Len(sent) < MaxSent
  BY <1>0 DEF WriteByte, RTypeOK, TypeOK, PushOK
<1>2. data' = [data EXCEPT ![p] = <<Len(sent) + 1, w>>]
  BY DEF WriteByte
<1>3. push' = [push EXCEPT !.written = w + 1]
  BY DEF WriteByte
<1>4. UNCHANGED <<head, tail, pop, torn, sent, got>>
  BY DEF WriteByte
<1>5. data \in [0..(Capacity - 1) -> {None} \cup ((1..MaxSent) \X (0..(Capacity - 1)))]
  BY <1>0 DEF RTypeOK, TypeOK
<1>6. p \in 0..(Capacity - 1)
  <2>1. tail + w \in Int
    BY <1>0, <1>1
  <2> QED BY <2>1, PlaceRange, Zenon
<1>7. \A j \in 0..(Used - 1) : data'[Place(head + j)] = data[Place(head + j)]
  <2> SUFFICES ASSUME NEW j \in 0..(Used - 1) PROVE Place(head + j) # p
    BY <1>2, <1>5
  <2>1. p = Place(head + (Used + w))
    BY <1>0, <1>1, PlaceTail
  <2>2. head + j < head + (Used + w) /\ head + (Used + w) < (head + j) + Capacity
        /\ head + j \in Int /\ head + (Used + w) \in Int
    BY <1>0, <1>1
  <2>3. Place(head + j) # Place(head + (Used + w))
    BY <2>2, PlaceDistinct, Zenon
  <2> QED BY <2>1, <2>3
<1>8. RTypeOK'
  <2>1. push' \in [msg : Message, written : 0..Capacity]
    <3>1. w + 1 \in 0..Capacity
      BY <1>0, <1>1
    <3> HIDE DEF w
    <3> QED BY <1>1, <1>3, <3>1
  <2>2. <<Len(sent) + 1, w>> \in (1..MaxSent) \X (0..(Capacity - 1))
    BY <1>0, <1>1, RingAssumption
  <2>3. data' \in [0..(Capacity - 1) -> {None} \cup ((1..MaxSent) \X (0..(Capacity - 1)))]
    BY <1>2, <1>5, <2>2
  <2> QED BY <1>0, <1>4, <2>1, <2>3 DEF RTypeOK, TypeOK
<1>9. FramesLaid'
  BY <1>0, <1>4, <1>7, LaidSame
<1>10. PushOK'
  <2>1. push'.msg = m /\ push'.written = w + 1
    BY <1>1, <1>3
  <2>2. \A k \in 0..w : data'[Place(tail + k)] = <<Len(sent) + 1, k>>
    <3> SUFFICES ASSUME NEW k \in 0..w PROVE data'[Place(tail + k)] = <<Len(sent) + 1, k>>
      OBVIOUS
    <3>1. CASE k = w
      BY <3>1, <1>2, <1>5, <1>6
    <3>2. CASE k < w
      <4>1. tail + k < tail + w /\ tail + w < (tail + k) + Capacity
            /\ tail + k \in Int /\ tail + w \in Int
        BY <3>2, <1>0, <1>1
      <4>2. Place(tail + k) # p
        BY <4>1, PlaceDistinct, Zenon
      <4>3. data[Place(tail + k)] = <<Len(sent) + 1, k>>
        <5>1. k \in 0..(push.written - 1) /\ push # None
          BY <3>2, <1>1 DEF WriteByte
        <5> QED BY <5>1, <1>0 DEF PushOK
      <4>4. data'[Place(tail + k)] = data[Place(tail + k)]
        <5> HIDE DEF p
        <5>1. Place(tail + k) \in 0..(Capacity - 1)
          BY <4>1, PlaceRange
        <5> QED BY <4>2, <5>1, <1>2, <1>5
      <4> QED BY <4>3, <4>4
    <3> QED BY <3>1, <3>2, <1>1
  <2> QED BY <2>1, <2>2, <1>0, <1>1, <1>4 DEF PushOK
<1>11. PopOK'
  BY <1>0, <1>4 DEF PopOK
<1> QED BY <1>8, <1>9, <1>10, <1>11 DEF RInv

LEMMA PublishKeeps ==
    ASSUME RInv, Publish
    PROVE  RInv'
<1> USE Params
<1> DEFINE m == push.msg  n == Need(push.msg)  S == Len(sent)  G == Len(got)  u == Used
<1>0. /\ RTypeOK /\ FramesLaid /\ PushOK /\ PopOK /\ head \in Int /\ tail \in Int
      /\ head \in 0..(Wrap - 1) /\ tail \in 0..(Wrap - 1) /\ u \in 0..Capacity
      /\ S \in Nat /\ G \in Nat /\ G <= S /\ sent \in Seq(Message)
      /\ \A f \in 1..S : Need(sent[f]) \in Nat
  BY Types DEF RInv
<1>1. /\ push \in [msg : Message, written : 0..Capacity] /\ m \in Message /\ n \in Nat
      /\ push.written = n /\ push # None /\ n <= Capacity - u /\ S < MaxSent
  BY <1>0 DEF Publish, RTypeOK, TypeOK, PushOK
<1>2. tail' = ((tail + n) % Wrap) /\ sent' = Append(sent, m) /\ push' = None
      /\ UNCHANGED <<head, data, pop, torn, got>>
  BY <1>1 DEF Publish
<1>3. Len(sent') = S + 1 /\ sent' \in Seq(Message) /\ sent'[S + 1] = m
      /\ \A f \in 1..S : sent'[f] = sent[f]
  BY <1>0, <1>1, <1>2
<1>4. Used' = u + n
  <2>1. u + n < Wrap
    BY <1>0, <1>1
  <2>2. Used' = ((((tail + n) % Wrap) - head) % Wrap)
    BY <1>2 DEF Used
  <2> QED BY <2>1, <2>2, <1>0, <1>1, UsedGrows
<1>5. RTypeOK'
  <2>1. tail + n \in Int
    BY <1>0, <1>1
  <2>2. tail' \in 0..(Wrap - 1)
    BY <1>2, <2>1, ModSplit, Zenon
  <2>3. Len(got') <= Len(sent') /\ Used' <= Capacity
    <3> HIDE DEF n, u
    <3> QED BY <1>0, <1>1, <1>2, <1>3, <1>4
  <2>4. TypeOK'
    BY <1>0, <1>2, <1>3, <2>2 DEF RTypeOK, TypeOK
  <2> QED BY <1>0, <1>2, <2>3, <2>4 DEF RTypeOK
<1>6. FramesLaid'
  <2>1. PICK start \in [(G + 1)..(S + 1) -> 0..u] : Laid(start)
    BY <1>0 DEF FramesLaid
  <2>a. start[G + 1] = 0 /\ start[S + 1] = u
    BY <2>1 DEF Laid
  <2>b. \A f \in (G + 1)..S :
          /\ start[f + 1] = start[f] + Need(sent[f])
          /\ \A k \in 0..(Need(sent[f]) - 1) : data[Place(head + (start[f] + k))] = <<f, k>>
    BY <2>1 DEF Laid, At
  <2>c. \A f, g \in (G + 1)..(S + 1) : f <= g => start[f] <= start[g]
    BY <2>1 DEF Laid
  <2>d. \A k \in 0..(n - 1) : data[Place(head + (u + k))] = <<S + 1, k>>
    <3> SUFFICES ASSUME NEW k \in 0..(n - 1) PROVE data[Place(head + (u + k))] = <<S + 1, k>>
      OBVIOUS
    <3>1. data[Place(tail + k)] = <<S + 1, k>>
      BY <1>0, <1>1 DEF PushOK
    <3>2. k \in Int
      BY <1>1
    <3>3. Place(tail + k) = Place(head + (u + k))
      BY <3>2, <1>0, PlaceTail, Zenon
    <3> QED BY <3>1, <3>3
  <2>1a. PICK new : new = [f \in (G + 1)..(S + 2) |-> IF f = S + 2 THEN u + n ELSE start[f]]
    OBVIOUS
  <2> HIDE DEF n, m, u, S, G
  <2>2. new \in [(G + 1)..(S + 2) -> 0..(u + n)]
    <3> SUFFICES ASSUME NEW f \in (G + 1)..(S + 2), f # S + 2 PROVE start[f] \in 0..(u + n)
      BY <2>1a, <1>0, <1>1
    <3>1. f \in (G + 1)..(S + 1)
      BY <1>0
    <3> QED BY <3>1, <2>1, <1>0, <1>1
  <2>3. \A f \in (G + 1)..(S + 1) : new[f] = start[f] /\ start[f] \in 0..u
    BY <2>1a, <2>1, <1>0
  <2>4. new[S + 2] = u + n
    BY <2>1a, <1>0
  <2>5. new[G + 1] = 0 /\ new[S + 1] = u
    BY <2>a, <2>3, <1>0
  <2>6. ASSUME NEW f \in (G + 1)..(S + 1)
        PROVE  /\ new[f + 1] = new[f] + Need(sent'[f])
               /\ \A k \in 0..(Need(sent'[f]) - 1) : data[Place(head + (new[f] + k))] = <<f, k>>
    <3>1. CASE f <= S
      <4>1. f \in (G + 1)..S /\ f + 1 \in (G + 1)..(S + 1) /\ f \in 1..S
        BY <3>1, <1>0
      <4>2. new[f] = start[f] /\ new[f + 1] = start[f + 1] /\ sent'[f] = sent[f]
        BY <4>1, <2>3, <1>3
      <4>3. Need(sent'[f]) = Need(sent[f])
        BY <4>2
      <4>4. start[f + 1] = start[f] + Need(sent[f])
        BY <4>1, <2>b
      <4>5. \A k \in 0..(Need(sent[f]) - 1) : data[Place(head + (start[f] + k))] = <<f, k>>
        BY <4>1, <2>b
      <4>6. \A k \in 0..(Need(sent'[f]) - 1) : data[Place(head + (new[f] + k))] = <<f, k>>
        BY <4>2, <4>3, <4>5, Zenon
      <4>7. new[f + 1] = new[f] + Need(sent'[f])
        BY <4>2, <4>3, <4>4, Zenon
      <4> QED BY <4>6, <4>7, Zenon
    <3>2. CASE f = S + 1
      <4>1. new[f] = u /\ new[f + 1] = u + n /\ Need(sent'[f]) = n
        <5>1. f + 1 = S + 2
          BY <3>2, <1>0
        <5> QED BY <3>2, <5>1, <2>4, <2>5, <1>3 DEF n, m
      <4>2. \A k \in 0..(Need(sent'[f]) - 1) : data[Place(head + (new[f] + k))] = <<f, k>>
        BY <4>1, <2>d, <3>2, Zenon
      <4>3. new[f + 1] = new[f] + Need(sent'[f])
        BY <4>1, Zenon
      <4> QED BY <4>2, <4>3, Zenon
    <3>3. f <= S \/ f = S + 1
      BY <1>0
    <3> QED BY <3>1, <3>2, <3>3, Zenon
  <2>7. ASSUME NEW f \in (G + 1)..(S + 2), NEW g \in (G + 1)..(S + 2), f <= g
        PROVE  new[f] <= new[g]
    <3>1. CASE g <= S + 1
      <4>1. f \in (G + 1)..(S + 1) /\ g \in (G + 1)..(S + 1)
        BY <3>1, <2>7, <1>0
      <4> QED BY <4>1, <2>3, <2>c, <2>7
    <3>2. CASE g = S + 2 /\ f <= S + 1
      <4>1. f \in (G + 1)..(S + 1)
        BY <3>2, <1>0
      <4>2. new[f] \in 0..u
        BY <4>1, <2>3
      <4> QED BY <4>2, <3>2, <2>4, <1>0, <1>1
    <3>3. CASE f = S + 2
      <4>1. f = g
        BY <3>3, <2>7, <1>0
      <4>2. new[f] \in Int
        BY <3>3, <2>4, <1>0, <1>1
      <4> QED BY <4>1, <4>2
    <3> QED BY <3>1, <3>2, <3>3, <1>0
  <2>8. G' = G /\ S' = S + 1 /\ u' = u + n
    BY <1>2, <1>3, <1>4 DEF G, S, u
  <2>9. (S + 1) + 1 = S + 2 /\ (G' + 1)..(S' + 1) = (G + 1)..(S + 2)
    BY <2>8, <1>0
  <2>10. Laid(new)'
    <3>1. new[Len(got') + 1] = 0 /\ new[Len(sent') + 1] = Used'
      BY <2>4, <2>5, <2>8, <2>9 DEF G, S, u
    <3>2. \A f \in (Len(got') + 1)..Len(sent') :
            /\ new[f + 1] = new[f] + Need(sent'[f])
            /\ \A k \in 0..(Need(sent'[f]) - 1) : data'[Place(head' + (new[f] + k))] = <<f, k>>
      BY <2>6, <2>8, <1>2 DEF G, S
    <3>3. \A f, g \in (Len(got') + 1)..(Len(sent') + 1) : f <= g => new[f] <= new[g]
      BY <2>7, <2>9 DEF G, S
    <3> QED BY <3>1, <3>2, <3>3 DEF Laid, At
  <2>11. new \in [(Len(got') + 1)..(Len(sent') + 1) -> 0..Used']
    BY <2>2, <2>8, <2>9 DEF G, S, u
  <2> QED BY <2>10, <2>11 DEF FramesLaid
<1>7. PushOK'
  BY <1>2 DEF PushOK
<1>8. PopOK'
  <2>1. CASE pop = None
    BY <2>1, <1>2 DEF PopOK
  <2>2. CASE pop # None
    <3>1. G < S
      BY <2>2, <1>0 DEF PopOK
    <3>2. G + 1 \in 1..S
      BY <3>1, <1>0
    <3>3. sent'[G + 1] = sent[G + 1] /\ Len(got') < Len(sent')
      BY <3>1, <3>2, <1>0, <1>2, <1>3
    <3> QED BY <3>3, <1>0, <1>2 DEF PopOK
  <2> QED BY <2>1, <2>2
<1> QED BY <1>5, <1>6, <1>7, <1>8 DEF RInv

\* What the consumer has read is the beginning of the first frame.
LEMMA PopReads ==
    ASSUME RInv, pop # None
    PROVE  /\ pop \in [available : 0..Capacity, bytes : Seq(Nat \X Nat)]
           /\ Len(got) < Len(sent) /\ Need(sent[Len(got) + 1]) \in Nat
           /\ Need(sent[Len(got) + 1]) >= Prefix /\ Need(sent[Len(got) + 1]) <= pop.available
           /\ Len(pop.bytes) \in Nat /\ Len(pop.bytes) <= Need(sent[Len(got) + 1])
           /\ Len(pop.bytes) >= 1 => FrameOf(pop.bytes) = Len(got) + 1
<1> USE Params
<1>1. pop \in [available : 0..Capacity, bytes : Seq(Nat \X Nat)]
  BY DEF RInv, RTypeOK
<1>2. /\ Len(got) \in Nat /\ Len(sent) \in Nat
      /\ \A f \in 1..Len(sent) : Need(sent[f]) \in Nat /\ Need(sent[f]) >= Prefix
  BY Types DEF RInv
<1>3. /\ Len(got) < Len(sent) /\ Need(sent[Len(got) + 1]) <= pop.available
      /\ Len(pop.bytes) <= Need(sent[Len(got) + 1])
      /\ \A i \in 1..Len(pop.bytes) : pop.bytes[i] = <<Len(got) + 1, i - 1>>
  BY DEF RInv, PopOK
<1>4. Len(got) + 1 \in 1..Len(sent) /\ Len(got) + 1 \in Nat
  BY <1>2, <1>3
<1>5. ASSUME Len(pop.bytes) >= 1 PROVE FrameOf(pop.bytes) = Len(got) + 1
  <2> DEFINE b == pop.bytes  G == Len(got)
  <2>1. b \in Seq(Nat \X Nat) /\ DOMAIN b = 1..Len(b) /\ 1 \in 1..Len(b)
    BY <1>1, <1>5
  <2>2. b[1] = <<G + 1, 0>> /\ b[1] # None
    <3>1. <<G + 1, 0>> \in Nat \X Nat
      BY <1>4
    <3>2. b[1] = <<G + 1, 1 - 1>>
      BY <2>1, <1>3
    <3> QED BY <3>1, <3>2, RingAssumption
  <2>3. b[1][1] = G + 1
    BY <2>2
  <2>4. G + 1 <= Len(sent)
    BY <1>4
  <2>5. \A i \in DOMAIN b : b[i] = <<G + 1, i - 1>>
    BY <2>1, <1>3
  <2> HIDE DEF b, G
  <2>6. FrameOf(b) = G + 1
    BY <2>2, <2>3, <2>4, <2>5 DEF FrameOf
  <2> QED BY <2>6 DEF b, G
<1> QED BY <1>1, <1>2, <1>3, <1>4, <1>5

\* The first frame is laid out from the head on.
LEMMA FirstFrame ==
    ASSUME RInv, Len(got) < Len(sent)
    PROVE  /\ Need(sent[Len(got) + 1]) <= Used
           /\ \A k \in 0..(Need(sent[Len(got) + 1]) - 1) :
                 data[Place(head + k)] = <<Len(got) + 1, k>>
<1> USE Params
<1>1. PICK start \in [(Len(got) + 1)..(Len(sent) + 1) -> 0..Used] : Laid(start)
  BY DEF RInv, FramesLaid
<1> DEFINE f == Len(got) + 1
<1>2. f \in (Len(got) + 1)..Len(sent) /\ Used \in Nat
  BY Types DEF RInv
<1>3. /\ start[f] = 0 /\ start[f + 1] \in 0..Used /\ start[f + 1] = start[f] + Need(sent[f])
      /\ Need(sent[f]) \in Nat
  <2>1. start[f] = 0
    BY <1>1 DEF Laid
  <2> HIDE DEF f
  <2> QED BY <2>1, <1>1, <1>2, FrameWithin DEF RInv
<1>4. \A k \in 0..(Need(sent[f]) - 1) : data[Place(head + (start[f] + k))] = <<f, k>>
  BY <1>1, <1>2 DEF Laid, At
<1>5. ASSUME NEW k \in 0..(Need(sent[f]) - 1)
      PROVE  data[Place(head + k)] = <<f, k>>
  <2> HIDE DEF f
  <2>1. start[f] + k = k
    BY <1>3
  <2> QED BY <1>4, <2>1
<1>6. Need(sent[f]) <= Used
  <2> HIDE DEF f
  <2> QED BY <1>2, <1>3
<1> QED BY <1>5, <1>6

LEMMA StartPopKeeps ==
    ASSUME RInv, StartPop
    PROVE  RInv'
<1> USE Params
<1>0. /\ RTypeOK /\ FramesLaid /\ PushOK /\ PopOK /\ Used \in 0..Capacity
      /\ Len(got) \in Nat /\ Len(sent) \in Nat /\ Len(got) <= Len(sent)
  BY Types DEF RInv
<1>1. Len(got) < Len(sent)
  <2> SUFFICES ASSUME Len(got) = Len(sent) PROVE FALSE
    BY <1>0
  <2>1. PICK start \in [(Len(got) + 1)..(Len(sent) + 1) -> 0..Used] : Laid(start)
    BY <1>0 DEF FramesLaid
  <2> QED BY <2>1 DEF Laid, StartPop
<1>2. /\ Need(sent[Len(got) + 1]) <= Used /\ Need(sent[Len(got) + 1]) >= Prefix
      /\ Need(sent[Len(got) + 1]) \in Nat
  <2>1. Len(got) + 1 \in 1..Len(sent)
    BY <1>0, <1>1
  <2> QED BY <2>1, <1>1, FirstFrame, Types DEF RInv
<1>3. Used >= Prefix /\ Used <= Capacity
  BY <1>0, <1>2
<1>4. /\ pop' = [available |-> Used, bytes |-> <<>>]
      /\ UNCHANGED <<head, tail, data, push, torn, sent, got>>
  BY <1>3 DEF StartPop
<1>5. Used' = Used
  BY <1>4 DEF Used
<1>6. RTypeOK'
  <2>1. pop' \in [available : 0..Capacity, bytes : Seq(Nat \X Nat)]
    BY <1>0, <1>4
  <2>2. pop'.available \in 0..Capacity /\ Len(pop'.bytes) <= Capacity
    BY <1>0, <1>4
  <2> QED BY <2>1, <2>2, <1>0, <1>4, <1>5 DEF RTypeOK, TypeOK
<1>7. FramesLaid'
  BY <1>0, <1>4, LaidSame
<1>8. PushOK'
  BY <1>0, <1>4, <1>5 DEF PushOK
<1>9. PopOK'
  <2>1. pop'.available = Used /\ pop'.bytes = <<>> /\ Len(pop'.bytes) = 0
    BY <1>4
  <2> QED BY <2>1, <1>1, <1>2, <1>4 DEF PopOK
<1> QED BY <1>6, <1>7, <1>8, <1>9 DEF RInv

LEMMA ReadByteKeeps ==
    ASSUME RInv, pop # None, ReadByte
    PROVE  RInv'
<1> USE Params
<1>0. /\ RTypeOK /\ FramesLaid /\ PushOK /\ PopOK /\ Used \in 0..Capacity
      /\ Len(got) \in Nat /\ Len(sent) \in Nat
  BY Types DEF RInv
<1> DEFINE b == pop.bytes  need == Need(sent[Len(got) + 1])
<1>1. /\ pop \in [available : 0..Capacity, bytes : Seq(Nat \X Nat)]
      /\ Len(got) < Len(sent) /\ need \in Nat /\ need >= Prefix /\ need <= pop.available
      /\ Len(b) \in Nat /\ Len(b) <= need
      /\ Len(b) >= 1 => FrameOf(b) = Len(got) + 1
  BY PopReads
<1>2. Len(b) < need
  <2>1. CASE Len(b) < Prefix
    BY <2>1, <1>1
  <2>2. CASE Len(b) >= Prefix
    <3>1. FrameOf(b) = Len(got) + 1 /\ FrameOf(b) # None
      BY <2>2, <1>0, <1>1, RingAssumption
    <3>2. Wanted(b) = need
      BY <2>2, <3>1, <1>1 DEF Wanted
    <3> QED BY <3>2 DEF ReadByte
  <2> QED BY <2>1, <2>2, <1>1
<1>3. data[Place(head + Len(b))] = <<Len(got) + 1, Len(b)>>
  <2>1. Len(b) \in 0..(need - 1)
    BY <1>1, <1>2
  <2> HIDE DEF b
  <2> QED BY <2>1, <1>1, FirstFrame
<1>4. pop' = [pop EXCEPT !.bytes = Append(b, <<Len(got) + 1, Len(b)>>)]
      /\ UNCHANGED <<head, tail, data, push, torn, sent, got>>
  BY <1>3 DEF ReadByte
<1>5. /\ pop' \in [available : 0..Capacity, bytes : Seq(Nat \X Nat)]
      /\ pop'.available = pop.available /\ pop'.bytes = Append(b, <<Len(got) + 1, Len(b)>>)
  <2>1. <<Len(got) + 1, Len(b)>> \in Nat \X Nat
    BY <1>0, <1>1
  <2>2. Append(b, <<Len(got) + 1, Len(b)>>) \in Seq(Nat \X Nat)
    BY <2>1, <1>1
  <2> QED BY <2>2, <1>1, <1>4
<1>6. /\ Len(pop'.bytes) = Len(b) + 1
      /\ \A i \in 1..(Len(b) + 1) : pop'.bytes[i] = <<Len(got) + 1, i - 1>>
  <2>1. \A i \in 1..Len(b) : b[i] = <<Len(got) + 1, i - 1>>
    BY <1>0 DEF PopOK
  <2>2. Len(pop'.bytes) = Len(b) + 1 /\ \A i \in 1..Len(b) : pop'.bytes[i] = b[i]
    BY <1>1, <1>5
  <2>3. pop'.bytes[Len(b) + 1] = <<Len(got) + 1, Len(b)>>
    <3>1. b \in Seq(Nat \X Nat)
      BY <1>1
    <3> HIDE DEF b
    <3> QED BY <3>1, <1>5
  <2>4. ASSUME NEW i \in 1..(Len(b) + 1)
        PROVE  pop'.bytes[i] = <<Len(got) + 1, i - 1>>
    <3> HIDE DEF b
    <3>1. CASE i \in 1..Len(b)
      BY <3>1, <2>1, <2>2
    <3>2. CASE i = Len(b) + 1
      <4>1. i - 1 = Len(b)
        BY <3>2, <1>1
      <4> QED BY <4>1, <3>2, <2>3
    <3> QED BY <3>1, <3>2, <1>1
  <2> QED BY <2>2, <2>4
<1>7. Used' = Used
  BY <1>4 DEF Used
<1>8. RTypeOK'
  <2>1. Len(pop'.bytes) <= Capacity
    BY <1>0, <1>1, <1>2, <1>6
  <2> QED BY <2>1, <1>0, <1>1, <1>4, <1>5, <1>7 DEF RTypeOK, TypeOK
<1>9. FramesLaid'
  BY <1>0, <1>4, LaidSame
<1>10. PushOK'
  BY <1>0, <1>4, <1>7 DEF PushOK
<1>11. PopOK'
  <2> HIDE DEF b
  <2>1. Len(b) + 1 <= need
    BY <1>1, <1>2
  <2> QED BY <2>1, <1>1, <1>4, <1>5, <1>6 DEF PopOK
<1> QED BY <1>8, <1>9, <1>10, <1>11 DEF RInv

LEMMA PopTooSmallKeeps ==
    ASSUME RInv, PopTooSmall
    PROVE  RInv'
<1>1. pop' = None /\ UNCHANGED <<head, tail, data, push, torn, sent, got>>
  BY DEF PopTooSmall
<1>2. Used' = Used
  BY <1>1 DEF Used
<1>3. RTypeOK'
  BY <1>1, <1>2 DEF RInv, RTypeOK, TypeOK
<1>4. FramesLaid'
  BY <1>1, LaidSame DEF RInv
<1>5. PushOK'
  BY <1>1, <1>2 DEF RInv, PushOK
<1>6. PopOK'
  BY <1>1 DEF PopOK
<1> QED BY <1>3, <1>4, <1>5, <1>6 DEF RInv

\* A pop ends with the whole first frame.
LEMMA PopIsWhole ==
    ASSUME RInv, FinishPop
    PROVE  /\ Len(got) < Len(sent) /\ Len(pop.bytes) = Need(sent[Len(got) + 1])
           /\ head' = ((head + Need(sent[Len(got) + 1])) % Wrap)
           /\ got' = Append(got, sent[Len(got) + 1])
           /\ pop' = None /\ UNCHANGED <<tail, data, push, torn, sent>>
<1> USE Params
<1> DEFINE b == pop.bytes  need == Need(sent[Len(got) + 1])
<1>1. pop # None /\ Len(b) >= Prefix
  BY DEF FinishPop
<1>2. /\ Len(got) < Len(sent) /\ need \in Nat /\ need >= Prefix /\ need <= pop.available
      /\ Len(b) \in Nat /\ FrameOf(b) = Len(got) + 1
  BY <1>1, PopReads
<1>3. FrameOf(b) # None
  <2>1. Len(got) + 1 \in Nat
    BY Types DEF RInv
  <2> QED BY <2>1, <1>2, RingAssumption
<1>4. Wanted(b) = need
  BY <1>1, <1>2, <1>3 DEF Wanted
<1>5. Whole
  BY <1>2, <1>3, <1>4 DEF Whole
<1> QED BY <1>2, <1>4, <1>5 DEF FinishPop

LEMMA FinishPopKeeps ==
    ASSUME RInv, FinishPop
    PROVE  RInv'
<1> USE Params
<1> DEFINE n == Need(sent[Len(got) + 1])  S == Len(sent)  G == Len(got)  u == Used
<1>0. /\ RTypeOK /\ FramesLaid /\ PushOK /\ head \in Int /\ tail \in Int
      /\ head \in 0..(Wrap - 1) /\ tail \in 0..(Wrap - 1) /\ u \in 0..Capacity
      /\ S \in Nat /\ G \in Nat /\ sent \in Seq(Message) /\ got \in Seq(Message)
      /\ \A f \in 1..S : Need(sent[f]) \in Nat
  BY Types DEF RInv
<1>1. /\ G < S /\ head' = ((head + n) % Wrap) /\ got' = Append(got, sent[G + 1]) /\ pop' = None
      /\ UNCHANGED <<tail, data, push, torn, sent>>
  BY PopIsWhole
<1>2. n \in Nat /\ n <= u /\ G + 1 \in 1..S
  <2>1. G + 1 \in 1..S
    BY <1>0, <1>1
  <2> QED BY <2>1, <1>0, <1>1, FirstFrame
<1>3. Len(got') = G + 1 /\ got' \in Seq(Message)
  <2>1. sent[G + 1] \in Message
    BY <1>0, <1>2
  <2> QED BY <2>1, <1>0, <1>1
<1>4. Used' = u - n
  <2>1. Used' = ((tail - ((head + n) % Wrap)) % Wrap)
    BY <1>1 DEF Used
  <2> QED BY <2>1, <1>0, <1>2, UsedShrinks
<1>5. RTypeOK'
  <2>1. head + n \in Int
    BY <1>0, <1>2
  <2>2. head' \in 0..(Wrap - 1)
    BY <1>1, <2>1, ModSplit, Zenon
  <2>3. Len(got') <= Len(sent') /\ Used' <= Capacity
    <3> HIDE DEF n, u
    <3> QED BY <1>0, <1>1, <1>2, <1>3, <1>4
  <2>4. TypeOK'
    BY <1>0, <1>1, <1>3, <2>2 DEF RTypeOK, TypeOK
  <2> QED BY <1>0, <1>1, <2>3, <2>4 DEF RTypeOK
<1>6. FramesLaid'
  <2>1. PICK start \in [(G + 1)..(S + 1) -> 0..u] : Laid(start)
    BY <1>0 DEF FramesLaid
  <2>a. start[G + 1] = 0 /\ start[S + 1] = u
    BY <2>1 DEF Laid
  <2>b. \A f \in (G + 1)..S :
          /\ start[f + 1] = start[f] + Need(sent[f])
          /\ \A k \in 0..(Need(sent[f]) - 1) : data[Place(head + (start[f] + k))] = <<f, k>>
    BY <2>1 DEF Laid, At
  <2>c. \A f, g \in (G + 1)..(S + 1) : f <= g => start[f] <= start[g]
    BY <2>1 DEF Laid
  <2>d. ASSUME NEW z \in Int PROVE Place(head' + (z - n)) = Place(head + z)
    <3> HIDE DEF n
    <3>1. head + n \in Int /\ z - n \in Int /\ (head + n) + (z - n) = head + z
      BY <1>0, <1>2
    <3>2. Place(((head + n) % Wrap) + (z - n)) = Place((head + n) + (z - n))
      BY <3>1, PlaceWrapped, Zenon
    <3> QED BY <3>1, <3>2, <1>1
  <2>e. start[G + 2] = n
    <3>1. G + 1 \in (G + 1)..S /\ (G + 1) + 1 = G + 2
      BY <1>0, <1>1
    <3>2. start[(G + 1) + 1] = start[G + 1] + n
      BY <3>1, <2>b
    <3> HIDE DEF n
    <3> QED BY <3>1, <3>2, <2>a, <1>2
  <2>1a. PICK new : new = [f \in (G + 2)..(S + 1) |-> start[f] - n]
    OBVIOUS
  <2>2. G' = G + 1 /\ S' = S /\ u' = u - n
    BY <1>1, <1>3, <1>4 DEF G, S, u
  <2> HIDE DEF n, u, S, G
  <2>3. \A f \in (G + 2)..(S + 1) : start[f] \in n..u /\ new[f] = start[f] - n
    <3> SUFFICES ASSUME NEW f \in (G + 2)..(S + 1) PROVE start[f] \in n..u
      BY <2>1a
    <3>1. f \in (G + 1)..(S + 1) /\ G + 2 \in (G + 1)..(S + 1) /\ G + 2 <= f
      BY <1>0, <1>1
    <3>2. start[G + 2] <= start[f] /\ start[f] \in 0..u
      BY <3>1, <2>1, <2>c
    <3> QED BY <3>2, <2>e, <1>0, <1>2
  <2>4. (G' + 1)..(S' + 1) = (G + 2)..(S + 1) /\ (G' + 1)..S' = (G + 2)..S
    BY <2>2, <1>0
  <2>5. new \in [(G' + 1)..(S' + 1) -> 0..u']
    <3>1. \A f \in (G + 2)..(S + 1) : start[f] - n \in 0..(u - n)
      BY <2>3, <1>0, <1>2
    <3>2. new \in [(G + 2)..(S + 1) -> 0..(u - n)]
      BY <3>1, <2>1a
    <3> QED BY <3>2, <2>2, <2>4
  <2>6. new[G' + 1] = 0 /\ new[S' + 1] = u'
    <3>1. G + 2 \in (G + 2)..(S + 1) /\ S + 1 \in (G + 2)..(S + 1) /\ G' + 1 = G + 2
      BY <2>2, <1>0, <1>1
    <3> QED BY <3>1, <2>2, <2>3, <2>a, <2>e, <1>0, <1>2
  <2>7. ASSUME NEW f \in (G + 2)..S
        PROVE  /\ new[f + 1] = new[f] + Need(sent[f])
               /\ \A k \in 0..(Need(sent[f]) - 1) : data[Place(head' + (new[f] + k))] = <<f, k>>
    <3>1. f \in (G + 1)..S /\ f \in (G + 2)..(S + 1) /\ f + 1 \in (G + 2)..(S + 1) /\ f \in 1..S
      BY <1>0, <1>1
    <3>2. new[f] = start[f] - n /\ new[f + 1] = start[f + 1] - n /\ start[f] \in Int
      BY <3>1, <2>3, <1>0, <1>2
    <3>3. start[f + 1] = start[f] + Need(sent[f]) /\ Need(sent[f]) \in Nat
      BY <3>1, <2>b, <1>0
    <3>4. ASSUME NEW k \in 0..(Need(sent[f]) - 1)
          PROVE  data[Place(head' + (new[f] + k))] = <<f, k>>
      <4>1. data[Place(head + (start[f] + k))] = <<f, k>>
        BY <3>1, <2>b
      <4>2. start[f] + k \in Int /\ new[f] + k = (start[f] + k) - n
        BY <3>2, <3>3, <1>2
      <4>3. Place(head' + ((start[f] + k) - n)) = Place(head + (start[f] + k))
        BY <4>2, <2>d
      <4> QED BY <4>1, <4>2, <4>3, Zenon
    <3>5. new[f + 1] = new[f] + Need(sent[f])
      BY <3>2, <3>3, <1>2
    <3> QED BY <3>4, <3>5
  <2>8. ASSUME NEW f \in (G + 2)..(S + 1), NEW g \in (G + 2)..(S + 1), f <= g
        PROVE  new[f] <= new[g]
    <3>1. f \in (G + 1)..(S + 1) /\ g \in (G + 1)..(S + 1)
      BY <1>0
    <3>2. start[f] <= start[g]
      BY <3>1, <2>8, <2>c
    <3> QED BY <3>2, <2>3, <1>0, <1>2
  <2>9. Laid(new)'
    <3>1. new[Len(got') + 1] = 0 /\ new[Len(sent') + 1] = Used'
      BY <2>6 DEF G, S, u
    <3>2. \A f \in (Len(got') + 1)..Len(sent') :
            /\ new[f + 1] = new[f] + Need(sent'[f])
            /\ \A k \in 0..(Need(sent'[f]) - 1) : data'[Place(head' + (new[f] + k))] = <<f, k>>
      BY <2>7, <2>4, <1>1 DEF G, S
    <3>3. \A f, g \in (Len(got') + 1)..(Len(sent') + 1) : f <= g => new[f] <= new[g]
      BY <2>8, <2>4 DEF G, S
    <3> QED BY <3>1, <3>2, <3>3 DEF Laid, At
  <2>10. new \in [(Len(got') + 1)..(Len(sent') + 1) -> 0..Used']
    BY <2>5 DEF G, S, u
  <2> QED BY <2>9, <2>10 DEF FramesLaid
<1>7. PushOK'
  <2>1. Used' <= Used
    <3> HIDE DEF n
    <3> QED BY <1>0, <1>2, <1>4
  <2>2. CASE push = None
    BY <2>2, <1>1 DEF PushOK
  <2>3. CASE push # None
    <3>1. Need(push.msg) <= Capacity - Used /\ Need(push.msg) \in Nat
      BY <2>3, <1>0 DEF PushOK, RTypeOK, TypeOK
    <3>2. Need(push.msg) <= Capacity - Used'
      <4> HIDE DEF n
      <4> QED BY <3>1, <1>0, <1>2, <1>4
    <3> QED BY <3>2, <2>3, <1>0, <1>1 DEF PushOK
  <2> QED BY <2>2, <2>3
<1>8. PopOK'
  BY <1>1 DEF PopOK
<1> QED BY <1>5, <1>6, <1>7, <1>8 DEF RInv

LEMMA NextRInv == RInv /\ [Next]_vars => RInv'
<1> SUFFICES ASSUME RInv, [Next]_vars PROVE RInv'
  OBVIOUS
<1>1. CASE \E m \in Message : StartPush(m)
  BY <1>1, StartPushKeeps
<1>2. CASE WriteByte
  BY <1>2, WriteByteKeeps
<1>3. CASE Publish
  BY <1>3, PublishKeeps
<1>4. CASE StartPop
  BY <1>4, StartPopKeeps
<1>5. CASE ReadLength
  BY <1>5, ReadByteKeeps DEF ReadLength
<1>6. CASE ReadPayload
  BY <1>6, ReadByteKeeps DEF ReadPayload
<1>7. CASE FinishPop
  BY <1>7, FinishPopKeeps
<1>8. CASE PopTooSmall
  BY <1>8, PopTooSmallKeeps
<1>9. CASE UNCHANGED vars
  <2>1. UNCHANGED <<head, tail, data, push, pop, torn, sent, got>>
    BY <1>9 DEF vars
  <2>2. Used' = Used
    BY <2>1 DEF Used
  <2>3. RTypeOK' /\ PushOK' /\ PopOK'
    BY <2>1, <2>2 DEF RInv, RTypeOK, TypeOK, PushOK, PopOK
  <2>4. FramesLaid'
    BY <2>1, LaidSame DEF RInv
  <2> QED BY <2>3, <2>4 DEF RInv
<1> QED BY <1>1, <1>2, <1>3, <1>4, <1>5, <1>6, <1>7, <1>8, <1>9 DEF Next, Producer, Consumer
-----------------------------------------------------------------------------
\* The inductive invariant holds for every ring: whatever its capacity, the
\* value its counters wrap at, the sizes of the messages and their number.
THEOREM RingInvariant == Spec => []RInv
BY InitRInv, NextRInv, PTL DEF Spec

\* Type correctness (Ring's state, ring.rs:40).
THEOREM RingTypeCorrect == Spec => []TypeOK
<1>1. RInv => TypeOK
  BY DEF RInv, RTypeOK
<1> QED BY <1>1, RingInvariant, PTL

\* The consumer never reads a torn or overwritten frame, at any capacity and
\* through any number of wraps (pop_into never answers Corrupt).
THEOREM NeverTornAlways == Spec => []NeverTorn
<1>1. RInv => NeverTorn
  BY DEF RInv, RTypeOK, NeverTorn
<1> QED BY <1>1, RingInvariant, PTL

\* A push writes only bytes the consumer cannot read (Ring::push).
THEOREM WritesOnlyFreeBytesAlways == Spec => []WritesOnlyFreeBytes
<1>1. ASSUME RInv PROVE WritesOnlyFreeBytes
  <2> SUFFICES ASSUME push # None, NEW i \in 0..(Need(push.msg) - 1), NEW j \in 0..(Used - 1)
               PROVE  Place(tail + i) # Place(head + j)
    BY DEF WritesOnlyFreeBytes
  <2> USE Params
  <2>1. /\ RTypeOK /\ head \in 0..(Wrap - 1) /\ tail \in 0..(Wrap - 1) /\ head \in Int
        /\ Used \in 0..Capacity
    BY <1>1, Types DEF RInv
  <2>2. push.msg \in Message /\ Need(push.msg) \in Nat /\ Need(push.msg) <= Capacity - Used
    BY <1>1, <2>1 DEF RInv, PushOK, RTypeOK, TypeOK
  <2>3. i \in Int /\ Place(tail + i) = Place(head + (Used + i))
    BY <2>1, <2>2, PlaceTail
  <2>4. head + j \in Int /\ head + (Used + i) \in Int
        /\ head + j < head + (Used + i) /\ head + (Used + i) < (head + j) + Capacity
    BY <2>1, <2>2
  <2>5. Place(head + j) # Place(head + (Used + i))
    BY <2>4, PlaceDistinct, Zenon
  <2> QED BY <2>3, <2>5
<1> QED BY <1>1, RingInvariant, PTL

\* The ring implements the channel: every step of it is a send, a receive or
\* nothing, so messages arrive whole, once and in order.
THEOREM RingIsAChannel == Spec => Chan!Spec
<1>1. Init => Chan!Init
  BY DEF Init, Chan!Init
<1>2. ASSUME RInv, [Next]_vars PROVE [Chan!Next]_<<sent, got>>
  <2>1. CASE Publish
    <3>1. push.msg \in Message /\ sent' = Append(sent, push.msg) /\ UNCHANGED got
      BY <2>1, <1>2 DEF Publish, RInv, RTypeOK, TypeOK
    <3> QED BY <3>1 DEF Chan!Next, Chan!Send
  <2>2. CASE FinishPop
    BY <2>2, <1>2, PopIsWhole DEF Chan!Next, Chan!Receive
  <2>3. CASE ~Publish /\ ~FinishPop
    <3>1. UNCHANGED <<sent, got>>
      BY <2>3, <1>2 DEF Next, Producer, Consumer, StartPush, WriteByte, StartPop, ReadLength,
                        ReadPayload, ReadByte, PopTooSmall, vars
    <3> QED BY <3>1
  <2> QED BY <2>1, <2>2, <2>3
<1> QED BY <1>1, <1>2, RingInvariant, PTL DEF Spec, Chan!Spec
=============================================================================
