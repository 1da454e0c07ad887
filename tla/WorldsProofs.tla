---------------------------- MODULE WorldsProofs ----------------------------
(***************************************************************************)
(* What the room knows of its players' worlds, for any players, worlds,    *)
(* queues and restarts: Together, RoomKnows and NeverStranded.             *)
(*                                                                         *)
(* A player comes to play what is last on its way to it.  The invariant    *)
(* says that all members the room vouches for come to play one world, the  *)
(* one noted of them; handing a world out (OfferKeeps) makes it that       *)
(* world, and no other step changes what a vouched-for member comes to.    *)
(***************************************************************************)
EXTENDS Worlds, TLAPS

\* The world a player comes to play once it has read and fetched all that is
\* on its way to it.
Comes(k, g) ==
    IF k.inbox # <<>> THEN k.inbox[Len(k.inbox)]
    ELSE IF g.fetching # None THEN g.fetching ELSE g.world

\* A connection a world was sent on.
Sent(k, id) == [k EXCEPT !.inbox = Append(@, id)]

MemberRecord ==
    [linked : BOOLEAN, streaming : BOOLEAN, loaded : WorldId \cup {None},
     needs : [kind : {"nothing", "world", "rebase"}, after : Nat]]
Connection == [open : BOOLEAN, inbox : Seq(WorldId)]
Game == [world : WorldId \cup {Own, None}, fetching : WorldId \cup {None}]

\* A member without a stream waits for a world, and one with a stream is not
\* owed one.
MemberOK(m) ==
    m # None =>
        /\ m \in MemberRecord
        /\ m.streaming => m.linked /\ m.needs # World
        /\ m.linked /\ ~m.streaming => m.needs = World

\* The members whose world the room vouches for.
Sound(members, lost) == {c \in Client : members[c] # None /\ members[c].needs # World} \ lost

\* They come to play one world, the one noted of them.
OneComes(members, conns, lost) ==
    /\ \A c \in Sound(members, lost) :
          members[c].loaded # None => Comes(conns[c], game[c]) \in {None, members[c].loaded}
    /\ \A c, d \in Sound(members, lost) :
          \/ None \in {Comes(conns[c], game[c]), Comes(conns[d], game[d])}
          \/ Comes(conns[c], game[c]) = Comes(conns[d], game[d])

PlayersOK(members, conns, lost) ==
    /\ \A c \in Client : MemberOK(members[c])
    /\ conns \in [Client -> Connection]
    /\ \A c \in Client : conns[c].open \/ conns[c].inbox = <<>>
    /\ OneComes(members, conns, lost)

RoomTypes ==
    /\ step \in Nat /\ reaches \in BOOLEAN /\ restarts \in Nat /\ astray \subseteq Client
    /\ current \in Snapshot \cup {None} /\ wanted \in BOOLEAN
    /\ DOMAIN seat = Client
    /\ game \in [Client -> Game]
    /\ \A c \in Client : game[c].fetching # None => game[c].world = None

WInv == RoomTypes /\ PlayersOK(seat, conn, astray) /\ NeverStranded
-----------------------------------------------------------------------------
LEMMA Kinds ==
    /\ World \in [kind : {"nothing", "world", "rebase"}, after : Nat]
    /\ Nothing \in [kind : {"nothing", "world", "rebase"}, after : Nat]
    /\ World # Nothing
    /\ \A n \in Nat : /\ Rebase(n) \in [kind : {"nothing", "world", "rebase"}, after : Nat]
                      /\ Rebase(n) # World /\ Rebase(n) # Nothing
BY DEF World, Nothing, Rebase

\* Of a connection nothing was sent on, the last is what it was; of one that
\* was sent a world, that world.
LEMMA ComesAfterSend ==
    \A g : \A k \in Connection, id \in WorldId :
        /\ Sent(k, id) \in Connection
        /\ Sent(k, id).open = k.open
        /\ Comes(Sent(k, id), g) = id
<1> SUFFICES ASSUME NEW k \in Connection, NEW id \in WorldId, NEW g
             PROVE  /\ Sent(k, id) \in Connection
                    /\ Sent(k, id).open = k.open
                    /\ Comes(Sent(k, id), g) = id
  OBVIOUS
<1> DEFINE q == Append(k.inbox, id)
<1>1. k.inbox \in Seq(WorldId) /\ k.open \in BOOLEAN
  BY DEF Connection
<1>2. q \in Seq(WorldId) /\ q # <<>> /\ q[Len(q)] = id
  BY <1>1
<1>3. Sent(k, id) = [open |-> k.open, inbox |-> q]
  BY DEF Connection, Sent
<1> HIDE DEF q
<1> QED BY <1>1, <1>2, <1>3 DEF Connection, Comes

\* The members a feed leaves.
LEMMA HandedRecord ==
    \A m \in MemberRecord, id \in WorldId :
        /\ Handed(m, id) \in MemberRecord
        /\ Handed(m, id).streaming /\ Handed(m, id).linked = m.linked
        /\ Handed(m, id).needs = Nothing /\ Handed(m, id).loaded = id
<1> SUFFICES ASSUME NEW m \in MemberRecord, NEW id \in WorldId
             PROVE  /\ Handed(m, id) \in MemberRecord
                    /\ Handed(m, id).streaming /\ Handed(m, id).linked = m.linked
                    /\ Handed(m, id).needs = Nothing /\ Handed(m, id).loaded = id
  OBVIOUS
<1>1. Handed(m, id) \in MemberRecord
  BY Kinds DEF Handed, MemberRecord
<1>2. Handed(m, id).streaming /\ Handed(m, id).loaded = id /\ Handed(m, id).needs = Nothing
  BY DEF Handed, MemberRecord
<1>3. Handed(m, id).linked = m.linked
  BY DEF Handed, MemberRecord
<1> QED BY <1>1, <1>2, <1>3

LEMMA RefusedRecord ==
    \A m \in MemberRecord :
        /\ Refused(m) \in MemberRecord
        /\ ~Refused(m).streaming /\ Refused(m).linked = (m.linked /\ ~m.streaming)
        /\ Refused(m).needs = World
<1> SUFFICES ASSUME NEW m \in MemberRecord
             PROVE  /\ Refused(m) \in MemberRecord
                    /\ ~Refused(m).streaming /\ Refused(m).linked = (m.linked /\ ~m.streaming)
                    /\ Refused(m).needs = World
  OBVIOUS
<1>1. Refused(m) \in MemberRecord
  BY Kinds DEF Refused, MemberRecord
<1>2. ~Refused(m).streaming /\ Refused(m).needs = World
  BY DEF Refused, MemberRecord
<1>3. Refused(m).linked = (m.linked /\ ~m.streaming)
  BY DEF Refused, MemberRecord
<1> QED BY <1>1, <1>2, <1>3

\* Handing a world out, after which all vouched-for members come to play it,
\* or handing out none.
LEMMA OfferKeeps ==
    ASSUME NEW members, NEW conns, NEW world, NEW served \in SUBSET Client,
           RoomTypes, DOMAIN members = Client, PlayersOK(members, conns, astray),
           \A c \in served : Waits(members[c]),
           served # {} => world \in Snapshot,
           OfferWorlds(members, conns, world, served), game' = game
    PROVE  /\ PlayersOK(seat, conn, astray)' /\ NeverStranded'
           /\ astray' \subseteq Client /\ wanted' \in BOOLEAN /\ DOMAIN seat' = Client
<1> DEFINE others == {c \in Client \ served : served # {} /\ members[c] # None}
           owing == {c \in others : Refeed(members[c], world.id) = "owes"}
           fed == served \cup {c \in others : Refeed(members[c], world.id) = "feed"}
<1>1. PICK refused \in SUBSET fed :
        /\ \A c \in refused : members[c].streaming \/ ~conns[c].open
        /\ LET given == fed \ refused
               arrives == {c \in given : conns[c].open} IN
            /\ seat' = [c \in Client |->
                    CASE c \in given -> Handed(members[c], world.id)
                      [] c \in refused -> Refused(members[c])
                      [] c \in owing -> [members[c] EXCEPT !.needs = World]
                      [] OTHER -> members[c]]
            /\ conn' = [c \in Client |->
                    IF c \in arrives THEN [conns[c] EXCEPT !.inbox = Append(@, world.id)]
                    ELSE conns[c]]
            /\ astray' = (astray \ arrives) \cup (given \ arrives)
            /\ wanted' = \E c \in Client \ served : Waits(members[c])
  BY Zenon DEF OfferWorlds
<1> DEFINE given == fed \ refused
           arrives == {c \in given : conns[c].open}
<1>2. /\ fed \subseteq Client /\ owing \subseteq Client /\ owing \cap fed = {}
      /\ fed # {} => served # {} /\ world.id \in WorldId
      /\ owing # {} => served # {}
  BY DEF Snapshot
<1>3. \A c \in Client : MemberOK(members[c]) /\ conns[c] \in Connection
                        /\ (conns[c].open \/ conns[c].inbox = <<>>)
  BY DEF PlayersOK
<1>4. \A c \in fed : members[c] \in MemberRecord /\ members[c].linked
  <2> SUFFICES ASSUME NEW c \in fed PROVE members[c] \in MemberRecord /\ members[c].linked
    OBVIOUS
  <2>1. CASE c \in served
    BY <2>1, <1>3 DEF Waits, MemberOK
  <2>2. CASE c \in others /\ Refeed(members[c], world.id) = "feed"
    BY <2>2, <1>3 DEF Refeed, MemberOK
  <2> QED BY <2>1, <2>2
<1>5. \A c \in owing : members[c] \in MemberRecord /\ ~members[c].streaming
  <2> SUFFICES ASSUME NEW c \in owing PROVE members[c] \in MemberRecord /\ ~members[c].streaming
    OBVIOUS
  <2>1. members[c] # None /\ Refeed(members[c], world.id) = "owes"
    OBVIOUS
  <2> QED BY <2>1, <1>2, <1>3 DEF Refeed, MemberOK
<1>6. ASSUME NEW c \in Client \ (fed \cup owing), served # {}, members[c] # None
      PROVE  members[c].loaded = world.id
  <2>1. c \in others
    BY <1>6
  <2>2. Refeed(members[c], world.id) \notin {"feed", "owes"}
    BY <2>1
  <2> QED BY <2>2 DEF Refeed
<1> HIDE DEF others, owing, fed
<1>7. \A c \in given : seat'[c] = Handed(members[c], world.id)
  BY <1>1, <1>2
<1>8. \A c \in refused : seat'[c] = Refused(members[c])
  BY <1>1, <1>2
<1>9. \A c \in owing : seat'[c] = [members[c] EXCEPT !.needs = World]
  BY <1>1, <1>2
<1>10. \A c \in Client \ (fed \cup owing) : seat'[c] = members[c]
  BY <1>1, <1>2
<1>11. \A c \in arrives : conn'[c] = [conns[c] EXCEPT !.inbox = Append(@, world.id)]
  BY <1>1, <1>2
<1>12. \A c \in Client \ arrives : conn'[c] = conns[c]
  BY <1>1
<1>13. astray' = (astray \ arrives) \cup (given \ arrives) /\ DOMAIN seat' = Client
       /\ conn' = [c \in Client |-> conn'[c]]
       /\ (wanted' <=> \E c \in Client \ served : Waits(members[c])) /\ wanted' \in BOOLEAN
  BY <1>1
<1>14. \A c \in given : /\ seat'[c] \in MemberRecord /\ seat'[c].streaming /\ seat'[c].linked
                        /\ seat'[c].needs = Nothing /\ seat'[c].loaded = world.id
  <2> SUFFICES ASSUME NEW c \in given
               PROVE  /\ seat'[c] \in MemberRecord /\ seat'[c].streaming /\ seat'[c].linked
                      /\ seat'[c].needs = Nothing /\ seat'[c].loaded = world.id
    OBVIOUS
  <2>1. members[c] \in MemberRecord /\ members[c].linked /\ world.id \in WorldId
    BY <1>2, <1>4
  <2>2. seat'[c] = Handed(members[c], world.id)
    BY <1>7
  <2> QED BY <2>1, <2>2, HandedRecord
<1>15. \A c \in refused : /\ seat'[c] \in MemberRecord /\ ~seat'[c].streaming
                          /\ seat'[c].needs = World
                          /\ seat'[c].linked = (members[c].linked /\ ~members[c].streaming)
  BY <1>4, <1>8, RefusedRecord
<1>16. \A c \in owing : /\ seat'[c] \in MemberRecord /\ ~seat'[c].streaming
                        /\ seat'[c].needs = World /\ seat'[c].linked = members[c].linked
  <2> SUFFICES ASSUME NEW c \in owing
               PROVE  /\ seat'[c] \in MemberRecord /\ ~seat'[c].streaming
                      /\ seat'[c].needs = World /\ seat'[c].linked = members[c].linked
    OBVIOUS
  <2>1. members[c] \in MemberRecord /\ ~members[c].streaming
    BY <1>5
  <2>2. seat'[c] = [members[c] EXCEPT !.needs = World]
    BY <1>9
  <2> QED BY <2>1, <2>2, Kinds DEF MemberRecord
<1>17. \A c \in Client : MemberOK(seat'[c])
  <2> SUFFICES ASSUME NEW c \in Client PROVE MemberOK(seat'[c])
    OBVIOUS
  <2>1. CASE c \in given
    BY <2>1, <1>14, Kinds DEF MemberOK
  <2>2. CASE c \in refused
    BY <2>2, <1>15 DEF MemberOK
  <2>3. CASE c \in owing
    BY <2>3, <1>16 DEF MemberOK
  <2>4. CASE c \notin fed \cup owing
    BY <2>4, <1>3, <1>10
  <2> QED BY <2>1, <2>2, <2>3, <2>4
<1>18. \A c \in arrives : /\ conn'[c] \in Connection /\ conn'[c].open
                          /\ Comes(conn'[c], game[c]) = world.id
  <2> SUFFICES ASSUME NEW c \in arrives
               PROVE  /\ conn'[c] \in Connection /\ conn'[c].open
                      /\ Comes(conn'[c], game[c]) = world.id
    OBVIOUS
  <2>1. conns[c] \in Connection /\ conns[c].open /\ world.id \in WorldId
    BY <1>2, <1>3
  <2>2. conn'[c] = Sent(conns[c], world.id)
    BY <1>11 DEF Sent
  <2> QED BY <2>1, <2>2, ComesAfterSend
<1>19. conn' \in [Client -> Connection] /\ \A c \in Client : conn'[c].open \/ conn'[c].inbox = <<>>
  BY <1>3, <1>12, <1>13, <1>18
<1>20. ASSUME NEW c \in Sound(seat', astray')
       PROVE  c \in arrives \/ (c \in Sound(members, astray) /\ c \notin fed \cup owing)
  BY <1>2, <1>10, <1>13, <1>15, <1>16 DEF Sound
<1>21. OneComes(members, conns, astray)
  BY DEF PlayersOK
<1>22. ASSUME served # {} PROVE OneComes(seat, conn, astray)'
  <2>1. world.id # None
    BY <1>22, ConstantsAssumption DEF Snapshot
  <2>2. ASSUME NEW c \in Sound(seat', astray')
        PROVE  seat'[c].loaded = world.id /\ Comes(conn'[c], game[c]) \in {None, world.id}
    <3>1. CASE c \in arrives
      BY <3>1, <1>14, <1>18
    <3>2. CASE c \in Sound(members, astray) /\ c \notin fed \cup owing
      <4>1. c \in Client /\ members[c] # None /\ c \notin arrives
        BY <3>2 DEF Sound
      <4>2. seat'[c].loaded = world.id /\ conn'[c] = conns[c] /\ members[c].loaded = world.id
        BY <4>1, <3>2, <1>6, <1>10, <1>12, <1>22
      <4> QED BY <4>2, <3>2, <2>1, <1>21 DEF OneComes
    <3> QED BY <3>1, <3>2, <1>20
  <2> QED BY <2>2 DEF OneComes
<1>23. ASSUME served = {} PROVE OneComes(seat, conn, astray)'
  <2>1. fed = {} /\ owing = {}
    BY <1>2, <1>23
  <2>2. Sound(seat', astray') \subseteq Sound(members, astray)
    BY <2>1, <1>20
  <2>3. \A c \in Sound(seat', astray') : conn'[c] = conns[c] /\ seat'[c] = members[c]
    BY <2>1, <1>10, <1>12 DEF Sound
  <2> QED BY <2>2, <2>3, <1>21 DEF OneComes
<1>24. NeverStranded'
  <2> SUFFICES ASSUME NEW c \in Client, Waits(seat'[c]), conn'[c].open PROVE wanted'
    BY DEF NeverStranded
  <2>1. CASE c \in given
    BY <2>1, <1>14 DEF Waits
  <2>2. CASE c \in refused
    <3>1. ~members[c].streaming /\ conn'[c] = conns[c]
      BY <2>2, <1>12, <1>15 DEF Waits
    <3> QED BY <3>1, <2>2, <1>1
  <2>3. CASE c \in owing
    <3>1. members[c] # None /\ c \notin served
      BY <2>3, <1>2 DEF owing, others
    <3>2. members[c].linked /\ members[c].needs # Nothing
      BY <2>3, <3>1, <1>3, <1>5, <1>16, Kinds DEF Waits, MemberOK
    <3> QED BY <3>1, <3>2, <1>13 DEF Waits
  <2>4. CASE c \notin fed \cup owing
    <3>1. c \notin served
      BY <2>4 DEF fed
    <3> QED BY <2>4, <3>1, <1>10, <1>13
  <2> QED BY <2>1, <2>2, <2>3, <2>4
<1> QED
  <2>1. astray' \subseteq Client
    BY <1>2, <1>13 DEF RoomTypes
  <2>2. PlayersOK(seat, conn, astray)'
    BY <1>17, <1>19, <1>22, <1>23 DEF PlayersOK
  <2> QED BY <2>1, <2>2, <1>13, <1>24

-----------------------------------------------------------------------------
\* A step that changes what vouched-for members come to only by taking it
\* from them, or no longer vouches for them.
LEMMA StayTogether ==
    ASSUME OneComes(seat, conn, astray),
           \A c \in Sound(seat', astray') :
               /\ c \in Sound(seat, astray)
               /\ seat'[c].loaded \in {None, seat[c].loaded}
               /\ Comes(conn'[c], game'[c]) \in {None, Comes(conn[c], game[c])}
    PROVE  OneComes(seat, conn, astray)'
BY DEF OneComes

\* The same of the members and connections a step hands worlds out to.
LEMMA StayTogetherBefore ==
    ASSUME NEW members, NEW conns, OneComes(seat, conn, astray),
           \A c \in Sound(members, astray) :
               /\ c \in Sound(seat, astray)
               /\ members[c].loaded = seat[c].loaded
               /\ Comes(conns[c], game[c]) = Comes(conn[c], game[c])
    PROVE  OneComes(members, conns, astray)
BY DEF OneComes

\* A member that waits is served a snapshot only.
LEMMA ServedSnapshots ==
    ASSUME NEW members, NEW world \in Snapshot \cup {None}, NEW reached \in BOOLEAN
    PROVE  LET served == Servable(members, world, reached) IN
           /\ served \in SUBSET Client
           /\ \A c \in served : Waits(members[c])
           /\ served # {} => world \in Snapshot
BY DEF Servable

\* The actions that end with an offer of the current snapshot.
LEMMA OfferCurrent ==
    ASSUME NEW members, NEW conns, RoomTypes, DOMAIN members = Client,
           PlayersOK(members, conns, astray), Offer(members, conns),
           UNCHANGED <<roomVars, playerVars>>
    PROVE  WInv'
<1>1. current \in Snapshot \cup {None} /\ reaches \in BOOLEAN /\ game' = game
  BY DEF RoomTypes, playerVars
<1>2. PICK served : served = Servable(members, current, reaches)
  OBVIOUS
<1>3. /\ served \in SUBSET Client
      /\ \A c \in served : Waits(members[c])
      /\ served # {} => current \in Snapshot
  BY <1>1, <1>2, ServedSnapshots
<1>4. PICK world : world = current
  OBVIOUS
<1>5. OfferWorlds(members, conns, world, served)
  BY <1>2, <1>4 DEF Offer
<1>6. /\ PlayersOK(seat, conn, astray)' /\ NeverStranded'
      /\ astray' \subseteq Client /\ wanted' \in BOOLEAN /\ DOMAIN seat' = Client
  BY <1>1, <1>3, <1>4, <1>5, OfferKeeps
<1>7. RoomTypes'
  BY <1>6 DEF RoomTypes, roomVars, playerVars
<1> QED BY <1>6, <1>7 DEF WInv
-----------------------------------------------------------------------------
LEMMA InitWInv == Init => WInv
<1> SUFFICES ASSUME Init PROVE WInv
  OBVIOUS
<1>1. PICK players \in SUBSET Client, owner \in Client, handed \in {None} \cup WorldId :
        /\ owner \in players
        /\ conn = [c \in Client |->
            [open |-> c \in players,
             inbox |-> IF c \in players /\ handed # None THEN <<handed>> ELSE <<>>]]
        /\ game = [c \in Client |->
            [world |-> IF c = owner /\ handed = None THEN Own ELSE None, fetching |-> None]]
        /\ seat = [c \in Client |->
            IF c \notin players THEN None
            ELSE IF handed # None THEN Handed(Member(TRUE, FALSE, World), handed)
            ELSE IF c = owner THEN Member(TRUE, TRUE, Nothing)
            ELSE Member(TRUE, FALSE, World)]
        /\ current = IF handed = None THEN None ELSE [id |-> handed, step |-> 0]
        /\ reaches = (handed # None)
        /\ wanted = (handed = None /\ players # {owner})
  BY Zenon DEF Init
<1>2. step = 0 /\ restarts = 0 /\ astray = {}
  BY DEF Init
<1>3. /\ Member(TRUE, FALSE, World) \in MemberRecord /\ Member(TRUE, FALSE, World).linked
      /\ Member(TRUE, FALSE, World).needs = World /\ ~Member(TRUE, FALSE, World).streaming
      /\ Member(TRUE, TRUE, Nothing) \in MemberRecord /\ Member(TRUE, TRUE, Nothing).linked
      /\ Member(TRUE, TRUE, Nothing).needs = Nothing /\ Member(TRUE, TRUE, Nothing).streaming
      /\ Member(TRUE, TRUE, Nothing).loaded = None
  BY Kinds DEF Member, MemberRecord
<1>4. ASSUME handed # None
      PROVE  LET m == Handed(Member(TRUE, FALSE, World), handed) IN
             /\ m \in MemberRecord /\ m.linked /\ m.streaming /\ m.needs = Nothing
             /\ m.loaded = handed
  BY <1>3, <1>4, HandedRecord
<1>5. RoomTypes
  <2>1. current \in Snapshot \cup {None}
    BY <1>1 DEF Snapshot
  <2>2. game \in [Client -> Game] /\ \A c \in Client : game[c].fetching = None
    BY <1>1 DEF Game
  <2> QED BY <1>1, <1>2, <2>1, <2>2 DEF RoomTypes
<1>6. \A c \in Client : MemberOK(seat[c])
  <2> SUFFICES ASSUME NEW c \in Client, seat[c] # None PROVE MemberOK(seat[c])
    BY DEF MemberOK
  <2>1. CASE handed # None
    <3>1. seat[c] = Handed(Member(TRUE, FALSE, World), handed)
      BY <1>1, <2>1
    <3> QED BY <3>1, <2>1, <1>4, Kinds DEF MemberOK
  <2>2. CASE handed = None
    <3>1. seat[c] \in {Member(TRUE, TRUE, Nothing), Member(TRUE, FALSE, World)}
      BY <1>1, <2>2
    <3> QED BY <3>1, <1>3, Kinds DEF MemberOK
  <2> QED BY <2>1, <2>2
<1>7. /\ conn \in [Client -> Connection]
      /\ \A c \in Client : conn[c].open \/ conn[c].inbox = <<>>
  <2>1. \A c \in Client : /\ conn[c].open = (c \in players)
                          /\ conn[c].inbox = IF c \in players /\ handed # None
                                             THEN <<handed>> ELSE <<>>
    BY <1>1
  <2>2. handed # None => <<handed>> \in Seq(WorldId)
    OBVIOUS
  <2>3. <<>> \in Seq(WorldId)
    OBVIOUS
  <2>4. ASSUME NEW c \in Client PROVE conn[c] \in Connection
    <3>1. conn[c] = [open |-> conn[c].open, inbox |-> conn[c].inbox]
      BY <1>1, <2>4
    <3>2. conn[c].open \in BOOLEAN /\ conn[c].inbox \in Seq(WorldId)
      <4>1. CASE c \in players /\ handed # None
        <5>1. conn[c].inbox = <<handed>> /\ conn[c].open = (c \in players)
          BY <2>1, <2>4, <4>1
        <5> QED BY <5>1, <2>2, <4>1
      <4>2. CASE ~(c \in players /\ handed # None)
        <5>1. conn[c].inbox = <<>> /\ conn[c].open = (c \in players)
          BY <2>1, <2>4, <4>2
        <5> QED BY <5>1, <2>3
      <4> QED BY <4>1, <4>2
    <3> QED BY <3>1, <3>2 DEF Connection
  <2> QED BY <1>1, <2>1, <2>4
<1>8. OneComes(seat, conn, astray)
  <2>1. CASE handed # None
    <3>1. ASSUME NEW c \in Sound(seat, astray)
          PROVE  seat[c].loaded = handed /\ Comes(conn[c], game[c]) = handed
      <4>1. c \in players
        BY <1>1, <3>1 DEF Sound
      <4>2. seat[c] = Handed(Member(TRUE, FALSE, World), handed) /\ conn[c].inbox = <<handed>>
        BY <1>1, <2>1, <4>1
      <4>3. <<handed>> # <<>> /\ <<handed>>[Len(<<handed>>)] = handed
        OBVIOUS
      <4>4. Comes(conn[c], game[c]) = handed
        BY <4>2, <4>3 DEF Comes
      <4> QED BY <4>2, <4>4, <2>1, <1>4
    <3> QED BY <3>1 DEF OneComes
  <2>2. CASE handed = None
    <3>1. ASSUME NEW c \in Sound(seat, astray)
          PROVE  c = owner /\ seat[c].loaded = None
      <4>1. c \in Client /\ seat[c] # None /\ seat[c].needs # World
        BY <3>1 DEF Sound
      <4>2. c = owner
        BY <1>1, <1>3, <2>2, <4>1
      <4>3. seat[c] = Member(TRUE, TRUE, Nothing)
        BY <1>1, <2>2, <4>2
      <4> QED BY <4>2, <4>3, <1>3
    <3> QED BY <3>1 DEF OneComes
  <2> QED BY <2>1, <2>2
<1>9. NeverStranded
  <2> SUFFICES ASSUME NEW c \in Client, Waits(seat[c]) PROVE wanted
    BY DEF NeverStranded
  <2>1. CASE handed # None
    BY <2>1, <1>1, <1>4 DEF Waits
  <2>2. CASE handed = None
    BY <2>2, <1>1, <1>3, Kinds DEF Waits
  <2> QED BY <2>1, <2>2
<1> QED BY <1>5, <1>6, <1>7, <1>8, <1>9 DEF WInv, PlayersOK

-----------------------------------------------------------------------------
LEMMA AdvanceKeeps == WInv /\ (Advance \/ WindowPasses) => WInv'
<1> SUFFICES ASSUME WInv, Advance \/ WindowPasses PROVE WInv'
  OBVIOUS
<1>1. UNCHANGED <<current, wanted, seat, conn, game, restarts, astray>>
  BY DEF Advance, WindowPasses, playerVars
<1>2. step' \in Nat /\ reaches' \in BOOLEAN
  <2>1. CASE Advance
    BY <2>1 DEF Advance, WInv, RoomTypes
  <2>2. CASE WindowPasses
    BY <2>2 DEF WindowPasses, WInv, RoomTypes
  <2> QED BY <2>1, <2>2
<1>3. RoomTypes'
  BY <1>1, <1>2 DEF WInv, RoomTypes
<1>4. OneComes(seat, conn, astray)'
  BY <1>1, StayTogether DEF WInv, PlayersOK
<1>5. PlayersOK(seat, conn, astray)'
  BY <1>1, <1>4 DEF WInv, PlayersOK
<1> QED BY <1>1, <1>3, <1>5 DEF WInv, NeverStranded

LEMMA UnusedWorlds ==
    ASSUME RoomTypes, NEW id \in Unused \cup {w.id : w \in {current} \ {None}}
    PROVE  id \in WorldId
BY DEF RoomTypes, Unused, Snapshot

LEMMA PromoteKeeps ==
    ASSUME WInv, NEW at \in 0..step, NEW inReach \in BOOLEAN, Promote(at, inReach)
    PROVE  WInv'
<1>1. PICK id \in Unused \cup {w.id : w \in {current} \ {None}} :
        /\ current' = [id |-> id, step |-> at] /\ reaches' = inReach
        /\ OfferWorlds(seat, conn, [id |-> id, step |-> at],
                       Servable(seat, [id |-> id, step |-> at], inReach))
  BY Zenon DEF Promote
<1>2. id \in WorldId /\ at \in Nat
  BY <1>1, UnusedWorlds DEF WInv, RoomTypes
<1>3. PICK world : world = [id |-> id, step |-> at]
  OBVIOUS
<1>4. world \in Snapshot
  BY <1>2, <1>3 DEF Snapshot
<1>5. PICK served : served = Servable(seat, world, inReach)
  OBVIOUS
<1>6. /\ served \in SUBSET Client
      /\ \A c \in served : Waits(seat[c])
  BY <1>5 DEF Servable
<1>7. game' = game /\ restarts' = restarts /\ step' = step
  BY DEF Promote, playerVars
<1>8. PICK members, conns : members = seat /\ conns = conn
  OBVIOUS
<1>9. OfferWorlds(members, conns, world, served)
  BY <1>1, <1>3, <1>5, <1>8
<1>10. DOMAIN members = Client /\ PlayersOK(members, conns, astray) /\ RoomTypes
  BY <1>8 DEF WInv, RoomTypes
<1>11. /\ PlayersOK(seat, conn, astray)' /\ NeverStranded'
       /\ astray' \subseteq Client /\ wanted' \in BOOLEAN /\ DOMAIN seat' = Client
  BY <1>4, <1>6, <1>7, <1>8, <1>9, <1>10, OfferKeeps
<1>12. RoomTypes'
  BY <1>1, <1>3, <1>4, <1>7, <1>10, <1>11 DEF RoomTypes
<1> QED BY <1>11, <1>12 DEF WInv

LEMMA AnnounceKeeps ==
    ASSUME WInv, NEW rested \in SUBSET Seated, NEW d \in 0..step, AnnounceDivergence(rested, d)
    PROVE  WInv'
<1>1. PICK members : members = [c \in Client |->
            IF c \in rested THEN [seat[c] EXCEPT !.needs = Rebase(d)] ELSE seat[c]]
  OBVIOUS
<1>2. PICK conns : conns = conn
  OBVIOUS
<1>3. Offer(members, conns) /\ UNCHANGED <<roomVars, playerVars>>
  BY <1>1, <1>2 DEF AnnounceDivergence
<1>4. d \in Nat
  BY DEF WInv, RoomTypes
<1>5. ASSUME NEW c \in rested
      PROVE  /\ c \in Client /\ seat[c] # None /\ seat[c].needs = Nothing
             /\ seat[c] \in MemberRecord /\ MemberOK(seat[c])
             /\ members[c] = [seat[c] EXCEPT !.needs = Rebase(d)]
  BY <1>1 DEF Seated, AnnounceDivergence, WInv, PlayersOK, MemberOK
<1>6. ASSUME NEW c \in rested
      PROVE  /\ members[c] \in MemberRecord /\ members[c].needs = Rebase(d)
             /\ members[c].linked = seat[c].linked /\ members[c].streaming = seat[c].streaming
             /\ members[c].loaded = seat[c].loaded
  <2>1. PICK n \in [kind : {"nothing", "world", "rebase"}, after : Nat] : n = Rebase(d)
    BY <1>4, Kinds
  <2>2. seat[c] \in MemberRecord /\ members[c] = [seat[c] EXCEPT !.needs = n]
    BY <1>5, <1>6, <2>1
  <2>3. members[c] \in MemberRecord /\ members[c].needs = n
    BY <2>1, <2>2 DEF MemberRecord
  <2>4. /\ members[c].linked = seat[c].linked /\ members[c].streaming = seat[c].streaming
        /\ members[c].loaded = seat[c].loaded
    BY <2>2 DEF MemberRecord
  <2> QED BY <2>1, <2>3, <2>4
<1>7. \A c \in Client \ rested : members[c] = seat[c]
  BY <1>1
<1>8. \A c \in Client : MemberOK(members[c])
  <2> SUFFICES ASSUME NEW c \in Client PROVE MemberOK(members[c])
    OBVIOUS
  <2>1. CASE c \in rested
    BY <2>1, <1>4, <1>5, <1>6, Kinds DEF MemberOK
  <2>2. CASE c \notin rested
    BY <2>2, <1>7 DEF WInv, PlayersOK
  <2> QED BY <2>1, <2>2
<1>9. OneComes(members, conns, astray)
  <2>1. ASSUME NEW c \in Sound(members, astray)
        PROVE  /\ c \in Sound(seat, astray) /\ members[c].loaded = seat[c].loaded
    BY <2>1, <1>5, <1>6, <1>7, Kinds DEF Sound
  <2> QED BY <2>1, <1>2, StayTogetherBefore DEF WInv, PlayersOK
<1>10. PlayersOK(members, conns, astray) /\ DOMAIN members = Client /\ RoomTypes
  BY <1>1, <1>2, <1>8, <1>9 DEF WInv, PlayersOK
<1> QED BY <1>3, <1>10, OfferCurrent

-----------------------------------------------------------------------------
LEMMA DisconnectedKeeps ==
    ASSUME WInv, NEW c \in Client, Disconnected(c) PROVE WInv'
<1>1. /\ seat[c] # None
      /\ UNCHANGED <<step, reaches, current, wanted, conn, game, restarts, astray>>
      /\ seat' = [seat EXCEPT ![c].linked = FALSE, ![c].streaming = FALSE]
  BY DEF Disconnected, roomVars, playerVars
<1>2. seat[c] \in MemberRecord /\ DOMAIN seat = Client
  BY <1>1 DEF WInv, RoomTypes, PlayersOK, MemberOK
<1>3. /\ seat'[c] \in MemberRecord /\ ~seat'[c].linked /\ ~seat'[c].streaming
      /\ seat'[c].needs = seat[c].needs /\ seat'[c].loaded = seat[c].loaded
  BY <1>1, <1>2 DEF MemberRecord
<1>4. \A d \in Client \ {c} : seat'[d] = seat[d]
  BY <1>1, <1>2
<1>5. OneComes(seat, conn, astray)'
  <2>1. ASSUME NEW d \in Sound(seat', astray')
        PROVE  /\ d \in Sound(seat, astray)
               /\ seat'[d].loaded \in {None, seat[d].loaded}
               /\ Comes(conn'[d], game'[d]) \in {None, Comes(conn[d], game[d])}
    BY <2>1, <1>1, <1>3, <1>4 DEF Sound
  <2> QED BY <2>1, StayTogether DEF WInv, PlayersOK
<1>6. \A d \in Client : MemberOK(seat'[d])
  BY <1>3, <1>4 DEF WInv, PlayersOK, MemberOK
<1>7. RoomTypes'
  BY <1>1, <1>2 DEF WInv, RoomTypes
<1>8. NeverStranded'
  BY <1>1, <1>3, <1>4 DEF WInv, NeverStranded, Waits
<1> QED BY <1>1, <1>5, <1>6, <1>7, <1>8 DEF WInv, PlayersOK

LEMMA NoConnection ==
    NoConn \in Connection /\ NewConn \in Connection /\ ~NoConn.open /\ NewConn.open
    /\ NoConn.inbox = <<>> /\ NewConn.inbox = <<>>
BY DEF NoConn, NewConn, Connection

LEMMA DropKeeps ==
    ASSUME WInv, NEW c \in Client, Drop(c) PROVE WInv'
<1>1. /\ UNCHANGED <<step, reaches, current, wanted, seat, game, restarts>>
      /\ conn' = [conn EXCEPT ![c] = NoConn]
      /\ astray' = IF conn[c].inbox # <<>> THEN astray \cup {c} ELSE astray
  BY DEF Drop, roomVars, playerVars
<1>2. conn \in [Client -> Connection] /\ conn' \in [Client -> Connection]
  BY <1>1, NoConnection DEF WInv, PlayersOK
<1>3. conn'[c] = NoConn /\ \A d \in Client \ {c} : conn'[d] = conn[d]
  BY <1>1, <1>2
<1>4. OneComes(seat, conn, astray)'
  <2>1. ASSUME NEW d \in Sound(seat', astray')
        PROVE  /\ d \in Sound(seat, astray)
               /\ seat'[d].loaded \in {None, seat[d].loaded}
               /\ Comes(conn'[d], game'[d]) \in {None, Comes(conn[d], game[d])}
    <3>1. d \in Sound(seat, astray) /\ seat' = seat /\ game' = game
          /\ (d = c => conn[c].inbox = <<>>)
      BY <2>1, <1>1 DEF Sound
    <3>2. Comes(conn'[d], game[d]) = Comes(conn[d], game[d])
      BY <3>1, <1>3, NoConnection DEF Comes, Sound
    <3> QED BY <3>1, <3>2
  <2> QED BY <2>1, StayTogether DEF WInv, PlayersOK
<1>5. \A d \in Client : conn'[d].open \/ conn'[d].inbox = <<>>
  BY <1>3, NoConnection DEF WInv, PlayersOK
<1>6. RoomTypes'
  BY <1>1 DEF WInv, RoomTypes
<1>7. NeverStranded'
  BY <1>1, <1>3, NoConnection DEF WInv, NeverStranded
<1> QED BY <1>1, <1>2, <1>4, <1>5, <1>6, <1>7 DEF WInv, PlayersOK

\* What becomes of the players' worlds, and of their connections, when a
\* player leaves or its game ends.
LEMMA GamesAfterEnd ==
    ASSUME RoomTypes, NEW c \in Client,
           game' = [game EXCEPT ![c] = [world |-> None, fetching |-> None]]
    PROVE  /\ game' \in [Client -> Game] /\ game'[c] = [world |-> None, fetching |-> None]
           /\ \A d \in Client \ {c} : game'[d] = game[d]
           /\ \A d \in Client : game'[d].fetching # None => game'[d].world = None
<1>1. game \in [Client -> Game] /\ [world |-> None, fetching |-> None] \in Game
  BY DEF RoomTypes, Game
<1>2. game' \in [Client -> Game] /\ game'[c] = [world |-> None, fetching |-> None]
      /\ \A d \in Client \ {c} : game'[d] = game[d]
  BY <1>1
<1>3. \A d \in Client \ {c} : game'[d].fetching # None => game'[d].world = None
  BY <1>2 DEF RoomTypes
<1> QED BY <1>2, <1>3

LEMMA LeaveKeeps ==
    ASSUME WInv, NEW c \in Client, Leave(c) \/ GameEnds(c) PROVE WInv'
<1>1. /\ UNCHANGED <<step, reaches, current, wanted, restarts>>
      /\ conn' = [conn EXCEPT ![c] = NoConn]
      /\ game' = [game EXCEPT ![c] = [world |-> None, fetching |-> None]]
      /\ astray' = astray \ {c}
      /\ seat' \in {seat, [seat EXCEPT ![c] = None]}
  BY DEF Leave, GameEnds, roomVars
<1>2. conn \in [Client -> Connection] /\ conn' \in [Client -> Connection] /\ RoomTypes
  BY <1>1, NoConnection DEF WInv, PlayersOK
<1>3. conn'[c] = NoConn /\ \A d \in Client \ {c} : conn'[d] = conn[d]
  BY <1>1, <1>2
<1>4. /\ DOMAIN seat' = Client
      /\ \A d \in Client : seat'[d] \in {seat[d], None}
      /\ \A d \in Client \ {c} : seat'[d] = seat[d]
  BY <1>1, <1>2 DEF RoomTypes
<1>5. /\ game' \in [Client -> Game] /\ game'[c] = [world |-> None, fetching |-> None]
      /\ \A d \in Client \ {c} : game'[d] = game[d]
      /\ \A d \in Client : game'[d].fetching # None => game'[d].world = None
  BY <1>1, <1>2, GamesAfterEnd
<1>6. Comes(conn'[c], game'[c]) = None
  BY <1>3, <1>5, NoConnection DEF Comes
<1>7. OneComes(seat, conn, astray)'
  <2>1. ASSUME NEW d \in Sound(seat', astray') \ {c}
        PROVE  /\ d \in Sound(seat, astray) /\ seat'[d] = seat[d]
               /\ conn'[d] = conn[d] /\ game'[d] = game[d]
    BY <2>1, <1>1, <1>3, <1>4, <1>5 DEF Sound
  <2> QED BY <2>1, <1>6 DEF WInv, PlayersOK, OneComes
<1>8. \A d \in Client : MemberOK(seat'[d])
  BY <1>4 DEF WInv, PlayersOK, MemberOK
<1>9. \A d \in Client : conn'[d].open \/ conn'[d].inbox = <<>>
  BY <1>3, NoConnection DEF WInv, PlayersOK
<1>10. RoomTypes'
  BY <1>1, <1>2, <1>4, <1>5 DEF RoomTypes
<1>11. NeverStranded'
  BY <1>1, <1>3, <1>4, NoConnection DEF WInv, NeverStranded, Waits
<1> QED BY <1>2, <1>7, <1>8, <1>9, <1>10, <1>11 DEF WInv, PlayersOK

-----------------------------------------------------------------------------
\* Reading a world off a connection, or fetching it, does not change what the
\* player comes to play.
LEMMA TailComes ==
    ASSUME NEW q \in Seq(WorldId), q # <<>>
    PROVE  /\ Head(q) \in WorldId /\ Tail(q) \in Seq(WorldId)
           /\ Tail(q) = <<>> => q[Len(q)] = Head(q)
           /\ Tail(q) # <<>> => Tail(q)[Len(Tail(q))] = q[Len(q)]
<1>1. Len(q) \in Nat /\ Len(q) > 0 /\ Head(q) = q[1] /\ Tail(q) \in Seq(WorldId)
      /\ Len(Tail(q)) = Len(q) - 1 /\ \A i \in 1..Len(q) - 1 : Tail(q)[i] = q[i + 1]
  OBVIOUS
<1>2. Head(q) \in WorldId
  BY <1>1
<1>3. ASSUME Tail(q) = <<>> PROVE q[Len(q)] = Head(q)
  <2>1. Len(<<>>) = 0
    OBVIOUS
  <2>2. Len(Tail(q)) = 0
    BY <2>1, <1>3, Zenon
  <2>3. Len(q) = 1
    <3>1. PICK n, t : n \in Nat /\ n = Len(q) /\ t = Len(Tail(q)) /\ t = n - 1
      BY <1>1
    <3> QED BY <2>2, <3>1
  <2> QED BY <1>1, <2>3
<1>4. ASSUME Tail(q) # <<>> PROVE Tail(q)[Len(Tail(q))] = q[Len(q)]
  <2>1. Len(Tail(q)) # 0
    BY <1>1, <1>4
  <2> QED BY <1>1, <2>1
<1> QED BY <1>1, <1>2, <1>3, <1>4

LEMMA ReceiveKeeps ==
    ASSUME WInv, NEW c \in Client, Receive(c) PROVE WInv'
<1>1. /\ UNCHANGED <<step, reaches, current, wanted, seat, restarts, astray>>
      /\ conn[c].open /\ conn[c].inbox # <<>>
      /\ conn' = [conn EXCEPT ![c].inbox = Tail(@)]
      /\ game' = [game EXCEPT ![c] = [world |-> None, fetching |-> Head(conn[c].inbox)]]
  BY DEF Receive, roomVars
<1>2. conn \in [Client -> Connection] /\ RoomTypes /\ game \in [Client -> Game]
  BY DEF WInv, PlayersOK, RoomTypes
<1>3. PICK q \in Seq(WorldId) : q = conn[c].inbox
  BY <1>2 DEF Connection
<1>4. /\ q # <<>> /\ Head(q) \in WorldId /\ Tail(q) \in Seq(WorldId)
      /\ Tail(q) = <<>> => q[Len(q)] = Head(q)
      /\ Tail(q) # <<>> => Tail(q)[Len(Tail(q))] = q[Len(q)]
  BY <1>1, <1>3, TailComes
<1>5. /\ \A d \in Client \ {c} : conn'[d] = conn[d] /\ game'[d] = game[d]
      /\ game'[c].world = None /\ game'[c].fetching = Head(q)
  BY <1>1, <1>2, <1>3
<1>6. conn'[c].open = conn[c].open /\ conn'[c].inbox = Tail(q)
  BY <1>1, <1>2, <1>3 DEF Connection
<1>7. conn' \in [Client -> Connection]
  <2>1. conn'[c] = [conn[c] EXCEPT !.inbox = Tail(q)] /\ conn[c] \in Connection
    BY <1>1, <1>2, <1>3
  <2>2. conn'[c] \in Connection
    BY <2>1, <1>4 DEF Connection
  <2>3. conn' = [d \in Client |-> conn'[d]] /\ \A d \in Client : conn'[d] \in Connection
    BY <1>1, <1>2, <1>5, <2>2
  <2> QED BY <2>3
<1>8. game' \in [Client -> Game]
  <2>1. [world |-> None, fetching |-> Head(q)] \in Game
    BY <1>4 DEF Game
  <2> QED BY <1>1, <1>2, <1>3, <2>1
<1>9. Comes(conn'[c], game'[c]) = Comes(conn[c], game[c])
  <2>1. Comes(conn[c], game[c]) = q[Len(q)]
    BY <1>3, <1>4 DEF Comes
  <2>2. CASE Tail(q) = <<>>
    <3>1. Head(q) # None
      BY <1>4, ConstantsAssumption
    <3> QED BY <2>1, <2>2, <3>1, <1>4, <1>5, <1>6 DEF Comes
  <2>3. CASE Tail(q) # <<>>
    BY <2>1, <2>3, <1>4, <1>6 DEF Comes
  <2> QED BY <2>2, <2>3
<1>10. OneComes(seat, conn, astray)'
  <2>1. ASSUME NEW d \in Sound(seat', astray')
        PROVE  /\ d \in Sound(seat, astray)
               /\ seat'[d].loaded \in {None, seat[d].loaded}
               /\ Comes(conn'[d], game'[d]) \in {None, Comes(conn[d], game[d])}
    BY <2>1, <1>1, <1>5, <1>9 DEF Sound
  <2> QED BY <2>1, StayTogether DEF WInv, PlayersOK
<1>11. \A d \in Client : conn'[d].open \/ conn'[d].inbox = <<>>
  BY <1>1, <1>5, <1>6 DEF WInv, PlayersOK
<1>12. RoomTypes'
  BY <1>1, <1>2, <1>5, <1>8 DEF RoomTypes
<1>13. NeverStranded'
  BY <1>1, <1>5, <1>6 DEF WInv, NeverStranded
<1> QED BY <1>1, <1>7, <1>10, <1>11, <1>12, <1>13 DEF WInv, PlayersOK

LEMMA FetchedKeeps ==
    ASSUME WInv, NEW c \in Client, Fetched(c) PROVE WInv'
<1>1. /\ UNCHANGED <<step, reaches, current, wanted, seat, conn, restarts, astray>>
      /\ game[c].fetching # None
      /\ game' = [game EXCEPT ![c] = [world |-> game[c].fetching, fetching |-> None]]
  BY DEF Fetched, roomVars
<1>2. RoomTypes /\ game \in [Client -> Game]
  BY DEF WInv, RoomTypes
<1>3. /\ \A d \in Client \ {c} : game'[d] = game[d]
      /\ game'[c].world = game[c].fetching /\ game'[c].fetching = None
  BY <1>1, <1>2
<1>4. game' \in [Client -> Game]
  <2>1. [world |-> game[c].fetching, fetching |-> None] \in Game
    BY <1>2 DEF Game
  <2> QED BY <1>1, <1>2, <2>1
<1>5. Comes(conn[c], game'[c]) = Comes(conn[c], game[c])
  BY <1>1, <1>3 DEF Comes
<1>6. OneComes(seat, conn, astray)'
  <2>1. ASSUME NEW d \in Sound(seat', astray')
        PROVE  /\ d \in Sound(seat, astray)
               /\ seat'[d].loaded \in {None, seat[d].loaded}
               /\ Comes(conn'[d], game'[d]) \in {None, Comes(conn[d], game[d])}
    BY <2>1, <1>1, <1>3, <1>5 DEF Sound
  <2> QED BY <2>1, StayTogether DEF WInv, PlayersOK
<1>7. RoomTypes'
  BY <1>1, <1>2, <1>3, <1>4 DEF RoomTypes
<1> QED BY <1>1, <1>6, <1>7 DEF WInv, PlayersOK, NeverStranded

LEMMA RestartKeeps ==
    ASSUME WInv, ServerRestarts PROVE WInv'
<1>1. /\ UNCHANGED <<step, game, conn>> /\ restarts' = restarts + 1 /\ wanted' = FALSE
      /\ seat' = [c \in Client |->
            IF seat[c] = None THEN None ELSE Member(FALSE, FALSE, Nothing)]
      /\ astray' = astray \cup {c \in Seated : seat[c].needs = World}
  BY DEF ServerRestarts
<1>2. current' \in Snapshot \cup {None} /\ reaches' \in BOOLEAN
  <2>1. step \in Nat
    BY DEF WInv, RoomTypes
  <2>2. CASE current' = None /\ reaches' = FALSE
    BY <2>2
  <2>3. CASE \E id \in WorldId, at \in 0..step :
                current' = [id |-> id, step |-> at] /\ reaches' = TRUE
    BY <2>1, <2>3 DEF Snapshot
  <2> QED BY <2>2, <2>3 DEF ServerRestarts
<1>3. /\ Member(FALSE, FALSE, Nothing) \in MemberRecord
      /\ ~Member(FALSE, FALSE, Nothing).linked /\ ~Member(FALSE, FALSE, Nothing).streaming
      /\ Member(FALSE, FALSE, Nothing).loaded = None
  BY Kinds DEF Member, MemberRecord
<1>4. \A c \in Client : seat'[c] # None =>
        seat[c] # None /\ seat'[c] = Member(FALSE, FALSE, Nothing)
  BY <1>1
<1>5. OneComes(seat, conn, astray)'
  <2>1. ASSUME NEW d \in Sound(seat', astray')
        PROVE  /\ d \in Sound(seat, astray)
               /\ seat'[d].loaded \in {None, seat[d].loaded}
               /\ Comes(conn'[d], game'[d]) \in {None, Comes(conn[d], game[d])}
    BY <2>1, <1>1, <1>3, <1>4 DEF Sound, Seated
  <2> QED BY <2>1, StayTogether DEF WInv, PlayersOK
<1>6. \A c \in Client : MemberOK(seat'[c])
  BY <1>3, <1>4 DEF MemberOK
<1>7. RoomTypes'
  <2>1. step \in Nat /\ restarts \in Nat
    BY DEF WInv, RoomTypes
  <2>2. step' = step /\ restarts' = restarts + 1 /\ wanted' \in BOOLEAN
    BY <1>1, Zenon
  <2>3. step' \in Nat /\ restarts' \in Nat
    BY <2>1, <2>2
  <2>4. astray' \subseteq Client /\ DOMAIN seat' = Client
    BY <1>1 DEF WInv, RoomTypes, Seated
  <2>5. /\ game' \in [Client -> Game]
        /\ \A c \in Client : game'[c].fetching # None => game'[c].world = None
    BY <1>1 DEF WInv, RoomTypes
  <2> QED BY <1>2, <2>2, <2>3, <2>4, <2>5 DEF RoomTypes
<1>8. NeverStranded'
  BY <1>3, <1>4 DEF NeverStranded, Waits
<1> QED BY <1>1, <1>5, <1>6, <1>7, <1>8 DEF WInv, PlayersOK

\* Of the joins, one that goes on with its turns is vouched for as before;
\* one that asks for a world is not until it is handed one.
LEMMA JoinKeeps ==
    ASSUME WInv, NEW c \in Client, JoinResuming(c) \/ JoinForWorld(c) \/ JoinLate(c)
    PROVE  WInv'
<1> DEFINE resumed == [seat[c] EXCEPT !.linked = TRUE, !.streaming = TRUE, !.needs = Nothing]
           waiting == [seat[c] EXCEPT !.linked = TRUE, !.streaming = FALSE, !.needs = World]
<1>1. RoomTypes /\ PlayersOK(seat, conn, astray) /\ DOMAIN seat = Client
      /\ conn \in [Client -> Connection] /\ MemberOK(seat[c])
  BY DEF WInv, RoomTypes, PlayersOK
<1>2. PICK new : /\ ~conn[c].open
                 /\ Offer([seat EXCEPT ![c] = new], [conn EXCEPT ![c] = NewConn])
                 /\ UNCHANGED <<roomVars, playerVars>>
                 /\ \/ seat[c] # None /\ seat[c].needs # World /\ new = resumed
                    \/ seat[c] # None /\ new = waiting
                    \/ new = Member(TRUE, FALSE, World)
  BY <1>1 DEF JoinResuming, JoinForWorld, JoinLate
<1>3. PICK members, conns : /\ members = [seat EXCEPT ![c] = new]
                            /\ conns = [conn EXCEPT ![c] = NewConn]
  OBVIOUS
<1>4. /\ members[c] = new /\ DOMAIN members = Client
      /\ \A d \in Client \ {c} : members[d] = seat[d] /\ conns[d] = conn[d]
      /\ conns[c] = NewConn /\ conns \in [Client -> Connection]
  BY <1>1, <1>3, NoConnection
<1>5. \/ /\ seat[c] # None /\ seat[c].needs # World
         /\ new \in MemberRecord /\ new.linked /\ new.streaming /\ new.needs = Nothing
         /\ new.loaded = seat[c].loaded
      \/ new \in MemberRecord /\ new.linked /\ ~new.streaming /\ new.needs = World
  <2>1. CASE seat[c] # None /\ seat[c].needs # World /\ new = resumed
    <3>1. seat[c] \in MemberRecord
      BY <2>1, <1>1 DEF MemberOK
    <3>2. new \in MemberRecord
      BY <2>1, <3>1, Kinds DEF MemberRecord
    <3>3. new.linked /\ new.streaming /\ new.needs = Nothing /\ new.loaded = seat[c].loaded
      BY <2>1, <3>1 DEF MemberRecord
    <3> QED BY <2>1, <3>2, <3>3
  <2>2. CASE seat[c] # None /\ new = waiting
    <3>1. seat[c] \in MemberRecord
      BY <2>2, <1>1 DEF MemberOK
    <3>2. new \in MemberRecord
      BY <2>2, <3>1, Kinds DEF MemberRecord
    <3>3. new.linked /\ ~new.streaming /\ new.needs = World
      BY <2>2, <3>1 DEF MemberRecord
    <3> QED BY <3>2, <3>3
  <2>3. CASE new = Member(TRUE, FALSE, World)
    BY <2>3, Kinds DEF Member, MemberRecord
  <2> QED BY <1>2, <2>1, <2>2, <2>3
<1>6. \A d \in Client : MemberOK(members[d])
  <2>1. MemberOK(members[c])
    BY <1>4, <1>5, Kinds DEF MemberOK
  <2> QED BY <2>1, <1>1, <1>4 DEF PlayersOK
<1>7. OneComes(members, conns, astray)
  <2>1. Comes(conns[c], game[c]) = Comes(conn[c], game[c])
    BY <1>1, <1>2, <1>4, NoConnection DEF PlayersOK, Comes
  <2>2. ASSUME NEW d \in Sound(members, astray)
        PROVE  /\ d \in Sound(seat, astray) /\ members[d].loaded = seat[d].loaded
               /\ Comes(conns[d], game[d]) = Comes(conn[d], game[d])
    BY <2>1, <2>2, <1>4, <1>5 DEF Sound
  <2> QED BY <2>2, <1>1, StayTogetherBefore DEF PlayersOK
<1>8. \A d \in Client : conns[d].open \/ conns[d].inbox = <<>>
  BY <1>1, <1>4, NoConnection DEF PlayersOK
<1>9. PlayersOK(members, conns, astray) /\ Offer(members, conns)
  BY <1>2, <1>3, <1>4, <1>6, <1>7, <1>8 DEF PlayersOK
<1> QED BY <1>1, <1>2, <1>4, <1>9, OfferCurrent

LEMMA NextWInv == WInv /\ [Next]_vars => WInv'
<1> SUFFICES ASSUME WInv, [Next]_vars PROVE WInv'
  OBVIOUS
<1>1. CASE Advance \/ WindowPasses
  BY <1>1, AdvanceKeeps
<1>2. CASE ServerRestarts
  BY <1>2, RestartKeeps
<1>3. ASSUME NEW at \in 0..step, NEW inReach \in BOOLEAN, Promote(at, inReach) PROVE WInv'
  BY <1>3, PromoteKeeps
<1>4. ASSUME NEW rested \in SUBSET Seated, NEW d \in 0..step, AnnounceDivergence(rested, d)
      PROVE  WInv'
  BY <1>4, AnnounceKeeps
<1>5. ASSUME NEW c \in Client,
             \/ Disconnected(c) \/ Drop(c)
             \/ JoinResuming(c) \/ JoinForWorld(c) \/ JoinLate(c) \/ Leave(c)
             \/ GameEnds(c) \/ Receive(c) \/ Fetched(c)
      PROVE  WInv'
  BY <1>5, DisconnectedKeeps, DropKeeps, JoinKeeps, LeaveKeeps, ReceiveKeeps, FetchedKeeps
<1>6. CASE UNCHANGED vars
  <2>1. UNCHANGED <<step, reaches, current, wanted, seat, conn, game, restarts, astray>>
    BY <1>6 DEF vars, roomVars, playerVars
  <2>2. OneComes(seat, conn, astray)'
    BY <2>1, StayTogether DEF WInv, PlayersOK
  <2> QED BY <2>1, <2>2 DEF WInv, PlayersOK, RoomTypes, NeverStranded
<1> QED BY <1>1, <1>2, <1>3, <1>4, <1>5, <1>6 DEF Next
-----------------------------------------------------------------------------
\* The invariant, in all states the rooms reach.
THEOREM WorldsInvariant == Spec => []WInv
BY InitWInv, NextWInv, PTL DEF Spec

\* Every variable has its type; who owes a world has no stream.
THEOREM WorldsTypeCorrect == Spec => []TypeOK
<1>1. WInv => TypeOK
  <2> SUFFICES ASSUME WInv PROVE TypeOK
    OBVIOUS
  <2>1. RoomTypes /\ conn \in [Client -> Connection] /\ \A c \in Client : MemberOK(seat[c])
    BY DEF WInv, PlayersOK
  <2>2. ASSUME NEW c \in Client, seat[c] # None
        PROVE  /\ seat[c].linked \in BOOLEAN /\ seat[c].streaming \in BOOLEAN
               /\ seat[c].needs.kind \in {"nothing", "world", "rebase"}
               /\ seat[c].needs.after \in Nat
               /\ seat[c].loaded \in WorldId \cup {None}
               /\ seat[c].streaming => seat[c].linked /\ seat[c].needs # World
    BY <2>1, <2>2 DEF MemberOK, MemberRecord
  <2>3. \A c \in Client : /\ conn[c].open \in BOOLEAN /\ conn[c].inbox \in Seq(WorldId)
                          /\ game[c].world \in WorldId \cup {Own, None}
                          /\ game[c].fetching \in WorldId \cup {None}
    BY <2>1 DEF RoomTypes, Connection, Game
  <2> QED BY <2>1, <2>2, <2>3 DEF TypeOK, RoomTypes
<1> QED BY <1>1, WorldsInvariant, PTL

\* A player that plays, and for whom no world was lost on its way, is vouched
\* for, and comes to play what it plays.
LEMMA SettledComes ==
    ASSUME WInv, NEW c \in Client, Settled(c), c \notin astray
    PROVE  c \in Sound(seat, astray) /\ Comes(conn[c], game[c]) = game[c].world
           /\ game[c].world # None
<1>1. MemberOK(seat[c]) /\ RoomTypes
  BY DEF WInv, PlayersOK
<1>2. seat[c] # None /\ seat[c].needs # World
  BY <1>1 DEF Settled, Streams, MemberOK
<1>3. game[c].fetching = None
  BY <1>1 DEF RoomTypes, Settled
<1> QED BY <1>2, <1>3 DEF Sound, Comes, Settled

\* All who play, play from the same loaded save, however each came by it.
THEOREM TogetherAlways == Spec => []Together
<1>1. WInv => Together
  <2> SUFFICES ASSUME WInv, NEW c \in Client, NEW d \in Client, Settled(c), Settled(d),
                      {c, d} \cap astray = {}
               PROVE  game[c].world = game[d].world
    BY DEF Together
  <2> QED BY SettledComes DEF WInv, PlayersOK, OneComes
<1> QED BY <1>1, WorldsInvariant, PTL

\* What the room takes a member to have loaded is what its game plays.
THEOREM RoomKnowsAlways == Spec => []RoomKnows
<1>1. WInv => RoomKnows
  BY SettledComes DEF RoomKnows, WInv, PlayersOK, OneComes
<1> QED BY <1>1, WorldsInvariant, PTL

\* While a connected member waits for a world, the room wants a save.
THEOREM NeverStrandedAlways == Spec => []NeverStranded
<1>1. WInv => NeverStranded
  BY DEF WInv
<1> QED BY <1>1, WorldsInvariant, PTL
=============================================================================
