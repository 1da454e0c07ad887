---------------------------- MODULE DrainProofs ----------------------------
(***************************************************************************)
(* What Drain promises for any number of turns, restarts and failing       *)
(* steps, also where the older server is left with a log it handed over.   *)
(*                                                                         *)
(* What players were sent is in the older server's log or away from it: in *)
(* the hand-over, with the newer server or set aside, between which it     *)
(* moves without ever being in none.  The older server lets its log go only*)
(* once it is away.  A world goes ahead of its log, and unless it is let   *)
(* go of in between, it is there when the game runs.                       *)
(***************************************************************************)
EXTENDS Drain, TLAPS

ServerGame == [runs : BOOLEAN, log : {None} \cup Log, world : {None} \cup World]
NewGame == [runs : BOOLEAN, log : {None} \cup Log, pointer : {None} \cup World,
            world : {None} \cup World]
Export == [is : {"log", "pointer", "worlds", "written", "published"},
           written : Log, held : SUBSET World]

\* TypeOK, with the whole of every record.
DTypeOK ==
    /\ old \in ServerGame /\ new \in NewGame
    /\ partial \in {None} \cup Directory /\ handed \in {None} \cup Directory
    /\ broken \in {None} \cup Directory /\ aside \subseteq Log
    /\ export \in {None} \cup Export
    /\ taking \in {None, "worlds", "pointer", "log", "recover", "hold"}
    /\ store \subseteq World /\ players \subseteq Server /\ turns \in 0..MaxTurns
    /\ draining \in BOOLEAN /\ other \in BOOLEAN /\ bare \in BOOLEAN
    /\ sent \subseteq Log /\ expired \subseteq Log

\* `log` is away from the older server.
IsAway(log) ==
    \/ new.log # None /\ log \subseteq new.log
    \/ handed # None /\ handed.log # None /\ log \subseteq handed.log
    \/ broken # None /\ broken.log # None /\ log \subseteq broken.log
    \/ \E kept \in aside \cup expired : log \subseteq kept

\* A game that runs has a log, and players are connected to one that runs.
RunsOK ==
    /\ old.runs => old.log # None
    /\ "old" \in players => old.runs
    /\ new.runs => new.log # None
    /\ "new" \in players => new.runs

\* What the export has written is the game as it is, unless it went on; what
\* was published is away.
ExportOK ==
    /\ old.log # None => old.log \subseteq 1..turns
    /\ export # None =>
          /\ draining
          /\ old.runs <=> export.is # "published"
          /\ partial = None <=> export.is = "published"
          /\ export.is = "published" => old.log # None /\ IsAway(old.log)
          /\ export.is # "published" => export.written \subseteq old.log
          /\ export.is # "published" /\ export.written = old.log =>
                /\ export.held = {old.world} \ {None}
                /\ export.is # "log" => partial.log = old.log
                /\ export.is \in {"worlds", "written"} => partial.pointer = old.world
                /\ export.is = "written" => partial.worlds = {old.world} \ {None}

\* A log that was handed over has its world beside it, named by the pointer
\* that goes ahead of the log.
HandedOK ==
    handed # None /\ handed.log # None =>
        \/ handed.worlds = {}
        \/ handed.pointer # None /\ handed.worlds = {handed.pointer}
        \/ /\ handed.pointer = None /\ new.log = None
           /\ new.pointer # None /\ handed.worlds = {new.pointer}

\* How far the newer server is with a game.
TakingOK ==
    /\ taking # None => handed # None /\ ~new.runs
    /\ taking \in {"worlds", "pointer", "log"} => new.log = None
    /\ taking \in {"recover", "hold"} => new.log # None /\ handed.log = None
    /\ taking = "log" => handed.pointer = None
    /\ new.log # None => new.runs \/ taking \in {"recover", "hold"}

\* Its world is ingested before its log is there, and stays.
WorldOK ==
    ~bare =>
        /\ taking # None => handed.worlds # {}
        /\ taking \in {"pointer", "log", "recover", "hold"} => handed.worlds \subseteq store
        /\ taking \in {"recover", "hold"} => new.pointer # None /\ handed.worlds = {new.pointer}
        /\ taking = "hold" => new.world = new.pointer
        /\ new.runs => new.world # None /\ new.world = new.pointer /\ new.world \in store

\* TurnsKept, by where what was sent is.
KeptOK == \A log \in sent : IsAway(log) \/ (old.log # None /\ log \subseteq old.log)

DInv ==
    /\ DTypeOK /\ RunsOK /\ ExportOK /\ HandedOK /\ TakingOK /\ WorldOK /\ KeptOK

-----------------------------------------------------------------------------
LEMMA ZeroInWorld == World0 \in World /\ None \notin World
BY DrainAssumption, NoneAssumption DEF World, World0

LEMMA NoneIsNoLog == \A log \in Log : log # None
BY NoneAssumption

LEMMA DInvImplies == DInv => TypeOK /\ TurnsKept /\ HasItsWorld
<1> SUFFICES ASSUME DInv PROVE TypeOK /\ TurnsKept /\ HasItsWorld
  OBVIOUS
<1>1. TypeOK
  BY DEF DInv, DTypeOK, ExportOK, TakingOK, TypeOK, ServerGame, NewGame, Export
<1>2. TurnsKept
  <2> SUFFICES ASSUME NEW log \in sent
               PROVE  \E kept \in Logs \cup expired : log \subseteq kept
    BY DEF TurnsKept
  <2>1. CASE old.log # None /\ log \subseteq old.log
    BY <2>1 DEF Logs
  <2>2. CASE new.log # None /\ log \subseteq new.log
    BY <2>2 DEF Logs, Away
  <2>3. CASE handed # None /\ handed.log # None /\ log \subseteq handed.log
    BY <2>3 DEF Logs, Away
  <2>4. CASE broken # None /\ broken.log # None /\ log \subseteq broken.log
    BY <2>4 DEF Logs, Away
  <2>5. CASE \E kept \in aside \cup expired : log \subseteq kept
    <3>1. PICK kept \in aside \cup expired : log \subseteq kept
      BY <2>5
    <3>2. CASE kept \in expired
      BY <3>1, <3>2
    <3>3. CASE kept \in aside
      <4>1. kept # None
        BY <3>3, NoneIsNoLog DEF DInv, DTypeOK
      <4> QED BY <3>1, <3>3, <4>1 DEF Logs, Away
    <3> QED BY <3>1, <3>2, <3>3
  <2> QED BY <2>1, <2>2, <2>3, <2>4, <2>5 DEF DInv, KeptOK, IsAway
<1>3. HasItsWorld
  BY DEF DInv, WorldOK, HasItsWorld
<1> QED BY <1>1, <1>2, <1>3

LEMMA DInvInit == Init => DInv
<1> SUFFICES ASSUME Init PROVE DInv
  OBVIOUS
<1> USE DrainAssumption, NoneAssumption DEF Init
<1>1. {} \in Log /\ {} # None
  BY DEF Log
<1>2. DTypeOK
  <2>1. 0 \in World /\ 0 \in 0..MaxTurns
    BY ZeroInWorld DEF World, World0
  <2> QED BY <1>1, <2>1 DEF DTypeOK, ServerGame, NewGame, World0, Server
<1>3. RunsOK /\ ExportOK /\ HandedOK /\ TakingOK /\ WorldOK /\ KeptOK
  BY <1>1 DEF RunsOK, ExportOK, HandedOK, TakingOK, WorldOK, KeptOK
<1> QED BY <1>2, <1>3 DEF DInv

LEMMA OldPlaysKept == ASSUME DInv, OldPlays PROVE DInv'
<1> USE DrainAssumption, NoneAssumption, NoneIsNoLog, ZeroInWorld DEF DInv, OldPlays, Plays, older, newer, between, history
<1> DEFINE turn == turns + 1
<1>a. PICK world \in {old.world, turn} :
          old' = [old EXCEPT !.log = @ \cup {turn}, !.world = world]
  OBVIOUS
<1>b. old.runs /\ old.log # None /\ old.log \in Log /\ turns \in 0..MaxTurns
      /\ turns' = turn /\ turn \in Turn /\ turn \in World /\ turn \in 0..MaxTurns
  BY DEF DTypeOK, RunsOK, ServerGame, Turn, World
<1>c. old.log \cup {turn} \in Log
  BY <1>b DEF Log
<1>d. old'.log = old.log \cup {turn} /\ old'.runs /\ old'.log # None
  BY <1>a, <1>b, <1>c DEF DTypeOK, ServerGame
<1>e. old' \in ServerGame
  BY <1>a, <1>b, <1>c DEF DTypeOK, ServerGame
<1>1. DTypeOK'
  BY <1>b, <1>c, <1>e DEF DTypeOK
<1>2. RunsOK'
  BY <1>d DEF RunsOK
<1>3. ExportOK'
  <2>1. old'.log \subseteq 1..turns'
    BY <1>b, <1>d DEF ExportOK
  <2>2. turn \notin old.log
    BY <1>b DEF ExportOK
  <2>3. ASSUME export # None
        PROVE  /\ export.is # "published" /\ export.written \subseteq old'.log
               /\ export.written # old'.log
    BY <1>b, <1>d, <2>2, <2>3 DEF ExportOK
  <2> QED BY <1>d, <2>1, <2>3 DEF ExportOK
<1>4. HandedOK'
  BY DEF HandedOK
<1>5. TakingOK'
  BY DEF TakingOK
<1>6. WorldOK'
  BY DEF WorldOK
<1>7. KeptOK'
  BY <1>b, <1>d DEF KeptOK, IsAway
<1> QED BY <1>1, <1>2, <1>3, <1>4, <1>5, <1>6, <1>7

LEMMA NewPlaysKept == ASSUME DInv, NewPlays PROVE DInv'
<1> USE DrainAssumption, NoneAssumption, NoneIsNoLog, ZeroInWorld DEF DInv, NewPlays, Plays, older, newer, between, history
<1> DEFINE turn == turns + 1
<1>b. new.runs /\ new.log # None /\ new.log \in Log /\ turns \in 0..MaxTurns
      /\ turns' = turn /\ turn \in Turn /\ turn \in 0..MaxTurns /\ taking = None
  BY DEF DTypeOK, RunsOK, TakingOK, NewGame, Turn
<1>c. new.log \cup {turn} \in Log /\ new.log \cup {turn} # None
  BY <1>b DEF Log
<1>d. new' = [new EXCEPT !.log = new.log \cup {turn}] /\ new'.log = new.log \cup {turn}
      /\ new' \in NewGame
  BY <1>b, <1>c DEF DTypeOK, NewGame
<1>e. new'.runs /\ new'.pointer = new.pointer /\ new'.world = new.world
  BY <1>b, <1>d DEF DTypeOK, NewGame
<1>f. \A log : IsAway(log) => IsAway(log)'
  BY <1>b, <1>c, <1>d DEF IsAway
<1>g. \A log : log \subseteq new'.log => IsAway(log)'
  BY <1>c, <1>d DEF IsAway
<1>h. sent' = sent \cup {new'.log} /\ UNCHANGED old
  BY <1>d
<1>1. DTypeOK'
  BY <1>b, <1>c, <1>d DEF DTypeOK
<1>2. RunsOK'
  BY <1>c, <1>d, <1>e DEF RunsOK
<1>3. ExportOK'
  <2>1. old.log # None => old.log \subseteq 1..turns'
    BY <1>b DEF ExportOK
  <2> QED BY <1>f, <2>1 DEF ExportOK
<1>4. HandedOK'
  BY <1>b, <1>c, <1>d, <1>e DEF HandedOK
<1>5. TakingOK'
  BY <1>b, <1>e DEF TakingOK
<1>6. WorldOK'
  BY <1>b, <1>e DEF WorldOK
<1>7. KeptOK'
  BY <1>f, <1>g, <1>h DEF KeptOK
<1> QED BY <1>1, <1>2, <1>3, <1>4, <1>5, <1>6, <1>7

LEMMA StartDrainKept == ASSUME DInv, StartDrain PROVE DInv'
<1> USE DrainAssumption, NoneAssumption, NoneIsNoLog, ZeroInWorld DEF DInv, StartDrain, older, newer, between, history
<1>1. DTypeOK'
  BY DEF DTypeOK
<1>2. RunsOK'
  BY DEF RunsOK
<1>3. ExportOK'
  BY DEF ExportOK, IsAway
<1>4. HandedOK'
  BY DEF HandedOK
<1>5. TakingOK'
  BY DEF TakingOK
<1>6. WorldOK'
  BY DEF WorldOK
<1>7. KeptOK'
  BY DEF KeptOK, IsAway
<1> QED BY <1>1, <1>2, <1>3, <1>4, <1>5, <1>6, <1>7

LEMMA OldExpiresKept == ASSUME DInv, OldExpires PROVE DInv'
<1> USE DrainAssumption, NoneAssumption, NoneIsNoLog, ZeroInWorld DEF DInv, OldExpires, older, newer, between, history
<1>a. \A log : IsAway(log) => IsAway(log)'
  BY DEF IsAway
<1>b. old.log \in Log /\ old.log # None /\ export = None
  BY DEF DTypeOK, RunsOK, ExportOK, ServerGame
<1>c. \A log : log \subseteq old.log => IsAway(log)'
  BY <1>b DEF IsAway
<1>1. DTypeOK'
  BY <1>b DEF DTypeOK, ServerGame
<1>2. RunsOK'
  BY DEF RunsOK
<1>3. ExportOK'
  BY <1>b DEF ExportOK
<1>4. HandedOK'
  BY DEF HandedOK
<1>5. TakingOK'
  BY DEF TakingOK
<1>6. WorldOK'
  BY DEF WorldOK
<1>7. KeptOK'
  BY <1>a, <1>c DEF KeptOK
<1> QED BY <1>1, <1>2, <1>3, <1>4, <1>5, <1>6, <1>7

LEMMA StartExportKept == ASSUME DInv, StartExport PROVE DInv'
<1> USE DrainAssumption, NoneAssumption, NoneIsNoLog, ZeroInWorld DEF DInv, StartExport, Empty, older, newer, between, history
<1>1. DTypeOK'
  BY DEF DTypeOK, ServerGame, Directory, RunsOK, Export
<1>2. RunsOK'
  BY DEF RunsOK
<1>3. ExportOK'
  BY DEF ExportOK, IsAway, DTypeOK, ServerGame, Directory, RunsOK
<1>4. HandedOK'
  BY DEF HandedOK
<1>5. TakingOK'
  BY DEF TakingOK
<1>6. WorldOK'
  BY DEF WorldOK
<1>7. KeptOK'
  BY DEF KeptOK, IsAway
<1> QED BY <1>1, <1>2, <1>3, <1>4, <1>5, <1>6, <1>7

LEMMA ExportLogKept == ASSUME DInv, ExportLog PROVE DInv'
<1> USE DrainAssumption, NoneAssumption, NoneIsNoLog, ZeroInWorld DEF DInv, ExportLog, Exported, older, newer, between, history
<1>a. export' = [export EXCEPT !.is = "pointer"] /\ export \in Export /\ export' \in Export
  BY DEF DTypeOK, Export
<1>b. partial \in Directory /\ old.runs /\ old.log \in Log /\ old.log # None
      /\ old.world \in {None} \cup World
  BY DEF DTypeOK, ExportOK, RunsOK, ServerGame
<1>c. partial' = [partial EXCEPT !.log = old.log] /\ partial' \in Directory /\ partial' # None
  BY <1>a, <1>b DEF Directory, Export
<1>d. export'.is = "pointer" /\ export'.written = export.written /\ export'.held = export.held
  BY <1>a DEF Export
<1>e. UNCHANGED <<old, turns>> /\ \A log : IsAway(log)' <=> IsAway(log)
  BY DEF IsAway
<1>1. DTypeOK'
  BY <1>a, <1>c DEF DTypeOK
<1>2. RunsOK'
  BY DEF RunsOK
<1>3. ExportOK'
  BY <1>b, <1>c, <1>d, <1>e DEF ExportOK, Directory
<1>4. HandedOK'
  BY DEF HandedOK
<1>5. TakingOK'
  BY DEF TakingOK
<1>6. WorldOK'
  BY DEF WorldOK
<1>7. KeptOK'
  BY DEF KeptOK, IsAway
<1> QED BY <1>1, <1>2, <1>3, <1>4, <1>5, <1>6, <1>7

LEMMA ExportPointerKept == ASSUME DInv, ExportPointer PROVE DInv'
<1> USE DrainAssumption, NoneAssumption, NoneIsNoLog, ZeroInWorld DEF DInv, ExportPointer, Exported, older, newer, between, history
<1>a. export' = [export EXCEPT !.is = "worlds"] /\ export \in Export /\ export' \in Export
  BY DEF DTypeOK, Export
<1>b. partial \in Directory /\ old.runs /\ old.log \in Log /\ old.log # None
      /\ old.world \in {None} \cup World
  BY DEF DTypeOK, ExportOK, RunsOK, ServerGame
<1>c. partial' = [partial EXCEPT !.pointer = old.world] /\ partial' \in Directory /\ partial' # None
  BY <1>a, <1>b DEF Directory, Export
<1>d. export'.is = "worlds" /\ export'.written = export.written /\ export'.held = export.held
  BY <1>a DEF Export
<1>e. UNCHANGED <<old, turns>> /\ \A log : IsAway(log)' <=> IsAway(log)
  BY DEF IsAway
<1>1. DTypeOK'
  BY <1>a, <1>c DEF DTypeOK
<1>2. RunsOK'
  BY DEF RunsOK
<1>3. ExportOK'
  BY <1>b, <1>c, <1>d, <1>e DEF ExportOK, Directory
<1>4. HandedOK'
  BY DEF HandedOK
<1>5. TakingOK'
  BY DEF TakingOK
<1>6. WorldOK'
  BY DEF WorldOK
<1>7. KeptOK'
  BY DEF KeptOK, IsAway
<1> QED BY <1>1, <1>2, <1>3, <1>4, <1>5, <1>6, <1>7

LEMMA ExportWorldsKept == ASSUME DInv, ExportWorlds PROVE DInv'
<1> USE DrainAssumption, NoneAssumption, NoneIsNoLog, ZeroInWorld DEF DInv, ExportWorlds, Exported, older, newer, between, history
<1>a. export' = [export EXCEPT !.is = "written"] /\ export \in Export /\ export' \in Export
  BY DEF DTypeOK, Export
<1>b. partial \in Directory /\ old.runs /\ old.log \in Log /\ old.log # None
      /\ old.world \in {None} \cup World
  BY DEF DTypeOK, ExportOK, RunsOK, ServerGame
<1>c. partial' = [partial EXCEPT !.worlds = export.held] /\ partial' \in Directory /\ partial' # None
  BY <1>a, <1>b DEF Directory, Export
<1>d. export'.is = "written" /\ export'.written = export.written /\ export'.held = export.held
  BY <1>a DEF Export
<1>e. UNCHANGED <<old, turns>> /\ \A log : IsAway(log)' <=> IsAway(log)
  BY DEF IsAway
<1>1. DTypeOK'
  BY <1>a, <1>c DEF DTypeOK
<1>2. RunsOK'
  BY DEF RunsOK
<1>3. ExportOK'
  BY <1>b, <1>c, <1>d, <1>e DEF ExportOK, Directory
<1>4. HandedOK'
  BY DEF HandedOK
<1>5. TakingOK'
  BY DEF TakingOK
<1>6. WorldOK'
  BY DEF WorldOK
<1>7. KeptOK'
  BY DEF KeptOK, IsAway
<1> QED BY <1>1, <1>2, <1>3, <1>4, <1>5, <1>6, <1>7

LEMMA ExportFailsKept == ASSUME DInv, ExportFails PROVE DInv'
<1> USE DrainAssumption, NoneAssumption, NoneIsNoLog, ZeroInWorld DEF DInv, ExportFails, Fail, older, newer, between, history
<1>1. DTypeOK'
  BY DEF DTypeOK
<1>2. RunsOK'
  BY DEF RunsOK
<1>3. ExportOK'
  BY DEF ExportOK, IsAway
<1>4. HandedOK'
  BY DEF HandedOK
<1>5. TakingOK'
  BY DEF TakingOK
<1>6. WorldOK'
  BY DEF WorldOK
<1>7. KeptOK'
  BY DEF KeptOK, IsAway
<1> QED BY <1>1, <1>2, <1>3, <1>4, <1>5, <1>6, <1>7

LEMMA FinishHandoverKept == ASSUME DInv, FinishHandover PROVE DInv'
<1> USE DrainAssumption, NoneAssumption, NoneIsNoLog, ZeroInWorld DEF DInv, FinishHandover, Stays, older, newer, between, history
<1>a. export \in Export /\ old \in ServerGame /\ partial \in Directory /\ old.log \in Log
      /\ old.log # None
  BY DEF DTypeOK, ExportOK, RunsOK, ServerGame
<1>b. ASSUME ~Stays
      PROVE  /\ handed = None /\ handed' = partial /\ handed'.log = old.log /\ handed' # None
             /\ handed'.pointer = old.world /\ handed'.worlds = {old.world} \ {None}
             /\ export'.is = "published" /\ export' \in Export
             /\ old' \in ServerGame /\ old'.log = old.log /\ old'.world = old.world /\ ~old'.runs
  <2>1. /\ handed = None /\ handed' = partial /\ handed' # None /\ old.log = export.written
        /\ export' = [export EXCEPT !.is = "published"] /\ old' = [old EXCEPT !.runs = FALSE]
    BY <1>a, <1>b
  <2>2. partial.log = old.log /\ partial.pointer = old.world /\ partial.worlds = {old.world} \ {None}
    BY <2>1 DEF ExportOK
  <2>3. export'.is = "published" /\ export' \in Export
    BY <1>a, <2>1 DEF Export
  <2>4. old' \in ServerGame /\ old'.log = old.log /\ old'.world = old.world /\ ~old'.runs
    BY <1>a, <2>1 DEF ServerGame
  <2> QED BY <2>1, <2>2, <2>3, <2>4
<1>c. \A log : IsAway(log) => IsAway(log)'
  BY <1>b DEF IsAway
<1>d. ~Stays => IsAway(old.log)'
  BY <1>a, <1>b DEF IsAway
<1>1. DTypeOK'
  BY <1>a, <1>b DEF DTypeOK
<1>2. RunsOK'
  BY <1>b DEF RunsOK
<1>3. ExportOK'
  BY <1>a, <1>b, <1>d DEF ExportOK
<1>4. HandedOK'
  BY <1>b DEF HandedOK
<1>5. TakingOK'
  BY <1>b DEF TakingOK
<1>6. WorldOK'
  BY <1>b DEF WorldOK, TakingOK
<1>7. KeptOK'
  BY <1>b, <1>c DEF KeptOK
<1> QED BY <1>1, <1>2, <1>3, <1>4, <1>5, <1>6, <1>7

LEMMA DiscardGameKept == ASSUME DInv, DiscardGame PROVE DInv'
<1> USE DrainAssumption, NoneAssumption, NoneIsNoLog, ZeroInWorld DEF DInv, DiscardGame, Discard, older, newer, between, history
<1>a. \A log : IsAway(log)' <=> IsAway(log)
  BY DEF IsAway
<1>b. \A log : log \subseteq old.log => IsAway(log)
  BY DEF ExportOK, IsAway
<1>1. DTypeOK'
  BY DEF DTypeOK, ServerGame
<1>2. RunsOK'
  BY DEF RunsOK, ExportOK
<1>3. ExportOK'
  BY DEF ExportOK
<1>4. HandedOK'
  BY DEF HandedOK
<1>5. TakingOK'
  BY DEF TakingOK
<1>6. WorldOK'
  BY DEF WorldOK
<1>7. KeptOK'
  BY <1>a, <1>b DEF KeptOK
<1> QED BY <1>1, <1>2, <1>3, <1>4, <1>5, <1>6, <1>7

LEMMA DiscardFailsKept == ASSUME DInv, DiscardFails PROVE DInv'
<1> USE DrainAssumption, NoneAssumption, NoneIsNoLog, ZeroInWorld DEF DInv, DiscardFails, Discard, Fail, older, newer, between, history
<1>1. DTypeOK'
  BY DEF DTypeOK, ServerGame
<1>2. RunsOK'
  BY DEF RunsOK, ExportOK
<1>3. ExportOK'
  BY DEF ExportOK, IsAway
<1>4. HandedOK'
  BY DEF HandedOK
<1>5. TakingOK'
  BY DEF TakingOK
<1>6. WorldOK'
  BY DEF WorldOK
<1>7. KeptOK'
  BY DEF KeptOK, IsAway
<1> QED BY <1>1, <1>2, <1>3, <1>4, <1>5, <1>6, <1>7

LEMMA OldRestartsKept == ASSUME DInv, OldRestarts PROVE DInv'
<1> USE DrainAssumption, NoneAssumption, NoneIsNoLog, ZeroInWorld DEF DInv, OldRestarts, Stops, older, newer, between, history
<1>a. old' \in ServerGame /\ old'.log = old.log /\ (old'.runs => old.log # None)
      /\ (old.runs => old'.runs)
  BY DEF DTypeOK, RunsOK, ServerGame
<1>1. DTypeOK'
  BY <1>a DEF DTypeOK
<1>2. RunsOK'
  BY <1>a DEF RunsOK
<1>3. ExportOK'
  BY <1>a DEF ExportOK
<1>4. HandedOK'
  BY DEF HandedOK
<1>5. TakingOK'
  BY DEF TakingOK
<1>6. WorldOK'
  BY DEF WorldOK
<1>7. KeptOK'
  BY <1>a DEF KeptOK, IsAway
<1> QED BY <1>1, <1>2, <1>3, <1>4, <1>5, <1>6, <1>7

LEMMA TakeInKept == ASSUME DInv, TakeIn PROVE DInv'
<1> USE DrainAssumption, NoneAssumption, NoneIsNoLog, ZeroInWorld DEF DInv, TakeIn, SetAside, older, newer, between, history
<1>a. \A log : IsAway(log) => IsAway(log)'
  BY DEF IsAway
<1>b. taking = None /\ handed # None
  OBVIOUS
<1>c. ASSUME new.log # None PROVE TakingOK' /\ WorldOK'
  <2>1. taking' = None /\ UNCHANGED <<bare, new, store, other>>
    BY <1>c
  <2> QED BY <1>b, <2>1 DEF TakingOK, WorldOK
<1>d. ASSUME new.log = None PROVE TakingOK' /\ WorldOK'
  <2>1. taking' = "worlds" /\ bare' = (handed.worlds = {}) /\ UNCHANGED <<handed, broken, new, store, other>>
    BY <1>d
  <2>2. ~new.runs
    BY <1>d DEF RunsOK
  <2> QED BY <1>b, <1>d, <2>1, <2>2 DEF TakingOK, WorldOK
<1>1. DTypeOK'
  BY DEF DTypeOK
<1>2. RunsOK'
  BY DEF RunsOK
<1>3. ExportOK'
  BY <1>a DEF ExportOK
<1>4. HandedOK'
  BY DEF HandedOK
<1>5. TakingOK'
  BY <1>c, <1>d
<1>6. WorldOK'
  BY <1>c, <1>d
<1>7. KeptOK'
  BY <1>a DEF KeptOK
<1> QED BY <1>1, <1>2, <1>3, <1>4, <1>5, <1>6, <1>7

LEMMA IngestKept == ASSUME DInv, Ingest PROVE DInv'
<1> USE DrainAssumption, NoneAssumption, NoneIsNoLog, ZeroInWorld DEF DInv, Ingest, older, newer, between, history
<1>a. \A log : IsAway(log) => IsAway(log)'
  BY DEF IsAway
<1>1. DTypeOK'
  BY DEF DTypeOK, Directory, TakingOK
<1>2. RunsOK'
  BY DEF RunsOK
<1>3. ExportOK'
  BY <1>a DEF ExportOK
<1>4. HandedOK'
  BY DEF HandedOK
<1>5. TakingOK'
  BY DEF TakingOK
<1>6. WorldOK'
  BY DEF WorldOK, TakingOK
<1>7. KeptOK'
  BY <1>a DEF KeptOK
<1> QED BY <1>1, <1>2, <1>3, <1>4, <1>5, <1>6, <1>7

LEMMA TakePointerKept == ASSUME DInv, TakePointer PROVE DInv'
<1> USE DrainAssumption, NoneAssumption, NoneIsNoLog, ZeroInWorld DEF DInv, TakePointer, older, newer, between, history
<1>b. handed \in Directory /\ handed' \in Directory /\ handed' # None /\ handed'.log = handed.log
      /\ handed'.worlds = handed.worlds /\ handed'.pointer = None
  BY DEF DTypeOK, TakingOK, Directory
<1>c. new' \in NewGame /\ new'.log = new.log /\ new'.runs = new.runs /\ new'.world = new.world
      /\ new'.pointer = IF handed.pointer = None THEN new.pointer ELSE handed.pointer
  BY <1>b DEF DTypeOK, NewGame, Directory
<1>a. \A log : IsAway(log) => IsAway(log)'
  BY <1>b, <1>c DEF IsAway
<1>1. DTypeOK'
  BY <1>b, <1>c DEF DTypeOK
<1>2. RunsOK'
  BY <1>c DEF RunsOK
<1>3. ExportOK'
  BY <1>a DEF ExportOK
<1>4. HandedOK'
  BY <1>b, <1>c DEF HandedOK, TakingOK
<1>5. TakingOK'
  BY <1>b, <1>c DEF TakingOK
<1>6. WorldOK'
  BY <1>b, <1>c DEF WorldOK, TakingOK
<1>7. KeptOK'
  BY <1>a DEF KeptOK
<1> QED BY <1>1, <1>2, <1>3, <1>4, <1>5, <1>6, <1>7

LEMMA TakeLogKept == ASSUME DInv, TakeLog PROVE DInv'
<1> USE DrainAssumption, NoneAssumption, NoneIsNoLog, ZeroInWorld DEF DInv, TakeLog, SetAside, older, newer, between, history
<1>b. handed \in Directory /\ new.log = None /\ ~new.runs
  BY DEF DTypeOK, TakingOK
<1>c. ASSUME handed.log # None
      PROVE  /\ handed' \in Directory /\ handed' # None /\ handed'.log = None
             /\ handed'.worlds = handed.worlds /\ handed'.pointer = handed.pointer
             /\ new' \in NewGame /\ new'.log = handed.log /\ new'.runs = new.runs
             /\ new'.pointer = new.pointer
  BY <1>b, <1>c DEF DTypeOK, NewGame, Directory
<1>a. \A log : IsAway(log) => IsAway(log)'
  BY <1>b, <1>c DEF IsAway
<1>1. DTypeOK'
  BY <1>b, <1>c DEF DTypeOK
<1>2. RunsOK'
  BY <1>b, <1>c DEF RunsOK
<1>3. ExportOK'
  BY <1>a DEF ExportOK
<1>4. HandedOK'
  BY <1>b, <1>c DEF HandedOK
<1>5. TakingOK'
  BY <1>b, <1>c DEF TakingOK
<1>6. WorldOK'
  BY <1>b, <1>c DEF WorldOK, HandedOK, TakingOK
<1>7. KeptOK'
  BY <1>a DEF KeptOK
<1> QED BY <1>1, <1>2, <1>3, <1>4, <1>5, <1>6, <1>7

LEMMA RecoverKept == ASSUME DInv, Recover PROVE DInv'
<1> USE DrainAssumption, NoneAssumption, NoneIsNoLog, ZeroInWorld DEF DInv, Recover, Restored, older, newer, between, history
<1>b. new' \in NewGame /\ new'.log = new.log /\ new'.runs = new.runs /\ new'.pointer = new.pointer
      /\ new'.world = IF new.pointer \in store THEN new.pointer ELSE None
  BY DEF DTypeOK, NewGame
<1>a. \A log : IsAway(log) => IsAway(log)'
  BY <1>b DEF IsAway
<1>1. DTypeOK'
  BY <1>b DEF DTypeOK
<1>2. RunsOK'
  BY <1>b DEF RunsOK
<1>3. ExportOK'
  BY <1>a DEF ExportOK
<1>4. HandedOK'
  BY <1>b DEF HandedOK
<1>5. TakingOK'
  BY <1>b DEF TakingOK
<1>6. WorldOK'
  BY <1>b DEF WorldOK, TakingOK
<1>7. KeptOK'
  BY <1>a DEF KeptOK
<1> QED BY <1>1, <1>2, <1>3, <1>4, <1>5, <1>6, <1>7

LEMMA RegisterKept == ASSUME DInv, Register PROVE DInv'
<1> USE DrainAssumption, NoneAssumption, NoneIsNoLog, ZeroInWorld DEF DInv, Register, older, newer, between, history
<1>b. new' \in NewGame /\ new'.log = new.log /\ new'.runs /\ new'.pointer = new.pointer
      /\ new'.world = new.world
  BY DEF DTypeOK, NewGame
<1>a. \A log : IsAway(log) => IsAway(log)'
  BY <1>b DEF IsAway, TakingOK
<1>1. DTypeOK'
  BY <1>b DEF DTypeOK
<1>2. RunsOK'
  BY <1>b DEF RunsOK, TakingOK
<1>3. ExportOK'
  BY <1>a DEF ExportOK
<1>4. HandedOK'
  BY <1>b DEF HandedOK
<1>5. TakingOK'
  BY <1>b DEF TakingOK
<1>6. WorldOK'
  BY <1>b DEF WorldOK, TakingOK
<1>7. KeptOK'
  BY <1>a DEF KeptOK
<1> QED BY <1>1, <1>2, <1>3, <1>4, <1>5, <1>6, <1>7

LEMMA TakeInFailsKept == ASSUME DInv, TakeInFails PROVE DInv'
<1> USE DrainAssumption, NoneAssumption, NoneIsNoLog, ZeroInWorld DEF DInv, TakeInFails, SetAside, Fail, older, newer, between, history
<1>a. \A log : IsAway(log) => IsAway(log)'
  BY DEF IsAway
<1>1. DTypeOK'
  BY DEF DTypeOK, TakingOK
<1>2. RunsOK'
  BY DEF RunsOK
<1>3. ExportOK'
  BY <1>a DEF ExportOK
<1>4. HandedOK'
  BY DEF HandedOK
<1>5. TakingOK'
  BY DEF TakingOK
<1>6. WorldOK'
  BY DEF WorldOK, TakingOK
<1>7. KeptOK'
  BY <1>a DEF KeptOK
<1> QED BY <1>1, <1>2, <1>3, <1>4, <1>5, <1>6, <1>7

LEMMA RecoverFailsKept == ASSUME DInv, RecoverFails PROVE DInv'
<1> USE DrainAssumption, NoneAssumption, NoneIsNoLog, ZeroInWorld DEF DInv, RecoverFails, LogAside, Fail, older, newer, between, history
<1>b. new' \in NewGame /\ new'.log = None /\ ~new'.runs /\ new'.pointer = new.pointer
      /\ new.log \in Log
  BY DEF DTypeOK, NewGame, LogAside, TakingOK
<1>a. \A log : IsAway(log) => IsAway(log)'
  BY <1>b DEF IsAway, LogAside, TakingOK
<1>1. DTypeOK'
  BY <1>b DEF DTypeOK
<1>2. RunsOK'
  BY <1>b DEF RunsOK, TakingOK
<1>3. ExportOK'
  BY <1>a DEF ExportOK
<1>4. HandedOK'
  BY <1>b DEF HandedOK
<1>5. TakingOK'
  BY <1>b DEF TakingOK
<1>6. WorldOK'
  BY <1>b DEF WorldOK, TakingOK
<1>7. KeptOK'
  BY <1>a DEF KeptOK
<1> QED BY <1>1, <1>2, <1>3, <1>4, <1>5, <1>6, <1>7

LEMMA NewRestartsKept == ASSUME DInv, NewRestarts PROVE DInv'
<1> USE DrainAssumption, NoneAssumption, NoneIsNoLog, ZeroInWorld DEF DInv, NewRestarts, Restarts, Stops, Restored, older, newer, between, history
<1>b. new' \in NewGame /\ new'.log = new.log /\ new'.pointer = new.pointer
      /\ (new.log # None => new'.runs /\ new'.world =
              IF new.pointer \in store THEN new.pointer ELSE None)
      /\ (new.log = None => ~new'.runs)
  BY DEF DTypeOK, NewGame, RunsOK
<1>a. \A log : IsAway(log) => IsAway(log)'
  BY <1>b DEF IsAway
<1>1. DTypeOK'
  <2>1. new'.world \in {None} \cup World
    BY <1>b DEF NewGame
  <2>2. store' \subseteq World
    BY <2>1
  <2> QED BY <1>b, <2>2 DEF DTypeOK
<1>2. RunsOK'
  BY <1>b DEF RunsOK
<1>3. ExportOK'
  BY <1>a DEF ExportOK
<1>4. HandedOK'
  BY <1>b DEF HandedOK
<1>5. TakingOK'
  BY <1>b DEF TakingOK
<1>6. WorldOK'
  BY <1>b DEF WorldOK, TakingOK
<1>7. KeptOK'
  BY <1>a DEF KeptOK
<1> QED BY <1>1, <1>2, <1>3, <1>4, <1>5, <1>6, <1>7

LEMMA NewRestartsWithoutKept == ASSUME DInv, NewRestartsWithout PROVE DInv'
<1> USE DrainAssumption, NoneAssumption, NoneIsNoLog, ZeroInWorld DEF DInv, NewRestartsWithout, LogAside, Restarts, Stops, older, newer, between, history
<1>b. new' \in NewGame /\ new'.log = None /\ ~new'.runs /\ new'.pointer = new.pointer
      /\ new.log \in Log
  BY DEF DTypeOK, NewGame, LogAside, TakingOK
<1>a. \A log : IsAway(log) => IsAway(log)'
  BY <1>b DEF IsAway, LogAside, TakingOK
<1>1. DTypeOK'
  <2>1. store' \subseteq World
    BY <1>b
  <2> QED BY <1>b, <2>1 DEF DTypeOK
<1>2. RunsOK'
  BY <1>b DEF RunsOK
<1>3. ExportOK'
  BY <1>a DEF ExportOK
<1>4. HandedOK'
  BY <1>b DEF HandedOK
<1>5. TakingOK'
  BY <1>b DEF TakingOK
<1>6. WorldOK'
  BY <1>b DEF WorldOK, TakingOK
<1>7. KeptOK'
  BY <1>a DEF KeptOK
<1> QED BY <1>1, <1>2, <1>3, <1>4, <1>5, <1>6, <1>7

LEMMA NewExpiresKept == ASSUME DInv, NewExpires PROVE DInv'
<1> USE DrainAssumption, NoneAssumption, NoneIsNoLog, ZeroInWorld DEF DInv, NewExpires, Without, older, newer, between, history
<1>b. new.log \in Log /\ new.log # None /\ taking = None
  BY DEF DTypeOK, NewGame, RunsOK, TakingOK
<1>a. \A log : IsAway(log) => IsAway(log)'
  BY <1>b DEF IsAway
<1>1. DTypeOK'
  BY <1>b DEF DTypeOK, NewGame
<1>2. RunsOK'
  BY DEF RunsOK
<1>3. ExportOK'
  BY <1>a DEF ExportOK
<1>4. HandedOK'
  BY <1>b DEF HandedOK
<1>5. TakingOK'
  BY <1>b DEF TakingOK
<1>6. WorldOK'
  BY <1>b DEF WorldOK
<1>7. KeptOK'
  BY <1>a DEF KeptOK
<1> QED BY <1>1, <1>2, <1>3, <1>4, <1>5, <1>6, <1>7

LEMMA OtherLetsGoKept == ASSUME DInv, OtherLetsGo PROVE DInv'
<1> USE DrainAssumption, NoneAssumption, NoneIsNoLog, ZeroInWorld DEF DInv, OtherLetsGo, Without, older, newer, between, history
<1>a. \A log : IsAway(log) => IsAway(log)'
  BY DEF IsAway
<1>1. DTypeOK'
  BY DEF DTypeOK
<1>2. RunsOK'
  BY DEF RunsOK
<1>3. ExportOK'
  BY <1>a DEF ExportOK
<1>4. HandedOK'
  BY DEF HandedOK
<1>5. TakingOK'
  BY DEF TakingOK
<1>6. WorldOK'
  BY DEF WorldOK, TakingOK
<1>7. KeptOK'
  BY <1>a DEF KeptOK
<1> QED BY <1>1, <1>2, <1>3, <1>4, <1>5, <1>6, <1>7

-----------------------------------------------------------------------------
\* Players come and go without touching the game.
LEMMA ConnectionsKept ==
    ASSUME DInv, NEW server \in Server, Joins(server) \/ Disconnects(server)
    PROVE  DInv'
<1> USE DEF Joins, Disconnects, Runs, Server, DInv, older, newer, between, history
<1>1. DTypeOK'
  BY DEF DTypeOK
<1>2. RunsOK'
  BY DEF RunsOK
<1>3. ExportOK' /\ HandedOK' /\ TakingOK' /\ WorldOK' /\ KeptOK'
  BY DEF ExportOK, HandedOK, TakingOK, WorldOK, KeptOK, IsAway
<1> QED BY <1>1, <1>2, <1>3

\* Every step keeps the invariant.
LEMMA DInvNext == ASSUME DInv, [Next]_vars PROVE DInv'
<1>1. CASE UNCHANGED vars
  BY <1>1 DEF vars, older, newer, between, history, DInv, DTypeOK, RunsOK, ExportOK, HandedOK,
              TakingOK, WorldOK, KeptOK, IsAway
<1>2. CASE \E server \in Server : Joins(server) \/ Disconnects(server)
  BY <1>2, ConnectionsKept
<1>3. CASE Exports \/ ExportFails \/ DiscardFails \/ OldRestarts \/ OldPlays \/ StartDrain
           \/ OldExpires
  BY <1>3, StartExportKept, ExportLogKept, ExportPointerKept, ExportWorldsKept,
     FinishHandoverKept, DiscardGameKept, ExportFailsKept, DiscardFailsKept, OldRestartsKept,
     OldPlaysKept, StartDrainKept, OldExpiresKept, Zenon DEF Exports
<1>4. CASE TakesIn \/ TakeInFails \/ RecoverFails
  BY <1>4, TakeInKept, IngestKept, TakePointerKept, TakeLogKept, RecoverKept, RegisterKept,
     TakeInFailsKept, RecoverFailsKept, Zenon DEF TakesIn
<1>5. CASE NewPlays \/ NewRestarts \/ NewRestartsWithout \/ NewExpires \/ OtherLetsGo
  BY <1>5, NewPlaysKept, NewRestartsKept, NewRestartsWithoutKept, NewExpiresKept,
     OtherLetsGoKept, Zenon
<1> QED BY <1>1, <1>2, <1>3, <1>4, <1>5, Zenon DEF Next

-----------------------------------------------------------------------------
(* The theorems                                                            *)

\* Through any restarts and failing steps, what a server, a directory or a
\* file has of the game fits how far the move is, wherever it is played on.
THEOREM DrainInvariant == Spec => []DInv
BY DInvInit, DInvNext, PTL DEF Spec

\* No part of either server's state leaves its type, and nothing is taken in
\* without a hand-over.
THEOREM DrainTypeCorrect == Spec => []TypeOK
BY DrainInvariant, DInvImplies, PTL

\* No turn players were sent is lost by a move between servers: whatever one
\* of them sent is whole in a log, a server's, the one handed over or one set
\* aside, or went with a game nobody returned to (finish_handover, take_in),
\* also where both go on with the game.
THEOREM TurnsKeptAlways == Spec => []TurnsKept
BY DrainInvariant, DInvImplies, PTL

\* A game that the newer server runs has its world, and the store keeps it
\* (drain::take_in, Room::recover, Snapshots::release), unless it came without
\* one or another room let go of it between its ingestion and its hold.
THEOREM HasItsWorldAlways == Spec => []HasItsWorld
BY DrainInvariant, DInvImplies, PTL
=============================================================================
