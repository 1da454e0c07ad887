------------------------------ MODULE Verdict ------------------------------
(***************************************************************************)
(* Which digests are right when the members of a room disagree             *)
(* (crates/tpf3mp-server verdict.rs).                                      *)
(*                                                                         *)
(* A report holds a member's digests by lane, at most one for each lane.   *)
(* For every lane the digest of a strict majority of the reports wins,     *)
(* having none included; otherwise the anchor's wins.                      *)
(***************************************************************************)
EXTENDS Integers, Sequences, FiniteSets

CONSTANT None  \* no digest of a lane

\* Digests by lane: a function on the lanes there are digests of.
DigestOf(lanes, lane) == IF lane \in DOMAIN lanes THEN lanes[lane] ELSE None

\* Lanes where the two differ, those present on one side only included.
Diverging(lanes, verdict) ==
    {lane \in DOMAIN lanes \cup DOMAIN verdict :
        DigestOf(lanes, lane) # DigestOf(verdict, lane)}

\* The reports, of the given sequence, that say `digest` for a lane.
Saying(reports, lane, digest) ==
    {i \in DOMAIN reports : DigestOf(reports[i].lanes, lane) = digest}
IsMajority(reports, voters) == 2 * Cardinality(voters) > Len(reports)

\* The reporter on the most common platform, earliest in join order, then
\* earliest to report.
Share(reports, i) == Cardinality({j \in DOMAIN reports : reports[j].platform = reports[i].platform})
Before(reports, i, j) ==
    \/ Share(reports, i) > Share(reports, j)
    \/ /\ Share(reports, i) = Share(reports, j)
       /\ \/ reports[i].order < reports[j].order
          \/ reports[i].order = reports[j].order /\ i <= j
Anchor(reports) == CHOOSE i \in DOMAIN reports : \A j \in DOMAIN reports : Before(reports, i, j)

Winner(reports, lane) ==
    IF \E i \in DOMAIN reports :
            IsMajority(reports, Saying(reports, lane, DigestOf(reports[i].lanes, lane)))
    THEN CHOOSE d \in {DigestOf(reports[i].lanes, lane) : i \in DOMAIN reports} :
            IsMajority(reports, Saying(reports, lane, d))
    ELSE DigestOf(reports[Anchor(reports)].lanes, lane)

\* decide: the agreed digests.
Agreed(reports) ==
    LET lanes == UNION {DOMAIN reports[i].lanes : i \in DOMAIN reports} IN
    [lane \in {l \in lanes : Winner(reports, l) # None} |-> Winner(reports, lane)]
=============================================================================
