------------------------------ MODULE Ranking ------------------------------
(***************************************************************************)
(* The order of a report (src/internal/rank/rank.go, Rank) and what the    *)
(* flags take out of it (src/cmd/expiry-radar/main.go, filter).  A row is  *)
(* an item of Scoring with its blast radius and its priority.              *)
(***************************************************************************)
EXTENDS Scoring, Ordering, SequencesExt

\* The item, with its blast radius and its priority.
Scored(it) ==
    [f \in DOMAIN it \cup {"blast", "prio"} |->
        IF f = "blast" THEN BlastRadius(it)
        ELSE IF f = "prio" THEN Priority(it) ELSE it[f]]

\* The `less` of sort.SliceStable in Rank.
Before(a, b) ==
    \/ a.prio > b.prio
    \/ a.prio = b.prio /\ a.days < b.days

\* Mutant of Place: a later item goes before its equals.
PlaceBeforeEquals(items, k) ==
    Cardinality({j \in DOMAIN items :
        Before(items[j], items[k]) \/ (~Before(items[k], items[j]) /\ j >= k)})

\* Where a stable sort puts the k-th item: behind all that come before it, and
\* behind those it ties with that it followed.
Place(items, k) ==
    Cardinality({j \in DOMAIN items :
        Before(items[j], items[k]) \/ (~Before(items[k], items[j]) /\ j <= k)})

\* Mutant of Rank: the rows in the order the sources gave them.
Unranked(items) == [n \in DOMAIN items |-> Scored(items[n])]

Rank(items) ==
    LET rows == [n \in DOMAIN items |-> Scored(items[n])]
    IN [n \in DOMAIN rows |-> rows[CHOOSE k \in DOMAIN rows : Place(rows, k) = n]]

\* What filter keeps of a ranked report; 0 days and priority 0 keep everything.
Kept(within, minPriority, s) ==
    /\ within > 0 => s.days <= within
    /\ s.prio >= minPriority

Filter(ranked, within, minPriority) ==
    IF within <= 0 /\ minPriority <= 0 THEN ranked
    ELSE ElementsAt(ranked, {k \in DOMAIN ranked : Kept(within, minPriority, ranked[k])})
=============================================================================
