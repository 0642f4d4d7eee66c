----------------------------- MODULE Collection -----------------------------
(***************************************************************************)
(* What one collection promises its caller, without goroutines: every      *)
(* configured source answers once, and the report made of the answers      *)
(* holds every item of every answer, in configured order, next to one      *)
(* error for each source that failed (src/internal/source/source.go,       *)
(* CollectAll and its comments).  CollectAll.tla implements it.            *)
(***************************************************************************)
EXTENDS Integers, Sequences

CONSTANTS
    NSources,   \* how many sources the configuration (and -only) left
    Item,       \* what a source may report
    NoAnswer    \* the answer of a source that has not answered yet

Sources == 1..NSources

\* What a Source's Collect returns: the items it read and whether it failed.
\* Both may be present, a source that failed half way returns what it read.
Reading == [items : Seq(Item), err : BOOLEAN]

VARIABLES
    answer,     \* answer[i]: the reading of source i, or NoAnswer
    report      \* [items, errs] handed to the caller, or NoAnswer

\* seq is the concatenation of the items of rs[1] .. rs[n]: off[i] is where
\* the items of rs[i] begin.
IsMerge(seq, rs, n) ==
    \E off \in [1..(n + 1) -> 0..Len(seq)] :
        /\ off[1] = 0
        /\ off[n + 1] = Len(seq)
        /\ \A i \in 1..n :
            /\ off[i + 1] = off[i] + Len(rs[i].items)
            /\ \A j \in 1..Len(rs[i].items) : seq[off[i] + j] = rs[i].items[j]

\* seq lists exactly the sources among rs[1] .. rs[n] that failed, in order.
IsErrList(seq, rs, n) ==
    /\ \A k \in 1..Len(seq) : seq[k] \in 1..n /\ rs[seq[k]].err
    /\ \A k, l \in 1..Len(seq) : k < l => seq[k] < seq[l]
    /\ \A i \in 1..n : rs[i].err => \E k \in 1..Len(seq) : seq[k] = i

Report == [items : Seq(Item), errs : Seq(Sources)]

Init ==
    /\ answer = [i \in Sources |-> NoAnswer]
    /\ report = NoAnswer

\* A source answers, whatever it could read.
Answer(i) ==
    /\ answer[i] = NoAnswer
    /\ answer' \in [Sources -> Reading \cup {NoAnswer}]
    /\ answer'[i] # NoAnswer
    /\ \A j \in Sources \ {i} : answer'[j] = answer[j]
    /\ UNCHANGED report

\* The caller gets its report once, after every source has answered.
Return ==
    /\ report = NoAnswer
    /\ \A i \in Sources : answer[i] # NoAnswer
    /\ report' \in Report
    /\ IsMerge(report'.items, answer, NSources)
    /\ IsErrList(report'.errs, answer, NSources)
    /\ UNCHANGED answer

Next == Return \/ \E i \in Sources : Answer(i)

Spec == Init /\ [][Next]_<<answer, report>>
=============================================================================
