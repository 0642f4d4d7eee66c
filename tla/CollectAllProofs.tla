-------------------------- MODULE CollectAllProofs --------------------------
(***************************************************************************)
(* Theorems about CollectAll, for any number of sources, any concurrency   *)
(* and any readings.  The invariant is built in three layers: types and    *)
(* counters, the order of the two loops, the merge so far.                 *)
(***************************************************************************)
EXTENDS CollectAll, FiniteSetTheorems, TLAPS

USE NSourcesAssumption, ConcurrencyAssumption

-----------------------------------------------------------------------------
(* Layer 1: types, the semaphore and the WaitGroup. *)

Counted == TypeOK /\ SemCounts /\ WgCounts /\ SpawnedInOrder

\* Sets of sources are finite, so they can be counted.
LEMMA SourcesFinite ==
    ASSUME NEW S \in SUBSET Sources
    PROVE  IsFiniteSet(S) /\ Cardinality(S) \in Nat
<1>1. IsFiniteSet(Sources)
  BY FS_Interval DEF Sources
<1> QED
  BY <1>1, FS_Subset, FS_CardinalityType

\* A source that enters a set of sources adds one to its count.
LEMMA CountIn ==
    ASSUME NEW S \in SUBSET Sources, NEW i \in Sources \ S
    PROVE  Cardinality(S \cup {i}) = Cardinality(S) + 1
BY SourcesFinite, FS_AddElement

\* A source that leaves a set of sources was counted in it.
LEMMA CountOut ==
    ASSUME NEW S \in SUBSET Sources, NEW i \in S
    PROVE  /\ Cardinality(S \ {i}) = Cardinality(S) - 1
           /\ Cardinality(S) > 0
<1>1. /\ IsFiniteSet(S) /\ Cardinality(S) \in Nat
      /\ Cardinality(S \ {i}) \in Nat
  BY SourcesFinite
<1>2. Cardinality(S \ {i}) = Cardinality(S) - 1
  BY <1>1, FS_RemoveElement
<1> QED
  BY <1>1, <1>2

LEMMA CountedInit == Init => Counted
<1> SUFFICES ASSUME Init PROVE Counted
  OBVIOUS
<1>1. TypeOK
  BY DEF Init, TypeOK, Sources, WorkerState, Zero, Reading
<1>2. Holders = {} /\ Pending = {}
  BY DEF Init, Holders, Pending
<1>3. SpawnedInOrder
  BY DEF Init, SpawnedInOrder, Sources
<1> QED
  BY <1>1, <1>2, <1>3, FS_EmptySet DEF Counted, SemCounts, WgCounts, Init

LEMMA CountedStep == Counted /\ [Next]_vars => Counted'
<1> SUFFICES ASSUME Counted, [Next]_vars PROVE Counted'
  OBVIOUS
<1>0. TypeOK /\ SemCounts /\ WgCounts /\ SpawnedInOrder
  BY DEF Counted
<1>f. /\ Cardinality(Holders) \in Nat /\ Cardinality(Pending) \in Nat
      /\ Holders \in SUBSET Sources /\ Pending \in SUBSET Sources
  BY SourcesFinite DEF Holders, Pending
<1>1. CASE Spawn
  <2>1. /\ next \in Sources /\ worker[next] = "unborn"
        /\ worker' = [worker EXCEPT ![next] = "blocked"]
    BY <1>0, <1>1 DEF Spawn, SpawnedInOrder, TypeOK, Sources
  <2>2. Holders' = Holders
    BY <1>0, <2>1 DEF TypeOK, Holders
  <2>3. Pending' = Pending \cup {next} /\ next \notin Pending
    BY <1>0, <2>1 DEF TypeOK, Pending
  <2>4. Cardinality(Pending') = Cardinality(Pending) + 1
    BY <1>f, <2>1, <2>3, CountIn
  <2>5. TypeOK'
    BY <1>0, <1>1 DEF Spawn, TypeOK, WorkerState, Sources
  <2>6. SpawnedInOrder'
    BY <1>0, <1>1, <2>1 DEF Spawn, TypeOK, SpawnedInOrder, Sources
  <2> QED
    BY <1>0, <1>1, <2>2, <2>4, <2>5, <2>6
       DEF Spawn, Counted, SemCounts, WgCounts
<1>2. ASSUME NEW i \in Sources, Acquire(i) PROVE Counted'
  <2>1. Holders' = Holders \cup {i} /\ i \notin Holders
    BY <1>0, <1>2 DEF Acquire, TypeOK, Holders
  <2>2. Pending' = Pending
    BY <1>0, <1>2 DEF Acquire, TypeOK, Pending
  <2>3. Cardinality(Holders') = Cardinality(Holders) + 1
    BY <1>f, <2>1, CountIn
  <2>4. TypeOK'
    BY <1>0, <1>2 DEF Acquire, TypeOK, WorkerState
  <2>5. SpawnedInOrder'
    BY <1>0, <1>2 DEF Acquire, TypeOK, SpawnedInOrder
  <2>6. SemCounts'
    BY <1>0, <1>2, <2>3 DEF Acquire, SlotFree, SemCounts, TypeOK
  <2> QED
    BY <1>0, <1>2, <2>2, <2>4, <2>5, <2>6 DEF Acquire, Counted, WgCounts
<1>3. ASSUME NEW i \in Sources, Return(i) PROVE Counted'
  <2>1. Holders' = Holders /\ Pending' = Pending
    BY <1>0, <1>3 DEF Return, TypeOK, Holders, Pending
  <2>2. PICK r \in Readings[i] : results' = [results EXCEPT ![i] = r]
    BY <1>3 DEF Return
  <2>3. r \in Reading
    BY <2>2, ReadingsAssumption
  <2>4. TypeOK'
    BY <1>0, <1>3, <2>2, <2>3 DEF Return, TypeOK, WorkerState
  <2>5. SpawnedInOrder'
    BY <1>0, <1>3 DEF Return, TypeOK, SpawnedInOrder
  <2> QED
    BY <1>0, <1>3, <2>1, <2>4, <2>5 DEF Return, Counted, SemCounts, WgCounts
<1>4. ASSUME NEW i \in Sources, Release(i) PROVE Counted'
  <2>1. Holders' = Holders \ {i} /\ i \in Holders
    BY <1>0, <1>4 DEF Release, TypeOK, Holders
  <2>2. Pending' = Pending
    BY <1>0, <1>4 DEF Release, TypeOK, Pending
  <2>3. /\ Cardinality(Holders') = Cardinality(Holders) - 1
        /\ Cardinality(Holders) > 0
    BY <1>f, <2>1, CountOut
  <2>4. SemCounts' /\ sem' \in Nat
    BY <1>0, <1>4, <1>f, <2>3 DEF Release, SemCounts, TypeOK
  <2>5. TypeOK'
    BY <1>0, <1>4, <2>4 DEF Release, TypeOK, WorkerState
  <2>6. SpawnedInOrder'
    BY <1>0, <1>4 DEF Release, TypeOK, SpawnedInOrder
  <2> QED
    BY <1>0, <1>4, <2>2, <2>4, <2>5, <2>6 DEF Release, Counted, WgCounts
<1>5. ASSUME NEW i \in Sources, Done(i) PROVE Counted'
  <2>1. Pending' = Pending \ {i} /\ i \in Pending
    BY <1>0, <1>5 DEF Done, TypeOK, Pending
  <2>2. Holders' = Holders
    BY <1>0, <1>5 DEF Done, TypeOK, Holders
  <2>3. /\ Cardinality(Pending') = Cardinality(Pending) - 1
        /\ Cardinality(Pending) > 0
    BY <1>f, <2>1, CountOut
  <2>4. WgCounts' /\ wg' \in Nat
    BY <1>0, <1>5, <1>f, <2>3 DEF Done, WgCounts, TypeOK
  <2>5. TypeOK'
    BY <1>0, <1>5, <2>4 DEF Done, TypeOK, WorkerState
  <2>6. SpawnedInOrder'
    BY <1>0, <1>5 DEF Done, TypeOK, SpawnedInOrder
  <2> QED
    BY <1>0, <1>5, <2>2, <2>4, <2>5, <2>6 DEF Done, Counted, SemCounts
<1>6. CASE Wait
  <2>1. TypeOK' /\ SpawnedInOrder'
    BY <1>0, <1>6 DEF Wait, TypeOK, SpawnedInOrder
  <2> QED
    BY <1>0, <1>6, <2>1
       DEF Wait, Counted, SemCounts, WgCounts, Holders, Pending
<1>7. CASE Merge
  <2>1. results[next] \in Reading
    BY <1>0, <1>7 DEF Merge, TypeOK
  <2>2. items' \in Seq(Item) /\ errs' \in Seq(Sources)
    BY <1>0, <1>7, <2>1 DEF Merge, TypeOK, Reading
  <2>3. TypeOK' /\ SpawnedInOrder'
    BY <1>0, <1>7, <2>2 DEF Merge, TypeOK, SpawnedInOrder, Sources
  <2> QED
    BY <1>0, <1>7, <2>3
       DEF Merge, Counted, SemCounts, WgCounts, Holders, Pending
<1>8. CASE Finish
  <2>1. TypeOK' /\ SpawnedInOrder'
    BY <1>0, <1>8 DEF Finish, TypeOK, SpawnedInOrder
  <2> QED
    BY <1>0, <1>8, <2>1
       DEF Finish, Counted, SemCounts, WgCounts, Holders, Pending
<1>9. ASSUME NEW cause \in {"deadline", "canceled"}, EndContext(cause)
      PROVE  Counted'
  <2>1. TypeOK' /\ SpawnedInOrder'
    BY <1>0, <1>9 DEF EndContext, TypeOK, SpawnedInOrder
  <2> QED
    BY <1>0, <1>9, <2>1
       DEF EndContext, Counted, SemCounts, WgCounts, Holders, Pending
<1>10. CASE UNCHANGED vars
  BY <1>0, <1>10 DEF vars, Counted, TypeOK, SemCounts, WgCounts,
     SpawnedInOrder, Holders, Pending
<1> QED
  BY <1>1, <1>2, <1>3, <1>4, <1>5, <1>6, <1>7, <1>8, <1>9, <1>10 DEF Next

LEMMA CountedAlways == Spec => []Counted
BY CountedInit, CountedStep, PTL DEF Spec

\* The state keeps its types: sem and wg are never negative (a receive from an
\* empty sem would block for ever, a negative WaitGroup panics).
THEOREM TypeCorrect == Spec => []TypeOK
<1>1. Counted => TypeOK
  BY DEF Counted
<1> QED
  BY <1>1, CountedAlways, PTL

\* However many sources are configured and in whatever order their goroutines
\* run, no more than collectConcurrency of them are inside Collect.
THEOREM ConcurrencyBounded == Spec => []InFlightBounded
<1>1. ASSUME Counted PROVE InFlightBounded
  <2> DEFINE In == {i \in Sources : worker[i] = "collecting"}
  <2>1. In \in SUBSET Holders /\ Holders \in SUBSET Sources
    BY DEF Holders
  <2>2. Cardinality(In) <= Cardinality(Holders)
    BY <2>1, SourcesFinite, FS_Subset
  <2>3. Cardinality(In) \in Nat /\ Cardinality(Holders) \in Nat
    BY <2>1, SourcesFinite
  <2> QED
    BY <1>1, <2>2, <2>3 DEF InFlightBounded, Counted, SemCounts
<1> QED
  BY <1>1, CountedAlways, PTL

\* With no more sources than slots no source ever waits for another one, so
\* the deadline finds none of them held back: the comment of CollectAll about
\* budgets holds up to collectConcurrency sources.
THEOREM NoBudgetUpToConcurrency ==
  ASSUME NSources <= Concurrency
  PROVE  Spec => []DeadlineIsNotABudget
<1>1. ASSUME Counted, NEW i \in Sources, worker[i] = "blocked"
      PROVE  SlotFree
  <2>1. Holders \in SUBSET Sources /\ i \in Sources \ Holders
    BY <1>1 DEF Holders
  <2>2. Cardinality(Holders \cup {i}) = Cardinality(Holders) + 1
    BY <2>1, CountIn
  <2>3. Cardinality(Sources) = NSources /\ IsFiniteSet(Sources)
    BY FS_Interval DEF Sources
  <2>4. Cardinality(Holders \cup {i}) <= NSources
    BY <2>1, <2>3, FS_Subset
  <2> QED
    BY <1>1, <2>1, <2>2, <2>4, SourcesFinite
       DEF Counted, SemCounts, SlotFree
<1>2. Counted => DeadlineIsNotABudget
  BY <1>1 DEF DeadlineIsNotABudget
<1> QED
  BY <1>2, CountedAlways, PTL

-----------------------------------------------------------------------------
(* Layer 2: the merge starts after the last goroutine. *)

LEMMA NoEarlyMergeStep ==
  Counted /\ NoEarlyMerge /\ [Next]_vars => NoEarlyMerge'
<1> SUFFICES ASSUME Counted, NoEarlyMerge, [Next]_vars PROVE NoEarlyMerge'
  OBVIOUS
<1>0. TypeOK /\ WgCounts /\ SpawnedInOrder
  BY DEF Counted
<1>1. CASE Wait
  <2>1. Cardinality(Pending) = 0 /\ Pending \in SUBSET Sources
    BY <1>0, <1>1 DEF Wait, WgCounts, Pending
  <2>2. Pending = {}
    BY <2>1, SourcesFinite, FS_EmptySet
  <2>3. \A i \in Sources : worker[i] # "unborn"
    BY <1>0, <1>1 DEF Wait, TypeOK, SpawnedInOrder, Sources
  <2> QED
    BY <1>1, <2>2, <2>3 DEF Wait, NoEarlyMerge, Pending
<1>2. ASSUME NEW i \in Sources, Goroutine(i) PROVE NoEarlyMerge'
  BY <1>0, <1>2
     DEF Goroutine, Acquire, Return, Release, Done, NoEarlyMerge, TypeOK
<1>3. CASE Spawn \/ Merge \/ Finish \/ UNCHANGED vars
  BY <1>0, <1>3 DEF Spawn, Merge, Finish, vars, NoEarlyMerge, TypeOK
<1>4. ASSUME NEW cause \in {"deadline", "canceled"}, EndContext(cause)
      PROVE  NoEarlyMerge'
  BY <1>4 DEF EndContext, NoEarlyMerge
<1> QED
  BY <1>1, <1>2, <1>3, <1>4 DEF Next, Goroutine

\* wg.Wait is enough of a barrier: the merge reads no element of results that
\* a goroutine has still to write.
THEOREM MergeAfterLastWrite == Spec => []NoEarlyMerge
<1>1. Init => NoEarlyMerge
  BY DEF Init, NoEarlyMerge
<1> QED
  BY <1>1, NoEarlyMergeStep, CountedAlways, PTL DEF Spec

-----------------------------------------------------------------------------
(* Layer 3: the merge so far. *)

\* Appending the items of the next source keeps a merge a merge.
LEMMA MergeGrows ==
  ASSUME NEW s \in Seq(Item), NEW rs \in [Sources -> Reading],
         NEW n \in Nat, n + 1 \in Sources, C!IsMerge(s, rs, n)
  PROVE  C!IsMerge(s \o rs[n + 1].items, rs, n + 1)
<1> DEFINE t == rs[n + 1].items
           u == s \o t
<1>0. t \in Seq(Item) /\ u \in Seq(Item) /\ Len(u) = Len(s) + Len(t)
  BY DEF Reading
<1>1. PICK off \in [1..(n + 1) -> 0..Len(s)] :
        /\ off[1] = 0
        /\ off[n + 1] = Len(s)
        /\ \A i \in 1..n :
            /\ off[i + 1] = off[i] + Len(rs[i].items)
            /\ \A j \in 1..Len(rs[i].items) : s[off[i] + j] = rs[i].items[j]
  BY DEF C!IsMerge
<1> DEFINE off2 == [k \in 1..(n + 2) |-> IF k <= n + 1 THEN off[k] ELSE Len(u)]
<1>2. off2 \in [1..(n + 2) -> 0..Len(u)]
  BY <1>0, <1>1
<1>3. off2[1] = 0 /\ off2[n + 2] = Len(u)
  BY <1>1
<1>4. ASSUME NEW i \in 1..(n + 1)
      PROVE  /\ off2[i + 1] = off2[i] + Len(rs[i].items)
             /\ \A j \in 1..Len(rs[i].items) : u[off2[i] + j] = rs[i].items[j]
  <2>1. CASE i = n + 1
    <3>1. off2[i] = Len(s) /\ off2[i + 1] = Len(u) /\ rs[i].items = t
      BY <1>1, <2>1
    <3>2. \A j \in 1..Len(t) : u[Len(s) + j] = t[j]
      BY <1>0
    <3> HIDE DEF off2, u, t
    <3> QED
      BY <1>0, <3>1, <3>2
  <2>2. CASE i \in 1..n
    <3>1. rs[i].items \in Seq(Item)
      BY <2>2 DEF Reading, Sources
    <3>2. off2[i] = off[i] /\ off2[i + 1] = off[i + 1]
      BY <2>2
    <3>3. /\ off[i + 1] = off[i] + Len(rs[i].items)
          /\ \A j \in 1..Len(rs[i].items) : s[off[i] + j] = rs[i].items[j]
      BY <1>1, <2>2
    <3>4. off[i] \in Nat /\ off[i + 1] <= Len(s)
      BY <1>1, <2>2
    <3>5. ASSUME NEW j \in 1..Len(rs[i].items)
          PROVE  u[off[i] + j] = s[off[i] + j]
      BY <1>0, <3>1, <3>3, <3>4
    <3> HIDE DEF off2, u, t
    <3> QED
      BY <3>2, <3>3, <3>5
  <2> HIDE DEF off2, u, t
  <2> QED
    BY <2>1, <2>2
<1> HIDE DEF off2
<1>5. \E f \in [1..((n + 1) + 1) -> 0..Len(u)] :
        /\ f[1] = 0
        /\ f[(n + 1) + 1] = Len(u)
        /\ \A i \in 1..(n + 1) :
            /\ f[i + 1] = f[i] + Len(rs[i].items)
            /\ \A j \in 1..Len(rs[i].items) : u[f[i] + j] = rs[i].items[j]
  <2>1. (n + 1) + 1 = n + 2
    OBVIOUS
  <2>2. off2 \in [1..((n + 1) + 1) -> 0..Len(u)]
    BY <1>2, <2>1
  <2> HIDE DEF u
  <2> QED
    BY <1>3, <1>4, <2>1, <2>2
<1> QED
  BY <1>5 DEF C!IsMerge

\* Appending the next index if and only if it failed keeps the error list exact.
LEMMA ErrListGrows ==
  ASSUME NEW e \in Seq(Sources), NEW rs \in [Sources -> Reading],
         NEW n \in Nat, n + 1 \in Sources, C!IsErrList(e, rs, n)
  PROVE  C!IsErrList(IF rs[n + 1].err THEN Append(e, n + 1) ELSE e, rs, n + 1)
<1>0. n + 1 \in 1..(n + 1)
  OBVIOUS
<1>1. CASE rs[n + 1].err
  <2> DEFINE f == Append(e, n + 1)
  <2>1. /\ Len(f) = Len(e) + 1 /\ f[Len(f)] = n + 1 /\ Len(e) \in Nat
        /\ \A k \in 1..Len(e) : f[k] = e[k]
    OBVIOUS
  <2>2. \A k \in 1..Len(e) : e[k] \in 1..n /\ rs[e[k]].err
    BY DEF C!IsErrList
  <2>3. \A k \in 1..Len(f) : f[k] \in 1..(n + 1) /\ rs[f[k]].err
    BY <1>1, <2>1, <2>2
  <2>4. \A k, l \in 1..Len(f) : k < l => f[k] < f[l]
    BY <2>1, <2>2 DEF C!IsErrList
  <2>5. ASSUME NEW i \in 1..(n + 1), rs[i].err
        PROVE  \E k \in 1..Len(f) : f[k] = i
    <3>1. CASE i = n + 1
      BY <2>1, <3>1
    <3>2. CASE i \in 1..n
      <4>1. PICK k \in 1..Len(e) : e[k] = i
        BY <2>5, <3>2 DEF C!IsErrList
      <4> QED
        BY <2>1, <4>1
    <3> QED
      BY <3>1, <3>2
  <2> QED
    BY <1>1, <2>3, <2>4, <2>5 DEF C!IsErrList
<1>2. CASE ~ rs[n + 1].err
  BY <1>2 DEF C!IsErrList
<1> QED
  BY <1>1, <1>2

Ordered == Counted /\ NoEarlyMerge /\ MergedSoFar

LEMMA OrderedInit == Init => Ordered
BY CountedInit DEF Init, Ordered, NoEarlyMerge, MergedSoFar

LEMMA OrderedStep == Ordered /\ [Next]_vars => Ordered'
<1> SUFFICES ASSUME Ordered, [Next]_vars PROVE MergedSoFar'
  BY CountedStep, NoEarlyMergeStep DEF Ordered
<1>0. TypeOK /\ NoEarlyMerge /\ MergedSoFar
  BY DEF Ordered, Counted
<1>1. CASE Wait
  <2>1. main' = "merge" /\ next' = 1 /\ items' = <<>> /\ errs' = <<>>
    BY <1>0, <1>1 DEF Wait, MergedSoFar
  <2>2. C!IsMerge(<<>>, results', 0)
    <3> DEFINE off == [k \in 1..(0 + 1) |-> 0]
    <3>1. /\ off \in [1..(0 + 1) -> 0..Len(<<>>)]
          /\ off[1] = 0 /\ off[0 + 1] = 0
      OBVIOUS
    <3>2. Len(<<>>) = 0 /\ 1..0 = {}
      OBVIOUS
    <3> HIDE DEF off
    <3> QED
      BY <3>1, <3>2 DEF C!IsMerge
  <2>3. C!IsErrList(<<>>, results', 0)
    BY DEF C!IsErrList
  <2> QED
    BY <2>1, <2>2, <2>3 DEF MergedSoFar
<1>2. CASE Merge
  <2>1. /\ next - 1 \in Nat /\ (next - 1) + 1 = next /\ next' - 1 = next
        /\ next \in Sources
    BY <1>0, <1>2 DEF Merge, TypeOK, Sources
  <2>2. C!IsMerge(items, results, next - 1) /\ C!IsErrList(errs, results, next - 1)
    BY <1>0, <1>2 DEF Merge, MergedSoFar
  <2>3. C!IsMerge(items', results, next)
    BY <1>0, <1>2, <2>1, <2>2, MergeGrows DEF Merge, TypeOK
  <2>4. C!IsErrList(errs', results, next)
    BY <1>0, <1>2, <2>1, <2>2, ErrListGrows DEF Merge, TypeOK
  <2> QED
    BY <1>2, <2>1, <2>3, <2>4 DEF Merge, MergedSoFar
<1>3. CASE Finish
  BY <1>0, <1>3 DEF Finish, MergedSoFar
<1>4. CASE Spawn
  BY <1>0, <1>4 DEF Spawn, MergedSoFar
<1>5. ASSUME NEW i \in Sources, Goroutine(i) PROVE MergedSoFar'
  \* A goroutine that can still move means the merge has not begun.
  <2>1. main = "spawn"
    BY <1>0, <1>5
       DEF Goroutine, Acquire, Return, Release, Done, NoEarlyMerge, TypeOK
  <2> QED
    BY <1>0, <1>5, <2>1
       DEF Goroutine, Acquire, Return, Release, Done, MergedSoFar
<1>6. ASSUME NEW cause \in {"deadline", "canceled"}, EndContext(cause)
      PROVE  MergedSoFar'
  BY <1>0, <1>6 DEF EndContext, MergedSoFar
<1>7. CASE UNCHANGED vars
  BY <1>0, <1>7 DEF vars, MergedSoFar
<1> QED
  BY <1>1, <1>2, <1>3, <1>4, <1>5, <1>6, <1>7 DEF Next, Goroutine

LEMMA OrderedAlways == Spec => []Ordered
BY OrderedInit, OrderedStep, PTL DEF Spec

\* The invariant behind all of this: the counters count goroutines, they are
\* spawned in order, and the merge so far is the readings so far (source.go:93-129).
THEOREM Invariance == Spec => []IInv
<1>1. Ordered /\ Counted => IInv
  BY DEF Ordered, Counted, IInv
<1> QED
  BY <1>1, CountedAlways, OrderedAlways, PTL

\* What is returned is every item of every source in configured order, and
\* exactly the failures: neither an error nor a late goroutine loses an item.
THEOREM ReportComplete == Spec => []MergedInOrder
<1>1. Ordered => MergedInOrder
  BY DEF Ordered, Counted, TypeOK, MergedSoFar, MergedInOrder, Sources
<1> QED
  BY <1>1, OrderedAlways, PTL

-----------------------------------------------------------------------------
(* The refinement. *)

LEMMA MapsToInit == Init => C!Init
BY DEF Init, C!Init, AnswerMap, ReportMap, Sources, C!Sources

\* Every step of the goroutines is one step of a collection or none.
LEMMA MapsToStep ==
  Ordered /\ Ordered' /\ [Next]_vars => [C!Next]_<<AnswerMap, ReportMap>>
<1> SUFFICES ASSUME Ordered, Ordered', [Next]_vars
             PROVE  C!Next \/ UNCHANGED <<AnswerMap, ReportMap>>
  OBVIOUS
<1>0. /\ TypeOK /\ TypeOK' /\ NoEarlyMerge /\ NoEarlyMerge'
      /\ SpawnedInOrder /\ MergedInOrder'
  BY DEF Ordered, Counted, TypeOK, MergedSoFar, MergedInOrder, Sources
<1>s. C!Sources = Sources /\ C!Reading = Reading
  BY DEF Sources, C!Sources, Reading, C!Reading
<1>1. ASSUME NEW i \in Sources, Return(i) PROVE C!Answer(i)
  <2>1. /\ worker[i] = "collecting" /\ main = "spawn" /\ main' = "spawn"
        /\ worker' = [worker EXCEPT ![i] = "wrote"]
    BY <1>0, <1>1 DEF Return, NoEarlyMerge, TypeOK
  <2>2. results'[i] \in Reading
    BY <1>0 DEF TypeOK
  <2>3. \A j \in Sources \ {i} : results'[j] = results[j]
    BY <1>0, <1>1 DEF Return, TypeOK
  <2>4. AnswerMap[i] = NoAnswer /\ AnswerMap'[i] = results'[i]
    BY <1>0, <2>1 DEF AnswerMap, TypeOK
  <2>5. \A j \in Sources \ {i} : AnswerMap'[j] = AnswerMap[j]
    BY <1>0, <2>1, <2>3 DEF AnswerMap, TypeOK
  <2>6. AnswerMap' \in [Sources -> Reading \cup {NoAnswer}]
    BY <1>0 DEF AnswerMap, TypeOK
  <2>7. ReportMap' = ReportMap
    BY <2>1 DEF ReportMap
  <2> QED
    BY <1>s, <2>2, <2>4, <2>5, <2>6, <2>7, NoAnswerAssumption DEF C!Answer
<1>2. CASE Finish
  <2>1. \A j \in Sources : worker[j] = "done"
    BY <1>2, <1>0 DEF Finish, NoEarlyMerge
  <2>2. AnswerMap = results /\ AnswerMap' = AnswerMap
    BY <1>0, <1>2, <2>1 DEF AnswerMap, Finish, TypeOK
  <2>3. \A j \in Sources : AnswerMap[j] # NoAnswer
    BY <1>0, <2>2, NoAnswerAssumption DEF TypeOK
  <2>4. ReportMap = NoAnswer /\ ReportMap' = [items |-> items', errs |-> errs']
    BY <1>2 DEF Finish, ReportMap
  <2>5. ReportMap' \in C!Report
    BY <1>0, <1>s, <2>4 DEF TypeOK, C!Report
  <2>6. /\ C!IsMerge(items', results, NSources)
        /\ C!IsErrList(errs', results, NSources)
    BY <1>0, <1>2 DEF Finish, MergedInOrder
  <2>7. C!Return
    BY <1>s, <2>2, <2>3, <2>4, <2>5, <2>6 DEF C!Return
  <2> QED
    BY <2>7 DEF C!Next
<1>3. ASSUME NEW i \in Sources, Acquire(i) \/ Release(i) \/ Done(i)
      PROVE  UNCHANGED <<AnswerMap, ReportMap>>
  BY <1>0, <1>3 DEF Acquire, Release, Done, AnswerMap, ReportMap, TypeOK
<1>4. CASE Spawn
  BY <1>0, <1>4 DEF Spawn, AnswerMap, ReportMap, TypeOK, SpawnedInOrder, Sources
<1>5. CASE Wait \/ Merge
  BY <1>5 DEF Wait, Merge, AnswerMap, ReportMap
<1>6. ASSUME NEW cause \in {"deadline", "canceled"}, EndContext(cause)
      PROVE  UNCHANGED <<AnswerMap, ReportMap>>
  BY <1>6 DEF EndContext, AnswerMap, ReportMap
<1>7. CASE UNCHANGED vars
  BY <1>7 DEF vars, AnswerMap, ReportMap
<1> QED
  BY <1>s, <1>1, <1>2, <1>3, <1>4, <1>5, <1>6, <1>7 DEF Next, C!Next

\* CollectAll keeps the promise of a collection: its goroutines, slots and
\* barrier are invisible to the caller.
THEOREM Refinement == Spec => Implements
BY MapsToInit, MapsToStep, OrderedAlways, PTL DEF Spec, Implements, C!Spec
=============================================================================
