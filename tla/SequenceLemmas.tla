--------------------------- MODULE SequenceLemmas ---------------------------
(***************************************************************************)
(* Facts about sequences and finite sets that the proofs share: what is in *)
(* a sequence after Append, Tail and concatenation.                        *)
(***************************************************************************)
EXTENDS Ordering, SequencesExt, SequenceTheorems, FiniteSetTheorems, TLAPS

LEMMA EmptyRange == Range(<<>>) = {} /\ IsInjective(<<>>)
BY DEF Range, IsInjective

LEMMA SingletonRange ==
    ASSUME NEW S, NEW e \in S
    PROVE  <<e>> \in Seq(S) /\ Range(<<e>>) = {e} /\ IsInjective(<<e>>)
<1>1. <<e>> \in Seq(S) /\ DOMAIN <<e>> = {1} /\ <<e>>[1] = e
  OBVIOUS
<1> QED
  BY <1>1 DEF Range, IsInjective

LEMMA RangeType ==
    ASSUME NEW S, NEW s \in Seq(S)
    PROVE  Range(s) \subseteq S
BY DEF Range

\* What is in a sequence that is not empty is its head or in its tail.
LEMMA HeadTailRange ==
    ASSUME NEW S, NEW s \in Seq(S), s # <<>>
    PROVE  /\ Head(s) \in S
           /\ Tail(s) \in Seq(S)
           /\ Range(s) = {Head(s)} \cup Range(Tail(s))
           /\ IsInjective(s) => IsInjective(Tail(s)) /\ Head(s) \notin Range(Tail(s))
<1>1. /\ Len(s) \in Nat \ {0} /\ Head(s) = s[1]
      /\ Len(Tail(s)) = Len(s) - 1 /\ Tail(s) \in Seq(S)
      /\ DOMAIN s = 1..Len(s) /\ DOMAIN Tail(s) = 1..(Len(s) - 1)
      /\ \A i \in 1..(Len(s) - 1) : Tail(s)[i] = s[i + 1]
      /\ s[1] \in S
  OBVIOUS
<1>2. {Head(s)} \cup Range(Tail(s)) \subseteq Range(s)
  BY <1>1 DEF Range
<1>3. ASSUME NEW i \in 1..Len(s) PROVE s[i] \in {Head(s)} \cup Range(Tail(s))
  <2>1. CASE i = 1
    BY <1>1, <2>1
  <2>2. CASE i # 1
    <3>1. i - 1 \in 1..(Len(s) - 1) /\ Tail(s)[i - 1] = s[i]
      BY <1>1, <2>2
    <3> QED
      BY <3>1, <1>1 DEF Range
  <2> QED
    BY <2>1, <2>2
<1>4. IsInjective(s) => IsInjective(Tail(s)) /\ Head(s) \notin Range(Tail(s))
  BY <1>1 DEF Range, IsInjective
<1> QED
  BY <1>1, <1>2, <1>3, <1>4 DEF Range

\* Appending adds one element to the range.
LEMMA AppendRange ==
    ASSUME NEW S, NEW s \in Seq(S), NEW e \in S
    PROVE  /\ Append(s, e) \in Seq(S) /\ Append(s, e) # <<>>
           /\ Range(Append(s, e)) = Range(s) \cup {e}
           /\ IsInjective(s) /\ e \notin Range(s) => IsInjective(Append(s, e))
<1>1. /\ Append(s, e) \in Seq(S) /\ Append(s, e) # <<>>
      /\ Len(s) \in Nat
      /\ DOMAIN s = 1..Len(s) /\ DOMAIN Append(s, e) = 1..(Len(s) + 1)
      /\ \A i \in 1..Len(s) : Append(s, e)[i] = s[i]
      /\ Append(s, e)[Len(s) + 1] = e
  OBVIOUS
<1>2. Range(Append(s, e)) = Range(s) \cup {e}
  <2>1. ASSUME NEW i \in 1..(Len(s) + 1) PROVE Append(s, e)[i] \in Range(s) \cup {e}
    <3>1. i \in 1..Len(s) \/ i = Len(s) + 1
      BY <1>1
    <3> QED
      BY <1>1, <3>1 DEF Range
  <2>2. ASSUME NEW i \in 1..Len(s) PROVE s[i] \in Range(Append(s, e))
    <3>1. i \in 1..(Len(s) + 1)
      BY <1>1
    <3> QED
      BY <1>1, <3>1 DEF Range
  <2>3. e \in Range(Append(s, e))
    <3>1. Len(s) + 1 \in 1..(Len(s) + 1)
      BY <1>1
    <3> QED
      BY <1>1, <3>1 DEF Range
  <2> QED
    BY <1>1, <2>1, <2>2, <2>3 DEF Range
<1>3. ASSUME IsInjective(s), e \notin Range(s) PROVE IsInjective(Append(s, e))
  BY <1>1, <1>3 DEF Range, IsInjective
<1> QED
  BY <1>1, <1>2, <1>3

\* Where the elements of a sequence are after Append and Tail.
LEMMA AppendIndex ==
    ASSUME NEW S, NEW s \in Seq(S), NEW e \in S
    PROVE  /\ Len(s) \in Nat /\ DOMAIN s = 1..Len(s)
           /\ Append(s, e) \in Seq(S)
           /\ DOMAIN Append(s, e) = DOMAIN s \cup {Len(s) + 1}
           /\ \A k \in DOMAIN s : k # Len(s) + 1 /\ Append(s, e)[k] = s[k]
           /\ Append(s, e)[Len(s) + 1] = e
OBVIOUS

LEMMA TailIndex ==
    ASSUME NEW S, NEW s \in Seq(S), s # <<>>
    PROVE  /\ Tail(s) \in Seq(S) /\ Head(s) \in S
           /\ 1 \in DOMAIN s /\ s[1] = Head(s)
           /\ \A k \in DOMAIN Tail(s) :
                 k \in Nat /\ k + 1 \in DOMAIN s /\ k + 1 # 1 /\ Tail(s)[k] = s[k + 1]
           /\ \A k \in DOMAIN s \ {1} : k - 1 \in DOMAIN Tail(s)
OBVIOUS

LEMMA ConcatIndex ==
    ASSUME NEW S, NEW s \in Seq(S), NEW t \in Seq(S)
    PROVE  /\ s \o t \in Seq(S) /\ Len(s) \in Nat
           /\ \A k \in DOMAIN s : k \in DOMAIN (s \o t) /\ (s \o t)[k] = s[k]
           /\ \A k \in DOMAIN t : /\ Len(s) + k \in DOMAIN (s \o t)
                                 /\ Len(s) + k \notin DOMAIN s
                                 /\ (s \o t)[Len(s) + k] = t[k]
           /\ \A k \in DOMAIN (s \o t) :
                 k \in DOMAIN s \/ \E j \in DOMAIN t : k = Len(s) + j
<1> DEFINE both == s \o t
<1>1. /\ Len(s) \in Nat /\ DOMAIN s = 1..Len(s)
      /\ Len(t) \in Nat /\ DOMAIN t = 1..Len(t)
  OBVIOUS
<1>2. /\ both \in Seq(S) /\ DOMAIN both = 1..(Len(s) + Len(t))
      /\ \A k \in 1..Len(s) : both[k] = s[k]
      /\ \A k \in 1..Len(t) : both[Len(s) + k] = t[k]
  BY <1>1
<1> HIDE DEF both
<1>3. \A k \in DOMAIN s : k \in DOMAIN both /\ both[k] = s[k]
  BY <1>1, <1>2
<1>4. \A k \in DOMAIN t : /\ Len(s) + k \in DOMAIN both /\ Len(s) + k \notin DOMAIN s
                         /\ both[Len(s) + k] = t[k]
  BY <1>1, <1>2
<1>5. ASSUME NEW k \in DOMAIN both, k \notin DOMAIN s
      PROVE  \E j \in DOMAIN t : k = Len(s) + j
  <2>1. k - Len(s) \in DOMAIN t /\ k = Len(s) + (k - Len(s))
    BY <1>1, <1>2, <1>5
  <2> QED
    BY <2>1
<1> QED
  BY <1>1, <1>2, <1>3, <1>4, <1>5 DEF both

\* What is in f is in s or in t, and the other way round.
Joins(f, s, t) ==
    /\ \A k \in DOMAIN f : (\E j \in DOMAIN s : f[k] = s[j]) \/ (\E j \in DOMAIN t : f[k] = t[j])
    /\ \A j \in DOMAIN s : \E k \in DOMAIN f : f[k] = s[j]
    /\ \A j \in DOMAIN t : \E k \in DOMAIN f : f[k] = t[j]

LEMMA ConcatJoins ==
    ASSUME NEW S, NEW s \in Seq(S), NEW t \in Seq(S)
    PROVE  s \o t \in Seq(S) /\ Joins(s \o t, s, t)
<1> DEFINE both == s \o t
<1>1. /\ both \in Seq(S)
      /\ \A k \in DOMAIN s : k \in DOMAIN both /\ both[k] = s[k]
      /\ \A k \in DOMAIN t : Len(s) + k \in DOMAIN both /\ both[Len(s) + k] = t[k]
      /\ \A k \in DOMAIN both : k \in DOMAIN s \/ \E j \in DOMAIN t : k = Len(s) + j
  BY ConcatIndex
<1> HIDE DEF both
<1>2. \A k \in DOMAIN both : (\E j \in DOMAIN s : both[k] = s[j]) \/ (\E j \in DOMAIN t : both[k] = t[j])
  BY <1>1
<1>3. /\ \A j \in DOMAIN s : \E k \in DOMAIN both : both[k] = s[j]
      /\ \A j \in DOMAIN t : \E k \in DOMAIN both : both[k] = t[j]
  BY <1>1
<1> QED
  BY <1>1, <1>2, <1>3 DEF both, Joins

LEMMA ConcatRange ==
    ASSUME NEW S, NEW s \in Seq(S), NEW t \in Seq(S)
    PROVE  s \o t \in Seq(S) /\ Range(s \o t) = Range(s) \cup Range(t)
<1>1. s \o t \in Seq(S) /\ Joins(s \o t, s, t)
  BY ConcatJoins
<1> DEFINE both == s \o t
<1> HIDE DEF both
<1>2. Joins(both, s, t) => Range(both) = Range(s) \cup Range(t)
  BY DEF Joins, Range
<1> QED
  BY <1>1, <1>2 DEF both

LEMMA ConcatDomain ==
    ASSUME NEW S, NEW s \in Seq(S), NEW t \in Seq(S)
    PROVE  DOMAIN (s \o t) = 1..(Len(s) + Len(t))
OBVIOUS

LEMMA ConcatInjective ==
    ASSUME NEW S, NEW s \in Seq(S), NEW t \in Seq(S),
           IsInjective(s), IsInjective(t), Range(s) \cap Range(t) = {}
    PROVE  IsInjective(s \o t)
<1> DEFINE both == s \o t
<1>1. /\ Len(s) \in Nat
      /\ \A k \in DOMAIN s : both[k] = s[k]
      /\ \A k \in DOMAIN t : both[Len(s) + k] = t[k]
      /\ \A k \in DOMAIN both : k \in DOMAIN s \/ \E j \in DOMAIN t : k = Len(s) + j
  BY ConcatIndex
<1> HIDE DEF both
<1>2. \A j \in DOMAIN s, k \in DOMAIN t : s[j] # t[k]
  BY DEF Range
<1> SUFFICES ASSUME NEW m \in DOMAIN both, NEW n \in DOMAIN both, both[m] = both[n]
             PROVE  m = n
  BY DEF IsInjective, both
<1>3. CASE m \in DOMAIN s /\ n \in DOMAIN s
  BY <1>1, <1>3 DEF IsInjective
<1>4. CASE (\E j \in DOMAIN t : m = Len(s) + j) /\ (\E j \in DOMAIN t : n = Len(s) + j)
  BY <1>1, <1>4 DEF IsInjective
<1>5. CASE m \in DOMAIN s /\ \E j \in DOMAIN t : n = Len(s) + j
  BY <1>1, <1>2, <1>5
<1>6. CASE n \in DOMAIN s /\ \E j \in DOMAIN t : m = Len(s) + j
  BY <1>1, <1>2, <1>6
<1> QED
  BY <1>1, <1>3, <1>4, <1>5, <1>6

LEMMA AppendApart ==
    ASSUME NEW S, NEW p \in Seq(S), NEW q \in Seq(S), NEW a \in S, NEW b \in S
    PROVE  /\ Append(p, a) # p /\ Append(p, a) # <<>>
           /\ Append(p, a) = Append(q, b) => p = q /\ a = b
<1> DEFINE pa == Append(p, a)
           qb == Append(q, b)
<1>1. Len(p) \in Nat /\ Len(q) \in Nat
  OBVIOUS
<1>2. /\ Len(pa) = Len(p) + 1 /\ \A k \in 1..Len(p) : pa[k] = p[k]
      /\ pa[Len(p) + 1] = a
  OBVIOUS
<1>3. /\ Len(qb) = Len(q) + 1 /\ \A k \in 1..Len(q) : qb[k] = q[k]
      /\ qb[Len(q) + 1] = b
  OBVIOUS
<1>4. pa # <<>>
  OBVIOUS
<1> HIDE DEF pa, qb
<1>5. pa # p
  BY <1>1, <1>2
<1>6. ASSUME pa = qb PROVE p = q /\ a = b
  <2>1. Len(p) = Len(q)
    BY <1>1, <1>2, <1>3, <1>6
  <2>2. \A k \in 1..Len(p) : p[k] = q[k]
    BY <1>2, <1>3, <1>6, <2>1
  <2>3. p = q
    BY <2>1, <2>2, SeqEqual
  <2> QED
    BY <1>2, <1>3, <1>6, <2>1, <2>3
<1> QED
  BY <1>4, <1>5, <1>6 DEF pa, qb

LEMMA FunctionSeq ==
    ASSUME NEW S, NEW n \in Nat, NEW f \in [1..n -> S]
    PROVE  f \in Seq(S) /\ DOMAIN f = 1..n
OBVIOUS

\* A set of natural numbers has a least element: the first-order form of
\* induction.
LEMMA LeastNat ==
    ASSUME NEW T \in SUBSET Nat, T # {}
    PROVE  \E m \in T : \A k \in T : m <= k
<1>1. \E R : /\ IsWellFoundedOn(R, Nat)
             /\ \A x, y \in Nat : y < x => <<y, x>> \in R
  <2>1. \A x, y \in Nat : y < x => <<y, x>> \in OpToRel(<, Nat)
    BY DEF OpToRel
  <2> QED
    BY <2>1, NatLessThanWellFounded
<1>2. PICK R : /\ IsWellFoundedOn(R, Nat)
               /\ \A x, y \in Nat : y < x => <<y, x>> \in R
  BY <1>1
<1>3. PICK m \in T : \A k \in T : <<k, m>> \notin R
  BY <1>2, WFMin
<1>4. ASSUME NEW k \in T PROVE m <= k
  <2>1. k \in Nat /\ m \in Nat /\ ~(k < m)
    BY <1>2, <1>3
  <2> QED
    BY <2>1
<1> QED
  BY <1>4

-----------------------------------------------------------------------------
(* Ordering *)

IsTotalOrder(S, R) ==
    /\ \A x \in S : <<x, x>> \in R
    /\ \A x, y \in S : <<x, y>> \in R \/ <<y, x>> \in R
    /\ \A x, y \in S : <<x, y>> \in R /\ <<y, x>> \in R => x = y
    /\ \A x, y, z \in S : <<x, y>> \in R /\ <<y, z>> \in R => <<x, z>> \in R

\* How many elements come before x or are x: different for each, from 1 up.
LEMMA OrderedPlaces ==
    ASSUME NEW S, IsFiniteSet(S), NEW R, IsTotalOrder(S, R)
    PROVE  LET Before(x) == {y \in S : <<y, x>> \in R} IN
           /\ \A x \in S : Cardinality(Before(x)) \in 1..Cardinality(S)
           /\ \A x, y \in S :
                 <<x, y>> \in R /\ x # y => Cardinality(Before(x)) < Cardinality(Before(y))
           /\ \A n \in 1..Cardinality(S) : \E x \in S : Cardinality(Before(x)) = n
<1> DEFINE Before(x) == {y \in S : <<y, x>> \in R}
           place == [x \in S |-> Cardinality(Before(x))]
<1>1. ASSUME NEW x \in S
      PROVE  IsFiniteSet(Before(x)) /\ Cardinality(Before(x)) \in 1..Cardinality(S)
  <2>1. Before(x) \in SUBSET S /\ x \in Before(x)
    BY DEF IsTotalOrder
  <2>2. IsFiniteSet(Before(x)) /\ Cardinality(Before(x)) <= Cardinality(S)
    BY <2>1, FS_Subset
  <2>3. Cardinality(Before(x)) # 0
    BY <2>1, <2>2, FS_EmptySet
  <2>4. Cardinality(Before(x)) \in Nat /\ Cardinality(S) \in Nat
    BY <2>2, FS_CardinalityType
  <2> QED
    BY <2>2, <2>3, <2>4
<1>2. ASSUME NEW x \in S, NEW y \in S, <<x, y>> \in R, x # y
      PROVE  Cardinality(Before(x)) < Cardinality(Before(y))
  <2>1. Before(x) \in SUBSET Before(y) /\ y \in Before(y) /\ y \notin Before(x)
    BY <1>2 DEF IsTotalOrder
  <2>2. /\ Cardinality(Before(x)) <= Cardinality(Before(y))
        /\ Cardinality(Before(x)) # Cardinality(Before(y))
    BY <1>1, <2>1, FS_Subset
  <2> QED
    BY <1>1, <2>2
<1>3. place \in Injection(S, 1..Cardinality(S))
  <2>1. ASSUME NEW x \in S, NEW y \in S, place[x] = place[y] PROVE x = y
    <3>1. ~(Cardinality(Before(x)) < Cardinality(Before(y)))
          /\ ~(Cardinality(Before(y)) < Cardinality(Before(x)))
      BY <1>1, <2>1
    <3>2. <<x, y>> \in R \/ <<y, x>> \in R
      BY DEF IsTotalOrder
    <3>3. x # y /\ <<x, y>> \in R => Cardinality(Before(x)) < Cardinality(Before(y))
      BY <1>2
    <3>4. x # y /\ <<y, x>> \in R => Cardinality(Before(y)) < Cardinality(Before(x))
      BY <1>2
    <3> HIDE DEF Before
    <3> QED
      BY <3>1, <3>2, <3>3, <3>4
  <2>2. place \in [S -> 1..Cardinality(S)]
    BY <1>1
  <2> HIDE DEF place
  <2> QED
    BY <2>1, <2>2 DEF Injection, IsInjective
<1>4. place \in Surjection(S, 1..Cardinality(S))
  <2>1. Cardinality(S) \in Nat
    BY FS_CardinalityType
  <2>2. /\ IsFiniteSet(1..Cardinality(S))
        /\ Cardinality(1..Cardinality(S)) = Cardinality(S)
    BY <2>1, FS_Interval
  <2> QED
    BY <1>3, <2>2, FS_Injection
<1>5. ASSUME NEW n \in 1..Cardinality(S)
      PROVE  \E x \in S : Cardinality(Before(x)) = n
  BY <1>4 DEF Surjection
<1> QED
  BY <1>1, <1>2, <1>5

\* Ordered lists every element of S once, in the order R.
LEMMA OrderedLists ==
    ASSUME NEW S, IsFiniteSet(S), NEW R, IsTotalOrder(S, R)
    PROVE  LET s == Ordered(S, R) IN
           /\ s \in Seq(S) /\ DOMAIN s = 1..Cardinality(S) /\ Cardinality(S) \in Nat
           /\ Range(s) = S
           /\ \A m, n \in DOMAIN s : m < n => <<s[m], s[n]>> \in R /\ s[m] # s[n]
<1> DEFINE Before(x) == {y \in S : <<y, x>> \in R}
           s == Ordered(S, R)
<1>1. /\ \A x \in S : Cardinality(Before(x)) \in 1..Cardinality(S)
      /\ \A x, y \in S :
            <<x, y>> \in R /\ x # y => Cardinality(Before(x)) < Cardinality(Before(y))
      /\ \A n \in 1..Cardinality(S) : \E x \in S : Cardinality(Before(x)) = n
  BY OrderedPlaces
<1>2. s = [n \in 1..Cardinality(S) |-> CHOOSE x \in S : Cardinality(Before(x)) = n]
  BY DEF Ordered
<1>3. Cardinality(S) \in Nat
  BY FS_CardinalityType
<1> HIDE DEF s, Before
<1>4. DOMAIN s = 1..Cardinality(S)
  BY <1>2
<1>5. ASSUME NEW n \in 1..Cardinality(S)
      PROVE  s[n] \in S /\ Cardinality(Before(s[n])) = n
  BY <1>1, <1>2
<1>6. ASSUME NEW x \in S PROVE s[Cardinality(Before(x))] = x
  <2> DEFINE z == s[Cardinality(Before(x))]
  <2>1. z \in S /\ Cardinality(Before(z)) = Cardinality(Before(x))
        /\ Cardinality(Before(x)) \in Nat
    BY <1>1, <1>5
  <2>2. ~(Cardinality(Before(x)) < Cardinality(Before(z)))
        /\ ~(Cardinality(Before(z)) < Cardinality(Before(x)))
    BY <2>1
  <2>3. <<x, z>> \in R \/ <<z, x>> \in R
    BY <2>1 DEF IsTotalOrder
  <2> QED
    BY <1>1, <2>1, <2>2, <2>3
<1>7. Range(s) = S
  BY <1>1, <1>4, <1>5, <1>6 DEF Range
<1>8. ASSUME NEW m \in DOMAIN s, NEW n \in DOMAIN s, m < n
      PROVE  <<s[m], s[n]>> \in R /\ s[m] # s[n]
  <2>1. /\ s[m] \in S /\ Cardinality(Before(s[m])) = m /\ m \in Nat
        /\ s[n] \in S /\ Cardinality(Before(s[n])) = n /\ n \in Nat
    BY <1>4, <1>5
  <2>2. ~(n < m) /\ s[m] # s[n]
    BY <1>8, <2>1
  <2>3. <<s[m], s[n]>> \in R \/ <<s[n], s[m]>> \in R
    BY <2>1 DEF IsTotalOrder
  <2> QED
    BY <1>1, <2>1, <2>2, <2>3
<1>9. s \in Seq(S)
  BY <1>3, <1>4, <1>5, <1>2
<1> QED
  BY <1>3, <1>4, <1>7, <1>8, <1>9 DEF s

\* Ascending lists a finite set of numbers, the least first.
LEMMA AscendingLists ==
    ASSUME NEW K \in SUBSET Nat, IsFiniteSet(K)
    PROVE  LET s == Ascending(K) IN
           /\ s \in Seq(K) /\ DOMAIN s = 1..Cardinality(K) /\ Cardinality(K) \in Nat
           /\ Range(s) = K
           /\ \A m, n \in DOMAIN s : m < n => s[m] < s[n]
<1> DEFINE R == {p \in K \X K : p[1] <= p[2]}
           s == Ascending(K)
<1>1. \A x, y \in K : <<x, y>> \in R <=> x <= y
  OBVIOUS
<1>2. IsTotalOrder(K, R)
  BY <1>1 DEF IsTotalOrder
<1>3. s = Ordered(K, R)
  BY DEF Ascending
<1> HIDE DEF R, s
<1>4. /\ s \in Seq(K) /\ DOMAIN s = 1..Cardinality(K) /\ Cardinality(K) \in Nat
      /\ Range(s) = K
      /\ \A m, n \in DOMAIN s : m < n => <<s[m], s[n]>> \in R /\ s[m] # s[n]
  BY <1>2, <1>3, OrderedLists
<1>5. ASSUME NEW m \in DOMAIN s, NEW n \in DOMAIN s, m < n PROVE s[m] < s[n]
  <2>1. s[m] \in K /\ s[n] \in K
    BY <1>4
  <2>2. <<s[m], s[n]>> \in R /\ s[m] # s[n]
    BY <1>4, <1>5
  <2>3. s[m] <= s[n]
    BY <1>1, <2>1, <2>2
  <2>4. s[m] \in Nat /\ s[n] \in Nat
    BY <2>1
  <2> QED
    BY <2>2, <2>3, <2>4
<1> QED
  BY <1>4, <1>5 DEF s

\* ElementsAt is a subsequence: the elements at K, in their order.
LEMMA ElementsAtLists ==
    ASSUME NEW S, NEW s \in Seq(S), NEW K \in SUBSET DOMAIN s
    PROVE  LET t == ElementsAt(s, K) IN
           /\ t \in Seq(S)
           /\ Range(t) = {s[k] : k \in K}
           /\ t = <<>> <=> K = {}
           /\ \E at \in [DOMAIN t -> K] :
                 /\ \A n \in DOMAIN t : t[n] = s[at[n]]
                 /\ \A k \in K : \E n \in DOMAIN t : at[n] = k
                 /\ \A m, n \in DOMAIN t : m < n => at[m] < at[n]
<1> DEFINE t == ElementsAt(s, K)
           ks == Ascending(K)
<1>1. K \in SUBSET Nat /\ IsFiniteSet(K)
  <2>1. IsFiniteSet(1..Len(s)) /\ DOMAIN s = 1..Len(s) /\ Len(s) \in Nat
    BY FS_Interval
  <2> QED
    BY <2>1, FS_Subset
<1>2. /\ ks \in Seq(K) /\ DOMAIN ks = 1..Cardinality(K) /\ Cardinality(K) \in Nat
      /\ Range(ks) = K
      /\ \A m, n \in DOMAIN ks : m < n => ks[m] < ks[n]
  BY <1>1, AscendingLists
<1>3. t = [n \in DOMAIN ks |-> s[ks[n]]]
  BY DEF ElementsAt
<1>4. Cardinality(K) = 0 <=> K = {}
  BY <1>1, FS_EmptySet
<1> HIDE DEF t, ks
<1>5. /\ DOMAIN t = 1..Cardinality(K)
      /\ \A n \in DOMAIN t : ks[n] \in K /\ t[n] = s[ks[n]] /\ t[n] \in S
  BY <1>2, <1>3
<1>6. t \in Seq(S)
  BY <1>2, <1>3, <1>5
<1>7. Range(t) = {s[k] : k \in K}
  BY <1>2, <1>3, <1>5 DEF Range
<1>8. t = <<>> <=> K = {}
  <2>1. Len(t) = Cardinality(K)
    BY <1>2, <1>5, <1>6
  <2> QED
    BY <1>4, <1>6, <2>1
<1>9. /\ ks \in [DOMAIN t -> K]
      /\ \A n \in DOMAIN t : t[n] = s[ks[n]]
      /\ \A m, n \in DOMAIN t : m < n => ks[m] < ks[n]
  BY <1>2, <1>5
<1>10. \A k \in K : \E n \in DOMAIN t : ks[n] = k
  BY <1>2, <1>5 DEF Range
<1> QED
  BY <1>6, <1>7, <1>8, <1>9, <1>10 DEF t

\* All the elements of a sequence are the sequence.
LEMMA AllElements ==
    ASSUME NEW S, NEW s \in Seq(S)
    PROVE  ElementsAt(s, DOMAIN s) = s
<1> DEFINE K == 1..Len(s)
           R == {p \in K \X K : p[1] <= p[2]}
           Before(x) == {y \in K : <<y, x>> \in R}
           ks == Ascending(K)
<1>1. Len(s) \in Nat /\ DOMAIN s = K
  OBVIOUS
<1>2. ASSUME NEW x \in K PROVE Cardinality(Before(x)) = x
  <2>1. x \in Nat /\ 1 <= x
    BY <1>1
  <2>2. Before(x) = 1..x
    BY <1>1, <2>1
  <2>3. Cardinality(1..x) = x
    BY <2>1, FS_Interval
  <2> QED
    BY <2>2, <2>3
<1>3. Cardinality(K) = Len(s)
  BY <1>1, FS_Interval
<1>4. ks = [n \in 1..Cardinality(K) |-> CHOOSE x \in K : Cardinality(Before(x)) = n]
  BY DEF Ascending, Ordered
<1> HIDE DEF Before, R
<1>5. ASSUME NEW n \in K PROVE (CHOOSE x \in K : Cardinality(Before(x)) = n) = n
  <2>1. \A x \in K : Cardinality(Before(x)) = n <=> x = n
    BY <1>2
  <2> QED
    BY <2>1
<1>6. ks = [n \in K |-> n]
  <2>1. ks = [n \in K |-> CHOOSE x \in K : Cardinality(Before(x)) = n]
    BY <1>3, <1>4
  <2> QED
    BY <1>5, <2>1
<1> HIDE DEF ks
<1>7. ElementsAt(s, K) = [n \in K |-> s[n]]
  BY <1>6 DEF ElementsAt, ks
<1> QED
  BY <1>1, <1>7

\* A finite set as a sequence: each of its elements, once.
LEMMA SetToSeqLists ==
    ASSUME NEW S, IsFiniteSet(S)
    PROVE  LET s == SetToSeq(S) IN s \in Seq(S) /\ Range(s) = S /\ IsInjective(s)
<1> DEFINE c == Cardinality(S)
           s == SetToSeq(S)
<1>1. c \in Nat /\ \E f : f \in Bijection(1..c, S)
  BY FS_CardinalityType DEF ExistsBijection
<1> HIDE DEF c
<1>2. PICK f : f \in Bijection(1..c, S)
  BY <1>1
<1>3. f \in [1..c -> S] /\ IsInjective(f)
  BY <1>2 DEF Bijection, Injection, IsInjective
<1>4. s \in [1..c -> S] /\ IsInjective(s)
  BY <1>3 DEF SetToSeq, c
<1> HIDE DEF s
<1>5. s \in Injection(1..c, S)
  BY <1>4 DEF Injection, IsInjective
<1>6. IsFiniteSet(1..c) /\ Cardinality(1..c) = c
  <2>1. c \in Int /\ 1 \in Int
    BY <1>1
  <2>2. /\ IsFiniteSet(1..c)
        /\ Cardinality(1..c) = IF 1 > c THEN 0 ELSE c - 1 + 1
    BY <2>1, FS_Interval
  <2> QED
    BY <1>1, <2>2
<1>7. s \in Surjection(1..c, S)
  BY <1>5, <1>6, FS_Injection DEF c
<1>8. Range(s) = S
  BY <1>4, <1>7 DEF Surjection, Range
<1>9. s \in Seq(S)
  BY <1>1, <1>4
<1> QED
  BY <1>4, <1>8, <1>9 DEF s

-----------------------------------------------------------------------------
(* Recursion and concatenation *)

\* Induction, for a property given as the set of numbers that have it.
LEMMA NatInduct ==
    ASSUME NEW T, 0 \in T, \A n \in Nat : n \in T => n + 1 \in T
    PROVE  \A n \in Nat : n \in T
<1> DEFINE Out == {n \in Nat : n \notin T}
<1>1. ASSUME Out # {} PROVE FALSE
  <2>1. PICK m \in Out : \A k \in Out : m <= k
    BY <1>1, LeastNat
  <2>2. m \in Nat /\ m # 0 /\ m - 1 \in Nat /\ m - 1 \notin Out
    BY <2>1
  <2>3. (m - 1) + 1 \in T
    BY <2>2
  <2> QED
    BY <2>1, <2>2, <2>3
<1> QED
  BY <1>1

\* seq is the concatenation of s[1] to s[n]: at says which element of which
\* sequence each one is.
Concatenates(seq, s, n, at) ==
    /\ at \in [DOMAIN seq -> Nat \X Nat]
    /\ \A k \in DOMAIN seq :
          /\ at[k][1] \in 1..n /\ at[k][2] \in DOMAIN s[at[k][1]]
          /\ seq[k] = s[at[k][1]][at[k][2]]
    /\ \A i \in 1..n : \A j \in DOMAIN s[i] : \E k \in DOMAIN seq : at[k] = <<i, j>>
    /\ \A k, l \in DOMAIN seq : k < l =>
          at[k][1] < at[l][1] \/ (at[k][1] = at[l][1] /\ at[k][2] < at[l][2])

LEMMA ConcatenateOne ==
    ASSUME NEW T, NEW s \in Seq(Seq(T)), NEW n \in Nat, n + 1 \in DOMAIN s,
           NEW seq \in Seq(T), NEW at, Concatenates(seq, s, n, at)
    PROVE  /\ seq \o s[n + 1] \in Seq(T)
           /\ \E to : Concatenates(seq \o s[n + 1], s, n + 1, to)
<1> DEFINE u == s[n + 1]
           both == seq \o u
           to == [k \in DOMAIN both |-> IF k <= Len(seq) THEN at[k]
                                        ELSE <<n + 1, k - Len(seq)>>]
<1>1. u \in Seq(T) /\ Len(u) \in Nat /\ DOMAIN u = 1..Len(u)
  OBVIOUS
<1>2. Len(seq) \in Nat /\ DOMAIN seq = 1..Len(seq)
  OBVIOUS
<1> HIDE DEF u
<1>3. /\ both \in Seq(T) /\ DOMAIN both = 1..(Len(seq) + Len(u))
      /\ \A k \in 1..Len(seq) : both[k] = seq[k]
      /\ \A k \in 1..Len(u) : both[Len(seq) + k] = u[k]
  BY <1>1, <1>2
<1> HIDE DEF both
<1>4. \A k \in DOMAIN both : \/ k \in DOMAIN seq /\ k <= Len(seq)
                             \/ k - Len(seq) \in DOMAIN u /\ ~(k <= Len(seq))
  BY <1>1, <1>2, <1>3
<1>5. /\ \A k \in DOMAIN seq :
            k \in DOMAIN both /\ to[k] = at[k] /\ both[k] = seq[k] /\ k <= Len(seq)
      /\ \A k \in DOMAIN u : /\ Len(seq) + k \in DOMAIN both
                             /\ to[Len(seq) + k] = <<n + 1, k>>
                             /\ both[Len(seq) + k] = u[k]
                             /\ ~(Len(seq) + k <= Len(seq))
  <2>1. ASSUME NEW k \in DOMAIN seq
        PROVE  k \in DOMAIN both /\ to[k] = at[k] /\ both[k] = seq[k] /\ k <= Len(seq)
    <3>1. k \in DOMAIN both /\ k <= Len(seq) /\ both[k] = seq[k]
      BY <1>1, <1>2, <1>3
    <3> QED
      BY <3>1
  <2>2. ASSUME NEW k \in DOMAIN u
        PROVE  /\ Len(seq) + k \in DOMAIN both
               /\ to[Len(seq) + k] = <<n + 1, k>>
               /\ both[Len(seq) + k] = u[k]
               /\ ~(Len(seq) + k <= Len(seq))
    <3>1. /\ Len(seq) + k \in DOMAIN both /\ ~(Len(seq) + k <= Len(seq))
          /\ both[Len(seq) + k] = u[k] /\ (Len(seq) + k) - Len(seq) = k
      BY <1>1, <1>2, <1>3
    <3> QED
      BY <3>1
  <2> QED
    BY <2>1, <2>2
<1> HIDE DEF to
<1>6. \A k \in DOMAIN both :
         \/ k \in DOMAIN seq /\ k <= Len(seq)
         \/ ~(k <= Len(seq)) /\ \E j \in DOMAIN u : k = Len(seq) + j
  <2> SUFFICES ASSUME NEW k \in DOMAIN both, ~(k <= Len(seq))
               PROVE  \E j \in DOMAIN u : k = Len(seq) + j
    BY <1>4
  <2>1. k - Len(seq) \in DOMAIN u /\ k = Len(seq) + (k - Len(seq))
    BY <1>2, <1>3, <1>4
  <2> QED
    BY <2>1
<1>7. ASSUME NEW k \in DOMAIN both
      PROVE  /\ to[k] \in Nat \X Nat
             /\ to[k][1] \in 1..(n + 1) /\ to[k][2] \in DOMAIN s[to[k][1]]
             /\ both[k] = s[to[k][1]][to[k][2]]
  <2>1. CASE k \in DOMAIN seq
    BY <1>5, <2>1 DEF Concatenates
  <2>2. CASE \E j \in DOMAIN u : k = Len(seq) + j
    <3>1. PICK j \in DOMAIN u : k = Len(seq) + j
      BY <2>2
    <3>2. to[k] = <<n + 1, j>> /\ both[k] = u[j]
      BY <1>5, <3>1
    <3>3. n + 1 \in 1..(n + 1) /\ n + 1 \in Nat /\ j \in Nat
      BY <1>1
    <3> QED
      BY <3>2, <3>3 DEF u
  <2> QED
    BY <1>6, <2>1, <2>2
<1>8. ASSUME NEW i \in 1..(n + 1), NEW j \in DOMAIN s[i]
      PROVE  \E k \in DOMAIN both : to[k] = <<i, j>>
  <2>1. CASE i \in 1..n
    <3>1. PICK k \in DOMAIN seq : at[k] = <<i, j>>
      BY <2>1 DEF Concatenates
    <3> QED
      BY <1>5, <3>1
  <2>2. CASE i = n + 1
    BY <1>5, <2>2 DEF u
  <2> QED
    BY <2>1, <2>2
<1>9. ASSUME NEW k \in DOMAIN both, NEW l \in DOMAIN both, k < l
      PROVE  to[k][1] < to[l][1] \/ (to[k][1] = to[l][1] /\ to[k][2] < to[l][2])
  <2>1. CASE l \in DOMAIN seq
    <3>1. k \in DOMAIN seq
      BY <1>2, <1>3, <1>9, <2>1
    <3> QED
      BY <1>5, <1>9, <2>1, <3>1 DEF Concatenates
  <2>2. CASE \E j \in DOMAIN u : l = Len(seq) + j
    <3>1. PICK j \in DOMAIN u : l = Len(seq) + j
      BY <2>2
    <3>2. to[l] = <<n + 1, j>>
      BY <1>5, <3>1
    <3>3. CASE k \in DOMAIN seq
      <4>1. to[k][1] \in 1..n
        BY <1>5, <3>3 DEF Concatenates
      <4> QED
        BY <3>2, <4>1
    <3>4. CASE \E i \in DOMAIN u : k = Len(seq) + i
      <4>1. PICK i \in DOMAIN u : k = Len(seq) + i
        BY <3>4
      <4>2. to[k] = <<n + 1, i>> /\ i < j
        BY <1>1, <1>2, <1>5, <1>9, <3>1, <4>1
      <4> QED
        BY <3>2, <4>2
    <3> QED
      BY <1>6, <3>3, <3>4
  <2> QED
    BY <1>6, <2>1, <2>2
<1>10. to \in [DOMAIN both -> Nat \X Nat]
  BY <1>7 DEF to
<1>11. Concatenates(both, s, n + 1, to)
  BY <1>7, <1>8, <1>9, <1>10 DEF Concatenates
<1> QED
  BY <1>3, <1>11 DEF both, u

\* FlattenSeq concatenates, in order and all of it.
LEMMA FlattenConcatenates ==
    ASSUME NEW T, NEW s \in Seq(Seq(T))
    PROVE  /\ FlattenSeq(s) \in Seq(T)
           /\ \E at : Concatenates(FlattenSeq(s), s, Len(s), at)
<1> DEFINE Fix(g, n) == g = [i \in 1..n |-> IF i = 1 THEN s[i] ELSE g[i - 1] \o s[i]]
           Good(f, n) == f[n] \in Seq(T) /\ \E at : Concatenates(f[n], s, n, at)
<1>1. Len(s) \in Nat /\ DOMAIN s = 1..Len(s)
  OBVIOUS
<1>2. Concatenates(<<>>, s, 0, <<>>)
  BY DEF Concatenates
<1>3. CASE Len(s) = 0
  <2>1. FlattenSeq(s) = <<>> /\ <<>> \in Seq(T)
    BY <1>3 DEF FlattenSeq
  <2> QED
    BY <1>2, <1>3, <2>1
<1>4. CASE Len(s) # 0
  <2>1. \E g : Fix(g, Len(s))
    <3> DEFINE M == {n \in Nat : \E g : Fix(g, n)}
    <3>1. 0 \in M
      <4>1. Fix(<<>>, 0)
        OBVIOUS
      <4> QED
        BY <4>1
    <3>2. ASSUME NEW n \in Nat, n \in M PROVE n + 1 \in M
      <4>1. PICK g : Fix(g, n)
        BY <3>2
      <4> DEFINE h == [i \in 1..(n + 1) |-> IF i = 1 THEN s[i] ELSE g[i - 1] \o s[i]]
      <4>2. \A i \in 1..n : h[i] = g[i]
        <5>1. \A i \in 1..n : g[i] = IF i = 1 THEN s[i] ELSE g[i - 1] \o s[i]
          BY <4>1
        <5>2. \A i \in 1..n : i \in 1..(n + 1)
          OBVIOUS
        <5> QED
          BY <5>1, <5>2
      <4>3. \A i \in 1..(n + 1) : i # 1 => i - 1 \in 1..n
        OBVIOUS
      <4>4. \A i \in 1..(n + 1) : i # 1 => g[i - 1] = h[i - 1]
        BY <4>2, <4>3
      <4>5. h = [i \in 1..(n + 1) |-> IF i = 1 THEN s[i] ELSE h[i - 1] \o s[i]]
        BY <4>4
      <4> HIDE DEF h
      <4>6. Fix(h, n + 1)
        BY <4>5
      <4> HIDE DEF Fix
      <4> QED
        BY <4>6
    <3> HIDE DEF M
    <3>3. \A n \in Nat : n \in M
      BY <3>1, <3>2, NatInduct
    <3> QED
      BY <1>1, <3>3 DEF M
  <2>2. PICK f : Fix(f, Len(s)) /\ FlattenSeq(s) = f[Len(s)]
    <3>1. \E f : /\ f = [i \in 1..Len(s) |-> IF i = 1 THEN s[i] ELSE f[i - 1] \o s[i]]
                 /\ FlattenSeq(s) = f[Len(s)]
      BY <1>4, <2>1 DEF FlattenSeq
    <3> QED
      BY <3>1
  <2>3. /\ f[1] = s[1]
        /\ \A n \in Nat : n # 0 /\ n + 1 \in 1..Len(s) => f[n + 1] = f[n] \o s[n + 1]
    <3>1. \A i \in 1..Len(s) : f[i] = IF i = 1 THEN s[i] ELSE f[i - 1] \o s[i]
      BY <2>2
    <3>2. 1 \in 1..Len(s)
      BY <1>1, <1>4
    <3>3. \A n \in Nat : n # 0 => n + 1 # 1 /\ (n + 1) - 1 = n
      OBVIOUS
    <3> QED
      BY <3>1, <3>2, <3>3
  <2> HIDE DEF Fix
  <2> DEFINE M == {n \in Nat : n # 0 /\ n <= Len(s) => Good(f, n)}
  <2>4. ASSUME NEW n \in Nat, n \in M PROVE n + 1 \in M
    <3> SUFFICES ASSUME n + 1 <= Len(s) PROVE Good(f, n + 1)
      OBVIOUS
    <3>1. n + 1 \in 1..Len(s) /\ n + 1 \in DOMAIN s
      BY <1>1
    <3>2. CASE n = 0
      <4>1. /\ <<>> \o s[1] \in Seq(T)
            /\ \E at : Concatenates(<<>> \o s[1], s, 1, at)
        <5>1. <<>> \in Seq(T) /\ 0 \in Nat /\ 0 + 1 = 1 /\ 0 + 1 \in DOMAIN s
          BY <3>1, <3>2
        <5>2. /\ <<>> \o s[0 + 1] \in Seq(T)
              /\ \E at : Concatenates(<<>> \o s[0 + 1], s, 0 + 1, at)
          BY <1>2, <5>1, ConcatenateOne
        <5> QED
          BY <5>1, <5>2
      <4>2. <<>> \o s[1] = f[1]
        BY <2>3, <3>1, <3>2
      <4> QED
        BY <3>2, <4>1, <4>2
    <3>3. CASE n # 0
      <4>1. f[n] \in Seq(T) /\ \E at : Concatenates(f[n], s, n, at)
        BY <1>1, <2>4, <3>1, <3>3
      <4>2. /\ f[n] \o s[n + 1] \in Seq(T)
            /\ \E at : Concatenates(f[n] \o s[n + 1], s, n + 1, at)
        BY <3>1, <4>1, ConcatenateOne
      <4> QED
        BY <2>3, <3>1, <3>3, <4>2
    <3> QED
      BY <3>2, <3>3
  <2>5. 0 \in M
    OBVIOUS
  <2> HIDE DEF M
  <2>6. \A n \in Nat : n \in M
    BY <2>4, <2>5, NatInduct
  <2>7. Good(f, Len(s))
    BY <1>1, <1>4, <2>6 DEF M
  <2> QED
    BY <2>2, <2>7
<1> QED
  BY <1>3, <1>4

\* A list that has been concatenated has what its parts have.
LEMMA FlattenRange ==
    ASSUME NEW T, NEW s \in Seq(Seq(T))
    PROVE  /\ FlattenSeq(s) \in Seq(T)
           /\ \A x : x \in Range(FlattenSeq(s)) <=> \E n \in DOMAIN s : x \in Range(s[n])
<1>1. FlattenSeq(s) \in Seq(T) /\ \E at : Concatenates(FlattenSeq(s), s, Len(s), at)
  BY FlattenConcatenates
<1> DEFINE f == FlattenSeq(s)
<1>2. PICK at : Concatenates(f, s, Len(s), at)
  BY <1>1
<1> HIDE DEF f
<1>3. Len(s) \in Nat /\ DOMAIN s = 1..Len(s)
  OBVIOUS
<1>4. /\ \A k \in DOMAIN f : at[k][1] \in DOMAIN s /\ at[k][2] \in DOMAIN s[at[k][1]]
                             /\ f[k] = s[at[k][1]][at[k][2]]
      /\ \A n \in DOMAIN s : \A j \in DOMAIN s[n] : \E k \in DOMAIN f : at[k] = <<n, j>>
  BY <1>2, <1>3 DEF Concatenates
<1>5. ASSUME NEW n \in DOMAIN s, NEW j \in DOMAIN s[n] PROVE s[n][j] \in Range(f)
  <2>1. PICK k \in DOMAIN f : at[k] = <<n, j>>
    BY <1>4
  <2>2. f[k] = s[n][j]
    BY <1>4, <2>1
  <2> QED
    BY <2>2 DEF Range
<1>6. ASSUME NEW k \in DOMAIN f PROVE \E n \in DOMAIN s : f[k] \in Range(s[n])
  BY <1>4 DEF Range
<1>7. \A x : x \in Range(f) <=> \E n \in DOMAIN s : x \in Range(s[n])
  BY <1>5, <1>6 DEF Range
<1> QED
  BY <1>1, <1>7 DEF f

\* Nothing is there twice, if it is in one part only and once in that.
LEMMA FlattenInjective ==
    ASSUME NEW T, NEW s \in Seq(Seq(T)),
           \A n \in DOMAIN s : IsInjective(s[n]),
           \A m, n \in DOMAIN s : m # n => Range(s[m]) \cap Range(s[n]) = {}
    PROVE  IsInjective(FlattenSeq(s))
<1>1. FlattenSeq(s) \in Seq(T) /\ \E at : Concatenates(FlattenSeq(s), s, Len(s), at)
  BY FlattenConcatenates
<1> DEFINE f == FlattenSeq(s)
<1>2. PICK at : Concatenates(f, s, Len(s), at)
  BY <1>1
<1>3. f \in Seq(T) /\ DOMAIN f = 1..Len(f) /\ Len(f) \in Nat
  BY <1>1
<1> HIDE DEF f
<1>4. Len(s) \in Nat /\ DOMAIN s = 1..Len(s)
  OBVIOUS
<1>5. /\ \A k \in DOMAIN f : /\ at[k][1] \in DOMAIN s /\ at[k][2] \in DOMAIN s[at[k][1]]
                             /\ at[k][1] \in Nat /\ at[k][2] \in Nat
                             /\ f[k] = s[at[k][1]][at[k][2]]
      /\ \A k, l \in DOMAIN f : k < l =>
            at[k][1] < at[l][1] \/ (at[k][1] = at[l][1] /\ at[k][2] < at[l][2])
  BY <1>2, <1>4 DEF Concatenates
<1>6. ASSUME NEW k \in DOMAIN f, NEW l \in DOMAIN f, k < l PROVE f[k] # f[l]
  <2>1. CASE at[k][1] = at[l][1]
    <3>1. at[k][2] # at[l][2]
      BY <1>5, <1>6, <2>1
    <3>2. IsInjective(s[at[k][1]])
      BY <1>5
    <3> QED
      BY <1>5, <2>1, <3>1, <3>2 DEF IsInjective
  <2>2. CASE at[k][1] # at[l][1]
    <3>1. f[k] \in Range(s[at[k][1]]) /\ f[l] \in Range(s[at[l][1]])
      BY <1>5 DEF Range
    <3>2. Range(s[at[k][1]]) \cap Range(s[at[l][1]]) = {}
      BY <1>5, <2>2
    <3> QED
      BY <3>1, <3>2
  <2> QED
    BY <2>1, <2>2
<1>7. IsInjective(f)
  <2> SUFFICES ASSUME NEW k \in DOMAIN f, NEW l \in DOMAIN f, f[k] = f[l] PROVE k = l
    BY DEF IsInjective
  <2>1. ~(k < l) /\ ~(l < k)
    BY <1>6
  <2> QED
    BY <1>3, <2>1
<1> QED
  BY <1>7 DEF f
=============================================================================
