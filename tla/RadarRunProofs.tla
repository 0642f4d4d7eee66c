--------------------------- MODULE RadarRunProofs ---------------------------
(***************************************************************************)
(* Theorems about RadarRun, for every config, command line and set of      *)
(* answers.  First the facts about Scoring and Ranking: the urgency curve, *)
(* what evidence does to a priority, and that Rank is a stable sort of all *)
(* the items.  Then the run: it is a line of stages, so the invariant says *)
(* what each stage leaves for those behind it.                             *)
(***************************************************************************)
EXTENDS RadarRun, SequenceLemmas

-----------------------------------------------------------------------------
(* The urgency curve *)

\* top, scaled down by p over q once for every step up to N.
Scaling(top, p, q, N) ==
    LET g[n \in 0..N] == IF n = 0 THEN top ELSE (g[n - 1] * p) \div q
    IN  [n \in 0..N |-> g[n]]

\* It is the function its recursion says, never rises and is never negative.
LEMMA Falling ==
    ASSUME NEW top \in Nat, NEW p \in Nat, NEW q \in Nat, q # 0, p <= q, NEW N \in Nat
    PROVE  LET d == Scaling(top, p, q, N) IN
           /\ d[0] = top
           /\ \A n \in 1..N : d[n] = (d[n - 1] * p) \div q
           /\ \A n \in 0..N : d[n] \in 0..top
           /\ \A m, n \in 0..N : m <= n => d[n] <= d[m]
<1> DEFINE d == Scaling(top, p, q, N)
           Fix(g, n) == g = [i \in 0..n |-> IF i = 0 THEN top ELSE (g[i - 1] * p) \div q]
<1>1. \E g : Fix(g, N)
  <2> DEFINE M == {n \in Nat : \E g : Fix(g, n)}
  <2>1. 0 \in M
    <3>1. Fix([i \in 0..0 |-> top], 0)
      OBVIOUS
    <3> QED
      BY <3>1
  <2>2. ASSUME NEW n \in Nat, n \in M PROVE n + 1 \in M
    <3>1. PICK g : Fix(g, n)
      BY <2>2
    <3> DEFINE h == [i \in 0..(n + 1) |-> IF i = 0 THEN top ELSE (g[i - 1] * p) \div q]
    <3>2. \A i \in 0..n : h[i] = g[i]
      <4>1. \A i \in 0..n : g[i] = IF i = 0 THEN top ELSE (g[i - 1] * p) \div q
        BY <3>1
      <4>2. \A i \in 0..n : i \in 0..(n + 1)
        OBVIOUS
      <4> QED
        BY <4>1, <4>2
    <3>3. \A i \in 0..(n + 1) : i # 0 => i - 1 \in 0..n
      OBVIOUS
    <3>4. \A i \in 0..(n + 1) : i # 0 => g[i - 1] = h[i - 1]
      BY <3>2, <3>3
    <3>5. h = [i \in 0..(n + 1) |-> IF i = 0 THEN top ELSE (h[i - 1] * p) \div q]
      BY <3>4
    <3> HIDE DEF h
    <3>6. Fix(h, n + 1)
      BY <3>5
    <3> HIDE DEF Fix
    <3> QED
      BY <3>6
  <2> HIDE DEF M
  <2>3. \A n \in Nat : n \in M
    BY <2>1, <2>2, NatInduct
  <2> QED
    BY <2>3 DEF M
<1>2. PICK f : Fix(f, N) /\ d = [n \in 0..N |-> f[n]]
  BY <1>1 DEF Scaling
<1> HIDE DEF d
<1>3. /\ d[0] = top
      /\ \A n \in 1..N : d[n] = (d[n - 1] * p) \div q
  <2>1. \A i \in 0..N : f[i] = IF i = 0 THEN top ELSE (f[i - 1] * p) \div q
    BY <1>2
  <2>2. \A i \in 0..N : d[i] = f[i]
    BY <1>2
  <2>3. 0 \in 0..N /\ \A i \in 1..N : i \in 0..N /\ i - 1 \in 0..N /\ i # 0
    OBVIOUS
  <2> QED
    BY <2>1, <2>2, <2>3
<1> HIDE DEF Fix
<1>4. ASSUME NEW x \in 0..top PROVE (x * p) \div q \in 0..top /\ (x * p) \div q <= x
  <2>1. x * p <= x * q /\ x * p \in Nat
    OBVIOUS
  <2>2. (x * p) \div q <= x /\ (x * p) \div q \in Nat
    BY <2>1
  <2> QED
    BY <2>2
<1> DEFINE Good(n) == /\ d[n] \in 0..top
                      /\ \A m \in 0..n : d[m] \in 0..top /\ d[n] <= d[m]
           M == {n \in Nat : n <= N => Good(n)}
<1>5. 0 \in M
  <2>1. \A m \in 0..0 : m = 0
    OBVIOUS
  <2> QED
    BY <1>3, <2>1
<1>6. ASSUME NEW n \in Nat, n \in M PROVE n + 1 \in M
  <2>0. (n + 1 <= N => Good(n + 1)) => n + 1 \in M
    <3> HIDE DEF Good
    <3> QED
      OBVIOUS
  <2> SUFFICES ASSUME n + 1 <= N
               PROVE  Good(n + 1)
    BY <2>0
  <2>1. n <= N /\ n + 1 \in 1..N /\ (n + 1) - 1 = n
    OBVIOUS
  <2>2. d[n] \in 0..top /\ \A m \in 0..n : d[m] \in 0..top /\ d[n] <= d[m]
    BY <1>6, <2>1
  <2>3. d[n + 1] = (d[n] * p) \div q
    BY <1>3, <2>1
  <2>4. d[n + 1] \in 0..top /\ d[n + 1] <= d[n]
    BY <1>4, <2>2, <2>3
  <2>5. ASSUME NEW m \in 0..(n + 1) PROVE d[m] \in 0..top /\ d[n + 1] <= d[m]
    <3>1. CASE m = n + 1
      BY <2>4, <3>1
    <3>2. CASE m \in 0..n
      <4>1. d[m] \in 0..top /\ d[n] <= d[m] /\ d[n] \in 0..top
        BY <2>2, <3>2
      <4> QED
        BY <2>4, <4>1
    <3> QED
      BY <3>1, <3>2
  <2> QED
    BY <2>4, <2>5
<1>7. \A n \in Nat : n \in M
  <2> HIDE DEF M
  <2> QED
    BY <1>5, <1>6, NatInduct
<1>8. ASSUME NEW m \in 0..N, NEW n \in 0..N, m <= n
      PROVE  d[n] \in 0..top /\ d[n] <= d[m]
  <2>1. m \in 0..n /\ n \in Nat /\ n <= N
    BY <1>8
  <2> QED
    BY <1>7, <2>1
<1>9. \A n \in 0..N : d[n] \in 0..top
  BY <1>8
<1>10. \A m, n \in 0..N : m <= n => d[n] <= d[m]
  BY <1>8
<1> QED
  BY <1>3, <1>9, <1>10 DEF d

\* A part of a whole, scaled.
LEMMA Scaled ==
    ASSUME NEW k \in Nat, NEW c \in Nat, c # 0, NEW x \in 0..c
    PROVE  /\ (k * x) \div c \in 0..k
           /\ \A y \in 0..x : (k * y) \div c <= (k * x) \div c
<1>1. k * x \in Nat /\ k * x <= k * c
  OBVIOUS
<1>2. (k * x) \div c \in 0..k
  BY <1>1
<1>3. ASSUME NEW y \in 0..x PROVE (k * y) \div c <= (k * x) \div c
  <2>1. k * y \in Nat /\ k * y <= k * x
    OBVIOUS
  <2>2. /\ (k * y) \div c \in Int /\ c * ((k * y) \div c) <= k * y
        /\ (k * x) \div c \in Int /\ k * x < c * ((k * x) \div c) + c
    BY <1>1, <2>1
  <2> DEFINE a == (k * y) \div c
             b == (k * x) \div c
  <2>3. a \in Int /\ b \in Int /\ c * a < c * b + c
    BY <1>1, <2>1, <2>2
  <2> HIDE DEF a, b
  <2>4. a <= b
    <3> SUFFICES ASSUME a >= b + 1 PROVE FALSE
      BY <2>3
    <3>1. c * a >= c * (b + 1) /\ c * (b + 1) = c * b + c
      BY <2>3
    <3>2. c * a \in Int /\ c * b \in Int
      BY <2>3
    <3> QED
      BY <2>3, <3>1, <3>2
  <2> QED
    BY <2>4 DEF a, b
<1> QED
  BY <1>2, <1>3

LEMMA DecaySteps ==
    /\ Decay[0] = 200000
    /\ \A n \in 1..Horizon : Decay[n] = (Decay[n - 1] * 9311) \div 10000
<1>1. ASSUME NEW top \in Nat, top = 200000, NEW p \in Nat, p = 9311,
             NEW q \in Nat, q = 10000
      PROVE  /\ Decay[0] = top
             /\ \A n \in 1..Horizon : Decay[n] = (Decay[n - 1] * p) \div q
  <2>1. q # 0 /\ p <= q /\ Horizon \in Nat
    BY <1>1, SMT DEF Horizon
  <2>2. Decay = Scaling(top, p, q, Horizon)
    BY <1>1, SMT DEF Decay, Scaling
  <2> DEFINE d == Scaling(top, p, q, Horizon)
  <2>3. /\ d[0] = top
        /\ \A n \in 1..Horizon : d[n] = (d[n - 1] * p) \div q
        /\ \A n \in 0..Horizon : d[n] \in 0..top
        /\ \A m, n \in 0..Horizon : m <= n => d[n] <= d[m]
    BY <2>1, Falling
  <2> HIDE DEF d
  <2> QED
    BY <2>2, <2>3 DEF d
<1>2. 200000 \in Nat /\ 9311 \in Nat /\ 10000 \in Nat
  BY SMT
<1>3. Decay[0] = 200000
  BY <1>1, <1>2, SMT
<1>4. \A n \in 1..Horizon : Decay[n] = (Decay[n - 1] * 9311) \div 10000
  BY <1>1, <1>2, SMT
<1> QED
  BY <1>3, <1>4, SMT

LEMMA DecayFalls ==
    /\ \A n \in 0..Horizon : Decay[n] \in Nat
    /\ \A m, n \in 0..Horizon : m <= n => Decay[n] <= Decay[m]
<1>1. ASSUME NEW top \in Nat, top = 200000, NEW p \in Nat, p = 9311,
             NEW q \in Nat, q = 10000
      PROVE  /\ \A n \in 0..Horizon : Decay[n] \in Nat
             /\ \A m, n \in 0..Horizon : m <= n => Decay[n] <= Decay[m]
  <2>1. q # 0 /\ p <= q /\ Horizon \in Nat
    BY <1>1, SMT DEF Horizon
  <2>2. Decay = Scaling(top, p, q, Horizon)
    BY <1>1, SMT DEF Decay, Scaling
  <2> DEFINE d == Scaling(top, p, q, Horizon)
  <2>3. /\ \A n \in 0..Horizon : d[n] \in 0..top
        /\ \A m, n \in 0..Horizon : m <= n => d[n] <= d[m]
    BY <2>1, Falling
  <2> HIDE DEF d
  <2> QED
    BY <2>2, <2>3 DEF d
<1>2. 200000 \in Nat /\ 9311 \in Nat /\ 10000 \in Nat
  BY SMT
<1>3. \A n \in 0..Horizon : Decay[n] \in Nat
  BY <1>1, <1>2, SMT
<1>4. \A m, n \in 0..Horizon : m <= n => Decay[n] <= Decay[m]
  BY <1>1, <1>2, SMT
<1> QED
  BY <1>3, <1>4

\* The first fortnight of the curve.
LEMMA FirstDays ==
    /\ Decay[2] = 173389 /\ Decay[8] = 112977 /\ Decay[10] = 97944 /\ Decay[14] = 73612
<1>1. \A n \in 1..14 : Decay[n] = (Decay[n - 1] * 9311) \div 10000
  <2>1. \A n \in 1..14 : n \in 1..Horizon
    BY SMT DEF Horizon
  <2> QED
    BY <2>1, DecaySteps, SMT
<1>2. Decay[1] = 186220
  BY <1>1, DecaySteps, SMT
<1>3. Decay[2] = 173389
  BY <1>1, <1>2, SMT
<1>4. Decay[3] = 161442
  BY <1>1, <1>3, SMT
<1>5. Decay[4] = 150318
  BY <1>1, <1>4, SMT
<1>6. Decay[5] = 139961
  BY <1>1, <1>5, SMT
<1>7. Decay[6] = 130317
  BY <1>1, <1>6, SMT
<1>8. Decay[7] = 121338
  BY <1>1, <1>7, SMT
<1>9. Decay[8] = 112977
  BY <1>1, <1>8, SMT
<1>10. Decay[9] = 105192
  BY <1>1, <1>9, SMT
<1>11. Decay[10] = 97944
  BY <1>1, <1>10, SMT
<1>12. Decay[11] = 91195
  BY <1>1, <1>11, SMT
<1>13. Decay[12] = 84911
  BY <1>1, <1>12, SMT
<1>14. Decay[13] = 79060
  BY <1>1, <1>13, SMT
<1>15. Decay[14] = 73612
  BY <1>1, <1>14, SMT
<1> QED
  BY <1>3, <1>9, <1>11, <1>15, SMT

\* A smaller fraction has a smaller quotient.
LEMMA Fractions ==
    ASSUME NEW a \in Nat, NEW b \in Nat, NEW c \in Nat, c # 0, NEW d \in Nat, d # 0,
           a * d <= b * c
    PROVE  a \div c <= b \div d
<1> DEFINE q == a \div c
           r == b \div d
<1>1. q \in Nat /\ c * q <= a
  OBVIOUS
<1>2. r \in Nat /\ b < d * r + d
  OBVIOUS
<1> HIDE DEF q, r
<1>3. (c * q) * d <= a * d
  BY <1>1
<1>4. c * (q * d) <= c * b
  BY <1>1, <1>3
<1>5. q * d <= b
  <2>1. q * d \in Nat
    BY <1>1
  <2> SUFFICES ASSUME q * d >= b + 1 PROVE FALSE
    BY <2>1
  <2>2. c * (q * d) >= c * (b + 1) /\ c * (b + 1) = c * b + c
    BY <2>1
  <2> QED
    BY <1>4, <2>1, <2>2
<1>6. q <= r
  <2> SUFFICES ASSUME q >= r + 1 PROVE FALSE
    BY <1>1, <1>2
  <2>1. q * d >= (r + 1) * d /\ (r + 1) * d = d * r + d
    BY <1>1, <1>2
  <2>2. q * d \in Nat /\ d * r \in Nat
    BY <1>1, <1>2
  <2> QED
    BY <1>2, <1>5, <2>1, <2>2
<1> QED
  BY <1>6 DEF q, r

\* Taking as much from a part as from the whole makes the part a smaller share.
LEMMA Shares ==
    ASSUME NEW k \in Nat, NEW t \in Nat, NEW v \in 0..t, NEW w \in 0..v, NEW z \in 0..w,
           w # t
    PROVE  (k * (v - w)) \div (t - w) <= (k * (v - z)) \div (t - z)
<1>1. /\ v - w \in Nat /\ v - z \in Nat /\ t - w \in Nat /\ t - z \in Nat
      /\ t - w # 0 /\ t - z # 0 /\ w - z \in Nat /\ t - v \in Nat
  OBVIOUS
<1>2. (v - z) * (t - w) - (v - w) * (t - z) = (w - z) * (t - v)
  OBVIOUS
<1>3. (v - w) * (t - z) <= (v - z) * (t - w)
  BY <1>1, <1>2
<1>4. k * ((v - w) * (t - z)) <= k * ((v - z) * (t - w))
  BY <1>1, <1>3
<1>5. /\ k * (v - w) \in Nat /\ k * (v - z) \in Nat
      /\ (k * (v - w)) * (t - z) <= (k * (v - z)) * (t - w)
  BY <1>1, <1>4
<1> QED
  BY <1>1, <1>5, Fractions

\* Urgency is a percentage in hundredths that never rises with the days left;
\* from two days to eight it loses a fifth of the weight a score has, and at
\* forty it is below half.
LEMMA UrgencyFalls ==
    /\ \A d \in Int : Urgency(d) \in Nat /\ Urgency(d) <= 10000
    /\ \A d, e \in Int : d <= e => Urgency(e) <= Urgency(d)
    /\ \A d \in Int : d <= 2 => Urgency(d) >= Urgency(8) + 2000
    /\ Urgency(40) <= 5000
    /\ Urgency(100) = 0
<1> DEFINE k == 10000
           t == 200000
           z == Decay[Horizon]
           U(x) == (k * (x - z)) \div (t - z)
<1>1. /\ k \in Nat /\ t \in Nat /\ z \in Nat /\ z <= 73612 /\ t - z \in Nat /\ t - z # 0
      /\ Horizon = 90
  <2>1. Horizon \in 0..Horizon /\ 14 \in 0..Horizon /\ 14 <= Horizon /\ Horizon = 90
    BY SMT DEF Horizon
  <2>2. z \in Nat
    BY <2>1, DecayFalls, Zenon
  <2>3. z <= Decay[14]
    BY <2>1, DecayFalls, Zenon
  <2> QED
    BY <2>1, <2>2, <2>3, FirstDays, SMT
<1>2. \A d \in Int : Urgency(d) = IF d <= 0 THEN k ELSE IF d >= Horizon THEN 0 ELSE U(Decay[d])
  BY SMT DEF Urgency
<1>3. \A d \in 0..Horizon : Decay[d] \in Nat /\ Decay[d] - z \in 0..(t - z)
  <2>1. ASSUME NEW d \in 0..Horizon PROVE Decay[d] \in Nat /\ Decay[d] - z \in 0..(t - z)
    <3>1. 0 \in 0..Horizon /\ Horizon \in 0..Horizon /\ 0 <= d /\ d <= Horizon
      BY SMT DEF Horizon
    <3>2. Decay[d] \in Nat /\ Decay[Horizon] <= Decay[d] /\ Decay[d] <= Decay[0]
      BY <3>1, DecayFalls, SMT
    <3>3. Decay[d] <= t
      BY <3>2, DecaySteps, SMT
    <3> QED
      BY <1>1, <3>2, <3>3, SMT
  <2> QED
    BY <2>1
<1>4. \A m, n \in 0..Horizon : m <= n => Decay[n] <= Decay[m]
  BY DecayFalls
<1>5. /\ \A v \in 0..t : z <= v => U(v) \in Int /\ U(v) <= (k * v) \div t
      /\ \A v \in 0..t : \A w \in 0..v :
            z <= w /\ w # t => (k * (v - w)) \div (t - w) <= U(v)
  <2> HIDE DEF k, t, z
  <2>1. ASSUME NEW v \in 0..t, z <= v PROVE U(v) \in Int /\ U(v) <= (k * v) \div t
    <3>1. z \in 0..v /\ 0 \in 0..z /\ z # t /\ v - 0 = v /\ t - 0 = t
      BY <1>1, <2>1
    <3>2. (k * (v - z)) \div (t - z) <= (k * (v - 0)) \div (t - 0)
      BY <1>1, <3>1, Shares
    <3>3. k * (v - z) \in Int
      BY <1>1
    <3> QED
      BY <1>1, <3>1, <3>2, <3>3
  <2>2. ASSUME NEW v \in 0..t, NEW w \in 0..v, z <= w, w # t
        PROVE  (k * (v - w)) \div (t - w) <= U(v)
    <3>1. z \in 0..w
      BY <1>1, <2>2
    <3> QED
      BY <1>1, <2>2, <3>1, Shares
  <2> QED
    BY <2>1, <2>2
<1>6. U(Decay[2]) >= U(Decay[8]) + 2000 /\ U(Decay[10]) <= 5000
  <2> HIDE DEF U
  <2>1. /\ 112977 \in 0..t /\ 173389 \in 0..t /\ 97944 \in 0..t /\ 73612 \in 0..173389
        /\ z <= 112977 /\ z <= 173389 /\ z <= 97944 /\ 73612 # t
    BY <1>1, SMT
  <2> DEFINE r(v) == (k * v) \div t
             q(v, w) == (k * (v - w)) \div (t - w)
  <2>2. /\ U(112977) \in Int /\ U(112977) <= r(112977)
        /\ U(97944) \in Int /\ U(97944) <= r(97944)
        /\ U(173389) \in Int /\ q(173389, 73612) <= U(173389)
    <3> HIDE DEF k, t, z, q, r
    <3>1. /\ \A v \in 0..t : z <= v => U(v) \in Int /\ U(v) <= r(v)
          /\ \A v \in 0..t : \A w \in 0..v : z <= w /\ w # t => q(v, w) <= U(v)
      BY <1>5 DEF r, q
    <3> QED
      BY <1>1, <2>1, <3>1, SMT
  <2>3. r(112977) = 5648 /\ r(97944) = 4897 /\ q(173389, 73612) = 7894
    BY SMT
  <2> HIDE DEF q, r
  <2> QED
    BY <2>2, <2>3, FirstDays, SMT
<1> HIDE DEF k, t, z
<1>7. \A d \in 0..Horizon : U(Decay[d]) \in 0..k
  <2> SUFFICES ASSUME NEW d \in 0..Horizon PROVE U(Decay[d]) \in 0..k
    OBVIOUS
  <2> DEFINE c == t - z
             x == Decay[d] - z
  <2>1. c \in Nat /\ c # 0 /\ x \in 0..c
    BY <1>1, <1>3
  <2> HIDE DEF c, x
  <2>2. (k * x) \div c \in 0..k
    BY <1>1, <2>1, Scaled
  <2> QED
    BY <2>2 DEF c, x
<1>8. \A m, n \in 0..Horizon : m <= n => U(Decay[n]) <= U(Decay[m])
  <2> SUFFICES ASSUME NEW m \in 0..Horizon, NEW n \in 0..Horizon, m <= n
               PROVE  U(Decay[n]) <= U(Decay[m])
    OBVIOUS
  <2> DEFINE c == t - z
             x == Decay[m] - z
             y == Decay[n] - z
  <2>1. c \in Nat /\ c # 0 /\ x \in 0..c
    BY <1>1, <1>3
  <2>2. y \in 0..x
    <3>1. Decay[n] <= Decay[m] /\ Decay[n] \in Nat /\ Decay[m] \in Nat /\ z \in Nat
      <4>1. Decay[n] <= Decay[m]
        BY <1>4
      <4>2. Decay[n] \in Nat /\ Decay[m] \in Nat
        BY <1>3
      <4> QED
        BY <1>1, <4>1, <4>2
    <3>2. y \in 0..c
      BY <1>3
    <3>3. y \in Nat
      BY <3>2, <2>1
    <3>4. y <= x
      BY <3>1
    <3> QED
      BY <2>1, <3>3, <3>4
  <2> HIDE DEF c, x, y
  <2>3. (k * y) \div c <= (k * x) \div c
    BY <1>1, <2>1, <2>2, Scaled
  <2> QED
    BY <2>3 DEF c, x, y
<1> HIDE DEF U
<1>9. \A d \in Int : Urgency(d) \in 0..k
  BY <1>1, <1>2, <1>7
<1>10. \A d, e \in Int : d <= e => Urgency(e) <= Urgency(d)
  <2> SUFFICES ASSUME NEW d \in Int, NEW e \in Int, d <= e
               PROVE  Urgency(e) <= Urgency(d)
    OBVIOUS
  <2>1. CASE d <= 0 \/ e >= Horizon
    <3>1. Urgency(d) \in 0..k /\ Urgency(e) \in 0..k
      BY <1>9
    <3>2. Urgency(d) = k \/ Urgency(e) = 0
      BY <1>1, <1>2, <2>1
    <3> QED
      BY <1>1, <3>1, <3>2
  <2>2. CASE d > 0 /\ e < Horizon
    <3>1. d \in 0..Horizon /\ e \in 0..Horizon /\ ~(d <= 0) /\ ~(d >= Horizon)
          /\ ~(e <= 0) /\ ~(e >= Horizon)
      BY <1>1, <2>2
    <3> QED
      BY <1>2, <1>8, <3>1
  <2> QED
    BY <1>1, <2>1, <2>2
<1>11. Urgency(2) = U(Decay[2]) /\ Urgency(8) = U(Decay[8]) /\ Urgency(10) = U(Decay[10])
       /\ Urgency(100) = 0
  BY <1>1, <1>2
<1>12. ASSUME NEW d \in Int, d <= 2 PROVE Urgency(d) >= Urgency(8) + 2000
  <2>1. Urgency(2) <= Urgency(d)
    BY <1>10, <1>12
  <2>2. Urgency(2) \in Int /\ Urgency(8) \in Int /\ Urgency(d) \in Int
    BY <1>1, <1>9
  <2> QED
    BY <1>6, <1>11, <2>1, <2>2, SMT
<1>13. Urgency(40) <= 5000
  <2>1. Urgency(40) <= Urgency(10) /\ Urgency(10) \in Int /\ Urgency(40) \in Int
    BY <1>1, <1>9, <1>10
  <2> QED
    BY <1>6, <1>11, <2>1, SMT
<1>14. \A d \in Int : Urgency(d) \in Nat /\ Urgency(d) <= 10000
  <2>1. \A d \in Int : Urgency(d) \in Nat /\ Urgency(d) <= k
    BY <1>1, <1>9
  <2> QED
    BY <2>1, SMT DEF k
<1> QED
  BY <1>10, <1>11, <1>12, <1>13, <1>14

-----------------------------------------------------------------------------
(* Priority *)

\* What a source says of an item, as far as arithmetic goes.
Evidence(it) ==
    /\ it.days \in Int /\ it.overrides \in Seq(Int) /\ it.label \in Seq(Int)
    /\ it.hosts \in Nat /\ it.rps \in Nat

LEMMA BlastType ==
    ASSUME NEW it, Evidence(it)
    PROVE  BlastRadius(it) \in 0..100
<1>1. \A n \in Int : Clamp01(n) \in 0..100
  BY DEF Clamp01
<1>2. CASE it.overrides # <<>>
  <2>1. it.overrides[1] \in Int
    BY <1>2 DEF Evidence
  <2> QED
    BY <1>1, <1>2, <2>1 DEF BlastRadius
<1>3. CASE it.overrides = <<>> /\ it.label # <<>>
  <2>1. it.label[1] \in Int
    BY <1>3 DEF Evidence
  <2> QED
    BY <1>1, <1>3, <2>1 DEF BlastRadius
<1>4. CASE it.overrides = <<>> /\ it.label = <<>>
  <2> DEFINE base == IF it.kind \in DOMAIN BaseByKind THEN BaseByKind[it.kind] ELSE 40
  <2>1. base \in Int
    BY DEF BaseByKind
  <2>2. /\ Exposure(it) \in Int /\ Environment(it) \in Int /\ Coverage(it) \in Int
        /\ Traffic(it) \in Int /\ Unused(it) \in Int /\ Renewal(it) \in Int
    BY DEF Evidence, Exposure, Environment, Coverage, Traffic, Unused, Renewal
  <2> HIDE DEF base
  <2>3. base + Exposure(it) + Environment(it) + Coverage(it) + Traffic(it)
          + Unused(it) + Renewal(it) \in Int
    BY <2>1, <2>2
  <2> QED
    BY <1>1, <1>4, <2>3 DEF BlastRadius, base
<1> QED
  BY <1>2, <1>3, <1>4

\* Of two items the one that is both as urgent and as consequential has as high
\* a priority; and what has as high a priority makes up in the weighted sum, but
\* for the rounding, for what it lacks in either.
LEMMA Weighed ==
    ASSUME NEW x, NEW y, Evidence(x), Evidence(y)
    PROVE  /\ Priority(x) \in Int
           /\ Urgency(y.days) <= Urgency(x.days) /\ BlastRadius(y) <= BlastRadius(x)
                 => Priority(y) <= Priority(x)
           /\ Priority(y) <= Priority(x)
                 => 55 * Urgency(y.days) + 4500 * BlastRadius(y)
                       < 55 * Urgency(x.days) + 4500 * BlastRadius(x) + 10000
<1> DEFINE ux == Urgency(x.days)
           uy == Urgency(y.days)
           bx == BlastRadius(x)
           by == BlastRadius(y)
           a == 55 * ux + 4500 * bx + 5000
           b == 55 * uy + 4500 * by + 5000
<1>1. ux \in Int /\ uy \in Int
  <2>1. x.days \in Int /\ y.days \in Int
    BY DEF Evidence
  <2> QED
    BY <2>1, UrgencyFalls, SMT
<1>2. bx \in Int /\ by \in Int
  BY BlastType
<1>3. Priority(x) = a \div 10000 /\ Priority(y) = b \div 10000
  BY SMT DEF Priority, WeightUrgency, WeightBlast
<1> HIDE DEF ux, uy, bx, by
<1>4. a \in Int /\ b \in Int
  BY <1>1, <1>2, SMT
<1>5. Priority(x) \in Int /\ Priority(y) \in Int
  BY <1>3, <1>4, SMT
<1>6. ASSUME uy <= ux, by <= bx PROVE Priority(y) <= Priority(x)
  <2>1. b <= a
    BY <1>1, <1>2, <1>6, SMT
  <2> HIDE DEF a, b
  <2> QED
    BY <1>3, <1>4, <2>1, SMT
<1>7. ASSUME Priority(y) <= Priority(x) PROVE b < a + 10000
  <2> HIDE DEF a, b
  <2> QED
    BY <1>3, <1>4, <1>7, SMT
<1>8. b < a + 10000 => 55 * uy + 4500 * by < 55 * ux + 4500 * bx + 10000
  BY <1>1, <1>2, SMT
<1> QED
  BY <1>5, <1>6, <1>7, <1>8 DEF ux, uy, bx, by

-----------------------------------------------------------------------------
(* Rank *)

\* Rank lists every item once, at saying where each was: higher priority first,
\* then fewer days, and those that tie in the order they came.
LEMMA RankLists ==
    ASSUME NEW T, \A it \in T : Scored(it).prio \in Int /\ Scored(it).days \in Int,
           NEW its \in Seq(T)
    PROVE  LET r == Rank(its) IN
           /\ r \in Seq({Scored(it) : it \in T})
           /\ \E at \in [DOMAIN r -> DOMAIN its] :
                 /\ \A n \in DOMAIN r : r[n] = Scored(its[at[n]])
                 /\ \A i \in DOMAIN its : \E n \in DOMAIN r : at[n] = i
                 /\ \A k, l \in DOMAIN r : k < l =>
                       /\ ~Before(r[l], r[k])
                       /\ ~Before(r[k], r[l]) => at[k] < at[l]
<1> DEFINE rows == [n \in DOMAIN its |-> Scored(its[n])]
           D == DOMAIN its
           Less(j, k) == \/ Before(rows[j], rows[k])
                         \/ ~Before(rows[k], rows[j]) /\ j <= k
           R == {p \in D \X D : Less(p[1], p[2])}
           at == Ordered(D, R)
           r == Rank(its)
<1>1. Len(its) \in Nat /\ D = 1..Len(its) /\ IsFiniteSet(D) /\ Cardinality(D) = Len(its)
  <2>1. Len(its) \in Nat /\ D = 1..Len(its)
    OBVIOUS
  <2>2. IsFiniteSet(1..Len(its)) /\ Cardinality(1..Len(its)) = Len(its)
    BY <2>1, FS_Interval
  <2> HIDE DEF D
  <2> QED
    BY <2>1, <2>2
<1>2. \A n \in D : rows[n] = Scored(its[n]) /\ its[n] \in T
        /\ rows[n].prio \in Int /\ rows[n].days \in Int
  OBVIOUS
<1>3. DOMAIN rows = D
  OBVIOUS
<1> HIDE DEF rows, D
<1>4. \A j, k \in D : Less(j, k) <=>
         \/ rows[j].prio > rows[k].prio
         \/ rows[j].prio = rows[k].prio /\ rows[j].days < rows[k].days
         \/ rows[j].prio = rows[k].prio /\ rows[j].days = rows[k].days /\ j <= k
  BY <1>2 DEF Before
<1>5. \A j, k \in D : <<j, k>> \in R <=> Less(j, k)
  OBVIOUS
<1> HIDE DEF R, Less
<1>6. IsTotalOrder(D, R)
  <2> DEFINE prio(n) == rows[n].prio
             days(n) == rows[n].days
  <2>1. \A n \in D : n \in Int /\ prio(n) \in Int /\ days(n) \in Int
    BY <1>1, <1>2
  <2>0. \A j, k \in D : <<j, k>> \in R <=>
           \/ prio(j) > prio(k)
           \/ prio(j) = prio(k) /\ days(j) < days(k)
           \/ prio(j) = prio(k) /\ days(j) = days(k) /\ j <= k
    BY <1>4, <1>5
  <2> HIDE DEF prio, days
  <2>2. \A x \in D : <<x, x>> \in R
    BY <2>0, <2>1
  <2>3. \A x, y \in D : <<x, y>> \in R \/ <<y, x>> \in R
    <3> SUFFICES ASSUME NEW x \in D, NEW y \in D PROVE <<x, y>> \in R \/ <<y, x>> \in R
      OBVIOUS
    <3>1. /\ x \in Int /\ prio(x) \in Int /\ days(x) \in Int
          /\ y \in Int /\ prio(y) \in Int /\ days(y) \in Int
      BY <2>1
    <3> QED
      BY <2>0, <3>1
  <2>4. \A x, y \in D : <<x, y>> \in R /\ <<y, x>> \in R => x = y
    BY <2>0, <2>1
  <2>5. \A x, y, z \in D : <<x, y>> \in R /\ <<y, z>> \in R => <<x, z>> \in R
    BY <2>0, <2>1
  <2> QED
    BY <2>2, <2>3, <2>4, <2>5 DEF IsTotalOrder
<1>7. /\ at \in Seq(D) /\ DOMAIN at = D /\ Range(at) = D
      /\ \A m, n \in DOMAIN at : m < n => <<at[m], at[n]>> \in R /\ at[m] # at[n]
  BY <1>1, <1>6, OrderedLists
<1>8. r = [n \in D |-> rows[at[n]]]
  <2>1. \A n \in D : at[n] = CHOOSE k \in D : Cardinality({j \in D : <<j, k>> \in R}) = n
    BY <1>1 DEF Ordered
  <2>2. ASSUME NEW k \in D
        PROVE  Place(rows, k) = Cardinality({j \in D : <<j, k>> \in R})
    <3>1. {j \in D : <<j, k>> \in R} = {j \in D : Less(j, k)}
      BY <1>5
    <3> QED
      BY <1>3, <3>1 DEF Place, Less
  <2>3. r = [n \in D |-> rows[CHOOSE k \in D : Place(rows, k) = n]]
    BY <1>3 DEF Rank, rows, D
  <2> DEFINE pick(n) == CHOOSE k \in D : Place(rows, k) = n
  <2>4. \A n \in D : pick(n) = at[n]
    BY <2>1, <2>2
  <2>5. r = [n \in D |-> rows[pick(n)]]
    BY <2>3
  <2> HIDE DEF at, r, pick
  <2> QED
    BY <2>4, <2>5
<1> HIDE DEF at, r
<1>9. DOMAIN r = D /\ \A n \in D : at[n] \in D /\ r[n] = rows[at[n]]
  BY <1>7, <1>8
<1>10. r \in Seq({Scored(it) : it \in T})
  BY <1>1, <1>2, <1>8, <1>9
<1>11. \A n \in DOMAIN r : r[n] = Scored(its[at[n]])
  BY <1>2, <1>9
<1>12. \A i \in DOMAIN its : \E n \in DOMAIN r : at[n] = i
  BY <1>7, <1>9 DEF Range, D
<1>13. ASSUME NEW k \in DOMAIN r, NEW l \in DOMAIN r, k < l
       PROVE  /\ ~Before(r[l], r[k])
              /\ ~Before(r[k], r[l]) => at[k] < at[l]
  <2>1. at[k] \in D /\ at[l] \in D /\ Less(at[k], at[l]) /\ at[k] # at[l]
    BY <1>5, <1>7, <1>9, <1>13
  <2>2. at[k] \in Int /\ at[l] \in Int
    BY <1>1, <2>1
  <2> QED
    BY <1>2, <1>4, <1>9, <2>1, <2>2 DEF Before
<1>14. at \in [DOMAIN r -> DOMAIN its]
  BY <1>7, <1>9 DEF D
<1> QED
  BY <1>10, <1>11, <1>12, <1>13, <1>14 DEF r

\* A filtered report is the rows the flags let through, in their order.
LEMMA FilterLists ==
    ASSUME NEW S, NEW r \in Seq(S), NEW within \in Int, NEW minPriority \in Int,
           \A s \in S : s.prio \in Int /\ s.days \in Int
    PROVE  LET f == Filter(r, within, minPriority) IN
           /\ f \in Seq(S)
           /\ \A k \in DOMAIN r : Kept(within, minPriority, r[k]) => r[k] \in Range(f)
           /\ \E at \in [DOMAIN f -> DOMAIN r] :
                 /\ \A n \in DOMAIN f : f[n] = r[at[n]]
                 /\ \A m, n \in DOMAIN f : m < n => at[m] < at[n]
<1> DEFINE f == Filter(r, within, minPriority)
           K == {k \in DOMAIN r : Kept(within, minPriority, r[k])}
<1>1. CASE within <= 0 /\ minPriority <= 0
  <2>1. f = r
    BY <1>1 DEF Filter
  <2> DEFINE at == [n \in DOMAIN r |-> n]
  <2>2. /\ at \in [DOMAIN r -> DOMAIN r] /\ \A n \in DOMAIN r : r[n] = r[at[n]]
        /\ \A m, n \in DOMAIN r : m < n => at[m] < at[n]
    OBVIOUS
  <2> QED
    BY <2>1, <2>2 DEF Range
<1>2. CASE ~(within <= 0 /\ minPriority <= 0)
  <2>1. f = ElementsAt(r, K)
    BY <1>2 DEF Filter
  <2>2. K \in SUBSET DOMAIN r
    OBVIOUS
  <2> HIDE DEF f, K
  <2>3. /\ f \in Seq(S) /\ Range(f) = {r[k] : k \in K}
        /\ \E at \in [DOMAIN f -> K] :
              /\ \A n \in DOMAIN f : f[n] = r[at[n]]
              /\ \A m, n \in DOMAIN f : m < n => at[m] < at[n]
    <3> DEFINE t == ElementsAt(r, K)
    <3>1. /\ t \in Seq(S)
          /\ Range(t) = {r[k] : k \in K}
          /\ t = <<>> <=> K = {}
          /\ \E at \in [DOMAIN t -> K] :
                /\ \A n \in DOMAIN t : t[n] = r[at[n]]
                /\ \A k \in K : \E n \in DOMAIN t : at[n] = k
                /\ \A m, n \in DOMAIN t : m < n => at[m] < at[n]
      BY <2>2, ElementsAtLists
    <3> QED
      BY <2>1, <3>1
  <2>4. \A k \in DOMAIN r : Kept(within, minPriority, r[k]) => r[k] \in Range(f)
    BY <2>3 DEF K
  <2>5. PICK at \in [DOMAIN f -> K] :
           /\ \A n \in DOMAIN f : f[n] = r[at[n]]
           /\ \A m, n \in DOMAIN f : m < n => at[m] < at[n]
    BY <2>3
  <2>6. at \in [DOMAIN f -> DOMAIN r]
    BY <2>2
  <2> QED
    BY <2>3, <2>4, <2>5, <2>6 DEF f
<1> QED
  BY <1>1, <1>2

-----------------------------------------------------------------------------
(* The stages of a run *)

\* The stages behind Collect, RankAndFilter and Render.
Collected == pc \in {"rank", "open", "render", "close", "gate"} \/ Reported
Ranked    == pc \in {"open", "render", "close", "gate"} \/ Reported
Written   == pc \in {"close", "gate"} \/ Reported

\* The answers of these sources, one each.
Reading(src, as) ==
    /\ src \in Seq(Names)
    /\ DOMAIN as = DOMAIN src
    /\ \A i \in DOMAIN src : as[i] \in Answers[src[i]]

Typed ==
    /\ pc \in {"load", "pick", "verify", "collect", "rank", "open", "render",
               "close", "gate", "exited", "killed"}
    /\ opts \in Options
    /\ sources \in Seq(Names)
    /\ answers # None => DOMAIN answers = DOMAIN sources
    /\ pc \in {"load", "pick", "verify", "collect"} => answers = None
    /\ scored \in Seq(Row)
    /\ stderr \in [warned : Seq(Names), breach : Row \cup {None}]
    /\ sink \in [state : {"previous", "partial", "written"}, rows : Seq(Row)]
    /\ code \in {None, 0, 1, 2, 3}
    /\ pc = "exited" <=> code # None

\* -verify-aws leaves the line of stages, everything behind Pick has its -only.
Asked ==
    /\ pc = "verify" => opts.verify
    /\ pc = "collect" \/ Collected =>
          ~opts.verify /\ (sources = <<>> \/ opts.only = {} \/ Range(sources) = opts.only)

Answered ==
    Collected =>
        /\ sources # <<>>
        /\ Reading(sources, answers)
        /\ stderr.warned = [k \in DOMAIN Failed(answers) |-> sources[Failed(answers)[k]]]

Listed ==
    /\ Ranked => scored = Filter(Rank(Merged(answers)), opts.within, opts.minPriority)
    /\ Written => sink.state = "written" /\ sink.rows = scored

Gated ==
    Reported =>
        IF code = 1 THEN Breaching # <<>> /\ stderr.breach = Breaching[1]
        ELSE Breaching = <<>> /\ (code = 0 => Failed(answers) = <<>>)

IInv == Typed /\ Asked /\ Answered /\ Listed /\ Gated

-----------------------------------------------------------------------------
(* What Collect, RankAndFilter and Gate compute *)

\* A row is its item, scored.
LEMMA RowType ==
    ASSUME NEW it \in Items
    PROVE  /\ Evidence(it)
           /\ Scored(it) \in Row
           /\ Scored(it).prio = Priority(it) /\ Scored(it).prio \in Int
           /\ Scored(it).days = it.days /\ Scored(it).days \in Int
<1>1. Evidence(it)
  BY ItemsAssumption DEF Evidence
<1>2. "days" \in DOMAIN it
  BY ItemsAssumption
<1>3. Scored(it).prio = Priority(it) /\ Scored(it).days = it.days
  BY <1>2 DEF Scored
<1> QED
  BY <1>1, <1>3, Weighed DEF Row, Evidence

LEMMA ReadingType ==
    ASSUME NEW src, NEW as, Reading(src, as)
    PROVE  \A i \in DOMAIN as :
              /\ i \in Nat /\ src[i] \in Names
              /\ as[i].items \in Seq(Items) /\ as[i].err \in BOOLEAN
<1> SUFFICES ASSUME NEW i \in DOMAIN as
             PROVE  /\ i \in Nat /\ src[i] \in Names
                    /\ as[i].items \in Seq(Items) /\ as[i].err \in BOOLEAN
  OBVIOUS
<1>1. i \in Nat /\ src[i] \in Names /\ as[i] \in Answers[src[i]]
  <2>1. src \in Seq(Names) /\ i \in DOMAIN src
    BY DEF Reading
  <2>2. i \in Nat /\ src[i] \in Names
    BY <2>1
  <2> QED
    BY <2>1, <2>2 DEF Reading
<1> QED
  BY <1>1, AnswersAssumption

\* What Failed lists: the positions of the readings that are errors.
LEMMA FailedLists ==
    ASSUME NEW src, NEW as, Reading(src, as)
    PROVE  LET bad == Failed(as)
               warned == [k \in DOMAIN bad |-> src[bad[k]]]
           IN /\ warned \in Seq(Names)
              /\ Range(warned) = {src[i] : i \in {j \in DOMAIN as : as[j].err}}
              /\ bad = <<>> => \A i \in DOMAIN as : ~as[i].err
<1> DEFINE K == {i \in DOMAIN as : as[i].err}
           bad == Failed(as)
           warned == [k \in DOMAIN bad |-> src[bad[k]]]
<1>1. K \in SUBSET Nat /\ IsFiniteSet(K) /\ \A i \in K : src[i] \in Names
  <2>1. IsFiniteSet(1..Len(src)) /\ DOMAIN as = 1..Len(src) /\ Len(src) \in Nat
    BY FS_Interval DEF Reading
  <2>2. K \in SUBSET (1..Len(src))
    BY <2>1
  <2> HIDE DEF K
  <2>3. IsFiniteSet(K)
    BY <2>1, <2>2, FS_Subset
  <2> QED
    BY <2>3, ReadingType DEF K
<1>2. bad = Ascending(K)
  BY DEF Failed
<1> HIDE DEF K, bad
<1>3. /\ bad \in Seq(K) /\ DOMAIN bad = 1..Cardinality(K) /\ Cardinality(K) \in Nat
      /\ Range(bad) = K
  <2> DEFINE t == Ascending(K)
  <2>1. /\ t \in Seq(K) /\ DOMAIN t = 1..Cardinality(K) /\ Cardinality(K) \in Nat
        /\ Range(t) = K
        /\ \A m, n \in DOMAIN t : m < n => t[m] < t[n]
    BY <1>1, AscendingLists
  <2> QED
    BY <1>2, <2>1
<1>4. \A k \in DOMAIN bad : bad[k] \in K /\ src[bad[k]] \in Names
  <2>1. \A k \in DOMAIN bad : bad[k] \in K
    BY <1>3
  <2> QED
    BY <1>1, <2>1
<1>5. warned \in Seq(Names)
  BY <1>3, <1>4
<1>6. Range(warned) = {src[i] : i \in K}
  BY <1>3, <1>4 DEF Range
<1>7. bad = <<>> => K = {}
  BY <1>3, EmptyRange
<1> QED
  BY <1>5, <1>6, <1>7 DEF K, bad

Earlier(p, q) == p[1] < q[1] \/ (p[1] = q[1] /\ p[2] < q[2])

\* Every item of every reading is in the merged list once, in configured order.
LEMMA MergeLists ==
    ASSUME NEW src, NEW as, Reading(src, as)
    PROVE  LET all == Merged(as)
               places == UNION {{<<i, k>> : k \in DOMAIN as[i].items} : i \in DOMAIN as}
           IN /\ all \in Seq(Items)
              /\ \E at \in [DOMAIN all -> places] :
                    /\ \A k \in DOMAIN all : all[k] = as[at[k][1]].items[at[k][2]]
                    /\ \A p \in places : \E k \in DOMAIN all : at[k] = p
                    /\ \A k, l \in DOMAIN all : k < l => Earlier(at[k], at[l])
<1> DEFINE s == [i \in DOMAIN as |-> as[i].items]
           all == Merged(as)
           places == UNION {{<<i, k>> : k \in DOMAIN as[i].items} : i \in DOMAIN as}
<1>1. s \in Seq(Seq(Items))
  <2>1. DOMAIN s = 1..Len(src) /\ Len(src) \in Nat
    BY DEF Reading
  <2>2. \A i \in DOMAIN s : s[i] \in Seq(Items)
    BY ReadingType
  <2>3. s \in [1..Len(src) -> Seq(Items)]
    BY <2>1, <2>2
  <2> HIDE DEF s
  <2> QED
    BY <2>1, <2>3
<1>2. all = FlattenSeq(s)
  BY DEF Merged
<1>3. \A i \in DOMAIN as : s[i] = as[i].items
  OBVIOUS
<1>4. DOMAIN s = DOMAIN as
  OBVIOUS
<1> HIDE DEF s, all, places
<1>12. DOMAIN s = 1..Len(s) /\ Len(s) \in Nat
  BY <1>1
<1>5. /\ all \in Seq(Items)
      /\ \E at : Concatenates(all, s, Len(s), at)
  BY <1>1, <1>2, FlattenConcatenates
<1>6. PICK at : Concatenates(all, s, Len(s), at)
  BY <1>5
<1>7. \A k \in DOMAIN all :
         /\ at[k] \in Nat \X Nat
         /\ at[k][1] \in DOMAIN as /\ at[k][2] \in DOMAIN as[at[k][1]].items
         /\ all[k] = as[at[k][1]].items[at[k][2]]
  BY <1>3, <1>4, <1>12, <1>6 DEF Concatenates
<1>8. \A k \in DOMAIN all : at[k] = <<at[k][1], at[k][2]>>
  <2>1. \A p \in Nat \X Nat : p = <<p[1], p[2]>>
    OBVIOUS
  <2> QED
    BY <1>7, <2>1
<1>9. at \in [DOMAIN all -> places]
  <2>1. \A i \in DOMAIN as : \A j \in DOMAIN as[i].items : <<i, j>> \in places
    <3> SUFFICES ASSUME NEW i \in DOMAIN as, NEW j \in DOMAIN as[i].items
                 PROVE  <<i, j>> \in places
      OBVIOUS
    <3>1. <<i, j>> \in {<<i, k>> : k \in DOMAIN as[i].items}
      OBVIOUS
    <3> QED
      BY <3>1 DEF places
  <2>3. \A k \in DOMAIN all : at[k] \in places
    <3> SUFFICES ASSUME NEW k \in DOMAIN all PROVE at[k] \in places
      OBVIOUS
    <3>1. <<at[k][1], at[k][2]>> \in places
      BY <1>7, <2>1
    <3> QED
      BY <1>8, <3>1
  <2>2. at \in [DOMAIN all -> Nat \X Nat]
    BY <1>6 DEF Concatenates
  <2> QED
    BY <2>2, <2>3
<1>10. \A p \in places : \E k \in DOMAIN all : at[k] = p
  <2> SUFFICES ASSUME NEW p \in places PROVE \E k \in DOMAIN all : at[k] = p
    OBVIOUS
  <2>1. PICK i \in DOMAIN as : \E j \in DOMAIN as[i].items : p = <<i, j>>
    BY DEF places
  <2>2. PICK j \in DOMAIN as[i].items : p = <<i, j>>
    BY <2>1
  <2>3. i \in 1..Len(s) /\ j \in DOMAIN s[i]
    BY <1>3, <1>4, <1>12, <2>2
  <2> QED
    BY <1>6, <2>2, <2>3 DEF Concatenates
<1>11. \A k, l \in DOMAIN all : k < l => Earlier(at[k], at[l])
  BY <1>6 DEF Concatenates, Earlier
<1> QED
  BY <1>5, <1>7, <1>9, <1>10, <1>11 DEF all, places

\* The report: every item the flags let through, in the order of Rank.
LEMMA ReportLists ==
    ASSUME NEW src, NEW as, Reading(src, as), NEW within \in Int, NEW minPriority \in Int
    PROVE  LET report == Filter(Rank(Merged(as)), within, minPriority)
               places == UNION {{<<i, k>> : k \in DOMAIN as[i].items} : i \in DOMAIN as}
               row(p) == Scored(as[p[1]].items[p[2]])
           IN /\ report \in Seq(Row)
              /\ \A p \in places :
                    Kept(within, minPriority, row(p)) => row(p) \in Range(report)
              /\ \E at \in [DOMAIN report -> places] :
                    /\ \A k \in DOMAIN report : report[k] = row(at[k])
                    /\ \A k, l \in DOMAIN report : k < l =>
                          /\ ~Before(report[l], report[k])
                          /\ ~Before(report[k], report[l]) => Earlier(at[k], at[l])
<1> DEFINE all == Merged(as)
           ranked == Rank(all)
           report == Filter(ranked, within, minPriority)
           places == UNION {{<<i, k>> : k \in DOMAIN as[i].items} : i \in DOMAIN as}
           item(p) == as[p[1]].items[p[2]]
           row(p) == Scored(item(p))
<1>1. /\ all \in Seq(Items)
      /\ \E at \in [DOMAIN all -> places] :
            /\ \A k \in DOMAIN all : all[k] = item(at[k])
            /\ \A p \in places : \E k \in DOMAIN all : at[k] = p
            /\ \A k, l \in DOMAIN all : k < l => Earlier(at[k], at[l])
  BY MergeLists
<1> HIDE DEF all, places, item
<1>2. PICK ma \in [DOMAIN all -> places] :
            /\ \A k \in DOMAIN all : all[k] = item(ma[k])
            /\ \A p \in places : \E k \in DOMAIN all : ma[k] = p
            /\ \A k, l \in DOMAIN all : k < l => Earlier(ma[k], ma[l])
  BY <1>1
<1>3. /\ ranked \in Seq(Row)
      /\ \E at \in [DOMAIN ranked -> DOMAIN all] :
            /\ \A n \in DOMAIN ranked : ranked[n] = Scored(all[at[n]])
            /\ \A i \in DOMAIN all : \E n \in DOMAIN ranked : at[n] = i
            /\ \A k, l \in DOMAIN ranked : k < l =>
                  /\ ~Before(ranked[l], ranked[k])
                  /\ ~Before(ranked[k], ranked[l]) => at[k] < at[l]
  <2>1. \A it \in Items : Scored(it).prio \in Int /\ Scored(it).days \in Int
    BY RowType
  <2> QED
    BY <1>1, <2>1, RankLists DEF Row
<1> HIDE DEF ranked
<1>4. PICK ra \in [DOMAIN ranked -> DOMAIN all] :
            /\ \A n \in DOMAIN ranked : ranked[n] = Scored(all[ra[n]])
            /\ \A i \in DOMAIN all : \E n \in DOMAIN ranked : ra[n] = i
            /\ \A k, l \in DOMAIN ranked : k < l =>
                  /\ ~Before(ranked[l], ranked[k])
                  /\ ~Before(ranked[k], ranked[l]) => ra[k] < ra[l]
  BY <1>3
<1>5. /\ report \in Seq(Row)
      /\ \A k \in DOMAIN ranked : Kept(within, minPriority, ranked[k]) => ranked[k] \in Range(report)
      /\ \E at \in [DOMAIN report -> DOMAIN ranked] :
            /\ \A n \in DOMAIN report : report[n] = ranked[at[n]]
            /\ \A m, n \in DOMAIN report : m < n => at[m] < at[n]
  <2>1. \A s \in Row : s.prio \in Int /\ s.days \in Int
    BY RowType DEF Row
  <2>2. ranked \in Seq(Row)
    BY <1>3
  <2> QED
    BY <2>1, <2>2, FilterLists
<1> HIDE DEF report
<1>6. PICK fa \in [DOMAIN report -> DOMAIN ranked] :
            /\ \A n \in DOMAIN report : report[n] = ranked[fa[n]]
            /\ \A m, n \in DOMAIN report : m < n => fa[m] < fa[n]
  BY <1>5
<1> DEFINE at == [k \in DOMAIN report |-> ma[ra[fa[k]]]]
<1>7. at \in [DOMAIN report -> places] /\ \A k \in DOMAIN report : report[k] = row(at[k])
  BY <1>2, <1>4, <1>6
<1>8. ASSUME NEW k \in DOMAIN report, NEW l \in DOMAIN report, k < l
      PROVE  /\ ~Before(report[l], report[k])
             /\ ~Before(report[k], report[l]) => Earlier(at[k], at[l])
  <2>1. fa[k] \in DOMAIN ranked /\ fa[l] \in DOMAIN ranked /\ fa[k] < fa[l]
    BY <1>6, <1>8
  <2>2. ra[fa[k]] \in DOMAIN all /\ ra[fa[l]] \in DOMAIN all
    BY <1>4, <2>1
  <2>3. report[k] = ranked[fa[k]] /\ report[l] = ranked[fa[l]]
    BY <1>6
  <2>4. ~Before(report[l], report[k]) /\ (~Before(report[k], report[l]) => ra[fa[k]] < ra[fa[l]])
    BY <1>4, <2>1, <2>3
  <2> QED
    BY <1>2, <2>2, <2>4
<1>9. ASSUME NEW p \in places, Kept(within, minPriority, row(p))
      PROVE  row(p) \in Range(report)
  <2>1. PICK i \in DOMAIN all : ma[i] = p /\ all[i] = item(p)
    BY <1>2
  <2>2. PICK n \in DOMAIN ranked : ra[n] = i /\ ranked[n] = row(p)
    BY <1>4, <2>1
  <2> QED
    BY <1>5, <1>9, <2>2
<1> HIDE DEF at
<1> QED
  BY <1>5, <1>7, <1>8, <1>9 DEF report, ranked, all, places, item

\* The rows inside the -fail-within window: none outside it, none left out, and
\* the first of them first.
LEMMA BreachingLists ==
    ASSUME opts.failWithin \in Int, scored \in Seq(Row)
    PROVE  /\ Breaching = <<>> <=>
                 \/ opts.failWithin <= 0
                 \/ \A k \in DOMAIN scored : ~(scored[k].days <= opts.failWithin)
           /\ Breaching # <<>> => \E k \in DOMAIN scored :
                 /\ Breaching[1] = scored[k] /\ scored[k].days <= opts.failWithin
                 /\ \A l \in DOMAIN scored :
                       scored[l].days <= opts.failWithin => k <= l
<1> DEFINE K == {k \in DOMAIN scored : scored[k].days <= opts.failWithin}
           t == ElementsAt(scored, K)
<1>1. CASE opts.failWithin <= 0
  BY <1>1 DEF Breaching
<1>2. CASE ~(opts.failWithin <= 0)
  <2>1. Breaching = t
    BY <1>2 DEF Breaching
  <2>2. K \in SUBSET DOMAIN scored
    OBVIOUS
  <2> HIDE DEF K
  <2>3. /\ t \in Seq(Row)
        /\ Range(t) = {scored[k] : k \in K}
        /\ t = <<>> <=> K = {}
        /\ \E at \in [DOMAIN t -> K] :
              /\ \A n \in DOMAIN t : t[n] = scored[at[n]]
              /\ \A k \in K : \E n \in DOMAIN t : at[n] = k
              /\ \A m, n \in DOMAIN t : m < n => at[m] < at[n]
    BY <2>2, ElementsAtLists
  <2> HIDE DEF t
  <2>4. Breaching = <<>> <=> \A k \in DOMAIN scored : ~(scored[k].days <= opts.failWithin)
    BY <2>1, <2>3 DEF K
  <2>5. ASSUME Breaching # <<>>
        PROVE  \E k \in DOMAIN scored :
                 /\ Breaching[1] = scored[k] /\ scored[k].days <= opts.failWithin
                 /\ \A l \in DOMAIN scored :
                       scored[l].days <= opts.failWithin => k <= l
    <3>1. PICK at \in [DOMAIN t -> K] :
              /\ \A n \in DOMAIN t : t[n] = scored[at[n]]
              /\ \A k \in K : \E n \in DOMAIN t : at[n] = k
              /\ \A m, n \in DOMAIN t : m < n => at[m] < at[n]
      BY <2>3
    <3>2. DOMAIN t = 1..Len(t) /\ Len(t) \in Nat /\ 1 \in DOMAIN t
      BY <2>1, <2>3, <2>5
    <3>3. at[1] \in K /\ t[1] = scored[at[1]]
      BY <3>1, <3>2
    <3>4. ASSUME NEW l \in K PROVE at[1] <= l
      <4>1. PICK n \in DOMAIN t : at[n] = l
        BY <3>1
      <4>2. n = 1 \/ 1 < n
        BY <3>2
      <4>3. at[1] \in Int /\ l \in Int
        BY <2>2, <3>3
      <4> QED
        BY <3>1, <3>2, <4>1, <4>2, <4>3
    <3> QED
      BY <2>1, <3>3, <3>4 DEF K
  <2> QED
    BY <1>2, <2>4, <2>5
<1> QED
  BY <1>1, <1>2

\* -only takes the named sources and, once no name is unknown, all of them.
LEMMA PickedLists ==
    ASSUME sources \in Seq(Names)
    PROVE  /\ Picked \in Seq(Names)
           /\ UnknownNames = {} =>
                 Picked = <<>> \/ opts.only = {} \/ Range(Picked) = opts.only
<1> DEFINE K == {i \in DOMAIN sources :
                    /\ sources[i] \in opts.only
                    /\ \A j \in 1..(i - 1) : sources[j] # sources[i]}
           t == ElementsAt(sources, K)
<1>1. CASE opts.only = {}
  BY <1>1 DEF Picked
<1>2. CASE opts.only # {}
  <2>1. Picked = t
    BY <1>2 DEF Picked
  <2>2. K \in SUBSET DOMAIN sources
    OBVIOUS
  <2> HIDE DEF K
  <2>3. /\ t \in Seq(Names)
        /\ Range(t) = {sources[k] : k \in K}
        /\ t = <<>> <=> K = {}
    BY <2>2, ElementsAtLists
  <2> HIDE DEF t
  <2>4. sources = <<>> => K = {}
    BY DEF K
  <2>5. sources # <<>> /\ UnknownNames = {} => Range(t) = opts.only
    <3> SUFFICES ASSUME opts.only \subseteq Range(sources) PROVE Range(t) = opts.only
      BY DEF UnknownNames
    <3>1. ASSUME NEW n \in opts.only PROVE \E k \in K : sources[k] = n
      <4> DEFINE T == {i \in 1..Len(sources) : sources[i] = n}
      <4>1. DOMAIN sources = 1..Len(sources) /\ Len(sources) \in Nat
        OBVIOUS
      <4>2. T \in SUBSET Nat /\ T # {}
        BY <4>1 DEF Range
      <4> HIDE DEF T
      <4>3. PICK m \in T : \A k \in T : m <= k
        BY <4>2, LeastNat
      <4>4. m \in 1..Len(sources) /\ sources[m] = n
        BY DEF T
      <4>5. \A j \in 1..(m - 1) : sources[j] # n
        <5>1. ASSUME NEW j \in 1..(m - 1), sources[j] = n PROVE FALSE
          <6>1. j \in T /\ j < m
            BY <4>1, <4>4, <5>1 DEF T
          <6> QED
            BY <4>1, <4>3, <4>4, <6>1
        <5> QED
          BY <5>1
      <4> QED
        BY <4>1, <4>4, <4>5 DEF K
    <3>2. \A k \in K : sources[k] \in opts.only
      BY DEF K
    <3> QED
      BY <2>3, <3>1, <3>2
  <2>6. sources = <<>> => t = <<>>
    BY <2>3, <2>4
  <2> QED
    BY <2>1, <2>3, <2>5, <2>6
<1> QED
  BY <1>1, <1>2

-----------------------------------------------------------------------------
(* The invariant, stage by stage *)

LEMMA Start == Init => IInv
<1> SUFFICES ASSUME Init PROVE IInv
  OBVIOUS
<1> USE DEF Init, Quiet, Previous
<1>0. <<>> \in Seq(Names) /\ <<>> \in Seq(Row)
  OBVIOUS
<1>1. Typed
  BY <1>0 DEF Typed
<1>2. ~Reported
  BY NoneAssumption DEF Reported
<1>3. Asked /\ Answered /\ Listed /\ Gated
  BY <1>2 DEF Asked, Answered, Listed, Gated, Collected, Ranked, Written
<1> QED
  BY <1>1, <1>3 DEF IInv

\* Only Gate reports.
LEMMA NotYetReported ==
    ASSUME Typed, pc # "exited"
    PROVE  code = None /\ ~Reported
BY NoneAssumption DEF Typed, Reported

\* A run that is refused, killed or told to verify, or that has nothing to ask.
LEMMA EndsEarly ==
    ASSUME IInv, Refuse \/ VerifyAWS \/ NoSources \/ Killed
    PROVE  IInv'
<1>1. pc # "exited"
  BY DEF Refuse, VerifyAWS, NoSources, Killed
<1>2. code = None /\ ~Reported
  BY <1>1, NotYetReported DEF IInv
<1>3. /\ UNCHANGED <<opts, sources, answers, scored, stderr, sink>>
      /\ \/ pc' = "exited" /\ code' = 2
         \/ pc' = "exited" /\ code' \in {0, 1} /\ pc = "verify"
         \/ pc' = "killed" /\ code' = code
  BY DEF Refuse, VerifyAWS, NoSources, Killed, Exit
<1>4. Typed'
  BY <1>2, <1>3, NoneAssumption DEF IInv, Typed
<1>5. ~Reported'
  BY <1>2, <1>3, NoneAssumption DEF IInv, Asked, Reported
<1>6. Asked' /\ Answered' /\ Listed' /\ Gated'
  BY <1>3, <1>5 DEF Asked, Answered, Listed, Gated, Collected, Ranked, Written
<1> QED
  BY <1>4, <1>6 DEF IInv

LEMMA LoadStep == ASSUME IInv, Load PROVE IInv'
<1> USE DEF Load
<1>1. code = None /\ ~Reported
  BY NotYetReported DEF IInv
<1>2. ~Reported'
  BY <1>1, NoneAssumption DEF Reported
<1>3. Typed'
  BY <1>1, ConfigsAssumption DEF IInv, Typed
<1>4. Asked' /\ Answered' /\ Listed' /\ Gated'
  BY <1>2 DEF Asked, Answered, Listed, Gated, Collected, Ranked, Written
<1> QED
  BY <1>3, <1>4 DEF IInv

LEMMA PickStep == ASSUME IInv, Pick PROVE IInv'
<1> USE DEF Pick, Exit
<1>1. code = None /\ ~Reported
  BY NotYetReported DEF IInv
<1>2. ~Reported'
  BY <1>1, NoneAssumption DEF Reported
<1>3. sources \in Seq(Names)
  BY DEF IInv, Typed
<1>4. Typed'
  BY <1>1, <1>3, NoneAssumption, PickedLists DEF IInv, Typed
<1>5. Asked'
  BY <1>2, <1>3, PickedLists DEF Asked, Collected
<1>6. Answered' /\ Listed' /\ Gated'
  BY <1>2 DEF Answered, Listed, Gated, Collected, Ranked, Written
<1> QED
  BY <1>4, <1>5, <1>6 DEF IInv

LEMMA CollectStep == ASSUME IInv, Collect PROVE IInv'
<1> USE DEF Collect
<1>1. code = None /\ ~Reported
  BY NotYetReported DEF IInv
<1>2. ~Reported'
  BY <1>1, NoneAssumption DEF Reported
<1>3. Reading(sources, answers')
  BY DEF Reading, IInv, Typed
<1>4. /\ stderr' = [stderr EXCEPT !.warned =
                        [k \in DOMAIN Failed(answers') |-> sources[Failed(answers')[k]]]]
      /\ [k \in DOMAIN Failed(answers') |-> sources[Failed(answers')[k]]] \in Seq(Names)
  BY <1>3, FailedLists
<1> DEFINE w == [k \in DOMAIN Failed(answers') |-> sources[Failed(answers')[k]]]
<1>5. stderr' \in [warned : Seq(Names), breach : Row \cup {None}] /\ stderr'.warned = w
  <2> HIDE DEF w
  <2>1. stderr' = [stderr EXCEPT !.warned = w] /\ w \in Seq(Names)
    BY <1>4 DEF w
  <2>2. stderr \in [warned : Seq(Names), breach : Row \cup {None}]
    BY DEF IInv, Typed
  <2> QED
    BY <2>1, <2>2
<1>6. Typed'
  BY <1>1, <1>3, <1>5 DEF IInv, Typed, Reading
<1>7. Asked'
  BY <1>2 DEF IInv, Asked, Collected
<1>8. Answered'
  BY <1>2, <1>3, <1>5 DEF Answered, Collected
<1>9. Listed' /\ Gated'
  BY <1>2 DEF Listed, Gated, Ranked, Written
<1> QED
  BY <1>6, <1>7, <1>8, <1>9 DEF IInv

LEMMA RankStep == ASSUME IInv, RankAndFilter PROVE IInv'
<1> USE DEF RankAndFilter
<1>1. code = None /\ ~Reported
  BY NotYetReported DEF IInv
<1>2. ~Reported'
  BY <1>1, NoneAssumption DEF Reported
<1>3. Reading(sources, answers) /\ opts.within \in Int /\ opts.minPriority \in Int
  BY OptionsAssumption DEF IInv, Typed, Answered, Collected
<1>4. scored' \in Seq(Row)
  BY <1>3, ReportLists
<1>5. Typed'
  BY <1>1, <1>4 DEF IInv, Typed
<1>6. Asked' /\ Answered'
  BY <1>2 DEF IInv, Asked, Answered, Collected
<1>7. Listed' /\ Gated'
  BY <1>2 DEF Listed, Gated, Ranked, Written
<1> QED
  BY <1>5, <1>6, <1>7 DEF IInv

LEMMA WriteStep == ASSUME IInv, Open \/ Render \/ Close PROVE IInv'
<1> DEFINE Partial == [state |-> "partial", rows |-> <<>>]
           Full == [state |-> "written", rows |-> scored]
<1>1. code = None /\ ~Reported /\ pc \in {"open", "render", "close"}
  BY NotYetReported DEF IInv, Open, Render, Close
<1>2. /\ UNCHANGED <<opts, sources, answers, scored, stderr>>
      /\ \/ pc' = "render" /\ code' = code /\ sink' \in {sink, Partial}
         \/ pc' = "close" /\ code' = code /\ sink' = Full
         \/ pc = "close" /\ pc' = "gate" /\ code' = code /\ sink' = sink
         \/ pc' = "exited" /\ code' = 2 /\ sink' \in {sink, Partial}
  BY DEF Open, Render, Close, Exit
<1>3. Partial \in [state : {"previous", "partial", "written"}, rows : Seq(Row)]
  OBVIOUS
<1>4. Full \in [state : {"previous", "partial", "written"}, rows : Seq(Row)]
  BY DEF IInv, Typed
<1>5. Full.state = "written" /\ Full.rows = scored
  OBVIOUS
<1> HIDE DEF Partial, Full
<1>6. ~Reported'
  BY <1>1, <1>2, NoneAssumption DEF Reported
<1>7. Typed'
  BY <1>1, <1>2, <1>3, <1>4, NoneAssumption DEF IInv, Typed
<1>8. Asked' /\ Answered'
  BY <1>1, <1>2, <1>6 DEF IInv, Asked, Answered, Collected
<1>9. Listed'
  BY <1>1, <1>2, <1>5, <1>6 DEF IInv, Listed, Ranked, Written
<1>10. Gated'
  BY <1>6 DEF Gated
<1> QED
  BY <1>7, <1>8, <1>9, <1>10 DEF IInv

LEMMA GateStep == ASSUME IInv, Gate PROVE IInv'
<1>1. /\ pc = "gate" /\ pc' = "exited"
      /\ UNCHANGED <<opts, sources, answers, scored, sink>>
      /\ IF Breaching # <<>>
         THEN code' = 1 /\ stderr' = [stderr EXCEPT !.breach = Breaching[1]]
         ELSE /\ code' = IF Failed(answers) # <<>> THEN 3 ELSE 0
              /\ stderr' = stderr
  BY DEF Gate, Exit
<1>2. /\ opts.failWithin \in Int /\ scored \in Seq(Row)
      /\ stderr \in [warned : Seq(Names), breach : Row \cup {None}]
  BY OptionsAssumption DEF IInv, Typed
<1>3. Breaching # <<>> => Breaching[1] \in Row
  BY <1>2, BreachingLists
<1>4. /\ stderr' \in [warned : Seq(Names), breach : Row \cup {None}]
      /\ stderr'.warned = stderr.warned
      /\ Breaching # <<>> => stderr'.breach = Breaching[1]
  BY <1>1, <1>2, <1>3
<1>5. code' \in {0, 1, 3}
  BY <1>1
<1>6. Typed'
  BY <1>1, <1>4, <1>5, NoneAssumption DEF IInv, Typed
<1>7. Asked'
  BY <1>1, <1>5 DEF IInv, Asked, Collected
<1>8. Answered'
  BY <1>1, <1>4 DEF IInv, Answered, Collected
<1>9. Listed'
  BY <1>1 DEF IInv, Listed, Ranked, Written
<1>10. Breaching' = Breaching
  BY <1>1 DEF Breaching
<1>11. Gated'
  BY <1>1, <1>4, <1>10 DEF Gated
<1> QED
  BY <1>6, <1>7, <1>8, <1>9, <1>11 DEF IInv

\* IInv holds in every state: the inductive invariant of the run (main.go:45-120).
THEOREM Invariance == Spec => []IInv
<1>1. IInv /\ [Next]_vars => IInv'
  <2> SUFFICES ASSUME IInv, [Next]_vars PROVE IInv'
    OBVIOUS
  <2>1. CASE Refuse \/ VerifyAWS \/ NoSources \/ Killed
    BY <2>1, EndsEarly
  <2>2. CASE Load
    BY <2>2, LoadStep
  <2>3. CASE Pick
    BY <2>3, PickStep
  <2>4. CASE Collect
    BY <2>4, CollectStep
  <2>5. CASE RankAndFilter
    BY <2>5, RankStep
  <2>6. CASE Open \/ Render \/ Close
    BY <2>6, WriteStep
  <2>7. CASE Gate
    BY <2>7, GateStep
  <2>8. CASE UNCHANGED vars
    BY <2>8 DEF vars, IInv, Typed, Asked, Answered, Listed, Gated, Collected, Ranked,
                Written, Reported, Breaching
  <2> QED
    BY <2>1, <2>2, <2>3, <2>4, <2>5, <2>6, <2>7, <2>8 DEF Next
<1> QED
  BY <1>1, Start, PTL DEF Spec

-----------------------------------------------------------------------------
(* The properties *)

\* The state of a run has its types, whichever stage it ends in (main.go:45-120).
THEOREM TypeCorrect == Spec => []TypeOK
<1>1. IInv => TypeOK
  <2> SUFFICES ASSUME IInv PROVE TypeOK
    OBVIOUS
  <2>1. Typed
    BY DEF IInv
  <2>2. Range(sources) \subseteq Names
    BY <2>1, RangeType DEF Typed
  <2>3. Range(scored) \subseteq Row
    BY <2>1, RangeType DEF Typed
  <2>4. Range(stderr.warned) \subseteq Names
    <3>1. stderr.warned \in Seq(Names)
      BY <2>1 DEF Typed
    <3> QED
      BY <3>1, RangeType
  <2>5. Range(sink.rows) \subseteq Row
    <3>1. sink.rows \in Seq(Row)
      BY <2>1 DEF Typed
    <3> QED
      BY <3>1, RangeType
  <2> QED
    BY <2>1, <2>2, <2>3, <2>4, <2>5 DEF Typed, TypeOK
<1> QED
  BY <1>1, Invariance, PTL

\* What a run that reported has in its sink.
LEMMA ReportInSink ==
    ASSUME IInv, Reported
    PROVE  /\ sink.state = "written" /\ sink.rows = scored /\ scored \in Seq(Row)
           /\ \A p \in Positions :
                 Kept(opts.within, opts.minPriority, RowOf(p)) => RowOf(p) \in Range(scored)
           /\ \E at \in [DOMAIN scored -> Positions] :
                 /\ \A k \in DOMAIN scored : scored[k] = RowOf(at[k])
                 /\ \A k, l \in DOMAIN scored : k < l =>
                       /\ ~Before(scored[l], scored[k])
                       /\ ~Before(scored[k], scored[l]) => Earlier(at[k], at[l])
<1>1. Reading(sources, answers) /\ opts.within \in Int /\ opts.minPriority \in Int
  BY OptionsAssumption DEF IInv, Typed, Answered, Collected
<1>2. sink.state = "written" /\ sink.rows = scored
      /\ scored = Filter(Rank(Merged(answers)), opts.within, opts.minPriority)
  BY DEF IInv, Listed, Ranked, Written
<1> DEFINE report == Filter(Rank(Merged(answers)), opts.within, opts.minPriority)
<1>3. /\ report \in Seq(Row)
      /\ \A p \in Positions :
            Kept(opts.within, opts.minPriority, RowOf(p)) => RowOf(p) \in Range(report)
      /\ \E at \in [DOMAIN report -> Positions] :
            /\ \A k \in DOMAIN report : report[k] = RowOf(at[k])
            /\ \A k, l \in DOMAIN report : k < l =>
                  /\ ~Before(report[l], report[k])
                  /\ ~Before(report[k], report[l]) => Earlier(at[k], at[l])
  BY <1>1, ReportLists DEF Positions, RowOf
<1> HIDE DEF report
<1>4. scored = report
  BY <1>2 DEF report
<1> QED
  BY <1>2, <1>3, <1>4

\* Whatever a run reported on holds all of the report, and the report every item
\* the flags let through, of failed sources too (main.go:96-108,176-193).
THEOREM ReportIsComplete == Spec => []NothingLost
<1>1. IInv => NothingLost
  BY ReportInSink DEF NothingLost, Range
<1> QED
  BY <1>1, Invariance, PTL

\* Exit 0 is a clean bill: every source asked answered, and no row of the report is
\* in the window (main.go:36-43,113-120).
THEOREM ZeroMeansClean == Spec => []ZeroIsClean
<1>1. IInv => ZeroIsClean
  <2> SUFFICES ASSUME IInv, Reported, code = 0
               PROVE  /\ sources # <<>>
                      /\ opts.only # {} => Range(sources) = opts.only
                      /\ \A i \in DOMAIN answers : ~answers[i].err
                      /\ \A s \in Range(sink.rows) :
                            opts.failWithin > 0 => s.days > opts.failWithin
    BY DEF ZeroIsClean
  <2>1. sources # <<>> /\ (opts.only # {} => Range(sources) = opts.only)
    BY DEF IInv, Asked, Answered, Collected
  <2>2. Reading(sources, answers) /\ Failed(answers) = <<>> /\ Breaching = <<>>
    BY DEF IInv, Answered, Gated, Collected
  <2>3. \A i \in DOMAIN answers : ~answers[i].err
    BY <2>2, FailedLists
  <2>4. opts.failWithin \in Int /\ scored \in Seq(Row) /\ sink.rows = scored
    BY OptionsAssumption, ReportInSink DEF IInv, Typed
  <2>5. \/ opts.failWithin <= 0
        \/ \A k \in DOMAIN scored : ~(scored[k].days <= opts.failWithin)
    BY <2>2, <2>4, BreachingLists
  <2>6. \A k \in DOMAIN scored : scored[k].days \in Int
    <3>1. \A s \in Row : s.days \in Int
      BY RowType DEF Row
    <3> QED
      BY <2>4, <3>1
  <2>7. \A s \in Range(sink.rows) : opts.failWithin > 0 => s.days > opts.failWithin
    BY <2>4, <2>5, <2>6 DEF Range
  <2> QED
    BY <2>1, <2>3, <2>7
<1> QED
  BY <1>1, Invariance, PTL

\* A run that reports has warned of exactly the sources that failed
\* (main.go:99-105).
THEOREM FailuresAreTold == Spec => []FailuresWarned
<1>1. IInv => FailuresWarned
  BY FailedLists DEF FailuresWarned, IInv, Answered, Collected
<1> QED
  BY <1>1, Invariance, PTL

\* Rows come out by priority, then days, and ties in configured order
\* (rank.go:80-86).
THEOREM RankIsStable == Spec => []RankedStably
<1>1. IInv => RankedStably
  <2> SUFFICES ASSUME IInv, Reported, NEW k \in DOMAIN sink.rows, NEW l \in DOMAIN sink.rows,
                      k < l
               PROVE  /\ ~Before(sink.rows[l], sink.rows[k])
                      /\ ~Before(sink.rows[k], sink.rows[l]) =>
                            \E p, q \in Positions :
                               /\ RowOf(p) = sink.rows[k] /\ RowOf(q) = sink.rows[l]
                               /\ p[1] < q[1] \/ (p[1] = q[1] /\ p[2] < q[2])
    BY DEF RankedStably
  <2>1. sink.rows = scored
    BY ReportInSink
  <2>2. PICK at \in [DOMAIN scored -> Positions] :
           /\ \A n \in DOMAIN scored : scored[n] = RowOf(at[n])
           /\ \A m, n \in DOMAIN scored : m < n =>
                 /\ ~Before(scored[n], scored[m])
                 /\ ~Before(scored[m], scored[n]) => Earlier(at[m], at[n])
    BY ReportInSink
  <2>3. at[k] \in Positions /\ at[l] \in Positions
    BY <2>1, <2>2
  <2> QED
    BY <2>1, <2>2, <2>3 DEF Earlier
<1> QED
  BY <1>1, Invariance, PTL

\* The failure message names a row of the window, and none in it ranks above
\* (main.go:113-119,195-207).
THEOREM WorstIsNamed == Spec => []WorstNamed
<1>1. IInv => WorstNamed
  <2> SUFFICES ASSUME IInv, code = 1, ~opts.verify
               PROVE  /\ stderr.breach \in Range(sink.rows)
                      /\ stderr.breach.days <= opts.failWithin
                      /\ \A s \in Range(sink.rows) :
                            s.days <= opts.failWithin => ~Before(s, stderr.breach)
    BY DEF WorstNamed
  <2>1. Reported
    BY DEF Reported
  <2>2. Breaching # <<>> /\ stderr.breach = Breaching[1]
    BY <2>1 DEF IInv, Gated
  <2>3. opts.failWithin \in Int /\ scored \in Seq(Row) /\ sink.rows = scored
    BY <2>1, OptionsAssumption, ReportInSink DEF IInv, Typed
  <2>4. PICK k \in DOMAIN scored :
           /\ stderr.breach = scored[k] /\ scored[k].days <= opts.failWithin
           /\ \A l \in DOMAIN scored : scored[l].days <= opts.failWithin => k <= l
    BY <2>2, <2>3, BreachingLists
  <2>5. \A m, n \in DOMAIN scored : m < n => ~Before(scored[n], scored[m])
    BY <2>1, ReportInSink
  <2>6. ASSUME NEW l \in DOMAIN scored, scored[l].days <= opts.failWithin
        PROVE  ~Before(scored[l], scored[k])
    <3>1. k = l \/ k < l
      <4>1. k \in Int /\ l \in Int /\ k <= l
        BY <2>3, <2>4, <2>6
      <4> QED
        BY <4>1
    <3>2. ~Before(scored[k], scored[k])
      <4>1. scored[k] \in Row
        BY <2>3
      <4>2. scored[k].prio \in Int /\ scored[k].days \in Int
        BY <4>1, RowType DEF Row
      <4> QED
        BY <4>2 DEF Before
    <3> QED
      BY <2>5, <3>1, <3>2
  <2> QED
    BY <2>3, <2>4, <2>6 DEF Range
<1> QED
  BY <1>1, Invariance, PTL

-----------------------------------------------------------------------------
(* Consequence *)

\* What is as bad on every count has no smaller blast radius.
LEMMA MoreEvidence ==
    ASSUME NEW x, NEW y, Evidence(x), Evidence(y), AsBad(x, y)
    PROVE  BlastRadius(y) <= BlastRadius(x)
<1> DEFINE base(it) == IF it.kind \in DOMAIN BaseByKind THEN BaseByKind[it.kind] ELSE 40
           sum(it) == base(it) + Exposure(it) + Environment(it) + Coverage(it)
                      + Traffic(it) + Unused(it) + Renewal(it)
<1>1. BlastRadius(x) = Clamp01(sum(x)) /\ BlastRadius(y) = Clamp01(sum(y))
  BY DEF AsBad, BlastRadius
<1>2. base(y) = base(x) /\ base(x) \in Int
  BY DEF AsBad, BaseByKind
<1>3. Exposure(y) <= Exposure(x) /\ Exposure(x) \in Int /\ Exposure(y) \in Int
  BY DEF AsBad, Exposure
<1>4. Environment(y) <= Environment(x) /\ Environment(x) \in Int /\ Environment(y) \in Int
  BY DEF AsBad, Environment
<1>5. Coverage(y) <= Coverage(x) /\ Coverage(x) \in Int /\ Coverage(y) \in Int
  BY DEF AsBad, Evidence, Coverage
<1>6. Traffic(y) <= Traffic(x) /\ Traffic(x) \in Int /\ Traffic(y) \in Int
  BY DEF AsBad, Evidence, Traffic
<1>7. Unused(y) <= Unused(x) /\ Unused(x) \in Int /\ Unused(y) \in Int
  BY DEF AsBad, Unused
<1>8. Renewal(y) <= Renewal(x) /\ Renewal(x) \in Int /\ Renewal(y) \in Int
  BY DEF AsBad, Renewal
<1> HIDE DEF base
<1>9. sum(x) \in Int /\ sum(y) \in Int /\ sum(y) <= sum(x)
  BY <1>2, <1>3, <1>4, <1>5, <1>6, <1>7, <1>8
<1> HIDE DEF sum
<1> QED
  BY <1>1, <1>9 DEF Clamp01

\* What the score makes of two items of which the second did not come first.
LEMMA Consequence ==
    ASSUME NEW x \in Items, NEW y \in Items, ~Before(Scored(y), Scored(x))
    PROVE  LET above == Scored(x)
               below == Scored(y)
           IN /\ AsBad(below, above) => above.prio = below.prio /\ above.days = below.days
              /\ above.days = below.days /\ above.overrides # <<>> /\ below.overrides # <<>> =>
                    above.overrides[1] >= below.overrides[1] \/ above.prio = below.prio
              /\ above.days = 8 /\ below.days <= 2 => above.blast > below.blast + 20
              /\ above.days = 40 /\ below.days = 100 => below.blast < 90 \/ above.blast > 20
<1> DEFINE above == Scored(x)
           below == Scored(y)
           fields == {"kind", "days", "overrides", "label", "public", "class", "tokens",
                      "hosts", "wildcard", "rps", "unused", "renewal"}
<1>1. /\ Evidence(x) /\ above.prio = Priority(x) /\ above.prio \in Int
      /\ above.days = x.days /\ above.days \in Int
      /\ Evidence(y) /\ below.prio = Priority(y) /\ below.prio \in Int
      /\ below.days = y.days /\ below.days \in Int
  BY RowType
<1>2. ASSUME NEW it \in Items
      PROVE  /\ Scored(it).blast = BlastRadius(it)
             /\ \A f \in fields : Scored(it)[f] = it[f]
  <2>1. fields \subseteq DOMAIN it /\ "blast" \notin fields /\ "prio" \notin fields
    BY ItemsAssumption
  <2>2. \A f \in DOMAIN it \cup {"blast", "prio"} : Scored(it)[f] =
            IF f = "blast" THEN BlastRadius(it)
            ELSE IF f = "prio" THEN Priority(it) ELSE it[f]
    BY DEF Scored
  <2> HIDE DEF fields
  <2>3. \A f \in fields : f \in DOMAIN it \cup {"blast", "prio"} /\ f # "blast" /\ f # "prio"
    BY <2>1
  <2> QED
    BY <2>2, <2>3
<1>3. AsBad(below, above) => AsBad(y, x)
  BY <1>2 DEF AsBad
<1>4. above.overrides = x.overrides /\ below.overrides = y.overrides
      /\ above.blast = BlastRadius(x) /\ below.blast = BlastRadius(y)
  BY <1>2
<1> HIDE DEF above, below, fields
<1>5. ~Before(below, above)
  BY DEF above, below
<1>6. below.prio <= above.prio /\ (below.prio = above.prio => above.days <= below.days)
  BY <1>1, <1>5 DEF Before
<1>7. /\ Urgency(x.days) \in Int /\ Urgency(y.days) \in Int
      /\ Urgency(x.days) >= 0 /\ Urgency(x.days) <= 10000
      /\ Urgency(y.days) >= 0 /\ Urgency(y.days) <= 10000
  BY <1>1, UrgencyFalls, SMT
<1>8. BlastRadius(x) \in 0..100 /\ BlastRadius(y) \in 0..100
  BY <1>1, BlastType
<1>9. 55 * Urgency(y.days) + 4500 * BlastRadius(y)
         < 55 * Urgency(x.days) + 4500 * BlastRadius(x) + 10000
  BY <1>1, <1>6, Weighed, SMT
<1>10. ASSUME AsBad(below, above)
       PROVE  above.prio = below.prio /\ above.days = below.days
  <2>1. BlastRadius(x) <= BlastRadius(y)
    BY <1>1, <1>3, <1>10, MoreEvidence
  <2>2. below.days <= above.days
    BY <1>10 DEF AsBad
  <2>3. Urgency(x.days) <= Urgency(y.days)
    BY <1>1, <2>2, UrgencyFalls, SMT
  <2>4. above.prio <= below.prio
    BY <1>1, <2>1, <2>3, Weighed
  <2> QED
    BY <1>1, <1>6, <2>2, <2>4
<1>11. ASSUME above.days = below.days, above.overrides # <<>>, below.overrides # <<>>
       PROVE  above.overrides[1] >= below.overrides[1] \/ above.prio = below.prio
  <2> SUFFICES ASSUME ~(above.overrides[1] >= below.overrides[1])
               PROVE  above.prio = below.prio
    OBVIOUS
  <2>1. x.overrides[1] \in Int /\ y.overrides[1] \in Int
    BY <1>1, <1>4, <1>11 DEF Evidence
  <2>2. Clamp01(x.overrides[1]) <= Clamp01(y.overrides[1])
    BY <1>4, <2>1 DEF Clamp01
  <2>3. BlastRadius(x) <= BlastRadius(y)
    BY <1>4, <1>11, <2>2 DEF BlastRadius
  <2>4. Urgency(x.days) <= Urgency(y.days)
    BY <1>1, <1>7, <1>11, SMT
  <2>5. above.prio <= below.prio
    BY <1>1, <2>3, <2>4, Weighed
  <2> QED
    BY <1>1, <1>6, <2>5
<1>12. ASSUME above.days = 8, below.days <= 2 PROVE above.blast > below.blast + 20
  <2>1. Urgency(y.days) >= Urgency(x.days) + 2000
    BY <1>1, <1>12, UrgencyFalls, SMT
  <2> QED
    BY <1>4, <1>7, <1>8, <1>9, <2>1, SMT
<1>13. ASSUME above.days = 40, below.days = 100 PROVE below.blast < 90 \/ above.blast > 20
  <2>1. Urgency(x.days) <= 5000 /\ Urgency(y.days) = 0
    BY <1>1, <1>13, UrgencyFalls, SMT
  <2> QED
    BY <1>4, <1>7, <1>8, <1>9, <2>1, SMT
<1> QED
  BY <1>10, <1>11, <1>12, <1>13 DEF above, below

\* The ranking answers to consequence: nothing comes before what is as bad on every
\* count, and dates win over the blast radius only where they should (rank.go:36-40,89-230).
THEOREM ConsequenceRules == Spec => []ConsequenceFirst
<1>1. IInv => ConsequenceFirst
  <2> SUFFICES ASSUME IInv, Reported, NEW k \in DOMAIN sink.rows, NEW l \in DOMAIN sink.rows,
                      k < l
               PROVE  LET above == sink.rows[k]
                          below == sink.rows[l]
                      IN /\ AsBad(below, above) =>
                               above.prio = below.prio /\ above.days = below.days
                         /\ above.days = below.days /\ above.overrides # <<>>
                             /\ below.overrides # <<>> =>
                               above.overrides[1] >= below.overrides[1]
                               \/ above.prio = below.prio
                         /\ above.days = 8 /\ below.days <= 2 => above.blast > below.blast + 20
                         /\ above.days = 40 /\ below.days = 100 =>
                               below.blast < 90 \/ above.blast > 20
    BY DEF ConsequenceFirst
  <2>1. sink.rows = scored /\ scored \in Seq(Row) /\ ~Before(scored[l], scored[k])
    BY ReportInSink
  <2>2. scored[k] \in Row /\ scored[l] \in Row
    BY <2>1
  <2>3. PICK x \in Items, y \in Items : scored[k] = Scored(x) /\ scored[l] = Scored(y)
    BY <2>2 DEF Row
  <2> QED
    BY <2>1, <2>3, Consequence
<1> QED
  BY <1>1, Invariance, PTL
=============================================================================
