-------------------------- MODULE CheckpointProofs --------------------------
(***************************************************************************)
(* The checkpoint reader for every directory, every hash function and      *)
(* every table size: what an open leaves behind, what a name finds, where  *)
(* an expert's bytes are, and what a bind hands out of it.                 *)
(***************************************************************************)
EXTENDS Bind, WellFoundedInduction, FiniteSetTheorems, TLAPS

-----------------------------------------------------------------------------
(* Arithmetic.                                                             *)

\* A nonempty set of naturals has a least element.
LEMMA LeastNatural ==
    ASSUME NEW S \in SUBSET Nat, S # {}
    PROVE  \E m \in S : \A k \in S : m <= k
<1> DEFINE R == OpToRel(<, Nat)
<1>1. IsWellFoundedOn(R, Nat)
  BY Zenon, NatLessThanWellFounded
<1>2. \A a, b \in Nat : a < b => <<a, b>> \in R
  BY DEF OpToRel
<1> HIDE DEF R
<1>3. PICK m \in S : \A k \in S : ~(<<k, m>> \in R)
  BY Zenon, <1>1, WFMin
<1>4. ASSUME NEW k \in S PROVE m <= k
  <2>1. ~(<<k, m>> \in R)
    BY <1>3
  <2>2. k \in Nat /\ m \in Nat
    OBVIOUS
  <2>3. ~(k < m)
    BY Zenon, <1>2, <2>1, <2>2
  <2> QED
    BY <2>2, <2>3
<1> QED
  BY <1>4

\* The elements of a sequence.
LEMMA SeqElement ==
    ASSUME NEW S, NEW q \in Seq(S)
    PROVE  /\ Len(q) \in Nat /\ DOMAIN q = 1..Len(q)
           /\ \A i \in 1..Len(q) : q[i] \in S /\ i \in Nat
  OBVIOUS

\* The elements of a sequence and of one put behind it.
LEMMA Behind ==
    ASSUME NEW S, NEW p \in Seq(S), NEW q \in Seq(S)
    PROVE  /\ p \o q \in Seq(S) /\ Len(p \o q) = Len(p) + Len(q)
           /\ \A i \in 1..Len(p \o q) :
                 (p \o q)[i] = IF i <= Len(p) THEN p[i] ELSE q[i - Len(p)]
  OBVIOUS

\* One multiple more.
LEMMA OneMore ==
    ASSUME NEW n \in Int, NEW q \in Int
    PROVE  n * (q + 1) = n * q + n /\ n * q \in Int
  OBVIOUS

\* Multiples less than one unit apart are ordered.
LEMMA Multiples ==
    ASSUME NEW n \in Nat \ {0}, NEW p \in Int, NEW q \in Int, n * p < n * q + n
    PROVE  p <= q
<1> SUFFICES ASSUME q + 1 <= p PROVE FALSE
  OBVIOUS
<1>1. n * (q + 1) <= n * p
  OBVIOUS
<1> QED
  BY <1>1, OneMore

\* What a remainder is.
LEMMA Remainder ==
    ASSUME NEW n \in Nat \ {0}, NEW x \in Nat
    PROVE  /\ x % n \in 0..n-1
           /\ \E q \in Nat : x = n * q + (x % n)
<1>1. x \div n \in Nat /\ x % n \in 0..n-1 /\ x = n * (x \div n) + (x % n)
  OBVIOUS
<1> QED
  BY Zenon, <1>1

\* It is the only one.
LEMMA RemainderIs ==
    ASSUME NEW n \in Nat \ {0}, NEW q \in Nat, NEW r \in 0..n-1, NEW x \in Nat,
           x = n * q + r
    PROVE  x % n = r
<1>1. PICK p \in Nat : x = n * p + (x % n)
  BY Zenon, Remainder
<1>2. x % n \in 0..n-1 /\ n * p \in Int /\ n * q \in Int
  BY Remainder, OneMore
<1>3. p <= q
  BY <1>1, <1>2, Multiples
<1>4. q <= p
  BY <1>1, <1>2, Multiples
<1>5. p = q
  BY <1>3, <1>4
<1> QED
  BY <1>1, <1>2, <1>5

\* Going round, every place is reached.
LEMMA Reach ==
    ASSUME NEW n \in Nat \ {0}, NEW x \in Nat, NEW b \in 0..n-1
    PROVE  \E e \in Nat : (x + e) % n = b
<1> DEFINE r == x % n
<1>1. PICK q \in Nat : x = n * q + r
  BY Zenon, Remainder
<1>2. r \in 0..n-1 /\ n * q \in Int /\ n * (q + 1) = n * q + n
  BY Remainder, OneMore
<1> HIDE DEF r
<1>3. CASE r <= b
  <2>1. b - r \in Nat /\ x + (b - r) = n * q + b /\ x + (b - r) \in Nat
    BY <1>1, <1>2, <1>3
  <2> DEFINE y == x + (b - r)
  <2>2. y \in Nat /\ y = n * q + b
    BY <2>1
  <2> HIDE DEF y
  <2>3. y % n = b
    BY <2>2, RemainderIs
  <2> QED
    BY Zenon, <2>1, <2>3 DEF y
<1>4. CASE b < r
  <2>1. b - r + n \in Nat /\ x + (b - r + n) = n * (q + 1) + b /\ x + (b - r + n) \in Nat
        /\ q + 1 \in Nat
    BY <1>1, <1>2, <1>4
  <2> DEFINE y == x + (b - r + n)  q1 == q + 1
  <2>2. y \in Nat /\ y = n * q1 + b /\ q1 \in Nat
    BY <2>1
  <2> HIDE DEF y, q1
  <2>3. y % n = b
    BY <2>2, RemainderIs
  <2> QED
    BY <2>1, <2>3 DEF y
<1> QED
  BY <1>2, <1>3, <1>4

-----------------------------------------------------------------------------
(* The size of the index.                                                  *)

\* g is the table of doublings that BucketCount chooses.
Doubles(n, g) == g = [d \in 0..n |-> IF d = 0 THEN MinBucket ELSE 2 * g[d - 1]]

\* There is one for every length: the shortest length without one would
\* extend one that has it.
LEMMA DoublesExist ==
    ASSUME NEW n \in Nat
    PROVE  \E g : Doubles(n, g)
<1> DEFINE S == {j \in Nat : ~\E g : Doubles(j, g)}
<1> SUFFICES ASSUME S # {} PROVE FALSE
  OBVIOUS
<1>1. S \in SUBSET Nat
  OBVIOUS
<1>2. PICK m \in S : \A j \in S : m <= j
  BY Zenon, <1>1, LeastNatural
<1>3. m \in Nat /\ ~\E g : Doubles(m, g)
  BY <1>2
<1>4. CASE m = 0
  <2> DEFINE g == [d \in 0..m |-> MinBucket]
  <2>1. Doubles(m, g)
    BY <1>4 DEF Doubles
  <2> QED
    BY <1>3, <2>1
<1>5. CASE m # 0
  <2>1. m - 1 \in Nat /\ m - 1 \notin S
    BY <1>2, <1>3, <1>5
  <2>2. PICK h : Doubles(m - 1, h)
    BY <2>1
  <2> DEFINE g == [d \in 0..m |-> IF d = m THEN 2 * h[m - 1] ELSE h[d]]
  <2>3. ASSUME NEW d \in 0..m
        PROVE  g[d] = IF d = 0 THEN MinBucket ELSE 2 * g[d - 1]
    <3>1. CASE d = m
      <4>1. m - 1 \in 0..m /\ m - 1 # m
        BY <1>3, <1>5
      <4>2. g[m - 1] = h[m - 1] /\ g[d] = 2 * h[m - 1] /\ d # 0
        BY <1>5, <3>1, <4>1
      <4> QED
        BY <3>1, <4>2
    <3>2. CASE d # m
      <4>1. d \in 0..m-1 /\ g[d] = h[d]
        BY <1>3, <3>2
      <4>2. h[d] = IF d = 0 THEN MinBucket ELSE 2 * h[d - 1]
        BY <2>2, <4>1 DEF Doubles
      <4>3. d # 0 => g[d - 1] = h[d - 1]
        BY <1>3, <4>1
      <4> QED
        BY <4>1, <4>2, <4>3
    <3> QED
      BY <3>1, <3>2
  <2>4. g = [d \in 0..m |-> g[d]]
    OBVIOUS
  <2> HIDE DEF g
  <2>5. Doubles(m, g)
    BY Zenon, <2>3, <2>4 DEF Doubles
  <2> QED
    BY <1>3, <2>5
<1> QED
  BY <1>4, <1>5

\* Doubling outruns counting.
LEMMA DoublesGrow ==
    ASSUME NEW n \in Nat, NEW g, Doubles(n, g), NEW d \in 0..n
    PROVE  g[d] \in Nat /\ g[d] >= d + 1
<1> DEFINE S == {j \in 0..n : ~(g[j] \in Nat /\ g[j] >= j + 1)}
<1> SUFFICES ASSUME S # {} PROVE FALSE
  OBVIOUS
<1>1. S \in SUBSET Nat
  OBVIOUS
<1>2. PICK m \in S : \A j \in S : m <= j
  BY Zenon, <1>1, LeastNatural
<1>3. m \in 0..n /\ ~(g[m] \in Nat /\ g[m] >= m + 1)
  BY <1>2
<1>4. g[m] = IF m = 0 THEN MinBucket ELSE 2 * g[m - 1]
  BY <1>3 DEF Doubles
<1>5. m # 0
  BY <1>3, <1>4, CheckpointAssumption
<1>6. m - 1 \in 0..n /\ m - 1 \notin S
  BY <1>2, <1>3, <1>5
<1>7. g[m - 1] \in Nat /\ g[m - 1] >= m
  BY <1>3, <1>5, <1>6
<1> QED
  BY <1>3, <1>4, <1>5, <1>7

\* There are at least twice as many buckets as tensors, and at least one.
LEMMA Buckets ==
    ASSUME NEW n \in Nat
    PROVE  BucketCount(n) \in Nat \ {0} /\ BucketCount(n) >= 2 * n
<1> DEFINE g == CHOOSE f : Doubles(n, f)
           Enough(d) == g[d] >= 2 * n /\ (d = 0 \/ g[d - 1] < 2 * n)
           k == CHOOSE d \in 0..n : Enough(d)
<1>1. Doubles(n, g)
  BY DoublesExist
<1>2. BucketCount(n) = g[k]
  BY DEF BucketCount, Doubles
<1> HIDE DEF g
<1>3. \A d \in 0..n : g[d] \in Nat /\ g[d] >= d + 1
  BY <1>1, DoublesGrow
<1>4. g[n] >= 2 * n
  <2>1. CASE n = 0
    BY <1>3, <2>1
  <2>2. CASE n # 0
    <3>1. n - 1 \in 0..n /\ n \in 0..n
      BY <2>2
    <3>2. g[n] = 2 * g[n - 1]
      BY <1>1, <2>2, <3>1 DEF Doubles
    <3>3. g[n - 1] \in Nat /\ g[n - 1] >= n
      BY <1>3, <3>1
    <3> QED
      BY <3>2, <3>3
  <2> QED
    BY <2>1, <2>2
<1>5. \E d \in 0..n : Enough(d)
  <2> DEFINE S == {d \in 0..n : g[d] >= 2 * n}
  <2>1. S \in SUBSET Nat /\ n \in S
    BY <1>4
  <2>2. PICK m \in S : \A j \in S : m <= j
    BY Zenon, <2>1, LeastNatural
  <2>3. m # 0 => m - 1 \in 0..n /\ m - 1 \notin S
    BY <2>2
  <2>4. m # 0 => g[m - 1] < 2 * n
    BY <1>3, <2>3
  <2> QED
    BY <2>2, <2>4
<1> HIDE DEF Enough
<1>6. k \in 0..n /\ Enough(k)
  BY Zenon, <1>5
<1> HIDE DEF k
<1> QED
  BY <1>2, <1>3, <1>6 DEF Enough

-----------------------------------------------------------------------------
(* Probing.                                                                *)

\* The first nindexed tensors are in buckets of their own.
Table ==
    /\ fnv1a \in [Names -> Nat]
    /\ Len(t) \in Nat /\ nindexed \in 0..Len(t)
    /\ bucket \in [0..NBucket-1 -> 0..nindexed]
    /\ \A a, b \in 0..NBucket-1 : bucket[a] = bucket[b] => a = b \/ bucket[a] = 0

\* The d-th bucket of n's probe ends it.
Stops(n, d) == bucket[Probe(n, d)] = 0 \/ t[bucket[Probe(n, d)]].name = n

\* From the d-th bucket on, the e-th is the first to end it.
FirstStop(n, d, e) ==
    /\ e \in Nat /\ d <= e /\ Stops(n, e)
    /\ \A x \in d..e-1 : ~Stops(n, x)

\* The numbers involved.
LEMMA TableSize ==
    ASSUME Table
    PROVE  /\ NBucket \in Nat \ {0} /\ NBucket >= 2 * Len(t)
           /\ \A n \in Names : fnv1a[n] \in Nat
<1>1. Len(t) \in Nat /\ fnv1a \in [Names -> Nat]
  BY DEF Table
<1>2. NBucket \in Nat \ {0} /\ NBucket >= 2 * Len(t)
  BY Zenon, <1>1, Buckets DEF NBucket
<1> QED
  BY <1>1, <1>2

\* At most half of the buckets are used, so one is empty.
LEMMA EmptyBucket ==
    ASSUME Table
    PROVE  \E b \in 0..NBucket-1 : bucket[b] = 0
<1> DEFINE B == 0..NBucket-1
           I == 1..nindexed
<1>1. /\ NBucket \in Nat \ {0} /\ NBucket >= 2 * Len(t) /\ nindexed \in Nat
      /\ nindexed <= Len(t) /\ NBucket - 1 \in Int /\ 0 \in Int /\ 1 \in Int /\ nindexed \in Int
  BY TableSize DEF Table
<1>2. IsFiniteSet(B) /\ Cardinality(B) = NBucket
  <2>1. IsFiniteSet(0..NBucket-1)
        /\ Cardinality(0..NBucket-1) = IF 0 > NBucket-1 THEN 0 ELSE (NBucket-1) - 0 + 1
    BY Zenon, <1>1, FS_Interval
  <2> QED
    BY <1>1, <2>1
<1>3. IsFiniteSet(I) /\ Cardinality(I) = nindexed
  <2>1. IsFiniteSet(1..nindexed)
        /\ Cardinality(1..nindexed) = IF 1 > nindexed THEN 0 ELSE nindexed - 1 + 1
    BY Zenon, <1>1, FS_Interval
  <2> QED
    BY <1>1, <2>1
<1>4. Cardinality(I) < Cardinality(B)
  BY <1>1, <1>2, <1>3 DEF Table
<1> SUFFICES ASSUME \A b \in B : bucket[b] # 0 PROVE FALSE
  OBVIOUS
<1>5. bucket \in [B -> I]
  BY <1>1 DEF Table
<1> HIDE DEF B, I
<1>6. \E a, b \in B : a # b /\ bucket[a] = bucket[b]
  BY Zenon, <1>2, <1>3, <1>4, <1>5, FS_PigeonHole
<1> QED
  BY <1>6 DEF Table, B

\* The buckets a probe looks at.
LEMMA ProbeRange ==
    ASSUME Table, NEW n \in Names, NEW d \in Nat
    PROVE  Probe(n, d) \in 0..NBucket-1 /\ bucket[Probe(n, d)] \in 0..nindexed
<1>1. NBucket \in Nat \ {0} /\ fnv1a[n] + d \in Nat
  BY TableSize
<1>2. Probe(n, d) \in 0..NBucket-1
  BY Zenon, <1>1, Remainder DEF Probe
<1> QED
  BY <1>2 DEF Table

\* From any bucket on, a probe ends.
LEMMA StopsFrom ==
    ASSUME Table, NEW n \in Names, NEW d \in Nat
    PROVE  \E e : FirstStop(n, d, e)
<1>1. NBucket \in Nat \ {0} /\ fnv1a[n] \in Nat /\ fnv1a[n] + d \in Nat
  BY TableSize
<1>2. PICK b \in 0..NBucket-1 : bucket[b] = 0
  BY EmptyBucket
<1>3. PICK e \in Nat : ((fnv1a[n] + d) + e) % NBucket = b
  BY Zenon, <1>1, Reach
<1>4. (fnv1a[n] + d) + e = fnv1a[n] + (d + e) /\ d + e \in Nat /\ d <= d + e
  BY <1>1
<1>5. Stops(n, d + e)
  BY <1>2, <1>3, <1>4 DEF Stops, Probe
<1> DEFINE S == {x \in Nat : d <= x /\ Stops(n, x)}
<1>6. S \in SUBSET Nat /\ S # {}
  BY <1>4, <1>5
<1>7. PICK m \in S : \A x \in S : m <= x
  BY Zenon, <1>6, LeastNatural
<1>8. \A x \in d..m-1 : ~Stops(n, x)
  BY <1>7
<1> QED
  BY <1>7, <1>8 DEF FirstStop

\* It ends at one place.
LEMMA FirstStopUnique ==
    ASSUME NEW n, NEW d \in Nat, NEW e, NEW f, FirstStop(n, d, e), FirstStop(n, d, f)
    PROVE  e = f
  BY DEF FirstStop

\* g is the table of first stops that ProbeLength chooses.
Stopping(n, g) == g = [d \in Nat |-> IF Stops(n, d) THEN d ELSE g[d + 1]]

\* There is such a table.
LEMMA StoppingExists ==
    ASSUME Table, NEW n \in Names
    PROVE  \E g : Stopping(n, g)
<1> DEFINE g == [d \in Nat |-> CHOOSE e : FirstStop(n, d, e)]
<1>1. \A d \in Nat : FirstStop(n, d, g[d])
  BY StopsFrom
<1>2. g = [d \in Nat |-> g[d]]
  OBVIOUS
<1> HIDE DEF g
<1>3. ASSUME NEW d \in Nat
      PROVE  g[d] = IF Stops(n, d) THEN d ELSE g[d + 1]
  <2>1. CASE Stops(n, d)
    <3>1. FirstStop(n, d, d)
      BY <2>1 DEF FirstStop
    <3>2. g[d] = d
      BY <1>1, <3>1, FirstStopUnique
    <3> QED
      BY <2>1, <3>2
  <2>2. CASE ~Stops(n, d)
    <3>1. d + 1 \in Nat /\ FirstStop(n, d + 1, g[d + 1])
      BY <1>1
    <3>2. FirstStop(n, d, g[d + 1])
      <4>1. g[d + 1] \in Nat /\ d + 1 <= g[d + 1] /\ Stops(n, g[d + 1])
            /\ \A x \in (d + 1)..(g[d + 1] - 1) : ~Stops(n, x)
        BY <3>1 DEF FirstStop
      <4>2. ASSUME NEW x \in d..(g[d + 1] - 1) PROVE ~Stops(n, x)
        <5>1. x = d \/ x \in (d + 1)..(g[d + 1] - 1)
          BY <4>1
        <5> QED
          BY <2>2, <4>1, <5>1
      <4> QED
        BY <4>1, <4>2 DEF FirstStop
    <3>3. g[d] = g[d + 1]
      BY <1>1, <3>2, FirstStopUnique
    <3> QED
      BY <2>2, <3>3
  <2> QED
    BY <2>1, <2>2
<1>4. Stopping(n, g)
  BY Zenon, <1>2, <1>3 DEF Stopping
<1> QED
  BY <1>4

\* A probe goes to the first bucket that is free or has its name.
LEMMA ProbeLengthIs ==
    ASSUME Table, NEW n \in Names
    PROVE  FirstStop(n, 0, ProbeLength(n))
<1> DEFINE g == CHOOSE f : Stopping(n, f)
<1>1. Stopping(n, g)
  BY StoppingExists
<1>2. ProbeLength(n) = g[0]
  BY DEF ProbeLength, Stopping, Stops
<1> HIDE DEF g
<1>3. PICK e : FirstStop(n, 0, e)
  BY StopsFrom
<1>4. e \in Nat /\ Stops(n, e) /\ \A x \in 0..e-1 : ~Stops(n, x)
  BY <1>3 DEF FirstStop
<1> DEFINE S == {k \in 0..e : g[e - k] # e}
<1>5. S = {}
  <2> SUFFICES ASSUME S # {} PROVE FALSE
    OBVIOUS
  <2>1. S \in SUBSET Nat
    BY <1>4
  <2>2. PICK m \in S : \A k \in S : m <= k
    BY Zenon, <2>1, LeastNatural
  <2>3. m \in 0..e /\ g[e - m] # e /\ e - m \in Nat
    BY <1>4, <2>2
  <2>4. g[e - m] = IF Stops(n, e - m) THEN e - m ELSE g[(e - m) + 1]
    BY <1>1, <2>3 DEF Stopping
  <2>5. m # 0
    BY <1>4, <2>3, <2>4
  <2>6. ~Stops(n, e - m)
    BY <1>4, <2>3, <2>5
  <2>7. m - 1 \in 0..e /\ m - 1 \notin S /\ (e - m) + 1 = e - (m - 1)
    BY <1>4, <2>2, <2>3, <2>5
  <2>8. g[e - (m - 1)] = e
    BY <2>7
  <2> QED
    BY Zenon, <2>3, <2>4, <2>6, <2>7, <2>8
<1>6. e \in 0..e /\ e - e = 0
  BY <1>4
<1>7. g[0] = e
  BY <1>5, <1>6
<1> QED
  BY <1>2, <1>3, <1>7

-----------------------------------------------------------------------------
(* What a name finds.                                                      *)

\* Every tensor inserted is where a probe for its name comes to before any
\* free bucket, and no two have one name.
IndexInv ==
    /\ Table
    /\ \A i \in 1..nindexed : t[i].name \in Names
    /\ \A i \in 1..nindexed : \E d \in Nat :
         /\ bucket[Probe(t[i].name, d)] = i
         /\ \A e \in 0..d-1 : bucket[Probe(t[i].name, e)] # 0
    /\ \A i, j \in 1..nindexed : t[i].name = t[j].name => i = j

\* A name that is in the index finds its tensor.
LEMMA FindPresent ==
    ASSUME IndexInv, NEW i \in 1..nindexed
    PROVE  Find(t[i].name) = i
<1> DEFINE n == t[i].name
           D == ProbeLength(n)
<1>1. Table /\ n \in Names /\ nindexed \in Nat
  BY DEF IndexInv, Table
<1>2. PICK d \in Nat : bucket[Probe(n, d)] = i /\ \A e \in 0..d-1 : bucket[Probe(n, e)] # 0
  BY DEF IndexInv
<1> HIDE DEF n
<1>3. FirstStop(n, 0, D)
  BY <1>1, ProbeLengthIs
<1> HIDE DEF D
<1>4. D \in Nat /\ Stops(n, D) /\ \A x \in 0..D-1 : ~Stops(n, x)
  BY <1>3 DEF FirstStop
<1>5. Stops(n, d)
  BY <1>2 DEF Stops, n
<1>6. D <= d
  BY <1>2, <1>4, <1>5
<1>7. bucket[Probe(n, D)] \in 0..nindexed
  BY Zenon, <1>1, <1>4, ProbeRange
<1>8. bucket[Probe(n, D)] # 0
  <2>1. CASE D = d
    BY <1>1, <1>2, <2>1
  <2>2. CASE D < d
    BY <1>2, <1>4, <2>2
  <2> QED
    BY <1>2, <1>4, <1>6, <2>1, <2>2
<1>9. t[bucket[Probe(n, D)]].name = n /\ bucket[Probe(n, D)] \in 1..nindexed
  BY SMTT(20), <1>1, <1>4, <1>7, <1>8 DEF Stops
<1>10. bucket[Probe(n, D)] = i
  BY <1>9 DEF IndexInv, n
<1> QED
  BY <1>10 DEF Find, D, n

\* Any other name finds nothing.
LEMMA FindAbsent ==
    ASSUME IndexInv, NEW n \in Names, \A i \in 1..nindexed : t[i].name # n
    PROVE  Find(n) = 0
<1>1. Table /\ nindexed \in Nat
  BY DEF IndexInv, Table
<1>2. FirstStop(n, 0, ProbeLength(n))
  BY <1>1, ProbeLengthIs
<1>3. ProbeLength(n) \in Nat /\ Stops(n, ProbeLength(n))
  BY <1>2 DEF FirstStop
<1>4. bucket[Probe(n, ProbeLength(n))] \in 0..nindexed
  BY Zenon, <1>1, <1>3, ProbeRange
<1> QED
  BY <1>1, <1>3, <1>4 DEF Find, Stops

\* Inserting a tensor whose probe ends at a free bucket keeps the index.
LEMMA InsertKeeps ==
    ASSUME IndexInv, Insert, \A i \in 1..Len(t) : t[i].name \in Names
    PROVE  IndexInv'
<1> DEFINE m == nindexed + 1
           n == t[m].name
           D == ProbeLength(n)
           j == Probe(n, D)
<1>1. /\ bucket[j] = 0 /\ bucket' = [bucket EXCEPT ![j] = m]
      /\ nindexed' = m /\ nindexed < Len(t) /\ t' = t /\ fnv1a' = fnv1a
  BY DEF Insert, dirVars
<1>2. Table /\ nindexed \in Nat /\ Len(t) \in Nat
  BY DEF IndexInv, Table
<1>3. m \in 1..Len(t) /\ n \in Names /\ m \in Nat
  BY <1>1, <1>2
<1>4. NBucket' = NBucket /\ NBucket \in Nat \ {0}
  BY Zenon, <1>1, <1>2, TableSize DEF NBucket
<1>5. \A nm, d : Probe(nm, d)' = Probe(nm, d)
  BY <1>1, <1>4 DEF Probe
<1>6. FirstStop(n, 0, D)
  BY Zenon, <1>2, <1>3, ProbeLengthIs
<1>7. D \in Nat /\ \A x \in 0..D-1 : bucket[Probe(n, x)] # 0
  BY Zenon, <1>6 DEF FirstStop, Stops
<1>8. j \in 0..NBucket-1
  BY Zenon, <1>2, <1>3, <1>7, ProbeRange
<1>9. \A i \in 1..nindexed : t[i].name # n
  <2> SUFFICES ASSUME NEW i \in 1..nindexed, t[i].name = n PROVE FALSE
    OBVIOUS
  <2>1. Find(n) = i
    BY FindPresent
  <2> QED
    BY <1>1, <1>2, <2>1 DEF Find
<1> HIDE DEF m, n, D, j
<1>10. Table'
  <2>1. bucket \in [0..NBucket-1 -> 0..nindexed] /\ 0..nindexed \subseteq 0..m
    BY <1>2, <1>3 DEF Table, m
  <2>2. bucket' \in [0..NBucket-1 -> 0..m]
    BY <1>1, <1>3, <1>8, <2>1
  <2>3. ASSUME NEW a \in 0..NBucket-1, NEW b \in 0..NBucket-1, bucket'[a] = bucket'[b], a # b
        PROVE  bucket'[a] = 0
    <3>1. \A x \in 0..NBucket-1 : bucket[x] # m
      BY <1>2, <2>1 DEF m
    <3>2. a # j /\ b # j
      BY Zenon, <1>1, <1>8, <2>1, <2>3, <3>1
    <3> QED
      BY Zenon, <1>1, <1>2, <2>1, <2>3, <3>2 DEF Table
  <2>4. fnv1a' \in [Names -> Nat] /\ Len(t') \in Nat /\ nindexed' \in 0..Len(t')
    BY <1>1, <1>2, <1>3 DEF Table
  <2>5. bucket' \in [0..NBucket'-1 -> 0..nindexed']
    BY Zenon, <1>1, <1>4, <2>2
  <2> QED
    BY Zenon, <1>4, <2>3, <2>4, <2>5 DEF Table
<1>11. \A b \in 0..NBucket-1 : bucket[b] # 0 => bucket'[b] = bucket[b]
  BY Zenon, <1>1, <1>2 DEF Table
<1>12. ASSUME NEW i \in 1..m
       PROVE  \E d \in Nat : /\ bucket'[Probe(t[i].name, d)] = i
                             /\ \A e \in 0..d-1 : bucket'[Probe(t[i].name, e)] # 0
  <2>1. CASE i = m
    <3>1. bucket'[Probe(n, D)] = m
      BY Zenon, <1>1, <1>2, <1>8 DEF Table, j
    <3>2. ASSUME NEW e \in 0..D-1 PROVE bucket'[Probe(n, e)] # 0
      <4>1. e \in Nat /\ bucket[Probe(n, e)] # 0
        BY <1>7
      <4>2. Probe(n, e) \in 0..NBucket-1
        BY Zenon, <1>2, <1>3, <4>1, ProbeRange
      <4> QED
        BY <1>11, <4>1, <4>2
    <3> QED
      BY Zenon, <1>7, <2>1, <3>1, <3>2 DEF n
  <2>2. CASE i # m
    <3>1. i \in 1..nindexed
      BY <1>2, <2>2 DEF m
    <3>2. PICK d \in Nat : /\ bucket[Probe(t[i].name, d)] = i
                           /\ \A e \in 0..d-1 : bucket[Probe(t[i].name, e)] # 0
      BY Zenon, <3>1 DEF IndexInv
    <3>3. \A e \in Nat : Probe(t[i].name, e) \in 0..NBucket-1
      BY Zenon, <1>2, <3>1, ProbeRange DEF IndexInv
    <3>4. bucket'[Probe(t[i].name, d)] = i
      <4>1. i # 0
        BY <3>1
      <4>2. Probe(t[i].name, d) \in 0..NBucket-1 /\ bucket[Probe(t[i].name, d)] = i
        BY Zenon, <3>2, <3>3
      <4> QED
        BY Zenon, <1>11, <4>1, <4>2
    <3>5. ASSUME NEW e \in 0..d-1 PROVE bucket'[Probe(t[i].name, e)] # 0
      <4>1. e \in Nat /\ bucket[Probe(t[i].name, e)] # 0
        BY <3>2
      <4>2. Probe(t[i].name, e) \in 0..NBucket-1
        BY Zenon, <3>3, <4>1
      <4> QED
        BY Zenon, <1>11, <4>1, <4>2
    <3> QED
      BY <3>4, <3>5
  <2> QED
    BY Zenon, <2>1, <2>2
<1>13. ASSUME NEW i \in 1..m, NEW k \in 1..m, t[i].name = t[k].name PROVE i = k
  <2>1. \A x \in 1..m : x \in 1..nindexed \/ x = m
    BY <1>2 DEF m
  <2> QED
    BY <1>9, <1>13, <2>1 DEF IndexInv, n
<1>14. \A i \in 1..m : t[i].name \in Names
  BY <1>1, <1>2, <1>3
<1> QED
  BY SMTT(20), <1>1, <1>5, <1>10, <1>12, <1>13, <1>14 DEF IndexInv

-----------------------------------------------------------------------------
(* Where the tensors come from.                                            *)

Tensors == [name : Names, shard : Nat, dtype : Dtypes, shape : Seq(Nat), off : Nat,
            nbytes : Int]

\* src says which entry of which of the first k shards each tensor is; every
\* such entry is one.
Sources(src, k) ==
    /\ src \in [1..Len(t) -> (1..k) \X Nat]
    /\ \A i \in 1..Len(t) :
         /\ src[i][2] \in DOMAIN dir[src[i][1]].entries
         /\ t[i] = Tensor(src[i][1], dir[src[i][1]].entries[src[i][2]])
    /\ \A s \in 1..k : \A j \in DOMAIN dir[s].entries :
         \E i \in 1..Len(t) : src[i] = <<s, j>>

\* The first k shards are scanned.
Scanned(k) ==
    /\ k \in 0..Len(dir)
    /\ fd \in [DOMAIN dir -> BOOLEAN] /\ \A i \in DOMAIN dir : fd[i] <=> i <= k
    /\ dfd \in [DOMAIN dir -> BOOLEAN] /\ \A i \in DOMAIN dir : dfd[i] => i <= k
    /\ \A i \in 1..k : ShardOK(dir[i])
    /\ t \in Seq(Tensors)
    /\ \E src : Sources(src, k)

\* The inductive invariant of the reader.
CkInv ==
    /\ dir \in Seq(Shards) /\ fnv1a \in [Names -> Nat]
    /\ pc \in {"closed", "scan", "index", "open"}
    /\ os = Recorded
    /\ pc = "closed" => fd = <<>> /\ dfd = <<>>
    /\ pc = "scan" => nindexed = 0 /\ \E k \in 0..Len(dir) : Scanned(k)
    /\ pc \in {"index", "open"} => Scanned(Len(dir)) /\ IndexInv
    /\ pc = "open" => nindexed = Len(t)

\* The shard scanned next.
LEMMA NextShard ==
    ASSUME dir \in Seq(Shards), NEW k \in 0..Len(dir), Scanned(k)
    PROVE  Shard = k + 1
<1>1. Len(dir) \in Nat /\ DOMAIN dir = 1..Len(dir) /\ k \in Nat /\ k <= Len(dir)
  BY SeqElement
<1>2. DOMAIN fd = 1..Len(dir) /\ \A i \in 1..Len(dir) : fd[i] <=> i <= k
  BY Zenon, <1>1 DEF Scanned
<1>3. {i \in DOMAIN fd : fd[i]} = 1..k
  <2>1. \A i : i \in 1..Len(dir) /\ i <= k <=> i \in 1..k
    BY <1>1
  <2> QED
    BY Zenon, <1>2, <2>1
<1>4. 1 \in Int /\ k \in Int
  BY <1>1
<1>5. Cardinality(1..k) = IF 1 > k THEN 0 ELSE k - 1 + 1
  BY Zenon, <1>4, FS_Interval
<1>6. Cardinality(1..k) = k
  BY <1>1, <1>5
<1>7. Shard = 1 + k
  BY Zenon, <1>3, <1>6 DEF Shard
<1> QED
  BY <1>1, <1>7

\* An entry of a shard, and its tensor.
LEMMA EntryTensor ==
    ASSUME dir \in Seq(Shards), NEW s \in 1..Len(dir), NEW j \in DOMAIN dir[s].entries
    PROVE  /\ dir[s] \in Shards
           /\ DOMAIN dir[s].entries = 1..Len(dir[s].entries) /\ j \in Nat
           /\ Tensor(s, dir[s].entries[j]) \in Tensors
           /\ Tensor(s, dir[s].entries[j]).name = dir[s].entries[j].name
           /\ Tensor(s, dir[s].entries[j]).shard = s
<1>1. dir[s] \in Shards /\ s \in Nat
  BY SeqElement
<1>2. dir[s].entries \in Seq(HeaderEntries) /\ dir[s].hlen \in Nat
  BY Zenon, <1>1 DEF Shards
<1>3. /\ DOMAIN dir[s].entries = 1..Len(dir[s].entries) /\ j \in Nat
      /\ dir[s].entries[j] \in HeaderEntries
  BY Zenon, <1>2, SeqElement
<1> DEFINE e == dir[s].entries[j]
           h == dir[s].hlen
<1> HIDE DEF e, h
<1>4. /\ e.name \in Names /\ e.dtype \in Dtypes /\ e.shape \in Seq(Nat)
      /\ e.o0 \in Nat /\ e.o1 \in Nat /\ h \in Nat
  BY Zenon, <1>2, <1>3 DEF HeaderEntries, e, h
<1>5. (8 + h) + e.o0 \in Nat /\ e.o1 - e.o0 \in Int
  BY SMTT(20), <1>4
<1>6. Tensor(s, e) = [name |-> e.name, shard |-> s, dtype |-> e.dtype, shape |-> e.shape,
                      off |-> (8 + h) + e.o0, nbytes |-> e.o1 - e.o0]
  BY Zenon DEF Tensor, Base, h
<1>7. /\ Tensor(s, e) \in Tensors /\ Tensor(s, e).name = e.name /\ Tensor(s, e).shard = s
  BY SMTT(20), <1>1, <1>4, <1>5, <1>6 DEF Tensors
<1> QED
  BY Zenon, <1>1, <1>3, <1>7 DEF e

\* Scanning a shard lists its entries behind the others.
LEMMA ScanLists ==
    ASSUME dir \in Seq(Shards), NEW k \in 0..Len(dir), Scanned(k), k < Len(dir),
           dir' = dir,
           t' = t \o [j \in DOMAIN dir[k + 1].entries |-> Tensor(k + 1, dir[k + 1].entries[j])]
    PROVE  t' \in Seq(Tensors) /\ (\E src : Sources(src, k + 1))'
<1> DEFINE es == dir[k + 1].entries
           new == [j \in DOMAIN es |-> Tensor(k + 1, es[j])]
<1>1. k + 1 \in 1..Len(dir) /\ k \in Nat /\ Len(dir) \in Nat
  OBVIOUS
<1>2. dir[k + 1] \in Shards
  BY <1>1
<1>3. Len(es) \in Nat /\ DOMAIN es = 1..Len(es)
  BY SMTT(20), <1>2 DEF Shards
<1>4. \A j \in 1..Len(es) : Tensor(k + 1, es[j]) \in Tensors
  BY Zenon, <1>1, <1>3, EntryTensor
<1>5. new \in Seq(Tensors) /\ Len(new) = Len(es) /\ t \in Seq(Tensors)
  BY <1>3, <1>4 DEF Scanned
<1>6. PICK src : Sources(src, k)
  BY DEF Scanned
<1> HIDE DEF es
<1>7. \A j \in 1..Len(es) : new[j] = Tensor(k + 1, es[j])
  BY Zenon, <1>3
<1>8. t' = t \o new
  BY DEF es
<1> HIDE DEF new
<1>9. /\ Len(t) \in Nat /\ t' \in Seq(Tensors) /\ Len(t') = Len(t) + Len(es)
      /\ \A i \in 1..Len(t') : t'[i] = IF i <= Len(t) THEN t[i] ELSE new[i - Len(t)]
  <2>1. Len(t) \in Nat
    BY <1>5
  <2>2. /\ t \o new \in Seq(Tensors) /\ Len(t \o new) = Len(t) + Len(new)
        /\ \A i \in 1..Len(t \o new) :
              (t \o new)[i] = IF i <= Len(t) THEN t[i] ELSE new[i - Len(t)]
    BY Zenon, <1>5, Behind
  <2> QED
    BY Zenon, <1>5, <1>8, <2>1, <2>2
<1>0. PICK to : to = [i \in 1..Len(t') |->
                         IF i <= Len(t) THEN src[i] ELSE <<k + 1, i - Len(t)>>]
  BY Zenon
<1>10. \A i \in 1..Len(t') : to[i] = IF i <= Len(t) THEN src[i] ELSE <<k + 1, i - Len(t)>>
  BY Zenon, <1>0
<1>11. to = [i \in 1..Len(t') |-> to[i]]
  BY Zenon, <1>0
<1>12. ASSUME NEW i \in 1..Len(t')
       PROVE  /\ to[i] \in (1..k+1) \X Nat
              /\ to[i][2] \in DOMAIN dir[to[i][1]].entries
              /\ t'[i] = Tensor(to[i][1], dir[to[i][1]].entries[to[i][2]])
  <2>0. /\ i <= Len(t) => i \in 1..Len(t)
        /\ ~(i <= Len(t)) => i - Len(t) \in 1..Len(es)
    <3>1. Len(t) \in Nat /\ Len(es) \in Nat /\ Len(t') = Len(t) + Len(es)
      BY Zenon, <1>3, <1>9
    <3> QED
      BY <3>1
  <2>1. CASE i <= Len(t)
    <3>1. i \in 1..Len(t) /\ to[i] = src[i] /\ t'[i] = t[i]
      BY Zenon, <1>9, <1>10, <2>0, <2>1
    <3>2. src[i] \in (1..k) \X Nat
      BY Zenon, <1>6, <3>1 DEF Sources
    <3>3. src[i] \in (1..k+1) \X Nat
      BY <1>1, <3>2
    <3> QED
      BY Zenon, <1>6, <3>1, <3>3 DEF Sources
  <2>2. CASE ~(i <= Len(t))
    <3>1. i - Len(t) \in 1..Len(es) /\ to[i] = <<k + 1, i - Len(t)>>
      BY Zenon, <1>10, <2>0, <2>2
    <3>2. t'[i] = Tensor(k + 1, es[i - Len(t)])
      BY Zenon, <1>7, <1>9, <2>2, <3>1
    <3>3. to[i][1] = k + 1 /\ to[i][2] = i - Len(t) /\ to[i] \in (1..k+1) \X Nat
      BY SMTT(20), <1>1, <3>1
    <3> QED
      BY Zenon, <1>3, <3>1, <3>2, <3>3 DEF es
  <2> QED
    BY Zenon, <2>1, <2>2
<1>13. ASSUME NEW s \in 1..k+1, NEW j \in DOMAIN dir[s].entries
       PROVE  \E i \in 1..Len(t') : to[i] = <<s, j>>
  <2>1. CASE s = k + 1
    <3>1. j \in 1..Len(es)
      BY Zenon, <1>3, <2>1 DEF es
    <3>2. Len(t) + j \in 1..Len(t') /\ ~(Len(t) + j <= Len(t)) /\ (Len(t) + j) - Len(t) = j
      BY SMTT(20), <1>3, <1>9, <3>1
    <3>3. to[Len(t) + j] = <<k + 1, j>>
      BY Zenon, <1>10, <3>2
    <3> QED
      BY Zenon, <2>1, <3>2, <3>3
  <2>2. CASE s # k + 1
    <3>1. s \in 1..k
      BY <1>1, <2>2
    <3>2. PICK i \in 1..Len(t) : src[i] = <<s, j>>
      BY Zenon, <1>6, <3>1 DEF Sources
    <3>3. i \in 1..Len(t') /\ i <= Len(t)
      BY <1>3, <1>9
    <3> QED
      BY Zenon, <1>10, <3>2, <3>3
  <2> QED
    BY Zenon, <2>1, <2>2
<1>14. to \in [1..Len(t') -> (1..k+1) \X Nat]
  BY Zenon, <1>11, <1>12
<1>15. \A s, e : Tensor(s, e)' = Tensor(s, e)
  BY Zenon DEF Tensor
<1>16. Sources(to, k + 1)'
  BY Zenon, <1>12, <1>13, <1>14, <1>15 DEF Sources
<1> QED
  BY Zenon, <1>9, <1>16

\* A directory that is not open has nothing recorded.
LEMMA NoneRecorded ==
    ASSUME fd = <<>>, dfd = <<>>
    PROVE  Recorded = {}
<1>1. DOMAIN fd = {} /\ DOMAIN dfd = {}
  OBVIOUS
<1> QED
  BY Zenon, <1>1 DEF Recorded

\* The start.
LEMMA CkStart ==
    ASSUME BindInit
    PROVE  CkInv
<1>1. /\ dir \in Dirs /\ fnv1a \in Hashes /\ pc = "closed" /\ fd = <<>> /\ dfd = <<>>
      /\ os = {}
  BY Zenon DEF BindInit, Init
<1>2. dir \in Seq(Shards) /\ fnv1a \in [Names -> Nat]
  BY Zenon, <1>1, CheckpointAssumption
<1>3. Recorded = {}
  BY Zenon, <1>1, NoneRecorded
<1> QED
  BY <1>1, <1>2, <1>3 DEF CkInv

\* The teardown, wherever the open failed, and the close.
LEMMA CkClose ==
    ASSUME CkInv, Close, UNCHANGED dirVars
    PROVE  CkInv'
<1>1. /\ os' = {} /\ pc' = "closed" /\ fd' = <<>> /\ dfd' = <<>>
      /\ dir' = dir /\ fnv1a' = fnv1a
  BY Zenon DEF CkInv, Close, dirVars
<1>2. Recorded' = {}
  <2>1. DOMAIN fd' = {} /\ DOMAIN dfd' = {}
    BY <1>1
  <2> QED
    BY Zenon, <2>1 DEF Recorded
<1> QED
  BY <1>1, <1>2 DEF CkInv

\* The files are listed.
LEMMA CkOpenDir ==
    ASSUME CkInv, OpenDir
    PROVE  CkInv'
<1>1. /\ pc = "closed" /\ pc' = "scan" /\ t' = <<>> /\ nindexed' = 0
      /\ fd' = [i \in DOMAIN dir |-> FALSE] /\ dfd' = [i \in DOMAIN dir |-> FALSE]
      /\ dir' = dir /\ fnv1a' = fnv1a /\ os' = os
  BY Zenon DEF OpenDir, dirVars
<1>2. /\ dir \in Seq(Shards) /\ fnv1a \in [Names -> Nat] /\ os = Recorded
      /\ fd = <<>> /\ dfd = <<>>
  <2>1. pc = "closed"
    BY Zenon, <1>1
  <2> QED
    BY Zenon, <2>1 DEF CkInv
<1>3. Recorded = {}
  BY Zenon, <1>2, NoneRecorded
<1>4. Recorded' = {}
  <2>1. {j \in DOMAIN fd' : fd'[j]} = {} /\ {j \in DOMAIN dfd' : dfd'[j]} = {}
    BY Zenon, <1>1
  <2> QED
    BY Zenon, <2>1 DEF Recorded
<1>5. Len(dir) \in Nat /\ DOMAIN dir = 1..Len(dir)
  BY <1>2, SeqElement
<1>6. Scanned(0)'
  <2>1. /\ 0 \in 0..Len(dir) /\ 1..0 = {}
        /\ \A i \in DOMAIN dir : ~(i <= 0)
    BY <1>5
  <2>2. fd' \in [DOMAIN dir -> BOOLEAN] /\ \A i \in DOMAIN dir : fd'[i] <=> i <= 0
    BY Zenon, <1>1, <2>1
  <2>3. dfd' \in [DOMAIN dir -> BOOLEAN] /\ \A i \in DOMAIN dir : ~dfd'[i]
    BY Zenon, <1>1
  <2>4. t' \in Seq(Tensors) /\ Len(t') = 0
    BY <1>1
  <2>5. \E src : src \in [1..0 -> (1..0) \X Nat]
    <3>1. [i \in 1..0 |-> <<0, 0>>] \in [1..0 -> (1..0) \X Nat]
      BY Zenon, <2>1
    <3> QED
      BY Zenon, <3>1
  <2>6. PICK src : src \in [1..0 -> (1..0) \X Nat]
    BY Zenon, <2>5
  <2>7. Sources(src, 0)'
    BY Zenon, <2>1, <2>4, <2>6 DEF Sources
  <2> QED
    BY Zenon, <1>1, <2>1, <2>2, <2>3, <2>4, <2>7 DEF Scanned
<1>7. 0 \in 0..Len(dir')
  BY <1>1, <1>5
<1>8. \E k \in 0..Len(dir') : Scanned(k)'
  BY Zenon, <1>6, <1>7
<1> QED
  BY Zenon, <1>1, <1>2, <1>3, <1>4, <1>8 DEF CkInv

\* A shard is scanned.
LEMMA CkScanShard ==
    ASSUME CkInv, ScanShard
    PROVE  CkInv'
<1>1. /\ dir \in Seq(Shards) /\ fnv1a \in [Names -> Nat] /\ os = Recorded
      /\ pc = "scan" /\ nindexed = 0
      /\ \E k \in 0..Len(dir) : Scanned(k)
  BY Zenon DEF CkInv, ScanShard
<1>2. PICK k \in 0..Len(dir) : Scanned(k)
  BY Zenon, <1>1
<1>3. Shard = k + 1
  BY Zenon, <1>1, <1>2, NextShard
<1>4. PICK direct \in BOOLEAN :
         /\ dfd' = [dfd EXCEPT ![Shard] = direct]
         /\ os' = os \union {<<"fd", Shard>>}
                  \union IF direct THEN {<<"dfd", Shard>>} ELSE {}
  BY Zenon DEF ScanShard
<1>5. /\ k + 1 <= Len(dir) /\ ShardOK(dir[k + 1])
      /\ t' = t \o [j \in DOMAIN dir[k + 1].entries |-> Tensor(k + 1, dir[k + 1].entries[j])]
      /\ fd' = [fd EXCEPT ![k + 1] = TRUE]
      /\ dir' = dir /\ fnv1a' = fnv1a /\ pc' = pc /\ nindexed' = nindexed
  BY Zenon, <1>3 DEF ScanShard, dirVars
<1>6. /\ Len(dir) \in Nat /\ DOMAIN dir = 1..Len(dir) /\ k \in Nat /\ k < Len(dir)
      /\ k + 1 \in DOMAIN dir /\ k + 1 \in 0..Len(dir)
      /\ \A i \in 1..k+1 : i \in 1..k \/ i = k + 1
      /\ \A i \in DOMAIN dir : i <= k + 1 <=> i <= k \/ i = k + 1
  BY <1>1, <1>5, SeqElement
<1>7. /\ fd \in [DOMAIN dir -> BOOLEAN] /\ dfd \in [DOMAIN dir -> BOOLEAN]
      /\ \A i \in DOMAIN dir : fd[i] <=> i <= k
      /\ \A i \in DOMAIN dir : dfd[i] => i <= k
      /\ \A i \in 1..k : ShardOK(dir[i])
  BY Zenon, <1>2 DEF Scanned
<1>8. ~(k + 1 <= k)
  BY <1>6
<1>9. t' \in Seq(Tensors) /\ (\E src : Sources(src, k + 1))'
  BY Zenon, <1>1, <1>2, <1>5, <1>6, ScanLists
<1>10. /\ fd' \in [DOMAIN dir -> BOOLEAN] /\ DOMAIN fd' = DOMAIN dir
       /\ \A i \in DOMAIN dir : fd'[i] <=> fd[i] \/ i = k + 1
  BY Zenon, <1>5, <1>6, <1>7
<1>11. /\ dfd' \in [DOMAIN dir -> BOOLEAN] /\ DOMAIN dfd' = DOMAIN dir
       /\ \A i \in DOMAIN dir : dfd'[i] <=> dfd[i] \/ (i = k + 1 /\ direct)
  <2>1. dfd' = [dfd EXCEPT ![k + 1] = direct] /\ ~dfd[k + 1]
    BY Zenon, <1>3, <1>4, <1>6, <1>7, <1>8
  <2> QED
    BY Zenon, <1>6, <1>7, <2>1
<1>12. \A i : ShardOK(dir[i])' = ShardOK(dir[i])
  BY Zenon, <1>5 DEF ShardOK, Base, Scans, EntryOK
<1>13. Scanned(k + 1)'
  <2>1. \A i \in DOMAIN dir : fd'[i] <=> i <= k + 1
    BY Zenon, <1>6, <1>7, <1>10
  <2>2. \A i \in DOMAIN dir : dfd'[i] => i <= k + 1
    BY Zenon, <1>6, <1>7, <1>11
  <2>3. \A i \in 1..k+1 : ShardOK(dir[i])'
    BY Zenon, <1>5, <1>6, <1>7, <1>12
  <2> QED
    BY Zenon, <1>5, <1>6, <1>9, <1>10, <1>11, <2>1, <2>2, <2>3 DEF Scanned
<1>14. os' = Recorded'
  <2>1. {j \in DOMAIN fd' : fd'[j]} = {j \in DOMAIN fd : fd[j]} \union {k + 1}
    BY Zenon, <1>6, <1>7, <1>10
  <2>2. {j \in DOMAIN dfd' : dfd'[j]}
        = {j \in DOMAIN dfd : dfd[j]} \union IF direct THEN {k + 1} ELSE {}
    BY Zenon, <1>6, <1>7, <1>11
  <2> DEFINE F == {j \in DOMAIN fd : fd[j]}
             D == {j \in DOMAIN dfd : dfd[j]}
  <2>3. os = {<<"fd", i>> : i \in F} \union {<<"dfd", i>> : i \in D}
    BY Zenon, <1>1 DEF Recorded
  <2>4. Recorded' = {<<"fd", i>> : i \in F \union {k + 1}}
                    \union {<<"dfd", i>> : i \in D \union IF direct THEN {k + 1} ELSE {}}
    BY Zenon, <2>1, <2>2 DEF Recorded
  <2>5. os' = os \union {<<"fd", k + 1>>} \union IF direct THEN {<<"dfd", k + 1>>} ELSE {}
    BY Zenon, <1>3, <1>4
  <2> HIDE DEF F, D
  <2> QED
    BY Zenon, <2>3, <2>4, <2>5
<1>15. \E m \in 0..Len(dir') : Scanned(m)'
  BY Zenon, <1>5, <1>6, <1>13
<1> QED
  BY Zenon, <1>1, <1>5, <1>14, <1>15 DEF CkInv

\* What was scanned is not touched later.
LEMMA ScanStays ==
    ASSUME Scanned(Len(dir)), dir' = dir, t' = t, fd' = fd, dfd' = dfd
    PROVE  Scanned(Len(dir))'
<1>1. PICK src : Sources(src, Len(dir))
  BY Zenon DEF Scanned
<1>2. \A s, e : Tensor(s, e)' = Tensor(s, e)
  BY Zenon DEF Tensor
<1>3. Sources(src, Len(dir))'
  BY Zenon, <1>1, <1>2 DEF Sources
<1>4. \A i : ShardOK(dir[i])' = ShardOK(dir[i])
  BY Zenon DEF ShardOK, Base, Scans, EntryOK
<1> QED
  BY Zenon, <1>3, <1>4 DEF Scanned

\* The index is allocated, empty.
LEMMA CkMakeIndex ==
    ASSUME CkInv, MakeIndex
    PROVE  CkInv'
<1>1. /\ dir \in Seq(Shards) /\ fnv1a \in [Names -> Nat] /\ os = Recorded
      /\ pc = "scan" /\ nindexed = 0 /\ Shard > Len(dir)
      /\ \E k \in 0..Len(dir) : Scanned(k)
  BY Zenon DEF CkInv, MakeIndex
<1>2. /\ bucket' = [j \in 0..NBucket - 1 |-> 0] /\ pc' = "index"
      /\ dir' = dir /\ fnv1a' = fnv1a /\ t' = t /\ nindexed' = nindexed
      /\ fd' = fd /\ dfd' = dfd /\ os' = os
  BY Zenon DEF MakeIndex, dirVars
<1>3. PICK k \in 0..Len(dir) : Scanned(k)
  BY Zenon, <1>1
<1>4. Shard = k + 1
  BY Zenon, <1>1, <1>3, NextShard
<1>5. Scanned(Len(dir))
  <2>1. Len(dir) \in Nat
    BY Zenon, <1>1, SeqElement
  <2>2. k = Len(dir)
    BY <1>1, <1>4, <2>1
  <2> QED
    BY Zenon, <1>3, <2>2
<1>6. Scanned(Len(dir))'
  BY Zenon, <1>2, <1>5, ScanStays
<1>7. t \in Seq(Tensors) /\ Len(t) \in Nat
  BY Zenon, <1>5, SeqElement DEF Scanned
<1>8. NBucket' = NBucket
  BY <1>2 DEF NBucket
<1>9. Table'
  <2>1. /\ bucket' \in [0..NBucket-1 -> 0..0] /\ \A a \in 0..NBucket-1 : bucket'[a] = 0
    BY <1>2
  <2>2. nindexed' = 0 /\ 0 \in 0..Len(t)
    BY <1>1, <1>2, <1>7
  <2> QED
    BY Zenon, <1>1, <1>2, <1>7, <1>8, <2>1, <2>2 DEF Table
<1>10. 1..nindexed' = {}
  BY <1>1, <1>2
<1>11. IndexInv'
  BY Zenon, <1>9, <1>10 DEF IndexInv
<1>12. Recorded' = Recorded
  BY Zenon, <1>2 DEF Recorded
<1> QED
  BY <1>1, <1>2, <1>6, <1>11, <1>12 DEF CkInv

\* A tensor is put into the index.
LEMMA CkInsert ==
    ASSUME CkInv, Insert
    PROVE  CkInv'
<1>1. /\ dir \in Seq(Shards) /\ fnv1a \in [Names -> Nat] /\ os = Recorded
      /\ pc = "index" /\ Scanned(Len(dir)) /\ IndexInv
  BY DEF CkInv, Insert
<1>2. /\ dir' = dir /\ fnv1a' = fnv1a /\ pc' = pc /\ t' = t /\ fd' = fd /\ dfd' = dfd
      /\ os' = os
  BY Zenon DEF Insert, dirVars
<1>3. \A i \in 1..Len(t) : t[i].name \in Names
  <2>1. t \in Seq(Tensors)
    BY Zenon, <1>1 DEF Scanned
  <2>2. \A i \in 1..Len(t) : t[i] \in Tensors
    BY Zenon, <2>1, SeqElement
  <2> QED
    BY Zenon, <2>2 DEF Tensors
<1>4. IndexInv'
  BY Zenon, <1>1, <1>3, InsertKeeps
<1>5. Scanned(Len(dir))'
  BY Zenon, <1>1, <1>2, ScanStays
<1>6. Recorded' = Recorded
  BY Zenon, <1>2 DEF Recorded
<1> QED
  BY Zenon, <1>1, <1>2, <1>4, <1>5, <1>6 DEF CkInv

\* The index stays what it is while its parts do.
LEMMA IndexStays ==
    ASSUME IndexInv, fnv1a' = fnv1a, t' = t, nindexed' = nindexed, bucket' = bucket
    PROVE  IndexInv'
<1>1. NBucket' = NBucket
  BY Zenon DEF NBucket
<1>2. \A n, d : Probe(n, d)' = Probe(n, d)
  BY Zenon, <1>1 DEF Probe
<1>3. Table'
  BY Zenon, <1>1 DEF IndexInv, Table
<1> QED
  BY Zenon, <1>2, <1>3 DEF IndexInv

\* The open is done.
LEMMA CkOpened ==
    ASSUME CkInv, Opened
    PROVE  CkInv'
<1>1. /\ dir \in Seq(Shards) /\ fnv1a \in [Names -> Nat] /\ os = Recorded
      /\ pc = "index" /\ Scanned(Len(dir)) /\ IndexInv /\ nindexed = Len(t)
  BY DEF CkInv, Opened
<1>2. /\ dir' = dir /\ fnv1a' = fnv1a /\ pc' = "open" /\ t' = t /\ fd' = fd /\ dfd' = dfd
      /\ os' = os /\ nindexed' = nindexed /\ bucket' = bucket
  BY Zenon DEF Opened, dirVars
<1>3. IndexInv' /\ Scanned(Len(dir))'
  BY Zenon, <1>1, <1>2, IndexStays, ScanStays
<1>4. Recorded' = Recorded
  BY Zenon, <1>2 DEF Recorded
<1> QED
  BY <1>1, <1>2, <1>3, <1>4 DEF CkInv

\* What leaves the reader alone keeps its invariant: an expert load, a bind,
\* the end of one.
LEMMA CkStays ==
    ASSUME CkInv, UNCHANGED <<dirVars, stVars>>
    PROVE  CkInv'
<1>1. /\ dir' = dir /\ fnv1a' = fnv1a /\ pc' = pc /\ t' = t /\ fd' = fd /\ dfd' = dfd
      /\ os' = os /\ nindexed' = nindexed /\ bucket' = bucket
  BY Zenon DEF dirVars, stVars
<1>2. IndexInv => IndexInv'
  BY Zenon, <1>1, IndexStays
<1>3. Scanned(Len(dir)) => Scanned(Len(dir))'
  BY Zenon, <1>1, ScanStays
<1>4. ASSUME NEW k \in 0..Len(dir), Scanned(k)
      PROVE  Scanned(k)'
  <2>1. PICK src : Sources(src, k)
    BY Zenon, <1>4 DEF Scanned
  <2>2. \A s, e : Tensor(s, e)' = Tensor(s, e)
    BY Zenon, <1>1 DEF Tensor
  <2>3. Sources(src, k)'
    BY Zenon, <1>1, <2>1, <2>2 DEF Sources
  <2>4. \A i : ShardOK(dir[i])' = ShardOK(dir[i])
    BY Zenon, <1>1 DEF ShardOK, Base, Scans, EntryOK
  <2> QED
    BY Zenon, <1>1, <1>4, <2>3, <2>4 DEF Scanned
<1>5. Recorded' = Recorded
  BY Zenon, <1>1 DEF Recorded
<1>6. (\E k \in 0..Len(dir) : Scanned(k)) => (\E k \in 0..Len(dir) : Scanned(k))'
  BY Zenon, <1>1, <1>4
<1> QED
  BY Zenon, <1>1, <1>2, <1>3, <1>5, <1>6 DEF CkInv

\* Every step.
LEMMA CkStep ==
    ASSUME CkInv, [BindNext]_bindVars
    PROVE  CkInv'
<1>1. CASE OpenDir
  BY Zenon, <1>1, CkOpenDir
<1>2. CASE ScanShard
  BY Zenon, <1>2, CkScanShard
<1>3. CASE MakeIndex
  BY Zenon, <1>3, CkMakeIndex
<1>4. CASE Insert
  BY Zenon, <1>4, CkInsert
<1>5. CASE Opened
  BY Zenon, <1>5, CkOpened
<1>6. CASE ScanFails \/ IndexFails \/ InsertDuplicate \/ CloseDir
  <2>1. Close /\ UNCHANGED dirVars
    BY Zenon, <1>6 DEF ScanFails, IndexFails, InsertDuplicate, CloseDir, dirVars
  <2> QED
    BY Zenon, <2>1, CkClose
<1>7. CASE UNCHANGED <<dirVars, stVars>>
  BY Zenon, <1>7, CkStays
<1>8. ASSUME \E e \in DOMAIN Experts : LoadExpert(e) PROVE UNCHANGED <<dirVars, stVars>>
  BY Zenon, <1>8 DEF LoadExpert
<1>9. ASSUME BindModel \/ \E kind \in Kinds : BindLayer(kind) \/ \E run \in Runs : BindMem(kind, run)
      PROVE  UNCHANGED <<dirVars, stVars>>
  BY Zenon, <1>9 DEF BindModel, BindLayer, BindPlan, BindMem
<1>10. ASSUME Done \/ UNCHANGED bindVars PROVE UNCHANGED <<dirVars, stVars>>
  BY Zenon, <1>10 DEF Done, bindVars, ckVars
<1> QED
  BY Zenon, <1>1, <1>2, <1>3, <1>4, <1>5, <1>6, <1>7, <1>8, <1>9, <1>10
     DEF BindNext, CheckpointNext

\* However an open fails, whichever shard or allocation it fails at, and
\* after a close, no descriptor is left: what is open is always what the
\* struct records, and the one teardown goes by that.
THEOREM NothingIsLeftOpen ==
    BindSpec => []NothingLeft
<1>1. BindInit => CkInv
  BY CkStart
<1>2. CkInv /\ [BindNext]_bindVars => CkInv'
  BY CkStep
<1>3. CkInv => NothingLeft
  BY Zenon, NoneRecorded DEF CkInv, NothingLeft
<1> QED
  BY <1>1, <1>2, <1>3, PTL DEF BindSpec

\* An entry is among those of its name.
LEMMA EntryIn ==
    ASSUME NEW s \in DOMAIN dir, NEW j \in DOMAIN dir[s].entries
    PROVE  <<s, j>> \in Entries(dir[s].entries[j].name)
<1> DEFINE n == dir[s].entries[j].name
           E(i) == {<<i, k>> : k \in {k \in DOMAIN dir[i].entries : dir[i].entries[k].name = n}}
<1>1. j \in {k \in DOMAIN dir[s].entries : dir[s].entries[k].name = n}
  BY Zenon
<1>2. <<s, j>> \in E(s)
  BY Zenon, <1>1
<1>3. Entries(n) = UNION {E(i) : i \in DOMAIN dir}
  BY Zenon DEF Entries
<1> HIDE DEF E
<1> QED
  BY Zenon, <1>2, <1>3

\* In an open directory a name finds the one tensor that carries it.
LEMMA FindInOpen ==
    ASSUME CkInv, pc = "open", NEW n \in Names
    PROVE  IF Entries(n) = {} THEN Find(n) = 0
           ELSE \E ij \in Entries(n) :
                  /\ Entries(n) = {ij} /\ Find(n) # 0
                  /\ t[Find(n)] = Tensor(ij[1], dir[ij[1]].entries[ij[2]])
                  /\ t[Find(n)].off + t[Find(n)].nbytes <= dir[ij[1]].fsize
<1>1. /\ dir \in Seq(Shards) /\ Scanned(Len(dir)) /\ IndexInv /\ nindexed = Len(t)
  BY DEF CkInv
<1>2. PICK src : Sources(src, Len(dir))
  BY Zenon, <1>1 DEF Scanned
<1>3. DOMAIN dir = 1..Len(dir)
  BY <1>1, SeqElement
<1>4. ASSUME NEW s \in DOMAIN dir, NEW j \in DOMAIN dir[s].entries
      PROVE  \E i \in 1..Len(t) : /\ src[i] = <<s, j>>
                                  /\ t[i] = Tensor(s, dir[s].entries[j])
                                  /\ t[i].name = dir[s].entries[j].name
  <2>1. PICK i \in 1..Len(t) : src[i] = <<s, j>>
    BY Zenon, <1>2, <1>3 DEF Sources
  <2>2. src[i][1] = s /\ src[i][2] = j
    BY <2>1
  <2>3. t[i] = Tensor(s, dir[s].entries[j])
    BY Zenon, <1>2, <2>2 DEF Sources
  <2>4. Tensor(s, dir[s].entries[j]).name = dir[s].entries[j].name
    BY Zenon, <1>1, <1>3, EntryTensor
  <2> QED
    BY Zenon, <2>1, <2>3, <2>4
<1>5. CASE Entries(n) = {}
  <2>1. ASSUME NEW i \in 1..Len(t) PROVE t[i].name # n
    <3>1. /\ src[i] \in (1..Len(dir)) \X Nat
          /\ src[i][2] \in DOMAIN dir[src[i][1]].entries
          /\ t[i] = Tensor(src[i][1], dir[src[i][1]].entries[src[i][2]])
      BY Zenon, <1>2 DEF Sources
    <3> DEFINE s == src[i][1]
               j == src[i][2]
    <3>2. s \in 1..Len(dir)
      BY <3>1
    <3>3. j \in DOMAIN dir[s].entries /\ t[i] = Tensor(s, dir[s].entries[j])
      BY Zenon, <3>1
    <3> HIDE DEF s, j
    <3>4. t[i].name = dir[s].entries[j].name
      BY Zenon, <1>1, <3>2, <3>3, EntryTensor
    <3>5. <<s, j>> \in Entries(dir[s].entries[j].name)
      BY Zenon, <1>3, <3>2, <3>3, EntryIn
    <3> QED
      BY Zenon, <1>5, <3>4, <3>5
  <2> QED
    BY Zenon, <1>1, <1>5, <2>1, FindAbsent
<1>6. CASE Entries(n) # {}
  <2>0. PICK s \in DOMAIN dir : \E j \in DOMAIN dir[s].entries : dir[s].entries[j].name = n
    BY Zenon, <1>6 DEF Entries
  <2>1. PICK j \in DOMAIN dir[s].entries : dir[s].entries[j].name = n
    BY Zenon, <2>0
  <2>2. PICK i \in 1..Len(t) : /\ src[i] = <<s, j>> /\ t[i] = Tensor(s, dir[s].entries[j])
                               /\ t[i].name = n
    BY Zenon, <1>4, <2>1
  <2>3. Find(n) = i /\ i # 0
    <3>1. Find(t[i].name) = i
      BY Zenon, <1>1, FindPresent
    <3> QED
      BY <2>2, <3>1
  <2>4. ASSUME NEW ij \in Entries(n) PROVE ij = <<s, j>>
    <3>0. PICK u \in DOMAIN dir : \E v \in DOMAIN dir[u].entries :
             dir[u].entries[v].name = n /\ ij = <<u, v>>
      BY Zenon DEF Entries
    <3>1. PICK v \in DOMAIN dir[u].entries : dir[u].entries[v].name = n /\ ij = <<u, v>>
      BY Zenon, <3>0
    <3>2. PICK h \in 1..Len(t) : src[h] = <<u, v>> /\ t[h].name = n
      BY Zenon, <1>4, <3>1
    <3>3. h = i
      BY Zenon, <1>1, <2>2, <3>2 DEF IndexInv
    <3> QED
      BY Zenon, <2>2, <3>1, <3>2, <3>3
  <2>5. <<s, j>> \in Entries(n)
    BY Zenon, <2>1, EntryIn
  <2>6. Entries(n) = {<<s, j>>}
    BY Zenon, <2>4, <2>5
  <2>7. EntryOK(dir[s], dir[s].entries[j])
    BY Zenon, <1>1, <1>3 DEF Scanned, ShardOK
  <2>8. t[i].off + t[i].nbytes <= dir[s].fsize
    <3> DEFINE e == dir[s].entries[j]
               b == Base(dir[s])
    <3>1. dir[s] \in Shards
      BY Zenon, <1>1, <1>3, SeqElement
    <3>2. dir[s].entries \in Seq(HeaderEntries) /\ dir[s].hlen \in Nat /\ dir[s].fsize \in Nat
      BY Zenon, <3>1 DEF Shards
    <3>3. e \in HeaderEntries
      BY Zenon, <3>2, SeqElement
    <3> HIDE DEF e
    <3>4. e.o0 \in Nat /\ e.o1 \in Nat
      BY Zenon, <3>3 DEF HeaderEntries
    <3>5. b \in Nat
      BY SMTT(20), <3>2 DEF Base
    <3> HIDE DEF b
    <3>6. t[i].off = b + e.o0 /\ t[i].nbytes = e.o1 - e.o0
      BY <2>2 DEF Tensor, e, b
    <3>7. b + e.o1 <= dir[s].fsize
      BY Zenon, <2>7 DEF EntryOK, e, b
    <3>8. (b + e.o0) + (e.o1 - e.o0) = b + e.o1
      BY SMTT(20), <3>4, <3>5
    <3> QED
      BY Zenon, <3>6, <3>7, <3>8
  <2>9. <<s, j>>[1] = s /\ <<s, j>>[2] = j
    BY Zenon
  <2> QED
    BY Zenon, <1>6, <2>2, <2>3, <2>5, <2>6, <2>8, <2>9
<1> QED
  BY Zenon, <1>5, <1>6

\* For every directory of any number of shards, every hash function and
\* every least table size: once the directory is open, find returns the one
\* tensor of a name in the whole directory, with all its bytes inside its
\* file, and nothing for a name no shard has.
THEOREM FindIsExact ==
    BindSpec => []FindExact
<1>1. BindInit => CkInv
  BY CkStart
<1>2. CkInv /\ [BindNext]_bindVars => CkInv'
  BY CkStep
<1>3. CkInv => FindExact
  <2> SUFFICES ASSUME CkInv, pc = "open", NEW n \in DOMAIN fnv1a
               PROVE  IF Entries(n) = {} THEN Find(n) = 0
                      ELSE \E ij \in Entries(n) :
                             /\ Entries(n) = {ij} /\ Find(n) # 0
                             /\ t[Find(n)] = Tensor(ij[1], dir[ij[1]].entries[ij[2]])
                             /\ t[Find(n)].off + t[Find(n)].nbytes <= dir[ij[1]].fsize
    BY Zenon DEF FindExact
  <2>1. n \in Names
    BY Zenon DEF CkInv
  <2> QED
    BY Zenon, <2>1, FindInOpen
<1> QED
  BY <1>1, <1>2, <1>3, PTL DEF BindSpec

-----------------------------------------------------------------------------
(* The bytes of an expert.                                                 *)

\* g is the table of the sums that Own forms of the tensors q.
Sums(q, n, g) == g = [i \in 0..n |-> IF i = 0 THEN 0 ELSE g[i - 1] + q[i].nbytes]

\* There is one for every length.
LEMMA SumsExist ==
    ASSUME NEW q, NEW n \in Nat
    PROVE  \E g : Sums(q, n, g)
<1> DEFINE S == {j \in Nat : ~\E g : Sums(q, j, g)}
<1> SUFFICES ASSUME S # {} PROVE FALSE
  OBVIOUS
<1>1. S \in SUBSET Nat
  OBVIOUS
<1>2. PICK m \in S : \A j \in S : m <= j
  BY Zenon, <1>1, LeastNatural
<1>3. m \in Nat /\ ~\E g : Sums(q, m, g)
  BY <1>2
<1>4. CASE m = 0
  <2> DEFINE g == [i \in 0..m |-> 0]
  <2>1. Sums(q, m, g)
    BY <1>4 DEF Sums
  <2> QED
    BY Zenon, <1>3, <2>1
<1>5. CASE m # 0
  <2>1. m - 1 \in Nat /\ m - 1 \notin S
    BY <1>2, <1>3, <1>5
  <2>2. PICK h : Sums(q, m - 1, h)
    BY Zenon, <2>1
  <2> DEFINE g == [i \in 0..m |-> IF i = m THEN h[m - 1] + q[m].nbytes ELSE h[i]]
  <2>3. ASSUME NEW i \in 0..m
        PROVE  g[i] = IF i = 0 THEN 0 ELSE g[i - 1] + q[i].nbytes
    <3>1. CASE i = m
      <4>1. m - 1 \in 0..m /\ m - 1 # m /\ m \in 0..m
        BY <1>3, <1>5
      <4>2. g[m - 1] = h[m - 1] /\ g[m] = h[m - 1] + q[m].nbytes
        BY Zenon, <4>1
      <4> QED
        BY Zenon, <1>5, <3>1, <4>2
    <3>2. CASE i # m
      <4>1. i \in 0..m-1 /\ (i # 0 => i - 1 \in 0..m /\ i - 1 # m)
        BY <1>3, <3>2
      <4>2. h[i] = IF i = 0 THEN 0 ELSE h[i - 1] + q[i].nbytes
        BY Zenon, <2>2, <4>1 DEF Sums
      <4>3. g[i] = h[i] /\ (i # 0 => g[i - 1] = h[i - 1])
        BY Zenon, <3>2, <4>1
      <4> QED
        BY Zenon, <4>2, <4>3
    <3> QED
      BY Zenon, <3>1, <3>2
  <2>4. g = [i \in 0..m |-> g[i]]
    BY Zenon
  <2> HIDE DEF g
  <2>5. Sums(q, m, g)
    BY Zenon, <2>3, <2>4 DEF Sums
  <2> QED
    BY Zenon, <1>3, <2>5
<1> QED
  BY Zenon, <1>4, <1>5

\* What a table of sums holds.
LEMMA SumSteps ==
    ASSUME NEW q, NEW n \in Nat, NEW g, Sums(q, n, g)
    PROVE  g[0] = 0 /\ \A i \in 1..n : g[i] = g[i - 1] + q[i].nbytes
<1>1. 0 \in 0..n /\ \A i \in 1..n : i \in 0..n /\ i # 0
  OBVIOUS
<1> QED
  BY Zenon, <1>1 DEF Sums

\* Own is the last of them.
LEMMA OwnIs ==
    ASSUME NEW q, Len(q) \in Nat
    PROVE  \E g : Sums(q, Len(q), g) /\ Own(q) = g[Len(q)]
<1> DEFINE g == CHOOSE f : f = [i \in 0..Len(q) |-> IF i = 0 THEN 0
                                                    ELSE f[i - 1] + q[i].nbytes]
<1>1. Own(q) = g[Len(q)]
  BY Zenon DEF Own, FoldInOrder
<1>2. Sums(q, Len(q), g)
  BY Zenon, SumsExist DEF Sums
<1> QED
  BY Zenon, <1>1, <1>2

\* With no negative span the sums are naturals and grow.
LEMMA SumsGrow ==
    ASSUME NEW q, NEW n \in Nat, NEW g, Sums(q, n, g), \A i \in 1..n : q[i].nbytes \in Nat
    PROVE  \A i \in 0..n : g[i] \in Nat /\ \A j \in 0..i : g[j] <= g[i]
<1>1. g[0] = 0 /\ \A i \in 1..n : g[i] = g[i - 1] + q[i].nbytes
  BY Zenon, SumSteps
<1> DEFINE S == {i \in 0..n : ~(g[i] \in Nat /\ \A j \in 0..i : g[j] <= g[i])}
<1> SUFFICES ASSUME S # {} PROVE FALSE
  BY Zenon
<1>2. S \in SUBSET Nat
  OBVIOUS
<1>3. PICK m \in S : \A j \in S : m <= j
  BY Zenon, <1>2, LeastNatural
<1>4. m \in 0..n /\ ~(g[m] \in Nat /\ \A j \in 0..m : g[j] <= g[m])
  BY Zenon, <1>3
<1>5. m # 0
  BY SMTT(20), <1>1, <1>4
<1>6. m - 1 \in 0..n /\ m - 1 \notin S /\ m \in 1..n
  BY <1>3, <1>4, <1>5
<1>7. g[m - 1] \in Nat /\ \A j \in 0..m-1 : g[j] <= g[m - 1]
  BY Zenon, <1>6
<1>8. g[m] = g[m - 1] + q[m].nbytes /\ q[m].nbytes \in Nat
  BY Zenon, <1>1, <1>6
<1>9. g[m] \in Nat /\ g[m - 1] <= g[m]
  BY <1>7, <1>8
<1>10. ASSUME NEW j \in 0..m PROVE g[j] <= g[m]
  <2>1. CASE j = m
    BY SMTT(20), <1>9, <2>1
  <2>2. CASE j # m
    <3>1. j \in 0..m-1 /\ j \in 0..n /\ ~(m <= j)
      BY <1>4, <2>2
    <3>2. g[j] <= g[m - 1] /\ j \notin S
      BY Zenon, <1>3, <1>7, <3>1
    <3>3. g[j] \in Nat
      BY Zenon, <3>1, <3>2
    <3> QED
      BY SMTT(20), <1>7, <1>9, <3>2, <3>3
  <2> QED
    BY Zenon, <2>1, <2>2
<1> QED
  BY Zenon, <1>4, <1>9, <1>10

\* Whatever the running totals of q and of p, they agree at m.
Agree(q, n, p, m) ==
    \A g, h : Sums(q, n, g) /\ Sums(p, m, h) => h[m] = g[m]

\* The sums of a prefix are the sums of the whole.
LEMMA SumsAgree ==
    ASSUME NEW q, NEW p, NEW n \in Nat, NEW m \in 0..n,
           \A i \in 1..m : p[i] = q[i]
    PROVE  Agree(q, n, p, m)
<1> SUFFICES ASSUME NEW g, NEW h, Sums(q, n, g), Sums(p, m, h)
             PROVE  h[m] = g[m]
  BY Zenon DEF Agree
<1>1. g[0] = 0 /\ \A i \in 1..n : g[i] = g[i - 1] + q[i].nbytes
  BY Zenon, SumSteps
<1>0. m \in Nat
  OBVIOUS
<1>2. h[0] = 0 /\ \A i \in 1..m : h[i] = h[i - 1] + p[i].nbytes
  BY Zenon, <1>0, SumSteps
<1> DEFINE S == {i \in 0..m : h[i] # g[i]}
<1> SUFFICES ASSUME S # {} PROVE FALSE
  OBVIOUS
<1>3. S \in SUBSET Nat
  OBVIOUS
<1>4. PICK k \in S : \A j \in S : k <= j
  BY Zenon, <1>3, LeastNatural
<1>5. k \in 0..m /\ h[k] # g[k]
  BY <1>4
<1>6. k # 0
  BY Zenon, <1>1, <1>2, <1>5
<1>7. k - 1 \in 0..m /\ k - 1 \notin S /\ k \in 1..m /\ k \in 1..n
  BY <1>4, <1>5, <1>6
<1>8. h[k - 1] = g[k - 1]
  BY Zenon, <1>7
<1> QED
  BY Zenon, <1>1, <1>2, <1>5, <1>7, <1>8

\* The elements of a matrix.
LEMMA MatrixNumel ==
    ASSUME NEW y, y.shape \in Seq(Nat), Len(y.shape) = 2
    PROVE  Numel(y) \in Nat
<1> DEFINE a == y.shape[1]
           b == y.shape[2]
           P(f) == f = [i \in 0..Len(y.shape) |-> IF i = 0 THEN 1 ELSE f[i - 1] * y.shape[i]]
           g == CHOOSE f : P(f)
           h == [i \in 0..2 |-> IF i = 0 THEN 1 ELSE IF i = 1 THEN 1 * a ELSE (1 * a) * b]
<1>1. a \in Nat /\ b \in Nat
  OBVIOUS
<1>2. Numel(y) = g[2]
  BY Zenon DEF Numel, FoldInOrder
<1>3. ASSUME NEW i \in 0..2
      PROVE  h[i] = IF i = 0 THEN 1 ELSE h[i - 1] * y.shape[i]
  <2>1. i = 0 \/ i = 1 \/ i = 2
    OBVIOUS
  <2>2. 0 \in 0..2 /\ 1 \in 0..2 /\ 2 \in 0..2 /\ 1 - 1 = 0 /\ 2 - 1 = 1 /\ 1 # 0 /\ 2 # 0 /\ 2 # 1
    OBVIOUS
  <2>3. h[0] = 1 /\ h[1] = 1 * a /\ h[2] = (1 * a) * b
    BY Zenon, <2>2
  <2> QED
    BY Zenon, <2>1, <2>2, <2>3
<1>4. h = [i \in 0..2 |-> h[i]]
  BY Zenon
<1> HIDE DEF h
<1>5. P(h)
  BY Zenon, <1>3, <1>4
<1>6. P(g)
  BY Zenon, <1>5
<1> HIDE DEF g
<1>7. /\ g[0] = 1 /\ g[1] = g[0] * a /\ g[2] = g[1] * b
  <2>1. 0 \in 0..2 /\ 1 \in 0..2 /\ 2 \in 0..2 /\ 1 - 1 = 0 /\ 2 - 1 = 1 /\ 1 # 0 /\ 2 # 0
    OBVIOUS
  <2>2. g = [i \in 0..2 |-> IF i = 0 THEN 1 ELSE g[i - 1] * y.shape[i]]
    BY Zenon, <1>6
  <2> HIDE DEF P
  <2>3. /\ g[0] = 1 /\ g[1] = g[1 - 1] * y.shape[1] /\ g[2] = g[2 - 1] * y.shape[2]
    BY Zenon, <2>1, <2>2
  <2> QED
    BY Zenon, <2>1, <2>3
<1> HIDE DEF P, a, b
<1>8. g[1] \in Nat
  BY <1>1, <1>7
<1>9. g[2] \in Nat
  BY <1>1, <1>7, <1>8
<1> QED
  BY Zenon, <1>2, <1>9

\* What a name that is found leads to: a tensor with its bytes inside its
\* shard, as many as a byte matrix has elements.
LEMMA FoundTensor ==
    ASSUME CkInv, pc = "open", NEW n \in Names, Find(n) # 0, NEW y, y = t[Find(n)]
    PROVE  /\ y \in Tensors /\ y.shard \in DOMAIN dir
           /\ dir[y.shard].fsize \in Nat /\ y.off + y.nbytes <= dir[y.shard].fsize
           /\ y.dtype = "U8" /\ Len(y.shape) = 2 => y.nbytes \in Nat
<1>1. PICK ij \in Entries(n) : /\ y = Tensor(ij[1], dir[ij[1]].entries[ij[2]])
                               /\ y.off + y.nbytes <= dir[ij[1]].fsize
  BY Zenon, FindInOpen
<1>2. PICK s \in DOMAIN dir : \E j \in DOMAIN dir[s].entries : ij = <<s, j>>
  BY Zenon DEF Entries
<1>3. PICK j \in DOMAIN dir[s].entries : ij = <<s, j>>
  BY Zenon, <1>2
<1>4. ij[1] = s /\ ij[2] = j
  BY <1>3
<1> DEFINE e == dir[s].entries[j]
<1>5. y = Tensor(s, e) /\ y.off + y.nbytes <= dir[s].fsize
  BY Zenon, <1>1, <1>4
<1>6. dir \in Seq(Shards) /\ DOMAIN dir = 1..Len(dir) /\ Scanned(Len(dir))
  BY SeqElement DEF CkInv
<1>7. y \in Tensors /\ y.shard = s
  <2>1. Tensor(s, e) \in Tensors /\ Tensor(s, e).shard = s
    BY Zenon, <1>6, EntryTensor
  <2> HIDE DEF e
  <2> QED
    BY Zenon, <1>5, <2>1
<1>8. dir[s] \in Shards
  BY Zenon, <1>6, SeqElement
<1>9. dir[s].fsize \in Nat
  BY Zenon, <1>8 DEF Shards
<1>10. EntryOK(dir[s], e)
  BY Zenon, <1>6 DEF Scanned, ShardOK
<1> HIDE DEF e
<1>11. y.nbytes = e.o1 - e.o0 /\ y.dtype = e.dtype /\ y.shape = e.shape
  BY <1>5 DEF Tensor
<1>12. y.nbytes = Numel(e) * ElemSize(e.dtype)
  BY Zenon, <1>10, <1>11 DEF EntryOK
<1>13. ASSUME y.dtype = "U8", Len(y.shape) = 2 PROVE y.nbytes \in Nat
  <2>1. y.shape \in Seq(Nat)
    BY Zenon, <1>7 DEF Tensors
  <2>2. Numel(e) \in Nat
    BY Zenon, <1>11, <1>13, <2>1, MatrixNumel
  <2>3. ElemSize(e.dtype) = 1
    BY Zenon, <1>11, <1>13 DEF ElemSize
  <2> QED
    BY <1>12, <2>2, <2>3
<1> QED
  BY Zenon, <1>5, <1>7, <1>9, <1>13

\* The six tensors of an expert the loader accepts.
LEMMA ExpertParts ==
    ASSUME CkInv, pc = "open", NEW e \in DOMAIN Experts, RefOK(e), NEW x, x = Parts(e)
    PROVE  /\ x \in Seq(Tensors) /\ Len(x) = 6 /\ DOMAIN x = 1..6
           /\ x[1].shard \in DOMAIN dir /\ dir[x[1].shard].fsize \in Nat
           /\ \A j \in 1..6 : /\ x[j].shard = x[1].shard /\ x[j].off \in Nat
                              /\ x[j].nbytes \in Nat
                              /\ x[j].off + x[j].nbytes <= dir[x[1].shard].fsize
<1>1. /\ \A j \in 1..6 : /\ Find(Experts[e][j]) # 0 /\ x[j].dtype = "U8"
                         /\ Len(x[j].shape) = 2 /\ x[j].shard = x[1].shard
  BY Zenon DEF RefOK
<1>2. \A j \in 1..6 : Experts[e][j] \in Names
  <2>1. Experts \in Seq([1..6 -> Names])
    BY Zenon, CheckpointAssumption
  <2>2. DOMAIN Experts = 1..Len(Experts) /\ \A i \in 1..Len(Experts) : Experts[i] \in [1..6 -> Names]
    BY Zenon, <2>1, SeqElement
  <2> QED
    BY Zenon, <2>2
<1>3. x = [j \in 1..6 |-> t[Find(Experts[e][j])]]
  BY Zenon DEF Parts
<1>4. DOMAIN x = 1..6 /\ \A j \in 1..6 : x[j] = t[Find(Experts[e][j])]
  BY Zenon, <1>3
<1>5. \A j \in 1..6 : /\ x[j] \in Tensors /\ x[j].shard \in DOMAIN dir
                      /\ dir[x[j].shard].fsize \in Nat
                      /\ x[j].off + x[j].nbytes <= dir[x[j].shard].fsize
                      /\ x[j].nbytes \in Nat
  BY Zenon, <1>1, <1>2, <1>4, FoundTensor
<1>6. 1 \in 1..6
  OBVIOUS
<1>7. x = [j \in 1..6 |-> x[j]]
  BY Zenon, <1>3
<1>8. [j \in 1..6 |-> x[j]] \in Seq(Tensors) /\ Len([j \in 1..6 |-> x[j]]) = 6
  BY <1>5
<1>9. x \in Seq(Tensors) /\ Len(x) = 6
  BY Zenon, <1>7, <1>8
<1>10. \A j \in 1..6 : x[j].off \in Nat
  BY Zenon, <1>5 DEF Tensors
<1> QED
  BY Zenon, <1>1, <1>4, <1>5, <1>6, <1>9, <1>10

\* The lowest offset and the end of six spans of one file.
LEMMA RunEnds ==
    ASSUME NEW x, DOMAIN x = 1..6, NEW F \in Nat,
           \A j \in 1..6 : /\ x[j].off \in Nat /\ x[j].nbytes \in Nat
                           /\ x[j].off + x[j].nbytes <= F
    PROVE  /\ Lo(x) \in Nat /\ Hi(x) \in Nat
           /\ \A j \in 1..6 : Lo(x) <= x[j].off /\ x[j].off + x[j].nbytes <= Hi(x)
<1> DEFINE A == {x[j].off : j \in DOMAIN x}
           B == {x[j].off + x[j].nbytes : j \in DOMAIN x}
           C == {F - b : b \in B}
<1>0. 1 \in 1..6
  OBVIOUS
<1>1. A \in SUBSET Nat /\ A # {}
  BY Zenon, <1>0
<1>2. \E m \in A : \A k \in A : m <= k
  BY Zenon, <1>1, LeastNatural
<1>3. Lo(x) \in A /\ \A k \in A : Lo(x) <= k
  BY Zenon, <1>2 DEF Lo, Min
<1>4. \A j \in 1..6 : x[j].off + x[j].nbytes \in Nat /\ F - (x[j].off + x[j].nbytes) \in Nat
  <2> SUFFICES ASSUME NEW j \in 1..6
               PROVE  x[j].off + x[j].nbytes \in Nat /\ F - (x[j].off + x[j].nbytes) \in Nat
    BY Zenon
  <2>1. x[j].off \in Nat /\ x[j].nbytes \in Nat /\ x[j].off + x[j].nbytes <= F
    BY Zenon
  <2> QED
    BY <2>1
<1>5. B \in SUBSET Nat /\ B # {} /\ \A b \in B : F - b \in Nat
  BY Zenon, <1>0, <1>4
<1> HIDE DEF B
<1>6. C \in SUBSET Nat /\ C # {}
  BY Zenon, <1>5
<1>7. PICK c \in C : \A k \in C : c <= k
  BY Zenon, <1>6, LeastNatural
<1>8. PICK m \in B : c = F - m
  BY Zenon
<1>9. ASSUME NEW b \in B PROVE m >= b
  <2>1. F - m <= F - b
    BY Zenon, <1>7, <1>8
  <2>2. m \in Nat /\ b \in Nat
    BY Zenon, <1>5
  <2> QED
    BY <2>1, <2>2
<1>10. Hi(x) \in B /\ \A b \in B : Hi(x) >= b
  <2>1. Hi(x) = Max(B)
    BY Zenon DEF Hi, B
  <2> QED
    BY Zenon, <1>9, <2>1 DEF Max
<1>11. Lo(x) \in Nat /\ Hi(x) \in Nat
  BY Zenon, <1>1, <1>3, <1>5, <1>10
<1>12. ASSUME NEW j \in 1..6 PROVE Lo(x) <= x[j].off /\ x[j].off + x[j].nbytes <= Hi(x)
  <2>1. x[j].off \in A /\ x[j].off + x[j].nbytes \in B
    BY Zenon DEF B
  <2> DEFINE b == x[j].off + x[j].nbytes
  <2>2. b \in B /\ b \in Nat
    BY Zenon, <1>5, <2>1
  <2> HIDE DEF b
  <2>3. Hi(x) >= b
    BY Zenon, <1>10, <2>2
  <2>4. b <= Hi(x)
    BY Zenon, <1>11, <2>2, <2>3
  <2> QED
    BY Zenon, <1>3, <2>1, <2>4 DEF b
<1> QED
  BY Zenon, <1>11, <1>12

\* The window starts at or before the payload.
LEMMA WindowStart ==
    ASSUME NEW o \in Nat
    PROVE  WindowLo(o) \in Nat /\ PayloadOff(o) \in Nat /\ WindowLo(o) + PayloadOff(o) = o
<1>1. Align \in Nat \ {0}
  BY Zenon, AlignAssumption
<1> DEFINE w == (o \div Align) * Align
<1>2. o \div Align \in Nat /\ o % Align \in Nat /\ o = Align * (o \div Align) + (o % Align)
  BY <1>1
<1>3. w \in Nat /\ w <= o
  BY <1>1, <1>2
<1>4. WindowLo(o) = w /\ PayloadOff(o) = o - w
  BY Zenon DEF WindowLo, PayloadOff, AlignDown
<1> HIDE DEF w
<1> QED
  BY <1>3, <1>4

\* Rounding up.
LEMMA RoundsUp ==
    ASSUME NEW n \in Nat
    PROVE  AlignUp(n) \in Nat /\ n <= AlignUp(n)
<1>1. Align \in Nat \ {0} /\ n + Align - 1 \in Nat
  BY AlignAssumption
<1> DEFINE y == n + Align - 1
           q == y \div Align
<1> HIDE DEF y
<1>2. y \in Nat
  BY Zenon, <1>1 DEF y
<1>3. q \in Nat /\ y % Align \in 0..Align-1 /\ y = Align * q + (y % Align)
  BY SMTT(20), <1>1, <1>2
<1> HIDE DEF q
<1>4. Align * q \in Nat /\ Align * q > y - Align /\ q * Align = Align * q
  BY <1>1, <1>2, <1>3
<1>5. AlignUp(n) = q * Align
  BY Zenon DEF AlignUp, q, y
<1>6. n = y - Align + 1
  BY <1>1 DEF y
<1> QED
  BY SMTT(20), <1>1, <1>2, <1>4, <1>5, <1>6

\* The read r of nb bytes at o has them all in its window.
Filled(o, nb, cap, d, r) ==
    /\ r.pad = IF d THEN PayloadOff(o) ELSE 0
    /\ r.got \in Nat /\ r.got >= r.pad + nb /\ r.got <= cap

\* Byte k of the part j is where fill_q looks for it.
PartAt(x, j, k, r) ==
    /\ r.pad + PartOff(x)[j] + k \in DOMAIN r.buf
    /\ r.buf[r.pad + PartOff(x)[j] + k] = <<x[j].shard, x[j].off + k>>

\* A read that returns all of the payload has filled the buffer to its end.
LEMMA WholeRead ==
    ASSUME NEW o \in Nat, NEW nb \in Nat \ {0}, NEW cap \in Nat, NEW F \in Nat, NEW d \in BOOLEAN,
           NEW r
    PROVE  r \in ReadAligned(o, nb, cap, F, d) /\ r.ret = nb => Filled(o, nb, cap, d, r)
<1> HAVE r \in ReadAligned(o, nb, cap, F, d) /\ r.ret = nb
<1> DEFINE len == IF d THEN WindowLen(o, nb) ELSE nb
           lo == IF d THEN WindowLo(o) ELSE o
           pad == IF d THEN PayloadOff(o) ELSE 0
           avail == IF F - lo < len THEN F - lo ELSE len
           res(g) == [ret |-> IF d THEN Covered(nb, pad, g) ELSE g, pad |-> pad, got |-> g]
<1>1. /\ WindowLo(o) \in Nat /\ PayloadOff(o) \in Nat
      /\ WindowLen(o, nb) \in Int
  <2>1. o + nb \in Nat
    OBVIOUS
  <2>2. AlignUp(o + nb) \in Nat
    BY Zenon, <2>1, RoundsUp
  <2> QED
    BY <2>2, WindowStart DEF WindowLen
<1>2. len \in Int /\ lo \in Nat /\ pad \in Nat
  BY <1>1
<1>3. r \in IF len > cap THEN {[ret |-> 0, pad |-> 0, got |-> 0]} ELSE {res(g) : g \in 0..avail}
  BY Zenon DEF ReadAligned
<1> HIDE DEF len, lo, pad
<1>4. avail \in Int /\ avail <= len
  BY <1>2
<1> HIDE DEF avail
<1>5. ~(len > cap)
  <2>1. SUFFICES ASSUME len > cap PROVE FALSE
    BY Zenon
  <2>2. r = [ret |-> 0, pad |-> 0, got |-> 0]
    BY Zenon, <1>3, <2>1
  <2> QED
    BY <2>2
<1>6. PICK g \in 0..avail : r = res(g)
  BY Zenon, <1>3, <1>5
<1>7. r.ret = (IF d THEN Covered(nb, pad, g) ELSE g) /\ r.pad = pad /\ r.got = g
  BY <1>6
<1>8. g \in Nat /\ g <= cap
  BY <1>2, <1>4, <1>5
<1>9. g >= pad + nb
  <2>1. CASE d
    <3>1. Covered(nb, pad, g) = nb
      BY Zenon, <1>7, <2>1
    <3> QED
      BY <1>2, <1>8, <3>1 DEF Covered
  <2>2. CASE ~d
    <3>1. g = nb /\ pad = 0
      BY Zenon, <1>7, <2>2 DEF pad
    <3> QED
      BY <3>1
  <2> QED
    BY Zenon, <2>1, <2>2
<1> QED
  BY Zenon, <1>7, <1>8, <1>9 DEF pad, Filled

\* One read of the run, all of it: every part is where it is looked for.
LEMMA RunWhole ==
    ASSUME CkInv, pc = "open", NEW e \in DOMAIN Experts, RefOK(e), NEW x, x = Parts(e),
           NEW cap \in Nat, Contiguous(x), NEW r \in LoadRun(x, cap), r.ret = Own(x),
           NEW j \in 1..6, NEW k \in 0..x[j].nbytes-1
    PROVE  PartAt(x, j, k, r)
<1> SUFFICES /\ r.pad + PartOff(x)[j] + k \in DOMAIN r.buf
             /\ r.buf[r.pad + PartOff(x)[j] + k] = <<x[j].shard, x[j].off + k>>
  BY Zenon DEF PartAt
<1> DEFINE sh == x[1].shard
           F == dir[sh].fsize
           d == dfd[sh]
           nb == Own(x)
           b == Lo(x)
           lo == IF d THEN WindowLo(b) ELSE b
           m == x[j].nbytes
           o == x[j].off
           bytes(g) == [i \in 0..cap - 1 |-> IF i < g THEN <<sh, lo + i>> ELSE NoByte]
<1>1. /\ DOMAIN x = 1..6 /\ sh \in DOMAIN dir /\ F \in Nat
      /\ \A i \in 1..6 : /\ x[i].shard = sh /\ x[i].off \in Nat /\ x[i].nbytes \in Nat
                         /\ x[i].off + x[i].nbytes <= F
  BY Zenon, ExpertParts
<1>2. d \in BOOLEAN
  <2>1. dfd \in [DOMAIN dir -> BOOLEAN]
    BY DEF CkInv, Scanned
  <2> QED
    BY Zenon, <1>1, <2>1
<1>3. /\ b \in Nat /\ Hi(x) \in Nat /\ b <= o /\ o + m <= Hi(x)
  BY Zenon, <1>1, RunEnds
<1>4. o \in Nat /\ m \in Nat /\ x[j].shard = sh
  BY Zenon, <1>1
<1>5. Hi(x) - b = nb
  BY Zenon DEF Contiguous
<1>6. PICK q \in ReadAligned(b, nb, cap, F, d) :
         r = [ret |-> q.ret, pad |-> q.pad, buf |-> bytes(q.got)]
  BY Zenon DEF LoadRun
<1>7. r.ret = q.ret /\ r.pad = q.pad /\ r.buf = bytes(q.got)
  BY Zenon, <1>6
<1>8. PartOff(x)[j] = o - b
  BY Zenon DEF PartOff
<1> HIDE DEF F, nb, b, m, o, d, sh
<1>9. nb \in Nat \ {0} /\ o + m <= b + nb
  BY <1>3, <1>4, <1>5 DEF m
<1>10. q.ret = nb
  BY Zenon, <1>7 DEF nb
<1>11. /\ q.pad = IF d THEN PayloadOff(b) ELSE 0
       /\ q.got \in Nat /\ q.got >= q.pad + nb /\ q.got <= cap
  <2>1. q \in ReadAligned(b, nb, cap, F, d) /\ q.ret = nb => Filled(b, nb, cap, d, q)
    BY Zenon, <1>1, <1>2, <1>3, <1>9, WholeRead
  <2> QED
    BY Zenon, <1>10, <2>1 DEF Filled
<1>12. lo \in Nat /\ q.pad \in Nat /\ lo + q.pad = b
  <2>1. WindowLo(b) \in Nat /\ PayloadOff(b) \in Nat /\ WindowLo(b) + PayloadOff(b) = b
    BY Zenon, <1>3, WindowStart
  <2> QED
    BY <1>2, <1>3, <1>11, <2>1
<1> HIDE DEF lo
<1>13. k \in 0..m-1
  BY Zenon DEF m
<1> DEFINE i == q.pad + (o - b) + k
<1>14. i \in 0..cap-1 /\ i < q.got /\ lo + i = o + k
  <2> DEFINE pd == q.pad
             gt == q.got
  <2>1. /\ pd \in Nat /\ gt \in Nat /\ gt >= pd + nb /\ gt <= cap /\ lo + pd = b
        /\ i = pd + (o - b) + k
    BY Zenon, <1>11, <1>12
  <2> HIDE DEF pd, gt
  <2>2. /\ nb \in Nat /\ b \in Nat /\ o \in Nat /\ m \in Nat /\ lo \in Nat
        /\ b <= o /\ o + m <= b + nb
    BY Zenon, <1>3, <1>4, <1>9, <1>12
  <2>3. /\ pd + (o - b) + k \in 0..cap-1 /\ pd + (o - b) + k < gt
        /\ lo + (pd + (o - b) + k) = o + k
    BY <1>13, <2>1, <2>2
  <2> QED
    BY Zenon, <2>1, <2>3 DEF gt
<1>15. r.pad + PartOff(x)[j] + k = i
  BY Zenon, <1>7, <1>8
<1> HIDE DEF i
<1>16. DOMAIN r.buf = 0..cap-1 /\ r.buf[i] = <<sh, lo + i>>
  BY Zenon, <1>7, <1>14
<1> QED
  BY Zenon, <1>4, <1>14, <1>15, <1>16 DEF o

\* Six reads, none of them short: every part is where it is looked for.
LEMMA ScatteredWhole ==
    ASSUME CkInv, pc = "open", NEW e \in DOMAIN Experts, RefOK(e), NEW x, x = Parts(e),
           NEW cap \in Nat, Own(x) <= cap, ~Contiguous(x), NEW bad \in 1..6, NEW g \in Int,
           NEW r, r.ret = Own(x),
           NEW j \in 1..6, NEW k \in 0..x[j].nbytes-1
    PROVE  r = LoadScattered(x, cap, bad, g) => PartAt(x, j, k, r)
<1> SUFFICES ASSUME r = LoadScattered(x, cap, bad, g)
             PROVE  /\ r.pad + PartOff(x)[j] + k \in DOMAIN r.buf
                    /\ r.buf[r.pad + PartOff(x)[j] + k] = <<x[j].shard, x[j].off + k>>
  BY Zenon DEF PartAt
<1> DEFINE at == PartOff(x)
           got(i) == IF i = bad THEN g ELSE x[i].nbytes
           part(c) == {i \in 1..6 : c - at[i] \in 0..got(i) - 1}
           byte(c) == IF part(c) = {} THEN NoByte
                      ELSE LET i == Max(part(c)) IN <<x[i].shard, x[i].off + c - at[i]>>
<1>1. /\ x \in Seq(Tensors) /\ Len(x) = 6
      /\ \A i \in 1..6 : /\ x[i].off \in Nat /\ x[i].nbytes \in Nat
  BY Zenon, ExpertParts
<1>2. PICK s : Sums(x, 6, s) /\ Own(x) = s[6]
  <2>1. Len(x) \in Nat
    BY <1>1
  <2> QED
    BY Zenon, <1>1, <2>1, OwnIs
<1>3. /\ s[0] = 0 /\ \A i \in 1..6 : s[i] = s[i - 1] + x[i].nbytes
      /\ \A i \in 0..6 : s[i] \in Nat /\ \A h \in 0..i : s[h] <= s[i]
  <2>1. 6 \in Nat
    OBVIOUS
  <2> QED
    <3>1. /\ s[0] = 0 /\ \A i \in 1..6 : s[i] = s[i - 1] + x[i].nbytes
      BY Zenon, <1>2, <2>1, SumSteps
    <3>2. \A i \in 0..6 : s[i] \in Nat /\ \A h \in 0..i : s[h] <= s[i]
      BY Zenon, <1>1, <1>2, <2>1, SumsGrow
    <3> QED
      BY Zenon, <3>1, <3>2
<1>4. \A i \in 1..6 : at[i] = s[i - 1]
  <2> SUFFICES ASSUME NEW i \in 1..6 PROVE at[i] = s[i - 1]
    BY Zenon
  <2> DEFINE p == SubSeq(x, 1, i - 1)
  <2>1. at[i] = Own(p)
    BY Zenon DEF PartOff
  <2>2. Len(p) = i - 1 /\ \A h \in 1..i-1 : p[h] = x[h]
    BY SMTT(20), <1>1
  <2>3. i - 1 \in 0..6 /\ i - 1 \in Nat /\ 6 \in Nat
    OBVIOUS
  <2> HIDE DEF p
  <2>4. PICK f : Sums(p, i - 1, f) /\ Own(p) = f[i - 1]
    BY Zenon, <2>2, <2>3, OwnIs
  <2>5. f[i - 1] = s[i - 1]
    <3> DEFINE m == i - 1
    <3>1. /\ m \in 0..6 /\ Sums(x, 6, s) /\ Sums(p, m, f) /\ \A h \in 1..m : p[h] = x[h]
      BY Zenon, <1>2, <2>2, <2>3, <2>4
    <3> HIDE DEF m
    <3>2. Agree(x, 6, p, m)
      BY Zenon, <2>3, <3>1, SumsAgree
    <3> QED
      BY Zenon, <3>1, <3>2 DEF m, Agree
  <2> QED
    BY Zenon, <2>1, <2>4, <2>5
<1>5. r = [ret |-> Own(x) - x[bad].nbytes + g, pad |-> 0, buf |-> [c \in 0..cap - 1 |-> byte(c)]]
  BY Zenon DEF LoadScattered
<1>6. /\ r.ret = Own(x) - x[bad].nbytes + g /\ r.pad = 0
      /\ r.buf = [c \in 0..cap - 1 |-> byte(c)]
  <2> DEFINE rr == r  v == Own(x) - x[bad].nbytes + g  b == [c \in 0..cap - 1 |-> byte(c)]
  <2>1. rr = [ret |-> v, pad |-> 0, buf |-> b]
    BY Zenon, <1>5
  <2> HIDE DEF rr, v, b
  <2>2. rr.ret = v /\ rr.pad = 0 /\ rr.buf = b
    BY Zenon, <2>1
  <2> QED
    BY Zenon, <2>2 DEF rr, v, b
<1> HIDE DEF at
<1>7. g = x[bad].nbytes
  <2>1. Own(x) \in Nat /\ x[bad].nbytes \in Nat
    <3>1. 6 \in 0..6
      OBVIOUS
    <3> QED
      BY Zenon, <1>1, <1>2, <1>3, <3>1
  <2>2. Own(x) = Own(x) - x[bad].nbytes + g
    BY Zenon, <1>6
  <2> QED
    BY <2>1, <2>2
<1>8. \A i \in 1..6 : got(i) = x[i].nbytes
  BY Zenon, <1>7
<1> HIDE DEF got
<1> DEFINE c == at[j] + k
<1>9. /\ at[j] \in Nat /\ x[j].nbytes \in Nat /\ at[j] + x[j].nbytes = s[j]
      /\ s[j] \in Nat /\ s[j] <= s[6] /\ s[6] \in Nat
  <2>1. j \in 0..6 /\ j - 1 \in 0..6 /\ 6 \in 0..6 /\ j \in 0..6
    BY SMTT(20)
  <2> QED
    BY Zenon, <1>1, <1>3, <1>4, <2>1
<1>10. c \in 0..cap-1 /\ c \in Nat /\ k \in Nat /\ c - at[j] = k /\ c < s[j]
  BY <1>2, <1>9
<1>11. j \in part(c)
  BY Zenon, <1>8, <1>10
<1>12. ASSUME NEW i \in part(c) PROVE i = j
  <2>1. i \in 1..6 /\ c - at[i] \in 0..x[i].nbytes-1
    BY Zenon, <1>8
  <2>2. /\ s[i] = at[i] + x[i].nbytes /\ at[i] \in Nat /\ x[i].nbytes \in Nat
        /\ at[i] = s[i - 1] /\ at[j] = s[j - 1]
    <3>1. i - 1 \in 0..6
      BY SMTT(20), <2>1
    <3> QED
      BY Zenon, <1>1, <1>3, <1>4, <2>1, <3>1
  <2>3. c >= at[i] /\ c < s[i]
    <3> HIDE DEF c
    <3> QED
      BY <1>10, <2>1, <2>2
  <2>4. i < j => s[i] <= s[j - 1]
    <3>1. i < j => i \in 0..j-1 /\ j - 1 \in 0..6
      BY <2>1
    <3> QED
      BY Zenon, <1>3, <3>1
  <2>5. j < i => s[j] <= s[i - 1]
    <3>1. j < i => j \in 0..i-1 /\ i - 1 \in 0..6
      BY SMTT(20), <2>1
    <3> QED
      BY Zenon, <1>3, <3>1
  <2>6. c >= at[j]
    BY SMTT(20), <1>9, <1>10
  <2> HIDE DEF c
  <2>7. s[i] \in Nat /\ s[j] \in Nat
    BY SMTT(20), <1>9, <2>2
  <2>8. ~(i < j)
    BY SMTT(20), <1>9, <1>10, <2>2, <2>3, <2>4, <2>6, <2>7
  <2>9. ~(j < i)
    BY SMTT(20), <1>9, <1>10, <2>2, <2>3, <2>5, <2>6, <2>7
  <2> QED
    BY SMTT(20), <2>1, <2>8, <2>9
<1>13. part(c) = {j}
  BY Zenon, <1>11, <1>12
<1> HIDE DEF part
<1>14. Max({j}) = j
  BY DEF Max
<1>15. byte(c) = <<x[j].shard, x[j].off + c - at[j]>>
  BY Zenon, <1>13, <1>14
<1>16. x[j].off + c - at[j] = x[j].off + k
  <2> DEFINE o == x[j].off
             a == at[j]
  <2>1. o \in Nat /\ a \in Nat
    BY Zenon, <1>1, <1>9
  <2> HIDE DEF o, a
  <2>2. o + (a + k) - a = o + k
    BY SMTT(20), <1>10, <2>1
  <2> QED
    BY Zenon, <2>2 DEF o, a
<1>17. r.pad + at[j] + k = c
  BY <1>6, <1>9
<1> HIDE DEF c, byte
<1>18. DOMAIN r.buf = 0..cap-1 /\ r.buf[c] = byte(c)
  BY Zenon, <1>6, <1>10
<1> QED
  BY Zenon, <1>10, <1>15, <1>16, <1>17, <1>18 DEF at

\* The bytes of the slots.
LEMMA SlotBytesNat ==
    ASSUME CkInv, pc = "open", NEW e \in DOMAIN Experts, RefOK(e)
    PROVE  SlotBytes \in Nat
<1> DEFINE E == {d \in DOMAIN Experts : RefOK(d)}
<1>1. E \in SUBSET Nat /\ E # {}
  <2>1. Experts \in Seq([1..6 -> Names])
    BY Zenon, CheckpointAssumption
  <2>2. DOMAIN Experts = 1..Len(Experts) /\ \A i \in 1..Len(Experts) : i \in Nat
    BY Zenon, <2>1, SeqElement
  <2> QED
    BY Zenon, <2>2
<1>2. \E m \in E : \A k \in E : m <= k
  BY Zenon, <1>1, LeastNatural
<1>3. Min(E) \in E
  BY Zenon, <1>2 DEF Min
<1> DEFINE d == Min(E)
<1>4. SlotBytes = Own(Parts(d)) /\ d \in DOMAIN Experts /\ RefOK(d)
  BY Zenon, <1>3 DEF SlotBytes
<1> HIDE DEF d
<1> DEFINE x == Parts(d)
<1>5. Len(x) = 6 /\ \A i \in 1..6 : x[i].nbytes \in Nat
  BY Zenon, <1>4, ExpertParts
<1> HIDE DEF x
<1>6. Len(x) \in Nat /\ 6 \in Nat /\ 6 \in 0..6
  BY <1>5
<1>7. PICK s : Sums(x, 6, s) /\ Own(x) = s[6]
  BY Zenon, <1>5, <1>6, OwnIs
<1>8. \A i \in 0..6 : s[i] \in Nat /\ \A h \in 0..i : s[h] <= s[i]
  BY Zenon, <1>5, <1>6, <1>7, SumsGrow
<1> QED
  BY Zenon, <1>4, <1>6, <1>7, <1>8 DEF x

\* An expert load that returns everything.
LEMMA LoadWhole ==
    ASSUME CkInv, NEW e \in DOMAIN Experts, LoadExpert(e)
    PROVE  ExpertWhole'
<1> DEFINE x == Parts(e)
           cap == Stride(SlotBytes)
           scattered == UNION {{LoadScattered(x, cap, bad, g) :
                                g \in {0, x[bad].nbytes - 1, x[bad].nbytes}} : bad \in 1..6}
<1>1. /\ pc = "open" /\ RefOK(e) /\ Own(x) <= SlotBytes
      /\ \E r \in IF Contiguous(x) THEN LoadRun(x, cap) ELSE scattered :
           load' = [x |-> x, ret |-> r.ret, pad |-> r.pad, buf |-> r.buf]
  BY Zenon DEF LoadExpert
<1>2. PICK r \in IF Contiguous(x) THEN LoadRun(x, cap) ELSE scattered :
         load' = [x |-> x, ret |-> r.ret, pad |-> r.pad, buf |-> r.buf]
  BY Zenon, <1>1
<1>3. SlotBytes \in Nat
  BY Zenon, <1>1, SlotBytesNat
<1>4. cap \in Nat /\ SlotBytes <= cap
  <2>1. SlotBytes + 2 * Align \in Nat /\ SlotBytes <= SlotBytes + 2 * Align
    BY <1>3, AlignAssumption
  <2>2. cap \in Nat /\ SlotBytes + 2 * Align <= cap
    BY Zenon, <2>1, RoundsUp DEF Stride
  <2> HIDE DEF cap
  <2> QED
    BY SMTT(20), <1>3, <2>1, <2>2
<1>5. /\ DOMAIN x = 1..6 /\ \A j \in 1..6 : x[j].nbytes \in Nat
      /\ Len(x) = 6
  BY Zenon, <1>1, ExpertParts
<1>6. Own(x) \in Nat
  <2>1. Len(x) \in Nat /\ 6 \in Nat /\ 6 \in 0..6
    BY <1>5
  <2>2. PICK s : Sums(x, 6, s) /\ Own(x) = s[6]
    BY Zenon, <1>5, <2>1, OwnIs
  <2>3. \A i \in 0..6 : s[i] \in Nat /\ \A h \in 0..i : s[h] <= s[i]
    BY Zenon, <1>5, <2>1, <2>2, SumsGrow
  <2> QED
    BY Zenon, <2>1, <2>2, <2>3
<1> HIDE DEF cap
<1>7. Own(x) <= cap
  BY SMTT(20), <1>1, <1>3, <1>4, <1>6
<1> HIDE DEF x
<1>8. load'.x = x /\ load'.ret = r.ret /\ load'.pad = r.pad /\ load'.buf = r.buf
  BY <1>2
<1> SUFFICES ASSUME r.ret = Own(x), NEW j \in 1..6, NEW k \in 0..x[j].nbytes-1
             PROVE  PartAt(x, j, k, r)
  BY Zenon, <1>8 DEF ExpertWhole, PartAt
<1>9. CASE Contiguous(x)
  <2>1. r \in LoadRun(x, cap)
    BY Zenon, <1>2, <1>9
  <2> QED
    BY Zenon, <1>1, <1>4, <1>9, <2>1, RunWhole DEF x
<1>10. CASE ~Contiguous(x)
  <2>1. r \in scattered
    BY Zenon, <1>2, <1>10
  <2>2. PICK bad \in 1..6 : \E g \in {0, x[bad].nbytes - 1, x[bad].nbytes} :
           r = LoadScattered(x, cap, bad, g)
    BY Zenon, <2>1
  <2>3. PICK g \in {0, x[bad].nbytes - 1, x[bad].nbytes} : r = LoadScattered(x, cap, bad, g)
    BY Zenon, <2>2
  <2>4. g \in Int
    <3>1. x[bad].nbytes \in Nat
      BY Zenon, <1>5
    <3> QED
      BY <2>3, <3>1
  <2>5. r = LoadScattered(x, cap, bad, g) => PartAt(x, j, k, r)
    BY Zenon, <1>1, <1>4, <1>7, <1>10, <2>4, ScatteredWhole DEF x
  <2> QED
    BY Zenon, <2>3, <2>5
<1> QED
  BY Zenon, <1>9, <1>10

\* For every directory, alignment and layout of the experts: a load that
\* returns all the bytes its expert was described with has put every packed
\* and scale byte of the six tensors where fill_q points, through the aligned
\* window, in one run, or in six reads.
THEOREM ExpertsAreWhole ==
    BindSpec => []ExpertWhole
<1>1. BindInit => CkInv /\ ExpertWhole
  <2>1. BindInit => ExpertWhole
    BY Zenon DEF BindInit, Init, ExpertWhole
  <2> QED
    BY <2>1, CkStart
<1>2. CkInv /\ ExpertWhole /\ [BindNext]_bindVars => (CkInv /\ ExpertWhole)'
  <2> SUFFICES ASSUME CkInv, ExpertWhole, [BindNext]_bindVars
               PROVE  (CkInv /\ ExpertWhole)'
    OBVIOUS
  <2>1. CkInv'
    BY Zenon, CkStep
  <2>2. CASE \E e \in DOMAIN Experts : LoadExpert(e)
    BY Zenon, <2>1, <2>2, LoadWhole
  <2>3. CASE load' = load \/ load' = NoLoad
    BY Zenon, <2>1, <2>3 DEF ExpertWhole
  <2>4. \/ \E e \in DOMAIN Experts : LoadExpert(e)
        \/ load' = load \/ load' = NoLoad
    BY Zenon DEF BindNext, CheckpointNext, OpenDir, ScanShard, ScanFails, MakeIndex, IndexFails,
         Insert, InsertDuplicate, Opened, CloseDir, BindModel, BindLayer, BindPlan, BindMem,
         Done, bindVars, ckVars
  <2> QED
    BY Zenon, <2>2, <2>3, <2>4
<1> QED
  BY <1>1, <1>2, PTL DEF BindSpec

-----------------------------------------------------------------------------
(* The layout of a bind.                                                   *)

\* One step of plan_resolve (a is narrow_ok) or of k3_bind_layer_mem (a is the
\* packed run), and where each starts.
LayStep(mem, a, p, n) ==
    IF mem THEN (IF p.bad THEN p ELSE MemOne(p, n, a)) ELSE ResolveOne(p, n, a)
LayStart(mem) ==
    IF mem THEN [bad |-> FALSE, i8 |-> FALSE, wideMatrix |-> FALSE, w |-> 0, dest |-> <<>>]
    ELSE [bad |-> FALSE, demoted |-> FALSE, off |-> 0, dest |-> <<>>]

\* g is the table of the plans after each of the first n requests q.
Laid(mem, a, q, n, g) ==
    g = [i \in 0..n |-> IF i = 0 THEN LayStart(mem) ELSE LayStep(mem, a, g[i - 1], q[i])]

\* There is one for every number of requests.
LEMMA LaidExist ==
    ASSUME NEW mem, NEW a, NEW q, NEW n \in Nat
    PROVE  \E g : Laid(mem, a, q, n, g)
<1> DEFINE S == {j \in Nat : ~\E g : Laid(mem, a, q, j, g)}
<1> SUFFICES ASSUME S # {} PROVE FALSE
  OBVIOUS
<1>1. S \in SUBSET Nat
  OBVIOUS
<1>2. PICK m \in S : \A j \in S : m <= j
  BY Zenon, <1>1, LeastNatural
<1>3. m \in Nat /\ ~\E g : Laid(mem, a, q, m, g)
  BY Zenon, <1>2
<1>4. CASE m = 0
  <2> DEFINE g == [i \in 0..m |-> LayStart(mem)]
  <2>1. \A i \in 0..m : i = 0
    BY <1>4
  <2>2. g = [i \in 0..m |-> IF i = 0 THEN LayStart(mem) ELSE LayStep(mem, a, g[i - 1], q[i])]
    BY Zenon, <2>1
  <2> QED
    BY Zenon, <1>3, <2>2 DEF Laid
<1>5. CASE m # 0
  <2>1. m - 1 \in Nat /\ ~(m <= m - 1)
    BY <1>3, <1>5
  <2>2. PICK h : Laid(mem, a, q, m - 1, h)
    BY Zenon, <1>2, <2>1
  <2> DEFINE g == [i \in 0..m |-> IF i = m THEN LayStep(mem, a, h[m - 1], q[m]) ELSE h[i]]
  <2>3. ASSUME NEW i \in 0..m
        PROVE  g[i] = IF i = 0 THEN LayStart(mem) ELSE LayStep(mem, a, g[i - 1], q[i])
    <3>1. CASE i = m
      <4>1. m - 1 \in 0..m /\ m - 1 # m /\ m \in 0..m
        BY <1>3, <1>5
      <4>2. g[m - 1] = h[m - 1] /\ g[m] = LayStep(mem, a, h[m - 1], q[m])
        BY Zenon, <4>1
      <4> QED
        BY Zenon, <1>5, <3>1, <4>2
    <3>2. CASE i # m
      <4>1. i \in 0..m-1 /\ (i # 0 => i - 1 \in 0..m /\ i - 1 # m)
        BY <1>3, <3>2
      <4>2. h[i] = IF i = 0 THEN LayStart(mem) ELSE LayStep(mem, a, h[i - 1], q[i])
        BY Zenon, <2>2, <4>1 DEF Laid
      <4>3. g[i] = h[i] /\ (i # 0 => g[i - 1] = h[i - 1])
        BY Zenon, <3>2, <4>1
      <4> QED
        BY Zenon, <4>2, <4>3
    <3> QED
      BY Zenon, <3>1, <3>2
  <2>4. g = [i \in 0..m |-> g[i]]
    BY Zenon
  <2> HIDE DEF g
  <2>5. Laid(mem, a, q, m, g)
    BY Zenon, <2>3, <2>4 DEF Laid
  <2> QED
    BY Zenon, <1>3, <2>5
<1> QED
  BY Zenon, <1>4, <1>5

\* plan_resolve ends with the last of them.
LEMMA PlanIs ==
    ASSUME NEW q, Len(q) \in Nat, NEW ok
    PROVE  \E g : Laid(FALSE, ok, q, Len(q), g) /\ PlanResolve(q, ok) = g[Len(q)]
<1> DEFINE base == [bad |-> FALSE, demoted |-> FALSE, off |-> 0, dest |-> <<>>]
           F(f) == [i \in 0..Len(q) |-> IF i = 0 THEN base ELSE ResolveOne(f[i - 1], q[i], ok)]
           g == CHOOSE f : f = F(f)
<1>1. PlanResolve(q, ok) = g[Len(q)]
  BY Zenon DEF PlanResolve, FoldInOrder
<1>2. \A f : Laid(FALSE, ok, q, Len(q), f) <=> f = F(f)
  BY Zenon DEF Laid, LayStart, LayStep
<1>3. \E f : f = F(f)
  BY Zenon, <1>2, LaidExist
<1> HIDE DEF F
<1>4. g = F(g)
  BY Zenon, <1>3
<1> QED
  BY Zenon, <1>1, <1>2, <1>4

\* So does the bind from a packed run.
LEMMA MemPlanIs ==
    ASSUME NEW q, Len(q) \in Nat, NEW run
    PROVE  \E g : Laid(TRUE, run, q, Len(q), g) /\ MemPlan(q, run) = g[Len(q)]
<1> DEFINE base == [bad |-> FALSE, i8 |-> FALSE, wideMatrix |-> FALSE, w |-> 0, dest |-> <<>>]
           F(f) == [i \in 0..Len(q) |-> IF i = 0 THEN base
                                        ELSE IF f[i - 1].bad THEN f[i - 1]
                                             ELSE MemOne(f[i - 1], q[i], run)]
           g == CHOOSE f : f = F(f)
<1>1. MemPlan(q, run) = g[Len(q)]
  BY Zenon DEF MemPlan, FoldInOrder
<1>2. \A f : Laid(TRUE, run, q, Len(q), f) <=> f = F(f)
  BY Zenon DEF Laid, LayStart, LayStep
<1>3. \E f : f = F(f)
  BY Zenon, <1>2, LaidExist
<1> HIDE DEF F
<1>4. g = F(g)
  BY Zenon, <1>3
<1> QED
  BY Zenon, <1>1, <1>2, <1>4

\* align8.
LEMMA Rounds8 ==
    ASSUME NEW x \in Nat
    PROVE  Align8(x) \in Nat /\ x <= Align8(x) /\ Align8(x) % 8 = 0
<1> DEFINE k == (x + 7) \div 8
<1>1. k \in Nat /\ x <= k * 8 /\ Align8(x) = k * 8
  BY DEF Align8
<1> HIDE DEF k
<1>2. (k * 8) % 8 = 0 /\ k * 8 \in Nat
  BY <1>1
<1> QED
  BY Zenon, <1>1, <1>2

\* Where the bytes of D[n] end.
EndIn(D, n) == D[n].off + Take(n) * Width(D[n].fmt)

\* The pointers of D into an area are aligned, inside and apart.
Regions(D, area, end) ==
    \A n \in DOMAIN D : D[n].area = area =>
        /\ D[n].off \in Nat /\ D[n].off % 8 = 0
        /\ EndIn(D, n) \in Nat /\ EndIn(D, n) <= end
        /\ \A m \in DOMAIN D \ {n} :
             D[m].area = area => EndIn(D, n) <= D[m].off \/ EndIn(D, m) <= D[n].off

\* The next region of an area starts behind the others.
LEMMA RegionAdded ==
    ASSUME NEW D, NEW area, NEW end \in Nat, Regions(D, area, end), NEW n, Take(n) \in Nat,
           NEW fmt
    PROVE  LET at == Align8(end)
               E  == Point(D, n, [area |-> area, off |-> at, fmt |-> fmt])
               e2 == at + Take(n) * Width(fmt)
           IN  Regions(E, area, e2) /\ e2 \in Nat /\ end <= e2
<1> DEFINE at == Align8(end)
           d == [area |-> area, off |-> at, fmt |-> fmt]
           E == Point(D, n, d)
           e2 == at + Take(n) * Width(fmt)
<1>1. at \in Nat /\ end <= at /\ at % 8 = 0
  BY Zenon, Rounds8
<1>2. d.area = area /\ d.off = at /\ d.fmt = fmt
  OBVIOUS
<1> HIDE DEF d, at
<1>3. /\ DOMAIN E = DOMAIN D \union {n} /\ E[n] = d
      /\ \A m \in DOMAIN D \ {n} : E[m] = D[m]
  BY Zenon DEF Point
<1> HIDE DEF E
<1>4. Width(fmt) \in Nat
  BY DEF Width
<1>5. Take(n) * Width(fmt) \in Nat
  BY <1>4
<1>6. e2 \in Nat /\ end <= e2 /\ at <= e2
  BY <1>1, <1>5
<1>7. EndIn(E, n) = e2
  BY Zenon, <1>3, <1>2 DEF EndIn
<1> HIDE DEF e2
<1>8. \A m \in DOMAIN D \ {n} : EndIn(E, m) = EndIn(D, m)
  BY Zenon, <1>3 DEF EndIn
<1>9. ASSUME NEW m \in DOMAIN D \ {n}, D[m].area = area
      PROVE  /\ D[m].off \in Nat /\ D[m].off % 8 = 0 /\ EndIn(D, m) \in Nat
             /\ EndIn(D, m) <= e2 /\ EndIn(D, m) <= at
  <2>1. /\ D[m].off \in Nat /\ D[m].off % 8 = 0 /\ EndIn(D, m) \in Nat
        /\ EndIn(D, m) <= end
    BY Zenon, <1>9 DEF Regions
  <2>2. EndIn(D, m) <= e2 /\ EndIn(D, m) <= at
    BY <1>1, <1>6, <2>1
  <2> QED
    BY Zenon, <2>1, <2>2
<1>10. Regions(E, area, e2)
  <2> SUFFICES ASSUME NEW k \in DOMAIN E, E[k].area = area
               PROVE  /\ E[k].off \in Nat /\ E[k].off % 8 = 0
                      /\ EndIn(E, k) \in Nat /\ EndIn(E, k) <= e2
                      /\ \A m \in DOMAIN E \ {k} : E[m].area = area =>
                            EndIn(E, k) <= E[m].off \/ EndIn(E, m) <= E[k].off
    BY Zenon DEF Regions
  <2>1. CASE k = n
    <3>1. E[k].off = at /\ EndIn(E, k) = e2
      BY Zenon, <1>3, <1>2, <1>7, <2>1
    <3>2. e2 <= e2
      BY <1>6
    <3>3. ASSUME NEW m \in DOMAIN E \ {k}, E[m].area = area
          PROVE  EndIn(E, m) <= E[k].off
      <4>1. m \in DOMAIN D \ {n}
        BY Zenon, <1>3, <2>1
      <4>2. EndIn(E, m) = EndIn(D, m) /\ D[m].area = area
        BY Zenon, <1>3, <1>8, <3>3, <4>1
      <4> QED
        BY Zenon, <1>9, <3>1, <4>1, <4>2
    <3> QED
      BY Zenon, <1>1, <1>6, <3>1, <3>2, <3>3
  <2>2. CASE k # n
    <3>1. k \in DOMAIN D \ {n}
      BY Zenon, <1>3, <2>2
    <3>2. E[k] = D[k] /\ D[k].area = area /\ EndIn(E, k) = EndIn(D, k)
      BY Zenon, <1>3, <1>8, <2>2, <3>1
    <3>3. ASSUME NEW m \in DOMAIN E \ {k}, E[m].area = area
          PROVE  EndIn(E, k) <= E[m].off \/ EndIn(E, m) <= E[k].off
      <4>1. CASE m = n
        BY Zenon, <1>3, <1>2, <1>9, <3>1, <3>2, <4>1
      <4>2. CASE m # n
        <5>1. m \in DOMAIN D \ {n} /\ m \in DOMAIN D \ {k}
          BY Zenon, <1>3, <4>2
        <5>2. E[m] = D[m] /\ D[m].area = area /\ EndIn(E, m) = EndIn(D, m)
          BY Zenon, <1>3, <1>8, <3>3, <5>1
        <5>3. EndIn(D, k) <= D[m].off \/ EndIn(D, m) <= D[k].off
          BY Zenon, <3>1, <3>2, <5>1, <5>2 DEF Regions
        <5> QED
          BY Zenon, <3>2, <5>2, <5>3
      <4> QED
        BY Zenon, <4>1, <4>2
    <3> QED
      BY Zenon, <1>9, <3>1, <3>2, <3>3
  <2> QED
    BY Zenon, <2>1, <2>2
<1> QED
  BY Zenon, <1>6, <1>10 DEF E, d, at, e2

\* A pointer elsewhere leaves the regions of an area as they are.
LEMMA RegionsStay ==
    ASSUME NEW D, NEW area, NEW end, Regions(D, area, end), NEW n, NEW d, d.area # area
    PROVE  Regions(Point(D, n, d), area, end)
<1> DEFINE E == Point(D, n, d)
<1>1. /\ DOMAIN E = DOMAIN D \union {n} /\ E[n] = d
      /\ \A m \in DOMAIN D \ {n} : E[m] = D[m]
  BY Zenon DEF Point
<1> HIDE DEF E
<1>2. \A m \in DOMAIN E : E[m].area = area => m \in DOMAIN D \ {n} /\ E[m] = D[m]
  BY Zenon, <1>1
<1>3. \A m \in DOMAIN D \ {n} : EndIn(E, m) = EndIn(D, m)
  BY Zenon, <1>1 DEF EndIn
<1>4. Regions(E, area, end)
  <2> SUFFICES ASSUME NEW k \in DOMAIN E, E[k].area = area
               PROVE  /\ E[k].off \in Nat /\ E[k].off % 8 = 0
                      /\ EndIn(E, k) \in Nat /\ EndIn(E, k) <= end
                      /\ \A m \in DOMAIN E \ {k} : E[m].area = area =>
                            EndIn(E, k) <= E[m].off \/ EndIn(E, m) <= E[k].off
    BY Zenon DEF Regions
  <2>1. k \in DOMAIN D \ {n} /\ E[k] = D[k] /\ EndIn(E, k) = EndIn(D, k)
    BY Zenon, <1>2, <1>3
  <2>2. /\ D[k].off \in Nat /\ D[k].off % 8 = 0
        /\ EndIn(D, k) \in Nat /\ EndIn(D, k) <= end
        /\ \A m \in DOMAIN D \ {k} : D[m].area = area =>
              EndIn(D, k) <= D[m].off \/ EndIn(D, m) <= D[k].off
    BY Zenon, <2>1 DEF Regions
  <2>3. ASSUME NEW m \in DOMAIN E \ {k}, E[m].area = area
        PROVE  EndIn(E, k) <= E[m].off \/ EndIn(E, m) <= E[k].off
    <3>1. m \in DOMAIN D \ {k} /\ E[m] = D[m] /\ EndIn(E, m) = EndIn(D, m)
      BY Zenon, <1>2, <1>3, <2>3
    <3> QED
      BY Zenon, <2>1, <2>2, <2>3, <3>1
  <2> QED
    BY Zenon, <2>1, <2>2, <2>3
<1> QED
  BY Zenon, <1>4 DEF E

\* The names of the first i requests.
Asked(q, i) == {q[h] : h \in 1..i}

\* One more.
LEMMA AskedNext ==
    ASSUME NEW q, NEW i \in Nat
    PROVE  Asked(q, i + 1) = Asked(q, i) \union {q[i + 1]}
<1>1. \A h : h \in 1..i+1 <=> h \in 1..i \/ h = i + 1
  OBVIOUS
<1> QED
  BY Zenon, <1>1 DEF Asked

\* The plan p after i requests: unless one was refused, they are laid out in
\* the blob one behind the other; vectors are fp32, and so are the matrices
\* unless narrow ones are allowed, when they are BF16 or one was noted.
PlanInv(q, ok, i, p) ==
    /\ DOMAIN p = {"bad", "demoted", "off", "dest"}
    /\ ~p.bad =>
         /\ p.off \in Nat /\ DOMAIN p.dest = Asked(q, i) /\ Regions(p.dest, "blob", p.off)
         /\ \A n \in DOMAIN p.dest :
              /\ p.dest[n].area = "blob"
              /\ n \notin Matmul \/ ~ok => p.dest[n].fmt = "F32"
              /\ n \in Matmul /\ ok => p.demoted \/ p.dest[n].fmt = "BF16"

\* A request keeps it so.
LEMMA PlanStep ==
    ASSUME NEW q, NEW ok, NEW i \in Nat, NEW p, PlanInv(q, ok, i, p), Take(q[i + 1]) \in Nat
    PROVE  PlanInv(q, ok, i + 1, ResolveOne(p, q[i + 1], ok))
<1> DEFINE n == q[i + 1]
           x == t[Find(n)]
           bad == Find(n) = 0 \/ Numel(x) # Size[n] \/ Take(n) > Numel(x)
           narrow == n \in Matmul /\ ok
           fmt == IF narrow /\ x.dtype = "BF16" THEN "BF16" ELSE "F32"
           at == Align8(p.off)
           d == [area |-> "blob", off |-> at, fmt |-> fmt]
           r == ResolveOne(p, n, ok)
<1>1. r = IF bad THEN [p EXCEPT !.bad = TRUE]
          ELSE [p EXCEPT !.demoted = @ \/ (narrow /\ x.dtype # "BF16"),
                         !.off  = at + Take(n) * Width(fmt),
                         !.dest = Point(@, n, d)]
  BY Zenon DEF ResolveOne
<1>2. d.area = "blob" /\ d.fmt = fmt
  OBVIOUS
<1>3. narrow /\ x.dtype = "BF16" => fmt = "BF16"
  BY Zenon
<1>4. ~(narrow /\ x.dtype = "BF16") => fmt = "F32"
  BY Zenon
<1> HIDE DEF r, bad, x
<1>5. DOMAIN p = {"bad", "demoted", "off", "dest"}
  BY Zenon DEF PlanInv
<1>6. CASE bad
  <2>1. r = [p EXCEPT !.bad = TRUE]
    BY Zenon, <1>1, <1>6
  <2>2. DOMAIN r = DOMAIN p /\ r.bad
    BY Zenon, <1>5, <2>1
  <2> QED
    BY Zenon, <1>5, <2>2 DEF PlanInv, r
<1>7. CASE ~bad
  <2> DEFINE D == p.dest
             E == Point(D, n, d)
             e2 == at + Take(n) * Width(fmt)
             dem == p.demoted \/ (narrow /\ x.dtype # "BF16")
  <2>1. r = [p EXCEPT !.demoted = dem, !.off = e2, !.dest = E]
    BY Zenon, <1>1, <1>7
  <2> HIDE DEF E, e2, dem
  <2>2. DOMAIN r = DOMAIN p /\ r.bad = p.bad /\ r.off = e2 /\ r.dest = E /\ r.demoted = dem
    BY Zenon, <1>5, <2>1
  <2>3. CASE p.bad
    BY Zenon, <1>5, <2>2, <2>3 DEF PlanInv, r
  <2>4. CASE ~p.bad
    <3>1. /\ p.off \in Nat /\ DOMAIN D = Asked(q, i) /\ Regions(D, "blob", p.off)
          /\ \A k \in DOMAIN D :
               /\ D[k].area = "blob"
               /\ k \notin Matmul \/ ~ok => D[k].fmt = "F32"
               /\ k \in Matmul /\ ok => p.demoted \/ D[k].fmt = "BF16"
      BY Zenon, <2>4 DEF PlanInv
    <3> HIDE DEF D
    <3>2. Regions(E, "blob", e2) /\ e2 \in Nat
      BY Zenon, <3>1, RegionAdded DEF E, e2
    <3> HIDE DEF d, fmt
    <3>3. /\ DOMAIN E = DOMAIN D \union {n} /\ E[n] = d
          /\ \A m \in DOMAIN D \ {n} : E[m] = D[m]
      BY Zenon DEF Point, E
    <3>4. DOMAIN E = Asked(q, i + 1)
      BY Zenon, <3>1, <3>3, AskedNext
    <3>5. ASSUME NEW k \in DOMAIN E
          PROVE  /\ E[k].area = "blob"
                 /\ k \notin Matmul \/ ~ok => E[k].fmt = "F32"
                 /\ k \in Matmul /\ ok => dem \/ E[k].fmt = "BF16"
      <4>1. CASE k = n
        BY Zenon, <1>2, <1>3, <1>4, <3>3, <4>1 DEF dem
      <4>2. CASE k # n
        <5>1. k \in DOMAIN D \ {n} /\ E[k] = D[k]
          BY Zenon, <3>3, <4>2
        <5> QED
          BY Zenon, <3>1, <5>1 DEF dem
      <4> QED
        BY Zenon, <4>1, <4>2
    <3> QED
      BY Zenon, <1>5, <2>2, <3>2, <3>4, <3>5 DEF PlanInv, r
  <2> QED
    BY Zenon, <2>3, <2>4
<1> QED
  BY Zenon, <1>6, <1>7

\* What plan_resolve returns.
LEMMA PlanResolves ==
    ASSUME NEW q, Len(q) \in Nat, NEW ok, \A i \in 1..Len(q) : Take(q[i]) \in Nat
    PROVE  PlanInv(q, ok, Len(q), PlanResolve(q, ok))
<1>1. PICK g : Laid(FALSE, ok, q, Len(q), g) /\ PlanResolve(q, ok) = g[Len(q)]
  BY Zenon, PlanIs
<1>2. /\ g[0] = [bad |-> FALSE, demoted |-> FALSE, off |-> 0, dest |-> <<>>]
      /\ \A i \in 1..Len(q) : g[i] = ResolveOne(g[i - 1], q[i], ok)
  <2>1. 0 \in 0..Len(q) /\ \A i \in 1..Len(q) : i \in 0..Len(q) /\ i # 0
    OBVIOUS
  <2> QED
    BY Zenon, <1>1, <2>1 DEF Laid, LayStart, LayStep
<1> DEFINE S == {i \in 0..Len(q) : ~PlanInv(q, ok, i, g[i])}
<1>3. S = {}
  <2> SUFFICES ASSUME S # {} PROVE FALSE
    OBVIOUS
  <2>1. S \in SUBSET Nat
    OBVIOUS
  <2>2. PICK m \in S : \A j \in S : m <= j
    BY Zenon, <2>1, LeastNatural
  <2>3. m \in 0..Len(q) /\ ~PlanInv(q, ok, m, g[m])
    BY Zenon, <2>2
  <2>4. CASE m = 0
    <3>1. /\ DOMAIN g[0] = {"bad", "demoted", "off", "dest"}
          /\ g[0].off = 0 /\ g[0].dest = <<>>
      BY <1>2
    <3>2. DOMAIN <<>> = {} /\ 0 \in Nat /\ 1..0 = {}
      OBVIOUS
    <3>3. DOMAIN g[0].dest = {} /\ Asked(q, 0) = {}
      BY Zenon, <3>1, <3>2 DEF Asked
    <3> QED
      BY Zenon, <2>3, <2>4, <3>1, <3>2, <3>3 DEF PlanInv, Regions
  <2>5. CASE m # 0
    <3>1. m - 1 \in 0..Len(q) /\ ~(m <= m - 1) /\ m \in 1..Len(q) /\ m - 1 \in Nat /\ (m - 1) + 1 = m
      BY <2>3, <2>5
    <3>2. PlanInv(q, ok, m - 1, g[m - 1])
      BY Zenon, <2>2, <3>1
    <3>3. Take(q[(m - 1) + 1]) \in Nat
      BY Zenon, <3>1
    <3>4. PlanInv(q, ok, (m - 1) + 1, ResolveOne(g[m - 1], q[(m - 1) + 1], ok))
      BY Zenon, <3>1, <3>2, <3>3, PlanStep
    <3> QED
      BY Zenon, <1>2, <2>3, <3>1, <3>4
  <2> QED
    BY Zenon, <2>4, <2>5
<1>4. Len(q) \in 0..Len(q)
  OBVIOUS
<1> QED
  BY Zenon, <1>1, <1>3, <1>4

\* The plan p of a packed run after i requests: unless one was refused, they
\* are pointed at in the run or laid out in the widening area; vectors are
\* fp32, and a matrix keeps its format, which is noted.
MemInv(q, run, i, p) ==
    /\ DOMAIN p = {"bad", "i8", "wideMatrix", "w", "dest"}
    /\ ~p.bad =>
         /\ p.w \in Nat /\ p.w <= WidenBytes
         /\ DOMAIN p.dest = Asked(q, i) /\ Regions(p.dest, "widen", p.w)
         /\ p.i8 => \E n \in Matmul \intersect DOMAIN run : run[n].dtype = "I8R"
         /\ \A n \in DOMAIN p.dest :
              /\ n \in DOMAIN run /\ p.dest[n].area \in {"run", "widen"}
              /\ n \notin Matmul => p.dest[n].fmt = "F32"
              /\ n \in Matmul => /\ p.dest[n].fmt = run[n].dtype
                                 /\ \/ run[n].dtype = "I8R" /\ p.i8
                                    \/ run[n].dtype = "BF16"
                                    \/ p.wideMatrix

\* A pointer into the run.
LEMMA MemPointed ==
    ASSUME NEW q, NEW run, NEW i \in Nat, NEW p, MemInv(q, run, i, p), ~p.bad,
           NEW n, n = q[i + 1], n \in DOMAIN run, NEW r,
           DOMAIN r = DOMAIN p, r.w = p.w,
           r.dest = Point(p.dest, n, [area |-> "run", off |-> run[n].off, fmt |-> run[n].dtype]),
           p.i8 => r.i8, p.wideMatrix => r.wideMatrix,
           r.i8 => p.i8 \/ (n \in Matmul /\ run[n].dtype = "I8R"),
           n \notin Matmul => run[n].dtype = "F32",
           n \in Matmul => \/ run[n].dtype = "I8R" /\ r.i8
                           \/ run[n].dtype = "BF16"
                           \/ r.wideMatrix
    PROVE  MemInv(q, run, i + 1, r)
<1> DEFINE D == p.dest
           E == r.dest
           d == [area |-> "run", off |-> run[n].off, fmt |-> run[n].dtype]
<1>1. d.area = "run" /\ d.fmt = run[n].dtype
  OBVIOUS
<1>2. E = Point(D, n, d)
  BY Zenon
<1> HIDE DEF d
<1>3. /\ DOMAIN E = DOMAIN D \union {n} /\ E[n] = d
      /\ \A m \in DOMAIN D \ {n} : E[m] = D[m]
  BY Zenon, <1>2 DEF Point
<1>4. /\ p.w \in Nat /\ p.w <= WidenBytes
      /\ DOMAIN D = Asked(q, i) /\ Regions(D, "widen", p.w)
      /\ p.i8 => \E k \in Matmul \intersect DOMAIN run : run[k].dtype = "I8R"
      /\ \A k \in DOMAIN D :
           /\ k \in DOMAIN run /\ D[k].area \in {"run", "widen"}
           /\ k \notin Matmul => D[k].fmt = "F32"
           /\ k \in Matmul => /\ D[k].fmt = run[k].dtype
                              /\ \/ run[k].dtype = "I8R" /\ p.i8
                                 \/ run[k].dtype = "BF16"
                                 \/ p.wideMatrix
  BY Zenon DEF MemInv
<1>5. DOMAIN r = {"bad", "i8", "wideMatrix", "w", "dest"}
  BY Zenon DEF MemInv
<1>6. DOMAIN E = Asked(q, i + 1)
  <2>1. Asked(q, i + 1) = Asked(q, i) \union {q[i + 1]}
    BY Zenon, AskedNext
  <2> QED
    BY Zenon, <1>3, <1>4, <2>1
<1>7. "run" # "widen"
  OBVIOUS
<1>8. Regions(E, "widen", r.w)
  <2>1. Regions(Point(D, n, d), "widen", p.w)
    BY Zenon, <1>1, <1>4, <1>7, RegionsStay
  <2> QED
    BY Zenon, <1>2, <2>1
<1>9. r.i8 => \E k \in Matmul \intersect DOMAIN run : run[k].dtype = "I8R"
  BY Zenon, <1>4
<1>10. ASSUME NEW k \in DOMAIN E
       PROVE  /\ k \in DOMAIN run /\ E[k].area \in {"run", "widen"}
              /\ k \notin Matmul => E[k].fmt = "F32"
              /\ k \in Matmul => /\ E[k].fmt = run[k].dtype
                                 /\ \/ run[k].dtype = "I8R" /\ r.i8
                                    \/ run[k].dtype = "BF16"
                                    \/ r.wideMatrix
  <2>1. CASE k = n
    BY Zenon, <1>1, <1>3, <2>1
  <2>2. CASE k # n
    <3>1. k \in DOMAIN D \ {n} /\ E[k] = D[k]
      BY Zenon, <1>3, <2>2
    <3> QED
      BY Zenon, <1>4, <3>1
  <2> QED
    BY Zenon, <2>1, <2>2
<1> QED
  BY Zenon, <1>4, <1>5, <1>6, <1>8, <1>9, <1>10 DEF MemInv

\* A tensor widened beside the run.
LEMMA MemWidened ==
    ASSUME NEW q, NEW run, NEW i \in Nat, NEW p, MemInv(q, run, i, p), ~p.bad,
           NEW n, n = q[i + 1], n \in DOMAIN run, n \notin Matmul, Take(n) \in Nat
    PROVE  MemInv(q, run, i + 1, Widened(p, n))
<1> DEFINE D == p.dest
           at == Align8(p.w)
           e2 == at + Take(n) * 4
           d == [area |-> "widen", off |-> at, fmt |-> "F32"]
           E == Point(D, n, d)
           r == Widened(p, n)
<1>1. DOMAIN p = {"bad", "i8", "wideMatrix", "w", "dest"}
  BY Zenon DEF MemInv
<1>2. /\ p.w \in Nat /\ p.w <= WidenBytes
      /\ DOMAIN D = Asked(q, i) /\ Regions(D, "widen", p.w)
      /\ p.i8 => \E k \in Matmul \intersect DOMAIN run : run[k].dtype = "I8R"
      /\ \A k \in DOMAIN D :
           /\ k \in DOMAIN run /\ D[k].area \in {"run", "widen"}
           /\ k \notin Matmul => D[k].fmt = "F32"
           /\ k \in Matmul => /\ D[k].fmt = run[k].dtype
                              /\ \/ run[k].dtype = "I8R" /\ p.i8
                                 \/ run[k].dtype = "BF16"
                                 \/ p.wideMatrix
  BY Zenon DEF MemInv
<1>3. r = IF e2 > WidenBytes THEN [p EXCEPT !.bad = TRUE]
          ELSE [p EXCEPT !.w = e2, !.dest = E]
  BY Zenon DEF Widened
<1>4. d.area = "widen" /\ d.fmt = "F32" /\ Width("F32") = 4
  BY DEF Width
<1> HIDE DEF r
<1>5. CASE e2 > WidenBytes
  <2>1. r = [p EXCEPT !.bad = TRUE]
    BY Zenon, <1>3, <1>5
  <2>2. DOMAIN r = DOMAIN p /\ r.bad
    BY Zenon, <1>1, <2>1
  <2> QED
    BY Zenon, <1>1, <2>2 DEF MemInv, r
<1>6. CASE ~(e2 > WidenBytes)
  <2> HIDE DEF D
  <2>1. Regions(E, "widen", e2) /\ e2 \in Nat
    <3>1. LET e == at + Take(n) * Width("F32") IN Regions(E, "widen", e) /\ e \in Nat
      BY Zenon, <1>2, RegionAdded
    <3> QED
      BY Zenon, <1>4, <3>1
  <2> HIDE DEF d
  <2>2. /\ DOMAIN E = DOMAIN D \union {n} /\ E[n] = d
        /\ \A m \in DOMAIN D \ {n} : E[m] = D[m]
    BY Zenon DEF Point
  <2> HIDE DEF E
  <2>3. r = [p EXCEPT !.w = e2, !.dest = E]
    BY Zenon, <1>3, <1>6 DEF E, D
  <2>4. WidenBytes \in Nat
    BY Zenon, BindAssumption
  <2> HIDE DEF e2
  <2>5. DOMAIN r = DOMAIN p /\ r.w = e2 /\ r.dest = E
    BY Zenon, <1>1, <2>3
  <2>6. r.i8 = p.i8 /\ r.wideMatrix = p.wideMatrix
    BY Zenon, <1>1, <2>3
  <2>7. e2 <= WidenBytes
    BY SMTT(20), <1>6, <2>1, <2>4
  <2>8. DOMAIN E = Asked(q, i + 1)
    <3>1. Asked(q, i + 1) = Asked(q, i) \union {q[i + 1]}
      BY Zenon, AskedNext
    <3> QED
      BY Zenon, <1>2, <2>2, <3>1
  <2>9. ASSUME NEW k \in DOMAIN E
        PROVE  /\ k \in DOMAIN run /\ E[k].area \in {"run", "widen"}
               /\ k \notin Matmul => E[k].fmt = "F32"
               /\ k \in Matmul => /\ E[k].fmt = run[k].dtype
                                  /\ \/ run[k].dtype = "I8R" /\ p.i8
                                     \/ run[k].dtype = "BF16"
                                     \/ p.wideMatrix
    <3>1. CASE k = n
      BY Zenon, <1>4, <2>2, <3>1
    <3>2. CASE k # n
      <4>1. k \in DOMAIN D \ {n} /\ E[k] = D[k]
        BY Zenon, <2>2, <3>2
      <4> QED
        BY Zenon, <1>2, <4>1
    <3> QED
      BY Zenon, <3>1, <3>2
  <2> QED
    BY Zenon, <1>1, <1>2, <2>1, <2>5, <2>6, <2>7, <2>8, <2>9 DEF MemInv, r
<1> QED
  BY Zenon, <1>5, <1>6

\* A request keeps the plan of a packed run so.
LEMMA MemStep ==
    ASSUME NEW q, NEW run, NEW i \in Nat, NEW p, MemInv(q, run, i, p), ~p.bad,
           Take(q[i + 1]) \in Nat
    PROVE  MemInv(q, run, i + 1, MemOne(p, q[i + 1], run))
<1> DEFINE n == q[i + 1]
           x == run[n]
           wide == p.wideMatrix \/ (n \in Matmul /\ x.dtype # "BF16")
           o == [p EXCEPT !.wideMatrix = wide]
           r == MemOne(p, n, run)
           refused == [p EXCEPT !.bad = TRUE]
<1>1. DOMAIN p = {"bad", "i8", "wideMatrix", "w", "dest"}
  BY Zenon DEF MemInv
<1>2. MemInv(q, run, i + 1, refused)
  <2>1. DOMAIN refused = DOMAIN p /\ refused.bad
    BY Zenon, <1>1
  <2> QED
    BY Zenon, <1>1, <2>1 DEF MemInv
<1> HIDE DEF wide
<1>3. /\ DOMAIN o = DOMAIN p /\ o.wideMatrix = wide
      /\ o.bad = p.bad /\ o.i8 = p.i8 /\ o.w = p.w /\ o.dest = p.dest
  BY Zenon, <1>1
<1>4. r = IF n \notin DOMAIN run THEN refused
          ELSE IF x.dtype = "I8R"
          THEN IF n \in Matmul THEN [Pointed(p, n, x) EXCEPT !.i8 = TRUE]
               ELSE IF I8OK(n, x) THEN Widened(p, n) ELSE refused
          ELSE IF Have(x) # Size[n] \/ Take(n) > Have(x) THEN refused
          ELSE IF x.dtype = "F32" \/ (n \in Matmul /\ x.dtype = "BF16") THEN Pointed(o, n, x)
          ELSE IF x.dtype = "BF16" THEN Widened(o, n)
          ELSE refused
  BY Zenon DEF MemOne, wide
<1> HIDE DEF o, r, refused
<1>5. \/ r = refused
      \/ n \in DOMAIN run /\ x.dtype = "I8R" /\ n \in Matmul
         /\ r = [Pointed(p, n, x) EXCEPT !.i8 = TRUE]
      \/ n \in DOMAIN run /\ n \notin Matmul /\ r = Widened(p, n)
      \/ n \in DOMAIN run /\ (x.dtype = "F32" \/ (n \in Matmul /\ x.dtype = "BF16"))
         /\ r = Pointed(o, n, x)
      \/ n \in DOMAIN run /\ n \notin Matmul /\ r = Widened(o, n)
  BY Zenon, <1>4
<1>6. CASE r = refused
  BY Zenon, <1>2, <1>6 DEF r
<1> DEFINE d == [area |-> "run", off |-> x.off, fmt |-> x.dtype]
           E == Point(p.dest, n, d)
<1>7. CASE n \in DOMAIN run /\ x.dtype = "I8R" /\ n \in Matmul
           /\ r = [Pointed(p, n, x) EXCEPT !.i8 = TRUE]
  <2>1. r = [[p EXCEPT !.dest = E] EXCEPT !.i8 = TRUE]
    BY Zenon, <1>7 DEF Pointed
  <2> HIDE DEF E
  <2>2. /\ DOMAIN r = DOMAIN p /\ r.w = p.w /\ r.dest = E /\ r.i8
        /\ r.wideMatrix = p.wideMatrix
    BY Zenon, <1>1, <2>1
  <2>3. MemInv(q, run, i + 1, r)
    BY Zenon, <1>7, <2>2, MemPointed DEF E
  <2> QED
    BY Zenon, <2>3 DEF r
<1>8. CASE n \in DOMAIN run /\ n \notin Matmul /\ r = Widened(p, n)
  <2>1. MemInv(q, run, i + 1, Widened(p, n))
    BY Zenon, <1>8, MemWidened
  <2> QED
    BY Zenon, <1>8, <2>1 DEF r
<1>9. CASE n \in DOMAIN run /\ (x.dtype = "F32" \/ (n \in Matmul /\ x.dtype = "BF16"))
           /\ r = Pointed(o, n, x)
  <2>1. r = [o EXCEPT !.dest = E]
    BY Zenon, <1>3, <1>9 DEF Pointed
  <2> HIDE DEF E
  <2>2. /\ DOMAIN r = DOMAIN p /\ r.w = p.w /\ r.dest = E /\ r.i8 = p.i8
        /\ r.wideMatrix = wide
    BY Zenon, <1>1, <1>3, <2>1
  <2>3. "F32" # "BF16"
    OBVIOUS
  <2>4. /\ p.wideMatrix => r.wideMatrix
        /\ n \notin Matmul => x.dtype = "F32"
        /\ n \in Matmul => x.dtype = "BF16" \/ r.wideMatrix
    BY Zenon, <1>9, <2>2, <2>3 DEF wide
  <2>5. MemInv(q, run, i + 1, r)
    BY Zenon, <1>9, <2>2, <2>4, MemPointed DEF E
  <2> QED
    BY Zenon, <2>5 DEF r
<1>10. CASE n \in DOMAIN run /\ n \notin Matmul /\ r = Widened(o, n)
  <2>1. wide <=> p.wideMatrix
    BY Zenon, <1>10 DEF wide
  <2>2. MemInv(q, run, i, o) /\ ~o.bad
    BY Zenon, <1>1, <1>3, <2>1 DEF MemInv
  <2>3. MemInv(q, run, i + 1, Widened(o, n))
    BY Zenon, <1>10, <2>2, MemWidened
  <2> QED
    BY Zenon, <1>10, <2>3 DEF r
<1> QED
  BY Zenon, <1>5, <1>6, <1>7, <1>8, <1>9, <1>10

\* What the bind from a packed run lays out.
LEMMA MemPlans ==
    ASSUME NEW q, Len(q) \in Nat, NEW run, \A i \in 1..Len(q) : Take(q[i]) \in Nat
    PROVE  MemInv(q, run, Len(q), MemPlan(q, run))
<1>1. PICK g : Laid(TRUE, run, q, Len(q), g) /\ MemPlan(q, run) = g[Len(q)]
  BY Zenon, MemPlanIs
<1>2. /\ g[0] = [bad |-> FALSE, i8 |-> FALSE, wideMatrix |-> FALSE, w |-> 0, dest |-> <<>>]
      /\ \A i \in 1..Len(q) : g[i] = IF g[i - 1].bad THEN g[i - 1]
                                     ELSE MemOne(g[i - 1], q[i], run)
  <2>1. 0 \in 0..Len(q) /\ \A i \in 1..Len(q) : i \in 0..Len(q) /\ i # 0
    OBVIOUS
  <2> QED
    BY Zenon, <1>1, <2>1 DEF Laid, LayStart, LayStep
<1> DEFINE S == {i \in 0..Len(q) : ~MemInv(q, run, i, g[i])}
<1>3. S = {}
  <2> SUFFICES ASSUME S # {} PROVE FALSE
    OBVIOUS
  <2>1. S \in SUBSET Nat
    OBVIOUS
  <2>2. PICK m \in S : \A j \in S : m <= j
    BY Zenon, <2>1, LeastNatural
  <2>3. m \in 0..Len(q) /\ ~MemInv(q, run, m, g[m])
    BY Zenon, <2>2
  <2>4. CASE m = 0
    <3>1. /\ DOMAIN g[0] = {"bad", "i8", "wideMatrix", "w", "dest"}
          /\ g[0].w = 0 /\ g[0].dest = <<>>
      BY <1>2
    <3>2. ~g[0].i8
      <4>1. g[0] = [bad |-> FALSE, i8 |-> FALSE, wideMatrix |-> FALSE, w |-> 0, dest |-> <<>>]
        BY Zenon, <1>2
      <4>2. [bad |-> FALSE, i8 |-> FALSE, wideMatrix |-> FALSE, w |-> 0, dest |-> <<>>].i8 = FALSE
        BY Zenon
      <4> QED
        BY Zenon, <4>1, <4>2
    <3>3. DOMAIN <<>> = {} /\ 0 \in Nat /\ 1..0 = {}
      OBVIOUS
    <3>4. DOMAIN g[0].dest = {} /\ Asked(q, 0) = {}
      BY Zenon, <3>1, <3>3 DEF Asked
    <3>5. WidenBytes \in Nat
      BY Zenon, BindAssumption
    <3>6. 0 <= WidenBytes
      BY <3>5
    <3> QED
      BY Zenon, <2>3, <2>4, <3>1, <3>2, <3>3, <3>4, <3>6 DEF MemInv, Regions
  <2>5. CASE m # 0
    <3>1. m - 1 \in 0..Len(q) /\ ~(m <= m - 1) /\ m \in 1..Len(q) /\ m - 1 \in Nat /\ (m - 1) + 1 = m
      BY <2>3, <2>5
    <3>2. MemInv(q, run, m - 1, g[m - 1])
      BY Zenon, <2>2, <3>1
    <3>3. CASE g[m - 1].bad
      <4>1. g[m] = g[m - 1]
        BY Zenon, <1>2, <3>1, <3>3
      <4> QED
        BY Zenon, <2>3, <3>2, <3>3, <4>1 DEF MemInv
    <3>4. CASE ~g[m - 1].bad
      <4>1. Take(q[(m - 1) + 1]) \in Nat
        BY Zenon, <3>1
      <4>2. MemInv(q, run, (m - 1) + 1, MemOne(g[m - 1], q[(m - 1) + 1], run))
        BY Zenon, <3>1, <3>2, <3>4, <4>1, MemStep
      <4> QED
        BY Zenon, <1>2, <2>3, <3>1, <3>4, <4>2
    <3> QED
      BY Zenon, <3>3, <3>4
  <2> QED
    BY Zenon, <2>4, <2>5
<1>4. Len(q) \in 0..Len(q)
  OBVIOUS
<1> QED
  BY Zenon, <1>1, <1>3, <1>4

-----------------------------------------------------------------------------
(* What a bind hands out.                                                  *)

\* The tensors that are asked for.
Asks == {"in_norm", "post_norm", "attn_res_norm", "attn_res_proj", "mlp_res_norm",
         "mlp_res_proj", "q_a", "q_a_norm", "q_b", "kv_a", "kv_a_norm", "kv_b", "o", "g",
         "q", "k", "v", "q_conv", "k_conv", "v_conv", "f_a", "f_b", "b", "A_log", "dt_bias",
         "o_norm", "dense_gate", "dense_up", "dense_down", "gate", "bias", "down", "up",
         "latent_norm", "sh1", "sh3", "sh2", "embed", "norm", "out_res_norm", "out_res_proj",
         "lm_head"}

\* Requests are finite sequences.
LEMMA Requests ==
    ASSUME NEW kind
    PROVE  LayerNames(kind) \in Seq(Asks) /\ ModelNames \in Seq(Asks)
<1> DEFINE a == <<"in_norm", "post_norm", "attn_res_norm", "attn_res_proj", "mlp_res_norm",
                  "mlp_res_proj">>
           b == <<"q_a", "q_a_norm", "q_b", "kv_a", "kv_a_norm", "kv_b", "o">>
           g == IF OutGate THEN <<"g">> ELSE <<>>
           c == <<"q", "k", "v", "g", "o", "q_conv", "k_conv", "v_conv", "f_a", "f_b",
                  "b", "A_log", "dt_bias", "o_norm">>
           d == <<"dense_gate", "dense_up", "dense_down">>
           m == <<"gate", "bias", "down", "up", "latent_norm", "sh1", "sh3", "sh2">>
<1>1. a \in Seq(Asks) /\ d \in Seq(Asks) /\ g \in Seq(Asks)
  <2>1. a \in Seq(Asks)
    BY SMT DEF Asks
  <2>2. d \in Seq(Asks)
    BY SMT DEF Asks
  <2>3. <<"g">> \in Seq(Asks) /\ <<>> \in Seq(Asks)
    BY SMT DEF Asks
  <2> QED
    BY Zenon, <2>1, <2>2, <2>3
<1>2. b \in Seq(Asks)
  BY SMT DEF Asks
<1>3. c \in Seq(Asks)
  BY SMT DEF Asks
<1>4. m \in Seq(Asks)
  BY SMT DEF Asks
<1>5. LayerNames(kind) = a \o (IF kind.mla THEN b \o g ELSE c) \o (IF kind.dense THEN d ELSE m)
  BY Zenon DEF LayerNames
<1> HIDE DEF a, b, c, d, m, g
<1>6. b \o g \in Seq(Asks)
  BY Zenon, <1>1, <1>2, Behind
<1> DEFINE u == IF kind.mla THEN b \o g ELSE c
           v == IF kind.dense THEN d ELSE m
<1>7. u \in Seq(Asks) /\ v \in Seq(Asks)
  BY Zenon, <1>1, <1>3, <1>4, <1>6
<1> HIDE DEF u, v
<1>8. a \o u \in Seq(Asks)
  BY Zenon, <1>1, <1>7, Behind
<1>9. (a \o u) \o v \in Seq(Asks)
  BY Zenon, <1>7, <1>8, Behind
<1>10. ModelNames \in Seq(Asks)
  BY SMT DEF ModelNames, Asks
<1> QED
  BY Zenon, <1>5, <1>9, <1>10 DEF u, v

\* Every request takes a number of elements.
LEMMA Taken ==
    ASSUME NEW q \in Seq(Asks), \A n \in Range(q) : Size[n] \in Nat
    PROVE  /\ Len(q) \in Nat /\ Range(q) = Asked(q, Len(q))
           /\ \A i \in 1..Len(q) : Take(q[i]) \in Nat
<1>1. Len(q) \in Nat /\ DOMAIN q = 1..Len(q)
  BY Zenon, SeqElement
<1>2. Range(q) = Asked(q, Len(q))
  BY Zenon, <1>1 DEF Range, Asked
<1>3. ALogTake \in Nat
  BY Zenon, BindAssumption
<1> QED
  BY Zenon, <1>1, <1>2, <1>3 DEF Take, Asked

\* The model's and the layers' requests.
LEMMA Sized ==
    /\ \A n \in Range(ModelNames) : Size[n] \in Nat
    /\ \A kind \in Kinds : \A n \in Range(LayerNames(kind)) : Size[n] \in Nat
  BY Zenon, BindAssumption

\* BindTruth of a record b, but for its kind of attention.
Truth(b) ==
    /\ DOMAIN b.dest = Range(b.names)
    /\ \A n \in DOMAIN b.dest :
         /\ b.dest[n].fmt = IF n \in Matmul THEN b.tag ELSE "F32"
         /\ b.dest[n].area # "run" =>
              /\ b.dest[n].off % 8 = 0
              /\ EndIn(b.dest, n) <= IF b.dest[n].area = "blob" THEN b.blob ELSE WidenBytes
              /\ \A m \in DOMAIN b.dest \ {n} : b.dest[m].area = b.dest[n].area =>
                    EndIn(b.dest, n) <= b.dest[m].off \/ EndIn(b.dest, m) <= b.dest[n].off
    /\ b.tag = "BF16" => b.blob = b.report

\* A bind from the checkpoint.
LEMMA PlanTruth ==
    ASSUME NEW names \in Seq(Asks), \A n \in Range(names) : Size[n] \in Nat,
           NEW kda, NEW mla, NEW moe, BindPlan(names, kda, mla, moe)
    PROVE  Truth(bound') /\ bound'.kda = kda /\ bound'.mla = mla
<1> DEFINE p == Plan(names)
           n1 == PlanResolve(names, TRUE)
           n0 == PlanResolve(names, FALSE)
<1>1. /\ bound' = [ok |-> TRUE, tag |-> p.tag, dest |-> p.dest, names |-> names,
                   blob |-> p.off, report |-> n1.off, kda |-> kda, mla |-> mla, moe |-> moe]
      /\ ~p.bad
  BY Zenon DEF BindPlan, LayerBytes
<1>2. /\ Len(names) \in Nat /\ Range(names) = Asked(names, Len(names))
      /\ \A i \in 1..Len(names) : Take(names[i]) \in Nat
  BY Zenon, Taken
<1>3. PlanInv(names, TRUE, Len(names), n1) /\ PlanInv(names, FALSE, Len(names), n0)
  BY Zenon, <1>2, PlanResolves
<1>4. p = IF n1.bad \/ ~n1.demoted THEN Tagged(n1, "BF16") ELSE Tagged(n0, "F32")
  BY Zenon DEF Plan
<1> HIDE DEF p, n1, n0
<1>5. \A c, tag : LET u == Tagged(c, tag) IN u.bad = c.bad /\ u.off = c.off /\ u.dest = c.dest /\ u.tag = tag
  BY Zenon DEF Tagged
<1> DEFINE c == IF n1.bad \/ ~n1.demoted THEN n1 ELSE n0
           D == p.dest
<1>6. /\ p.off \in Nat /\ DOMAIN D = Asked(names, Len(names)) /\ Regions(D, "blob", p.off)
      /\ \A n \in DOMAIN D : /\ D[n].area = "blob"
                             /\ D[n].fmt = IF n \in Matmul THEN p.tag ELSE "F32"
      /\ p.tag = "BF16" => p.off = n1.off
  <2>1. CASE n1.bad \/ ~n1.demoted
    <3>1. p = Tagged(n1, "BF16")
      BY Zenon, <1>4, <2>1
    <3>2. p.bad = n1.bad /\ p.off = n1.off /\ D = n1.dest /\ p.tag = "BF16"
      BY Zenon, <1>5, <3>1
    <3>3. ~n1.bad /\ ~n1.demoted
      BY Zenon, <1>1, <2>1, <3>2
    <3> QED
      BY Zenon, <1>3, <3>2, <3>3 DEF PlanInv
  <2>2. CASE ~(n1.bad \/ ~n1.demoted)
    <3>1. p = Tagged(n0, "F32")
      BY Zenon, <1>4, <2>2
    <3>2. p.bad = n0.bad /\ p.off = n0.off /\ D = n0.dest /\ p.tag = "F32"
      BY Zenon, <1>5, <3>1
    <3>3. ~n0.bad /\ "F32" # "BF16"
      BY Zenon, <1>1, <3>2
    <3> QED
      BY Zenon, <1>3, <3>2, <3>3 DEF PlanInv
  <2> QED
    BY Zenon, <2>1, <2>2
<1> DEFINE b == bound'
<1>7. /\ b.dest = D /\ b.names = names /\ b.tag = p.tag /\ b.blob = p.off /\ b.report = n1.off
  BY Zenon, <1>1
<1>8. b.kda = kda /\ b.mla = mla
  BY <1>1
<1> HIDE DEF D, b
<1> QED
  BY Zenon, <1>2, <1>6, <1>7, <1>8 DEF Truth, Regions, b

\* A bind from a packed run.
LEMMA MemTruth ==
    ASSUME NEW kind \in Kinds, NEW run \in Runs, BindMem(kind, run)
    PROVE  Truth(bound') /\ ~(bound'.kda /\ bound'.mla)
<1> DEFINE names == LayerNames(kind)
           p == MemPlan(names, run)
           tag == IF p.i8 THEN "I8R" ELSE "BF16"
           D == p.dest
<1>1. /\ bound' = [ok |-> TRUE, tag |-> tag, dest |-> D, names |-> names,
                   blob |-> 0, report |-> 0,
                   kda |-> ~kind.mla, mla |-> kind.mla, moe |-> ~kind.dense]
      /\ MemOK(p)
  BY Zenon DEF BindMem
<1>2. names \in Seq(Asks) /\ \A n \in Range(names) : Size[n] \in Nat
  BY Zenon, Requests, Sized
<1> HIDE DEF names
<1>3. /\ Len(names) \in Nat /\ Range(names) = Asked(names, Len(names))
      /\ \A i \in 1..Len(names) : Take(names[i]) \in Nat
  BY Zenon, <1>2, Taken
<1>4. MemInv(names, run, Len(names), p)
  BY Zenon, <1>3, MemPlans
<1> HIDE DEF p
<1>5. ~p.bad /\ (~p.wideMatrix \/ p.i8)
  BY Zenon, <1>1 DEF MemOK
<1>6. /\ p.w \in Nat /\ p.w <= WidenBytes
      /\ DOMAIN D = Asked(names, Len(names)) /\ Regions(D, "widen", p.w)
      /\ p.i8 => \E n \in Matmul \intersect DOMAIN run : run[n].dtype = "I8R"
      /\ \A n \in DOMAIN D :
           /\ n \in DOMAIN run /\ D[n].area \in {"run", "widen"}
           /\ n \notin Matmul => D[n].fmt = "F32"
           /\ n \in Matmul => /\ D[n].fmt = run[n].dtype
                              /\ \/ run[n].dtype = "I8R" /\ p.i8
                                 \/ run[n].dtype = "BF16"
                                 \/ p.wideMatrix
  BY Zenon, <1>4, <1>5 DEF MemInv
<1>7. ASSUME NEW n \in DOMAIN D
      PROVE  D[n].fmt = IF n \in Matmul THEN tag ELSE "F32"
  <2>1. CASE n \in Matmul /\ p.i8
    <3>1. PICK m \in Matmul \intersect DOMAIN run : run[m].dtype = "I8R"
      BY Zenon, <1>6, <2>1
    <3>2. n \in Matmul \intersect DOMAIN run
      BY Zenon, <1>6, <2>1
    <3>3. run[n].dtype = "I8R"
      BY Zenon, <3>1, <3>2, BindAssumption
    <3> QED
      BY Zenon, <1>6, <2>1, <3>3
  <2>2. CASE n \in Matmul /\ ~p.i8
    <3>1. run[n].dtype = "BF16"
      BY Zenon, <1>5, <1>6, <2>2
    <3> QED
      BY Zenon, <1>6, <2>2, <3>1
  <2>3. CASE n \notin Matmul
    BY Zenon, <1>6, <2>3
  <2> QED
    BY Zenon, <2>1, <2>2, <2>3
<1> HIDE DEF tag
<1>8. ASSUME NEW n \in DOMAIN D, D[n].area # "run"
      PROVE  /\ D[n].area = "widen" /\ D[n].off % 8 = 0 /\ EndIn(D, n) <= WidenBytes
             /\ \A m \in DOMAIN D \ {n} : D[m].area = "widen" =>
                   EndIn(D, n) <= D[m].off \/ EndIn(D, m) <= D[n].off
  <2>1. D[n].area = "widen"
    BY Zenon, <1>6, <1>8
  <2>2. /\ D[n].off % 8 = 0 /\ EndIn(D, n) \in Nat /\ EndIn(D, n) <= p.w
        /\ \A m \in DOMAIN D \ {n} : D[m].area = "widen" =>
              EndIn(D, n) <= D[m].off \/ EndIn(D, m) <= D[n].off
    BY Zenon, <1>6, <2>1 DEF Regions
  <2>3. WidenBytes \in Nat
    BY Zenon, BindAssumption
  <2>4. EndIn(D, n) <= WidenBytes
    BY SMTT(20), <1>6, <2>2, <2>3
  <2> QED
    BY Zenon, <2>1, <2>2, <2>4
<1>9. "widen" # "blob"
  BY Zenon
<1> DEFINE b == bound'
<1>10. b.dest = D /\ b.names = names /\ b.tag = tag /\ b.blob = 0 /\ b.report = 0
  BY Zenon, <1>1
<1>11. b.kda = ~kind.mla /\ b.mla = kind.mla
  BY Zenon, <1>1
<1> HIDE DEF D, b
<1> QED
  BY Zenon, <1>3, <1>6, <1>7, <1>8, <1>9, <1>10, <1>11 DEF Truth, b

\* For every checkpoint, layer and packed run: what a bind that succeeds hands
\* to the kernels is what they read it as.  The matrices are in the format of
\* the layer's one tag and the vectors in fp32; the regions of the blob and of
\* the widening area are aligned, apart and inside; and a layer with no
\* demoted matrix takes the bytes k3_bind_layer_bytes reported.
THEOREM BindsAreTrue ==
    BindSpec => []BindTruth
<1>1. BindInit => BindTruth
  <2>1. Unbound.ok = FALSE
    BY Zenon DEF Unbound
  <2> QED
    BY Zenon, <2>1 DEF BindInit, BindTruth
<1>2. BindTruth /\ [BindNext]_bindVars => BindTruth'
  <2> SUFFICES ASSUME BindTruth, [BindNext]_bindVars PROVE BindTruth'
    OBVIOUS
  <2>1. \/ bound' = bound \/ bound' = Unbound
        \/ BindModel
        \/ \E kind \in Kinds : BindLayer(kind)
        \/ \E kind \in Kinds : \E run \in Runs : BindMem(kind, run)
    BY Zenon DEF BindNext, Done, bindVars
  <2>2. Truth(bound') /\ ~(bound'.kda /\ bound'.mla) => BindTruth'
    BY Zenon DEF Truth, BindTruth, EndIn, End
  <2>3. CASE bound' = bound
    BY Zenon, <2>3 DEF BindTruth, End
  <2>4. CASE bound' = Unbound
    BY Zenon, <2>4 DEF BindTruth, Unbound
  <2>5. CASE BindModel
    <3>1. ModelNames \in Seq(Asks) /\ \A n \in Range(ModelNames) : Size[n] \in Nat
      BY Zenon, Requests, Sized
    <3>2. BindPlan(ModelNames, FALSE, FALSE, FALSE)
      BY Zenon, <2>5 DEF BindModel
    <3>3. Truth(bound') /\ bound'.kda = FALSE
      BY Zenon, <3>1, <3>2, PlanTruth
    <3> QED
      BY Zenon, <2>2, <3>3
  <2>6. CASE \E kind \in Kinds : BindLayer(kind)
    <3>1. PICK kind \in Kinds : BindLayer(kind)
      BY Zenon, <2>6
    <3>2. LayerNames(kind) \in Seq(Asks) /\ \A n \in Range(LayerNames(kind)) : Size[n] \in Nat
      BY Zenon, Requests, Sized
    <3> DEFINE kda == ~kind.mla
               moe == ~kind.dense
    <3>3. BindPlan(LayerNames(kind), kda, kind.mla, moe)
      BY Zenon, <3>1 DEF BindLayer
    <3> HIDE DEF kda, moe
    <3>4. Truth(bound') /\ bound'.kda = kda /\ bound'.mla = kind.mla
      BY Zenon, <3>2, <3>3, PlanTruth
    <3> QED
      BY Zenon, <2>2, <3>4 DEF kda
  <2>7. CASE \E kind \in Kinds : \E run \in Runs : BindMem(kind, run)
    <3>1. Truth(bound') /\ ~(bound'.kda /\ bound'.mla)
      BY Zenon, <2>7, MemTruth
    <3> QED
      BY Zenon, <2>2, <3>1
  <2> QED
    BY Zenon, <2>1, <2>3, <2>4, <2>5, <2>6, <2>7
<1> QED
  BY <1>1, <1>2, PTL DEF BindSpec
=============================================================================
