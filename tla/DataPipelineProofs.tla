-------------------------- MODULE DataPipelineProofs --------------------------
(***************************************************************************)
(* The programs of data_gen, for any number of points, any draws and any   *)
(* loss of output: the types of the generator and of the reader, the       *)
(* clusters, the statistics, the size of the file for the parser, and that *)
(* the reader and the parser find the points that were drawn.              *)
(***************************************************************************)
EXTENDS DataPipeline, SequenceTheorems, FiniteSetTheorems, NaturalsInduction,
        WellFoundedInduction, TLAPS

\* The points of a cluster when count has one for each.
ClusterSize == count \div NUM_CLUSTERS

\* cluster_threshold is where the current cluster ends.  Without a point for each cluster
\* it stays 0 and only the first point starts one.
ThresholdInv ==
    /\ num_clusters \in Nat \ {0}
    /\ ClusterSize = 0 =>
          cluster_threshold = 0 /\ num_clusters = IF Len(points) = 0 THEN 1 ELSE 2
    /\ ClusterSize # 0 =>
          /\ cluster_threshold = num_clusters * ClusterSize
          /\ cluster_threshold - ClusterSize <= Len(points)
          /\ Len(points) <= cluster_threshold
ClusterOf(k) == IF ClusterSize = 0 THEN 2 ELSE 1 + (k - 1) \div ClusterSize
ClusterInv ==
    /\ count \in Nat
    /\ \E D : points \in Seq(D)
    /\ \E D : cluster_of \in Seq(D)
    /\ Len(cluster_of) = Len(points)
    /\ is_clustered => ThresholdInv /\ \A k \in 1..Len(points) : cluster_of[k] = ClusterOf(k)

-----------------------------------------------------------------------------
(* Arithmetic.                                                             *)

LEMMA SizeType == \A n \in Nat : n \div NUM_CLUSTERS \in Nat
  BY DEF NUM_CLUSTERS

LEMMA TimesNext == \A m, s \in Nat : m * s \in Nat /\ (m + 1) * s = m * s + s
  OBVIOUS

\* What lies between one multiple and the next.
LEMMA DivBetween ==
    ASSUME NEW s \in Nat \ {0}, NEW q \in Nat, NEW a \in Nat, q * s <= a, a < q * s + s
    PROVE  a \div s = q
  OBVIOUS

LEMMA AppendAny ==
    ASSUME NEW D, NEW s \in Seq(D), NEW x
    PROVE  /\ Append(s, x) \in Seq(D \cup {x}) /\ Len(s) \in Nat
           /\ Len(Append(s, x)) = Len(s) + 1
           /\ \A k \in 1..Len(s) : Append(s, x)[k] = s[k]
           /\ Append(s, x)[Len(s) + 1] = x
<1>1. s \in Seq(D \cup {x})  BY SeqMonotonic
<1>2. x \in D \cup {x}  OBVIOUS
<1> QED  BY <1>1, <1>2

-----------------------------------------------------------------------------
(* The steps.                                                              *)

LEMMA ClusterInit == Init => ClusterInv
<1> SUFFICES ASSUME Init PROVE ClusterInv  OBVIOUS
<1>1. count \in Nat  BY GeneratorAssumption DEF Init, GenInit
<1>2. /\ points = <<>> /\ cluster_of = <<>> /\ num_clusters = 1
      /\ cluster_threshold = ClusterSize
  BY DEF Init, GenInit, ClusterSize
<1>3. <<>> \in Seq({}) /\ Len(<<>>) = 0  BY EmptySeq
<1>4. ClusterSize \in Nat  BY <1>1, SizeType DEF ClusterSize
<1>5. num_clusters * ClusterSize = ClusterSize  BY <1>2, <1>4
<1>6. ThresholdInv  BY <1>2, <1>3, <1>4, <1>5 DEF ThresholdInv
<1> QED  BY <1>1, <1>2, <1>3, <1>6 DEF ClusterInv

\* A point either goes to the current cluster or, at the threshold, starts the next.
LEMMA WriteRowStep ==
    ASSUME ClusterInv, WriteRow
    PROVE  ClusterInv'
<1> DEFINE n == Len(points)
           size == ClusterSize
<1>1. PICK D : points \in Seq(D)  BY DEF ClusterInv
<1>2. PICK C : cluster_of \in Seq(C)  BY DEF ClusterInv
<1>3. /\ count \in Nat /\ count' = count /\ is_clustered' = is_clustered
      /\ n \in Nat /\ size \in Nat /\ size' = size
  BY <1>1, LenProperties, SizeType DEF ClusterInv, WriteRow, gen_options, ClusterSize
<1>4. PICK point : points' = Append(points, point)  BY DEF WriteRow
<1>5. cluster_of' = Append(cluster_of, num_clusters')  BY DEF WriteRow
<1>6. /\ num_clusters' = num_clusters + (IF IsNewCluster THEN 1 ELSE 0)
      /\ cluster_threshold' = IF IsNewCluster THEN cluster_threshold + size
                              ELSE cluster_threshold
      /\ IsNewCluster <=> is_clustered /\ n = cluster_threshold
  BY DEF WriteRow, NextThreshold, IsNewCluster, ClusterSize
<1>7. points' \in Seq(D \cup {point}) /\ Len(points') = n + 1
  BY <1>1, <1>4, AppendAny
<1>8. /\ cluster_of' \in Seq(C \cup {num_clusters'}) /\ Len(cluster_of') = n + 1
      /\ \A k \in 1..n : cluster_of'[k] = cluster_of[k]
      /\ cluster_of'[n + 1] = num_clusters'
  BY <1>2, <1>5, AppendAny DEF ClusterInv
<1>9. \A k : ClusterOf(k)' = ClusterOf(k)  BY <1>3 DEF ClusterOf
<1> HIDE DEF n, size
<1>10. ASSUME is_clustered PROVE ThresholdInv' /\ num_clusters' = ClusterOf(n + 1)
  <2>1. ThresholdInv /\ num_clusters \in Nat \ {0} /\ (IsNewCluster <=> n = cluster_threshold)
    BY <1>6, <1>10 DEF ClusterInv, ThresholdInv
  <2>2. (n + 1) - 1 = n  BY <1>3
  <2>3. CASE size = 0
    <3>1. cluster_threshold = 0 /\ num_clusters = IF n = 0 THEN 1 ELSE 2
      BY <2>1, <2>3 DEF ThresholdInv, n, size
    <3>2. cluster_threshold' = 0 /\ num_clusters' = 2  BY <1>3, <1>6, <2>1, <2>3, <3>1
    <3>3. Len(points') # 0 /\ ClusterSize' = 0  BY <1>3, <1>7, <2>3 DEF size
    <3>4. ThresholdInv'  BY <3>2, <3>3 DEF ThresholdInv
    <3> QED  BY <2>3, <3>2, <3>4 DEF ClusterOf, size
  <2>4. CASE size # 0
    <3> DEFINE q == num_clusters - 1
               low == q * size
    <3>1. /\ cluster_threshold = num_clusters * size
          /\ cluster_threshold - size <= n /\ n <= cluster_threshold
      BY <2>1, <2>4 DEF ThresholdInv, n, size
    <3>2. /\ q \in Nat /\ low \in Nat /\ num_clusters * size = low + size
          /\ (num_clusters + 1) * size = low + size + size
      <4>1. q \in Nat /\ q + 1 = num_clusters  BY <2>1
      <4> HIDE DEF q
      <4>2. low \in Nat /\ (q + 1) * size = low + size  BY <1>3, <4>1, TimesNext
      <4>3. (num_clusters + 1) * size = num_clusters * size + size
        BY <1>3, <2>1, TimesNext
      <4> QED  BY <4>1, <4>2, <4>3
    <3> HIDE DEF low
    <3>3. CASE n = cluster_threshold
      <4>1. /\ num_clusters' = num_clusters + 1 /\ cluster_threshold' = cluster_threshold + size
            /\ num_clusters \in Nat
        BY <1>6, <2>1, <3>3
      <4>2. n \div size = num_clusters
        <5>1. num_clusters * size <= n /\ n < num_clusters * size + size
          BY <1>3, <2>4, <3>1, <3>2, <3>3
        <5> QED  BY <1>3, <2>1, <2>4, <5>1, DivBetween
      <4>3. /\ cluster_threshold' = num_clusters' * size
            /\ cluster_threshold' - size <= n + 1 /\ n + 1 <= cluster_threshold'
        BY <1>3, <2>4, <3>1, <3>2, <3>3, <4>1
      <4>4. num_clusters' \in Nat \ {0} /\ ClusterSize' = size /\ Len(points') = n + 1
        BY <1>3, <1>7, <4>1 DEF size
      <4>5. ThresholdInv'  BY <2>4, <4>3, <4>4 DEF ThresholdInv
      <4>6. num_clusters' = 1 + n \div size  BY <4>1, <4>2
      <4> QED  BY <2>2, <2>4, <4>5, <4>6 DEF ClusterOf, size
    <3>4. CASE n # cluster_threshold
      <4>1. num_clusters' = num_clusters /\ cluster_threshold' = cluster_threshold
        BY <1>6, <2>1, <3>4
      <4>2. n \div size = q
        <5>1. low <= n /\ n < low + size  BY <1>3, <3>1, <3>2, <3>4
        <5> QED  BY <1>3, <2>4, <3>2, <5>1, DivBetween DEF low
      <4>3. cluster_threshold - size <= n + 1 /\ n + 1 <= cluster_threshold
        BY <1>3, <3>1, <3>2, <3>4
      <4>4. ClusterSize' = size /\ Len(points') = n + 1  BY <1>3, <1>7 DEF size
      <4>5. ThresholdInv'  BY <2>1, <2>4, <3>1, <4>1, <4>3, <4>4 DEF ThresholdInv
      <4>6. num_clusters' = 1 + n \div size  BY <2>1, <4>1, <4>2
      <4> QED  BY <2>2, <2>4, <4>5, <4>6 DEF ClusterOf, size
    <3> QED  BY <3>3, <3>4
  <2> QED  BY <2>3, <2>4
<1>11. ASSUME is_clustered, NEW k \in 1..n + 1 PROVE cluster_of'[k] = ClusterOf(k)
  <2>1. k \in 1..n \/ k = n + 1  BY <1>3
  <2>2. CASE k \in 1..n
    BY <1>8, <1>11, <2>2 DEF ClusterInv, n
  <2>3. CASE k = n + 1
    BY <1>8, <1>10, <1>11, <2>3
  <2> QED  BY <2>1, <2>2, <2>3
<1> QED  BY <1>3, <1>7, <1>8, <1>9, <1>10, <1>11 DEF ClusterInv

LEMMA ClusterNext == ClusterInv /\ [Next]_vars => ClusterInv'
<1> SUFFICES ASSUME ClusterInv, [Next]_vars PROVE ClusterInv'  OBVIOUS
<1>1. ASSUME UNCHANGED <<count, is_clustered, cluster_threshold, num_clusters, points,
                         cluster_of>>
      PROVE  ClusterInv'
  BY <1>1 DEF ClusterInv, ThresholdInv, ClusterOf, ClusterSize
<1>2. CASE WriteRow  BY <1>2, WriteRowStep
<1>3. CASE OpenOutput \/ CloseOutput \/ Stop
  BY <1>1, <1>3 DEF OpenOutput, CloseOutput, Stop, gen_options, gen_data
<1>4. CASE UNCHANGED gen_vars
  BY <1>1, <1>4 DEF gen_vars, gen_options, gen_data
<1>5. CASE GeneratorStep  BY <1>2, <1>3, <1>5 DEF GeneratorStep, Generate
<1>6. CASE StartReader \/ ReaderStep \/ StartParser \/ ParserStep
  BY <1>4, <1>6 DEF StartReader, ReaderStep, StartParser, ParserStep
<1>7. CASE UNCHANGED vars  BY <1>4, <1>7 DEF vars
<1> QED  BY <1>5, <1>6, <1>7 DEF Next, End

\* Whatever is drawn, each cluster gets its share of the points, one after the other.
THEOREM GeneratorClustersAreOfEqualSize == Spec => []ClustersAreOfEqualSize
<1>1. ClusterInv => ClustersAreOfEqualSize
  <2> SUFFICES ASSUME ClusterInv PROVE ClustersAreOfEqualSize  OBVIOUS
  <2>1. DOMAIN points = 1..Len(points)  BY LenProperties DEF ClusterInv
  <2> QED  BY <2>1 DEF ClusterInv, ClustersAreOfEqualSize, ClusterOf, ClusterSize
<1>2. Spec => []ClusterInv  BY ClusterInit, ClusterNext, PTL DEF Spec
<1> QED  BY <1>1, <1>2, PTL

-----------------------------------------------------------------------------
(* Induction over a set of numbers, and what a recursive function computes. *)

LEMMA Least ==
    ASSUME NEW S, S \subseteq Nat, S # {}
    PROVE  \E m \in S : \A n \in S : m <= n
<1> DEFINE R == OpToRel(<, Nat)
<1>1. IsWellFoundedOn(R, Nat)  BY NatLessThanWellFounded
<1>2. \A a, b \in Nat : <<a, b>> \in R <=> a < b  BY DEF OpToRel
<1> HIDE DEF R
<1>3. PICK m \in S : \A n \in S : ~(<<n, m>> \in R)  BY <1>1, WFMin
<1>4. ASSUME NEW n \in S PROVE m <= n
  <2>1. <<n, m>> \notin R  BY <1>3
  <2>2. n \in Nat /\ m \in Nat  OBVIOUS
  <2>3. ~(n < m)  BY <1>2, <2>1, <2>2
  <2> QED  BY <2>2, <2>3
<1> QED  BY <1>4

LEMMA Induction ==
    ASSUME NEW S, 0 \in S, \A n \in Nat : n \in S => n + 1 \in S
    PROVE  \A n \in Nat : n \in S
<1> DEFINE T == Nat \ S
<1>1. CASE T # {}
  <2>1. PICK m \in T : \A n \in T : m <= n  BY <1>1, Least
  <2>2. m - 1 \in Nat  BY <2>1
  <2>3. m - 1 \notin T  BY <2>1
  <2> QED  BY <2>1, <2>2, <2>3
<1> QED  BY <1>1

\* There is a function that each step of G takes from one value to the next.
StepsOf(n, V) == [1..n -> [V -> V]]
SomeRun(n, V, v0, G) ==
    \E f \in [0..n -> V] : f[0] = v0 /\ \A k \in 1..n : f[k] = G[k][f[k - 1]]

LEMMA Recursion ==
    ASSUME NEW V, NEW n, n \in Nat, NEW v0, v0 \in V, NEW G, G \in StepsOf(n, V)
    PROVE  SomeRun(n, V, v0, G)
<1> USE DEF StepsOf
<1> DEFINE Steps(f, m) == f[0] = v0 /\ \A k \in 1..m : f[k] = G[k][f[k - 1]]
           S == {m \in Nat : m <= n => \E f \in [0..m -> V] : Steps(f, m)}
<1>1. 0 \in S
  <2>1. [k \in 0..0 |-> v0] \in [0..0 -> V] /\ Steps([k \in 0..0 |-> v0], 0)  OBVIOUS
  <2> QED  BY <2>1
<1>2. ASSUME NEW m \in Nat, m \in S PROVE m + 1 \in S
  <2> SUFFICES ASSUME m + 1 <= n PROVE \E f \in [0..m + 1 -> V] : Steps(f, m + 1)
    OBVIOUS
  <2>1. PICK f \in [0..m -> V] : Steps(f, m)  BY <1>2
  <2> DEFINE g == [k \in 0..m + 1 |-> IF k = m + 1 THEN G[m + 1][f[m]] ELSE f[k]]
  <2>2. G[m + 1][f[m]] \in V  OBVIOUS
  <2>3. g \in [0..m + 1 -> V]  BY <2>2
  <2>4. \A k \in 0..m : g[k] = f[k]  OBVIOUS
  <2>5. g[m + 1] = G[m + 1][g[m]]  BY <2>4
  <2> HIDE DEF g
  <2>6. \A k \in 1..m + 1 : k = m + 1 \/ (k \in 1..m /\ k - 1 \in 0..m)  OBVIOUS
  <2>7. g[0] = v0 /\ 0 \in 0..m  BY <2>1, <2>4
  <2>8. \A k \in 1..m : g[k] = G[k][g[k - 1]]  BY <2>1, <2>4
  <2>9. (m + 1) - 1 = m  OBVIOUS
  <2>10. Steps(g, m + 1)  BY <2>5, <2>6, <2>7, <2>8, <2>9
  <2> QED  BY <2>3, <2>10
<1> HIDE DEF S
<1>3. n \in S  BY <1>1, <1>2, Induction
<1> QED  BY <1>3 DEF S, SomeRun

-----------------------------------------------------------------------------
(* The statistics of the draws.                                            *)

Negative == {f \in Int : f <= 0}
Statistics == [pos_min : Nat, pos_max : Nat, neg_min : Negative, neg_max : Negative]

\* A draw below 0 with none of 0 behind it.
IsLater(d, k) == d[k] < 0 /\ \A j \in k..Len(d) : d[j] # 0
PositiveOf(s, d) ==
    /\ \A k \in 1..Len(d) :
          d[k] > 0 => s.pos_min # 0 /\ s.pos_min <= d[k] /\ d[k] <= s.pos_max
    /\ s.pos_min # 0 => \E k \in 1..Len(d) : d[k] = s.pos_min
    /\ s.pos_max # 0 => \E k \in 1..Len(d) : d[k] = s.pos_max
NegativeOf(s, d) ==
    /\ \A k \in 1..Len(d) : d[k] < 0 => s.neg_max <= d[k]
    /\ s.neg_max # 0 => \E k \in 1..Len(d) : d[k] = s.neg_max
    /\ \A k \in 1..Len(d) : IsLater(d, k) => s.neg_min # 0 /\ d[k] <= s.neg_min
    /\ s.neg_min # 0 => \E k \in 1..Len(d) : IsLater(d, k) /\ d[k] = s.neg_min
StatsOf(s, d) == s \in Statistics /\ PositiveOf(s, d) /\ NegativeOf(s, d)

\* One call of get_random_data.
LEMMA TrackedStep ==
    ASSUME NEW d \in Seq(Int), NEW f \in Int, NEW s, StatsOf(s, d)
    PROVE  StatsOf(Tracked(s, f), Append(d, f))
<1> DEFINE t == Tracked(s, f)
           e == Append(d, f)
           n == Len(d)
<1>1. /\ n \in Nat /\ e \in Seq(Int) /\ Len(e) = n + 1 /\ e[n + 1] = f
      /\ \A k \in 1..n : e[k] = d[k] /\ d[k] \in Int
  OBVIOUS
<1>2. s \in Statistics /\ PositiveOf(s, d) /\ NegativeOf(s, d)  BY DEF StatsOf
<1>3. \A k \in 1..n + 1 : k \in 1..n \/ k = n + 1  BY <1>1
<1>4. n + 1 \in 1..n + 1 /\ \A k \in 1..n : k \in 1..n + 1  BY <1>1
<1>5. /\ s.pos_min \in Nat /\ s.pos_max \in Nat /\ s.neg_min \in Negative
      /\ s.neg_max \in Negative
  BY <1>2 DEF Statistics
<1>6. CASE f > 0
  <2>1. /\ t \in Statistics
        /\ t.pos_max = IF f > s.pos_max THEN f ELSE s.pos_max
        /\ t.pos_min = IF s.pos_min = 0 \/ f < s.pos_min THEN f ELSE s.pos_min
        /\ t.neg_max = s.neg_max /\ t.neg_min = s.neg_min
    BY <1>2, <1>6 DEF Tracked, IsPositive, PosMin, Statistics
  <2> HIDE DEF t, e, n
  <2>2. PositiveOf(t, e)
    <3>1. ASSUME NEW k \in 1..n + 1, e[k] > 0
          PROVE  t.pos_min # 0 /\ t.pos_min <= e[k] /\ e[k] <= t.pos_max
      <4>1. CASE k = n + 1  BY <1>1, <1>5, <1>6, <2>1, <4>1
      <4>2. CASE k \in 1..n
        <5>1. e[k] = d[k] /\ d[k] \in Int /\ d[k] > 0  BY <1>1, <3>1, <4>2
        <5>2. s.pos_min # 0 /\ s.pos_min <= d[k] /\ d[k] <= s.pos_max
          BY <1>2, <4>2, <5>1 DEF PositiveOf, n
        <5> QED  BY <1>5, <1>6, <2>1, <5>1, <5>2
      <4> QED  BY <1>3, <4>1, <4>2
    <3>2. t.pos_min # 0 => \E k \in 1..n + 1 : e[k] = t.pos_min
      BY <1>1, <1>2, <1>4, <2>1 DEF PositiveOf, n
    <3>3. t.pos_max # 0 => \E k \in 1..n + 1 : e[k] = t.pos_max
      BY <1>1, <1>2, <1>4, <2>1 DEF PositiveOf, n
    <3> QED  BY <1>1, <3>1, <3>2, <3>3 DEF PositiveOf
  <2>3. \A k \in 1..n : IsLater(e, k) <=> IsLater(d, k)
    <3> SUFFICES ASSUME NEW k \in 1..n PROVE IsLater(e, k) <=> IsLater(d, k)  OBVIOUS
    <3>1. \A j \in k..n + 1 : (j \in k..n /\ j \in 1..n) \/ j = n + 1  BY <1>1
    <3>2. \A j \in k..n : j \in k..n + 1 /\ j \in 1..n  BY <1>1
    <3>3. e[n + 1] # 0  BY <1>1, <1>6
    <3>4. (\A j \in k..n + 1 : e[j] # 0) <=> (\A j \in k..n : d[j] # 0)
      BY <1>1, <3>1, <3>2, <3>3
    <3>5. e[k] = d[k]  BY <1>1
    <3> QED  BY <1>1, <3>4, <3>5 DEF IsLater, n
  <2>4. ~(e[n + 1] < 0)  BY <1>1, <1>6
  <2>5. NegativeOf(t, e)
    BY <1>1, <1>2, <1>3, <1>4, <2>1, <2>3, <2>4 DEF NegativeOf, IsLater, n
  <2> QED  BY <2>1, <2>2, <2>5 DEF StatsOf, t, e
<1>7. CASE ~(f > 0)
  <2>1. /\ t \in Statistics
        /\ t.neg_max = IF f < s.neg_max THEN f ELSE s.neg_max
        /\ t.neg_min = IF (s.neg_min = 0 /\ f # 0) \/ f > s.neg_min THEN f ELSE s.neg_min
        /\ t.pos_max = s.pos_max /\ t.pos_min = s.pos_min
    BY <1>2, <1>7 DEF Tracked, IsPositive, Statistics, Negative
  <2> HIDE DEF t, e, n
  <2>2. PositiveOf(t, e)
    BY <1>1, <1>2, <1>3, <1>4, <1>7, <2>1 DEF PositiveOf, n
  <2>3. \A k \in 1..n : IsLater(e, k) <=> IsLater(d, k) /\ f # 0
    <3> SUFFICES ASSUME NEW k \in 1..n PROVE IsLater(e, k) <=> IsLater(d, k) /\ f # 0
      OBVIOUS
    <3>1. \A j \in k..n + 1 : (j \in k..n /\ j \in 1..n) \/ j = n + 1  BY <1>1
    <3>2. n + 1 \in k..n + 1 /\ \A j \in k..n : j \in k..n + 1 /\ j \in 1..n  BY <1>1
    <3> QED  BY <1>1, <3>1, <3>2 DEF IsLater, n
  <2>4. IsLater(e, n + 1) <=> f < 0
    <3>1. \A j \in n + 1..n + 1 : j = n + 1  BY <1>1
    <3> QED  BY <1>1, <3>1 DEF IsLater
  <2>5. s.neg_min <= 0 /\ s.neg_max <= 0 /\ s.neg_min \in Int /\ s.neg_max \in Int
    BY <1>5 DEF Negative
  <2>6. ASSUME NEW k \in 1..n + 1, e[k] < 0 PROVE t.neg_max <= e[k]
    <3>1. CASE k = n + 1  BY <1>1, <2>1, <2>5, <3>1
    <3>2. CASE k \in 1..n
      <4>1. e[k] = d[k] /\ d[k] \in Int /\ d[k] < 0  BY <1>1, <2>6, <3>2
      <4>2. s.neg_max <= d[k]  BY <1>2, <3>2, <4>1 DEF NegativeOf, n
      <4> QED  BY <1>1, <2>1, <2>5, <4>1, <4>2
    <3> QED  BY <1>3, <3>1, <3>2
  <2>7. t.neg_max # 0 => \E k \in 1..n + 1 : e[k] = t.neg_max
    BY <1>1, <1>2, <1>4, <2>1 DEF NegativeOf, n
  <2>8. ASSUME NEW k \in 1..n + 1, IsLater(e, k)
        PROVE  t.neg_min # 0 /\ e[k] <= t.neg_min
    <3>1. CASE k = n + 1  BY <1>1, <2>1, <2>4, <2>5, <2>8, <3>1
    <3>2. CASE k \in 1..n
      <4>1. f < 0 /\ IsLater(d, k) /\ d[k] < 0  BY <1>7, <2>3, <2>8, <3>2 DEF IsLater
      <4>2. s.neg_min # 0 /\ d[k] <= s.neg_min
        BY <1>2, <3>2, <4>1 DEF NegativeOf, n
      <4> QED  BY <1>1, <2>1, <2>5, <3>2, <4>1, <4>2
    <3> QED  BY <1>3, <3>1, <3>2
  <2>9. t.neg_min # 0 => \E k \in 1..n + 1 : IsLater(e, k) /\ e[k] = t.neg_min
    <3> SUFFICES ASSUME t.neg_min # 0
                 PROVE  \E k \in 1..n + 1 : IsLater(e, k) /\ e[k] = t.neg_min
      OBVIOUS
    <3>1. CASE t.neg_min = f
      <4>1. f < 0  BY <1>7, <3>1
      <4> QED  BY <1>1, <1>4, <2>4, <3>1, <4>1
    <3>2. CASE t.neg_min # f
      <4>1. t.neg_min = s.neg_min /\ f # 0  BY <1>7, <2>1, <2>5, <3>2
      <4>2. PICK k \in 1..n : IsLater(d, k) /\ d[k] = s.neg_min
        BY <1>2, <4>1 DEF NegativeOf, n
      <4> QED  BY <1>1, <1>4, <2>3, <4>1, <4>2
    <3> QED  BY <3>1, <3>2
  <2>10. NegativeOf(t, e)  BY <1>1, <2>6, <2>7, <2>8, <2>9 DEF NegativeOf
  <2> QED  BY <2>1, <2>2, <2>10 DEF StatsOf, t, e
<1> QED  BY <1>1, <1>6, <1>7

LEMMA TrackedType ==
    \A t \in Statistics, f \in Int : Tracked(t, f) \in Statistics
  BY DEF Tracked, IsPositive, PosMin, Statistics, Negative

LEMMA AppendConcat ==
    \A t, u \in Seq(Int), v \in Int : Append(t \o u, v) = t \o Append(u, v)
<1> SUFFICES ASSUME NEW t \in Seq(Int), NEW u \in Seq(Int), NEW v \in Int
             PROVE  Append(t \o u, v) = t \o Append(u, v)
  OBVIOUS
<1>1. t \o u \in Seq(Int) /\ <<v>> \in Seq(Int)  BY ConcatProperties
<1>2. Append(t \o u, v) = (t \o u) \o <<v>>  BY <1>1, AppendIsConcat
<1>3. Append(u, v) = u \o <<v>>  BY AppendIsConcat
<1>4. (t \o u) \o <<v>> = t \o (u \o <<v>>)  BY <1>1, ConcatAssociative
<1> QED  BY <1>2, <1>3, <1>4

\* The sequence up to its k-th value.
LEMMA UpToNext ==
    ASSUME NEW d \in Seq(Int), NEW fs \in Seq(Int), NEW k \in Nat, k + 1 <= Len(fs)
    PROVE  /\ d \o SubSeq(fs, 1, k) \in Seq(Int)
           /\ Append(d \o SubSeq(fs, 1, k), fs[k + 1]) = d \o SubSeq(fs, 1, k + 1)
<1> DEFINE a == SubSeq(fs, 1, k)
           b == SubSeq(fs, 1, k + 1)
           x == fs[k + 1]
<1>1. k + 1 \in 1..Len(fs) /\ \A j \in 1..k + 1 : j \in 1..Len(fs)  OBVIOUS
<1>2. a \in Seq(Int) /\ Len(a) = k /\ \A j \in 1..k : a[j] = fs[j]
  BY <1>1, SubSeqProperties
<1>3. b \in Seq(Int) /\ Len(b) = k + 1 /\ \A j \in 1..k + 1 : b[j] = fs[j]
  BY <1>1, SubSeqProperties
<1>4. x \in Int  BY <1>1, ElementOfSeq
<1> HIDE DEF a, b, x
<1>5. Append(a, x) = b
  <2>1. /\ Append(a, x) \in Seq(Int) /\ Len(Append(a, x)) = k + 1
        /\ \A j \in 1..k + 1 : Append(a, x)[j] = IF j = k + 1 THEN x ELSE a[j]
    BY <1>2, <1>4
  <2>2. \A j \in 1..k + 1 : Append(a, x)[j] = b[j]
    <3> SUFFICES ASSUME NEW j \in 1..k + 1 PROVE Append(a, x)[j] = b[j]  OBVIOUS
    <3>1. j = k + 1 \/ j \in 1..k  OBVIOUS
    <3>2. CASE j = k + 1
      <4>1. k + 1 \in 1..k + 1 /\ b[k + 1] = fs[k + 1]  BY <1>3
      <4>2. Append(a, x)[k + 1] = x  BY <2>1, <4>1
      <4> QED  BY <3>2, <4>1, <4>2 DEF x
    <3>3. CASE j \in 1..k
      <4>1. Append(a, x)[j] = a[j]  BY <2>1, <3>3
      <4> QED  BY <1>2, <1>3, <3>3, <4>1
    <3> QED  BY <3>1, <3>2, <3>3
  <2> QED  BY <1>3, <2>1, <2>2, SeqEqual
<1>6. Append(d \o a, x) = d \o Append(a, x)  BY <1>2, <1>4, AppendConcat
<1> QED  BY <1>2, <1>5, <1>6, ConcatProperties DEF a, b, x

\* The calls for a point, one after the other.
LEMMA TrackedAllStep ==
    ASSUME NEW d \in Seq(Int), NEW fs \in Seq(Int), NEW s, StatsOf(s, d)
    PROVE  StatsOf(TrackedAll(s, fs), d \o fs)
<1> DEFINE n == Len(fs)
           Step(g) == [k \in 0..n |-> IF k = 0 THEN s ELSE Tracked(g[k - 1], fs[k])]
           G == [k \in 1..n |-> [t \in Statistics |-> Tracked(t, fs[k])]]
           after == CHOOSE g : g = Step(g)
<1>1. n \in Nat /\ s \in Statistics /\ \A k \in 1..n : fs[k] \in Int
  BY DEF StatsOf
<1>2. G \in [1..n -> [Statistics -> Statistics]]  BY <1>1, TrackedType
<1>3. TrackedAll(s, fs) = after[n]  BY DEF TrackedAll
<1>4. after = Step(after)
  <2> HIDE DEF n
  <2>1. PICK g \in [0..n -> Statistics] : g[0] = s /\ \A k \in 1..n : g[k] = G[k][g[k - 1]]
    <3> HIDE DEF G
    <3>1. G \in StepsOf(n, Statistics)  BY <1>2 DEF StepsOf
    <3>2. SomeRun(n, Statistics, s, G)  BY <1>1, <3>1, Recursion
    <3> QED  BY <3>2 DEF SomeRun
  <2>2. \A k \in 1..n : k - 1 \in 0..n  BY <1>1
  <2>3. \A k \in 1..n : g[k] = Tracked(g[k - 1], fs[k])  BY <2>1, <2>2
  <2>4. \A k \in 0..n : k = 0 \/ k \in 1..n  BY <1>1
  <2>5. g = Step(g)  BY <2>1, <2>3, <2>4
  <2>6. \E h : h = Step(h)  BY <2>5
  <2> HIDE DEF Step
  <2> QED  BY <2>6, Zenon
<1> HIDE DEF after
<1>5. after[0] = s /\ \A k \in 1..n : after[k] = Tracked(after[k - 1], fs[k])
  <2>1. 0 \in 0..n /\ \A k \in 1..n : k \in 0..n /\ k # 0  BY <1>1
  <2> QED  BY <1>4, <2>1
<1> HIDE DEF Step, G, n
<1> DEFINE S == {k \in Nat : k <= n => StatsOf(after[k], d \o SubSeq(fs, 1, k))}
<1>6. 0 \in S
  <2>1. SubSeq(fs, 1, 0) = <<>> /\ d \o <<>> = d  BY SubSeqEmpty, ConcatEmptySeq
  <2> QED  BY <1>5, <2>1
<1>7. ASSUME NEW k \in Nat, k \in S PROVE k + 1 \in S
  <2> SUFFICES ASSUME k + 1 <= n PROVE StatsOf(after[k + 1], d \o SubSeq(fs, 1, k + 1))
    OBVIOUS
  <2>1. StatsOf(after[k], d \o SubSeq(fs, 1, k))  BY <1>1, <1>7
  <2>2. after[k + 1] = Tracked(after[k], fs[k + 1]) /\ fs[k + 1] \in Int
    <3>1. k + 1 \in 1..n /\ (k + 1) - 1 = k  BY <1>1
    <3> QED  BY <1>1, <1>5, <3>1
  <2>3. /\ d \o SubSeq(fs, 1, k) \in Seq(Int)
        /\ Append(d \o SubSeq(fs, 1, k), fs[k + 1]) = d \o SubSeq(fs, 1, k + 1)
    BY UpToNext DEF n
  <2> QED  BY <2>1, <2>2, <2>3, TrackedStep
<1> HIDE DEF S
<1>8. n \in S  BY <1>1, <1>6, <1>7, Induction
<1>9. SubSeq(fs, 1, n) = fs  BY SubSeqFull DEF n
<1>10. StatsOf(after[n], d \o SubSeq(fs, 1, n))  BY <1>1, <1>8 DEF S
<1> QED  BY <1>3, <1>9, <1>10 DEF n

LEMMA MaxIs ==
    ASSUME NEW S, S \subseteq Int, NEW m \in S, \A y \in S : m >= y
    PROVE  Max(S) = m
<1>1. \E x \in S : \A y \in S : x >= y  OBVIOUS
<1>2. Max(S) \in S /\ \A y \in S : Max(S) >= y
  <2> DEFINE P(x) == x \in S /\ \A y \in S : x >= y
  <2>1. \E x : P(x)  BY <1>1
  <2>2. Max(S) = CHOOSE x : P(x)  BY Zenon DEF Max
  <2> HIDE DEF P
  <2>3. P(Max(S))  BY <2>1, <2>2, Zenon
  <2> QED  BY <2>3 DEF P
<1>3. m \in Int /\ Max(S) \in Int  BY <1>2
<1>4. Max(S) <= m /\ m <= Max(S)  BY <1>2, <1>3
<1> QED  BY <1>3, <1>4

LEMMA MinIs ==
    ASSUME NEW S, S \subseteq Int, NEW m \in S, \A y \in S : m <= y
    PROVE  Min(S) = m
<1>1. \E x \in S : \A y \in S : x <= y  OBVIOUS
<1>2. Min(S) \in S /\ \A y \in S : Min(S) <= y
  <2> DEFINE P(x) == x \in S /\ \A y \in S : x <= y
  <2>1. \E x : P(x)  BY <1>1
  <2>2. Min(S) = CHOOSE x : P(x)  BY Zenon DEF Min
  <2> HIDE DEF P
  <2>3. P(Min(S))  BY <2>1, <2>2, Zenon
  <2> QED  BY <2>3 DEF P
<1>3. m \in Int /\ Min(S) \in Int  BY <1>2
<1>4. Min(S) <= m /\ m <= Min(S)  BY <1>2, <1>3
<1> QED  BY <1>3, <1>4

LEMMA Greatest ==
    ASSUME NEW n \in Nat, NEW S, S \subseteq 0..n, S # {}
    PROVE  \E m \in S : \A k \in S : k <= m
<1> DEFINE T == {n - k : k \in S}
<1>1. T \subseteq Nat /\ T # {}
  <2>1. \A k \in S : n - k \in Nat  OBVIOUS
  <2> QED  BY <2>1
<1>2. PICK t \in T : \A u \in T : t <= u
  <2> HIDE DEF T
  <2> QED  BY <1>1, Least
<1>3. PICK m \in S : t = n - m  BY <1>2
<1>4. \A k \in S : n - k \in T /\ k \in Int  OBVIOUS
<1>5. \A k \in S : n - m <= n - k  BY <1>2, <1>3, <1>4
<1>6. \A k \in S : k <= m  BY <1>4, <1>5
<1> QED  BY <1>6

\* What the property says in terms of all the draws at once.
LEMMA StatsOfAll ==
    ASSUME draws \in Seq(Int), StatsOf(stats, draws)
    PROVE  StatsAreOfTheDraws
<1> DEFINE n == Len(draws)
           At(ks) == {draws[k] : k \in ks}
           Above == At({k \in DOMAIN draws : draws[k] > 0})
           Below == At({k \in DOMAIN draws : draws[k] < 0})
           Zeros == {k \in DOMAIN draws : draws[k] = 0}
           last_zero == Max({0} \cup Zeros)
           Later == At({k \in {j \in DOMAIN draws : draws[j] < 0} : k > last_zero})
<1>1. /\ n \in Nat /\ DOMAIN draws = 1..n /\ \A k \in 1..n : draws[k] \in Int
  BY LenProperties
<1>2. /\ Above \subseteq Int /\ Below \subseteq Int
      /\ \A f \in Above : \E k \in 1..n : draws[k] = f /\ f > 0
      /\ \A f \in Below : \E k \in 1..n : draws[k] = f /\ f < 0
      /\ \A k \in 1..n : (draws[k] > 0 => draws[k] \in Above)
                         /\ (draws[k] < 0 => draws[k] \in Below)
  BY <1>1
<1>3. PICK z \in {0} \cup Zeros : \A k \in {0} \cup Zeros : k <= z
  <2>1. {0} \cup Zeros \subseteq 0..n /\ {0} \cup Zeros # {}  BY <1>1
  <2> HIDE DEF Zeros, n
  <2> QED  BY <1>1, <2>1, Greatest
<1>4. last_zero = z
  <2>1. {0} \cup Zeros \subseteq Int  BY <1>1
  <2> HIDE DEF Zeros
  <2> QED  BY <1>3, <2>1, MaxIs
<1>5. /\ Later \subseteq Int
      /\ \A f \in Later : \E k \in 1..n : draws[k] = f /\ IsLater(draws, k)
      /\ \A k \in 1..n : IsLater(draws, k) => draws[k] \in Later
  <2> HIDE DEF last_zero
  <2>1. z \in Int /\ (z = 0 \/ (z \in 1..n /\ draws[z] = 0))  BY <1>1, <1>3
  <2>2. \A j \in 1..n : draws[j] = 0 => j <= z  BY <1>1, <1>3
  <2>3. \A k \in 1..n : IsLater(draws, k) <=> draws[k] < 0 /\ k > z
    <3> SUFFICES ASSUME NEW k \in 1..n, draws[k] < 0
                 PROVE  (\A j \in k..n : draws[j] # 0) <=> k > z
      BY DEF IsLater
    <3>1. ASSUME k > z, NEW j \in k..n PROVE draws[j] # 0  BY <1>1, <2>1, <2>2, <3>1
    <3>2. ASSUME ~(k > z) PROVE z \in k..n /\ draws[z] = 0  BY <1>1, <2>1, <3>2
    <3> QED  BY <3>1, <3>2
  <2> HIDE DEF Zeros, n
  <2> QED  BY <1>1, <1>4, <2>3
<1>6. /\ stats.pos_min \in Nat /\ stats.pos_max \in Nat
      /\ stats.neg_min \in Negative /\ stats.neg_max \in Negative
      /\ PositiveOf(stats, draws) /\ NegativeOf(stats, draws)
  BY DEF StatsOf, Statistics
<1>7. StatsAreOfTheDraws <=>
        /\ stats.pos_min = Min(IF Above = {} THEN {0} ELSE Above)
        /\ stats.pos_max = Max({0} \cup Above)
        /\ stats.neg_max = Min({0} \cup Below)
        /\ stats.neg_min = Max(IF Later = {} THEN {0} ELSE Later)
  BY DEF StatsAreOfTheDraws
<1> HIDE DEF Above, Below, Later, n
<1>8. stats.pos_min = Min(IF Above = {} THEN {0} ELSE Above)
  <2> DEFINE S == IF Above = {} THEN {0} ELSE Above
  <2>1. S \subseteq Int  BY <1>2
  <2>2. stats.pos_min \in S /\ \A y \in S : stats.pos_min <= y
    BY <1>1, <1>2, <1>6 DEF PositiveOf, n
  <2> HIDE DEF S
  <2>3. Min(S) = stats.pos_min  BY <2>1, <2>2, MinIs
  <2> QED  BY <2>3 DEF S
<1>9. stats.pos_max = Max({0} \cup Above)
  <2> DEFINE S == {0} \cup Above
  <2>1. S \subseteq Int  BY <1>2
  <2>2. stats.pos_max \in S /\ \A y \in S : stats.pos_max >= y
    BY <1>1, <1>2, <1>6 DEF PositiveOf, n
  <2> HIDE DEF S
  <2>3. Max(S) = stats.pos_max  BY <2>1, <2>2, MaxIs
  <2> QED  BY <2>3 DEF S
<1>10. stats.neg_max = Min({0} \cup Below)
  <2> DEFINE S == {0} \cup Below
  <2>1. S \subseteq Int  BY <1>2
  <2>2. stats.neg_max \in S /\ \A y \in S : stats.neg_max <= y
    BY <1>1, <1>2, <1>6 DEF NegativeOf, Negative, n
  <2> HIDE DEF S
  <2>3. Min(S) = stats.neg_max  BY <2>1, <2>2, MinIs
  <2> QED  BY <2>3 DEF S
<1>11. stats.neg_min = Max(IF Later = {} THEN {0} ELSE Later)
  <2> DEFINE S == IF Later = {} THEN {0} ELSE Later
  <2>1. S \subseteq Int  BY <1>5
  <2>2. stats.neg_min \in S /\ \A y \in S : stats.neg_min >= y
    BY <1>1, <1>5, <1>6 DEF NegativeOf, Negative, n
  <2> HIDE DEF S
  <2>3. Max(S) = stats.neg_min  BY <2>1, <2>2, MaxIs
  <2> QED  BY <2>3 DEF S
<1> QED  BY <1>7, <1>8, <1>9, <1>10, <1>11

-----------------------------------------------------------------------------
(* The types of the generator and of the binary reader.                    *)

\* The distance of whole coordinates is a number: Haversine stands for a function of C.
HaversineIsNumber == \A x0, y0, x1, y1 \in Int : Haversine(x0, y0, x1, y1) \in Int

\* rand() has a value for every draw to come, and the statistics are those of the draws.
GeneratorInv ==
    /\ HaversineIsNumber /\ GenTypeOK
    /\ seed \in Seq(0..RAND_MAX) /\ 6 * count <= Len(seed)
    /\ Len(draws) <= 6 * Len(points) /\ Len(points) <= count
    /\ StatsOf(stats, draws)

\* A reader that has not started yet stands at the start of whatever file it will open.
PipelineTypeInv ==
    GeneratorInv /\ TypeOK /\ (reader_status = "start" => binary_pos = 0)

Point == [{"x0", "y0", "x1", "y1"} -> Int]

LEMMA GeneratorInit == HaversineIsNumber /\ GenInit => GeneratorInv
<1> SUFFICES ASSUME HaversineIsNumber, GenInit PROVE GeneratorInv  OBVIOUS
<1> USE DEF GenInit
<1>1. /\ count \in Counts /\ count \in Nat /\ seed \in Seq(0..RAND_MAX)
      /\ 6 * count <= Len(seed) /\ <<0, 0>> \in Losses
  BY GeneratorAssumption
<1>2. <<>> \in Seq(Int) /\ <<>> \in Seq(Point) /\ <<>> \in Seq(Nat) /\ Len(<<>>) = 0
  BY EmptySeq
<1>3. cluster_threshold \in Nat  BY <1>1, SizeType
<1>4. StatsOf(stats, draws)
  BY <1>2 DEF StatsOf, Statistics, Negative, PositiveOf, NegativeOf
<1>5. GenTypeOK  BY <1>1, <1>2, <1>3 DEF GenTypeOK, Point
<1> QED  BY <1>1, <1>2, <1>4, <1>5 DEF GeneratorInv

LEMMA RadiiType == Radii \in Seq(Int) /\ Len(Radii) \in {4, 6}
                   /\ (Len(Radii) = 6 <=> IsNewCluster)
<1> DEFINE a == IF IsNewCluster THEN <<X_RADIUS, Y_RADIUS>> ELSE <<>>
           b == IF is_clustered
                THEN <<X_RADIUS \div 4, Y_RADIUS \div 4, X_RADIUS \div 4, Y_RADIUS \div 4>>
                ELSE <<X_RADIUS, Y_RADIUS, X_RADIUS, Y_RADIUS>>
<1>1. a \in Seq(Int) /\ Len(a) = IF IsNewCluster THEN 2 ELSE 0
  BY DEF X_RADIUS, Y_RADIUS
<1>2. b \in Seq(Int) /\ Len(b) = 4
  BY DEF X_RADIUS, Y_RADIUS
<1>3. Radii = a \o b  BY DEF Radii
<1> HIDE DEF a, b
<1>4. a \o b \in Seq(Int) /\ Len(a \o b) = Len(a) + Len(b)
  BY <1>1, <1>2, ConcatProperties
<1> QED  BY <1>1, <1>2, <1>3, <1>4

\* A point takes six draws when it starts a cluster, and four otherwise.
LEMMA WriteRowTypes ==
    ASSUME GeneratorInv, WriteRow
    PROVE  GeneratorInv'
<1> DEFINE fs == [k \in DOMAIN Radii |-> fnum(seed[Len(draws) + k], Radii[k])]
           at == Len(fs) - 4
           origin == IF IsNewCluster THEN <<fs[1], fs[2]>> ELSE cluster
           point == [x0 |-> origin[1] + fs[at + 1], y0 |-> origin[2] + fs[at + 2],
                     x1 |-> origin[1] + fs[at + 3], y1 |-> origin[2] + fs[at + 4]]
<1>1. /\ draws' = draws \o fs /\ stats' = TrackedAll(stats, fs) /\ cluster' = origin
      /\ points' = Append(points, point) /\ sum' = sum + Distance(point)
      /\ Len(points) < count
      /\ num_clusters' = num_clusters + (IF IsNewCluster THEN 1 ELSE 0)
      /\ cluster_threshold' = IF IsNewCluster THEN NextThreshold ELSE cluster_threshold
      /\ cluster_of' = Append(cluster_of, num_clusters')
      /\ UNCHANGED <<count, seed, is_clustered, lost, gen_status>>
  BY DEF WriteRow, gen_options
<1>2. /\ HaversineIsNumber /\ StatsOf(stats, draws)
      /\ count \in Counts /\ is_clustered \in BOOLEAN /\ draws \in Seq(Int)
      /\ cluster \in Int \X Int /\ cluster_threshold \in Nat /\ num_clusters \in Nat
      /\ points \in Seq(Point) /\ cluster_of \in Seq(Nat) /\ sum \in Int
      /\ lost \in Losses /\ gen_status \in {"start", "rows", "done", "stopped", "error"}
      /\ seed \in Seq(0..RAND_MAX) /\ 6 * count <= Len(seed)
      /\ Len(draws) <= 6 * Len(points)
  BY DEF GeneratorInv, GenTypeOK, Point
<1>3. /\ count \in Nat /\ RAND_MAX \in Nat \ {0}
      /\ Len(points) \in Nat /\ Len(draws) \in Nat /\ Len(seed) \in Nat
  BY <1>2, GeneratorAssumption
<1>4. /\ Radii \in Seq(Int) /\ Len(Radii) \in {4, 6}
      /\ (Len(Radii) = 6 <=> IsNewCluster)
  BY RadiiType
<1>5. fs \in Seq(Int) /\ Len(fs) = Len(Radii)
  <2> DEFINE n == Len(Radii)
  <2>1. DOMAIN Radii = 1..n /\ n \in Nat /\ \A k \in 1..n : Radii[k] \in Int
    BY <1>4, LenProperties
  <2>2. \A k \in 1..n : seed[Len(draws) + k] \in Int
    <3> SUFFICES ASSUME NEW k \in 1..n PROVE seed[Len(draws) + k] \in Int  OBVIOUS
    <3>0. n = 4 \/ n = 6  BY <1>4
    <3> HIDE DEF n
    <3>1. k \in Int /\ 1 <= k /\ k <= 6  BY <3>0
    <3>2. Len(draws) + k \in 1..Len(seed)
      <4> DEFINE d == Len(draws)
                 p == Len(points)
                 l == Len(seed)
      <4>1. /\ d \in Nat /\ p \in Nat /\ l \in Nat /\ count \in Nat
            /\ d <= 6 * p /\ p < count /\ 6 * count <= l
        BY <1>1, <1>2, <1>3
      <4> HIDE DEF d, p, l
      <4>2. d + k \in 1..l  BY <3>1, <4>1
      <4> QED  BY <4>2 DEF d, l
    <3>3. seed[Len(draws) + k] \in 0..RAND_MAX  BY <1>2, <3>2, ElementOfSeq
    <3> QED  BY <1>3, <3>3
  <2>3. RAND_MAX \div 2 \in Int  BY <1>3
  <2>4. \A r, q \in Int : fnum(r, q) \in Int  BY <2>3 DEF fnum
  <2> HIDE DEF n
  <2>5. fs = [k \in 1..n |-> fnum(seed[Len(draws) + k], Radii[k])]  BY <2>1
  <2>6. fs \in [1..n -> Int]  BY <2>1, <2>2, <2>4, <2>5
  <2>7. fs \in Seq(Int) /\ Len(fs) = n  BY <2>1, <2>6
  <2> QED  BY <2>7 DEF n
<1> HIDE DEF fs
<1>6. /\ at \in Nat /\ \A k \in 1..4 : fs[at + k] \in Int
      /\ IsNewCluster => fs[1] \in Int /\ fs[2] \in Int
  <2>1. \A k \in 1..Len(fs) : fs[k] \in Int  BY <1>5, ElementOfSeq
  <2> DEFINE n == Len(fs)
  <2>2. n = 4 \/ n = 6  BY <1>4, <1>5
  <2>3. IsNewCluster => n = 6  BY <1>4, <1>5
  <2> HIDE DEF n
  <2>4. n - 4 \in Nat /\ 1 \in 1..n /\ 2 \in 1..n
        /\ \A k \in 1..4 : (n - 4) + k \in 1..n
    BY <2>2
  <2> QED  BY <2>1, <2>3, <2>4 DEF n
<1> HIDE DEF at
<1>7. origin \in Int \X Int  BY <1>2, <1>6
<1> HIDE DEF origin
<1>8. point \in Point
  <2>1. origin[1] \in Int /\ origin[2] \in Int  BY <1>7
  <2>2. fs[at + 1] \in Int /\ fs[at + 2] \in Int /\ fs[at + 3] \in Int /\ fs[at + 4] \in Int
    BY <1>6
  <2> QED  BY <2>1, <2>2 DEF Point
<1> HIDE DEF point
<1>9. Distance(point) \in Int
  <2>1. point.x0 \in Int /\ point.y0 \in Int /\ point.x1 \in Int /\ point.y1 \in Int
    BY <1>8 DEF Point
  <2> QED  BY <1>2, <2>1 DEF Distance, HaversineIsNumber
<1>10. draws' \in Seq(Int) /\ Len(draws') = Len(draws) + Len(fs)
  <2>1. draws \in Seq(Int) /\ fs \in Seq(Int)  BY <1>2, <1>5
  <2>2. draws \o fs \in Seq(Int) /\ Len(draws \o fs) = Len(draws) + Len(fs)
    BY <2>1, ConcatProperties
  <2> QED  BY <1>1, <2>2
<1>11. points' \in Seq(Point) /\ Len(points') = Len(points) + 1
  BY <1>1, <1>2, <1>8
<1>12. num_clusters' \in Nat /\ cluster_threshold' \in Nat /\ cluster_of' \in Seq(Nat)
  <2>1. NextThreshold \in Nat
    <3>1. count \div NUM_CLUSTERS \in Nat  BY <1>3, SizeType
    <3>2. cluster_threshold \in Nat  BY <1>2
    <3> QED  BY <3>1, <3>2 DEF NextThreshold
  <2>2. num_clusters' \in Nat /\ cluster_threshold' \in Nat  BY <1>1, <1>2, <2>1
  <2> QED  BY <1>1, <1>2, <2>2
<1>13. StatsOf(stats', draws')  BY <1>1, <1>2, <1>5, TrackedAllStep
<1>14. /\ {stats'.pos_min, stats'.pos_max} \subseteq Nat
       /\ {-stats'.neg_min, -stats'.neg_max} \subseteq Nat
  BY <1>13 DEF StatsOf, Statistics, Negative
<1>15. GenTypeOK'
  <2>1. count' \in Counts /\ is_clustered' \in BOOLEAN /\ lost' \in Losses
        /\ gen_status' \in {"start", "rows", "done", "stopped", "error"}
    BY <1>1, <1>2
  <2>2. cluster' \in Int \X Int  BY <1>1, <1>7
  <2>3. sum' \in Int  BY <1>1, <1>2, <1>9
  <2>4. {cluster_threshold', num_clusters'} \subseteq Nat  BY <1>12
  <2> QED  BY <1>10, <1>11, <1>12, <1>14, <2>1, <2>2, <2>3, <2>4 DEF GenTypeOK, Point
<1>16. Len(draws') <= 6 * Len(points') /\ Len(points') <= count'
  <2> DEFINE n == Len(fs)
             d == Len(draws)
             p == Len(points)
  <2>0. n = 4 \/ n = 6  BY <1>4, <1>5
  <2>1. /\ d \in Nat /\ p \in Nat /\ count \in Nat /\ d <= 6 * p /\ p < count
    BY <1>1, <1>2, <1>3
  <2>2. Len(draws') = d + n /\ Len(points') = p + 1 /\ count' = count
    BY <1>1, <1>10, <1>11
  <2> HIDE DEF n, d, p
  <2>3. d + n <= 6 * (p + 1) /\ p + 1 <= count  BY <2>0, <2>1
  <2> QED  BY <2>2, <2>3
<1> QED  BY <1>1, <1>2, <1>13, <1>15, <1>16 DEF GeneratorInv, HaversineIsNumber

\* The other steps of the generator draw nothing.
LEMMA GeneratorOther ==
    ASSUME GeneratorInv, OpenOutput \/ CloseOutput \/ Stop
    PROVE  GeneratorInv'
<1>1. UNCHANGED <<count, seed, is_clustered, draws, stats, cluster, cluster_threshold,
                  num_clusters, points, cluster_of, sum>>
  BY DEF OpenOutput, CloseOutput, Stop, gen_options, gen_data
<1>2. lost' \in Losses
  BY DEF OpenOutput, CloseOutput, Stop, GeneratorInv, GenTypeOK
<1>3. gen_status' \in {"start", "rows", "done", "stopped", "error"}
  BY DEF OpenOutput, CloseOutput, Stop
<1> QED  BY <1>1, <1>2, <1>3 DEF GeneratorInv, GenTypeOK, HaversineIsNumber

LEMMA GeneratorSame ==
    ASSUME GeneratorInv, UNCHANGED gen_vars
    PROVE  GeneratorInv'
  BY DEF GeneratorInv, GenTypeOK, HaversineIsNumber, gen_vars, gen_options, gen_data

\* The binary file is a sequence of numbers, five for a point, also without its end.
LEMMA BinaryFileType ==
    ASSUME GeneratorInv
    PROVE  BinaryFile \in Seq(Int)
<1> DEFINE n == 5 * Len(points)
           At(k) == BinaryRow(points[1 + (k - 1) \div 5])[1 + ((k - 1) % 5)]
<1>1. points \in Seq(Point) /\ Len(points) \in Nat /\ lost \in Losses
  BY DEF GeneratorInv, GenTypeOK, Point
<1>2. \A p \in Point : \A j \in 1..5 : BinaryRow(p)[j] \in Int
  <2> SUFFICES ASSUME NEW p \in Point, NEW j \in 1..5 PROVE BinaryRow(p)[j] \in Int
    OBVIOUS
  <2>1. p.x0 \in Int /\ p.y0 \in Int /\ p.x1 \in Int /\ p.y1 \in Int  BY DEF Point
  <2>2. Distance(p) \in Int
    BY <2>1 DEF GeneratorInv, HaversineIsNumber, Distance
  <2> QED  BY <2>1, <2>2 DEF BinaryRow
<1>3. ASSUME NEW k \in 1..n PROVE At(k) \in Int
  <2> DEFINE q == 1 + (k - 1) \div 5
             r == 1 + ((k - 1) % 5)
             m == Len(points)
  <2>1. q \in 1..m /\ r \in 1..5
    <3>1. k \in 1..5 * m /\ m \in Nat  BY <1>1
    <3> HIDE DEF m
    <3> QED  BY <3>1
  <2> HIDE DEF q, r
  <2>2. points[q] \in Point  BY <1>1, <2>1, ElementOfSeq DEF m
  <2>3. BinaryRow(points[q])[r] \in Int  BY <1>2, <2>1, <2>2
  <2> QED  BY <2>3 DEF q, r
<1>4. AllWritten = [k \in 1..n |-> At(k)]  BY DEF AllWritten
<1>5. n \in Nat  BY <1>1
<1> HIDE DEF At, n
<1>6. AllWritten \in [1..n -> Int]  BY <1>3, <1>4
<1>7. AllWritten \in Seq(Int)  BY <1>5, <1>6
<1>8. lost[2] \in Nat  BY <1>1, GeneratorAssumption
<1>9. \A s \in Seq(Int), l \in Nat : WithoutLast(s, l) \in Seq(Int)
  <2> SUFFICES ASSUME NEW s \in Seq(Int), NEW l \in Nat PROVE WithoutLast(s, l) \in Seq(Int)
    OBVIOUS
  <2> DEFINE last == IF l < Len(s) THEN Len(s) - l ELSE 0
  <2>1. last \in Nat /\ last <= Len(s) /\ Len(s) \in Nat  OBVIOUS
  <2> HIDE DEF last
  <2>2. \A k \in 1..last : k \in 1..Len(s)  BY <2>1
  <2>3. SubSeq(s, 1, last) \in Seq(Int)  BY <2>1, <2>2, SubSeqProperties
  <2> QED  BY <2>3 DEF WithoutLast, last
<1> QED  BY <1>7, <1>8, <1>9 DEF BinaryFile

LEMMA ReaderTypes ==
    ASSUME PipelineTypeInv, ReaderStep
    PROVE  PipelineTypeInv'
<1> USE DEF PipelineTypeInv
<1>1. GeneratorInv' /\ stage' = stage /\ Reader!ReadBinary
  BY GeneratorSame DEF ReaderStep
<1>2. /\ binary \in Seq(Int) /\ binary_pos \in 0..Len(binary)
      /\ fields \in Seq(Int) /\ Len(fields) <= 5
      /\ rows_read \in Seq(Seq(Int)) /\ calc_sum \in Int
      /\ reader_status \in {"start", "reading", "done", "error"}
      /\ stage \in {"generator", "reader", "parser"}
  BY DEF TypeOK
<1>3. Len(binary) \in Nat /\ Len(fields) \in Nat  BY <1>2
<1>4. CASE Reader!ReadDouble
  <2>1. /\ reader_status = "reading" /\ Len(fields) < 5 /\ binary_pos < Len(binary)
        /\ fields' = Append(fields, binary[binary_pos + 1]) /\ binary_pos' = binary_pos + 1
        /\ UNCHANGED <<binary, rows_read, calc_sum, reader_status>>
    BY <1>4 DEF Reader!ReadDouble
  <2>2. binary_pos + 1 \in 1..Len(binary)  BY <1>2, <1>3, <2>1
  <2>3. binary[binary_pos + 1] \in Int  BY <1>2, <2>2, ElementOfSeq
  <2>4. fields' \in Seq(Int) /\ Len(fields') <= 5  BY <1>2, <1>3, <2>1, <2>3
  <2>5. binary_pos' \in 0..Len(binary')  BY <1>3, <2>1, <2>2
  <2> QED  BY <1>1, <1>2, <2>1, <2>4, <2>5 DEF TypeOK, GeneratorInv
<1>5. CASE Reader!CheckRow
  <2> DEFINE d == Haversine(fields[1], fields[2], fields[3], fields[4])
  <2>1. /\ Len(fields) = 5 /\ fields' = <<>> /\ UNCHANGED <<binary, binary_pos>>
        /\ reader_status' \in {"reading", "error"}
        /\ \/ UNCHANGED <<rows_read, calc_sum>>
           \/ rows_read' = Append(rows_read, fields) /\ calc_sum' = calc_sum + d
    BY <1>5 DEF Reader!CheckRow
  <2>2. d \in Int
    <3>1. \A k \in 1..5 : fields[k] \in Int  BY <1>2, <2>1, ElementOfSeq
    <3>2. fields[1] \in Int /\ fields[2] \in Int /\ fields[3] \in Int /\ fields[4] \in Int
      BY <3>1
    <3> QED  BY <3>2 DEF GeneratorInv, HaversineIsNumber
  <2> HIDE DEF d
  <2>3. rows_read' \in Seq(Seq(Int)) /\ calc_sum' \in Int
    <3>1. Append(rows_read, fields) \in Seq(Seq(Int))  BY <1>2
    <3>2. calc_sum + d \in Int  BY <1>2, <2>2
    <3> QED  BY <1>2, <2>1, <3>1, <3>2
  <2>4. fields' \in Seq(Int) /\ Len(fields') <= 5  BY <2>1, EmptySeq
  <2>5. binary' \in Seq(Int) /\ binary_pos' \in 0..Len(binary')  BY <1>2, <2>1
  <2> QED  BY <1>1, <1>2, <2>1, <2>3, <2>4, <2>5 DEF TypeOK, GeneratorInv
<1>6. CASE Reader!EndOfFile
  <2>1. UNCHANGED <<binary, binary_pos, fields, rows_read, calc_sum>> /\ reader_status' = "done"
    BY <1>6 DEF Reader!EndOfFile
  <2> QED  BY <1>1, <1>2, <2>1 DEF TypeOK, GeneratorInv
<1> QED  BY <1>1, <1>4, <1>5, <1>6 DEF Reader!ReadBinary

LEMMA PipelineTypeInit == HaversineIsNumber /\ Init => PipelineTypeInv
<1> SUFFICES ASSUME HaversineIsNumber, Init PROVE PipelineTypeInv  OBVIOUS
<1>1. GeneratorInv  BY GeneratorInit DEF Init
<1>2. <<>> \in Seq(Int) /\ <<>> \in Seq(Seq(Int)) /\ Len(<<>>) = 0  BY EmptySeq
<1> QED  BY <1>1, <1>2 DEF Init, Reader!ReaderInit, PipelineTypeInv, GeneratorInv, TypeOK

LEMMA PipelineTypeNext == PipelineTypeInv /\ [Next]_vars => PipelineTypeInv'
<1> SUFFICES ASSUME PipelineTypeInv, [Next]_vars PROVE PipelineTypeInv'  OBVIOUS
<1> USE DEF PipelineTypeInv
<1>1. CASE GeneratorStep
  <2>1. GeneratorInv'
    BY <1>1, WriteRowTypes, GeneratorOther DEF GeneratorStep, Generate
  <2> QED  BY <1>1, <2>1 DEF GeneratorStep, TypeOK, GeneratorInv, reader_vars
<1>2. CASE StartReader
  <2>1. GeneratorInv'  BY <1>2, GeneratorSame DEF StartReader
  <2>2. /\ reader_status = "start" /\ binary' = BinaryFile /\ stage' = "reader"
        /\ reader_status' \in {"reading", "error"}
        /\ UNCHANGED <<binary_pos, fields, rows_read, calc_sum>>
    BY <1>2 DEF StartReader, Reader!OpenBinary
  <2>3. binary' \in Seq(Int)  BY <2>2, BinaryFileType
  <2>4. binary_pos' \in 0..Len(binary')
    <3>1. Len(binary') \in Nat /\ binary_pos' = 0  BY <2>2, <2>3
    <3> QED  BY <3>1
  <2> QED  BY <2>1, <2>2, <2>3, <2>4 DEF TypeOK, GeneratorInv
<1>3. CASE ReaderStep  BY <1>3, ReaderTypes
<1>4. CASE StartParser
  BY <1>4, GeneratorSame DEF StartParser, TypeOK, GeneratorInv, reader_vars
<1>5. CASE ParserStep
  BY <1>5, GeneratorSame DEF ParserStep, TypeOK, GeneratorInv, reader_vars
<1>6. CASE UNCHANGED vars
  BY <1>6, GeneratorSame DEF vars, TypeOK, GeneratorInv, reader_vars
<1> QED  BY <1>1, <1>2, <1>3, <1>4, <1>5, <1>6 DEF Next, End

\* The generator and the reader keep their types, whatever is drawn and however much of
\* the output is lost, when the distance is a number.
THEOREM PipelineTypeCorrect == HaversineIsNumber /\ Spec => []TypeOK
<1>1. PipelineTypeInv => TypeOK  BY DEF PipelineTypeInv
<1> QED  BY <1>1, PipelineTypeInit, PipelineTypeNext, PTL DEF Spec

\* Of any draws the statistics are the smallest and the largest above and below 0, with
\* the exception that the property names.
THEOREM GeneratorStatsAreOfTheDraws == HaversineIsNumber /\ Spec => []StatsAreOfTheDraws
<1>1. PipelineTypeInv => StatsAreOfTheDraws
  BY StatsOfAll DEF PipelineTypeInv, GeneratorInv, GenTypeOK
<1> QED  BY <1>1, PipelineTypeInit, PipelineTypeNext, PTL DEF Spec

-----------------------------------------------------------------------------
(* The text of the JSON file, token by token.                              *)

Texts == {"{", "}", "[", "]", ":", ",", " ", "\"", "p", "a", "i", "r", "s",
          "x0", "y0", "x1", "y1", "number"}
Tokens == [text : Texts, width : Nat, value : Int]

LEMMA ConcatAt ==
    \A s, t \in Seq(Tokens) :
        /\ s \o t \in Seq(Tokens) /\ Len(s \o t) = Len(s) + Len(t)
        /\ \A i \in 1..Len(s) : (s \o t)[i] = s[i]
        /\ \A i \in 1..Len(t) : (s \o t)[Len(s) + i] = t[i]
<1> SUFFICES ASSUME NEW s \in Seq(Tokens), NEW t \in Seq(Tokens)
             PROVE  /\ s \o t \in Seq(Tokens) /\ Len(s \o t) = Len(s) + Len(t)
                    /\ \A i \in 1..Len(s) : (s \o t)[i] = s[i]
                    /\ \A i \in 1..Len(t) : (s \o t)[Len(s) + i] = t[i]
  OBVIOUS
<1>1. /\ s \o t \in Seq(Tokens) /\ Len(s \o t) = Len(s) + Len(t)
      /\ \A i \in 1..Len(s) + Len(t) :
            (s \o t)[i] = IF i <= Len(s) THEN s[i] ELSE t[i - Len(s)]
  BY ConcatProperties
<1>2. Len(s) \in Nat /\ Len(t) \in Nat  OBVIOUS
<1>3. \A i \in 1..Len(s) : i \in 1..Len(s) + Len(t) /\ i <= Len(s)  BY <1>2
<1>4. \A i \in 1..Len(t) : /\ Len(s) + i \in 1..Len(s) + Len(t) /\ ~(Len(s) + i <= Len(s))
                          /\ (Len(s) + i) - Len(s) = i
  BY <1>2
<1>5. \A i \in 1..Len(s) : (s \o t)[i] = s[i]  BY <1>1, <1>3
<1>6. \A i \in 1..Len(t) : (s \o t)[Len(s) + i] = t[i]  BY <1>1, <1>4
<1> QED  BY <1>1, <1>5, <1>6

\* Where the texts that Joined puts together are found: at[k] tokens precede the k-th.
JoinedAt(j, texts, separator, at, n, len) ==
    /\ Len(j) = at[n] + len
    /\ \A k \in 1..n : at[k] <= at[n] /\ \A i \in 1..len : j[at[k] + i] = texts[k][i]
    /\ \A k \in 1..n - 1 :
          /\ at[k] + len + 2 <= at[n]
          /\ j[at[k] + len + 1] = separator[1] /\ j[at[k] + len + 2] = separator[2]

LEMMA JoinedNext ==
    ASSUME NEW n, n \in Nat \ {0}, NEW len, len \in Nat \ {0}, NEW texts, NEW at, NEW separator,
           texts \in [1..n -> Seq(Tokens)], \A k \in 1..n : Len(texts[k]) = len,
           separator \in Seq(Tokens), Len(separator) = 2,
           at \in [1..n -> Nat], \A k \in 1..n - 1 : at[k + 1] = at[k] + len + 2,
           NEW m, m \in 1..n - 1, NEW j, j \in Seq(Tokens),
           JoinedAt(j, texts, separator, at, m, len)
    PROVE  /\ j \o separator \o texts[m + 1] \in Seq(Tokens)
           /\ JoinedAt(j \o separator \o texts[m + 1], texts, separator, at, m + 1, len)
<1> DEFINE t == texts[m + 1]
           a == j \o separator
           b == a \o t
           l == at[m] + len
<1>1. /\ t \in Seq(Tokens) /\ Len(t) = len /\ at[m] \in Nat /\ l \in Nat /\ m \in Nat
      /\ at[m + 1] = l + 2 /\ Len(j) = l
  BY DEF JoinedAt
<1> HIDE DEF t
<1>2. /\ a \in Seq(Tokens) /\ Len(a) = l + 2
      /\ \A i \in 1..l : a[i] = j[i]
      /\ a[l + 1] = separator[1] /\ a[l + 2] = separator[2]
  <2>1. 1 \in 1..Len(separator) /\ 2 \in 1..Len(separator)  OBVIOUS
  <2>2. /\ a \in Seq(Tokens) /\ Len(a) = Len(j) + Len(separator)
        /\ \A i \in 1..Len(j) : a[i] = j[i]
        /\ \A i \in 1..Len(separator) : a[Len(j) + i] = separator[i]
    BY ConcatAt
  <2> HIDE DEF l, a
  <2> QED  BY <1>1, <2>1, <2>2
<1> HIDE DEF a, l
<1>3. /\ b \in Seq(Tokens) /\ Len(b) = l + 2 + len
      /\ \A i \in 1..l + 2 : b[i] = a[i]
      /\ \A i \in 1..len : b[l + 2 + i] = t[i]
  <2>1. a \in Seq(Tokens) /\ t \in Seq(Tokens) /\ Len(a) = l + 2 /\ Len(t) = len
    BY <1>1, <1>2
  <2>2. /\ b \in Seq(Tokens) /\ Len(b) = Len(a) + Len(t)
        /\ \A i \in 1..Len(a) : b[i] = a[i]
        /\ \A i \in 1..Len(t) : b[Len(a) + i] = t[i]
    BY <2>1, ConcatAt
  <2> HIDE DEF b
  <2> QED  BY <2>1, <2>2
<1> HIDE DEF b
<1>4. /\ \A i \in 1..l : b[i] = j[i]
      /\ b[l + 1] = separator[1] /\ b[l + 2] = separator[2]
  <2>1. /\ \A i \in 1..l : i \in 1..l + 2
        /\ l + 1 \in 1..l + 2 /\ l + 2 \in 1..l + 2
    BY <1>1
  <2> QED  BY <1>2, <1>3, <2>1
<1>5. \A k \in 1..m + 1 : k = m + 1 \/ k \in 1..m  BY <1>1
<1>6. \A k \in 1..m : k = m \/ k \in 1..m - 1  BY <1>1
<1>7. \A k \in 1..m : at[k] \in Nat /\ at[k] <= at[m]  BY <1>1 DEF JoinedAt
<1>8. ASSUME NEW k \in 1..m + 1
      PROVE  at[k] <= at[m + 1] /\ \A i \in 1..len : b[at[k] + i] = texts[k][i]
  <2>1. CASE k = m + 1
    <3>1. at[k] = l + 2 /\ texts[k] = t  BY <1>1, <2>1 DEF t
    <3>2. at[m + 1] = at[k] /\ at[k] \in Int  BY <1>1, <2>1, <3>1
    <3>3. \A i \in 1..len : b[at[k] + i] = texts[k][i]  BY <1>3, <3>1
    <3> QED  BY <3>2, <3>3
  <2>2. CASE k \in 1..m
    <3>1. \A i \in 1..len : at[k] + i \in 1..l
      <4> DEFINE p == at[k]
                 q == at[m]
      <4>1. p \in Nat /\ q \in Nat /\ p <= q /\ l = q + len  BY <1>1, <1>7, <2>2 DEF l
      <4> HIDE DEF p, q
      <4>2. \A i \in 1..len : p + i \in 1..l  BY <4>1
      <4> QED  BY <4>2 DEF p
    <3>2. at[k] <= at[m + 1]  BY <1>1, <1>7, <2>2 DEF l
    <3>3. \A i \in 1..len : j[at[k] + i] = texts[k][i]  BY <2>2 DEF JoinedAt
    <3> QED  BY <1>4, <3>1, <3>2, <3>3
  <2> QED  BY <1>5, <2>1, <2>2
<1>9. ASSUME NEW k \in 1..m
      PROVE  /\ at[k] + len + 2 <= at[m + 1]
             /\ b[at[k] + len + 1] = separator[1] /\ b[at[k] + len + 2] = separator[2]
  <2>1. CASE k = m  BY <1>1, <1>4, <2>1 DEF l
  <2>2. CASE k \in 1..m - 1
    <3>1. /\ at[k] + len + 2 <= at[m] /\ at[k] \in Nat
          /\ j[at[k] + len + 1] = separator[1] /\ j[at[k] + len + 2] = separator[2]
      BY <1>7, <1>9, <2>2 DEF JoinedAt
    <3> DEFINE p == at[k]
               q == at[m]
    <3>2. q \in Nat /\ l = q + len /\ at[m + 1] = l + 2  BY <1>1 DEF l
    <3> HIDE DEF p, q
    <3>3. p + len + 1 \in 1..l /\ p + len + 2 \in 1..l /\ p + len + 2 <= l + 2
      <4>1. p \in Nat /\ p + len + 2 <= q  BY <3>1 DEF p, q
      <4> QED  BY <3>2, <4>1
    <3> QED  BY <1>4, <3>1, <3>2, <3>3 DEF p
  <2> QED  BY <1>6, <2>1, <2>2
<1>10. (m + 1) - 1 = m  BY <1>1
<1>11. JoinedAt(b, texts, separator, at, m + 1, len)
  BY <1>1, <1>3, <1>8, <1>9, <1>10 DEF JoinedAt
<1> QED  BY <1>3, <1>11 DEF a, b, t

LEMMA JoinedIs ==
    ASSUME NEW n, n \in Nat, NEW len, len \in Nat \ {0}, NEW texts, NEW at, NEW separator,
           texts \in [1..n -> Seq(Tokens)], \A k \in 1..n : Len(texts[k]) = len,
           separator \in Seq(Tokens), Len(separator) = 2,
           at \in [1..n -> Nat], \A k \in 1..n - 1 : at[k + 1] = at[k] + len + 2,
           n # 0 => at[1] = 0
    PROVE  /\ Joined(texts, separator) \in Seq(Tokens)
           /\ n = 0 => Len(Joined(texts, separator)) = 0
           /\ n # 0 => JoinedAt(Joined(texts, separator), texts, separator, at, n, len)
<1> DEFINE At(g, k) == IF k = 0 THEN <<>>
                       ELSE IF k = 1 THEN texts[1] ELSE g[k - 1] \o separator \o texts[k]
           Step(g) == [k \in 0..Len(texts) |-> At(g, k)]
           G == [k \in 1..n |-> [t \in Seq(Tokens) |->
                   IF k = 1 THEN texts[1] ELSE t \o separator \o texts[k]]]
           joined == CHOOSE g : g = Step(g)
<1>1. Len(texts) = n /\ <<>> \in Seq(Tokens) /\ Len(<<>>) = 0  BY EmptySeq
<1>2. Joined(texts, separator) = joined[n]
  <2>1. Joined(texts, separator) = joined[Len(texts)]  BY DEF Joined
  <2> HIDE DEF joined
  <2> QED  BY <1>1, <2>1
<1>3. \A s, t \in Seq(Tokens) : s \o t \in Seq(Tokens)  BY ConcatAt
<1>4. G \in StepsOf(n, Seq(Tokens))
  <2>1. ASSUME NEW k \in 1..n, NEW t \in Seq(Tokens)
        PROVE  (IF k = 1 THEN texts[1] ELSE t \o separator \o texts[k]) \in Seq(Tokens)
    <3>1. texts[k] \in Seq(Tokens) /\ t \o separator \in Seq(Tokens)  BY <1>3
    <3> QED  BY <1>3, <3>1
  <2> QED  BY <2>1 DEF StepsOf
<1>5. joined = Step(joined)
  <2>1. PICK g \in [0..n -> Seq(Tokens)] : g[0] = <<>> /\ \A k \in 1..n : g[k] = G[k][g[k - 1]]
    <3> HIDE DEF G
    <3>1. SomeRun(n, Seq(Tokens), <<>>, G)  BY <1>1, <1>4, Recursion
    <3> QED  BY <3>1 DEF SomeRun
  <2>2. ASSUME NEW k \in 0..n
        PROVE  g[k] = At(g, k)
    <3>1. k = 0 \/ k = 1 \/ (k > 1 /\ k # 0 /\ k # 1)  OBVIOUS
    <3>2. CASE k = 0  BY <2>1, <3>2
    <3>3. CASE k = 1
      <4>1. k \in 1..n /\ k - 1 \in 0..n  BY <3>3
      <4>2. g[k] = G[k][g[k - 1]] /\ g[k - 1] \in Seq(Tokens)  BY <2>1, <4>1
      <4>3. g[k] = texts[1]  BY <3>3, <4>1, <4>2
      <4> QED  BY <3>3, <4>3
    <3>4. CASE k > 1 /\ k # 0 /\ k # 1
      <4>1. k \in 1..n /\ k - 1 \in 0..n  BY <3>4
      <4>2. g[k] = G[k][g[k - 1]] /\ g[k - 1] \in Seq(Tokens)  BY <2>1, <4>1
      <4>3. g[k] = g[k - 1] \o separator \o texts[k]  BY <3>4, <4>1, <4>2
      <4> QED  BY <3>4, <4>3
    <3> QED  BY <3>1, <3>2, <3>3, <3>4
  <2>3. g = Step(g)
    <3> HIDE DEF At
    <3> QED  BY <1>1, <2>1, <2>2
  <2>4. \E h : h = Step(h)  BY <2>3
  <2> HIDE DEF Step
  <2> QED  BY <2>4, Zenon
<1> HIDE DEF joined
<1>6. /\ n # 0 => joined[1] = texts[1]
      /\ joined[0] = <<>>
      /\ \A k \in 1..n : k > 1 => joined[k] = joined[k - 1] \o separator \o texts[k]
  <2>1. ASSUME NEW k \in 0..n
        PROVE  joined[k] = At(joined, k)
    <3> HIDE DEF At
    <3> QED  BY <1>1, <1>5
  <2>2. joined[0] = <<>>
    <3>1. 0 \in 0..n  OBVIOUS
    <3> QED  BY <2>1, <3>1
  <2>3. n # 0 => joined[1] = texts[1]
    <3>1. n # 0 => 1 \in 0..n  OBVIOUS
    <3> QED  BY <2>1, <3>1
  <2>4. ASSUME NEW k \in 1..n, k > 1 PROVE joined[k] = joined[k - 1] \o separator \o texts[k]
    <3>1. k \in 0..n /\ k # 0 /\ k # 1  BY <2>4
    <3> QED  BY <2>1, <2>4, <3>1
  <2> QED  BY <2>2, <2>3, <2>4
<1> HIDE DEF Step, G
<1>7. CASE n = 0  BY <1>1, <1>2, <1>6, <1>7
<1>8. CASE n # 0
  <2> DEFINE Good(m) == joined[m] \in Seq(Tokens)
                        /\ JoinedAt(joined[m], texts, separator, at, m, len)
             S == {m \in Nat : m + 1 <= n => Good(m + 1)}
  <2>1. 0 \in S
    <3>1. 1 \in 1..n /\ texts[1] \in Seq(Tokens) /\ Len(texts[1]) = len  BY <1>8
    <3>2. \A k \in 1..1 : k = 1  OBVIOUS
    <3>3. JoinedAt(texts[1], texts, separator, at, 1, len)
      BY <1>8, <3>1, <3>2 DEF JoinedAt
    <3> QED  BY <1>6, <1>8, <3>1, <3>3
  <2>2. ASSUME NEW m \in Nat, m \in S PROVE m + 1 \in S
    <3> SUFFICES ASSUME (m + 1) + 1 <= n PROVE Good((m + 1) + 1)  OBVIOUS
    <3>1. m + 1 \in 1..n - 1  OBVIOUS
    <3>2. Good(m + 1)  BY <2>2
    <3>3. joined[(m + 1) + 1] = joined[m + 1] \o separator \o texts[(m + 1) + 1]
      <4>1. (m + 1) + 1 \in 1..n /\ (m + 1) + 1 > 1 /\ ((m + 1) + 1) - 1 = m + 1  OBVIOUS
      <4> QED  BY <1>6, <4>1
    <3> DEFINE q == m + 1
               j == joined[q]
    <3>4. j \in Seq(Tokens) /\ JoinedAt(j, texts, separator, at, q, len) /\ q \in 1..n - 1
      BY <3>1, <3>2
    <3>5. joined[q + 1] = j \o separator \o texts[q + 1]  BY <3>3
    <3> HIDE DEF q, j
    <3>6. /\ j \o separator \o texts[q + 1] \in Seq(Tokens)
          /\ JoinedAt(j \o separator \o texts[q + 1], texts, separator, at, q + 1, len)
      BY <1>8, <3>4, JoinedNext
    <3> QED  BY <3>5, <3>6 DEF q
  <2> HIDE DEF S
  <2>3. n - 1 \in Nat /\ (n - 1) + 1 = n  BY <1>8
  <2>4. n - 1 \in S  BY <2>1, <2>2, <2>3, Induction
  <2>5. Good(n)  BY <2>3, <2>4 DEF S
  <2> QED  BY <1>2, <1>8, <2>5
<1> QED  BY <1>7, <1>8

\* A text is as wide as any count that grows no faster than its tokens.
LEMMA WidthAtLeast ==
    ASSUME NEW s \in Seq(Tokens), NEW low, low \in [0..Len(s) -> Int], low[0] <= 0,
           \A k \in 1..Len(s) : low[k] <= low[k - 1] + s[k].width
    PROVE  Width(s) \in Nat /\ low[Len(s)] <= Width(s)
<1> DEFINE n == Len(s)
           Step(g) == [k \in 0..Len(s) |-> IF k = 0 THEN 0 ELSE g[k - 1] + s[k].width]
           G == [k \in 1..n |-> [w \in Nat |-> w + s[k].width]]
           width == CHOOSE g : g = Step(g)
<1>1. n \in Nat /\ \A k \in 1..n : s[k].width \in Nat
  <2>1. \A k \in 1..n : s[k] \in Tokens  BY ElementOfSeq
  <2> QED  BY <2>1 DEF Tokens
<1>2. Width(s) = width[n]  BY DEF Width
<1>3. G \in StepsOf(n, Nat)  BY <1>1 DEF StepsOf
<1>4. width = Step(width)
  <2>1. PICK g \in [0..n -> Nat] : g[0] = 0 /\ \A k \in 1..n : g[k] = G[k][g[k - 1]]
    <3> HIDE DEF G, n
    <3>1. SomeRun(n, Nat, 0, G)  BY <1>1, <1>3, Recursion
    <3> QED  BY <3>1 DEF SomeRun
  <2>2. ASSUME NEW k \in 0..n PROVE g[k] = IF k = 0 THEN 0 ELSE g[k - 1] + s[k].width
    <3>1. CASE k = 0  BY <2>1, <3>1
    <3>2. CASE k # 0
      <4>1. k \in 1..n /\ k - 1 \in 0..n  BY <1>1, <3>2
      <4>2. g[k] = G[k][g[k - 1]] /\ g[k - 1] \in Nat  BY <2>1, <4>1
      <4> QED  BY <3>2, <4>1, <4>2
    <3> QED  BY <3>1, <3>2
  <2>3. g = Step(g)  BY <2>1, <2>2
  <2>4. \E h : h = Step(h)  BY <2>3
  <2> HIDE DEF Step
  <2> QED  BY <2>4, Zenon
<1> HIDE DEF width
<1>5. width[0] = 0 /\ \A k \in 1..n : width[k] = width[k - 1] + s[k].width
  <2>1. 0 \in 0..n /\ \A k \in 1..n : k \in 0..n /\ k # 0  BY <1>1
  <2> QED  BY <1>4, <2>1
<1> HIDE DEF Step, G
<1> DEFINE S == {m \in Nat : m <= n => width[m] \in Nat /\ low[m] <= width[m]}
<1>6. 0 \in S  BY <1>5
<1>7. ASSUME NEW m \in Nat, m \in S PROVE m + 1 \in S
  <2> SUFFICES ASSUME m + 1 <= n PROVE width[m + 1] \in Nat /\ low[m + 1] <= width[m + 1]
    OBVIOUS
  <2>1. m + 1 \in 1..n /\ (m + 1) - 1 = m /\ m \in 0..n /\ m + 1 \in 0..n  BY <1>1
  <2>2. width[m] \in Nat /\ low[m] <= width[m]  BY <1>1, <1>7
  <2>3. width[m + 1] = width[m] + s[m + 1].width /\ s[m + 1].width \in Nat
    BY <1>1, <1>5, <2>1
  <2>4. low[m + 1] <= low[m] + s[m + 1].width  BY <2>1
  <2>5. low[m] \in Int /\ low[m + 1] \in Int  BY <2>1
  <2> QED  BY <2>2, <2>3, <2>4, <2>5
<1> HIDE DEF S
<1>8. n \in S  BY <1>1, <1>6, <1>7, Induction
<1> QED  BY <1>1, <1>2, <1>8 DEF S

\* What is printed for a point.
LEMMA PrintedType ==
    \A v \in Int : /\ Printed(v) \in Tokens /\ Printed(v).text = "number"
                   /\ Printed(v).value = v
                   /\ 18 <= Printed(v).width /\ Printed(v).width <= 21
<1> SUFFICES ASSUME NEW v \in Int
             PROVE  /\ Printed(v) \in Tokens /\ Printed(v).text = "number"
                    /\ Printed(v).value = v
                    /\ 18 <= Printed(v).width /\ Printed(v).width <= 21
  OBVIOUS
<1> DEFINE d == Digits(Abs(v) \div RAND_MAX)
           w == (IF v < 0 THEN 1 ELSE 0) + d + 17
<1>1. d \in {1, 2, 3}
  <2> DEFINE q == Abs(v) \div RAND_MAX
  <2>1. Abs(v) \in Nat /\ RAND_MAX \in Nat \ {0}  BY GeneratorAssumption DEF Abs
  <2>2. q \in Nat  BY <2>1
  <2> HIDE DEF q
  <2>3. Digits(q) \in {1, 2, 3}  BY <2>2 DEF Digits
  <2> QED  BY <2>3 DEF q
<1> HIDE DEF d
<1>2. w \in Nat /\ 18 <= w /\ w <= 21  BY <1>1
<1>3. Printed(v) = [text |-> "number", width |-> w, value |-> v]  BY DEF Printed, Number, d
<1> HIDE DEF w
<1>4. "number" \in Texts  BY DEF Texts
<1>5. [text |-> "number", width |-> w, value |-> v] \in [text : Texts, width : Nat, value : Int]
  BY <1>2, <1>4
<1>6. Printed(v) \in Tokens  BY <1>3, <1>5 DEF Tokens
<1>7. Printed(v).text = "number" /\ Printed(v).width = w /\ Printed(v).value = v  BY <1>3
<1> QED  BY <1>2, <1>6, <1>7

LEMMA CharsAre ==
    ASSUME NEW s \in Seq(Texts)
    PROVE  /\ Chars(s) \in Seq(Tokens) /\ Len(Chars(s)) = Len(s)
           /\ \A i \in 1..Len(s) : Chars(s)[i] = Char(s[i])
<1>1. DOMAIN s = 1..Len(s) /\ Len(s) \in Nat /\ \A i \in 1..Len(s) : s[i] \in Texts
  BY LenProperties, ElementOfSeq
<1>2. Chars(s) = [i \in 1..Len(s) |-> Char(s[i])]  BY <1>1 DEF Chars
<1>3. \A i \in 1..Len(s) : Char(s[i]) \in Tokens  BY <1>1 DEF Char, Tokens
<1>4. Chars(s) \in [1..Len(s) -> Tokens]  BY <1>2, <1>3
<1> QED  BY <1>1, <1>2, <1>4

LEMMA CharsAre1 ==
    ASSUME NEW a \in Texts
    PROVE  Chars(<<a>>) \in Seq(Tokens) /\ Len(Chars(<<a>>)) = 1 /\ Chars(<<a>>)[1] = Char(a)
<1>1. <<a>> \in Seq(Texts)  OBVIOUS
<1>2. Len(<<a>>) = 1 /\ <<a>>[1] = a /\ 1 \in 1..1  OBVIOUS
<1>3. /\ Chars(<<a>>) \in Seq(Tokens) /\ Len(Chars(<<a>>)) = Len(<<a>>)
      /\ \A i \in 1..Len(<<a>>) : Chars(<<a>>)[i] = Char(<<a>>[i])
  BY <1>1, CharsAre
<1> QED  BY <1>2, <1>3

LEMMA CharsAre2 ==
    ASSUME NEW a \in Texts, NEW b \in Texts
    PROVE  /\ Chars(<<a, b>>) \in Seq(Tokens) /\ Len(Chars(<<a, b>>)) = 2
           /\ Chars(<<a, b>>)[1] = Char(a) /\ Chars(<<a, b>>)[2] = Char(b)
<1> DEFINE s == <<a, b>>
<1>1. s \in Seq(Texts)  OBVIOUS
<1>2. Len(s) = 2 /\ s[1] = a /\ s[2] = b /\ 1 \in 1..2 /\ 2 \in 1..2  OBVIOUS
<1> HIDE DEF s
<1>3. /\ Chars(s) \in Seq(Tokens) /\ Len(Chars(s)) = Len(s)
      /\ \A i \in 1..Len(s) : Chars(s)[i] = Char(s[i])
  BY <1>1, CharsAre
<1>4. /\ Chars(s) \in Seq(Tokens) /\ Len(Chars(s)) = 2
      /\ Chars(s)[1] = Char(a) /\ Chars(s)[2] = Char(b)
  BY <1>2, <1>3
<1> QED  BY <1>4 DEF s

\* What the parser searches for.
Quotes(t) == t.text = "\""
Colons(t) == t.text = ":"
Commas(t) == t.text = ","
Closes(t) == t.text = "}"

\* What a token other than the brace that opens a row takes at least.
Opens(t) == t.text = "{"
Plain(t, least) == t \in Tokens /\ ~Opens(t) /\ least <= t.width

LEMMA PlainChars ==
    \A c \in Texts : Char(c) \in Tokens /\ Char(c).text = c /\ 1 <= Char(c).width
                     /\ (c # "{" => Plain(Char(c), 1))
<1> SUFFICES ASSUME NEW c \in Texts
             PROVE  Char(c) \in Tokens /\ Char(c).text = c /\ 1 <= Char(c).width
                    /\ (c # "{" => Plain(Char(c), 1))
  OBVIOUS
<1>1. Char(c) = [text |-> c, width |-> 1, value |-> 0]  BY DEF Char
<1>2. [text |-> c, width |-> 1, value |-> 0] \in Tokens
  <2> HIDE DEF Texts
  <2> QED  BY DEF Tokens
<1>3. Char(c).text = c /\ Char(c).width = 1  BY <1>1
<1>4. Char(c) \in Tokens /\ Char(c).text = c /\ 1 <= Char(c).width  BY <1>1, <1>2, <1>3
<1> QED  BY <1>4, Zenon DEF Plain, Opens

LEMMA CommaIs ==
    /\ Comma \in Seq(Tokens) /\ Len(Comma) = 2 /\ Plain(Comma[1], 1) /\ Plain(Comma[2], 1)
    /\ Commas(Comma[1]) /\ ~Quotes(Comma[2])
<1>1. "," \in Texts /\ " " \in Texts /\ "," # "{" /\ " " # "{"  BY DEF Texts
<1>2. /\ Comma \in Seq(Tokens) /\ Len(Comma) = 2
      /\ Comma[1] = Char(",") /\ Comma[2] = Char(" ")
  BY <1>1, CharsAre2 DEF Comma
<1>3. Commas(Comma[1]) /\ ~Quotes(Comma[2])
  BY <1>1, <1>2, PlainChars, Zenon DEF Commas, Quotes
<1> QED  BY <1>1, <1>2, <1>3, PlainChars

\* "x0":10.5
LEMMA ItemIs ==
    ASSUME NEW name, name \in {"x0", "y0", "x1", "y1"}, NEW v \in Int
    PROVE  LET s == Item(name, Printed(v))
           IN  /\ s \in Seq(Tokens) /\ Len(s) = 5
               /\ Plain(s[1], 1) /\ Plain(s[2], 2) /\ Plain(s[3], 1) /\ Plain(s[4], 1)
               /\ Plain(s[5], 18)
               /\ Quotes(s[1]) /\ s[2] = Name(name) /\ Quotes(s[3]) /\ Colons(s[4])
               /\ s[5] = Printed(v)
<1> DEFINE a == Chars(<<"\"">>)
           b == <<Name(name)>>
           c == Chars(<<"\"", ":">>)
           d == <<Printed(v)>>
           s == Item(name, Printed(v))
<1>1. "\"" \in Texts /\ ":" \in Texts /\ "\"" # "{" /\ ":" # "{" /\ name \in Texts /\ name # "{"
  BY DEF Texts
<1>2. a \in Seq(Tokens) /\ Len(a) = 1 /\ Plain(a[1], 1)  BY <1>1, CharsAre1, PlainChars
<1>3. Quotes(a[1])  BY <1>1, CharsAre1, PlainChars, Zenon DEF Quotes
<1>4. b \in Seq(Tokens) /\ Len(b) = 1 /\ Plain(b[1], 2) /\ b[1] = Name(name)
  <2>1. Name(name) = [text |-> name, width |-> 2, value |-> 0]  BY DEF Name
  <2>2. [text |-> name, width |-> 2, value |-> 0] \in Tokens
    <3>1. name \in Texts  BY <1>1
    <3> HIDE DEF Texts
    <3> QED  BY <3>1 DEF Tokens
  <2>3. Name(name).text = name /\ 2 <= Name(name).width  BY <2>1
  <2>4. Plain(Name(name), 2)  BY <1>1, <2>1, <2>2, <2>3, Zenon DEF Plain, Opens
  <2> QED  BY <2>1, <2>2, <2>4
<1>5. c \in Seq(Tokens) /\ Len(c) = 2 /\ Plain(c[1], 1) /\ Plain(c[2], 1)
  BY <1>1, CharsAre2, PlainChars
<1>6. Quotes(c[1]) /\ Colons(c[2])  BY <1>1, CharsAre2, PlainChars, Zenon DEF Quotes, Colons
<1>7. d \in Seq(Tokens) /\ Len(d) = 1 /\ Plain(d[1], 18) /\ d[1] = Printed(v)
  <2>1. Printed(v) \in Tokens  BY PrintedType
  <2>2. Plain(Printed(v), 18)  BY PrintedType DEF Plain, Opens
  <2> QED  BY <2>1, <2>2
<1>8. s = a \o b \o c \o d  BY DEF Item
<1> HIDE DEF a, b, c, d, s
<1> DEFINE ab == a \o b
           abc == ab \o c
<1>9. ab \in Seq(Tokens) /\ Len(ab) = 2 /\ ab[1] = a[1] /\ ab[2] = b[1]
  <2>1. 1 \in 1..1 /\ 1 + 1 = 2  OBVIOUS
  <2>2. /\ ab \in Seq(Tokens) /\ Len(ab) = Len(a) + Len(b)
        /\ \A i \in 1..Len(a) : ab[i] = a[i]
        /\ \A i \in 1..Len(b) : ab[Len(a) + i] = b[i]
    BY <1>2, <1>4, ConcatAt
  <2> HIDE DEF ab
  <2>3. ab[1] = a[1] /\ ab[1 + 1] = b[1]  BY <1>2, <1>4, <2>1, <2>2
  <2> QED  BY <1>2, <1>4, <2>1, <2>2, <2>3
<1> HIDE DEF ab
<1>10. /\ abc \in Seq(Tokens) /\ Len(abc) = 4
       /\ abc[1] = a[1] /\ abc[2] = b[1] /\ abc[3] = c[1] /\ abc[4] = c[2]
  <2>1. 1 \in 1..2 /\ 2 \in 1..2 /\ 2 + 1 = 3 /\ 2 + 2 = 4  OBVIOUS
  <2>2. /\ abc \in Seq(Tokens) /\ Len(abc) = Len(ab) + Len(c)
        /\ \A i \in 1..Len(ab) : abc[i] = ab[i]
        /\ \A i \in 1..Len(c) : abc[Len(ab) + i] = c[i]
    BY <1>5, <1>9, ConcatAt
  <2> HIDE DEF abc
  <2>3. abc[1] = ab[1] /\ abc[2] = ab[2]  BY <1>9, <2>1, <2>2
  <2>4. abc[2 + 1] = c[1] /\ abc[2 + 2] = c[2]  BY <1>5, <1>9, <2>1, <2>2
  <2> QED  BY <1>5, <1>9, <2>1, <2>2, <2>3, <2>4
<1>11. s = abc \o d  BY <1>8 DEF ab, abc
<1> HIDE DEF abc
<1>12. /\ s \in Seq(Tokens) /\ Len(s) = 5
       /\ s[1] = a[1] /\ s[2] = b[1] /\ s[3] = c[1] /\ s[4] = c[2] /\ s[5] = d[1]
  <2>1. 1 \in 1..4 /\ 2 \in 1..4 /\ 3 \in 1..4 /\ 4 \in 1..4 /\ 1 \in 1..1 /\ 4 + 1 = 5  OBVIOUS
  <2>2. /\ s \in Seq(Tokens) /\ Len(s) = Len(abc) + Len(d)
        /\ \A i \in 1..Len(abc) : s[i] = abc[i]
        /\ \A i \in 1..Len(d) : s[Len(abc) + i] = d[i]
    BY <1>7, <1>10, <1>11, ConcatAt
  <2>3. s[1] = abc[1] /\ s[2] = abc[2] /\ s[3] = abc[3] /\ s[4] = abc[4]  BY <1>10, <2>1, <2>2
  <2>4. s[4 + 1] = d[1]  BY <1>7, <1>10, <2>1, <2>2
  <2> QED  BY <1>7, <1>10, <2>1, <2>2, <2>3, <2>4
<1> QED  BY <1>2, <1>3, <1>4, <1>5, <1>6, <1>7, <1>12 DEF s

\* The r-th token behind the brace of a row: a name, a number or a character.
LeastOf(r) == IF r % 7 = 5 THEN 18 ELSE IF r % 7 = 2 THEN 2 ELSE 1

LEMMA ItemsAre ==
    ASSUME NEW j, NEW texts, NEW at,
           texts \in [1..4 -> Seq(Tokens)], at \in [1..4 -> Nat],
           \A k \in 1..4 : at[k] = 7 * (k - 1),
           \A k \in 1..4 : \A i \in 1..5 : Plain(texts[k][i], LeastOf(i)),
           JoinedAt(j, texts, Comma, at, 4, 5)
    PROVE  Len(j) = 26 /\ \A m \in 1..26 : Plain(j[m], LeastOf(m))
<1>1. Len(j) = 26
  <2>1. at[4] = 21  OBVIOUS
  <2> QED  BY <2>1 DEF JoinedAt
<1> SUFFICES ASSUME NEW m \in 1..26 PROVE Plain(j[m], LeastOf(m))  BY <1>1
<1> DEFINE k == (m + 6) \div 7
           i == m - 7 * (k - 1)
<1>2. k \in 1..4 /\ m = 7 * (k - 1) + i /\ (i \in 1..5 \/ (k \in 1..3 /\ (i = 6 \/ i = 7)))
  <2>1. 7 * k <= m + 6 /\ m + 6 < 7 * k + 7 /\ k \in Int  OBVIOUS
  <2> HIDE DEF k
  <2>2. k = 1 \/ k = 2 \/ k = 3 \/ k = 4  BY <2>1
  <2>3. i \in 1..7 /\ (k = 4 => i <= 5)  BY <2>1, <2>2
  <2> QED  BY <2>2, <2>3
<1> HIDE DEF k, i
<1>3. at[k] = 7 * (k - 1) /\ at[k] \in Int  BY <1>2
<1>4. CASE i \in 1..5
  <2>1. j[at[k] + i] = texts[k][i] /\ Plain(texts[k][i], LeastOf(i))
    BY <1>2, <1>4 DEF JoinedAt
  <2>2. at[k] + i = m  BY <1>2, <1>3, <1>4
  <2>3. LeastOf(m) = LeastOf(i)  BY <1>2, <1>4 DEF LeastOf
  <2> QED  BY <2>1, <2>2, <2>3
<1>5. CASE k \in 1..3 /\ (i = 6 \/ i = 7)
  <2>1. k \in 1..4 - 1 /\ LeastOf(m) = 1  BY <1>2, <1>5 DEF LeastOf
  <2>2. j[at[k] + 5 + 1] = Comma[1] /\ j[at[k] + 5 + 2] = Comma[2]  BY <2>1 DEF JoinedAt
  <2>3. (i = 6 => at[k] + 5 + 1 = m) /\ (i = 7 => at[k] + 5 + 2 = m)  BY <1>2, <1>3
  <2> QED  BY <1>5, <2>1, <2>2, <2>3, CommaIs
<1> QED  BY <1>2, <1>4, <1>5

\* The item behind the first n tokens.
ItemAt(s, n, name, v) ==
    /\ Quotes(s[n + 1]) /\ s[n + 2] = Name(name) /\ Quotes(s[n + 3]) /\ Colons(s[n + 4])
    /\ s[n + 5] = Printed(v)

LEMMA RowIs ==
    ASSUME NEW p \in Point
    PROVE  LET line == JsonRow(p)
           IN  /\ line \in Seq(Tokens) /\ Len(line) = 28 /\ line[1] \in Tokens /\ 1 <= line[1].width
               /\ \A i \in 2..28 : Plain(line[i], LeastOf(i - 1))
               /\ Opens(line[1]) /\ Closes(line[28])
               /\ \A k \in 1..4 : ItemAt(line, 7 * k - 6, Coordinates[k], p[Coordinates[k]])
               /\ \A k \in 1..3 : Commas(line[7 * k]) /\ ~Quotes(line[7 * k + 1])
<1> DEFINE items == [k \in 1..4 |-> Item(Coordinates[k], Printed(p[Coordinates[k]]))]
           at == [k \in 1..4 |-> 7 * (k - 1)]
           j == Joined(items, Comma)
           a == Chars(<<"{">>)
           b == Chars(<<"}">>)
           line == JsonRow(p)
<1>1. ASSUME NEW k \in 1..4
      PROVE  /\ items[k] \in Seq(Tokens) /\ Len(items[k]) = 5
             /\ \A i \in 1..5 : Plain(items[k][i], LeastOf(i))
             /\ Quotes(items[k][1]) /\ items[k][2] = Name(Coordinates[k])
             /\ Quotes(items[k][3]) /\ Colons(items[k][4])
             /\ items[k][5] = Printed(p[Coordinates[k]])
  <2> DEFINE name == Coordinates[k]
             v == p[name]
  <2>1. name \in {"x0", "y0", "x1", "y1"}
    <3>1. k = 1 \/ k = 2 \/ k = 3 \/ k = 4  OBVIOUS
    <3> QED  BY <3>1 DEF Coordinates
  <2> HIDE DEF name
  <2>2. v \in Int  BY <2>1 DEF Point
  <2> HIDE DEF v
  <2> DEFINE s == Item(name, Printed(v))
  <2>3. /\ s \in Seq(Tokens) /\ Len(s) = 5
        /\ Plain(s[1], 1) /\ Plain(s[2], 2) /\ Plain(s[3], 1) /\ Plain(s[4], 1)
        /\ Plain(s[5], 18)
        /\ Quotes(s[1]) /\ s[2] = Name(name) /\ Quotes(s[3]) /\ Colons(s[4])
        /\ s[5] = Printed(v)
    BY <2>1, <2>2, ItemIs
  <2>4. items[k] = s  BY DEF name, v
  <2> HIDE DEF s
  <2>5. LeastOf(1) = 1 /\ LeastOf(2) = 2 /\ LeastOf(3) = 1 /\ LeastOf(4) = 1 /\ LeastOf(5) = 18
    BY DEF LeastOf
  <2>6. \A i \in 1..5 : i = 1 \/ i = 2 \/ i = 3 \/ i = 4 \/ i = 5  OBVIOUS
  <2>7. \A i \in 1..5 : Plain(s[i], LeastOf(i))  BY <2>3, <2>5, <2>6
  <2> HIDE DEF items
  <2> QED  BY <2>3, <2>4, <2>7 DEF name, v
<1>2. items \in [1..4 -> Seq(Tokens)] /\ \A k \in 1..4 : Len(items[k]) = 5
  <2>1. items = [k \in 1..4 |-> items[k]]  OBVIOUS
  <2> HIDE DEF items
  <2> QED  BY <1>1, <2>1
<1>3. at \in [1..4 -> Nat] /\ \A k \in 1..4 : at[k] = 7 * (k - 1)  OBVIOUS
<1>4. at[1] = 0 /\ \A k \in 1..4 - 1 : at[k + 1] = at[k] + 5 + 2  OBVIOUS
<1>5. line = a \o j \o b  BY DEF JsonRow, Row
<1> HIDE DEF items, at, j, line
<1>6. j \in Seq(Tokens) /\ JoinedAt(j, items, Comma, at, 4, 5)
  <2>1. 4 \in Nat /\ 5 \in Nat \ {0} /\ 4 # 0  OBVIOUS
  <2> QED  BY <1>2, <1>3, <1>4, <2>1, CommaIs, JoinedIs DEF j
<1>7. Len(j) = 26 /\ \A m \in 1..26 : Plain(j[m], LeastOf(m))
  BY <1>1, <1>2, <1>3, <1>6, ItemsAre, Zenon
<1>8. "{" \in Texts /\ "}" \in Texts /\ "}" # "{"  BY DEF Texts
<1>9. /\ a \in Seq(Tokens) /\ Len(a) = 1 /\ a[1] \in Tokens /\ 1 <= a[1].width
      /\ b \in Seq(Tokens) /\ Len(b) = 1 /\ Plain(b[1], 1)
  BY <1>8, CharsAre1, PlainChars
<1>10. Opens(a[1]) /\ Closes(b[1])  BY <1>8, CharsAre1, PlainChars, Zenon DEF Opens, Closes
<1> HIDE DEF a, b
<1> DEFINE aj == a \o j
<1>11. /\ aj \in Seq(Tokens) /\ Len(aj) = 27 /\ aj[1] = a[1]
       /\ \A m \in 1..26 : aj[1 + m] = j[m]
  <2>1. /\ aj \in Seq(Tokens) /\ Len(aj) = Len(a) + Len(j)
        /\ \A i \in 1..Len(a) : aj[i] = a[i]
        /\ \A i \in 1..Len(j) : aj[Len(a) + i] = j[i]
    BY <1>6, <1>9, ConcatAt
  <2> HIDE DEF aj
  <2>2. 1 \in 1..1  OBVIOUS
  <2> QED  BY <1>7, <1>9, <2>1, <2>2
<1>12. line = aj \o b  BY <1>5
<1> HIDE DEF aj
<1>13. /\ line \in Seq(Tokens) /\ Len(line) = 28
       /\ \A i \in 1..27 : line[i] = aj[i]
       /\ line[28] = b[1]
  <2>1. /\ line \in Seq(Tokens) /\ Len(line) = Len(aj) + Len(b)
        /\ \A i \in 1..Len(aj) : line[i] = aj[i]
        /\ \A i \in 1..Len(b) : line[Len(aj) + i] = b[i]
    BY <1>9, <1>11, <1>12, ConcatAt, Zenon
  <2>2. 1 \in 1..1 /\ 27 + 1 = 28  OBVIOUS
  <2>3. line[27 + 1] = b[1]  BY <1>9, <1>11, <2>1, <2>2
  <2> QED  BY <1>9, <1>11, <2>1, <2>3
<1>14. line[1] = a[1]
  <2>1. 1 \in 1..27  OBVIOUS
  <2> QED  BY <1>11, <1>13, <2>1
<1>15. ASSUME NEW i \in 2..28 PROVE Plain(line[i], LeastOf(i - 1))
  <2>1. i = 28 \/ (i \in 1..27 /\ i - 1 \in 1..26 /\ 1 + (i - 1) = i)  OBVIOUS
  <2>2. CASE i = 28
    <3>1. LeastOf(i - 1) = 1  BY <2>2 DEF LeastOf
    <3> QED  BY <1>9, <1>13, <2>2, <3>1
  <2>3. CASE i \in 1..27 /\ i - 1 \in 1..26 /\ 1 + (i - 1) = i
    <3>1. line[i] = aj[1 + (i - 1)] /\ aj[1 + (i - 1)] = j[i - 1]  BY <1>11, <1>13, <2>3
    <3> QED  BY <1>7, <2>3, <3>1
  <2> QED  BY <2>1, <2>2, <2>3
<1>16. \A m \in 1..26 : line[1 + m] = j[m]
  <2>1. \A m \in 1..26 : 1 + m \in 1..27  OBVIOUS
  <2> QED  BY <1>11, <1>13, <2>1
<1>17. ASSUME NEW k \in 1..4 PROVE ItemAt(line, 7 * k - 6, Coordinates[k], p[Coordinates[k]])
  <2> DEFINE n == 7 * k - 6
  <2>1. ASSUME NEW i \in 1..5 PROVE line[n + i] = items[k][i]
    <3>1. j[at[k] + i] = items[k][i] /\ at[k] = 7 * (k - 1)  BY <1>3, <1>6 DEF JoinedAt
    <3>2. 7 * (k - 1) + i \in 1..26 /\ 1 + (7 * (k - 1) + i) = n + i  OBVIOUS
    <3> HIDE DEF n
    <3>3. line[1 + (7 * (k - 1) + i)] = j[7 * (k - 1) + i]  BY <1>16, <3>2
    <3> QED  BY <3>1, <3>2, <3>3
  <2> HIDE DEF n
  <2>2. 1 \in 1..5 /\ 2 \in 1..5 /\ 3 \in 1..5 /\ 4 \in 1..5 /\ 5 \in 1..5  OBVIOUS
  <2>3. /\ line[n + 1] = items[k][1] /\ line[n + 2] = items[k][2] /\ line[n + 3] = items[k][3]
        /\ line[n + 4] = items[k][4] /\ line[n + 5] = items[k][5]
    BY <2>1, <2>2
  <2>4. ItemAt(line, n, Coordinates[k], p[Coordinates[k]])  BY <1>1, <2>3 DEF ItemAt
  <2> QED  BY <2>4 DEF n
<1>18. ASSUME NEW k \in 1..3 PROVE Commas(line[7 * k]) /\ ~Quotes(line[7 * k + 1])
  <2>1. k \in 1..4 - 1 /\ k \in 1..4  OBVIOUS
  <2>2. j[at[k] + 5 + 1] = Comma[1] /\ j[at[k] + 5 + 2] = Comma[2]  BY <1>6, <2>1 DEF JoinedAt
  <2>3. at[k] + 5 + 1 = 7 * k - 1 /\ at[k] + 5 + 2 = 7 * k  BY <1>3, <2>1
  <2>4. 7 * k - 1 \in 1..26 /\ 7 * k \in 1..26 /\ 1 + (7 * k - 1) = 7 * k /\ 1 + 7 * k = 7 * k + 1
    OBVIOUS
  <2>5. line[1 + (7 * k - 1)] = Comma[1] /\ line[1 + 7 * k] = Comma[2]
    BY <1>16, <2>2, <2>3, <2>4
  <2> QED  BY <2>4, <2>5, CommaIs
<1> QED  BY <1>9, <1>10, <1>13, <1>14, <1>15, <1>17, <1>18 DEF line

\* A token behind the opening of the file, r places behind the brace of a row or as the
\* brace itself.
Fits(t, r) == t \in Tokens /\ 1 <= t.width /\ LeastOf(r) <= t.width /\ (Opens(t) => r = 0)

LEMMA PlainFits == \A t, r : Plain(t, LeastOf(r)) => Fits(t, r)
<1> SUFFICES ASSUME NEW t, NEW r, Plain(t, LeastOf(r)) PROVE Fits(t, r)  OBVIOUS
<1>1. LeastOf(r) = 1 \/ LeastOf(r) = 2 \/ LeastOf(r) = 18  BY DEF LeastOf
<1>2. t \in Tokens /\ t.width \in Nat /\ LeastOf(r) <= t.width /\ ~Opens(t)  BY DEF Plain, Tokens
<1>3. 1 <= t.width  BY <1>1, <1>2
<1> QED  BY <1>2, <1>3 DEF Fits

LEMMA PlaceInRow ==
    ASSUME NEW n, n \in Nat \ {0}, NEW m, m \in 1..30 * n - 2
    PROVE  \E k \in 1..n, i \in 1..30 :
              /\ m = 30 * (k - 1) + i /\ (m - 1) % 30 = i - 1
              /\ i \in 1..28 \/ (k \in 1..n - 1 /\ (i = 29 \/ i = 30))
<1>1. PICK q \in Nat, r \in 0..29 : m - 1 = 30 * q + r /\ (m - 1) % 30 = r
  <2> DEFINE q == (m - 1) \div 30
             r == (m - 1) % 30
  <2>1. m - 1 \in Nat  OBVIOUS
  <2>2. q \in Nat /\ r \in 0..29 /\ m - 1 = 30 * q + r  BY <2>1
  <2> QED  BY <2>2
<1>2. m <= 30 * n - 2 /\ m \in Int /\ n \in Int  OBVIOUS
<1>3. m = 30 * ((q + 1) - 1) + (r + 1) /\ (m - 1) % 30 = (r + 1) - 1  BY <1>1, <1>2
<1>4. q + 1 \in 1..n /\ r + 1 \in 1..30  BY <1>1, <1>2
<1>5. r + 1 \in 1..28 \/ (q + 1 \in 1..n - 1 /\ (r + 1 = 29 \/ r + 1 = 30))  BY <1>1, <1>2
<1> QED  BY <1>3, <1>4, <1>5

LEMMA RowsAre ==
    ASSUME NEW n, n \in Nat \ {0}, NEW j, NEW texts, NEW at,
           texts \in [1..n -> Seq(Tokens)], at \in [1..n -> Nat],
           \A k \in 1..n : at[k] = 30 * (k - 1),
           \A k \in 1..n : \A i \in 1..28 : Fits(texts[k][i], i - 1),
           JoinedAt(j, texts, Comma, at, n, 28)
    PROVE  Len(j) = 30 * n - 2 /\ \A m \in 1..30 * n - 2 : Fits(j[m], (m - 1) % 30)
<1>1. Len(j) = 30 * n - 2
  <2>1. at[n] = 30 * (n - 1)  OBVIOUS
  <2> QED  BY <2>1 DEF JoinedAt
<1> SUFFICES ASSUME NEW m \in 1..30 * n - 2 PROVE Fits(j[m], (m - 1) % 30)  BY <1>1
<1>2. PICK k \in 1..n, i \in 1..30 :
        /\ m = 30 * (k - 1) + i /\ (m - 1) % 30 = i - 1
        /\ i \in 1..28 \/ (k \in 1..n - 1 /\ (i = 29 \/ i = 30))
  BY PlaceInRow
<1>3. at[k] = 30 * (k - 1)  OBVIOUS
<1> DEFINE d == at[k]
<1>6. d \in Int /\ m = d + i /\ i \in Int
  <2>1. d = 30 * (k - 1) /\ k \in Int  BY <1>3
  <2> HIDE DEF d
  <2> QED  BY <1>2, <2>1
<1> HIDE DEF d
<1>4. CASE i \in 1..28
  <2>1. j[at[k] + i] = texts[k][i] /\ Fits(texts[k][i], i - 1)
    BY <1>2, <1>4 DEF JoinedAt
  <2>2. at[k] + i = m  BY <1>3, <1>6 DEF d
  <2> QED  BY <1>2, <2>1, <2>2
<1>5. CASE k \in 1..n - 1 /\ (i = 29 \/ i = 30)
  <2>1. LeastOf(28) = 1 /\ LeastOf(29) = 1  BY DEF LeastOf
  <2>2. j[at[k] + 28 + 1] = Comma[1] /\ j[at[k] + 28 + 2] = Comma[2]  BY <1>5 DEF JoinedAt
  <2>3. (i = 29 => d + 28 + 1 = m /\ i - 1 = 28) /\ (i = 30 => d + 28 + 2 = m /\ i - 1 = 29)
    BY <1>6
  <2>4. Fits(Comma[1], 28) /\ Fits(Comma[2], 29)  BY <2>1, CommaIs, PlainFits
  <2> QED  BY <1>2, <1>5, <2>2, <2>3, <2>4 DEF d
<1> QED  BY <1>2, <1>4, <1>5

LEMMA OpeningIs ==
    /\ Opening \in Seq(Tokens) /\ Len(Opening) = 11
    /\ Opening[1] \in Tokens /\ 1 <= Opening[1].width
    /\ \A i \in 2..11 : Plain(Opening[i], 1)
<1> DEFINE brace == "{"
           quote == "\""
           colon == ":"
           bracket == "["
           blank == " "
           s == <<brace, quote, "p", "a", "i", "r", "s", quote, colon, bracket, blank>>
<1>1. /\ brace \in Texts /\ quote \in Texts /\ "p" \in Texts /\ "a" \in Texts /\ "i" \in Texts
      /\ "r" \in Texts /\ "s" \in Texts /\ colon \in Texts /\ bracket \in Texts /\ blank \in Texts
  BY Zenon DEF Texts
<1>2. /\ quote # "{" /\ "p" # "{" /\ "a" # "{" /\ "i" # "{" /\ "r" # "{" /\ "s" # "{"
      /\ colon # "{" /\ bracket # "{" /\ blank # "{"
  BY Zenon
<1>3. /\ Plain(Char(quote), 1) /\ Plain(Char("p"), 1) /\ Plain(Char("a"), 1)
      /\ Plain(Char("i"), 1) /\ Plain(Char("r"), 1) /\ Plain(Char("s"), 1)
      /\ Plain(Char(colon), 1) /\ Plain(Char(bracket), 1) /\ Plain(Char(blank), 1)
  BY <1>1, <1>2, PlainChars, Zenon
<1>4. Char(brace) \in Tokens /\ 1 <= Char(brace).width  BY <1>1, PlainChars, Zenon
<1>5. Opening = Chars(s)  BY Zenon DEF Opening
<1> HIDE DEF brace, quote, colon, bracket, blank, Texts
<1>6. s \in Seq(Texts)  BY <1>1
<1>7. /\ Len(s) = 11 /\ s[1] = brace /\ s[2] = quote /\ s[3] = "p" /\ s[4] = "a" /\ s[5] = "i"
      /\ s[6] = "r" /\ s[7] = "s" /\ s[8] = quote /\ s[9] = colon /\ s[10] = bracket
      /\ s[11] = blank
  OBVIOUS
<1> HIDE DEF s
<1>8. /\ Opening \in Seq(Tokens) /\ Len(Opening) = 11
      /\ \A i \in 1..11 : Opening[i] = Char(s[i])
  BY <1>5, <1>6, <1>7, CharsAre
<1>9. \A i \in 2..11 : /\ i \in 1..11
                       /\ \/ i = 2 \/ i = 3 \/ i = 4 \/ i = 5 \/ i = 6 \/ i = 7 \/ i = 8
                          \/ i = 9 \/ i = 10 \/ i = 11
  OBVIOUS
<1>10. \A i \in 2..11 : Plain(Char(s[i]), 1)  BY <1>3, <1>7, <1>9
<1>11. 1 \in 1..11  OBVIOUS
<1> QED  BY <1>4, <1>7, <1>8, <1>9, <1>10, <1>11

LEMMA ClosingIs ==
    Closing \in Seq(Tokens) /\ Len(Closing) = 4 /\ \A i \in 1..4 : Plain(Closing[i], 1)
<1> DEFINE brace == "}"
           bracket == "]"
           blank == " "
           s == <<blank, bracket, brace, blank>>
<1>1. brace \in Texts /\ bracket \in Texts /\ blank \in Texts  BY Zenon DEF Texts
<1>2. brace # "{" /\ bracket # "{" /\ blank # "{"  BY Zenon
<1>3. Plain(Char(brace), 1) /\ Plain(Char(bracket), 1) /\ Plain(Char(blank), 1)
  BY <1>1, <1>2, PlainChars, Zenon
<1>4. Closing = Chars(s)  BY Zenon DEF Closing
<1> HIDE DEF brace, bracket, blank, Texts
<1>5. s \in Seq(Texts)  BY <1>1
<1>6. Len(s) = 4 /\ s[1] = blank /\ s[2] = bracket /\ s[3] = brace /\ s[4] = blank  OBVIOUS
<1> HIDE DEF s
<1>7. /\ Closing \in Seq(Tokens) /\ Len(Closing) = 4
      /\ \A i \in 1..4 : Closing[i] = Char(s[i])
  BY <1>4, <1>5, <1>6, CharsAre
<1>8. \A i \in 1..4 : i = 1 \/ i = 2 \/ i = 3 \/ i = 4  OBVIOUS
<1>9. \A i \in 1..4 : Plain(Char(s[i]), 1)  BY <1>3, <1>6, <1>8
<1> QED  BY <1>7, <1>9

\* The text of the rows that have been written.
RowsOf(ps) == Rows([k \in DOMAIN ps |-> JsonRow(ps[k])])
Written == RowsOf(points)
LengthOfRows(n) == IF n = 0 THEN 0 ELSE 30 * n - 2

LEMMA RowsOfIs ==
    ASSUME NEW ps \in Seq(Point)
    PROVE  /\ RowsOf(ps) \in Seq(Tokens) /\ Len(RowsOf(ps)) = LengthOfRows(Len(ps))
           /\ \A m \in 1..Len(RowsOf(ps)) : Fits(RowsOf(ps)[m], (m - 1) % 30)
           /\ \A k \in 1..Len(ps) : \A i \in 1..28 :
                 RowsOf(ps)[30 * (k - 1) + i] = JsonRow(ps[k])[i]
<1> DEFINE n == Len(ps)
           texts == [k \in 1..n |-> JsonRow(ps[k])]
           at == [k \in 1..n |-> 30 * (k - 1)]
           j == Joined(texts, Comma)
<1>1. n \in Nat /\ DOMAIN ps = 1..n /\ \A k \in 1..n : ps[k] \in Point
  BY LenProperties, ElementOfSeq
<1>2. RowsOf(ps) = j  BY <1>1 DEF RowsOf, Rows
<1>3. ASSUME NEW k \in 1..n
      PROVE  /\ texts[k] \in Seq(Tokens) /\ Len(texts[k]) = 28
             /\ \A i \in 1..28 : Fits(texts[k][i], i - 1)
  <2> DEFINE s == JsonRow(ps[k])
  <2>1. /\ s \in Seq(Tokens) /\ Len(s) = 28 /\ s[1] \in Tokens /\ 1 <= s[1].width
        /\ \A i \in 2..28 : Plain(s[i], LeastOf(i - 1))
    BY <1>1, RowIs
  <2>2. texts[k] = s  OBVIOUS
  <2> HIDE DEF s, texts
  <2>3. Fits(s[1], 1 - 1)
    <3>1. LeastOf(0) = 1 /\ 1 - 1 = 0  BY DEF LeastOf
    <3> QED  BY <2>1, <3>1 DEF Fits
  <2>4. \A i \in 1..28 : i = 1 \/ i \in 2..28  OBVIOUS
  <2>5. \A i \in 1..28 : Fits(s[i], i - 1)  BY <2>1, <2>3, <2>4, PlainFits
  <2> QED  BY <2>1, <2>2, <2>5
<1>4. texts \in [1..n -> Seq(Tokens)] /\ \A k \in 1..n : Len(texts[k]) = 28
  <2>1. texts = [k \in 1..n |-> texts[k]]  OBVIOUS
  <2> HIDE DEF texts
  <2> QED  BY <1>3, <2>1
<1> HIDE DEF n, texts
<1>5. at \in [1..n -> Nat] /\ \A k \in 1..n : at[k] = 30 * (k - 1)  BY <1>1
<1>6. (n # 0 => at[1] = 0) /\ \A k \in 1..n - 1 : at[k + 1] = at[k] + 28 + 2
  <2>1. \A k \in 1..n - 1 :
            k \in 1..n /\ k + 1 \in 1..n /\ 30 * ((k + 1) - 1) = 30 * (k - 1) + 28 + 2
    BY <1>1
  <2>2. n # 0 => 1 \in 1..n /\ 30 * (1 - 1) = 0  BY <1>1
  <2> HIDE DEF at
  <2> QED  BY <1>5, <2>1, <2>2
<1> HIDE DEF at, j
<1>7. /\ j \in Seq(Tokens)
      /\ n = 0 => Len(j) = 0
      /\ n # 0 => JoinedAt(j, texts, Comma, at, n, 28)
  <2>1. 28 \in Nat \ {0}  OBVIOUS
  <2> QED  BY <1>1, <1>4, <1>5, <1>6, <2>1, CommaIs, JoinedIs DEF j
<1>8. CASE n = 0
  <2>1. 1..n = {}  BY <1>8
  <2> QED  BY <1>2, <1>7, <1>8, <2>1 DEF LengthOfRows, n
<1>9. CASE n # 0
  <2>1. n \in Nat \ {0} /\ JoinedAt(j, texts, Comma, at, n, 28)  BY <1>1, <1>7, <1>9
  <2>2. Len(j) = 30 * n - 2 /\ \A m \in 1..30 * n - 2 : Fits(j[m], (m - 1) % 30)
    BY <1>3, <1>4, <1>5, <2>1, RowsAre
  <2>3. \A k \in 1..n : \A i \in 1..28 : j[30 * (k - 1) + i] = texts[k][i]
    BY <1>5, <2>1 DEF JoinedAt
  <2>4. \A k \in 1..n : texts[k] = JsonRow(ps[k])  BY DEF texts
  <2> QED  BY <1>2, <1>7, <1>9, <2>2, <2>3, <2>4 DEF LengthOfRows, n
<1> QED  BY <1>8, <1>9

\* The i-th token of a file of n points.
Placed(t, i, n) ==
    /\ t \in Tokens /\ 1 <= t.width
    /\ i >= 12 => LeastOf((i - 12) % 30) <= t.width
    /\ Opens(t) => i = 1 \/ (i >= 12 /\ (i - 12) % 30 = 0 /\ i < 12 + 30 * n)

LEMMA BehindTheRows ==
    ASSUME NEW n, n \in Nat \ {0}, NEW i, i \in 30 * n + 10..30 * n + 13
    PROVE  LeastOf((i - 12) % 30) = 1
<1>1. i = 30 * n + 10 \/ i = 30 * n + 11 \/ i = 30 * n + 12 \/ i = 30 * n + 13  OBVIOUS
<1>2. (i - 12) % 30 = 28 \/ (i - 12) % 30 = 29 \/ (i - 12) % 30 = 0 \/ (i - 12) % 30 = 1
  BY <1>1
<1> QED  BY <1>2 DEF LeastOf

\* A text of the points, or what is left of it.
TextOf(s, ps) ==
    /\ \A i \in 1..11 : i <= Len(s) => s[i] = Opening[i]
    /\ \A k \in 1..Len(ps) : \A i \in 1..28 :
          30 * k - 19 + i <= Len(s) => s[30 * k - 19 + i] = JsonRow(ps[k])[i]

LEMMA FileIs ==
    ASSUME points \in Seq(Point), gen_status = "done" => Len(points) # 0
    PROVE  /\ AllPrinted \in Seq(Tokens)
           /\ Len(AllPrinted) =
                 11 + LengthOfRows(Len(points)) + IF gen_status = "done" THEN 4 ELSE 0
           /\ \A i \in 1..Len(AllPrinted) : Placed(AllPrinted[i], i, Len(points))
           /\ TextOf(AllPrinted, points)
<1> DEFINE n == Len(points)
           l == LengthOfRows(n)
           c == IF gen_status = "done" THEN Closing ELSE <<>>
           e == IF gen_status = "done" THEN 4 ELSE 0
           a == Opening \o Written
           s == AllPrinted
<1>1. n \in Nat /\ l \in Nat /\ e \in Nat  BY LenProperties DEF LengthOfRows
<1>2. /\ Written \in Seq(Tokens) /\ Len(Written) = l
      /\ \A m \in 1..l : Fits(Written[m], (m - 1) % 30)
      /\ \A k \in 1..n : \A i \in 1..28 : Written[30 * (k - 1) + i] = JsonRow(points[k])[i]
  BY RowsOfIs DEF Written
<1>3. /\ c \in Seq(Tokens) /\ Len(c) = e
      /\ \A m \in 1..e : Plain(c[m], 1)
  <2>1. CASE gen_status = "done"  BY <2>1, ClosingIs
  <2>2. CASE gen_status # "done"
    <3>1. c = <<>> /\ e = 0  BY <2>2
    <3>2. <<>> \in Seq(Tokens) /\ Len(<<>>) = 0 /\ 1..0 = {}  BY EmptySeq
    <3> QED  BY <3>1, <3>2
  <2> QED  BY <2>1, <2>2
<1>4. s = a \o c  BY DEF AllPrinted, Written, RowsOf
<1>5. n = 0 => l = 0 /\ e = 0  BY DEF LengthOfRows
<1>6. n # 0 => l = 30 * n - 2 /\ e <= 4  BY DEF LengthOfRows
<1> HIDE DEF n, l, c, e, a, s
<1>7. /\ a \in Seq(Tokens) /\ Len(a) = 11 + l
      /\ \A i \in 1..11 : a[i] = Opening[i]
      /\ \A m \in 1..l : a[11 + m] = Written[m]
  <2>1. /\ a \in Seq(Tokens) /\ Len(a) = Len(Opening) + Len(Written)
        /\ \A i \in 1..Len(Opening) : a[i] = Opening[i]
        /\ \A i \in 1..Len(Written) : a[Len(Opening) + i] = Written[i]
    BY <1>2, OpeningIs, ConcatAt DEF a
  <2> QED  BY <1>2, <2>1, OpeningIs
<1>8. /\ s \in Seq(Tokens) /\ Len(s) = 11 + l + e
      /\ \A i \in 1..11 + l : s[i] = a[i]
      /\ \A m \in 1..e : s[11 + l + m] = c[m]
  <2>1. /\ s \in Seq(Tokens) /\ Len(s) = Len(a) + Len(c)
        /\ \A i \in 1..Len(a) : s[i] = a[i]
        /\ \A i \in 1..Len(c) : s[Len(a) + i] = c[i]
    BY <1>3, <1>4, <1>7, ConcatAt
  <2> QED  BY <1>3, <1>7, <2>1
<1>9. ASSUME NEW i \in 1..11 + l + e PROVE Placed(s[i], i, n)
  <2>1. \/ i = 1
        \/ i \in 2..11
        \/ i \in 12..11 + l
        \/ i \in 12 + l..11 + l + e
    BY <1>1
  <2>2. CASE i = 1
    <3>1. 1 \in 1..11 /\ 1 \in 1..11 + l  BY <1>1
    <3>2. s[i] = Opening[1]  BY <1>7, <1>8, <2>2, <3>1
    <3> QED  BY <2>2, <3>2, OpeningIs DEF Placed
  <2>3. CASE i \in 2..11
    <3>1. i \in 1..11 /\ i \in 1..11 + l /\ ~(i >= 12)  BY <1>1, <2>3
    <3>2. s[i] = Opening[i]  BY <1>7, <1>8, <3>1
    <3>3. Plain(s[i], 1)  BY <2>3, <3>2, OpeningIs
    <3> QED  BY <3>1, <3>3 DEF Placed, Plain
  <2>4. CASE i \in 12..11 + l
    <3>1. i - 11 \in 1..l /\ i \in 1..11 + l /\ 11 + (i - 11) = i /\ (i - 11) - 1 = i - 12
      BY <1>1, <2>4
    <3>2. s[i] = a[i] /\ a[11 + (i - 11)] = Written[i - 11]  BY <1>7, <1>8, <3>1
    <3>3. Fits(s[i], (i - 12) % 30)  BY <1>2, <3>1, <3>2
    <3>4. i >= 12 /\ i < 12 + 30 * n  BY <1>1, <1>5, <1>6, <2>4
    <3> QED  BY <3>3, <3>4 DEF Placed, Fits
  <2>5. CASE i \in 12 + l..11 + l + e
    <3>1. n # 0  BY <1>1, <1>5, <2>5
    <3> DEFINE m == i - (11 + l)
    <3>2. m \in 1..e /\ 11 + l + m = i  BY <1>1, <2>5
    <3> HIDE DEF m
    <3>3. Plain(s[i], 1)  BY <1>3, <1>8, <3>2
    <3>4. i \in 30 * n + 10..30 * n + 13  BY <1>1, <1>6, <2>5, <3>1
    <3>5. LeastOf((i - 12) % 30) = 1  BY <1>1, <3>1, <3>4, BehindTheRows
    <3> QED  BY <3>3, <3>5 DEF Placed, Plain
  <2> QED  BY <2>1, <2>2, <2>3, <2>4, <2>5
<1>10. TextOf(s, points)
  <2>1. \A i \in 1..11 : s[i] = Opening[i]
    <3>1. \A i \in 1..11 : i \in 1..11 + l  BY <1>1
    <3> QED  BY <1>7, <1>8, <3>1
  <2>2. ASSUME NEW k \in 1..n, NEW i \in 1..28
        PROVE  s[30 * k - 19 + i] = JsonRow(points[k])[i]
    <3> DEFINE m == 30 * (k - 1) + i
    <3>1. m \in 1..l /\ 11 + m \in 1..11 + l /\ 11 + m = 30 * k - 19 + i
      <4>1. n # 0 /\ k \in Int /\ 1 <= k /\ k <= n  BY <1>1
      <4> QED  BY <1>1, <1>6, <4>1
    <3> HIDE DEF m
    <3>2. s[11 + m] = Written[m]  BY <1>7, <1>8, <3>1
    <3>3. Written[m] = JsonRow(points[k])[i]  BY <1>2 DEF m
    <3> QED  BY <3>1, <3>2, <3>3
  <2> QED  BY <2>1, <2>2 DEF TextOf, n
<1> QED  BY <1>8, <1>9, <1>10 DEF n, l, e, s

\* What the first i tokens of a file take at least: 102 characters a row.
Low(i) == IF i < 12 THEN i
          ELSE i + 72 * ((i - 12) \div 30) + 17 * ((((i - 12) % 30) + 2) \div 7)
                 + (((i - 12) % 30) + 5) \div 7

\* The numbers and the names among the first r + 1 tokens of a row.
InTheRow(r) == 17 * ((r + 2) \div 7) + (r + 5) \div 7

LEMMA RowGrows == \A r \in 1..29 : InTheRow(r) + 1 <= InTheRow(r - 1) + LeastOf(r)
<1> SUFFICES ASSUME NEW r \in 1..29 PROVE InTheRow(r) + 1 <= InTheRow(r - 1) + LeastOf(r)
  OBVIOUS
<1> DEFINE a == (r + 2) \div 7
           b == (r + 5) \div 7
           c == (r + 1) \div 7
           d == (r + 4) \div 7
<1>1. /\ a \in Int /\ 7 * a <= r + 2 /\ r + 2 < 7 * a + 7
      /\ b \in Int /\ 7 * b <= r + 5 /\ r + 5 < 7 * b + 7
      /\ c \in Int /\ 7 * c <= r + 1 /\ r + 1 < 7 * c + 7
      /\ d \in Int /\ 7 * d <= r + 4 /\ r + 4 < 7 * d + 7
  OBVIOUS
<1>2. InTheRow(r) = 17 * a + b /\ InTheRow(r - 1) = 17 * c + d
  <2>1. (r - 1) + 2 = r + 1 /\ (r - 1) + 5 = r + 4  OBVIOUS
  <2> QED  BY <2>1 DEF InTheRow
<1> HIDE DEF a, b, c, d
<1>3. CASE r % 7 = 5
  <2>1. r = 5 \/ r = 12 \/ r = 19 \/ r = 26  BY <1>3
  <2> QED  BY <1>1, <1>2, <1>3, <2>1 DEF LeastOf
<1>4. CASE r % 7 = 2
  <2>1. r = 2 \/ r = 9 \/ r = 16 \/ r = 23  BY <1>4
  <2> QED  BY <1>1, <1>2, <1>4, <2>1 DEF LeastOf
<1>5. CASE r % 7 # 5 /\ r % 7 # 2
  <2>1. a = c /\ b = d
    <3>1. r % 7 \in 0..6 /\ r = 7 * (r \div 7) + (r % 7) /\ r \div 7 \in Int
      <4>1. \A x \in Int : x % 7 \in 0..6 /\ x = 7 * (x \div 7) + (x % 7) /\ x \div 7 \in Int
        OBVIOUS
      <4>2. r \in Int  OBVIOUS
      <4> QED  BY <4>1, <4>2
    <3> DEFINE u == r % 7
               v == r \div 7
    <3>2. u \in {0, 1, 3, 4, 6} /\ v \in Int /\ r = 7 * v + u  BY <1>5, <3>1
    <3> HIDE DEF u, v
    <3> QED  BY <1>1, <3>2
  <2> QED  BY <1>1, <1>2, <1>5, <2>1 DEF LeastOf
<1> QED  BY <1>3, <1>4, <1>5

LEMMA LowType == \A i \in Nat : Low(i) \in Int
<1> SUFFICES ASSUME NEW i \in Nat, ~(i < 12) PROVE Low(i) \in Int  BY DEF Low
<1>1. (i - 12) \div 30 \in Int /\ (i - 12) % 30 \in Int  OBVIOUS
<1>2. \A a \in Int : (a + 2) \div 7 \in Int /\ (a + 5) \div 7 \in Int  OBVIOUS
<1> QED  BY <1>1, <1>2 DEF Low

LEMMA LowNext ==
    \A i \in Nat \ {0} : Low(i) <= Low(i - 1) + IF i < 12 THEN 1 ELSE LeastOf((i - 12) % 30)
<1> SUFFICES ASSUME NEW i, i \in Nat \ {0}
             PROVE  Low(i) <= Low(i - 1) + IF i < 12 THEN 1 ELSE LeastOf((i - 12) % 30)
  OBVIOUS
<1>1. CASE i < 12  BY <1>1 DEF Low
<1>2. CASE i = 12  BY <1>2 DEF Low, LeastOf
<1>3. CASE i > 12
  <2> DEFINE q == (i - 12) \div 30
             r == (i - 12) % 30
  <2>1. q \in Nat /\ r \in 0..29 /\ i - 12 = 30 * q + r  BY <1>3
  <2>2. Low(i) = i + 72 * q + InTheRow(r)
    BY <1>3 DEF Low, InTheRow
  <2> HIDE DEF q, r
  <2>3. CASE r = 0
    <3>1. (i - 1) - 12 = 30 * (q - 1) + 29 /\ q - 1 \in Int  BY <2>1, <2>3
    <3> DEFINE p == q - 1
    <3>2. p \in Int /\ (i - 1) - 12 = 30 * p + 29 /\ q = p + 1  BY <2>1, <3>1
    <3> HIDE DEF p
    <3>3. ((i - 1) - 12) \div 30 = p /\ ((i - 1) - 12) % 30 = 29  BY <3>2
    <3>4. Low(i - 1) = (i - 1) + 72 * p + 17 * (31 \div 7) + 34 \div 7
      BY <1>3, <3>3 DEF Low
    <3>5. InTheRow(0) = 0 /\ LeastOf(0) = 1 /\ 31 \div 7 = 4 /\ 34 \div 7 = 4
      BY DEF InTheRow, LeastOf
    <3>6. LeastOf((i - 12) % 30) = 1  BY <2>3, <3>5 DEF r
    <3> QED  BY <1>3, <2>2, <2>3, <3>2, <3>4, <3>5, <3>6
  <2>4. CASE r # 0
    <3> DEFINE u == r - 1
    <3>1. u \in 0..28 /\ r = u + 1 /\ (i - 1) - 12 = 30 * q + u  BY <2>1, <2>4
    <3> HIDE DEF u
    <3>2. ((i - 1) - 12) \div 30 = q /\ ((i - 1) - 12) % 30 = u  BY <2>1, <3>1
    <3>3. Low(i - 1) = (i - 1) + 72 * q + InTheRow(u)  BY <1>3, <3>2 DEF Low, InTheRow
    <3>4. InTheRow(r) + 1 <= InTheRow(u) + LeastOf(r)
      <4>1. r \in 1..29 /\ r - 1 = u  BY <2>1, <2>4, <3>1
      <4> QED  BY <4>1, RowGrows
    <3>5. InTheRow(r) \in Int /\ InTheRow(u) \in Int /\ LeastOf(r) \in Int
      <4>1. \A a \in Int : (a + 2) \div 7 \in Int /\ (a + 5) \div 7 \in Int  OBVIOUS
      <4>2. r \in Int /\ u \in Int  BY <2>1, <3>1
      <4> QED  BY <4>1, <4>2 DEF InTheRow, LeastOf
    <3>6. LeastOf((i - 12) % 30) = LeastOf(r)  BY DEF r
    <3> QED  BY <1>3, <2>1, <2>2, <3>3, <3>4, <3>5, <3>6
  <2> QED  BY <2>1, <2>3, <2>4
<1> QED  BY <1>1, <1>2, <1>3

-----------------------------------------------------------------------------
(* The file that the parser reads, and the estimate of its size.           *)

\* A file of n points, or what is left of it.
DocumentOf(d, n) ==
    /\ d.text \in Seq(Tokens) /\ \A i \in 1..Len(d.text) : Placed(d.text[i], i, n)
    /\ d.size \in Nat /\ Low(Len(d.text)) <= d.size
    /\ ~d.cut => n # 0 /\ Len(d.text) = 30 * n + 13

LEMMA DocumentIs ==
    ASSUME points \in Seq(Point), lost[1] \in Nat, gen_status = "done" => Len(points) # 0
    PROVE  DocumentOf(TheDocument, Len(points)) /\ TextOf(TheDocument.text, points)
<1> DEFINE s == AllPrinted
           n == Len(points)
           l == lost[1]
           m == IF l < Len(s) THEN Len(s) - l ELSE 0
           f == JsonFile
<1>1. n \in Nat  OBVIOUS
<1>2. /\ s \in Seq(Tokens)
      /\ Len(s) = 11 + LengthOfRows(n) + IF gen_status = "done" THEN 4 ELSE 0
      /\ \A i \in 1..Len(s) : Placed(s[i], i, n)
      /\ TextOf(s, points)
  BY FileIs
<1>3. f = SubSeq(s, 1, m)  BY DEF JsonFile, WithoutLast
<1> HIDE DEF s, n, f
<1>4. Len(s) \in Nat  BY <1>2
<1>5. m \in 0..Len(s)  BY <1>4
<1>6. ~(gen_status # "done" \/ l > 0) => n # 0 /\ m = 30 * n + 13
  <2> SUFFICES ASSUME gen_status = "done", l = 0 PROVE n # 0 /\ m = 30 * n + 13
    OBVIOUS
  <2>1. n # 0  BY DEF n
  <2>2. Len(s) = 11 + (30 * n - 2) + 4  BY <1>2, <2>1 DEF LengthOfRows
  <2>3. m = Len(s)  BY <1>1, <2>2
  <2> QED  BY <1>1, <2>1, <2>2, <2>3
<1> HIDE DEF m
<1>7. f \in Seq(Tokens) /\ Len(f) = m /\ \A i \in 1..m : f[i] = s[i]
  <2>1. \A k \in 1..m : k \in 1..Len(s) /\ s[k] \in Tokens  BY <1>2, <1>4, <1>5, ElementOfSeq
  <2>2. m \in Int /\ 1 \in Int  BY <1>4, <1>5
  <2>3. SubSeq(s, 1, m) \in Seq(Tokens)  BY <1>2, <2>1, <2>2, SubSeqProperties
  <2>4. Len(SubSeq(s, 1, m)) = m /\ \A i \in 1..m : SubSeq(s, 1, m)[i] = s[i]
    BY <1>2, <1>4, <1>5
  <2> QED  BY <1>3, <2>3, <2>4
<1>8. \A i \in 1..m : Placed(f[i], i, n)
  <2>1. \A i \in 1..m : i \in 1..Len(s)  BY <1>4, <1>5
  <2> QED  BY <1>2, <1>7, <2>1
<1>9. Width(f) \in Nat /\ Low(m) <= Width(f)
  <2> DEFINE low == [k \in 0..m |-> Low(k)]
  <2>1. low \in [0..m -> Int]  BY <1>4, <1>5, LowType
  <2>2. low[0] = 0  BY <1>4, <1>5 DEF Low
  <2>3. ASSUME NEW k \in 1..m PROVE low[k] <= low[k - 1] + f[k].width
    <3>1. k \in Nat \ {0} /\ k - 1 \in 0..m /\ k \in 0..m  BY <1>4, <1>5
    <3>2. low[k] = Low(k) /\ low[k - 1] = Low(k - 1)  BY <3>1
    <3> DEFINE e == IF k < 12 THEN 1 ELSE LeastOf((k - 12) % 30)
    <3>3. Low(k) <= Low(k - 1) + e /\ Low(k) \in Int /\ Low(k - 1) \in Int
      BY <3>1, LowNext, LowType
    <3>4. e <= f[k].width /\ f[k].width \in Int /\ e \in Int
      <4>1. f[k] \in Tokens /\ 1 <= f[k].width /\ (k >= 12 => LeastOf((k - 12) % 30) <= f[k].width)
        BY <1>8 DEF Placed
      <4>2. LeastOf((k - 12) % 30) \in Int  BY DEF LeastOf
      <4>3. f[k].width \in Int  BY <4>1 DEF Tokens
      <4> QED  BY <3>1, <4>1, <4>2, <4>3
    <3> HIDE DEF low, e
    <3> DEFINE a == Low(k)
               b == Low(k - 1)
               w == f[k].width
    <3>5. a <= b + w
      <4>1. a <= b + e /\ a \in Int /\ b \in Int /\ e <= w /\ w \in Int /\ e \in Int
        BY <3>3, <3>4
      <4> HIDE DEF a, b, w
      <4> QED  BY <4>1
    <3> QED  BY <3>2, <3>5
  <2> HIDE DEF low
  <2>4. /\ low \in [0..Len(f) -> Int] /\ low[0] <= 0
        /\ \A k \in 1..Len(f) : low[k] <= low[k - 1] + f[k].width
    BY <1>7, <2>1, <2>2, <2>3
  <2>5. f \in Seq(Tokens)  BY <1>7
  <2>6. Width(f) \in Nat /\ low[Len(f)] <= Width(f)
    BY <2>4, <2>5, WidthAtLeast
  <2>7. low[m] = Low(m)  BY <1>4, <1>5 DEF low
  <2> QED  BY <1>7, <2>6, <2>7
<1>10. /\ TheDocument.text = f /\ TheDocument.size = Width(f)
       /\ TheDocument.cut = (gen_status # "done" \/ l > 0)
  BY DEF TheDocument, f
<1>11. TextOf(f, points)
  <2>1. \A i \in Nat \ {0} : i <= m => i <= Len(s) /\ f[i] = s[i]
    <3>1. \A i \in Nat \ {0} : i <= m => i <= Len(s) /\ i \in 1..m  BY <1>4, <1>5
    <3> QED  BY <1>7, <3>1
  <2>2. \A k \in 1..n, i \in 1..28 : 30 * k - 19 + i \in Nat \ {0}  BY <1>1
  <2>3. \A i \in 1..11 : i \in Nat \ {0}  OBVIOUS
  <2> QED  BY <1>2, <1>7, <2>1, <2>2, <2>3 DEF TextOf, n
<1> QED  BY <1>6, <1>7, <1>8, <1>9, <1>10, <1>11 DEF DocumentOf, n

\* The points of the document are those whose last number is in the file.
LEMMA WholeRowsAre ==
    ASSUME points \in Seq(Point), lost[1] \in Nat, gen_status = "done" => Len(points) # 0
    PROVE  /\ Len(TheDocument.points) \in Nat /\ Len(TheDocument.points) <= Len(points)
           /\ \A k \in 1..Len(points) :
                 k <= Len(TheDocument.points) <=> 30 * k + 8 <= Len(TheDocument.text)
<1> DEFINE n == Len(points)
           m == Len(JsonFile)
           q == (m - 8) \div 30
           w == IF m < 8 THEN 0 ELSE IF q < n THEN q ELSE n
<1>1. n \in Nat /\ m \in Nat /\ DOMAIN points = 1..n
  <2>1. TheDocument.text = JsonFile  BY DEF TheDocument
  <2>2. JsonFile \in Seq(Tokens)  BY <2>1, DocumentIs DEF DocumentOf
  <2> QED  BY <2>2
<1>2. ASSUME NEW k \in 1..n PROVE RowWidths(k) = 30 * k + 8
  <2> DEFINE ps == SubSeq(points, 1, k)
  <2>1. \A i \in 1..k : i \in 1..n /\ points[i] \in Point  BY <1>1, ElementOfSeq
  <2>2. ps \in Seq(Point) /\ Len(ps) = k /\ \A i \in 1..k : ps[i] = points[i]
    BY <1>1, <2>1, SubSeqProperties
  <2>3. DOMAIN ps = 1..k  BY <2>2, LenProperties
  <2> HIDE DEF ps
  <2>4. RowsOf(ps) = Rows([i \in 1..k |-> JsonRow(points[i])])
    <3>1. [i \in 1..k |-> JsonRow(points[i])] = [i \in DOMAIN ps |-> JsonRow(ps[i])]
      BY <2>2, <2>3
    <3> QED  BY <3>1 DEF RowsOf
  <2>5. Len(RowsOf(ps)) = LengthOfRows(k)  BY <2>2, RowsOfIs
  <2>6. RowWidths(k) = Len(Opening) + LengthOfRows(k) - 1
    BY <2>4, <2>5, Zenon DEF RowWidths
  <2>7. k # 0 /\ k \in Int /\ Len(Opening) = 11  BY OpeningIs
  <2> QED  BY <2>6, <2>7 DEF LengthOfRows
<1>3. w \in Nat /\ w <= n /\ \A k \in 1..n : k <= w <=> 30 * k + 8 <= m
  <2>1. m >= 8 => q \in Nat /\ 30 * q + 8 <= m /\ m < 30 * q + 38  BY <1>1
  <2> HIDE DEF q, n, m
  <2>2. w \in Nat /\ w <= n  BY <1>1, <2>1
  <2>3. ASSUME NEW k \in 1..n PROVE k <= w <=> 30 * k + 8 <= m  BY <1>1, <2>1
  <2> QED  BY <2>2, <2>3
<1> HIDE DEF w
<1>4. WholeRows = 1..w
  <2>1. \A k \in 1..n : k \in WholeRows <=> k <= w  BY <1>1, <1>2, <1>3 DEF WholeRows
  <2>2. WholeRows \subseteq 1..n  BY <1>1 DEF WholeRows
  <2>3. 1..w \subseteq 1..n /\ \A k \in 1..n : k \in 1..w <=> k <= w  BY <1>1, <1>3
  <2> QED  BY <2>1, <2>2, <2>3
<1>5. Cardinality(WholeRows) = w
  <2>1. Cardinality(1..w) = IF 1 > w THEN 0 ELSE w - 1 + 1  BY <1>3, FS_Interval
  <2> QED  BY <1>3, <1>4, <2>1
<1>6. Len(TheDocument.points) = w
  <2>1. TheDocument.points = SubSeq(points, 1, w)  BY <1>5 DEF TheDocument
  <2>2. \A i \in 1..w : i \in 1..n /\ points[i] \in Point  BY <1>1, <1>3, ElementOfSeq
  <2> QED  BY <1>1, <1>3, <2>1, <2>2, SubSeqProperties
<1> QED  BY <1>3, <1>6 DEF TheDocument, n, m

LEMMA EstimateFits ==
    ASSUME NEW size \in Nat, NEW k \in Nat, 102 * k - 90 <= size
    PROVE  LET estimate == Parser!estimate_total_entries(size)
           IN  /\ estimate \in Int
               /\ estimate # Parser!Unbounded => k <= estimate + 1
               /\ estimate = Parser!Unbounded => size < 14 /\ estimate = -1
<1>1. CASE size < 14
  BY <1>1 DEF Parser!estimate_total_entries, Parser!JSON_OVERHEAD_SIZE, Parser!Unbounded
<1>2. CASE ~(size < 14)
  <2> DEFINE e == (size - 14 + 101 - 1) \div 101
  <2>1. Parser!estimate_total_entries(size) = e
    BY <1>2 DEF Parser!estimate_total_entries, Parser!JSON_OVERHEAD_SIZE,
                Parser!JSON_MIN_ROW_SIZE
  <2>2. e \in Nat /\ size + 86 < 101 * e + 101  BY <1>2
  <2> HIDE DEF e
  <2>3. k <= e + 1  BY <2>2
  <2> QED  BY <2>1, <2>2, <2>3 DEF Parser!Unbounded
<1> QED  BY <1>1, <1>2

\* A file that is whole has room for all its points.
LEMMA WholeFileFits ==
    ASSUME NEW size \in Nat, NEW n \in Nat \ {0}, Low(30 * n + 13) <= size
    PROVE  LET estimate == Parser!estimate_total_entries(size)
           IN  estimate \in Nat /\ n <= estimate
<1>1. Low(30 * n + 13) = 102 * n + 13
  <2>1. (30 * n + 13) - 12 = 30 * n + 1  OBVIOUS
  <2>2. (30 * n + 1) \div 30 = n /\ (30 * n + 1) % 30 = 1  OBVIOUS
  <2>3. (1 + 2) \div 7 = 0 /\ (1 + 5) \div 7 = 0  OBVIOUS
  <2> QED  BY <2>1, <2>2, <2>3 DEF Low
<1>2. 102 * n + 13 <= size  BY <1>1
<1> DEFINE e == (size - 14 + 101 - 1) \div 101
<1>3. Parser!estimate_total_entries(size) = e
  BY <1>2 DEF Parser!estimate_total_entries, Parser!JSON_OVERHEAD_SIZE,
              Parser!JSON_MIN_ROW_SIZE
<1>4. e \in Nat /\ size + 86 < 101 * e + 101  BY <1>2
<1> HIDE DEF e
<1>5. n <= e  BY <1>2, <1>4
<1> QED  BY <1>3, <1>4, <1>5

-----------------------------------------------------------------------------
(* The parser on such a file: a row it starts is one that was written.     *)

ParserEnd == Len(document.text) + 1

\* The rows that were started: those kept, and the one that is being read.
Started(kept, at) == kept + IF at \in {"items", "value", "row_end"} THEN 1 ELSE 0

FileInv ==
    /\ gen_status \in {"rows", "done"} => count # 0
    /\ gen_status = "done" => Len(points) = count
    /\ stage # "parser" => phase = "start"
    /\ stage = "parser" =>
          /\ DocumentOf(document, Len(points))
          /\ item_estimate = Parser!estimate_total_entries(document.size)
          /\ pos \in 1..ParserEnd

\* The position is behind the braces of the rows that were started, each a row of the
\* generator.
FitInv ==
    /\ phase = "start" => pos = 1
    /\ phase \in {"start", "header"} => data_item_count = 0
    /\ stage = "parser" /\ preallocate /\ item_estimate = Parser!Unbounded =>
          phase \in {"start", "error"} /\ data_item_count = 0
    /\ data_item_count \in Nat
    /\ phase \in {"rows", "items", "value", "row_end"} => pos > 1
    /\ LET started == Started(data_item_count, phase)
       IN  started <= Len(points) /\ (started > 0 => 30 * started - 18 < pos)

LEMMA ScanIs ==
    ASSUME Len(document.text) \in Nat, NEW p \in 1..ParserEnd, NEW c
    PROVE  LET at == Parser!advance_until(p, c)
           IN  /\ \/ at = Parser!None
                  \/ at \in p..Len(document.text) /\ at # Parser!None
                     /\ document.text[at].text = c /\ at + 1 \in p..ParserEnd
               /\ Parser!Behind(at) \in p..ParserEnd
               /\ at # Parser!None => Parser!Behind(at) = at + 1
<1> DEFINE at == Parser!advance_until(p, c)
           n == Len(document.text)
           S == {q \in p..n : document.text[q].text = c}
<1>1. n \in Nat /\ p \in Nat \ {0} /\ p <= n + 1  BY DEF ParserEnd
<1>2. CASE S = {}
  <2>1. at = Parser!None  BY <1>2 DEF Parser!advance_until, Parser!text
  <2>2. Parser!Behind(at) = n + 1  BY <2>1 DEF Parser!Behind, Parser!End, Parser!text
  <2> QED  BY <1>1, <2>1, <2>2 DEF ParserEnd
<1>3. CASE S # {}
  <2>1. S \subseteq Nat  BY <1>1
  <2>2. PICK m \in S : \A q \in S : m <= q  BY <1>3, <2>1, Least
  <2>3. \A r \in p..m - 1 : document.text[r].text # c  BY <1>1, <2>1, <2>2
  <2>4. \E q \in p..n : document.text[q].text = c /\ \A r \in p..q - 1 : document.text[r].text # c
    BY <2>2, <2>3
  <2>5. ~(\A q \in p..n : document.text[q].text # c)  BY <2>2
  <2>6. at \in p..n /\ document.text[at].text = c
    BY <2>4, <2>5, Zenon DEF Parser!advance_until, Parser!text
  <2> HIDE DEF at
  <2>7. at # 0 /\ at + 1 \in p..n + 1  BY <1>1, <2>6
  <2>8. Parser!Behind(at) = at + 1  BY <2>7 DEF Parser!Behind, Parser!None
  <2>9. p <= at /\ at + 1 \in p..ParserEnd  BY <1>1, <2>6, <2>7 DEF ParserEnd
  <2> QED  BY <2>6, <2>7, <2>8, <2>9 DEF Parser!None, at
<1> QED  BY <1>2, <1>3

\* The brace that a scan finds behind the opening is that of a row.
LEMMA BraceIsOfARow ==
    ASSUME NEW n \in Nat, NEW rows \in Nat, NEW t, NEW i \in Nat, Placed(t, i, n), Opens(t),
           i > 1, rows > 0 => 30 * rows - 18 < i
    PROVE  rows + 1 <= n /\ 30 * (rows + 1) - 18 < i + 1
<1>1. i >= 12 /\ (i - 12) % 30 = 0 /\ i < 12 + 30 * n
  <2>1. i = 1 \/ (i >= 12 /\ (i - 12) % 30 = 0 /\ i < 12 + 30 * n)  BY DEF Placed
  <2> QED  BY <2>1
<1> DEFINE q == (i - 12) \div 30
<1>2. q \in Nat /\ i = 12 + 30 * q  BY <1>1
<1> HIDE DEF q
<1>3. rows <= q
  <2>1. CASE rows = 0  BY <1>2, <2>1
  <2>2. CASE rows > 0
    <3>1. 30 * rows - 18 < i  BY <2>2
    <3> QED  BY <1>2, <2>2, <3>1
  <2> QED  BY <2>1, <2>2
<1>4. q < n  BY <1>1, <1>2
<1> QED  BY <1>2, <1>3, <1>4

LEMMA FileInvInit == Init => FileInv /\ FitInv
<1> SUFFICES ASSUME Init PROVE FileInv /\ FitInv  OBVIOUS
<1>1. /\ gen_status = "start" /\ points = <<>> /\ stage = "generator" /\ phase = "start"
      /\ data_item_count = 0 /\ pos = 1
  BY DEF Init, GenInit, Parser!Init
<1>2. FileInv  BY <1>1 DEF FileInv
<1>3. Len(points) = 0 /\ Started(data_item_count, phase) = 0  BY <1>1, EmptySeq DEF Started
<1> QED  BY <1>1, <1>2, <1>3 DEF FitInv

\* The generator writes a file, if it has points to write.
LEMMA FileInvGenerator ==
    ASSUME GeneratorInv, FileInv, FitInv, GeneratorStep
    PROVE  FileInv' /\ FitInv'
<1>1. /\ stage = "generator" /\ stage' = stage /\ phase' = phase /\ pos' = pos
      /\ data_item_count' = data_item_count
  BY DEF GeneratorStep, parser_rest
<1>2. phase = "start" /\ pos = 1 /\ data_item_count = 0  BY <1>1 DEF FileInv, FitInv
<1>3. /\ gen_status' \in {"rows", "done"} => count' # 0
      /\ gen_status' = "done" => Len(points') = count'
  <2>1. CASE OpenOutput
    BY <2>1 DEF GeneratorStep, OpenOutput, gen_options, gen_data, FileInv
  <2>2. CASE WriteRow  BY <2>2 DEF WriteRow, gen_options, FileInv
  <2>3. CASE CloseOutput  BY <2>3 DEF CloseOutput, gen_options, gen_data, FileInv
  <2>4. CASE Stop  BY <2>4 DEF Stop
  <2> QED  BY <2>1, <2>2, <2>3, <2>4 DEF GeneratorStep, Generate
<1>4. FileInv'  BY <1>1, <1>2, <1>3 DEF FileInv
<1>5. GeneratorInv'  BY WriteRowTypes, GeneratorOther DEF GeneratorStep, Generate
<1>6. Len(points') \in Nat
  <2>1. points' \in Seq(Point)  BY <1>5 DEF GeneratorInv, GenTypeOK, Point
  <2> QED  BY <2>1
<1>7. Started(data_item_count', phase') = 0  BY <1>1, <1>2 DEF Started
<1> QED  BY <1>1, <1>2, <1>4, <1>6, <1>7 DEF FitInv

LEMMA FileInvStart ==
    ASSUME GeneratorInv, FileInv, FitInv, StartParser
    PROVE  FileInv' /\ FitInv'
<1>1. /\ stage = "reader" /\ stage' = "parser" /\ document' = TheDocument
      /\ item_estimate' = Parser!estimate_total_entries(document'.size)
      /\ phase' = phase /\ pos' = pos /\ data_item_count' = data_item_count
      /\ gen_status' = gen_status /\ points' = points /\ count' = count
  BY DEF StartParser, parser_rest, gen_vars, gen_options, gen_data
<1>2. phase = "start" /\ pos = 1 /\ data_item_count = 0  BY <1>1 DEF FileInv, FitInv
<1>3. points \in Seq(Point) /\ lost[1] \in Nat
  BY GeneratorAssumption DEF GeneratorInv, GenTypeOK, Point
<1>4. gen_status = "done" => Len(points) # 0  BY DEF FileInv
<1>5. DocumentOf(TheDocument, Len(points))  BY <1>3, <1>4, DocumentIs
<1>6. DocumentOf(document', Len(points'))  BY <1>1, <1>5
<1>7. Len(document'.text) \in Nat
  <2>1. document'.text \in Seq(Tokens)  BY <1>6 DEF DocumentOf
  <2> QED  BY <2>1
<1>8. pos' \in 1..ParserEnd'  BY <1>1, <1>2, <1>7 DEF ParserEnd
<1>9. FileInv'  BY <1>1, <1>6, <1>8 DEF FileInv
<1>10. Started(data_item_count', phase') = 0 /\ Len(points') \in Nat
  BY <1>1, <1>2, <1>3 DEF Started
<1> QED  BY <1>1, <1>2, <1>9, <1>10 DEF FitInv

LEMMA StartedType == \A kept \in Nat : \A at : Started(kept, at) \in Nat
  BY DEF Started

\* No row is started by a step that moves on in the file, or stands still.
LEMMA MovesOn ==
    ASSUME FileInv, FitInv, stage = "parser", UNCHANGED <<gen_vars, stage, preallocate>>,
           UNCHANGED <<document, item_estimate>>,
           pos' \in pos..ParserEnd, data_item_count' \in Nat,
           Started(data_item_count', phase') <= Started(data_item_count, phase),
           phase \notin {"start", "error"},
           phase' # "start", phase' = "header" => data_item_count' = 0,
           phase' \in {"rows", "items", "value", "row_end"} => pos' > 1
    PROVE  FileInv' /\ FitInv'
<1>1. /\ gen_status' = gen_status /\ points' = points /\ count' = count /\ stage' = stage
      /\ document' = document /\ item_estimate' = item_estimate /\ preallocate' = preallocate
      /\ ParserEnd' = ParserEnd
  BY DEF gen_vars, gen_options, gen_data, ParserEnd
<1>2. /\ DocumentOf(document, Len(points))
      /\ item_estimate = Parser!estimate_total_entries(document.size)
      /\ pos \in 1..ParserEnd
  BY DEF FileInv
<1>3. ParserEnd \in Int
  <2>1. document.text \in Seq(Tokens)  BY <1>2 DEF DocumentOf
  <2> QED  BY <2>1 DEF ParserEnd
<1>4. pos' \in 1..ParserEnd /\ pos <= pos'  BY <1>2, <1>3
<1>5. FileInv'  BY <1>1, <1>2, <1>4 DEF FileInv
<1> DEFINE a == Started(data_item_count, phase)
           b == Started(data_item_count', phase')
           n == Len(points)
<1>6. a \in Nat /\ b \in Nat
  <2>1. data_item_count \in Nat /\ data_item_count' \in Nat  BY DEF FitInv
  <2> QED  BY <2>1, StartedType
<1>7. b <= n /\ (b > 0 => 30 * b - 18 < pos')
  <2>1. a <= n /\ (a > 0 => 30 * a - 18 < pos) /\ n \in Int  BY DEF FitInv
  <2>2. b <= a /\ pos \in Int /\ pos' \in Int /\ pos <= pos'  BY <1>2, <1>3, <1>4
  <2> HIDE DEF a, b, n
  <2> QED  BY <1>6, <2>1, <2>2
<1>8. ~(preallocate /\ item_estimate = Parser!Unbounded)  BY DEF FitInv
<1> QED  BY <1>1, <1>5, <1>7, <1>8 DEF FitInv

\* The steps of the parser other than those that read the header and start a row.
LEMMA ParserMovesOn ==
    ASSUME FileInv, FitInv, ParserStep, phase \notin {"start", "header"}, ~Parser!StartRow
    PROVE  FileInv' /\ FitInv'
<1> DEFINE Same == data_item_count' = data_item_count
           In == {"items", "value", "row_end"}
<1>1. /\ stage = "parser" /\ Parser!Run /\ UNCHANGED <<gen_vars, stage>>
      /\ Len(document.text) \in Nat /\ pos \in 1..ParserEnd
  BY DEF ParserStep, FileInv, DocumentOf
<1>2. data_item_count \in Nat /\ ParserEnd \in Int /\ pos \in pos..ParserEnd
  BY <1>1 DEF FitInv, ParserEnd
<1>3. phase \in {"rows", "items", "value", "row_end"} => pos > 1  BY DEF FitInv
<1>4. SUFFICES
        /\ UNCHANGED <<document, preallocate, item_estimate>>
        /\ pos' \in pos..ParserEnd
        /\ phase \notin {"start", "error"} /\ phase' \notin {"start", "header"}
        /\ phase' \in {"rows", "items", "value", "row_end"} =>
              phase \in {"rows", "items", "value", "row_end"}
        /\ \/ Same /\ (phase' \in In => phase \in In)
           \/ data_item_count' = data_item_count + 1 /\ phase \in In /\ phase' \notin In
  <2>1. data_item_count' \in Nat  BY <1>2, <1>4
  <2>2. Started(data_item_count', phase') <= Started(data_item_count, phase)
    BY <1>2, <1>4 DEF Started
  <2>3. phase' \in {"rows", "items", "value", "row_end"} => pos' > 1
    BY <1>1, <1>2, <1>3, <1>4
  <2> QED  BY <1>1, <1>4, <2>1, <2>2, <2>3, MovesOn
<1> USE DEF Parser!input, Parser!scanner, Parser!store, Parser!average
<1>5. CASE Parser!EndRows
  <2>1. pos' = Parser!End  BY <1>5, Zenon DEF Parser!EndRows
  <2>2. pos' \in pos..ParserEnd  BY <1>1, <1>2, <2>1 DEF Parser!End, Parser!text, ParserEnd
  <2> QED  BY <1>5, <2>2 DEF Parser!EndRows
<1>6. CASE Parser!ParseName
  <2> DEFINE at == Parser!NameStart
             end == Parser!NameEnd
  <2>1. at \in pos..Len(document.text) /\ at + 1 \in pos..ParserEnd /\ at + 1 \in 1..ParserEnd
    <3>1. at # Parser!None  BY <1>6 DEF Parser!ParseName
    <3>2. at \in pos..Len(document.text) /\ at + 1 \in pos..ParserEnd
      BY <1>1, <3>1, ScanIs DEF Parser!NameStart
    <3> QED  BY <1>1, <3>2
  <2>2. Parser!Behind(end) \in at + 1..ParserEnd  BY <1>1, <2>1, ScanIs DEF Parser!NameEnd
  <2>3. pos' = Parser!Behind(end)  BY <1>6 DEF Parser!ParseName
  <2> HIDE DEF at, end
  <2>4. pos' \in pos..ParserEnd  BY <1>1, <1>2, <2>1, <2>2, <2>3
  <2> QED  BY <1>6, <2>4 DEF Parser!ParseName, Parser!InRow
<1>7. CASE Parser!ParseValue
  <2> DEFINE at == Parser!Colon
             end == Parser!ValueEnd
  <2>1. at \in pos..Len(document.text) /\ at + 1 \in pos..ParserEnd /\ at + 1 \in 1..ParserEnd
    <3>1. at # Parser!None  BY <1>7 DEF Parser!ParseValue
    <3>2. at \in pos..Len(document.text) /\ at + 1 \in pos..ParserEnd
      BY <1>1, <3>1, ScanIs DEF Parser!Colon
    <3> QED  BY <1>1, <3>2
  <2>2. Parser!Behind(end) \in at + 1..ParserEnd  BY <1>1, <2>1, ScanIs DEF Parser!ValueEnd
  <2>3. pos' = Parser!Behind(end)  BY <1>7 DEF Parser!ParseValue
  <2> HIDE DEF at, end
  <2>4. pos' \in pos..ParserEnd  BY <1>1, <1>2, <2>1, <2>2, <2>3
  <2> QED  BY <1>7, <2>4 DEF Parser!ParseValue
<1>8. CASE Parser!BreakRow
  <2>1. pos' \in pos..ParserEnd
    BY <1>1, <1>2, <1>8 DEF Parser!BreakRow, Parser!End, Parser!text, ParserEnd
  <2> QED  BY <1>8, <2>1 DEF Parser!BreakRow, Parser!RunsOut, Parser!InRow
<1>9. CASE Parser!RejectName  BY <1>2, <1>9 DEF Parser!RejectName, Parser!InRow
<1>10. CASE Parser!RejectValue  BY <1>2, <1>10 DEF Parser!RejectValue
<1>11. CASE Parser!CompleteRow  BY <1>2, <1>11 DEF Parser!CompleteRow
<1>12. CASE Parser!RejectRow  BY <1>2, <1>12 DEF Parser!RejectRow
<1>13. CASE Parser!StoreInArray  BY <1>2, <1>13 DEF Parser!StoreInArray, Parser!Complete
<1>14. CASE Parser!CrashInArray  BY <1>2, <1>14 DEF Parser!CrashInArray, Parser!Complete
<1>15. CASE Parser!StoreInList  BY <1>2, <1>15 DEF Parser!StoreInList, Parser!Complete
<1>16. CASE Parser!OutOfMemory  BY <1>2, <1>16 DEF Parser!OutOfMemory, Parser!Complete
<1>17. CASE Parser!StartAverage  BY <1>2, <1>17 DEF Parser!StartAverage
<1>18. CASE Parser!SumArray  BY <1>2, <1>18 DEF Parser!SumArray
<1>19. CASE Parser!SumList  BY <1>2, <1>19 DEF Parser!SumList
<1>20. CASE Parser!Finish  BY <1>2, <1>20 DEF Parser!Finish
<1>21. ~Parser!ReadFile /\ ~Parser!ReadFails /\ ~Parser!FindHeader
  BY DEF Parser!ReadFile, Parser!ReadFails, Parser!FindHeader
<1> QED
  BY <1>1, <1>5, <1>6, <1>7, <1>8, <1>9, <1>10, <1>11, <1>12, <1>13, <1>14, <1>15, <1>16,
     <1>17, <1>18, <1>19, <1>20, <1>21 DEF Parser!Run

\* The header is read: no row was started.
LEMMA ParserHeader ==
    ASSUME FileInv, FitInv, ParserStep, phase \in {"start", "header"}
    PROVE  FileInv' /\ FitInv'
<1>1. /\ stage = "parser" /\ Parser!Run /\ UNCHANGED <<gen_vars, stage>>
      /\ Len(document.text) \in Nat /\ pos \in 1..ParserEnd /\ data_item_count = 0
  BY DEF ParserStep, FileInv, FitInv, DocumentOf
<1>2. Parser!ReadFile \/ Parser!ReadFails \/ Parser!FindHeader
  BY <1>1 DEF Parser!Run, Parser!StartRow, Parser!EndRows, Parser!ParseName, Parser!RejectName,
     Parser!InRow, Parser!ParseValue, Parser!RejectValue, Parser!BreakRow, Parser!RunsOut,
     Parser!CompleteRow, Parser!RejectRow, Parser!StoreInArray, Parser!CrashInArray,
     Parser!StoreInList, Parser!OutOfMemory, Parser!Complete, Parser!StartAverage,
     Parser!SumArray, Parser!SumList, Parser!Finish
<1>3. CASE Parser!ReadFile \/ Parser!ReadFails
  <2>1. /\ phase = "start" /\ phase' \in {"header", "error"} /\ pos' = pos
        /\ data_item_count' = data_item_count
        /\ document' = document /\ item_estimate' = item_estimate /\ preallocate' = preallocate
        /\ preallocate /\ item_estimate = Parser!Unbounded => phase' = "error"
    BY <1>3 DEF Parser!ReadFile, Parser!ReadFails, Parser!input, Parser!scanner, Parser!store
  <2>2. /\ gen_status' = gen_status /\ points' = points /\ count' = count /\ stage' = stage
        /\ ParserEnd' = ParserEnd
    BY <1>1, <2>1 DEF gen_vars, gen_options, gen_data, ParserEnd
  <2>3. FileInv'  BY <1>1, <2>1, <2>2 DEF FileInv
  <2>4. Started(data_item_count', phase') = 0  BY <1>1, <2>1 DEF Started
  <2>5. 0 <= Len(points)
    <3>1. Started(data_item_count, phase) = 0  BY <1>1, <2>1 DEF Started
    <3> QED  BY <3>1 DEF FitInv
  <2> QED  BY <1>1, <2>1, <2>2, <2>3, <2>4, <2>5 DEF FitInv
<1>4. CASE Parser!FindHeader
  <2>1. PICK c : /\ pos' = Parser!Behind(Parser!advance_until(pos, c))
                 /\ phase' = "rows" => Parser!advance_until(pos, c) # Parser!None
    BY <1>4, Zenon DEF Parser!FindHeader
  <2>2. /\ phase = "header" /\ phase' \in {"header", "rows", "error"}
        /\ UNCHANGED <<document, item_estimate, preallocate, data_item_count>>
    BY <1>4 DEF Parser!FindHeader, Parser!input, Parser!store
  <2>3. pos' \in pos..ParserEnd  BY <1>1, <2>1, ScanIs
  <2>4. phase' = "rows" => pos' > 1
    <3> SUFFICES ASSUME phase' = "rows" PROVE pos' > 1  OBVIOUS
    <3> DEFINE at == Parser!advance_until(pos, c)
    <3>1. at \in pos..Len(document.text) /\ pos' = at + 1  BY <1>1, <2>1, ScanIs
    <3> HIDE DEF at
    <3>2. at \in Int /\ pos \in Int /\ pos <= at /\ 1 <= pos  BY <1>1, <3>1 DEF ParserEnd
    <3> QED  BY <3>1, <3>2
  <2>5. Started(data_item_count', phase') <= Started(data_item_count, phase)
    BY <1>1, <2>2 DEF Started
  <2> QED  BY <1>1, <2>2, <2>3, <2>4, <2>5, MovesOn
<1> QED  BY <1>2, <1>3, <1>4

\* A row is started at a brace, and a row of the generator is there.
LEMMA ParserStartsRow ==
    ASSUME GeneratorInv, FileInv, FitInv, ParserStep, Parser!StartRow
    PROVE  FileInv' /\ FitInv'
<1> DEFINE at == Parser!advance_until(pos, "{")
           n == Len(points)
           rows == data_item_count
<1>1. /\ stage = "parser" /\ UNCHANGED <<gen_vars, stage>>
      /\ Len(document.text) \in Nat /\ pos \in 1..ParserEnd
      /\ DocumentOf(document, n)
  BY DEF ParserStep, FileInv, DocumentOf
<1>2. at # Parser!None /\ pos' = at + 1  BY Zenon DEF Parser!StartRow
<1>3. /\ phase = "rows" /\ phase' = "items"
      /\ UNCHANGED <<document, item_estimate, preallocate, data_item_count>>
  BY DEF Parser!StartRow, Parser!input, Parser!store
<1>4. at \in pos..Len(document.text) /\ pos' \in pos..ParserEnd
  BY <1>1, <1>2, ScanIs, Zenon
<1>5. Opens(document.text[at])
  BY <1>1, <1>2, ScanIs, Zenon DEF Opens
<1> HIDE DEF at
<1>6. rows \in Nat /\ rows <= n /\ (rows > 0 => 30 * rows - 18 < pos) /\ pos > 1
  BY <1>3 DEF FitInv, Started
<1>7. at \in Nat /\ at \in 1..Len(document.text) /\ pos \in Nat /\ pos <= at
  BY <1>1, <1>4 DEF ParserEnd
<1>8. n \in Nat
  <2>1. points \in Seq(Point)  BY DEF GeneratorInv, GenTypeOK, Point
  <2> QED  BY <2>1
<1>9. Placed(document.text[at], at, n)  BY <1>1, <1>7 DEF DocumentOf
<1> HIDE DEF n, rows
<1>10. rows + 1 <= n /\ 30 * (rows + 1) - 18 < at + 1
  <2>1. at > 1 /\ (rows > 0 => 30 * rows - 18 < at)  BY <1>6, <1>7
  <2>2. rows \in Nat  BY <1>6
  <2> QED  BY <1>5, <1>7, <1>8, <1>9, <2>1, <2>2, BraceIsOfARow
<1>11. /\ gen_status' = gen_status /\ points' = points /\ count' = count /\ stage' = stage
       /\ document' = document /\ item_estimate' = item_estimate
       /\ preallocate' = preallocate /\ ParserEnd' = ParserEnd
  BY <1>1, <1>3 DEF gen_vars, gen_options, gen_data, ParserEnd
<1>12. ParserEnd \in Nat  BY <1>1 DEF ParserEnd
<1>13. pos' \in 1..ParserEnd /\ pos' > 1  BY <1>2, <1>4, <1>6, <1>7, <1>12
<1>14. FileInv'  BY <1>1, <1>11, <1>13 DEF FileInv
<1>15. Started(data_item_count', phase') = rows + 1  BY <1>3 DEF Started, rows
<1>16. ~(preallocate /\ item_estimate = Parser!Unbounded)  BY <1>1, <1>3 DEF FitInv
<1>17. FitInv'
  <2>1. rows + 1 <= Len(points') /\ 30 * (rows + 1) - 18 < pos'  BY <1>2, <1>10, <1>11 DEF n
  <2>2. data_item_count' \in Nat  BY <1>3, <1>6 DEF rows
  <2> QED  BY <1>3, <1>11, <1>13, <1>15, <1>16, <2>1, <2>2 DEF FitInv
<1> QED  BY <1>14, <1>17

LEMMA FitNext == GeneratorInv /\ FileInv /\ FitInv /\ [Next]_vars => FileInv' /\ FitInv'
<1> SUFFICES ASSUME GeneratorInv, FileInv, FitInv, [Next]_vars PROVE FileInv' /\ FitInv'
  OBVIOUS
<1>1. CASE GeneratorStep  BY <1>1, FileInvGenerator
<1>2. CASE StartReader \/ ReaderStep
  <2>1. /\ stage \in {"generator", "reader"} /\ stage' = "reader"
        /\ UNCHANGED <<gen_vars, parser_input, parser_rest>>
    BY <1>2 DEF StartReader, ReaderStep
  <2>2. /\ gen_status' = gen_status /\ points' = points /\ count' = count
        /\ phase' = phase /\ pos' = pos /\ data_item_count' = data_item_count
    BY <2>1 DEF gen_vars, gen_options, gen_data, parser_rest
  <2>3. FileInv'  BY <2>1, <2>2 DEF FileInv
  <2> QED  BY <2>1, <2>2, <2>3 DEF FitInv
<1>3. CASE StartParser  BY <1>3, FileInvStart
<1>4. CASE ParserStep
  <2>1. CASE phase \in {"start", "header"}  BY <1>4, <2>1, ParserHeader
  <2>2. CASE Parser!StartRow  BY <1>4, <2>2, ParserStartsRow
  <2>3. CASE phase \notin {"start", "header"} /\ ~Parser!StartRow
    BY <1>4, <2>3, ParserMovesOn
  <2> QED  BY <2>1, <2>2, <2>3
<1>5. CASE UNCHANGED vars
  <2>1. /\ gen_status' = gen_status /\ points' = points /\ count' = count /\ stage' = stage
        /\ document' = document /\ item_estimate' = item_estimate /\ preallocate' = preallocate
        /\ phase' = phase /\ pos' = pos /\ data_item_count' = data_item_count
    BY <1>5 DEF vars, gen_vars, gen_options, gen_data, parser_input, parser_rest
  <2>2. ParserEnd' = ParserEnd  BY <2>1 DEF ParserEnd
  <2> QED  BY <2>1, <2>2 DEF FileInv, FitInv
<1> QED  BY <1>1, <1>2, <1>3, <1>4, <1>5 DEF Next, End

\* The text up to the brace of a row is at least so long.
LEMMA LowOfRows ==
    ASSUME NEW k \in Nat \ {0}, NEW i \in Nat, 30 * k - 18 <= i
    PROVE  102 * k - 90 <= Low(i)
<1> DEFINE q == (i - 12) \div 30
           r == (i - 12) % 30
<1>1. i - 12 \in Nat /\ ~(i < 12)  OBVIOUS
<1>2. q \in Nat /\ r \in 0..29 /\ i - 12 = 30 * q + r  BY <1>1
<1> DEFINE a == 17 * ((r + 2) \div 7)
           b == (r + 5) \div 7
<1>3. Low(i) = i + 72 * q + a + b  BY <1>1 DEF Low
<1> HIDE DEF q, r
<1>4. k - 1 <= q  BY <1>2
<1>5. a \in Nat /\ b \in Nat  BY <1>2
<1> HIDE DEF a, b
<1> QED  BY <1>2, <1>3, <1>4, <1>5

LEMMA FitIsSafe ==
    ASSUME GeneratorInv, FileInv, FitInv
    PROVE  GeneratedFilesFit
<1> SUFFICES ASSUME stage = "parser", preallocate
             PROVE  data_item_count <= item_estimate + (IF document.cut THEN 1 ELSE 0)
  BY DEF GeneratedFilesFit
<1> DEFINE n == Len(points)
           len == Len(document.text)
           d == data_item_count
           size == document.size
           estimate == Parser!estimate_total_entries(size)
<1>1. /\ document.text \in Seq(Tokens) /\ len \in Nat /\ size \in Nat /\ Low(len) <= size
      /\ ~document.cut => n # 0 /\ len = 30 * n + 13
      /\ item_estimate = estimate /\ pos \in 1..len + 1
  BY DEF FileInv, DocumentOf, ParserEnd
<1>2. n \in Nat
  <2>1. points \in Seq(Point)  BY DEF GeneratorInv, GenTypeOK, Point
  <2> QED  BY <2>1
<1>3. d \in Nat /\ d <= n /\ (d > 0 => 30 * d - 18 < pos)
  <2> DEFINE b == Started(d, phase)
  <2>1. d \in Nat /\ b <= n /\ (b > 0 => 30 * b - 18 < pos)  BY DEF FitInv
  <2>2. b \in Nat /\ d <= b  BY <2>1 DEF Started
  <2>3. pos \in Nat  BY <1>1
  <2> HIDE DEF b, n, d
  <2> QED  BY <1>2, <2>1, <2>2, <2>3
<1>4. item_estimate = Parser!Unbounded => d = 0  BY DEF FitInv
<1> HIDE DEF n, d, len
<1>5. 102 * d - 90 <= size
  <2>1. CASE d = 0  BY <1>1, <2>1
  <2>2. CASE d > 0
    <3>1. 30 * d - 18 <= len /\ d \in Nat \ {0}  BY <1>1, <1>3, <2>2
    <3>2. 102 * d - 90 <= Low(len)  BY <1>1, <3>1, LowOfRows
    <3>3. Low(len) \in Int  BY <1>1, LowType
    <3> DEFINE low == Low(len)
    <3>4. low <= size /\ 102 * d - 90 <= low /\ low \in Int /\ size \in Int
      BY <1>1, <3>2, <3>3
    <3> HIDE DEF low, size
    <3> QED  BY <1>3, <3>4
  <2> QED  BY <1>3, <2>1, <2>2
<1>6. /\ estimate \in Int
      /\ estimate # Parser!Unbounded => d <= estimate + 1
      /\ estimate = Parser!Unbounded => size < 14 /\ estimate = -1
  BY <1>1, <1>3, <1>5, EstimateFits
<1>7. CASE document.cut
  <2> HIDE DEF estimate
  <2> QED  BY <1>1, <1>3, <1>4, <1>6, <1>7 DEF d
<1>8. CASE ~document.cut
  <2>1. n \in Nat \ {0} /\ Low(30 * n + 13) <= size  BY <1>1, <1>2, <1>8
  <2>2. n <= estimate  BY <1>1, <2>1, WholeFileFits
  <2> HIDE DEF estimate
  <2> QED  BY <1>1, <1>2, <1>3, <1>6, <1>8, <2>2 DEF d
<1> QED  BY <1>7, <1>8

\* The array of the parser has room for every point of a file that the generator wrote,
\* however many it drew and whatever they are, and is at most one item short for a file
\* that lacks its end (estimate_total_entries and the rows that main of data_gen.c prints).
THEOREM GeneratorFilesFit == HaversineIsNumber /\ Spec => []GeneratedFilesFit
<1>1. PipelineTypeInv => GeneratorInv  BY DEF PipelineTypeInv
<1>2. PipelineTypeInv /\ FileInv /\ FitInv /\ [Next]_vars =>
          PipelineTypeInv' /\ FileInv' /\ FitInv'
  BY <1>1, PipelineTypeNext, FitNext
<1>3. PipelineTypeInv /\ FileInv /\ FitInv => GeneratedFilesFit  BY <1>1, FitIsSafe
<1> QED  BY <1>2, <1>3, PipelineTypeInit, FileInvInit, PTL DEF Spec

-----------------------------------------------------------------------------
(* What the parser finds in such a file.                                   *)

\* The header is what the file starts with.
LEMMA HeaderIs ==
    Len(Parser!Header) = 10 /\ \A i \in 1..10 : Opening[i].text = Parser!Header[i]
<1> DEFINE brace == "{"
           quote == "\""
           colon == ":"
           bracket == "["
           blank == " "
           s == <<brace, quote, "p", "a", "i", "r", "s", quote, colon, bracket, blank>>
           h == <<brace, quote, "p", "a", "i", "r", "s", quote, colon, bracket>>
<1>1. /\ brace \in Texts /\ quote \in Texts /\ "p" \in Texts /\ "a" \in Texts /\ "i" \in Texts
      /\ "r" \in Texts /\ "s" \in Texts /\ colon \in Texts /\ bracket \in Texts /\ blank \in Texts
  BY Zenon DEF Texts
<1>2. Opening = Chars(s) /\ Parser!Header = h  BY Zenon DEF Opening, Parser!Header
<1> HIDE DEF brace, quote, colon, bracket, blank, Texts
<1>3. s \in Seq(Texts) /\ Len(s) = 11 /\ Len(h) = 10 /\ \A i \in 1..10 : s[i] = h[i]  BY <1>1
<1> HIDE DEF s, h
<1>4. \A i \in 1..11 : s[i] \in Texts  BY <1>3, ElementOfSeq
<1>5. \A i \in 1..11 : Opening[i] = Char(s[i])  BY <1>2, <1>3, CharsAre
<1>6. \A i \in 1..11 : Opening[i].text = s[i]  BY <1>4, <1>5, PlainChars
<1>7. \A i \in 1..10 : i \in 1..11  OBVIOUS
<1> QED  BY <1>2, <1>3, <1>6, <1>7

\* A scan stops at the first of the tokens that it is after.
LEMMA ScanAt ==
    ASSUME Len(document.text) \in Nat, NEW p \in Nat \ {0}, NEW q \in p..Len(document.text),
           NEW c, document.text[q].text = c, \A r \in p..q - 1 : document.text[r].text # c
    PROVE  Parser!advance_until(p, c) = q
<1> DEFINE at == Parser!advance_until(p, c)
           n == Len(document.text)
<1>1. ~(\A r \in p..n : document.text[r].text # c)  OBVIOUS
<1>2. at \in p..n /\ document.text[at].text = c /\ \A r \in p..at - 1 : document.text[r].text # c
  <2>1. \E r \in p..n : document.text[r].text = c /\ \A t \in p..r - 1 : document.text[t].text # c
    OBVIOUS
  <2> QED  BY <1>1, <2>1, Zenon DEF Parser!advance_until, Parser!text
<1> HIDE DEF at
<1>3. ~(at < q) /\ ~(q < at)  BY <1>2
<1>4. at \in Int /\ q \in Int  BY <1>2
<1> QED  BY <1>3, <1>4 DEF at

LEMMA ScanNone ==
    ASSUME NEW p, NEW c, \A r \in p..Len(document.text) : document.text[r].text # c
    PROVE  Parser!advance_until(p, c) = 0
  BY DEF Parser!advance_until, Parser!None, Parser!text

\* Names and numbers are none of the characters that the parser is after.
LEMMA NoMarks ==
    /\ \A n \in Parser!Names : Name(n) \in Tokens /\ ~Quotes(Name(n)) /\ Name(n).text = n
                               /\ Name(n).width = 2
    /\ \A v \in Int : ~Commas(Printed(v)) /\ ~Closes(Printed(v))
<1>1. ASSUME NEW n \in Parser!Names
      PROVE  Name(n) \in Tokens /\ ~Quotes(Name(n)) /\ Name(n).text = n /\ Name(n).width = 2
  <2>1. Name(n) = [text |-> n, width |-> 2, value |-> 0]  BY DEF Name
  <2>2. Name(n).text = n /\ Name(n).width = 2  BY <2>1
  <2>3. n \in Texts  BY Zenon DEF Texts, Parser!Names
  <2>4. [text |-> n, width |-> 2, value |-> 0] \in Tokens
    <3> HIDE DEF Texts
    <3> QED  BY <2>3 DEF Tokens
  <2>5. n # "\""  BY Zenon DEF Parser!Names
  <2> QED  BY <2>1, <2>2, <2>4, <2>5, Zenon DEF Quotes
<1>2. ASSUME NEW v \in Int PROVE ~Commas(Printed(v)) /\ ~Closes(Printed(v))
  <2>1. Printed(v).text = "number"  BY PrintedType
  <2> QED  BY <2>1, Zenon DEF Commas, Closes
<1> QED  BY <1>1, <1>2

LEMMA WidthOfOne ==
    ASSUME NEW t \in Tokens
    PROVE  Parser!Width(<<t>>) = t.width
<1> DEFINE s == <<t>>
           Step(g) == [k \in 0..Len(s) |-> IF k = 0 THEN 0 ELSE g[k - 1] + s[k].width]
           width == CHOOSE g : g = Step(g)
<1>1. Len(s) = 1 /\ s[1] = t /\ t.width \in Nat  BY DEF Tokens
<1>2. Parser!Width(s) = width[Len(s)]  BY DEF Parser!Width
<1> HIDE DEF s
<1>3. width = Step(width)
  <2> DEFINE g == [k \in 0..1 |-> IF k = 0 THEN 0 ELSE t.width]
  <2>1. g = Step(g)
    <3>1. \A k \in 0..1 : k = 0 \/ (k = 1 /\ k - 1 = 0)  OBVIOUS
    <3>2. g[0] = 0 /\ g[1] = t.width  OBVIOUS
    <3> HIDE DEF g
    <3>3. \A k \in 0..1 : Step(g)[k] = IF k = 0 THEN 0 ELSE t.width  BY <1>1, <3>1, <3>2
    <3>4. Step(g) = [k \in 0..1 |-> Step(g)[k]]  BY <1>1
    <3> QED  BY <3>3, <3>4 DEF g
  <2>2. \E h : h = Step(h)  BY <2>1
  <2> HIDE DEF Step
  <2> QED  BY <2>2, Zenon
<1> HIDE DEF width
<1>4. width[0] = 0 /\ width[1] = width[0] + t.width
  <2>1. 0 \in 0..1 /\ 1 \in 0..1 /\ 1 # 0 /\ 1 - 1 = 0  OBVIOUS
  <2>2. width[0] = 0  BY <1>1, <1>3, <2>1
  <2>3. width[1] = width[1 - 1] + s[1].width  BY <1>1, <1>3, <2>1
  <2> QED  BY <1>1, <2>1, <2>2, <2>3
<1>5. width[1] = t.width  BY <1>1, <1>4
<1> QED  BY <1>1, <1>2, <1>5 DEF s

\* A number in between is read as its value.
LEMMA ScannedIs ==
    ASSUME NEW v \in Int
    PROVE  /\ Parser!Width(<<Printed(v)>>) <= Parser!MAX_VALUE_LEN
           /\ Parser!Scanned(<<Printed(v)>>) = {v}
<1> DEFINE t == Printed(v)
           s == <<t>>
           number == "number"
           blank == " "
           Read == {k \in DOMAIN s : s[k].text = number /\ \A j \in 1..k - 1 : s[j].text = blank}
<1>1. t \in Tokens /\ t.text = number /\ t.value = v /\ t.width <= 21 /\ t.width \in Nat
  BY PrintedType DEF Tokens
<1>2. Parser!Width(s) = t.width  BY <1>1, WidthOfOne
<1>3. Parser!Width(s) <= 64 /\ Parser!Width(s) # 64  BY <1>1, <1>2
<1>4. Parser!Scanned(s) = {s[k].value : k \in Read}
  <2> HIDE DEF s
  <2> QED  BY <1>3, Zenon DEF Parser!Scanned, Parser!MAX_VALUE_LEN
<1> HIDE DEF t, number, blank
<1>5. Read = {1}
  <2>1. DOMAIN s = {1} /\ s[1] = t /\ 1..1 - 1 = {}  OBVIOUS
  <2> QED  BY <1>1, <2>1
<1>6. s[1] = t  OBVIOUS
<1> HIDE DEF Read, s
<1>7. Parser!Scanned(s) = {v}  BY <1>1, <1>4, <1>5, <1>6
<1> QED  BY <1>3, <1>7 DEF t, s, Parser!MAX_VALUE_LEN

NextBrace(p) == Parser!advance_until(p, "{")
NextQuote(p) == Parser!advance_until(p, "\"")
NextColon(p) == Parser!advance_until(p, ":")
NextComma(p) == Parser!advance_until(p, ",")
NextClose(p) == Parser!advance_until(p, "}")

LEMMA ScanMarks ==
    ASSUME Len(document.text) \in Nat, NEW p \in Nat \ {0}, NEW q \in p..Len(document.text)
    PROVE  LET t == document.text
               First(Mark(_)) == Mark(t[q]) /\ \A r \in p..q - 1 : ~Mark(t[r])
           IN  /\ First(Opens) => NextBrace(p) = q
               /\ First(Quotes) => NextQuote(p) = q
               /\ First(Colons) => NextColon(p) = q
               /\ First(Commas) => NextComma(p) = q
               /\ First(Closes) => NextClose(p) = q
<1> DEFINE t == document.text
           First(c) == t[q].text = c /\ \A r \in p..q - 1 : t[r].text # c
<1>1. \A c : First(c) => Parser!advance_until(p, c) = q  BY ScanAt
<1> QED
  BY <1>1, Zenon DEF Opens, Quotes, Colons, Commas, Closes, NextBrace, NextQuote, NextColon,
                     NextComma, NextClose

\* The tokens before the row behind the first d rows.
Base(d) == 30 * d + 11

LEMMA RowTokens ==
    ASSUME points \in Seq(Point), TextOf(document.text, points), Len(document.text) \in Nat,
           NEW d \in Nat, d + 1 <= Len(points)
    PROVE  LET line == JsonRow(points[d + 1])
           IN  /\ points[d + 1] \in Point
               /\ \A i \in 1..28 : Base(d) + i <= Len(document.text) =>
                                      document.text[Base(d) + i] = line[i]
<1>1. d + 1 \in 1..Len(points) /\ 30 * (d + 1) - 19 = Base(d)  BY DEF Base
<1>2. points[d + 1] \in Point  BY <1>1, ElementOfSeq
<1> QED  BY <1>1, <1>2 DEF TextOf

\* Behind a row, its items and its name there is the next one.
LEMMA NameScans ==
    ASSUME points \in Seq(Point), TextOf(document.text, points), Len(document.text) \in Nat,
           NEW d \in Nat, d + 1 <= Len(points), NEW c \in 0..3,
           Base(d) + 27 <= Len(document.text),
           NEW p, p = Base(d) + 7 * c + 2 \/ (c > 0 /\ p = Base(d) + 7 * c + 1)
    PROVE  /\ NextQuote(p) = Base(d) + 7 * c + 2
           /\ NextQuote(Base(d) + 7 * c + 3) = Base(d) + 7 * c + 4
           /\ document.text[Base(d) + 7 * c + 3] = Name(Coordinates[c + 1])
<1> DEFINE t == document.text
           point == points[d + 1]
           line == JsonRow(point)
           b == Base(d)
           a == 7 * c
<1>1. /\ point \in Point
      /\ \A i \in 1..28 : b + i <= Len(t) => t[b + i] = line[i]
  BY RowTokens
<1>2. /\ \A k \in 1..4 : ItemAt(line, 7 * k - 6, Coordinates[k], point[Coordinates[k]])
      /\ \A k \in 1..3 : Commas(line[7 * k]) /\ ~Quotes(line[7 * k + 1])
  BY <1>1, RowIs
<1>3. /\ Quotes(line[a + 2]) /\ line[a + 3] = Name(Coordinates[c + 1]) /\ Quotes(line[a + 4])
      /\ (c > 0 => ~Quotes(line[a + 1]))
  <2>1. c + 1 \in 1..4 /\ 7 * (c + 1) - 6 = a + 1 /\ (c > 0 => c \in 1..3)  OBVIOUS
  <2>2. (a + 1) + 1 = a + 2 /\ (a + 1) + 2 = a + 3 /\ (a + 1) + 3 = a + 4  OBVIOUS
  <2> HIDE DEF line, a
  <2>3. ItemAt(line, a + 1, Coordinates[c + 1], point[Coordinates[c + 1]])  BY <1>2, <2>1
  <2>4. c > 0 => ~Quotes(line[a + 1])  BY <1>2, <2>1 DEF a
  <2> QED  BY <2>2, <2>3, <2>4 DEF ItemAt
<1>4. Coordinates[c + 1] \in Parser!Names
  <2>1. c + 1 = 1 \/ c + 1 = 2 \/ c + 1 = 3 \/ c + 1 = 4  OBVIOUS
  <2> QED  BY <2>1 DEF Coordinates, Parser!Names
<1> HIDE DEF line, point
<1>5. b \in Nat /\ a \in 0..21 /\ b + 27 <= Len(t)  BY DEF Base
<1> HIDE DEF a, b, t
<1>6. /\ t[b + a + 2] = line[a + 2] /\ t[b + a + 3] = line[a + 3] /\ t[b + a + 4] = line[a + 4]
      /\ t[b + a + 1] = line[a + 1]
  <2>1. /\ a + 1 \in 1..28 /\ a + 2 \in 1..28 /\ a + 3 \in 1..28 /\ a + 4 \in 1..28
        /\ b + (a + 1) <= Len(t) /\ b + (a + 2) <= Len(t) /\ b + (a + 3) <= Len(t)
        /\ b + (a + 4) <= Len(t)
    BY <1>5
  <2>2. /\ t[b + (a + 2)] = line[a + 2] /\ t[b + (a + 3)] = line[a + 3]
        /\ t[b + (a + 4)] = line[a + 4] /\ t[b + (a + 1)] = line[a + 1]
    BY <1>1, <2>1, Zenon
  <2>3. /\ b + a + 1 = b + (a + 1) /\ b + a + 2 = b + (a + 2) /\ b + a + 3 = b + (a + 3)
        /\ b + a + 4 = b + (a + 4)
    BY <1>5
  <2> QED  BY <2>2, <2>3
<1>7. /\ Quotes(t[b + a + 2]) /\ t[b + a + 3] = Name(Coordinates[c + 1])
      /\ ~Quotes(t[b + a + 3]) /\ Quotes(t[b + a + 4]) /\ (c > 0 => ~Quotes(t[b + a + 1]))
  BY <1>3, <1>4, <1>6, NoMarks
<1>8. NextQuote(p) = b + a + 2
  <2>1. /\ p \in Nat \ {0} /\ b + a + 2 \in p..Len(t)
        /\ \A r \in p..(b + a + 2) - 1 : c > 0 /\ r = b + a + 1
    BY <1>5 DEF t, a, b
  <2>2. \A r \in p..(b + a + 2) - 1 : ~Quotes(t[r])  BY <1>7, <2>1
  <2> QED  BY <1>7, <2>1, <2>2, ScanMarks DEF t
<1>9. NextQuote(b + a + 3) = b + a + 4
  <2>1. /\ b + a + 3 \in Nat \ {0} /\ b + a + 4 \in b + a + 3..Len(t)
        /\ \A r \in b + a + 3..(b + a + 4) - 1 : r = b + a + 3
    BY <1>5 DEF t
  <2>2. \A r \in b + a + 3..(b + a + 4) - 1 : ~Quotes(t[r])  BY <1>7, <2>1
  <2> QED  BY <1>7, <2>1, <2>2, ScanMarks DEF t
<1> QED  BY <1>7, <1>8, <1>9 DEF a, b, t

\* Behind the name of an item there is the colon, its value and what ends it, which for
\* the last one may be the end of the file.
LEMMA ValueScans ==
    ASSUME points \in Seq(Point), TextOf(document.text, points), Len(document.text) \in Nat,
           NEW d \in Nat, d + 1 <= Len(points), NEW c \in 0..3,
           Base(d) + 27 <= Len(document.text)
    PROVE  LET p == Base(d) + 7 * c + 5
           IN  /\ NextColon(p) = p
               /\ document.text[p + 1] = Printed(points[d + 1][Coordinates[c + 1]])
               /\ points[d + 1][Coordinates[c + 1]] \in Int
               /\ c < 3 => NextComma(p + 1) = p + 2
               /\ c = 3 /\ p + 2 <= Len(document.text) => NextClose(p + 1) = p + 2
               /\ c = 3 /\ p + 2 > Len(document.text) =>
                     p + 1 = Len(document.text) /\ NextClose(p + 1) = 0
<1> DEFINE t == document.text
           point == points[d + 1]
           v == point[Coordinates[c + 1]]
           line == JsonRow(point)
           b == Base(d)
           a == 7 * c
           p == b + a + 5
<1>1. /\ point \in Point
      /\ \A i \in 1..28 : b + i <= Len(t) => t[b + i] = line[i]
  BY RowTokens
<1>2. /\ \A k \in 1..4 : ItemAt(line, 7 * k - 6, Coordinates[k], point[Coordinates[k]])
      /\ \A k \in 1..3 : Commas(line[7 * k])
      /\ Closes(line[28])
  BY <1>1, RowIs
<1>3. v \in Int
  <2>1. c + 1 = 1 \/ c + 1 = 2 \/ c + 1 = 3 \/ c + 1 = 4  OBVIOUS
  <2>2. Coordinates[c + 1] \in {"x0", "y0", "x1", "y1"}  BY <2>1 DEF Coordinates
  <2> HIDE DEF point
  <2> QED  BY <1>1, <2>2 DEF Point
<1>4. /\ Colons(line[a + 5]) /\ line[a + 6] = Printed(v)
      /\ c < 3 => Commas(line[a + 7])
      /\ c = 3 => Closes(line[a + 7])
  <2>1. /\ c + 1 \in 1..4 /\ 7 * (c + 1) - 6 = a + 1 /\ (c < 3 => c + 1 \in 1..3)
        /\ 7 * (c + 1) = a + 7 /\ (c = 3 => a + 7 = 28)
    OBVIOUS
  <2>2. (a + 1) + 4 = a + 5 /\ (a + 1) + 5 = a + 6  OBVIOUS
  <2> HIDE DEF line, a, v
  <2>3. ItemAt(line, a + 1, Coordinates[c + 1], v)  BY <1>2, <2>1 DEF v
  <2>4. c < 3 => Commas(line[a + 7])  BY <1>2, <2>1, Zenon
  <2> QED  BY <1>2, <2>1, <2>2, <2>3, <2>4 DEF ItemAt
<1> HIDE DEF line, point, v
<1>5. b \in Nat /\ a \in 0..21 /\ b + 27 <= Len(t) /\ Len(t) \in Nat /\ (c = 3 => a = 21)
      /\ (c < 3 => a <= 14)
  BY DEF Base
<1> HIDE DEF a, b, t
<1>6. /\ t[p] = line[a + 5] /\ t[p + 1] = line[a + 6]
      /\ p + 2 <= Len(t) => t[p + 2] = line[a + 7]
  <2>1. /\ a + 5 \in 1..28 /\ a + 6 \in 1..28 /\ a + 7 \in 1..28
        /\ b + (a + 5) <= Len(t) /\ b + (a + 6) <= Len(t)
    BY <1>5
  <2>2. /\ t[b + (a + 5)] = line[a + 5] /\ t[b + (a + 6)] = line[a + 6]
        /\ b + (a + 7) <= Len(t) => t[b + (a + 7)] = line[a + 7]
    BY <1>1, <2>1, Zenon
  <2>3. p = b + (a + 5) /\ p + 1 = b + (a + 6) /\ p + 2 = b + (a + 7)  BY <1>5
  <2> QED  BY <2>2, <2>3
<1>7. p \in Nat \ {0} /\ p + 1 <= Len(t) /\ (c < 3 => p + 2 <= Len(t))
      /\ (c = 3 /\ p + 2 > Len(t) => p + 1 = Len(t))
  BY <1>5
<1> HIDE DEF p
<1>8. Colons(t[p]) /\ t[p + 1] = Printed(v) /\ ~Commas(t[p + 1]) /\ ~Closes(t[p + 1])
      /\ (c < 3 => Commas(t[p + 2]))
      /\ (c = 3 /\ p + 2 <= Len(t) => Closes(t[p + 2]))
  BY <1>3, <1>4, <1>6, <1>7, NoMarks
<1>9. NextColon(p) = p
  <2>1. p \in p..Len(t) /\ p..p - 1 = {}  BY <1>5, <1>7
  <2>2. \A r \in p..p - 1 : ~Colons(t[r])  BY <2>1
  <2> QED  BY <1>7, <1>8, <2>1, <2>2, ScanMarks DEF t
<1>10. p + 2 <= Len(t) => /\ p + 1 \in Nat \ {0} /\ p + 2 \in p + 1..Len(t)
                          /\ \A r \in p + 1..(p + 2) - 1 : r = p + 1
  BY <1>5, <1>7
<1>11. c < 3 => NextComma(p + 1) = p + 2
  <2> SUFFICES ASSUME c < 3 PROVE NextComma(p + 1) = p + 2  OBVIOUS
  <2>1. \A r \in p + 1..(p + 2) - 1 : ~Commas(t[r])  BY <1>7, <1>8, <1>10
  <2> QED  BY <1>7, <1>8, <1>10, <2>1, ScanMarks DEF t
<1>12. c = 3 /\ p + 2 <= Len(t) => NextClose(p + 1) = p + 2
  <2> SUFFICES ASSUME c = 3, p + 2 <= Len(t) PROVE NextClose(p + 1) = p + 2  OBVIOUS
  <2>1. \A r \in p + 1..(p + 2) - 1 : ~Closes(t[r])  BY <1>8, <1>10
  <2> QED  BY <1>8, <1>10, <2>1, ScanMarks DEF t
<1>13. c = 3 /\ p + 2 > Len(t) => NextClose(p + 1) = 0
  <2> SUFFICES ASSUME c = 3, p + 2 > Len(t) PROVE NextClose(p + 1) = 0  OBVIOUS
  <2>1. \A r \in p + 1..Len(t) : r = p + 1  BY <1>5, <1>7
  <2>2. \A r \in p + 1..Len(t) : ~Closes(t[r])  BY <1>8, <2>1
  <2> QED  BY <2>2, ScanNone, Zenon DEF Closes, NextClose, t
<1> QED  BY <1>3, <1>7, <1>8, <1>9, <1>11, <1>12, <1>13 DEF p, a, b, t, v, point

\* The brace of the row behind the first d rows.
LEMMA BraceScan ==
    ASSUME DocumentOf(document, Len(points)), points \in Seq(Point),
           TextOf(document.text, points), NEW d \in Nat, d + 1 <= Len(points),
           Base(d) + 27 <= Len(document.text),
           NEW p, p = IF d = 0 THEN 11 ELSE Base(d) - 1
    PROVE  NextBrace(p) = Base(d) + 1
<1> DEFINE t == document.text
           n == Len(points)
           b == Base(d)
           line == JsonRow(points[d + 1])
<1>1. Len(t) \in Nat /\ \A i \in 1..Len(t) : Placed(t[i], i, n)  BY DEF DocumentOf
<1>2. points[d + 1] \in Point /\ \A i \in 1..28 : b + i <= Len(t) => t[b + i] = line[i]
  BY <1>1, RowTokens
<1>3. Opens(line[1])  BY <1>2, RowIs
<1> HIDE DEF line, t, n
<1>4. b + 27 <= Len(t) /\ b \in Nat /\ b + 1 <= Len(t)  BY DEF Base, t
<1>5. Opens(t[b + 1])
  <2>1. 1 \in 1..28  OBVIOUS
  <2> QED  BY <1>2, <1>3, <1>4, <2>1
<1>6. p \in Nat \ {0} /\ b + 1 \in p..Len(t)  BY <1>1, <1>4 DEF Base
<1>7. ASSUME NEW r \in p..(b + 1) - 1 PROVE ~Opens(t[r])
  <2>1. r \in 1..Len(t) /\ r # 1 /\ ~(r >= 12 /\ (r - 12) % 30 = 0)
    <3>1. r = b - 1 \/ r = b  BY <1>4 DEF Base
    <3>2. d = 0 => r = 11  BY <1>4 DEF Base
    <3>3. d # 0 => (r - 12) % 30 = 28 \/ (r - 12) % 30 = 29
      <4> SUFFICES ASSUME d # 0 PROVE (r - 12) % 30 = 28 \/ (r - 12) % 30 = 29  OBVIOUS
      <4>1. r - 12 = 30 * (d - 1) + 28 \/ r - 12 = 30 * (d - 1) + 29  BY <3>1 DEF Base
      <4>2. d - 1 \in Nat  OBVIOUS
      <4> QED  BY <4>1, <4>2
    <3>4. r \in 1..Len(t) /\ r # 1  BY <1>1, <1>4, <1>6 DEF Base
    <3> QED  BY <3>2, <3>3, <3>4
  <2>2. Placed(t[r], r, n)  BY <1>1, <2>1
  <2> HIDE DEF b
  <2> QED  BY <2>1, <2>2 DEF Placed
<1> QED  BY <1>1, <1>5, <1>6, <1>7, ScanMarks DEF t, b

-----------------------------------------------------------------------------
(* The sums.                                                               *)

\* The distances are added up from the first to the last.
LEMMA TotalIs ==
    ASSUME NEW ps, Len(ps) \in Nat, \A k \in 1..Len(ps) : Distance(ps[k]) \in Int
    PROVE  \E f \in [0..Len(ps) -> Int] :
              /\ f[0] = 0 /\ \A k \in 1..Len(ps) : f[k] = f[k - 1] + Distance(ps[k])
              /\ Total(ps) = f[Len(ps)]
<1> DEFINE n == Len(ps)
           Step(g) == [k \in 0..n |-> IF k = 0 THEN 0 ELSE g[k - 1] + Distance(ps[k])]
           G == [k \in 1..n |-> [t \in Int |-> t + Distance(ps[k])]]
           total == CHOOSE g : g = Step(g)
<1>1. Total(ps) = total[n]  BY DEF Total
<1>2. n \in Nat /\ \A k \in 1..n : k - 1 \in 0..n  OBVIOUS
<1>3. PICK g \in [0..n -> Int] : g[0] = 0 /\ \A k \in 1..n : g[k] = G[k][g[k - 1]]
  <2>1. G \in [1..n -> [Int -> Int]]  OBVIOUS
  <2> HIDE DEF G, n
  <2>2. G \in StepsOf(n, Int)  BY <2>1 DEF StepsOf
  <2>3. n \in Nat /\ 0 \in Int  BY <1>2
  <2>4. SomeRun(n, Int, 0, G)  BY <2>2, <2>3, Recursion, Zenon
  <2> QED  BY <2>4 DEF SomeRun
<1> HIDE DEF n
<1>4. \A k \in 1..n : g[k] = g[k - 1] + Distance(ps[k])  BY <1>3, <1>2
<1>5. g = Step(g)
  <2>1. \A k \in 0..n : k = 0 \/ k \in 1..n  BY <1>2
  <2> QED  BY <1>3, <1>4, <2>1
<1>6. total = Step(total)
  <2>1. \E h : h = Step(h)  BY <1>5
  <2> HIDE DEF Step
  <2> QED  BY <2>1, Zenon
<1> HIDE DEF total, G
<1>7. total[0] = 0 /\ \A k \in 1..n : total[k] = total[k - 1] + Distance(ps[k])
  <2>1. 0 \in 0..n /\ \A k \in 1..n : k \in 0..n /\ k # 0  BY <1>2
  <2> QED  BY <1>6, <2>1
<1> HIDE DEF Step
<1> DEFINE S == {k \in Nat : k <= n => total[k] = g[k]}
<1>8. 0 \in S  BY <1>3, <1>7
<1>9. ASSUME NEW k \in Nat, k \in S PROVE k + 1 \in S
  <2> SUFFICES ASSUME k + 1 <= n PROVE total[k + 1] = g[k + 1]  OBVIOUS
  <2>1. k + 1 \in 1..n /\ (k + 1) - 1 = k /\ total[k] = g[k]  BY <1>2, <1>9
  <2> HIDE DEF S
  <2> QED  BY <1>4, <1>7, <2>1
<1> HIDE DEF S
<1>10. n \in S  BY <1>2, <1>8, <1>9, Induction
<1>11. Total(ps) = g[n]  BY <1>1, <1>2, <1>10 DEF S
<1> QED  BY <1>3, <1>4, <1>11 DEF n

\* The sum is that of the first points and of the others.
LEMMA TotalOfFirst ==
    ASSUME NEW ps, NEW qs, Len(ps) \in Nat, Len(qs) \in Nat, Len(ps) <= Len(qs),
           \A k \in 1..Len(qs) : Distance(qs[k]) \in Int,
           \A k \in 1..Len(ps) : Distance(ps[k]) = Distance(qs[k])
    PROVE  /\ Total(ps) \in Int
           /\ Len(ps) = Len(qs) => Total(ps) = Total(qs)
           /\ Len(ps) + 1 = Len(qs) => Total(qs) = Total(ps) + Distance(qs[Len(qs)])
<1> DEFINE m == Len(ps)
           n == Len(qs)
<1>1. \A k \in 1..m : k \in 1..n /\ Distance(ps[k]) \in Int  OBVIOUS
<1>2. PICK f \in [0..m -> Int] :
        /\ f[0] = 0 /\ \A k \in 1..m : f[k] = f[k - 1] + Distance(ps[k])
        /\ Total(ps) = f[m]
  BY <1>1, TotalIs
<1>3. PICK g \in [0..n -> Int] :
        /\ g[0] = 0 /\ \A k \in 1..n : g[k] = g[k - 1] + Distance(qs[k])
        /\ Total(qs) = g[n]
  BY TotalIs
<1>4. m \in Nat /\ n \in Nat /\ m <= n /\ \A k \in 1..m : Distance(ps[k]) = Distance(qs[k])
  OBVIOUS
<1> HIDE DEF m, n
<1> DEFINE S == {k \in Nat : k <= m => f[k] = g[k]}
<1>5. 0 \in S  BY <1>2, <1>3
<1>6. ASSUME NEW k \in Nat, k \in S PROVE k + 1 \in S
  <2> SUFFICES ASSUME k + 1 <= m PROVE f[k + 1] = g[k + 1]  OBVIOUS
  <2>1. k + 1 \in 1..m /\ (k + 1) - 1 = k /\ f[k] = g[k]  BY <1>4, <1>6
  <2> HIDE DEF S
  <2>2. f[k + 1] = f[k] + Distance(ps[k + 1])  BY <1>2, <2>1
  <2>3. g[k + 1] = g[k] + Distance(qs[k + 1])  BY <1>1, <1>3, <2>1 DEF m, n
  <2>4. Distance(ps[k + 1]) = Distance(qs[k + 1])  BY <1>4, <2>1
  <2> QED  BY <2>1, <2>2, <2>3, <2>4
<1> HIDE DEF S
<1>7. m \in S  BY <1>4, <1>5, <1>6, Induction
<1>8. f[m] = g[m] /\ f[m] \in Int
  <2>1. m \in 0..m  BY <1>4
  <2> QED  BY <1>2, <1>4, <1>7, <2>1 DEF S
<1>9. m + 1 = n => Total(qs) = Total(ps) + Distance(qs[n])
  <2> SUFFICES ASSUME m + 1 = n PROVE Total(qs) = Total(ps) + Distance(qs[n])  OBVIOUS
  <2>1. n \in 1..n /\ n - 1 = m  BY <1>4
  <2>2. g[n] = g[m] + Distance(qs[n])  BY <1>3, <2>1
  <2> QED  BY <1>2, <1>3, <1>8, <2>2
<1> QED  BY <1>2, <1>3, <1>8, <1>9 DEF m, n

LEMMA DistanceType == HaversineIsNumber => \A p \in Point : Distance(p) \in Int
<1> SUFFICES ASSUME HaversineIsNumber, NEW p \in Point PROVE Distance(p) \in Int  OBVIOUS
<1>1. p.x0 \in Int /\ p.y0 \in Int /\ p.x1 \in Int /\ p.y1 \in Int  BY DEF Point
<1> QED  BY <1>1 DEF HaversineIsNumber, Distance

-----------------------------------------------------------------------------
(* What the reader finds in the binary file.                               *)

\* A file of the rows of the points, or what is left of it.
BinaryOf(b, ps) ==
    /\ Len(b) <= 5 * Len(ps)
    /\ \A k \in 1..Len(ps) : \A i \in 1..5 :
          5 * (k - 1) + i <= Len(b) => b[5 * (k - 1) + i] = BinaryRow(ps[k])[i]

\* fields is the part of a row that was read behind the rows of the first points.
ReaderInv ==
    /\ sum = Total(points)
    /\ stage = "generator" =>
          /\ reader_status = "start" /\ rows_read = <<>> /\ fields = <<>> /\ binary_pos = 0
          /\ calc_sum = 0
    /\ stage # "generator" => reader_status # "start" /\ BinaryOf(binary, points)
    /\ reader_status = "error" => binary_pos = 0
    /\ reader_status = "done" => Len(fields) < 5
    /\ binary_pos = 5 * Len(rows_read) + Len(fields)
    /\ \A i \in 1..Len(fields) : fields[i] = binary[5 * Len(rows_read) + i]
    /\ Len(rows_read) <= Len(points)
    /\ \A k \in 1..Len(rows_read) : rows_read[k] = BinaryRow(points[k])
    /\ calc_sum = Total(SubSeq(points, 1, Len(rows_read)))

LEMMA FirstPoints ==
    ASSUME HaversineIsNumber, points \in Seq(Point), NEW k \in 0..Len(points)
    PROVE  LET ps == SubSeq(points, 1, k)
           IN  /\ ps \in Seq(Point) /\ Len(ps) = k /\ \A i \in 1..k : ps[i] = points[i]
               /\ Total(ps) \in Int
               /\ k = 0 => Total(ps) = 0
               /\ k = Len(points) => Total(ps) = Total(points)
<1> DEFINE ps == SubSeq(points, 1, k)
<1>1. ps \in Seq(Point) /\ Len(ps) = k /\ \A i \in 1..k : ps[i] = points[i]
  <2>1. \A i \in 1..k : i \in 1..Len(points) /\ points[i] \in Point  BY ElementOfSeq
  <2> QED  BY <2>1, SubSeqProperties
<1> HIDE DEF ps
<1>2. \A i \in 1..k : Distance(ps[i]) \in Int
  <2>1. \A i \in 1..k : ps[i] \in Point  BY <1>1, ElementOfSeq
  <2> QED  BY <2>1, DistanceType
<1>3. \A i \in 1..Len(points) : Distance(points[i]) \in Int  BY DistanceType, ElementOfSeq
<1>4. Total(ps) \in Int /\ (k = Len(points) => Total(ps) = Total(points))
  BY <1>1, <1>3, TotalOfFirst
<1>5. k = 0 => Total(ps) = 0  BY <1>1, <1>2, TotalIs
<1> QED  BY <1>1, <1>4, <1>5 DEF ps

LEMMA TotalNext ==
    ASSUME HaversineIsNumber, points \in Seq(Point), NEW k \in Nat, k + 1 <= Len(points)
    PROVE  Total(SubSeq(points, 1, k + 1)) =
              Total(SubSeq(points, 1, k)) + Distance(points[k + 1])
<1> DEFINE ps == SubSeq(points, 1, k)
           qs == SubSeq(points, 1, k + 1)
<1>1. k \in 0..Len(points) /\ k + 1 \in 0..Len(points)  OBVIOUS
<1>2. Len(ps) = k /\ \A i \in 1..k : ps[i] = points[i]  BY <1>1, FirstPoints
<1>3. qs \in Seq(Point) /\ Len(qs) = k + 1 /\ \A i \in 1..k + 1 : qs[i] = points[i]
  BY <1>1, FirstPoints
<1> HIDE DEF ps, qs
<1>4. \A i \in 1..k + 1 : Distance(qs[i]) \in Int  BY <1>3, DistanceType, ElementOfSeq
<1>5. \A i \in 1..k : Distance(ps[i]) = Distance(qs[i])
  <2>1. \A i \in 1..k : i \in 1..k + 1  OBVIOUS
  <2> QED  BY <1>2, <1>3, <2>1
<1>6. Total(qs) = Total(ps) + Distance(qs[k + 1])
  BY <1>2, <1>3, <1>4, <1>5, TotalOfFirst
<1>7. qs[k + 1] = points[k + 1]  BY <1>3
<1> QED  BY <1>6, <1>7 DEF ps, qs

LEMMA BinaryFileIs ==
    ASSUME GeneratorInv
    PROVE  BinaryOf(BinaryFile, points)
<1> DEFINE n == Len(points)
           s == AllWritten
           l == lost[2]
           m == IF l < Len(s) THEN Len(s) - l ELSE 0
           f == BinaryFile
<1>1. n \in Nat /\ l \in Nat
  <2>1. points \in Seq(Point) /\ lost \in Losses  BY DEF GeneratorInv, GenTypeOK, Point
  <2> QED  BY <2>1, GeneratorAssumption
<1>2. Len(s) = 5 * n /\ \A k \in 1..n : \A i \in 1..5 :
                           s[5 * (k - 1) + i] = BinaryRow(points[k])[i]
  <2> DEFINE At(j) == BinaryRow(points[1 + (j - 1) \div 5])[1 + ((j - 1) % 5)]
  <2>1. s = [j \in 1..5 * n |-> At(j)]  BY DEF AllWritten
  <2> HIDE DEF s, n, At
  <2>2. Len(s) = 5 * n /\ \A j \in 1..5 * n : s[j] = At(j)  BY <1>1, <2>1
  <2>3. ASSUME NEW k \in 1..n, NEW i \in 1..5
        PROVE  s[5 * (k - 1) + i] = BinaryRow(points[k])[i]
    <3> DEFINE j == 5 * (k - 1) + i
    <3>1. j \in 1..5 * n /\ 1 + (j - 1) \div 5 = k /\ 1 + ((j - 1) % 5) = i  BY <1>1
    <3> HIDE DEF j
    <3>2. At(j) = BinaryRow(points[k])[i]  BY <3>1 DEF At
    <3> QED  BY <2>2, <3>1, <3>2 DEF j
  <2> QED  BY <2>2, <2>3
<1>3. f = SubSeq(s, 1, m)  BY DEF BinaryFile, WithoutLast
<1> HIDE DEF s, n, l, f
<1>4. m \in 0..5 * n  BY <1>1, <1>2
<1> HIDE DEF m
<1>5. Len(f) = m /\ \A j \in 1..m : f[j] = s[j]
  <2>1. 1..m \subseteq DOMAIN s /\ m \in Nat
    <3>1. s = [j \in 1..5 * n |-> BinaryRow(points[1 + (j - 1) \div 5])[1 + ((j - 1) % 5)]]
      BY DEF s, n, AllWritten
    <3> QED  BY <1>1, <1>4, <3>1
  <2>2. SubSeq(s, 1, m) = [j \in 1..m |-> s[j]]  BY <2>1
  <2> QED  BY <1>3, <2>1, <2>2
<1>6. ASSUME NEW k \in 1..n, NEW i \in 1..5, 5 * (k - 1) + i <= m
      PROVE  f[5 * (k - 1) + i] = BinaryRow(points[k])[i]
  <2>1. 5 * (k - 1) + i \in 1..m  BY <1>1, <1>4, <1>6
  <2> QED  BY <1>2, <1>5, <2>1
<1> QED  BY <1>1, <1>4, <1>5, <1>6 DEF BinaryOf, n, f

LEMMA ReaderInvInit == Init => ReaderInv
<1> SUFFICES ASSUME Init PROVE ReaderInv  OBVIOUS
<1>1. /\ points = <<>> /\ sum = 0 /\ stage = "generator" /\ reader_status = "start"
      /\ rows_read = <<>> /\ fields = <<>> /\ binary_pos = 0 /\ calc_sum = 0
  BY DEF Init, GenInit, Reader!ReaderInit
<1> DEFINE none == <<>>
<1>2. Len(none) = 0 /\ 1..0 = {} /\ SubSeq(none, 1, 0) = none  BY EmptySeq, SubSeqEmpty
<1>3. Total(none) = 0
  <2> HIDE DEF none
  <2>1. Len(none) \in Nat /\ \A k \in 1..Len(none) : Distance(none[k]) \in Int  BY <1>2
  <2>2. PICK f \in [0..Len(none) -> Int] : f[0] = 0 /\ Total(none) = f[Len(none)]
    BY <2>1, TotalIs
  <2> QED  BY <1>2, <2>2
<1>4. points = none /\ rows_read = none /\ fields = none  BY <1>1
<1> HIDE DEF none
<1>5. SubSeq(points, 1, Len(rows_read)) = none  BY <1>2, <1>4
<1>6. /\ Len(rows_read) = 0 /\ Len(fields) = 0 /\ Len(points) = 0
      /\ Total(points) = 0 /\ Total(SubSeq(points, 1, Len(rows_read))) = 0
  BY <1>2, <1>3, <1>4, <1>5
<1> QED  BY <1>1, <1>2, <1>6 DEF ReaderInv

\* The sum of the generator grows with its points.
LEMMA ReaderInvGenerator ==
    ASSUME GeneratorInv, ReaderInv, GeneratorStep
    PROVE  ReaderInv'
<1>1. /\ stage = "generator" /\ stage' = stage
      /\ UNCHANGED <<binary, binary_pos, fields, rows_read, calc_sum, reader_status>>
  BY DEF GeneratorStep, reader_vars
<1>2. /\ reader_status = "start" /\ rows_read = <<>> /\ fields = <<>> /\ binary_pos = 0
      /\ calc_sum = 0 /\ sum = Total(points)
  BY <1>1 DEF ReaderInv
<1>3. /\ HaversineIsNumber /\ points \in Seq(Point)
  BY DEF GeneratorInv, GenTypeOK, Point
<1>4. HaversineIsNumber /\ points' \in Seq(Point)
  <2>1. GeneratorInv'  BY WriteRowTypes, GeneratorOther DEF GeneratorStep, Generate
  <2> QED  BY <1>3, <2>1 DEF GeneratorInv, GenTypeOK, Point
<1>5. sum' = Total(points')
  <2>1. CASE WriteRow
    <3>1. PICK point : points' = Append(points, point) /\ sum' = sum + Distance(point)
      BY <2>1 DEF WriteRow
    <3>2. /\ Len(points) \in Nat /\ Len(points') = Len(points) + 1
          /\ \A k \in 1..Len(points) : points'[k] = points[k]
          /\ points'[Len(points) + 1] = point
      BY <1>3, <3>1, AppendAny
    <3>3. \A k \in 1..Len(points') : Distance(points'[k]) \in Int
      BY <1>4, DistanceType, ElementOfSeq
    <3>4. \A k \in 1..Len(points) : Distance(points[k]) = Distance(points'[k])  BY <3>2
    <3>5. Total(points') = Total(points) + Distance(point)
      <4> DEFINE ps == points
                 qs == points'
      <4>1. /\ Len(ps) \in Nat /\ Len(qs) = Len(ps) + 1 /\ qs[Len(ps) + 1] = point
            /\ \A k \in 1..Len(qs) : Distance(qs[k]) \in Int
            /\ \A k \in 1..Len(ps) : Distance(ps[k]) = Distance(qs[k])
        BY <3>2, <3>3, <3>4
      <4> HIDE DEF ps, qs
      <4>2. Total(qs) = Total(ps) + Distance(qs[Len(qs)])  BY <4>1, TotalOfFirst
      <4> QED  BY <4>1, <4>2 DEF ps, qs
    <3> QED  BY <1>2, <3>1, <3>5
  <2>2. CASE OpenOutput \/ CloseOutput \/ Stop
    BY <1>2, <2>2 DEF OpenOutput, CloseOutput, Stop, gen_data
  <2> QED  BY <2>1, <2>2 DEF GeneratorStep, Generate
<1>6. Len(rows_read) = 0 /\ Len(fields) = 0  BY <1>2, EmptySeq
<1>7. Len(points') \in Nat  BY <1>4
<1>8. Total(SubSeq(points', 1, 0)) = 0
  <2>1. SubSeq(points', 1, 0) = <<>> /\ SubSeq(points, 1, 0) = <<>>  BY SubSeqEmpty
  <2>2. 0 \in 0..Len(points)  BY <1>3
  <2>3. Total(SubSeq(points, 1, 0)) = 0  BY <1>3, <2>2, FirstPoints
  <2> QED  BY <2>1, <2>3
<1>9. /\ Len(rows_read') = 0 /\ Len(fields') = 0 /\ calc_sum' = 0 /\ 1..0 = {}
  BY <1>1, <1>2, <1>6
<1> QED  BY <1>1, <1>2, <1>5, <1>7, <1>8, <1>9 DEF ReaderInv

LEMMA ReaderInvStart ==
    ASSUME GeneratorInv, ReaderInv, StartReader
    PROVE  ReaderInv'
<1>1. /\ stage = "generator" /\ stage' = "reader" /\ binary' = BinaryFile
      /\ reader_status' \in {"reading", "error"}
      /\ UNCHANGED <<gen_vars, binary_pos, fields, rows_read, calc_sum>>
  BY DEF StartReader, Reader!OpenBinary
<1>2. points' = points /\ sum' = sum  BY <1>1 DEF gen_vars, gen_data
<1>3. BinaryOf(binary', points')  BY <1>1, <1>2, BinaryFileIs
<1>4. rows_read = <<>> /\ fields = <<>> /\ binary_pos = 0 /\ Len(fields) = 0 /\ 1..0 = {}
  BY <1>1, EmptySeq DEF ReaderInv
<1> QED  BY <1>1, <1>2, <1>3, <1>4 DEF ReaderInv

LEMMA ReaderInvStep ==
    ASSUME PipelineTypeInv, ReaderInv, ReaderStep
    PROVE  ReaderInv'
<1> DEFINE m == Len(rows_read)
           l == Len(fields)
           n == Len(points)
<1>1. /\ stage = "reader" /\ UNCHANGED <<stage, points, sum, binary>>
      /\ Reader!ReadDouble \/ Reader!CheckRow \/ Reader!EndOfFile
  BY DEF ReaderStep, gen_vars, gen_data, Reader!ReadBinary, Reader!ReadDouble, Reader!CheckRow,
         Reader!EndOfFile
<1>2. /\ HaversineIsNumber /\ points \in Seq(Point)
      /\ binary \in Seq(Int) /\ binary_pos \in 0..Len(binary)
      /\ fields \in Seq(Int) /\ Len(fields) <= 5
      /\ rows_read \in Seq(Seq(Int)) /\ calc_sum \in Int
  BY DEF PipelineTypeInv, GeneratorInv, GenTypeOK, TypeOK, Point
<1>3. m \in Nat /\ l \in Nat /\ n \in Nat /\ Len(binary) \in Nat  BY <1>2
<1>4. /\ sum = Total(points) /\ reader_status # "start" /\ BinaryOf(binary, points)
      /\ binary_pos = 5 * m + l
      /\ \A i \in 1..l : fields[i] = binary[5 * m + i]
      /\ m <= n
      /\ \A k \in 1..m : rows_read[k] = BinaryRow(points[k])
      /\ calc_sum = Total(SubSeq(points, 1, m))
  BY <1>1 DEF ReaderInv
<1>5. CASE Reader!ReadDouble
  <2>1. /\ reader_status = "reading" /\ Len(fields) < 5
        /\ fields' = Append(fields, binary[binary_pos + 1]) /\ binary_pos' = binary_pos + 1
        /\ UNCHANGED <<rows_read, calc_sum, reader_status>>
    BY <1>5 DEF Reader!ReadDouble
  <2>2. /\ Len(fields') = l + 1 /\ \A i \in 1..l : fields'[i] = fields[i]
        /\ fields'[l + 1] = binary[binary_pos + 1]
    BY <1>2, <2>1, AppendAny
  <2> HIDE DEF m, l
  <2>3. binary_pos + 1 = 5 * m + (l + 1)  BY <1>3, <1>4
  <2>4. \A i \in 1..l + 1 : fields'[i] = binary[5 * m + i]
    <3> SUFFICES ASSUME NEW i \in 1..l + 1 PROVE fields'[i] = binary[5 * m + i]  OBVIOUS
    <3>1. i \in 1..l \/ i = l + 1  BY <1>3
    <3> QED  BY <1>4, <2>2, <2>3, <3>1
  <2> QED  BY <1>1, <1>4, <2>1, <2>2, <2>3, <2>4 DEF ReaderInv, m, l
<1>6. CASE Reader!EndOfFile
  <2>1. /\ UNCHANGED <<binary_pos, fields, rows_read, calc_sum>> /\ reader_status' = "done"
        /\ Len(fields) < 5
    BY <1>6 DEF Reader!EndOfFile
  <2> QED  BY <1>1, <1>4, <2>1 DEF ReaderInv
<1>7. CASE Reader!CheckRow
  <2> DEFINE d == Haversine(fields[1], fields[2], fields[3], fields[4])
             p == points[m + 1]
  <2>1. /\ reader_status = "reading" /\ l = 5 /\ fields' = <<>> /\ binary_pos' = binary_pos
        /\ fields[5] - d = 0 =>
              /\ rows_read' = Append(rows_read, fields) /\ calc_sum' = calc_sum + d
              /\ reader_status' = reader_status
    BY <1>7 DEF Reader!CheckRow
  <2>2. m + 1 <= n /\ m + 1 \in 1..n /\ 5 * m + 5 <= Len(binary)
    <3>1. Len(binary) <= 5 * n  BY <1>4 DEF BinaryOf
    <3>2. 5 * m + 5 <= Len(binary)  BY <1>2, <1>4, <2>1
    <3> HIDE DEF m, n, l
    <3> QED  BY <1>3, <3>1, <3>2
  <2>3. p \in Point  BY <1>2, <2>2, ElementOfSeq
  <2>4. \A i \in 1..5 : fields[i] = BinaryRow(p)[i]
    <3> SUFFICES ASSUME NEW i \in 1..5 PROVE fields[i] = BinaryRow(p)[i]  OBVIOUS
    <3>1. fields[i] = binary[5 * m + i]  BY <1>4, <2>1
    <3>2. 5 * ((m + 1) - 1) + i = 5 * m + i /\ 5 * m + i <= Len(binary)
      <4> HIDE DEF m, n, l
      <4> QED  BY <1>3, <2>2
    <3>3. binary[5 * ((m + 1) - 1) + i] = BinaryRow(points[m + 1])[i]
      <4> HIDE DEF m, n, l
      <4> QED  BY <1>4, <2>2, <3>2 DEF BinaryOf, n
    <3> QED  BY <3>1, <3>2, <3>3
  <2> HIDE DEF p
  <2>5. d = Distance(p) /\ fields[5] = Distance(p) /\ fields = BinaryRow(p)
    <3> DEFINE r == BinaryRow(p)
    <3>1. r[1] = p.x0 /\ r[2] = p.y0 /\ r[3] = p.x1 /\ r[4] = p.y1 /\ r[5] = Distance(p)
      BY DEF BinaryRow
    <3>2. r \in Seq(Int) /\ Len(r) = 5
      <4>1. p.x0 \in Int /\ p.y0 \in Int /\ p.x1 \in Int /\ p.y1 \in Int  BY <2>3 DEF Point
      <4>2. Distance(p) \in Int  BY <1>2, <2>3, DistanceType
      <4> QED  BY <4>1, <4>2 DEF BinaryRow
    <3> HIDE DEF r
    <3>3. /\ fields[1] = p.x0 /\ fields[2] = p.y0 /\ fields[3] = p.x1 /\ fields[4] = p.y1
          /\ fields[5] = Distance(p)
      <4>1. 1 \in 1..5 /\ 2 \in 1..5 /\ 3 \in 1..5 /\ 4 \in 1..5 /\ 5 \in 1..5  OBVIOUS
      <4> QED  BY <2>4, <3>1, <4>1 DEF r
    <3>4. fields = r  BY <1>2, <2>1, <2>4, <3>2, SeqEqual DEF r
    <3> QED  BY <3>3, <3>4 DEF Distance, r
  <2>6. Distance(p) \in Int  BY <1>2, <2>3, DistanceType
  <2> HIDE DEF d
  <2>7. /\ rows_read' = Append(rows_read, fields) /\ calc_sum' = calc_sum + Distance(p)
        /\ reader_status' = reader_status
    BY <2>1, <2>5, <2>6
  <2>8. /\ Len(rows_read') = m + 1 /\ \A k \in 1..m : rows_read'[k] = rows_read[k]
        /\ rows_read'[m + 1] = BinaryRow(p)
    BY <1>2, <2>5, <2>7, AppendAny
  <2>9. calc_sum' = Total(SubSeq(points, 1, m + 1))
    BY <1>2, <1>3, <1>4, <2>2, <2>7, TotalNext DEF p
  <2>10. Len(fields') = 0 /\ 1..0 = {}  BY <2>1, EmptySeq
  <2> HIDE DEF m, l, n
  <2>11. \A k \in 1..m + 1 : rows_read'[k] = BinaryRow(points[k])
    <3> SUFFICES ASSUME NEW k \in 1..m + 1 PROVE rows_read'[k] = BinaryRow(points[k])  OBVIOUS
    <3>1. k \in 1..m \/ k = m + 1  BY <1>3
    <3> QED  BY <1>4, <2>8, <3>1 DEF p
  <2>12. binary_pos' = 5 * (m + 1) + 0  BY <1>3, <1>4, <2>1
  <2> QED
    BY <1>1, <1>4, <2>1, <2>2, <2>7, <2>8, <2>9, <2>10, <2>11, <2>12 DEF ReaderInv, n
<1> QED  BY <1>1, <1>5, <1>6, <1>7

LEMMA ReaderInvNext == PipelineTypeInv /\ ReaderInv /\ [Next]_vars => ReaderInv'
<1> SUFFICES ASSUME PipelineTypeInv, ReaderInv, [Next]_vars PROVE ReaderInv'  OBVIOUS
<1>1. GeneratorInv  BY DEF PipelineTypeInv
<1>2. CASE GeneratorStep  BY <1>1, <1>2, ReaderInvGenerator
<1>3. CASE StartReader  BY <1>1, <1>3, ReaderInvStart
<1>4. CASE ReaderStep  BY <1>4, ReaderInvStep
<1>5. CASE StartParser \/ ParserStep \/ UNCHANGED vars
  <2>1. /\ UNCHANGED <<points, sum, binary, binary_pos, fields, rows_read, calc_sum,
                       reader_status>>
        /\ stage' = "generator" <=> stage = "generator"
    BY <1>5 DEF StartParser, ParserStep, vars, gen_vars, gen_data, reader_vars
  <2> QED  BY <2>1 DEF ReaderInv
<1> QED  BY <1>2, <1>3, <1>4, <1>5 DEF Next, End

-----------------------------------------------------------------------------
(* What the parser keeps and sums, whatever it reads.                      *)

ItemsOf(D) == [data_item : D, next_item : Nat]
Kept(k) == IF preallocate THEN data_array[k] ELSE heap[k].data_item

StoreInv ==
    /\ \E D : heap \in Seq(ItemsOf(D))
    /\ \E D : data_array \in Seq(D)
    /\ data_item_count \in Nat
    /\ preallocate => Len(data_array) = data_item_count
    /\ ~preallocate =>
          /\ Len(heap) = data_item_count
          /\ list_head = IF data_item_count = 0 THEN 0 ELSE 1
          /\ list_tail = data_item_count
          /\ \A k \in 1..data_item_count :
                heap[k].next_item = IF k = data_item_count THEN 0 ELSE k + 1

\* The points that are summed are the first of those that are kept.
SumInv ==
    /\ \E D : summed \in Seq(D)
    /\ Len(summed) <= data_item_count
    /\ \A k \in 1..Len(summed) : summed[k] = Kept(k)
    /\ phase \notin {"sum", "done", "error", "crashed"} => summed = <<>>
    /\ phase = "sum" /\ ~preallocate =>
          item = IF Len(summed) = data_item_count THEN 0 ELSE Len(summed) + 1
    /\ phase = "done" => Len(summed) = data_item_count

\* The row is kept behind the others.
RowIsKept ==
    /\ data_item_count' = data_item_count + 1
    /\ \A k \in 1..data_item_count + 1 :
          Kept(k)' = IF k = data_item_count + 1 THEN row ELSE Kept(k)

LEMMA StoreInvInit == Init => StoreInv /\ SumInv
<1> SUFFICES ASSUME Init PROVE StoreInv /\ SumInv  OBVIOUS
<1>1. /\ heap = <<>> /\ data_array = <<>> /\ summed = <<>> /\ data_item_count = 0
      /\ list_head = 0 /\ list_tail = 0 /\ phase = "start"
  BY DEF Init, Parser!Init, Parser!Null
<1>2. <<>> \in Seq(ItemsOf({})) /\ <<>> \in Seq({}) /\ Len(<<>>) = 0  BY EmptySeq
<1> QED  BY <1>1, <1>2 DEF StoreInv, SumInv

LEMMA StoreArrayStep ==
    ASSUME StoreInv, Parser!StoreInArray
    PROVE  StoreInv' /\ RowIsKept
<1>1. /\ preallocate /\ preallocate' = preallocate
      /\ data_array' = Append(data_array, row) /\ data_item_count' = data_item_count + 1
      /\ heap' = heap
  BY DEF Parser!StoreInArray, Parser!Complete, Parser!input
<1>2. PICK D : data_array \in Seq(D)  BY DEF StoreInv
<1>3. /\ data_array' \in Seq(D \cup {row})
      /\ Len(data_array') = Len(data_array) + 1
      /\ \A k \in 1..Len(data_array) : data_array'[k] = data_array[k]
      /\ data_array'[Len(data_array) + 1] = row
  BY <1>1, <1>2, AppendAny
<1>4. StoreInv'  BY <1>1, <1>3 DEF StoreInv
<1>5. Len(data_array) = data_item_count /\ data_item_count \in Nat  BY <1>1 DEF StoreInv
<1>6. \A k \in 1..data_item_count + 1 : k \in 1..data_item_count \/ k = data_item_count + 1
  BY <1>5
<1>7. RowIsKept  BY <1>1, <1>3, <1>5, <1>6 DEF RowIsKept, Kept
<1> QED  BY <1>4, <1>7

\* The tail of the list is linked to the new item, which becomes the tail.
LEMMA StoreListStep ==
    ASSUME StoreInv, Parser!StoreInList
    PROVE  StoreInv' /\ RowIsKept
<1> DEFINE n == data_item_count
           new == [data_item |-> row, next_item |-> 0]
<1>1. /\ ~preallocate /\ preallocate' = preallocate
      /\ data_item_count' = n + 1 /\ data_array' = data_array
  BY DEF Parser!StoreInList, Parser!Complete, Parser!input
<1>2. /\ n \in Nat /\ Len(heap) = n /\ list_tail = n
      /\ list_head = IF n = 0 THEN 0 ELSE 1
      /\ \A k \in 1..n : heap[k].next_item = IF k = n THEN 0 ELSE k + 1
  BY <1>1 DEF StoreInv
<1>3. PICK D : heap \in Seq(ItemsOf(D))  BY DEF StoreInv
<1> DEFINE E == D \cup {row}
<1>4. heap \in Seq(ItemsOf(E)) /\ new \in ItemsOf(E)
  <2>1. ItemsOf(D) \subseteq ItemsOf(E)  BY DEF ItemsOf
  <2>2. heap \in Seq(ItemsOf(E))  BY <1>3, <2>1, SeqMonotonic
  <2> QED  BY <2>2 DEF ItemsOf
<1>5. Parser!NewItem = n + 1  BY <1>2 DEF Parser!NewItem
<1>6. new.data_item = row /\ new.next_item = 0  OBVIOUS
<1> HIDE DEF n, new, E
<1>7. PICK linked \in Seq(ItemsOf(E)) :
        /\ Len(linked) = n
        /\ \A k \in 1..n : linked[k].next_item = k + 1 /\ linked[k].data_item = heap[k].data_item
        /\ heap' = Append(linked, new)
  <2>1. CASE n = 0
    <3>1. heap' = Append(heap, new)
      BY <1>2, <2>1 DEF Parser!StoreInList, Parser!AppendItem, Parser!Null, new
    <3>2. Len(heap) = n /\ 1..n = {}  BY <1>2, <2>1
    <3>3. \A k \in 1..n : heap[k].next_item = k + 1 /\ heap[k].data_item = heap[k].data_item
      BY <3>2
    <3> QED  BY <1>4, <3>1, <3>2, <3>3, Zenon
  <2>2. CASE n # 0
    <3> DEFINE last == [heap[n] EXCEPT !.next_item = n + 1]
               linked == [heap EXCEPT ![n] = last]
    <3>1. n \in 1..Len(heap) /\ list_head # Parser!Null  BY <1>2, <2>2 DEF Parser!Null
    <3>2. heap[n] \in ItemsOf(E)  BY <1>4, <3>1
    <3>3. last \in ItemsOf(E) /\ last.next_item = n + 1 /\ last.data_item = heap[n].data_item
      BY <1>2, <3>2 DEF ItemsOf
    <3>4. heap' = Append(linked, new)
      BY <1>2, <1>5, <3>1 DEF Parser!StoreInList, Parser!AppendItem, Parser!Null, new
    <3> HIDE DEF last
    <3>5. /\ linked \in Seq(ItemsOf(E)) /\ Len(linked) = n
          /\ \A k \in 1..n : linked[k] = IF k = n THEN last ELSE heap[k]
      BY <1>2, <1>4, <3>1, <3>3, ExceptSeq
    <3> HIDE DEF linked
    <3>6. \A k \in 1..n : linked[k].next_item = k + 1 /\ linked[k].data_item = heap[k].data_item
      BY <1>2, <3>3, <3>5
    <3> QED  BY <3>4, <3>5, <3>6
  <2> QED  BY <2>1, <2>2
<1>8. /\ heap' \in Seq(ItemsOf(E)) /\ Len(heap') = n + 1
      /\ \A k \in 1..n : heap'[k] = linked[k]
      /\ heap'[n + 1] = new
  BY <1>2, <1>4, <1>7
<1>9. list_tail' = n + 1 /\ list_head' = 1
  BY <1>2, <1>5 DEF Parser!StoreInList, Parser!AppendItem, Parser!Null
<1>10. \A k \in 1..n + 1 : k \in 1..n \/ k = n + 1  BY <1>2
<1>11. \A k \in 1..n + 1 : heap'[k].next_item = IF k = n + 1 THEN 0 ELSE k + 1
  BY <1>2, <1>6, <1>7, <1>8, <1>10
<1>12. StoreInv'  BY <1>1, <1>2, <1>8, <1>9, <1>11 DEF StoreInv
<1>13. RowIsKept  BY <1>1, <1>2, <1>6, <1>7, <1>8, <1>10 DEF RowIsKept, Kept, n
<1> QED  BY <1>12, <1>13

\* Nothing is kept or summed before the whole file is read.
LEMMA ScanKeeps ==
    ASSUME StoreInv, SumInv, UNCHANGED <<preallocate, Parser!store, Parser!average>>,
           phase \notin {"sum", "done", "error", "crashed"}, phase' \notin {"sum", "done"}
    PROVE  StoreInv' /\ SumInv'
  BY DEF StoreInv, SumInv, Kept, Parser!store, Parser!average

LEMMA StoreKeeps ==
    ASSUME StoreInv, SumInv, Parser!StoreInArray \/ Parser!StoreInList
    PROVE  StoreInv' /\ SumInv'
<1>1. StoreInv' /\ RowIsKept  BY StoreArrayStep, StoreListStep
<1>2. phase = "row_end" /\ phase' = "rows" /\ summed' = summed
  BY DEF Parser!StoreInArray, Parser!StoreInList, Parser!Complete, Parser!average
<1>3. summed = <<>> /\ Len(summed) = 0 /\ 1..0 = {}  BY <1>2, EmptySeq DEF SumInv
<1>4. data_item_count' \in Nat  BY <1>1 DEF StoreInv
<1>5. \E D : summed' \in Seq(D)  BY <1>2 DEF SumInv
<1> QED  BY <1>1, <1>2, <1>3, <1>4, <1>5 DEF SumInv

LEMMA AverageKeeps ==
    ASSUME StoreInv, SumInv, Parser!StartAverage
    PROVE  StoreInv' /\ SumInv'
<1>1. /\ UNCHANGED <<preallocate, heap, list_head, list_tail, data_array, data_item_count, summed>>
      /\ summed = <<>> /\ item' = list_head /\ phase' \in {"sum", "error"}
      /\ ~preallocate /\ phase' = "sum" => list_head # 0
  BY DEF Parser!StartAverage, SumInv, Parser!input, Parser!store, Parser!Null
<1>2. StoreInv'  BY <1>1 DEF StoreInv
<1>3. Len(summed) = 0 /\ 1..0 = {} /\ data_item_count \in Nat
      /\ (~preallocate => list_head = IF data_item_count = 0 THEN 0 ELSE 1)
  BY <1>1, EmptySeq DEF StoreInv
<1>4. \E D : summed' \in Seq(D)  BY <1>1 DEF SumInv
<1> QED  BY <1>1, <1>2, <1>3, <1>4 DEF SumInv

\* One more point is added up, in the array or by the link to it.
LEMMA SumKeeps ==
    ASSUME StoreInv, SumInv, Parser!SumArray \/ Parser!SumList
    PROVE  StoreInv' /\ SumInv'
<1> DEFINE t == Len(summed)
           n == data_item_count
<1>1. PICK D : summed \in Seq(D)  BY DEF SumInv
<1>2. /\ phase = "sum" /\ phase' = "sum"
      /\ UNCHANGED <<preallocate, heap, list_head, list_tail, data_array, data_item_count>>
      /\ n \in Nat /\ t \in Nat /\ t <= n
      /\ ~preallocate => item = IF t = n THEN 0 ELSE t + 1
      /\ \A k \in 1..t : summed[k] = Kept(k)
  BY <1>1, LenProperties
     DEF Parser!SumArray, Parser!SumList, StoreInv, SumInv, Parser!input, Parser!store
<1>3. /\ t < n /\ summed' = Append(summed, Kept(t + 1))
      /\ ~preallocate => item' = heap[t + 1].next_item
  BY <1>2 DEF Parser!SumArray, Parser!SumList, Kept, Parser!count_values, Parser!Null
<1>4. /\ summed' \in Seq(D \cup {Kept(t + 1)}) /\ Len(summed') = t + 1
      /\ \A k \in 1..t : summed'[k] = summed[k]
      /\ summed'[t + 1] = Kept(t + 1)
  BY <1>1, <1>3, AppendAny
<1>5. ~preallocate => \A k \in 1..n : heap[k].next_item = IF k = n THEN 0 ELSE k + 1
  BY DEF StoreInv
<1> HIDE DEF t, n
<1>6. \A k : Kept(k)' = Kept(k)  BY <1>2 DEF Kept
<1>7. \A k \in 1..t + 1 : summed'[k] = Kept(k)
  <2>1. \A k \in 1..t + 1 : k \in 1..t \/ k = t + 1  BY <1>2
  <2> QED  BY <1>2, <1>4, <2>1
<1>8. ~preallocate => item' = IF t + 1 = n THEN 0 ELSE t + 2
  <2>1. t + 1 \in 1..n /\ (t + 1) + 1 = t + 2  BY <1>2, <1>3
  <2> QED  BY <1>3, <1>5, <2>1
<1>9. StoreInv'  BY <1>2 DEF StoreInv
<1>10. /\ data_item_count' = n /\ t + 1 <= n /\ (t + 1) + 1 = t + 2
  BY <1>2, <1>3 DEF n
<1>11. SumInv'  BY <1>2, <1>4, <1>6, <1>7, <1>8, <1>10 DEF SumInv
<1> QED  BY <1>9, <1>11

LEMMA FinishKeeps ==
    ASSUME StoreInv, SumInv, Parser!Finish
    PROVE  StoreInv' /\ SumInv'
<1>1. /\ phase = "sum" /\ phase' = "done"
      /\ UNCHANGED <<preallocate, heap, list_head, list_tail, data_array, data_item_count, summed>>
      /\ IF preallocate THEN Len(summed) = data_item_count ELSE item = 0
  BY DEF Parser!Finish, Parser!count_values, Parser!input, Parser!store, Parser!average,
         Parser!Null
<1>2. Len(summed) = data_item_count
  <2>1. Len(summed) \in Nat  BY LenProperties DEF SumInv
  <2> QED  BY <1>1, <2>1 DEF SumInv
<1> QED  BY <1>1, <1>2 DEF StoreInv, SumInv, Kept

LEMMA StoreNext == StoreInv /\ SumInv /\ [Next]_vars => StoreInv' /\ SumInv'
<1> SUFFICES ASSUME StoreInv, SumInv, [Next]_vars PROVE StoreInv' /\ SumInv'  OBVIOUS
<1>1. CASE GeneratorStep \/ StartReader \/ ReaderStep \/ StartParser \/ UNCHANGED vars
  <2>1. UNCHANGED parser_rest
    BY <1>1 DEF GeneratorStep, StartReader, ReaderStep, StartParser, vars
  <2> QED  BY <2>1 DEF parser_rest, StoreInv, SumInv, Kept
<1>2. CASE ParserStep
  <2> USE DEF Parser!input
  <2>1. CASE Parser!ReadFile \/ Parser!ReadFails
    BY <2>1, ScanKeeps DEF Parser!ReadFile, Parser!ReadFails
  <2>2. CASE Parser!FindHeader
    <3>1. phase = "header" /\ phase' \in {"error", "rows", "header"}
          /\ UNCHANGED <<preallocate, Parser!store, Parser!average>>
      BY <2>2 DEF Parser!FindHeader
    <3> QED  BY <3>1, ScanKeeps
  <2>3. CASE Parser!StartRow \/ Parser!EndRows
    <3>1. phase = "rows" /\ phase' \in {"items", "parsed"}
          /\ UNCHANGED <<preallocate, Parser!store, Parser!average>>
      BY <2>3 DEF Parser!StartRow, Parser!EndRows
    <3> QED  BY <3>1, ScanKeeps
  <2>4. CASE Parser!ParseName \/ Parser!RejectName
    BY <2>4, ScanKeeps DEF Parser!ParseName, Parser!RejectName, Parser!InRow
  <2>5. CASE Parser!ParseValue \/ Parser!RejectValue
    BY <2>5, ScanKeeps DEF Parser!ParseValue, Parser!RejectValue
  <2>6. CASE Parser!BreakRow \/ Parser!CompleteRow \/ Parser!RejectRow
    BY <2>6, ScanKeeps
       DEF Parser!BreakRow, Parser!RunsOut, Parser!InRow, Parser!CompleteRow, Parser!RejectRow
  <2>7. CASE Parser!CrashInArray \/ Parser!OutOfMemory
    BY <2>7, ScanKeeps DEF Parser!CrashInArray, Parser!OutOfMemory, Parser!Complete
  <2>8. CASE Parser!StoreInArray \/ Parser!StoreInList  BY <2>8, StoreKeeps
  <2>9. CASE Parser!StartAverage  BY <2>9, AverageKeeps
  <2>10. CASE Parser!SumArray \/ Parser!SumList  BY <2>10, SumKeeps
  <2>11. CASE Parser!Finish  BY <2>11, FinishKeeps
  <2> QED
    BY <1>2, <2>1, <2>2, <2>3, <2>4, <2>5, <2>6, <2>7, <2>8, <2>9, <2>10, <2>11
    DEF ParserStep, Parser!Run
<1> QED  BY <1>1, <1>2 DEF Next, End

-----------------------------------------------------------------------------
(* Where the parser is in the file, and what it has read.                  *)

Whole == Len(document.points)
TextInv ==
    stage = "parser" =>
        /\ TextOf(document.text, points)
        /\ Whole \in Nat /\ Whole <= Len(points)
        /\ \A k \in 1..Len(points) : k <= Whole <=> 30 * k + 8 <= Len(document.text)

SameUpTo(c, p, q) == \A k \in 1..c : p[Coordinates[k]] = q[Coordinates[k]]

HeaderInv == phase \in {"start", "header"} => matched = pos - 1 /\ matched < 10

\* In a row that is whole, and behind the fourth item of the last one maybe at the end.
PlaceInv ==
    /\ phase = "rows" => pos = IF data_item_count = 0 THEN 11 ELSE Base(data_item_count) - 1
    /\ phase \in {"items", "value"} =>
          item_count \in 0..4 /\ SameUpTo(item_count, row, points[data_item_count + 1])
    /\ phase = "items" =>
          \/ item_count = 0 /\ pos = Base(data_item_count) + 2
          \/ item_count > 0 /\ pos = Base(data_item_count) + 7 * item_count + 1
          \/ item_count = 4 /\ data_item_count + 1 = Whole
    /\ phase = "value" =>
          /\ item_count < 4 /\ found_item = Coordinates[item_count + 1]
          /\ pos = Base(data_item_count) + 7 * item_count + 5
    /\ phase = "row_end" =>
          /\ SameUpTo(4, row, points[data_item_count + 1])
          /\ data_item_count + 1 < Whole => pos = Base(data_item_count) + 29
ReadInv ==
    /\ DOMAIN row = Parser!Names
    /\ HeaderInv
    /\ stage = "parser" =>
          /\ data_item_count < Whole => PlaceInv
          /\ \A k \in 1..data_item_count : k <= Whole => SameUpTo(4, Kept(k), points[k])
          /\ phase \in {"parsed", "sum", "done"} => data_item_count >= Whole

LEMMA ReadInvInit == Init => TextInv /\ ReadInv
<1> SUFFICES ASSUME Init PROVE TextInv /\ ReadInv  OBVIOUS
<1>1. /\ stage = "generator" /\ phase = "start" /\ matched = 0 /\ pos = 1
      /\ DOMAIN row = Parser!Names
  BY DEF Init, Parser!Init
<1> QED  BY <1>1 DEF TextInv, ReadInv, HeaderInv

LEMMA TextNext ==
    ASSUME GeneratorInv, FileInv, TextInv, [Next]_vars
    PROVE  TextInv'
<1>1. CASE GeneratorStep \/ StartReader \/ ReaderStep
  BY <1>1 DEF GeneratorStep, StartReader, ReaderStep, TextInv
<1>2. CASE StartParser
  <2>1. document' = TheDocument /\ points' = points
    BY <1>2 DEF StartParser, gen_vars, gen_data
  <2>2. points \in Seq(Point) /\ lost[1] \in Nat
    BY GeneratorAssumption DEF GeneratorInv, GenTypeOK, Point
  <2>3. gen_status = "done" => Len(points) # 0  BY DEF FileInv
  <2>4. TextOf(TheDocument.text, points)  BY <2>2, <2>3, DocumentIs
  <2>5. /\ Len(TheDocument.points) \in Nat /\ Len(TheDocument.points) <= Len(points)
        /\ \A k \in 1..Len(points) :
              k <= Len(TheDocument.points) <=> 30 * k + 8 <= Len(TheDocument.text)
    BY <2>2, <2>3, WholeRowsAre
  <2> QED  BY <2>1, <2>4, <2>5 DEF TextInv, Whole
<1>3. CASE ParserStep \/ UNCHANGED vars
  <2>1. points' = points /\ document' = document /\ stage' = stage
    BY <1>3 DEF ParserStep, vars, gen_vars, gen_data, parser_input, Parser!Run, Parser!input,
       Parser!ReadFile, Parser!ReadFails, Parser!FindHeader, Parser!StartRow, Parser!EndRows,
       Parser!ParseName, Parser!RejectName, Parser!ParseValue, Parser!RejectValue,
       Parser!BreakRow, Parser!CompleteRow, Parser!RejectRow, Parser!StoreInArray,
       Parser!CrashInArray, Parser!StoreInList, Parser!OutOfMemory, Parser!StartAverage,
       Parser!SumArray, Parser!SumList, Parser!Finish
  <2> QED  BY <2>1 DEF TextInv, Whole
<1> QED  BY <1>1, <1>2, <1>3 DEF Next, End

\* The row that is read next, when it is whole.
LEMMA NextRowIsWhole ==
    ASSUME GeneratorInv, FileInv, TextInv, StoreInv, stage = "parser", data_item_count < Whole
    PROVE  /\ points \in Seq(Point) /\ TextOf(document.text, points)
           /\ DocumentOf(document, Len(points))
           /\ Len(document.text) \in Nat /\ data_item_count \in Nat /\ Whole \in Nat
           /\ data_item_count + 1 <= Len(points)
           /\ Base(data_item_count) \in Nat
           /\ Base(data_item_count) + 27 <= Len(document.text)
           /\ data_item_count + 1 < Whole => Base(data_item_count) + 57 <= Len(document.text)
<1> DEFINE d == data_item_count
           n == Len(points)
           m == Len(document.text)
<1>1. points \in Seq(Point)  BY DEF GeneratorInv, GenTypeOK, Point
<1>2. DocumentOf(document, n)  BY DEF FileInv
<1>3. m \in Nat /\ n \in Nat  BY <1>1, <1>2 DEF DocumentOf
<1>4. /\ TextOf(document.text, points) /\ Whole \in Nat /\ Whole <= n
      /\ \A k \in 1..n : k <= Whole <=> 30 * k + 8 <= m
  BY DEF TextInv
<1>5. d \in Nat /\ d < Whole  BY DEF StoreInv
<1> HIDE DEF d, n, m
<1>6. d + 1 \in 1..n /\ d + 1 <= Whole /\ (d + 1 < Whole => d + 2 \in 1..n /\ d + 2 <= Whole)
  BY <1>3, <1>4, <1>5
<1>7. 30 * (d + 1) + 8 <= m /\ (d + 1 < Whole => 30 * (d + 2) + 8 <= m)  BY <1>4, <1>6
<1>8. Base(d) \in Nat /\ Base(d) + 27 <= m /\ (d + 1 < Whole => Base(d) + 57 <= m)
  BY <1>3, <1>5, <1>7 DEF Base
<1> QED  BY <1>1, <1>2, <1>3, <1>4, <1>5, <1>6, <1>8 DEF d, n, m

\* A step that keeps no point.
LEMMA ReadKeeps ==
    ASSUME ReadInv, stage = "parser", data_item_count \in Nat, Whole \in Nat,
           UNCHANGED <<stage, points, document, preallocate, Parser!store>>,
           DOMAIN row' = Parser!Names, phase' \notin {"start", "header"},
           data_item_count < Whole => PlaceInv' /\ phase' \notin {"parsed", "sum", "done"}
    PROVE  ReadInv'
<1>1. Whole' = Whole /\ data_item_count' = data_item_count /\ \A k : Kept(k)' = Kept(k)
  BY DEF Whole, Kept, Parser!store
<1>2. HeaderInv'  BY DEF HeaderInv
<1>3. data_item_count >= Whole \/ data_item_count < Whole  OBVIOUS
<1> QED  BY <1>1, <1>2, <1>3 DEF ReadInv

LEMMA ReadHeader ==
    ASSUME GeneratorInv, FileInv, FitInv, TextInv, StoreInv, ReadInv, stage = "parser",
           UNCHANGED <<stage, points>>, Parser!FindHeader
    PROVE  ReadInv'
<1> DEFINE at == Parser!advance_until(pos, Parser!Header[matched + 1])
<1>1. /\ phase = "header" /\ pos' = Parser!Behind(at)
      /\ matched' = IF at = Parser!None THEN matched ELSE matched + 1
      /\ phase' = IF at = Parser!None THEN "error"
                  ELSE IF matched + 1 = Len(Parser!Header) THEN "rows" ELSE "header"
      /\ UNCHANGED <<document, preallocate, row, Parser!store>>
  BY Zenon DEF Parser!FindHeader, Parser!input
<1>2. /\ DOMAIN row = Parser!Names /\ matched = pos - 1 /\ matched < 10 /\ data_item_count = 0
      /\ pos \in 1..ParserEnd /\ DocumentOf(document, Len(points))
      /\ TextOf(document.text, points) /\ Whole \in Nat
  BY <1>1 DEF ReadInv, HeaderInv, FitInv, FileInv, TextInv
<1>3. Len(document.text) \in Nat  BY <1>2 DEF DocumentOf
<1>4. pos \in 1..10 /\ matched + 1 = pos  BY <1>2, <1>3 DEF ParserEnd
<1> HIDE DEF at
<1>5. CASE pos > Len(document.text)
  <2>1. at = Parser!None \/ at \in pos..Len(document.text)
    BY <1>2, <1>3, ScanIs DEF at
  <2>2. pos..Len(document.text) = {}  BY <1>3, <1>4, <1>5
  <2>3. phase' = "error"  BY <1>1, <2>1, <2>2
  <2>4. data_item_count < Whole => PlaceInv'  BY <2>3 DEF PlaceInv
  <2> QED  BY <1>1, <1>2, <2>3, <2>4, ReadKeeps
<1>6. CASE pos <= Len(document.text)
  <2>1. document.text[pos].text = Parser!Header[pos]
    <3>1. pos \in 1..11  BY <1>4
    <3>2. document.text[pos] = Opening[pos]  BY <1>2, <1>6, <3>1 DEF TextOf
    <3> QED  BY <1>4, <3>2, HeaderIs
  <2>2. at = pos
    <3>1. pos \in Nat \ {0} /\ pos \in pos..Len(document.text) /\ pos..pos - 1 = {}
      BY <1>3, <1>4, <1>6
    <3>2. \A r \in pos..pos - 1 : document.text[r].text # Parser!Header[pos]  BY <3>1
    <3> QED  BY <1>3, <1>4, <2>1, <3>1, <3>2, ScanAt DEF at
  <2>3. pos' = pos + 1 /\ matched' = pos /\ phase' = IF pos = 10 THEN "rows" ELSE "header"
    BY <1>1, <1>4, <2>2, HeaderIs DEF Parser!Behind, Parser!None
  <2>4. CASE pos = 10
    <3>1. phase' = "rows" /\ pos' = 11  BY <2>3, <2>4
    <3>2. data_item_count' = 0  BY <1>1, <1>2 DEF Parser!store
    <3>3. PlaceInv'  BY <3>1, <3>2 DEF PlaceInv
    <3> QED  BY <1>1, <1>2, <3>1, <3>3, ReadKeeps
  <2>5. CASE pos # 10
    <3>1. phase' = "header" /\ matched' = pos' - 1 /\ matched' < 10  BY <1>4, <2>3, <2>5
    <3>2. PlaceInv'  BY <3>1 DEF PlaceInv
    <3>3. Whole' = Whole /\ data_item_count' = 0  BY <1>1, <1>2 DEF Whole, Parser!store
    <3>4. 1..0 = {}  OBVIOUS
    <3> QED  BY <1>1, <1>2, <3>1, <3>2, <3>3, <3>4 DEF ReadInv, HeaderInv
  <2> QED  BY <2>4, <2>5
<1> QED  BY <1>3, <1>4, <1>5, <1>6

LEMMA ReadStartsRow ==
    ASSUME GeneratorInv, FileInv, TextInv, StoreInv, ReadInv, stage = "parser",
           UNCHANGED <<stage, points>>, Parser!StartRow
    PROVE  ReadInv'
<1>1. phase = "rows" /\ pos' = NextBrace(pos) + 1
  BY Zenon DEF Parser!StartRow, NextBrace
<1>2. /\ phase' = "items" /\ item_count' = 0
      /\ UNCHANGED <<document, preallocate, row, Parser!store>>
  BY Zenon DEF Parser!StartRow, Parser!input
<1>3. data_item_count \in Nat /\ Whole \in Nat /\ DOMAIN row = Parser!Names
  BY DEF StoreInv, TextInv, ReadInv
<1>4. data_item_count' = data_item_count  BY <1>2 DEF Parser!store
<1>5. data_item_count < Whole => PlaceInv'
  <2> SUFFICES ASSUME data_item_count < Whole PROVE PlaceInv'  OBVIOUS
  <2>1. pos = IF data_item_count = 0 THEN 11 ELSE Base(data_item_count) - 1
    BY <1>1 DEF ReadInv, PlaceInv
  <2>2. NextBrace(pos) = Base(data_item_count) + 1  BY <2>1, NextRowIsWhole, BraceScan
  <2>3. pos' = Base(data_item_count) + 2  BY <1>1, <2>2, NextRowIsWhole
  <2>4. 1..0 = {}  OBVIOUS
  <2>5. SameUpTo(item_count', row', points'[data_item_count' + 1])  BY <1>2, <2>4 DEF SameUpTo
  <2> QED  BY <1>2, <1>4, <2>3, <2>5 DEF PlaceInv
<1> QED  BY <1>2, <1>3, <1>5, ReadKeeps

LEMMA ReadEndsRows ==
    ASSUME GeneratorInv, FileInv, TextInv, StoreInv, ReadInv, stage = "parser",
           UNCHANGED <<stage, points>>, Parser!EndRows
    PROVE  ReadInv'
<1>1. phase = "rows" /\ NextBrace(pos) = 0
  BY Zenon DEF Parser!EndRows, NextBrace, Parser!None
<1>2. phase' = "parsed" /\ UNCHANGED <<document, preallocate, row, Parser!store>>
  BY Zenon DEF Parser!EndRows, Parser!input
<1>3. data_item_count \in Nat /\ Whole \in Nat /\ DOMAIN row = Parser!Names
  BY DEF StoreInv, TextInv, ReadInv
<1>4. ~(data_item_count < Whole)
  <2> SUFFICES ASSUME data_item_count < Whole PROVE FALSE  OBVIOUS
  <2>1. pos = IF data_item_count = 0 THEN 11 ELSE Base(data_item_count) - 1
    BY <1>1 DEF ReadInv, PlaceInv
  <2>2. NextBrace(pos) = Base(data_item_count) + 1  BY <2>1, NextRowIsWhole, BraceScan
  <2> QED  BY <1>1, <2>2, NextRowIsWhole
<1> QED  BY <1>2, <1>3, <1>4, ReadKeeps

LEMMA OneToken ==
    ASSUME NEW s \in Seq(Tokens), NEW k \in 1..Len(s)
    PROVE  SubSeq(s, k, k) = <<s[k]>>
<1>1. k \in Int /\ s[k] \in Tokens  BY ElementOfSeq
<1> DEFINE a == SubSeq(s, k, k)
           b == <<s[k]>>
<1>2. a \in Seq(Tokens) /\ Len(a) = 1 /\ a[1] = s[k]
  <2>1. \A i \in k..k : s[i] \in Tokens
    <3>1. \A i \in k..k : i = k  BY <1>1
    <3> QED  BY <1>1, <3>1
  <2>2. a \in Seq(Tokens)  BY <1>1, <2>1, SubSeqProperties
  <2> QED  BY <1>1, <2>2
<1>3. b \in Seq(Tokens) /\ Len(b) = 1 /\ b[1] = s[k]  BY <1>1
<1> HIDE DEF a, b
<1>4. \A i \in 1..1 : i = 1  OBVIOUS
<1>5. a = b  BY <1>2, <1>3, <1>4, SeqEqual
<1> QED  BY <1>5 DEF a, b

\* The names are met in the order of the coordinates.
LEMMA ReadName ==
    ASSUME GeneratorInv, FileInv, TextInv, StoreInv, ReadInv, stage = "parser",
           UNCHANGED <<stage, points>>, Parser!ParseName
    PROVE  ReadInv'
<1>1. /\ phase = "items" /\ item_count < 4
      /\ pos' = Parser!Behind(NextQuote(NextQuote(pos) + 1))
      /\ found_item' =
            Parser!extract_until(NextQuote(pos) + 1, NextQuote(NextQuote(pos) + 1))[1].text
  BY Zenon DEF Parser!ParseName, Parser!InRow, Parser!NameStart, Parser!NameEnd,
               Parser!ItemName, NextQuote
<1>2. /\ phase' = "value"
      /\ UNCHANGED <<document, preallocate, row, item_count, Parser!store>>
  BY Zenon DEF Parser!ParseName, Parser!input
<1>3. data_item_count \in Nat /\ Whole \in Nat /\ DOMAIN row = Parser!Names
  BY DEF StoreInv, TextInv, ReadInv
<1>4. data_item_count' = data_item_count  BY <1>2 DEF Parser!store
<1>5. data_item_count < Whole => PlaceInv'
  <2> SUFFICES ASSUME data_item_count < Whole PROVE PlaceInv'  OBVIOUS
  <2> DEFINE c == item_count
             b == Base(data_item_count)
             a == 7 * c
             name == Coordinates[c + 1]
             t == document.text
  <2>1. /\ c \in 0..4 /\ SameUpTo(c, row, points[data_item_count + 1])
        /\ \/ c = 0 /\ pos = b + 2
           \/ c > 0 /\ pos = b + a + 1
           \/ c = 4
    BY <1>1 DEF ReadInv, PlaceInv
  <2>2. c \in 0..3 /\ (pos = b + a + 2 \/ (c > 0 /\ pos = b + a + 1))
    <3>1. b \in Nat  BY NextRowIsWhole
    <3> HIDE DEF b
    <3> QED  BY <1>1, <2>1, <3>1
  <2>3. /\ NextQuote(pos) = b + a + 2 /\ NextQuote(b + a + 3) = b + a + 4
        /\ t[b + a + 3] = Name(name)
    BY <2>2, NextRowIsWhole, NameScans
  <2>4. /\ b \in Nat /\ b + 27 <= Len(t) /\ Len(t) \in Nat /\ t \in Seq(Tokens)
    BY NextRowIsWhole DEF DocumentOf
  <2>5. a \in 0..21  BY <2>2
  <2> HIDE DEF a, b, t
  <2>6. /\ (b + a + 2) + 1 = b + a + 3 /\ (b + a + 4) - 1 = b + a + 3 /\ b + a + 4 # 0
        /\ (b + a + 4) + 1 = b + a + 5 /\ b + a + 3 \in 1..Len(t)
    BY <2>4, <2>5
  <2>7. pos' = b + a + 5  BY <1>1, <2>3, <2>6 DEF Parser!Behind, Parser!None
  <2>8. found_item' = name
    <3>1. found_item' = Parser!extract_until(b + a + 3, b + a + 4)[1].text
      BY <1>1, <2>3, <2>6
    <3>2. Parser!extract_until(b + a + 3, b + a + 4) = SubSeq(t, b + a + 3, b + a + 3)
      BY <2>6 DEF Parser!extract_until, Parser!text, Parser!None, t
    <3>3. SubSeq(t, b + a + 3, b + a + 3) = <<Name(name)>>  BY <2>3, <2>4, <2>6, OneToken
    <3>4. name \in Parser!Names
      <4>1. c + 1 = 1 \/ c + 1 = 2 \/ c + 1 = 3 \/ c + 1 = 4  BY <2>2
      <4> QED  BY <4>1 DEF Coordinates, Parser!Names
    <3> HIDE DEF name
    <3>5. <<Name(name)>>[1] = Name(name)  OBVIOUS
    <3>6. Name(name).text = name  BY <3>4, NoMarks
    <3> QED  BY <3>1, <3>2, <3>3, <3>5, <3>6
  <2>9. SameUpTo(item_count', row', points'[data_item_count' + 1]) /\ item_count' \in 0..4
    BY <1>2, <1>4, <2>1 DEF SameUpTo
  <2>10. /\ item_count' < 4 /\ found_item' = Coordinates[item_count' + 1]
         /\ pos' = Base(data_item_count') + 7 * item_count' + 5
    BY <1>1, <1>2, <1>4, <2>7, <2>8 DEF a, b
  <2> QED  BY <1>2, <2>9, <2>10 DEF PlaceInv
<1> QED  BY <1>2, <1>3, <1>5, ReadKeeps

\* The value of an item, up to the mark behind it, is that of the point.
LEMMA ReadValue ==
    ASSUME GeneratorInv, FileInv, TextInv, StoreInv, ReadInv, stage = "parser",
           UNCHANGED <<stage, points>>, Parser!ParseValue
    PROVE  ReadInv'
<1> DEFINE c == item_count
           b == Base(data_item_count)
           a == 7 * c
           t == document.text
           p == b + a + 5
           colon == NextColon(pos)
           end == IF c < 3 THEN NextComma(colon + 1) ELSE NextClose(colon + 1)
           text == Parser!extract_until(colon + 1, end)
           name == Coordinates[c + 1]
           v == points[data_item_count + 1][name]
<1>1. phase = "value" /\ pos' = Parser!Behind(end) /\ colon # 0
      /\ \E value \in Parser!Scanned(text) : row' = [row EXCEPT ![found_item] = value]
  <2>1. Parser!Colon = colon  BY Zenon DEF Parser!Colon, NextColon
  <2>2. Parser!ValueEnd = end
    <3>1. CASE c < 3
      BY <2>1, <3>1, Zenon DEF Parser!ValueEnd, NextComma
    <3>2. CASE ~(c < 3)
      BY <2>1, <3>2, Zenon DEF Parser!ValueEnd, NextClose
    <3> QED  BY <3>1, <3>2
  <2>3. Parser!ItemValue = text
    <3> HIDE DEF colon, end
    <3> QED  BY <2>1, <2>2, Zenon DEF Parser!ItemValue
  <2> HIDE DEF colon, end, text
  <2> QED  BY <2>1, <2>2, <2>3 DEF Parser!ParseValue, Parser!None
<1>2. /\ phase' = "items" /\ item_count' = c + 1
      /\ UNCHANGED <<document, preallocate, Parser!store>>
  BY DEF Parser!ParseValue, Parser!input
<1>3. data_item_count \in Nat /\ Whole \in Nat /\ DOMAIN row = Parser!Names
  BY DEF StoreInv, TextInv, ReadInv
<1>4. data_item_count' = data_item_count  BY <1>2 DEF Parser!store
<1>5. DOMAIN row' = Parser!Names  BY <1>1, <1>3
<1> HIDE DEF colon, end, text
<1>6. data_item_count < Whole => PlaceInv'
  <2> SUFFICES ASSUME data_item_count < Whole PROVE PlaceInv'  OBVIOUS
  <2>1. /\ c \in 0..4 /\ SameUpTo(c, row, points[data_item_count + 1]) /\ c < 4
        /\ found_item = name /\ pos = p
    BY <1>1 DEF ReadInv, PlaceInv
  <2>2. c \in 0..3  BY <2>1
  <2>3. /\ NextColon(p) = p /\ t[p + 1] = Printed(v) /\ v \in Int
        /\ c < 3 => NextComma(p + 1) = p + 2
        /\ c = 3 /\ p + 2 <= Len(t) => NextClose(p + 1) = p + 2
        /\ c = 3 /\ p + 2 > Len(t) => p + 1 = Len(t) /\ NextClose(p + 1) = 0
    BY <2>2, NextRowIsWhole, ValueScans
  <2>4. /\ b \in Nat /\ b + 27 <= Len(t) /\ Len(t) \in Nat /\ t \in Seq(Tokens)
        /\ data_item_count + 1 < Whole => b + 57 <= Len(t)
    BY NextRowIsWhole DEF DocumentOf
  <2>5. a \in 0..21 /\ (c < 3 => a <= 14) /\ (c = 3 => a = 21)  BY <2>2
  <2> HIDE DEF a, b, t
  <2>6. p \in Nat \ {0} /\ p + 1 \in 1..Len(t) /\ (c = 3 => p = b + 26)  BY <2>4, <2>5
  <2>7. c = 3 => (p + 2 <= Len(t) \/ p + 2 > Len(t))  BY <2>4, <2>6
  <2> HIDE DEF p, v
  <2>8. colon = p  BY <2>1, <2>3 DEF colon
  <2>9. \/ end = p + 2
        \/ end = 0 /\ c = 3 /\ p + 1 = Len(t)
    BY <2>2, <2>3, <2>7, <2>8 DEF end
  <2>10. text = <<Printed(v)>>
    <3>1. text = SubSeq(t, p + 1, p + 1)
      <4>1. text = SubSeq(t, p + 1, IF end = 0 THEN Len(t) ELSE end - 1)
        BY <2>8 DEF text, Parser!extract_until, Parser!text, Parser!None, t
      <4>2. (IF end = 0 THEN Len(t) ELSE end - 1) = p + 1  BY <2>6, <2>9
      <4> QED  BY <4>1, <4>2
    <3>2. SubSeq(t, p + 1, p + 1) = <<t[p + 1]>>  BY <2>4, <2>6, OneToken
    <3> QED  BY <2>3, <3>1, <3>2
  <2>11. row' = [row EXCEPT ![name] = v]
    <3>1. Parser!Scanned(text) = {v}  BY <2>3, <2>10, ScannedIs
    <3> QED  BY <1>1, <2>1, <3>1
  <2>12. SameUpTo(c + 1, row', points[data_item_count + 1])
    <3> DEFINE q == points[data_item_count + 1]
    <3>1. v = q[name]  BY DEF v
    <3> HIDE DEF q, v
    <3> SUFFICES ASSUME NEW k \in 1..c + 1 PROVE row'[Coordinates[k]] = q[Coordinates[k]]
      BY DEF SameUpTo, q
    <3>2. k \in 1..4 /\ (k \in 1..c \/ k = c + 1)  BY <2>2
    <3>3. Coordinates[k] \in Parser!Names
      <4>1. k = 1 \/ k = 2 \/ k = 3 \/ k = 4  BY <3>2
      <4> QED  BY <4>1 DEF Coordinates, Parser!Names
    <3>4. CASE k = c + 1  BY <1>3, <2>11, <3>1, <3>3, <3>4
    <3>5. CASE k \in 1..c
      <4>1. row[Coordinates[k]] = q[Coordinates[k]]  BY <2>1, <3>5 DEF SameUpTo, q
      <4>2. Coordinates[k] # name
        <5>1. k < c + 1 /\ c + 1 \in 1..4  BY <2>2, <3>5
        <5>2. \A i, j \in 1..4 : i < j => Coordinates[i] # Coordinates[j]
          <6> SUFFICES ASSUME NEW i \in 1..4, NEW j \in 1..4, i < j
                       PROVE  Coordinates[i] # Coordinates[j]
            OBVIOUS
          <6>1. /\ i = 1 \/ i = 2 \/ i = 3
                /\ j = 2 \/ j = 3 \/ j = 4
                /\ i # j
            OBVIOUS
          <6> QED  BY <6>1 DEF Coordinates
        <5> QED  BY <3>2, <5>1, <5>2
      <4> HIDE DEF name
      <4> QED  BY <1>3, <2>11, <3>3, <4>1, <4>2
    <3> QED  BY <3>2, <3>4, <3>5
  <2>13. \/ pos' = Base(data_item_count) + 7 * (c + 1) + 1
         \/ c + 1 = 4 /\ data_item_count + 1 = Whole
    <3>1. CASE end = p + 2
      <4>1. pos' = p + 2 + 1  BY <1>1, <2>6, <3>1 DEF Parser!Behind, Parser!None
      <4>2. p + 2 + 1 = b + a + 8  BY <2>4, <2>5 DEF p
      <4>3. a + 8 = 7 * (c + 1) + 1  BY <2>2 DEF a
      <4>4. b + a + 8 = b + (a + 8) /\ b + 7 * (c + 1) + 1 = b + (7 * (c + 1) + 1)
        BY <2>2, <2>4, <2>5
      <4> QED  BY <4>1, <4>2, <4>3, <4>4 DEF b
    <3>2. CASE c = 3 /\ p + 1 = Len(t)
      <4>1. ~(b + 57 <= Len(t))  BY <2>4, <2>6, <3>2
      <4>2. ~(data_item_count + 1 < Whole)  BY <2>4, <4>1
      <4> QED  BY <1>3, <3>2, <4>2
    <3> QED  BY <2>9, <3>1, <3>2
  <2>14. /\ item_count' \in 0..4 /\ item_count' > 0 /\ item_count' = c + 1
    BY <1>2, <2>2
  <2>15. SameUpTo(item_count', row', points'[data_item_count' + 1])
    BY <1>4, <2>12, <2>14
  <2>16. \/ item_count' > 0 /\ pos' = Base(data_item_count') + 7 * item_count' + 1
         \/ item_count' = 4 /\ data_item_count' + 1 = Whole'
    <3>1. Whole' = Whole  BY <1>2 DEF Whole
    <3> QED  BY <1>4, <2>13, <2>14, <3>1
  <2> QED  BY <1>2, <2>14, <2>15, <2>16 DEF PlaceInv
<1> QED  BY <1>2, <1>3, <1>5, <1>6, ReadKeeps

\* A row that is whole does not run out, and is kept with what was read.
LEMMA ReadRowEnd ==
    ASSUME GeneratorInv, FileInv, TextInv, StoreInv, ReadInv, stage = "parser",
           UNCHANGED <<stage, points>>, Parser!BreakRow \/ Parser!CompleteRow
    PROVE  ReadInv'
<1>1. /\ phase' = "row_end"
      /\ UNCHANGED <<document, preallocate, row, item_count, Parser!store>>
  BY Zenon DEF Parser!BreakRow, Parser!CompleteRow, Parser!input, Parser!scanner
<1>2. data_item_count \in Nat /\ Whole \in Nat /\ DOMAIN row = Parser!Names
  BY DEF StoreInv, TextInv, ReadInv
<1>3. data_item_count' = data_item_count /\ Whole' = Whole  BY <1>1 DEF Parser!store, Whole
<1>4. data_item_count < Whole => PlaceInv'
  <2> SUFFICES ASSUME data_item_count < Whole PROVE PlaceInv'  OBVIOUS
  <2> DEFINE c == item_count
             b == Base(data_item_count)
  <2>1. b \in Nat  BY NextRowIsWhole
  <2>2. ~Parser!BreakRow
    <3>1. SUFFICES ASSUME Parser!RunsOut PROVE FALSE  BY Zenon DEF Parser!BreakRow
    <3>2. CASE phase = "items" /\ c < 4 /\ NextQuote(pos) = 0
      <4>1. /\ c \in 0..4
            /\ \/ c = 0 /\ pos = b + 2
               \/ c > 0 /\ pos = b + 7 * c + 1
               \/ c = 4
        BY <3>2 DEF ReadInv, PlaceInv
      <4>2. c \in 0..3 /\ (pos = b + 7 * c + 2 \/ (c > 0 /\ pos = b + 7 * c + 1))
        <5> HIDE DEF b
        <5> QED  BY <2>1, <3>2, <4>1
      <4>3. NextQuote(pos) = b + 7 * c + 2  BY <4>2, NextRowIsWhole, NameScans
      <4> HIDE DEF b
      <4> QED  BY <2>1, <3>2, <4>2, <4>3
    <3>3. CASE phase = "value" /\ NextColon(pos) = 0
      <4>1. c \in 0..3 /\ pos = b + 7 * c + 5  BY <3>3 DEF ReadInv, PlaceInv
      <4>2. NextColon(pos) = b + 7 * c + 5  BY <4>1, NextRowIsWhole, ValueScans
      <4> HIDE DEF b
      <4> QED  BY <2>1, <3>3, <4>1, <4>2
    <3> QED
      BY <3>1, <3>2, <3>3, Zenon
      DEF Parser!RunsOut, Parser!InRow, Parser!NameStart, Parser!Colon, Parser!None, NextQuote,
          NextColon
  <2>3. phase = "items" /\ c = 4 /\ pos' = pos
    BY <2>2 DEF Parser!CompleteRow, Parser!scanner
  <2>4. /\ SameUpTo(4, row, points[data_item_count + 1])
        /\ pos = b + 7 * 4 + 1 \/ data_item_count + 1 = Whole
    BY <2>3 DEF ReadInv, PlaceInv
  <2>5. data_item_count + 1 < Whole => pos = b + 29  BY <1>2, <2>1, <2>4
  <2> QED  BY <1>1, <1>3, <2>3, <2>4, <2>5 DEF PlaceInv
<1> QED  BY <1>1, <1>2, <1>4, ReadKeeps

\* A row that was read from a whole one is kept at its place.
LEMMA ReadStore ==
    ASSUME GeneratorInv, FileInv, TextInv, StoreInv, ReadInv, stage = "parser",
           UNCHANGED <<stage, points>>, Parser!StoreInArray \/ Parser!StoreInList
    PROVE  ReadInv'
<1> DEFINE d == data_item_count
<1>1. phase = "row_end" /\ phase' = "rows" /\ UNCHANGED <<document, pos, row>>
  BY DEF Parser!StoreInArray, Parser!StoreInList, Parser!Complete, Parser!input, Parser!scanner
<1>2. RowIsKept  BY StoreArrayStep, StoreListStep
<1>3. d \in Nat /\ Whole \in Nat /\ Whole' = Whole /\ DOMAIN row' = Parser!Names
  BY <1>1 DEF StoreInv, TextInv, ReadInv, Whole
<1>4. /\ d < Whole => /\ SameUpTo(4, row, points[d + 1])
                      /\ d + 1 < Whole => pos = Base(d) + 29
      /\ \A k \in 1..d : k <= Whole => SameUpTo(4, Kept(k), points[k])
  BY <1>1 DEF ReadInv, PlaceInv
<1>5. d' = d + 1 /\ \A k \in 1..d + 1 : Kept(k)' = IF k = d + 1 THEN row ELSE Kept(k)
  BY <1>2 DEF RowIsKept
<1> HIDE DEF d
<1>6. d' < Whole' => PlaceInv'
  <2> SUFFICES ASSUME d' < Whole' PROVE PlaceInv'  OBVIOUS
  <2>1. d < Whole /\ d + 1 < Whole /\ d + 1 # 0  BY <1>3, <1>5
  <2>2. pos' = Base(d) + 29  BY <1>1, <1>4, <2>1
  <2>3. Base(d) + 29 = Base(d + 1) - 1  BY <1>3 DEF Base
  <2>4. pos' = IF d' = 0 THEN 11 ELSE Base(d') - 1  BY <1>5, <2>1, <2>2, <2>3
  <2> QED  BY <1>1, <2>4 DEF PlaceInv, d
<1>7. ASSUME NEW k \in 1..d', k <= Whole' PROVE SameUpTo(4, Kept(k)', points'[k])
  <2>1. k \in 1..d + 1 /\ k <= Whole  BY <1>3, <1>5, <1>7
  <2>2. CASE k = d + 1
    <3>1. d < Whole  BY <1>3, <2>1, <2>2
    <3> QED  BY <1>4, <1>5, <2>1, <2>2, <3>1
  <2>3. CASE k # d + 1
    <3>1. k \in 1..d  BY <1>3, <2>1, <2>3
    <3> QED  BY <1>4, <1>5, <2>1, <2>3, <3>1
  <2> QED  BY <2>2, <2>3
<1>8. \A k \in 1..d' : k <= Whole' => SameUpTo(4, Kept(k), points[k])'
  BY <1>7 DEF SameUpTo
<1> QED  BY <1>1, <1>3, <1>6, <1>8 DEF ReadInv, HeaderInv, d

\* What is left of the parser: the file is opened, a row is refused, the points are summed.
LEMMA ReadRest ==
    ASSUME TextInv, StoreInv, ReadInv, stage = "parser", UNCHANGED <<stage, points>>,
           \/ Parser!ReadFile \/ Parser!ReadFails
           \/ Parser!RejectName \/ Parser!RejectValue \/ Parser!RejectRow
           \/ Parser!CrashInArray \/ Parser!OutOfMemory
           \/ Parser!StartAverage \/ Parser!SumArray \/ Parser!SumList \/ Parser!Finish
    PROVE  ReadInv'
<1>1. data_item_count \in Nat /\ Whole \in Nat /\ DOMAIN row = Parser!Names
  BY DEF StoreInv, TextInv, ReadInv
<1>2. CASE Parser!ReadFile
  <2>1. /\ phase = "start" /\ phase' = "header"
        /\ UNCHANGED <<document, preallocate, Parser!scanner, Parser!store>>
    BY <1>2 DEF Parser!ReadFile, Parser!input
  <2>2. /\ Whole' = Whole /\ data_item_count' = data_item_count /\ row' = row
        /\ \A k : Kept(k)' = Kept(k)
    BY <2>1 DEF Whole, Kept, Parser!store, Parser!scanner
  <2>3. HeaderInv'  BY <2>1 DEF ReadInv, HeaderInv, Parser!scanner
  <2>4. PlaceInv'  BY <2>1 DEF PlaceInv
  <2> QED  BY <1>1, <2>1, <2>2, <2>3, <2>4 DEF ReadInv
<1>3. CASE \/ Parser!ReadFails \/ Parser!RejectName \/ Parser!RejectValue \/ Parser!RejectRow
           \/ Parser!CrashInArray \/ Parser!OutOfMemory
  <2>1. /\ phase' \in {"error", "crashed"}
        /\ UNCHANGED <<document, preallocate, row, Parser!store>>
    BY <1>3, Zenon
    DEF Parser!ReadFails, Parser!RejectName, Parser!RejectValue, Parser!RejectRow,
        Parser!CrashInArray, Parser!OutOfMemory, Parser!input, Parser!scanner
  <2>2. PlaceInv'  BY <2>1 DEF PlaceInv
  <2> QED  BY <1>1, <2>1, <2>2, ReadKeeps
<1>4. CASE Parser!StartAverage \/ Parser!SumArray \/ Parser!SumList \/ Parser!Finish
  <2>1. /\ phase \in {"parsed", "sum"} /\ phase' \in {"sum", "done", "error"}
        /\ UNCHANGED <<document, preallocate, row, Parser!store>>
    BY <1>4
    DEF Parser!StartAverage, Parser!SumArray, Parser!SumList, Parser!Finish, Parser!input,
        Parser!scanner
  <2>2. ~(data_item_count < Whole)  BY <1>1, <2>1 DEF ReadInv
  <2> QED  BY <1>1, <2>1, <2>2, ReadKeeps
<1> QED  BY <1>2, <1>3, <1>4

LEMMA ReadNext ==
    GeneratorInv /\ FileInv /\ FitInv /\ TextInv /\ StoreInv /\ ReadInv /\ [Next]_vars => ReadInv'
<1> SUFFICES ASSUME GeneratorInv, FileInv, FitInv, TextInv, StoreInv, ReadInv, [Next]_vars
             PROVE  ReadInv'
  OBVIOUS
<1>1. CASE GeneratorStep \/ StartReader \/ ReaderStep
  <2>1. stage' # "parser" /\ UNCHANGED parser_rest
    BY <1>1 DEF GeneratorStep, StartReader, ReaderStep
  <2> QED  BY <2>1 DEF ReadInv, HeaderInv, parser_rest
<1>2. CASE StartParser
  <2>1. stage = "reader" /\ UNCHANGED parser_rest  BY <1>2 DEF StartParser
  <2>2. phase' = "start" /\ data_item_count' = 0  BY <2>1 DEF FileInv, FitInv, parser_rest
  <2>3. HeaderInv' /\ DOMAIN row' = Parser!Names
    BY <2>1 DEF ReadInv, HeaderInv, parser_rest
  <2>4. PlaceInv'  BY <2>2 DEF PlaceInv
  <2>5. 1..0 = {}  OBVIOUS
  <2> QED  BY <2>2, <2>3, <2>4, <2>5 DEF ReadInv
<1>3. CASE ParserStep
  <2>1. stage = "parser" /\ UNCHANGED <<stage, points>> /\ Parser!Run
    BY <1>3 DEF ParserStep, gen_vars, gen_data
  <2>2. CASE \/ Parser!ReadFile \/ Parser!ReadFails
             \/ Parser!RejectName \/ Parser!RejectValue \/ Parser!RejectRow
             \/ Parser!CrashInArray \/ Parser!OutOfMemory
             \/ Parser!StartAverage \/ Parser!SumArray \/ Parser!SumList \/ Parser!Finish
    BY <2>1, <2>2, ReadRest
  <2>3. CASE Parser!FindHeader  BY <2>1, <2>3, ReadHeader
  <2>4. CASE Parser!StartRow  BY <2>1, <2>4, ReadStartsRow
  <2>5. CASE Parser!EndRows  BY <2>1, <2>5, ReadEndsRows
  <2>6. CASE Parser!ParseName  BY <2>1, <2>6, ReadName
  <2>7. CASE Parser!ParseValue  BY <2>1, <2>7, ReadValue
  <2>8. CASE Parser!BreakRow \/ Parser!CompleteRow  BY <2>1, <2>8, ReadRowEnd
  <2>9. CASE Parser!StoreInArray \/ Parser!StoreInList  BY <2>1, <2>9, ReadStore
  <2> QED
    BY <2>1, <2>2, <2>3, <2>4, <2>5, <2>6, <2>7, <2>8, <2>9, Zenon DEF Parser!Run
<1>4. CASE UNCHANGED vars
  <2>1. UNCHANGED <<stage, points, document, parser_rest>>
    BY <1>4 DEF vars, gen_vars, gen_data, parser_input
  <2>2. UNCHANGED <<phase, pos, matched, row, item_count, found_item, data_item_count,
                    preallocate, data_array, heap>>
    BY <2>1 DEF parser_rest
  <2>3. /\ Whole' = Whole /\ \A k : Kept(k)' = Kept(k)
        /\ PlaceInv' <=> PlaceInv
        /\ HeaderInv' <=> HeaderInv
    BY <2>1, <2>2 DEF Whole, Kept, PlaceInv, HeaderInv, SameUpTo
  <2> QED  BY <2>1, <2>2, <2>3 DEF ReadInv
<1> QED  BY <1>1, <1>2, <1>3, <1>4 DEF Next, End

-----------------------------------------------------------------------------
(* The points survive.                                                     *)

\* Points of the same coordinates are as far apart.
LEMMA SamePoints ==
    ASSUME NEW p, NEW q, SameUpTo(4, p, q)
    PROVE  (\A n \in Parser!Names : p[n] = q[n]) /\ Distance(p) = Distance(q)
<1>1. 1 \in 1..4 /\ 2 \in 1..4 /\ 3 \in 1..4 /\ 4 \in 1..4  OBVIOUS
<1>2. p.x0 = q.x0 /\ p.y0 = q.y0 /\ p.x1 = q.x1 /\ p.y1 = q.y1
  BY <1>1 DEF SameUpTo, Coordinates
<1> QED  BY <1>2 DEF Parser!Names, Distance

\* The sums of points of the same distances are the same.
LEMMA SameTotal ==
    ASSUME HaversineIsNumber, points \in Seq(Point), NEW ps, Len(ps) = Len(points),
           \A k \in 1..Len(points) : Distance(ps[k]) = Distance(points[k])
    PROVE  Total(ps) = Total(points)
<1>1. Len(ps) \in Nat /\ Len(points) \in Nat /\ Len(ps) <= Len(points)  BY LenProperties
<1>2. \A k \in 1..Len(points) : Distance(points[k]) \in Int  BY DistanceType, ElementOfSeq
<1>3. \A k \in 1..Len(ps) : Distance(ps[k]) = Distance(points[k])  OBVIOUS
<1> QED  BY <1>1, <1>2, <1>3, TotalOfFirst

LEMMA ReaderAgrees ==
    ASSUME PipelineTypeInv, ReaderInv, reader_status = "done", binary_pos = 5 * Len(points)
    PROVE  calc_sum = sum
<1>1. HaversineIsNumber /\ points \in Seq(Point)
  BY DEF PipelineTypeInv, GeneratorInv, GenTypeOK, Point
<1>2. fields \in Seq(Int) /\ rows_read \in Seq(Seq(Int))  BY DEF PipelineTypeInv, TypeOK
<1> DEFINE m == Len(rows_read)
           n == Len(points)
           f == Len(fields)
<1>3. m \in Nat /\ n \in Nat /\ f \in Nat  BY <1>1, <1>2, LenProperties
<1>4. 5 * n = 5 * m + f /\ f < 5  BY DEF ReaderInv
<1>5. calc_sum = Total(SubSeq(points, 1, m)) /\ sum = Total(points)  BY DEF ReaderInv
<1> HIDE DEF m, n, f
<1>6. m = n  BY <1>3, <1>4
<1>7. m \in 0..Len(points)  BY <1>3, <1>6 DEF n
<1> QED  BY <1>1, <1>5, <1>6, <1>7, FirstPoints DEF n

LEMMA PointsSurviveHolds ==
    ASSUME PipelineTypeInv, FileInv, FitInv, TextInv, StoreInv, SumInv, ReadInv, ReaderInv
    PROVE  PointsSurvive
<1> DEFINE s == Len(summed)
           d == data_item_count
           n == Len(points)
<1>1. HaversineIsNumber /\ points \in Seq(Point) /\ n \in Nat
  BY LenProperties DEF PipelineTypeInv, GeneratorInv, GenTypeOK, Point
<1>2. \E D : summed \in Seq(D)  BY DEF SumInv
<1>3. s \in Nat /\ d \in Nat /\ s <= d /\ DOMAIN summed = 1..s
  BY <1>2, LenProperties DEF SumInv, StoreInv
<1>4. stage # "parser" => phase = "start" /\ s = 0
  <2>1. stage # "parser" => phase = "start"  BY DEF FileInv
  <2>2. phase = "start" => summed = <<>>  BY DEF SumInv
  <2> QED  BY <2>1, <2>2, EmptySeq
<1>5. ASSUME NEW k \in 1..s, k <= Whole PROVE SameUpTo(4, summed[k], points[k])
  <2>1. stage = "parser"  BY <1>4
  <2>2. k \in 1..d  BY <1>3
  <2>3. summed[k] = Kept(k)  BY DEF SumInv
  <2> QED  BY <1>5, <2>1, <2>2, <2>3 DEF ReadInv
<1>6. reader_status = "error" => binary_pos = 0  BY DEF ReaderInv
<1>7. Len(rows_read) <= Len(points)  BY DEF ReaderInv
<1>8. \A k \in DOMAIN rows_read : rows_read[k] = BinaryRow(points[k])
  <2>1. rows_read \in Seq(Seq(Int))  BY DEF PipelineTypeInv, TypeOK
  <2>2. DOMAIN rows_read = 1..Len(rows_read)  BY <2>1, LenProperties
  <2> QED  BY <2>2 DEF ReaderInv
<1>9. \A k \in DOMAIN summed :
         k <= Len(document.points) => \A name \in Parser!Names : summed[k][name] = points[k][name]
  BY <1>3, <1>5, SamePoints DEF Whole
<1>10. phase = "done" => stage = "parser" /\ s = d /\ d >= Whole /\ Whole \in Nat
  BY <1>4 DEF ReadInv, SumInv, TextInv
<1>11. ASSUME phase = "done", ~document.cut PROVE Total(summed) = sum
  <2>1. stage = "parser" /\ s = d /\ d >= Whole /\ Whole \in Nat  BY <1>10, <1>11
  <2>2. n # 0 /\ Len(document.text) = 30 * n + 13  BY <1>11, <2>1 DEF FileInv, DocumentOf
  <2>3. Whole <= n /\ \A k \in 1..n : k <= Whole <=> 30 * k + 8 <= Len(document.text)
    BY <2>1 DEF TextInv
  <2>4. d <= n  BY <1>11 DEF FitInv, Started
  <2> HIDE DEF s, d, n
  <2>5. s = n /\ Whole = n
    <3>1. n \in 1..n /\ 30 * n + 8 <= 30 * n + 13  BY <1>1, <2>2
    <3>2. n <= Whole  BY <2>2, <2>3, <3>1
    <3> QED  BY <1>1, <1>3, <2>1, <2>3, <2>4, <3>2
  <2>6. \A k \in 1..n : Distance(summed[k]) = Distance(points[k])
    <3> SUFFICES ASSUME NEW k \in 1..n PROVE Distance(summed[k]) = Distance(points[k])
      OBVIOUS
    <3>1. k \in 1..s /\ k <= Whole  BY <1>1, <2>5
    <3> QED  BY <1>5, <3>1, SamePoints
  <2>7. Total(summed) = Total(points)  BY <1>1, <2>5, <2>6, SameTotal DEF s, n
  <2> QED  BY <2>7 DEF ReaderInv
<1>12. reader_status = "done" /\ binary_pos = 5 * Len(points) => calc_sum = sum
  BY ReaderAgrees
<1> QED  BY <1>6, <1>7, <1>8, <1>9, <1>10, <1>11, <1>12 DEF PointsSurvive, Whole, s

\* The points that are drawn are the points that are averaged, however many they are and
\* whatever is lost of the two files: the reader never refuses a row that the generator
\* wrote and reads each at its place, the parser keeps and sums the points of the rows
\* that the file has whole, in their order, in the array or in the list, and each of
\* them gets the generator's sum when nothing was lost (main of data_gen.c and of
\* bindata_reader.c, parse_file, calculate_haversine_average).
THEOREM GeneratedPointsSurvive == HaversineIsNumber /\ Spec => []PointsSurvive
<1> DEFINE Inv == /\ PipelineTypeInv /\ FileInv /\ FitInv /\ ReaderInv
                  /\ StoreInv /\ SumInv /\ TextInv /\ ReadInv
<1>1. HaversineIsNumber /\ Init => Inv
  BY PipelineTypeInit, FileInvInit, ReaderInvInit, StoreInvInit, ReadInvInit
<1>2. Inv /\ [Next]_vars => Inv'
  <2> SUFFICES ASSUME Inv, [Next]_vars PROVE Inv'  OBVIOUS
  <2>1. GeneratorInv  BY DEF PipelineTypeInv
  <2>2. PipelineTypeInv'  BY PipelineTypeNext
  <2>3. FileInv' /\ FitInv'  BY <2>1, FitNext
  <2>4. ReaderInv'  BY ReaderInvNext
  <2>5. StoreInv' /\ SumInv'  BY StoreNext
  <2>6. TextInv'  BY <2>1, TextNext
  <2>7. ReadInv'  BY <2>1, ReadNext
  <2> QED  BY <2>2, <2>3, <2>4, <2>5, <2>6, <2>7
<1>3. Inv => PointsSurvive  BY PointsSurviveHolds
<1> HIDE DEF Inv
<1> QED  BY <1>1, <1>2, <1>3, PTL DEF Spec
===============================================================================
