--------------------------- MODULE HistoryFetchProofs ---------------------------
(***************************************************************************)
(* Proofs about the coverage of a model and the pages of a history step:   *)
(* what the range arithmetic computes, for ranges of any number and        *)
(* length; that the coverage is exact; and that a fetch commits its range  *)
(* in order, without a gap and without a height twice.                     *)
(***************************************************************************)
EXTENDS HistoryFetch, SharedLemmas

-----------------------------------------------------------------------------
(* The range arithmetic. *)

BlockRange == {r \in Nat \X Nat : r[1] <= r[2]}

(* A stable sort has the same ranges, by their first heights. *)
LEMMA InOrderSorted ==
  ASSUME NEW ranges \in Seq(BlockRange), NEW s, s = InOrder(ranges)
  PROVE  /\ s \in Seq(BlockRange) /\ Len(s) = Len(ranges)
         /\ \A i, j \in DOMAIN s : i < j => s[i][1] <= s[j][1]
         /\ \A i \in DOMAIN s : \E j \in DOMAIN ranges : s[i] = ranges[j]
         /\ \A j \in DOMAIN ranges : \E i \in DOMAIN s : s[i] = ranges[j]
<1> DEFINE N == Len(ranges)
           D == DOMAIN ranges
           Before(i, j) == ranges[i][1] < ranges[j][1] \/ (ranges[i][1] = ranges[j][1] /\ i < j)
           A(j) == {i \in D : Before(i, j)}
           place == [j \in D |-> Cardinality(A(j))]
           order == SortedBy(D, place)
<1>1. N \in Nat /\ D = 1..N /\ \A i \in D : ranges[i][1] \in Nat
  BY DEF BlockRange
<1>2. IsFiniteSet(D) /\ Cardinality(D) = N
  <2>1. IsFiniteSet(1..N) /\ Cardinality(1..N) = IF 1 > N THEN 0 ELSE N - 1 + 1
    BY ONLY <1>1, FS_Interval
  <2> QED
    BY <1>1, <2>1
<1>3. ASSUME NEW j \in D
      PROVE  IsFiniteSet(A(j)) /\ Cardinality(A(j)) \in Nat
  <2>1. A(j) \in SUBSET D
    OBVIOUS
  <2> HIDE DEF D, A
  <2> QED
    BY <1>2, <2>1, FS_Subset, FS_CardinalityType
<1>4. ASSUME NEW i \in D, NEW j \in D, Before(i, j)
      PROVE  place[i] < place[j]
  <2>1. A(i) \in SUBSET A(j) /\ i \in A(j) /\ i \notin A(i)
    BY <1>1, <1>4
  <2>2. A(i) # A(j)
    BY <2>1
  <2>3. Cardinality(A(i)) <= Cardinality(A(j)) /\ Cardinality(A(i)) # Cardinality(A(j))
    <3>1. IsFiniteSet(A(j))
      BY <1>3
    <3> HIDE DEF A, D
    <3> QED
      BY <2>1, <2>2, <3>1, FS_Subset
  <2>4. Cardinality(A(i)) \in Nat /\ Cardinality(A(j)) \in Nat
    BY <1>3
  <2> HIDE DEF A
  <2> QED
    BY <2>3, <2>4
<1>5. \A i, j \in D : i # j => Before(i, j) \/ Before(j, i)
  BY <1>1
<1>6. \A j \in D : place[j] \in Nat
  BY <1>3
<1> HIDE DEF A
<1>7. \A i, j \in D : place[i] = place[j] => i = j
  <2> HIDE DEF Before, place
  <2> QED
    BY <1>4, <1>5, <1>6
<1>8. /\ order \in Seq(D) /\ Len(order) = N
      /\ \A c \in D : \E i \in 1..N : order[i] = c
      /\ \A i, j \in 1..N : i < j => place[order[i]] < place[order[j]]
  <2> HIDE DEF place, D
  <2> QED
    BY <1>2, <1>6, <1>7, Sorted
<1>9. s = [k \in D |-> ranges[order[k]]]
  BY DEF InOrder, A
<1> HIDE DEF place, order, Before
<1>10. \A k \in 1..N : order[k] \in D /\ s[k] = ranges[order[k]]
  BY <1>1, <1>8, <1>9
<1>11. DOMAIN s = 1..N /\ s \in Seq(BlockRange) /\ Len(s) = N
  <2>1. s \in [1..N -> BlockRange]
    BY <1>1, <1>9, <1>10
  <2> HIDE DEF N
  <2> QED
    BY <1>1, <2>1
<1>12. ASSUME NEW i \in 1..N, NEW j \in 1..N, i < j
       PROVE  s[i][1] <= s[j][1]
  <2> DEFINE p == order[i]
             q == order[j]
  <2>1. p \in D /\ q \in D /\ place[p] < place[q]
    BY <1>8, <1>10, <1>12
  <2>2. s[i] = ranges[p] /\ s[j] = ranges[q]
    BY <1>10
  <2> HIDE DEF p, q
  <2>3. ~ Before(q, p)
    BY <1>4, <1>6, <2>1
  <2> QED
    BY <1>1, <2>1, <2>2, <2>3 DEF Before
<1>13. ASSUME NEW j \in D
       PROVE  \E i \in 1..N : s[i] = ranges[j]
  <2>1. PICK i \in 1..N : order[i] = j
    BY <1>8
  <2>2. s[i] = ranges[j]
    BY <1>10, <2>1
  <2> QED
    BY <2>2
<1> QED
  BY <1>10, <1>11, <1>12, <1>13

(* The function that Merging stands for. *)
LEMMA MergingStep ==
  ASSUME NEW s \in Seq(BlockRange), NEW M, M = Merging(s)
  PROVE  \A n \in 0..Len(s) : M[n] = IF n = 0 THEN <<>> ELSE MergeRange(M[n - 1], s[n])
<1> DEFINE N == Len(s)
           S == Seq(BlockRange)
           G == [n \in 1..N |-> [result \in S |-> MergeRange(result, s[n])]]
           Solves(f) == f = [n \in 0..N |-> IF n = 0 THEN <<>> ELSE MergeRange(f[n - 1], s[n])]
<1>1. ASSUME NEW result \in S, NEW r \in BlockRange
      PROVE  MergeRange(result, r) \in S
  <2>1. CASE result # <<>> /\ Extends(Last(result), r)
    <3> DEFINE q == <<result[Len(result)][1], Greater(result[Len(result)][2], r[2])>>
    <3>1. Len(result) \in DOMAIN result
      BY <2>1
    <3>2. result[Len(result)] \in BlockRange
      BY <3>1
    <3>3. q \in BlockRange
      BY <3>2 DEF BlockRange, Greater
    <3>4. MergeRange(result, r) = [result EXCEPT ![Len(result)] = q]
      BY <2>1, <3>1 DEF MergeRange
    <3> HIDE DEF q
    <3> QED
      BY <3>1, <3>3, <3>4
  <2>2. CASE ~(result # <<>> /\ Extends(Last(result), r))
    BY <2>2 DEF MergeRange
  <2> QED
    BY <2>1, <2>2
<1>2. N \in Nat /\ <<>> \in S /\ \A n \in 1..N : s[n] \in BlockRange
  OBVIOUS
<1>3. Steps(G, N, S)
  BY <1>1, <1>2 DEF Steps
<1>4. PICK g : Solution(g, N, S, <<>>, G)
  <2>1. N \in Nat
    BY <1>2
  <2>2. <<>> \in S
    BY <1>2
  <2> HIDE DEF N, S, G
  <2> QED
    BY <2>1, <2>2, <1>3, Recursion
<1> USE DEF Solution
<1>5. \A n \in 1..N : G[n][g[n - 1]] = MergeRange(g[n - 1], s[n])
  <2> SUFFICES ASSUME NEW n \in 1..N
               PROVE  G[n][g[n - 1]] = MergeRange(g[n - 1], s[n])
    OBVIOUS
  <2>1. n - 1 \in 0..N
    BY <1>2
  <2>2. g[n - 1] \in S
    BY <1>4, <2>1
  <2> QED
    BY <2>2
<1>6. Solves(g)
  <2> DEFINE h == [n \in 0..N |-> IF n = 0 THEN <<>> ELSE MergeRange(g[n - 1], s[n])]
  <2>1. \A n \in 0..N : n # 0 => n \in 1..N
    BY <1>2
  <2> HIDE DEF G, S, N
  <2>2. \A n \in 0..N : g[n] = IF n = 0 THEN <<>> ELSE MergeRange(g[n - 1], s[n])
    BY <1>4, <1>5, <2>1
  <2>3. g = [n \in 0..N |-> g[n]] /\ [n \in 0..N |-> g[n]] = h
    BY <1>4, <2>2
  <2> QED
    BY <2>3
<1>7. M = CHOOSE f : Solves(f)
  BY DEF Merging
<1> HIDE DEF Solves
<1>8. Solves(M)
  BY <1>6, <1>7
<1> QED
  BY <1>8 DEF Solves

(* A height of ranges is one between the ends of a range. *)
Has(ranges, h) == \E i \in DOMAIN ranges : ranges[i][1] <= h /\ h <= ranges[i][2]

LEMMA CoveredHas ==
  ASSUME NEW ranges \in Seq(BlockRange)
  PROVE  Covered(ranges) = {h \in Nat : Has(ranges, h)}
<1>1. \A i \in DOMAIN ranges : ranges[i][1] \in Nat /\ ranges[i][2] \in Nat
  BY DEF BlockRange
<1>2. ASSUME NEW h \in Covered(ranges)
      PROVE  h \in Nat /\ Has(ranges, h)
  <2>1. PICK i \in DOMAIN ranges : h \in ranges[i][1]..ranges[i][2]
    BY DEF Covered, HeightsOf
  <2> QED
    BY <1>1, <2>1 DEF Has
<1>3. ASSUME NEW h \in Nat, Has(ranges, h)
      PROVE  h \in Covered(ranges)
  <2>1. PICK i \in DOMAIN ranges : ranges[i][1] <= h /\ h <= ranges[i][2]
    BY <1>3 DEF Has
  <2>2. h \in HeightsOf(ranges[i])
    BY <1>1, <2>1 DEF HeightsOf
  <2> QED
    BY <2>2 DEF Covered
<1> QED
  BY <1>2, <1>3

(* One range more, which begins no earlier than the last. *)
LEMMA MergeOne ==
  ASSUME NEW q \in Seq(BlockRange), Canonical(q), NEW r \in BlockRange,
         q # <<>> => q[Len(q)][1] <= r[1], NEW t, t = MergeRange(q, r)
  PROVE  /\ t \in Seq(BlockRange) /\ Canonical(t) /\ t # <<>>
         /\ t[Len(t)][1] <= r[1]
         /\ \A h \in Nat : Has(t, h) <=> Has(q, h) \/ (r[1] <= h /\ h <= r[2])
<1> DEFINE n == Len(q)
<1>1. n \in Nat /\ DOMAIN q = 1..n
  OBVIOUS
<1>2. r[1] \in Nat /\ r[2] \in Nat /\ r[1] <= r[2]
  BY DEF BlockRange
<1>3. \A i \in 1..n : q[i][1] \in Nat /\ q[i][2] \in Nat /\ q[i][1] <= q[i][2]
  BY <1>1 DEF BlockRange
<1>4. \A i, j \in 1..n : i < j => q[i][2] + 1 < q[j][1]
  BY <1>1 DEF Canonical
<1>5. CASE q # <<>> /\ Extends(Last(q), r)
  <2> DEFINE z == <<q[n][1], Greater(q[n][2], r[2])>>
  <2>1. n \in 1..n /\ q[n][1] <= r[1] /\ r[1] <= q[n][2] + 1
    BY <1>1, <1>5 DEF Extends, Last
  <2>2. /\ z \in BlockRange /\ z[1] = q[n][1]
        /\ z[2] = IF q[n][2] > r[2] THEN q[n][2] ELSE r[2]
    BY <1>2, <1>3, <2>1 DEF BlockRange, Greater
  <2>3. t = [q EXCEPT ![n] = z]
    BY <1>5, <2>1 DEF MergeRange
  <2> HIDE DEF z
  <2>4. /\ t \in Seq(BlockRange) /\ Len(t) = n /\ DOMAIN t = 1..n /\ t[n] = z
        /\ \A i \in 1..n : i # n => t[i] = q[i]
    <3>1. q \in [1..n -> BlockRange]
      BY <1>1
    <3> HIDE DEF n
    <3>2. t \in [1..n -> BlockRange]
      BY <2>2, <2>3, <3>1
    <3>3. DOMAIN t = 1..n /\ t[n] = z /\ \A i \in 1..n : i # n => t[i] = q[i]
      BY <2>1, <2>3, <3>1
    <3>4. t \in Seq(BlockRange) /\ Len(t) = n
      BY <1>1, <3>2
    <3> QED
      BY <3>3, <3>4
  <2> HIDE DEF n
  <2>5. Canonical(t)
    <3>1. ASSUME NEW i \in 1..n
          PROVE  t[i][1] = q[i][1] /\ t[i][1] <= t[i][2]
      <4>1. CASE i = n
        BY <1>2, <1>3, <2>1, <2>2, <2>4, <4>1
      <4>2. CASE i # n
        BY <1>3, <2>4, <4>2
      <4> QED
        BY <4>1, <4>2
    <3>2. \A i, j \in 1..n : i < j => t[i][2] + 1 < t[j][1]
      <4> SUFFICES ASSUME NEW i \in 1..n, NEW j \in 1..n, i < j
                   PROVE  t[i][2] + 1 < t[j][1]
        OBVIOUS
      <4>1. i # n
        BY <1>1
      <4> QED
        BY <1>4, <2>4, <3>1, <4>1
    <3> QED
      BY <2>4, <3>1, <3>2 DEF Canonical
  <2>6. ASSUME NEW h \in Nat
        PROVE  Has(t, h) <=> Has(q, h) \/ (r[1] <= h /\ h <= r[2])
    <3>1. /\ t[n][1] <= h /\ h <= t[n][2]
          <=> (q[n][1] <= h /\ h <= q[n][2]) \/ (r[1] <= h /\ h <= r[2])
      BY <1>2, <1>3, <2>1, <2>2, <2>4
    <3> QED
      BY <1>1, <2>1, <2>4, <3>1 DEF Has
  <2>7. t # <<>> /\ t[Len(t)][1] <= r[1]
    BY <1>1, <2>1, <2>2, <2>4
  <2> QED
    BY <2>4, <2>5, <2>6, <2>7
<1>6. CASE ~(q # <<>> /\ Extends(Last(q), r))
  <2>1. t = Append(q, r)
    BY <1>6 DEF MergeRange
  <2>2. /\ t \in Seq(BlockRange) /\ Len(t) = n + 1 /\ DOMAIN t = 1..n + 1 /\ t[n + 1] = r
        /\ \A i \in 1..n : t[i] = q[i]
    BY <2>1
  <2>3. n # 0 => q[n][2] + 1 < r[1]
    <3> SUFFICES ASSUME n # 0
                 PROVE  q[n][2] + 1 < r[1]
      OBVIOUS
    <3>1. n \in 1..n /\ q # <<>>
      BY <1>1
    <3> QED
      BY <1>2, <1>3, <1>6, <3>1 DEF Extends, Last
  <2> HIDE DEF n
  <2>4. Canonical(t)
    <3>1. \A i \in 1..n + 1 : t[i][1] <= t[i][2]
      BY <1>1, <1>2, <1>3, <2>2
    <3>2. \A i, j \in 1..n + 1 : i < j => t[i][2] + 1 < t[j][1]
      <4> SUFFICES ASSUME NEW i \in 1..n + 1, NEW j \in 1..n + 1, i < j
                   PROVE  t[i][2] + 1 < t[j][1]
        OBVIOUS
      <4>1. i \in 1..n /\ n # 0 /\ n \in 1..n
        BY <1>1
      <4>2. CASE j \in 1..n
        BY <1>4, <2>2, <4>1, <4>2
      <4>3. CASE j \notin 1..n
        <5>1. j = n + 1 /\ t[j] = r /\ t[i] = q[i]
          BY <1>1, <2>2, <4>1, <4>3
        <5>2. q[i][2] <= q[n][2]
          BY <1>1, <1>3, <1>4, <4>1
        <5> QED
          BY <1>2, <1>3, <2>3, <4>1, <5>1, <5>2
      <4> QED
        BY <4>2, <4>3
    <3> QED
      BY <2>2, <3>1, <3>2 DEF Canonical
  <2>5. ASSUME NEW h \in Nat
        PROVE  Has(t, h) <=> Has(q, h) \/ (r[1] <= h /\ h <= r[2])
    <3>1. ASSUME Has(t, h)
          PROVE  Has(q, h) \/ (r[1] <= h /\ h <= r[2])
      <4>1. PICK i \in 1..n + 1 : t[i][1] <= h /\ h <= t[i][2]
        BY <2>2, <3>1 DEF Has
      <4>2. i \in 1..n \/ i = n + 1
        BY <1>1
      <4> QED
        BY <1>1, <2>2, <4>1, <4>2 DEF Has
    <3>2. ASSUME Has(q, h)
          PROVE  Has(t, h)
      <4>1. PICK i \in 1..n : q[i][1] <= h /\ h <= q[i][2]
        BY <1>1, <3>2 DEF Has
      <4>2. i \in 1..n + 1 /\ t[i] = q[i]
        BY <1>1, <2>2
      <4> QED
        BY <2>2, <4>1, <4>2 DEF Has
    <3>3. ASSUME r[1] <= h, h <= r[2]
          PROVE  Has(t, h)
      <4>1. n + 1 \in 1..n + 1
        BY <1>1
      <4> QED
        BY <2>2, <3>3, <4>1 DEF Has
    <3> QED
      BY <3>1, <3>2, <3>3
  <2>6. t # <<>> /\ t[Len(t)][1] <= r[1]
    BY <1>1, <1>2, <2>2
  <2> QED
    BY <2>2, <2>4, <2>5, <2>6
<1> QED
  BY <1>5, <1>6

(* What is merged is in its one canonical form and covers the same heights. *)
THEOREM MergeIsExact ==
  ASSUME NEW ranges \in Seq(BlockRange), NEW m, m = MergeBlockRanges(ranges)
  PROVE  m \in Seq(BlockRange) /\ Canonical(m) /\ Covered(m) = Covered(ranges)
<1> DEFINE s == InOrder(ranges)
           N == Len(ranges)
           M == Merging(s)
           Within(n, h) == \E i \in 1..n : s[i][1] <= h /\ h <= s[i][2]
           Good(n) == /\ M[n] \in Seq(BlockRange) /\ Canonical(M[n])
                      /\ n # 0 => M[n] # <<>> /\ M[n][Len(M[n])][1] <= s[n][1]
                      /\ n = 0 => M[n] = <<>>
                      /\ \A h \in Nat : Has(M[n], h) <=> Within(n, h)
           T == {n \in 0..N : Good(n)}
<1>1. /\ s \in Seq(BlockRange) /\ Len(s) = N /\ N \in Nat /\ DOMAIN s = 1..N
      /\ \A i, j \in 1..N : i < j => s[i][1] <= s[j][1]
      /\ \A i \in 1..N : \E j \in DOMAIN ranges : s[i] = ranges[j]
      /\ \A j \in DOMAIN ranges : \E i \in 1..N : s[i] = ranges[j]
  <2>1. /\ s \in Seq(BlockRange) /\ Len(s) = N
        /\ \A i, j \in DOMAIN s : i < j => s[i][1] <= s[j][1]
        /\ \A i \in DOMAIN s : \E j \in DOMAIN ranges : s[i] = ranges[j]
        /\ \A j \in DOMAIN ranges : \E i \in DOMAIN s : s[i] = ranges[j]
    BY InOrderSorted
  <2>2. N \in Nat /\ DOMAIN s = 1..N
    BY <2>1
  <2> QED
    BY <2>1, <2>2
<1> HIDE DEF s
<1>2. \A n \in 0..N : M[n] = IF n = 0 THEN <<>> ELSE MergeRange(M[n - 1], s[n])
  <2>1. s \in Seq(BlockRange) /\ M = Merging(s)
    BY <1>1
  <2> HIDE DEF M
  <2>2. \A n \in 0..Len(s) : M[n] = IF n = 0 THEN <<>> ELSE MergeRange(M[n - 1], s[n])
    BY ONLY <2>1, MergingStep
  <2> QED
    BY <1>1, <2>2
<1> HIDE DEF M, N
<1>3. Good(0)
  <2>1. M[0] = <<>>
    BY <1>1, <1>2
  <2>2. Canonical(<<>>) /\ \A h \in Nat : ~ Has(<<>>, h) /\ ~ Within(0, h)
    BY DEF Canonical, Has
  <2> QED
    BY <2>1, <2>2
<1>4. ASSUME NEW n \in 0..N - 1, Good(n)
      PROVE  Good(n + 1)
  <2> DEFINE q == M[n]
             r == s[n + 1]
  <2>1. n + 1 \in 1..N /\ n + 1 \in 0..N /\ n + 1 # 0 /\ (n + 1) - 1 = n
    BY <1>1
  <2>2. r \in BlockRange
    BY <1>1, <2>1
  <2>3. q \in Seq(BlockRange) /\ Canonical(q)
    BY <1>4
  <2>4. q # <<>> => q[Len(q)][1] <= r[1]
    <3> SUFFICES ASSUME n # 0
                 PROVE  q[Len(q)][1] <= r[1]
      BY <1>4
    <3>1. n \in 1..N /\ n < n + 1
      BY <1>1
    <3>2. s[n][1] <= r[1] /\ q[Len(q)][1] <= s[n][1] /\ q # <<>>
      BY <1>1, <1>4, <2>1, <3>1
    <3>3. s[n] \in BlockRange
      BY <1>1, <3>1
    <3>4. Len(q) \in DOMAIN q
      BY <2>3, <3>2
    <3>5. q[Len(q)] \in BlockRange
      BY <2>3, <3>4
    <3>6. q[Len(q)][1] \in Nat /\ s[n][1] \in Nat /\ r[1] \in Nat
      BY <2>2, <3>3, <3>5 DEF BlockRange
    <3> QED
      BY <3>2, <3>6
  <2>5. M[n + 1] = MergeRange(q, r)
    BY <1>2, <2>1
  <2> HIDE DEF q, r
  <2>6. /\ M[n + 1] \in Seq(BlockRange) /\ Canonical(M[n + 1]) /\ M[n + 1] # <<>>
        /\ M[n + 1][Len(M[n + 1])][1] <= r[1]
        /\ \A h \in Nat : Has(M[n + 1], h) <=> Has(q, h) \/ (r[1] <= h /\ h <= r[2])
    BY <2>2, <2>3, <2>4, <2>5, MergeOne
  <2>7. \A h \in Nat : Within(n + 1, h) <=> Within(n, h) \/ (r[1] <= h /\ h <= r[2])
    <3>1. \A i : i \in 1..n + 1 <=> i \in 1..n \/ i = n + 1
      OBVIOUS
    <3> QED
      BY <3>1 DEF r
  <2>8. \A h \in Nat : Has(q, h) <=> Within(n, h)
    BY <1>4 DEF q
  <2> HIDE DEF Within
  <2> QED
    BY <2>1, <2>6, <2>7, <2>8 DEF r
<1>5. Good(N)
  <2> HIDE DEF Good
  <2>1. 0 \in T /\ \A n \in 0..N - 1 : n \in T => n + 1 \in T
    BY <1>1, <1>3, <1>4
  <2> HIDE DEF T
  <2>2. \A n \in 0..N : n \in T
    BY ONLY <1>1, <2>1, ByCounting
  <2>3. N \in 0..N
    BY <1>1
  <2> QED
    BY <2>2, <2>3 DEF T
<1>6. m = M[N]
  BY DEF MergeBlockRanges, M, s, N
<1>7. \A h \in Nat : Has(m, h) <=> Has(ranges, h)
  <2>1. \A h \in Nat : Within(N, h) <=> Has(ranges, h)
    BY <1>1 DEF Has
  <2> QED
    BY <1>5, <1>6, <2>1
<1>8. m \in Seq(BlockRange) /\ Canonical(m)
  BY <1>5, <1>6
<1>9. Covered(m) = {h \in Nat : Has(m, h)} /\ Covered(ranges) = {h \in Nat : Has(ranges, h)}
  BY <1>8, CoveredHas
<1> QED
  BY <1>7, <1>8, <1>9

(* The ranges at some places, in the order they had. *)
Places(f, ranges, P, a) ==
  /\ f \in Seq(P)
  /\ a \in Seq(BlockRange) /\ Len(a) = Len(f)
  /\ \A k \in 1..Len(f) : f[k] \in P /\ a[k] = ranges[f[k]]
  /\ \A i \in P : \E k \in 1..Len(f) : f[k] = i
  /\ \A k, l \in 1..Len(f) : k < l => f[k] < f[l]

LEMMA RangesAtPlaces ==
  ASSUME NEW ranges \in Seq(BlockRange), NEW P \in SUBSET DOMAIN ranges,
         NEW a, a = RangesAt(ranges, P)
  PROVE  \E f : Places(f, ranges, P, a)
<1> DEFINE key == [i \in P |-> i]
           f == SortedBy(P, key)
           N == Cardinality(P)
<1>1. Len(ranges) \in Nat /\ DOMAIN ranges = 1..Len(ranges)
  OBVIOUS
<1>2. IsFiniteSet(P) /\ N \in Nat
  <2>1. IsFiniteSet(1..Len(ranges))
    BY <1>1, FS_Interval
  <2>2. P \in SUBSET (1..Len(ranges))
    BY <1>1
  <2> QED
    BY <2>1, <2>2, FS_Subset, FS_CardinalityType
<1>3. /\ \A i \in P : key[i] = i /\ key[i] \in Nat
      /\ \A i, j \in P : key[i] = key[j] => i = j
  BY <1>1
<1>4. /\ f \in Seq(P) /\ Len(f) = N
      /\ \A c \in P : \E i \in 1..N : f[i] = c
      /\ \A i, j \in 1..N : i < j => key[f[i]] < key[f[j]]
  <2>1. \A i \in P : key[i] \in Nat
    BY <1>3
  <2>2. \A i, j \in P : key[i] = key[j] => i = j
    BY <1>3
  <2> HIDE DEF key
  <2> QED
    BY ONLY <1>2, <2>1, <2>2, Sorted
<1>5. a = [k \in DOMAIN f |-> ranges[f[k]]]
  BY DEF RangesAt
<1> HIDE DEF f, key, N
<1>6. DOMAIN f = 1..N /\ \A k \in 1..N : f[k] \in P /\ ranges[f[k]] \in BlockRange
  <2>1. DOMAIN f = 1..N
    BY <1>2, <1>4
  <2>2. \A k \in 1..N : f[k] \in P
    BY <1>4, <2>1
  <2> QED
    BY <2>1, <2>2
<1>7. a \in Seq(BlockRange) /\ Len(a) = N /\ \A k \in 1..N : a[k] = ranges[f[k]]
  <2>1. a \in [1..N -> BlockRange]
    BY <1>5, <1>6
  <2> QED
    BY <1>2, <1>5, <1>6, <2>1
<1>8. \A k, l \in 1..N : k < l => f[k] < f[l]
  BY <1>3, <1>4, <1>6
<1> QED
  BY <1>4, <1>6, <1>7, <1>8 DEF Places

(* Ranges that are cut at their lower or upper ends, at some of the places. *)
LEMMA CutCanonical ==
  ASSUME NEW ranges \in Seq(BlockRange), Canonical(ranges), NEW P \in SUBSET DOMAIN ranges,
         NEW a, a = RangesAt(ranges, P), NEW d \in [DOMAIN a -> BlockRange],
         \A k \in DOMAIN a : a[k][1] <= d[k][1] /\ d[k][2] <= a[k][2]
  PROVE  d \in Seq(BlockRange) /\ Canonical(d)
<1>1. PICK f : Places(f, ranges, P, a)
  BY RangesAtPlaces
<1> USE DEF Places
<1> DEFINE N == Len(f)
<1>2. N \in Nat /\ DOMAIN a = 1..N /\ d \in Seq(BlockRange) /\ DOMAIN d = 1..N
  <2>1. N \in Nat /\ DOMAIN a = 1..N
    BY <1>1
  <2>2. d \in [1..N -> BlockRange]
    BY <2>1
  <2> HIDE DEF N
  <2> QED
    BY <2>1, <2>2
<1> HIDE DEF N
<1>3. \A k \in 1..N : /\ d[k][1] \in Nat /\ d[k][2] \in Nat /\ d[k][1] <= d[k][2]
                      /\ a[k][1] \in Nat /\ a[k][2] \in Nat
  <2>1. \A k \in 1..N : d[k] \in BlockRange /\ a[k] \in BlockRange
    BY <1>1, <1>2
  <2> QED
    BY <2>1 DEF BlockRange
<1>4. ASSUME NEW k \in 1..N, NEW l \in 1..N, k < l
      PROVE  d[k][2] + 1 < d[l][1]
  <2>1. f[k] \in P /\ f[l] \in P /\ f[k] < f[l] /\ a[k] = ranges[f[k]] /\ a[l] = ranges[f[l]]
    BY <1>1, <1>4 DEF N
  <2>2. a[k][2] + 1 < a[l][1]
    BY <2>1 DEF Canonical
  <2>3. a[l][1] <= d[l][1] /\ d[k][2] <= a[k][2]
    BY <1>2
  <2> QED
    BY <1>3, <2>2, <2>3
<1> QED
  BY <1>2, <1>3, <1>4 DEF Canonical

(* Invalidation leaves what is below the first height that is invalid. *)
THEOREM DropIsExact ==
  ASSUME NEW ranges \in Seq(BlockRange), Canonical(ranges), NEW first \in Nat,
         NEW d, d = DropFrom(ranges, first)
  PROVE  /\ d \in Seq(BlockRange) /\ Canonical(d)
         /\ Covered(d) = {h \in Covered(ranges) : h < first}
<1> DEFINE P == {i \in DOMAIN ranges : ranges[i][1] < first}
           a == RangesAt(ranges, P)
<1>1. PICK f : Places(f, ranges, P, a)
  <2>1. P \in SUBSET DOMAIN ranges
    OBVIOUS
  <2> HIDE DEF P
  <2> QED
    BY <2>1, RangesAtPlaces
<1> USE DEF Places
<1>2. d = [k \in DOMAIN a |-> <<a[k][1], Lesser(a[k][2], first - 1)>>]
  BY DEF DropFrom
<1>3. P \in SUBSET DOMAIN ranges /\ \A i \in DOMAIN ranges : i \in P <=> ranges[i][1] < first
  OBVIOUS
<1> HIDE DEF P, a
<1>4. DOMAIN a = 1..Len(f) /\ Len(f) \in Nat
  BY <1>1
<1>5. ASSUME NEW k \in DOMAIN a
      PROVE  /\ f[k] \in DOMAIN ranges /\ a[k] = ranges[f[k]] /\ a[k][1] < first
             /\ a[k][1] \in Nat /\ a[k][2] \in Nat /\ a[k][1] <= a[k][2]
             /\ d[k][1] = a[k][1]
             /\ d[k][2] = IF a[k][2] < first - 1 THEN a[k][2] ELSE first - 1
             /\ d[k] \in BlockRange
  <2>1. f[k] \in P /\ a[k] = ranges[f[k]]
    BY <1>1, <1>4
  <2>2. f[k] \in DOMAIN ranges /\ a[k][1] < first
    BY <1>3, <2>1
  <2>3. a[k] \in BlockRange
    BY <2>1, <2>2
  <2>4. a[k][1] \in Nat /\ a[k][2] \in Nat /\ a[k][1] <= a[k][2]
    BY <2>3 DEF BlockRange
  <2>5. d[k] = <<a[k][1], Lesser(a[k][2], first - 1)>>
    BY <1>2
  <2> QED
    BY <2>1, <2>2, <2>4, <2>5 DEF BlockRange, Lesser
<1>6. d \in Seq(BlockRange) /\ Canonical(d)
  <2>1. d \in [DOMAIN a -> BlockRange]
    BY <1>2, <1>5
  <2>2. \A k \in DOMAIN a : a[k][1] <= d[k][1] /\ d[k][2] <= a[k][2]
    BY <1>5
  <2>3. a = RangesAt(ranges, P)
    BY DEF a
  <2> QED
    BY ONLY <1>3, <2>1, <2>2, <2>3, CutCanonical, ranges \in Seq(BlockRange), Canonical(ranges)
<1>7. ASSUME NEW h \in Nat
      PROVE  Has(d, h) <=> Has(ranges, h) /\ h < first
  <2>1. DOMAIN d = DOMAIN a
    BY <1>2
  <2>2. ASSUME Has(d, h)
        PROVE  Has(ranges, h) /\ h < first
    <3>1. PICK k \in DOMAIN a : d[k][1] <= h /\ h <= d[k][2]
      BY <2>1, <2>2 DEF Has
    <3>2. h < first /\ a[k][1] <= h /\ h <= a[k][2]
      BY <1>5, <3>1
    <3> QED
      BY <1>5, <3>2 DEF Has
  <2>3. ASSUME Has(ranges, h), h < first
        PROVE  Has(d, h)
    <3>1. PICK i \in DOMAIN ranges : ranges[i][1] <= h /\ h <= ranges[i][2]
      BY <2>3 DEF Has
    <3>2. ranges[i] \in BlockRange
      OBVIOUS
    <3>3. ranges[i][1] < first
      BY <2>3, <3>1, <3>2 DEF BlockRange
    <3>4. PICK k \in 1..Len(f) : f[k] = i
      BY <1>1, <1>3, <3>3
    <3>5. k \in DOMAIN a /\ a[k] = ranges[i]
      BY <1>1, <1>4, <3>4
    <3>6. d[k][1] <= h /\ h <= d[k][2]
      BY <1>5, <2>3, <3>1, <3>5
    <3> QED
      BY <2>1, <3>5, <3>6 DEF Has
  <2> QED
    BY <2>2, <2>3
<1>8. Covered(d) = {h \in Nat : Has(d, h)} /\ Covered(ranges) = {h \in Nat : Has(ranges, h)}
  BY <1>6, CoveredHas
<1> QED
  BY <1>6, <1>7, <1>8

(* Retention leaves what is not below the first height retained. *)
THEOREM KeepIsExact ==
  ASSUME NEW ranges \in Seq(BlockRange), Canonical(ranges), NEW first \in Nat,
         NEW d, d = KeepFrom(ranges, first)
  PROVE  /\ d \in Seq(BlockRange) /\ Canonical(d)
         /\ Covered(d) = {h \in Covered(ranges) : h >= first}
<1> DEFINE P == {i \in DOMAIN ranges : ranges[i][2] >= first}
           a == RangesAt(ranges, P)
<1>1. PICK f : Places(f, ranges, P, a)
  <2>1. P \in SUBSET DOMAIN ranges
    OBVIOUS
  <2> HIDE DEF P
  <2> QED
    BY <2>1, RangesAtPlaces
<1> USE DEF Places
<1>2. d = [k \in DOMAIN a |-> <<Greater(a[k][1], first), a[k][2]>>]
  BY DEF KeepFrom
<1>3. P \in SUBSET DOMAIN ranges /\ \A i \in DOMAIN ranges : i \in P <=> ranges[i][2] >= first
  OBVIOUS
<1> HIDE DEF P, a
<1>4. DOMAIN a = 1..Len(f) /\ Len(f) \in Nat
  BY <1>1
<1>5. ASSUME NEW k \in DOMAIN a
      PROVE  /\ f[k] \in DOMAIN ranges /\ a[k] = ranges[f[k]] /\ a[k][2] >= first
             /\ a[k][1] \in Nat /\ a[k][2] \in Nat /\ a[k][1] <= a[k][2]
             /\ d[k][1] = IF a[k][1] > first THEN a[k][1] ELSE first
             /\ d[k][2] = a[k][2]
             /\ d[k] \in BlockRange
  <2>1. f[k] \in P /\ a[k] = ranges[f[k]]
    BY <1>1, <1>4
  <2>2. f[k] \in DOMAIN ranges /\ a[k][2] >= first
    BY <1>3, <2>1
  <2>3. a[k] \in BlockRange
    BY <2>1, <2>2
  <2>4. a[k][1] \in Nat /\ a[k][2] \in Nat /\ a[k][1] <= a[k][2]
    BY <2>3 DEF BlockRange
  <2>5. d[k] = <<Greater(a[k][1], first), a[k][2]>>
    BY <1>2
  <2> QED
    BY <2>1, <2>2, <2>4, <2>5 DEF BlockRange, Greater
<1>6. d \in Seq(BlockRange) /\ Canonical(d)
  <2>1. d \in [DOMAIN a -> BlockRange]
    BY <1>2, <1>5
  <2>2. \A k \in DOMAIN a : a[k][1] <= d[k][1] /\ d[k][2] <= a[k][2]
    BY <1>5
  <2>3. a = RangesAt(ranges, P)
    BY DEF a
  <2> QED
    BY ONLY <1>3, <2>1, <2>2, <2>3, CutCanonical, ranges \in Seq(BlockRange), Canonical(ranges)
<1>7. ASSUME NEW h \in Nat
      PROVE  Has(d, h) <=> Has(ranges, h) /\ h >= first
  <2>1. DOMAIN d = DOMAIN a
    BY <1>2
  <2>2. ASSUME Has(d, h)
        PROVE  Has(ranges, h) /\ h >= first
    <3>1. PICK k \in DOMAIN a : d[k][1] <= h /\ h <= d[k][2]
      BY <2>1, <2>2 DEF Has
    <3>2. h >= first /\ a[k][1] <= h /\ h <= a[k][2]
      BY <1>5, <3>1
    <3> QED
      BY <1>5, <3>2 DEF Has
  <2>3. ASSUME Has(ranges, h), h >= first
        PROVE  Has(d, h)
    <3>1. PICK i \in DOMAIN ranges : ranges[i][1] <= h /\ h <= ranges[i][2]
      BY <2>3 DEF Has
    <3>2. ranges[i] \in BlockRange
      OBVIOUS
    <3>3. ranges[i][2] >= first
      BY <2>3, <3>1, <3>2 DEF BlockRange
    <3>4. PICK k \in 1..Len(f) : f[k] = i
      BY <1>1, <1>3, <3>3
    <3>5. k \in DOMAIN a /\ a[k] = ranges[i]
      BY <1>1, <1>4, <3>4
    <3>6. d[k][1] <= h /\ h <= d[k][2]
      BY <1>5, <2>3, <3>1, <3>5
    <3> QED
      BY <2>1, <3>5, <3>6 DEF Has
  <2> QED
    BY <2>2, <2>3
<1>8. Covered(d) = {h \in Nat : Has(d, h)} /\ Covered(ranges) = {h \in Nat : Has(ranges, h)}
  BY <1>6, CoveredHas
<1> QED
  BY <1>6, <1>7, <1>8

(* The function that WalkDown stands for. *)
WalksDown == [end : Int, bound : SUBSET Int]

LEMMA WalkDownStep ==
  ASSUME NEW ranges \in Seq(BlockRange), NEW high \in Nat, NEW W, W = WalkDown(ranges, high)
  PROVE  \A n \in 0..Len(ranges) :
           /\ W[n] \in WalksDown
           /\ n = 0 => W[n] = [end |-> high, bound |-> {}]
           /\ n # 0 => W[n] = StepDown(W[n - 1], ranges[Len(ranges) - n + 1])
<1> DEFINE N == Len(ranges)
           S == WalksDown
           start == [end |-> high, bound |-> {}]
           G == [n \in 1..N |-> [w \in S |-> StepDown(w, ranges[N - n + 1])]]
           Solves(f) == f = [n \in 0..N |-> IF n = 0 THEN start
                                            ELSE StepDown(f[n - 1], ranges[N - n + 1])]
<1>1. ASSUME NEW w \in S, NEW r \in BlockRange
      PROVE  StepDown(w, r) \in S
  <2>1. r[1] \in Int /\ r[2] \in Int
    BY DEF BlockRange
  <2> QED
    BY <2>1 DEF StepDown, WalksDown
<1>2. N \in Nat /\ start \in S
  BY DEF WalksDown
<1>3. ASSUME NEW n \in 1..N
      PROVE  n - 1 \in 0..N /\ ranges[N - n + 1] \in BlockRange
  <2>1. N - n + 1 \in DOMAIN ranges /\ n - 1 \in 0..N
    BY <1>2
  <2> QED
    BY <2>1
<1>4. Steps(G, N, S)
  BY <1>1, <1>3 DEF Steps
<1>5. PICK g : Solution(g, N, S, start, G)
  <2>1. N \in Nat
    BY <1>2
  <2>2. start \in S
    BY <1>2
  <2> HIDE DEF N, S, G, start
  <2> QED
    BY <2>1, <2>2, <1>4, Recursion
<1> HIDE DEF start, S
<1>6. Solves(g) /\ g \in [0..N -> S]
  <2>1. g \in [0..N -> S] /\ g[0] = start
    BY <1>5 DEF Solution
  <2>2. ASSUME NEW n \in 1..N
        PROVE  g[n] = StepDown(g[n - 1], ranges[N - n + 1])
    <3>1. g[n] = G[n][g[n - 1]] /\ g[n - 1] \in S
      BY <1>3, <1>5, <2>1 DEF Solution
    <3> QED
      BY <3>1
  <2> DEFINE h == [n \in 0..N |-> IF n = 0 THEN start ELSE StepDown(g[n - 1], ranges[N - n + 1])]
  <2>3. \A n \in 0..N : n # 0 => n \in 1..N
    BY <1>2
  <2>4. \A n \in 0..N : g[n] = IF n = 0 THEN start ELSE StepDown(g[n - 1], ranges[N - n + 1])
    BY <2>1, <2>2, <2>3
  <2>5. g = [n \in 0..N |-> g[n]] /\ [n \in 0..N |-> g[n]] = h
    BY <2>1, <2>4
  <2> QED
    BY <2>1, <2>5
<1>7. W = CHOOSE f : Solves(f)
  BY DEF WalkDown, start
<1>8. Solves(W)
  <2> HIDE DEF Solves
  <2> QED
    BY <1>6, <1>7
<1>9. \A n \in 0..N : /\ n = 0 => W[n] = start
                      /\ n # 0 => W[n] = StepDown(W[n - 1], ranges[N - n + 1])
  BY <1>8
<1> DEFINE T == {n \in 0..N : W[n] \in S}
<1>10. 0 \in T
  BY <1>2, <1>9
<1>11. ASSUME NEW n \in 0..N - 1, n \in T
       PROVE  n + 1 \in T
  <2>1. n + 1 \in 0..N /\ n + 1 # 0 /\ n + 1 \in 1..N /\ (n + 1) - 1 = n
    BY <1>2
  <2>2. ranges[N - (n + 1) + 1] \in BlockRange
    BY <1>3, <2>1
  <2>3. W[n + 1] = StepDown(W[n], ranges[N - (n + 1) + 1])
    BY <1>9, <2>1
  <2> HIDE DEF N
  <2> QED
    BY <1>1, <1>11, <2>1, <2>2, <2>3
<1>12. \A n \in 0..N : n \in T
  <2> HIDE DEF T
  <2>1. \A n \in 0..N - 1 : n \in T => n + 1 \in T
    BY <1>11
  <2>2. N \in Nat
    BY <1>2
  <2> QED
    BY ONLY <1>10, <2>1, <2>2, ByCounting
<1> QED
  BY <1>9, <1>12 DEF start, S

(* Where the walk down ends: at the newest height the ranges miss, with    *)
(* the end of the newest range below it, if there is one.                  *)
LEMMA WalkDownEnds ==
  ASSUME NEW ranges \in Seq(BlockRange), Canonical(ranges), NEW high \in Nat,
         NEW w, w = WalkDown(ranges, high)[Len(ranges)]
  PROVE  /\ w.end \in Int /\ w.end <= high
         /\ \A h \in Nat : w.end < h /\ h <= high => Has(ranges, h)
         /\ \/ w.bound = {} /\ \A h \in Nat : h <= w.end => ~ Has(ranges, h)
            \/ \E c \in Nat : /\ w.bound = {c + 1} /\ c < w.end /\ Has(ranges, c)
                              /\ \A h \in Nat : c < h /\ h <= w.end => ~ Has(ranges, h)
<1> DEFINE N == Len(ranges)
           W == WalkDown(ranges, high)
           End(n) == /\ W[n].end \in Int /\ W[n].end <= high
                     /\ \A h \in Nat : W[n].end < h /\ h <= high => Has(ranges, h)
           Free(n) == W[n].bound = {} /\ \A i \in N - n + 1..N : ranges[i][1] > W[n].end
           Bound(n) == \E j \in 1..N : /\ W[n].bound = {ranges[j][2] + 1} /\ ranges[j][2] < W[n].end
                                       /\ \A i \in j + 1..N : ranges[i][1] > W[n].end
           Good(n) == End(n) /\ (Free(n) \/ Bound(n))
           T == {n \in 0..N : Good(n)}
<1>1. /\ N \in Nat /\ DOMAIN ranges = 1..N
      /\ \A i \in 1..N : /\ ranges[i][1] \in Nat /\ ranges[i][2] \in Nat
                         /\ ranges[i][1] <= ranges[i][2]
  BY DEF BlockRange
<1>2. \A i, j \in 1..N : i < j => ranges[i][2] + 1 < ranges[j][1]
  BY <1>1 DEF Canonical
<1>3. \A n \in 0..N : /\ W[n] \in WalksDown
                      /\ n = 0 => W[n] = [end |-> high, bound |-> {}]
                      /\ n # 0 => W[n] = StepDown(W[n - 1], ranges[N - n + 1])
  BY WalkDownStep
<1> HIDE DEF N, W
<1>4. Good(0)
  BY <1>1, <1>3
<1>5. ASSUME NEW n \in 0..N - 1, Good(n)
      PROVE  Good(n + 1)
  <2> DEFINE k == N - n
             r == ranges[k]
             v == W[n]
             w2 == W[n + 1]
  <2>1. k \in 1..N /\ n \in 0..N /\ n + 1 \in 0..N /\ n + 1 # 0 /\ (n + 1) - 1 = n
        /\ N - (n + 1) + 1 = k /\ N - n + 1 = k + 1
    BY <1>1
  <2>2. r[1] \in Nat /\ r[2] \in Nat /\ r[1] <= r[2]
    BY <1>1, <2>1
  <2>3. w2 = StepDown(v, r) /\ v \in WalksDown
    BY <1>3, <2>1
  <2>4. v.end \in Int /\ v.end <= high
    BY <1>5
  <2>5. CASE v.bound # {} \/ r[1] > v.end
    <3>1. w2 = v
      BY <2>3, <2>5 DEF StepDown
    <3>2. End(n + 1)
      BY <1>5, <3>1
    <3>3. CASE Bound(n)
      BY <3>1, <3>2, <3>3
    <3>4. CASE Free(n)
      <4>1. r[1] > v.end
        BY <2>5, <3>4
      <4>2. \A i \in k..N : i = k \/ i \in k + 1..N
        BY <1>1, <2>1
      <4>3. \A i \in k..N : ranges[i][1] > v.end
        BY <2>1, <3>4, <4>1, <4>2
      <4>4. Free(n + 1)
        BY <2>1, <3>1, <3>4, <4>3
      <4> QED
        BY <3>2, <4>4
    <3> QED
      BY <1>5, <3>3, <3>4
  <2>6. CASE v.bound = {} /\ r[1] <= v.end /\ r[2] >= v.end
    <3>1. w2.end = r[1] - 1 /\ w2.bound = {}
      BY <2>2, <2>3, <2>4, <2>6 DEF StepDown, WalksDown
    <3>2. End(n + 1)
      <4>1. w2.end \in Int /\ w2.end <= high
        BY <2>2, <2>4, <2>6, <3>1
      <4>2. ASSUME NEW h \in Nat, w2.end < h, h <= high
            PROVE  Has(ranges, h)
        <5>1. CASE h > v.end
          BY <1>5, <2>4, <4>2, <5>1
        <5>2. CASE ~ h > v.end
          <6>1. r[1] <= h /\ h <= r[2]
            BY <2>2, <2>4, <2>6, <3>1, <4>2, <5>2
          <6> QED
            BY <1>1, <2>1, <6>1 DEF Has
        <5> QED
          BY <5>1, <5>2
      <4> QED
        BY <4>1, <4>2
    <3>3. Free(n + 1)
      <4>1. ASSUME NEW i \in k..N
            PROVE  ranges[i][1] > r[1] - 1
        <5>1. i \in 1..N /\ (i = k \/ k < i)
          BY <1>1, <2>1
        <5>2. CASE i = k
          BY <2>2, <5>2
        <5>3. CASE k < i
          <6>1. r[2] + 1 < ranges[i][1]
            BY <1>2, <2>1, <5>1, <5>3
          <6> QED
            BY <1>1, <2>2, <5>1, <6>1
        <5> QED
          BY <5>1, <5>2, <5>3
      <4> QED
        BY <2>1, <3>1, <4>1
    <3> QED
      BY <3>2, <3>3
  <2>7. CASE v.bound = {} /\ r[1] <= v.end /\ ~ r[2] >= v.end
    <3>1. w2.end = v.end /\ w2.bound = {r[2] + 1}
      BY <2>2, <2>3, <2>4, <2>7 DEF StepDown, WalksDown
    <3>2. End(n + 1)
      BY <1>5, <3>1
    <3>3. Free(n)
      BY <1>5, <2>7
    <3>4. r[2] < v.end /\ \A i \in k + 1..N : ranges[i][1] > v.end
      BY <2>1, <2>2, <2>4, <2>7, <3>3
    <3>5. Bound(n + 1)
      BY <2>1, <3>1, <3>4
    <3> QED
      BY <3>2, <3>5
  <2> HIDE DEF Good
  <2> QED
    BY <2>2, <2>4, <2>5, <2>6, <2>7
<1>6. Good(N)
  <2> HIDE DEF Good
  <2>1. 0 \in T /\ \A n \in 0..N - 1 : n \in T => n + 1 \in T
    BY <1>1, <1>4, <1>5
  <2> HIDE DEF T
  <2>2. \A n \in 0..N : n \in T
    BY ONLY <1>1, <2>1, ByCounting
  <2>3. N \in 0..N
    BY <1>1
  <2> QED
    BY <2>2, <2>3 DEF T
<1>7. w = W[N]
  BY DEF W, N
<1>8. End(N) /\ (Free(N) \/ Bound(N))
  BY <1>6
<1>9. CASE Free(N)
  <2>1. \A i \in 1..N : ranges[i][1] > w.end
    BY <1>1, <1>7, <1>9
  <2>2. \A h \in Nat : h <= w.end => ~ Has(ranges, h)
    BY <1>1, <1>7, <1>8, <2>1 DEF Has
  <2> QED
    BY <1>7, <1>8, <1>9, <2>2
<1>10. CASE Bound(N)
  <2>1. PICK j \in 1..N : /\ w.bound = {ranges[j][2] + 1} /\ ranges[j][2] < w.end
                          /\ \A i \in j + 1..N : ranges[i][1] > w.end
    BY <1>7, <1>10
  <2> DEFINE c == ranges[j][2]
  <2>2. c \in Nat /\ Has(ranges, c)
    BY <1>1 DEF Has
  <2>3. ASSUME NEW h \in Nat, c < h, h <= w.end, NEW i \in 1..N,
               ranges[i][1] <= h, h <= ranges[i][2]
        PROVE  FALSE
    <3>1. w.end \in Int
      BY <1>7, <1>8
    <3>2. CASE i > j
      <4>1. i \in j + 1..N
        BY <1>1, <3>2
      <4> QED
        BY <1>1, <2>1, <2>3, <3>1, <4>1
    <3>3. CASE i = j
      BY <1>1, <2>3, <3>3
    <3>4. CASE i < j
      <4>1. ranges[i][2] + 1 < ranges[j][1] /\ ranges[j][1] <= c
        BY <1>1, <1>2, <3>4
      <4> QED
        BY <1>1, <2>2, <2>3, <4>1
    <3> QED
      BY <1>1, <3>2, <3>3, <3>4
  <2>4. \A h \in Nat : c < h /\ h <= w.end => ~ Has(ranges, h)
    BY <1>1, <2>3 DEF Has
  <2> HIDE DEF c
  <2>5. w.bound = {c + 1} /\ c < w.end
    BY <2>1 DEF c
  <2> QED
    BY <1>7, <1>8, <2>2, <2>4, <2>5
<1> QED
  BY <1>8, <1>9, <1>10

(* The same for WalkUp. *)
WalksUp == [start : Int, bound : SUBSET Int]

LEMMA WalkUpStep ==
  ASSUME NEW ranges \in Seq(BlockRange), NEW low \in Nat, NEW W, W = WalkUp(ranges, low)
  PROVE  \A n \in 0..Len(ranges) :
           /\ W[n] \in WalksUp
           /\ n = 0 => W[n] = [start |-> low, bound |-> {}]
           /\ n # 0 => W[n] = StepUp(W[n - 1], ranges[n])
<1> DEFINE N == Len(ranges)
           S == WalksUp
           start == [start |-> low, bound |-> {}]
           G == [n \in 1..N |-> [w \in S |-> StepUp(w, ranges[n])]]
           Solves(f) == f = [n \in 0..N |-> IF n = 0 THEN start ELSE StepUp(f[n - 1], ranges[n])]
<1>1. ASSUME NEW w \in S, NEW r \in BlockRange
      PROVE  StepUp(w, r) \in S
  <2>1. r[1] \in Int /\ r[2] \in Int
    BY DEF BlockRange
  <2> QED
    BY <2>1 DEF StepUp, WalksUp
<1>2. N \in Nat /\ start \in S
  BY DEF WalksUp
<1>3. ASSUME NEW n \in 1..N
      PROVE  n - 1 \in 0..N /\ ranges[n] \in BlockRange
  BY <1>2
<1>4. Steps(G, N, S)
  BY <1>1, <1>3 DEF Steps
<1>5. PICK g : Solution(g, N, S, start, G)
  <2>1. N \in Nat
    BY <1>2
  <2>2. start \in S
    BY <1>2
  <2> HIDE DEF N, S, G, start
  <2> QED
    BY <2>1, <2>2, <1>4, Recursion
<1> HIDE DEF start, S
<1>6. Solves(g) /\ g \in [0..N -> S]
  <2>1. g \in [0..N -> S] /\ g[0] = start
    BY <1>5 DEF Solution
  <2>2. ASSUME NEW n \in 1..N
        PROVE  g[n] = StepUp(g[n - 1], ranges[n])
    <3>1. g[n] = G[n][g[n - 1]] /\ g[n - 1] \in S
      BY <1>3, <1>5, <2>1 DEF Solution
    <3> QED
      BY <3>1
  <2> DEFINE h == [n \in 0..N |-> IF n = 0 THEN start ELSE StepUp(g[n - 1], ranges[n])]
  <2>3. \A n \in 0..N : n # 0 => n \in 1..N
    BY <1>2
  <2>4. \A n \in 0..N : g[n] = IF n = 0 THEN start ELSE StepUp(g[n - 1], ranges[n])
    BY <2>1, <2>2, <2>3
  <2>5. g = [n \in 0..N |-> g[n]] /\ [n \in 0..N |-> g[n]] = h
    BY <2>1, <2>4
  <2> QED
    BY <2>1, <2>5
<1>7. W = CHOOSE f : Solves(f)
  BY DEF WalkUp, start
<1>8. Solves(W)
  <2> HIDE DEF Solves
  <2> QED
    BY <1>6, <1>7
<1>9. \A n \in 0..N : /\ n = 0 => W[n] = start
                      /\ n # 0 => W[n] = StepUp(W[n - 1], ranges[n])
  BY <1>8
<1> DEFINE T == {n \in 0..N : W[n] \in S}
<1>10. 0 \in T
  BY <1>2, <1>9
<1>11. ASSUME NEW n \in 0..N - 1, n \in T
       PROVE  n + 1 \in T
  <2>1. n + 1 \in 0..N /\ n + 1 # 0 /\ n + 1 \in 1..N /\ (n + 1) - 1 = n
    BY <1>2
  <2>2. ranges[n + 1] \in BlockRange
    BY <1>3, <2>1
  <2>3. W[n + 1] = StepUp(W[n], ranges[n + 1])
    BY <1>9, <2>1
  <2> HIDE DEF N
  <2> QED
    BY <1>1, <1>11, <2>1, <2>2, <2>3
<1>12. \A n \in 0..N : n \in T
  <2> HIDE DEF T
  <2>1. \A n \in 0..N - 1 : n \in T => n + 1 \in T
    BY <1>11
  <2>2. N \in Nat
    BY <1>2
  <2> QED
    BY ONLY <1>10, <2>1, <2>2, ByCounting
<1> QED
  BY <1>9, <1>12 DEF start, S

(* Where the walk up ends: at the oldest height the ranges miss, with the  *)
(* begin of the oldest range above it, if there is one.                    *)
LEMMA WalkUpEnds ==
  ASSUME NEW ranges \in Seq(BlockRange), Canonical(ranges), NEW low \in Nat,
         NEW w, w = WalkUp(ranges, low)[Len(ranges)]
  PROVE  /\ w.start \in Int /\ low <= w.start
         /\ \A h \in Nat : low <= h /\ h < w.start => Has(ranges, h)
         /\ \/ w.bound = {} /\ \A h \in Nat : w.start <= h => ~ Has(ranges, h)
            \/ \E c \in Nat : /\ w.bound = {c - 1} /\ w.start < c /\ Has(ranges, c)
                              /\ \A h \in Nat : w.start <= h /\ h < c => ~ Has(ranges, h)
<1> DEFINE N == Len(ranges)
           W == WalkUp(ranges, low)
           Begin(n) == /\ W[n].start \in Int /\ low <= W[n].start
                       /\ \A h \in Nat : low <= h /\ h < W[n].start => Has(ranges, h)
           Free(n) == W[n].bound = {} /\ \A i \in 1..n : ranges[i][2] < W[n].start
           Bound(n) == \E j \in 1..N : /\ W[n].bound = {ranges[j][1] - 1} /\ W[n].start < ranges[j][1]
                                       /\ \A i \in 1..j - 1 : ranges[i][2] < W[n].start
           Good(n) == Begin(n) /\ (Free(n) \/ Bound(n))
           T == {n \in 0..N : Good(n)}
<1>1. /\ N \in Nat /\ DOMAIN ranges = 1..N
      /\ \A i \in 1..N : /\ ranges[i][1] \in Nat /\ ranges[i][2] \in Nat
                         /\ ranges[i][1] <= ranges[i][2]
  BY DEF BlockRange
<1>2. \A i, j \in 1..N : i < j => ranges[i][2] + 1 < ranges[j][1]
  BY <1>1 DEF Canonical
<1>3. \A n \in 0..N : /\ W[n] \in WalksUp
                      /\ n = 0 => W[n] = [start |-> low, bound |-> {}]
                      /\ n # 0 => W[n] = StepUp(W[n - 1], ranges[n])
  BY WalkUpStep
<1> HIDE DEF N, W
<1>4. Good(0)
  BY <1>1, <1>3
<1>5. ASSUME NEW n \in 0..N - 1, Good(n)
      PROVE  Good(n + 1)
  <2> DEFINE k == n + 1
             r == ranges[k]
             v == W[n]
             w2 == W[n + 1]
  <2>1. k \in 1..N /\ n \in 0..N /\ n + 1 \in 0..N /\ n + 1 # 0 /\ (n + 1) - 1 = n /\ k - 1 = n
    BY <1>1
  <2>2. r[1] \in Nat /\ r[2] \in Nat /\ r[1] <= r[2]
    BY <1>1, <2>1
  <2>3. w2 = StepUp(v, r) /\ v \in WalksUp
    BY <1>3, <2>1
  <2>4. v.start \in Int /\ low <= v.start
    BY <1>5
  <2>5. CASE v.bound # {} \/ r[2] < v.start
    <3>1. w2 = v
      BY <2>3, <2>5 DEF StepUp
    <3>2. Begin(n + 1)
      BY <1>5, <3>1
    <3>3. CASE Bound(n)
      BY <3>1, <3>2, <3>3
    <3>4. CASE Free(n)
      <4>1. r[2] < v.start
        BY <2>5, <3>4
      <4>2. \A i \in 1..k : i = k \/ i \in 1..n
        BY <1>1, <2>1
      <4>3. \A i \in 1..k : ranges[i][2] < v.start
        BY <2>1, <3>4, <4>1, <4>2
      <4>4. Free(n + 1)
        BY <2>1, <3>1, <3>4, <4>3
      <4> QED
        BY <3>2, <4>4
    <3> QED
      BY <1>5, <3>3, <3>4
  <2>6. CASE v.bound = {} /\ ~ r[2] < v.start /\ r[1] <= v.start
    <3>1. w2.start = r[2] + 1 /\ w2.bound = {}
      BY <2>2, <2>3, <2>4, <2>6 DEF StepUp, WalksUp
    <3>2. Begin(n + 1)
      <4>1. w2.start \in Int /\ low <= w2.start
        BY <2>2, <2>4, <2>6, <3>1
      <4>2. ASSUME NEW h \in Nat, low <= h, h < w2.start
            PROVE  Has(ranges, h)
        <5>1. CASE h < v.start
          BY <1>5, <2>4, <4>2, <5>1
        <5>2. CASE ~ h < v.start
          <6>1. r[1] <= h /\ h <= r[2]
            BY <2>2, <2>4, <2>6, <3>1, <4>2, <5>2
          <6> QED
            BY <1>1, <2>1, <6>1 DEF Has
        <5> QED
          BY <5>1, <5>2
      <4> QED
        BY <4>1, <4>2
    <3>3. Free(n + 1)
      <4>1. ASSUME NEW i \in 1..k
            PROVE  ranges[i][2] < r[2] + 1
        <5>1. i \in 1..N /\ (i = k \/ i < k)
          BY <1>1, <2>1
        <5>2. CASE i = k
          BY <2>2, <5>2
        <5>3. CASE i < k
          <6>1. ranges[i][2] + 1 < r[1]
            BY <1>2, <2>1, <5>1, <5>3
          <6> QED
            BY <1>1, <2>2, <5>1, <6>1
        <5> QED
          BY <5>1, <5>2, <5>3
      <4> QED
        BY <2>1, <3>1, <4>1
    <3> QED
      BY <3>2, <3>3
  <2>7. CASE v.bound = {} /\ ~ r[2] < v.start /\ ~ r[1] <= v.start
    <3>1. w2.start = v.start /\ w2.bound = {r[1] - 1}
      BY <2>2, <2>3, <2>4, <2>7 DEF StepUp, WalksUp
    <3>2. Begin(n + 1)
      BY <1>5, <3>1
    <3>3. Free(n)
      BY <1>5, <2>7
    <3>4. v.start < r[1] /\ \A i \in 1..k - 1 : ranges[i][2] < v.start
      BY <2>1, <2>2, <2>4, <2>7, <3>3
    <3>5. Bound(n + 1)
      BY <2>1, <3>1, <3>4
    <3> QED
      BY <3>2, <3>5
  <2> HIDE DEF Good
  <2> QED
    BY <2>2, <2>4, <2>5, <2>6, <2>7
<1>6. Good(N)
  <2> HIDE DEF Good
  <2>1. 0 \in T /\ \A n \in 0..N - 1 : n \in T => n + 1 \in T
    BY <1>1, <1>4, <1>5
  <2> HIDE DEF T
  <2>2. \A n \in 0..N : n \in T
    BY ONLY <1>1, <2>1, ByCounting
  <2>3. N \in 0..N
    BY <1>1
  <2> QED
    BY <2>2, <2>3 DEF T
<1>7. w = W[N]
  BY DEF W, N
<1>8. Begin(N) /\ (Free(N) \/ Bound(N))
  BY <1>6
<1>9. CASE Free(N)
  <2>1. \A i \in 1..N : ranges[i][2] < w.start
    BY <1>1, <1>7, <1>9
  <2>2. \A h \in Nat : w.start <= h => ~ Has(ranges, h)
    BY <1>1, <1>7, <1>8, <2>1 DEF Has
  <2> QED
    BY <1>7, <1>8, <1>9, <2>2
<1>10. CASE Bound(N)
  <2>1. PICK j \in 1..N : /\ w.bound = {ranges[j][1] - 1} /\ w.start < ranges[j][1]
                          /\ \A i \in 1..j - 1 : ranges[i][2] < w.start
    BY <1>7, <1>10
  <2> DEFINE c == ranges[j][1]
  <2>2. c \in Nat /\ Has(ranges, c)
    <3>1. ranges[j][1] <= c /\ c <= ranges[j][2] /\ c \in Nat
      BY <1>1
    <3> HIDE DEF c
    <3> QED
      BY <1>1, <3>1 DEF Has
  <2>3. ASSUME NEW h \in Nat, w.start <= h, h < c, NEW i \in 1..N,
               ranges[i][1] <= h, h <= ranges[i][2]
        PROVE  FALSE
    <3>1. w.start \in Int
      BY <1>7, <1>8
    <3>2. CASE i < j
      <4>1. i \in 1..j - 1
        BY <1>1, <3>2
      <4> QED
        BY <1>1, <2>1, <2>3, <3>1, <4>1
    <3>3. CASE i = j
      BY <1>1, <2>3, <3>3
    <3>4. CASE j < i
      <4>1. ranges[j][2] + 1 < ranges[i][1] /\ c <= ranges[j][2]
        BY <1>1, <1>2, <3>4
      <4> QED
        BY <1>1, <2>2, <2>3, <4>1
    <3> QED
      BY <1>1, <3>2, <3>3, <3>4
  <2>4. \A h \in Nat : w.start <= h /\ h < c => ~ Has(ranges, h)
    BY <1>1, <2>3 DEF Has
  <2> HIDE DEF c
  <2>5. w.bound = {c - 1} /\ w.start < c
    BY <2>1 DEF c
  <2> QED
    BY <1>7, <1>8, <2>2, <2>4, <2>5
<1> QED
  BY <1>8, <1>9, <1>10

LEMMA MaxIs ==
  ASSUME NEW S \in SUBSET Int, NEW m \in S, \A x \in S : x <= m
  PROVE  Max(S) = m
<1>1. \A x \in S : (\A y \in S : x >= y) => x = m
  OBVIOUS
<1>2. \A y \in S : m >= y
  OBVIOUS
<1> QED
  BY <1>1, <1>2 DEF Max

LEMMA MinIs ==
  ASSUME NEW S \in SUBSET Int, NEW m \in S, \A x \in S : m <= x
  PROVE  Min(S) = m
<1>1. \A x \in S : (\A y \in S : x =< y) => x = m
  OBVIOUS
<1>2. \A y \in S : m =< y
  OBVIOUS
<1> QED
  BY <1>1, <1>2 DEF Min

(* Searched on the ranges, the next range backward is the newest one that  *)
(* the heights miss.                                                       *)
THEOREM MissingIsExact ==
  ASSUME NEW ranges \in Seq(BlockRange), Canonical(ranges),
         NEW low \in Nat, NEW high \in Nat, NEW size \in Nat \ {0}
  PROVE  MissingRangeOf(ranges, low, high, size) =
           MissingRange(Covered(ranges), low, high, size)
<1> DEFINE C == Covered(ranges)
           w == WalkDown(ranges, high)[Len(ranges)]
           e == w.end
           missing == (low..high) \ C
<1>1. /\ e \in Int /\ e <= high
      /\ \A h \in Nat : e < h /\ h <= high => Has(ranges, h)
      /\ \/ w.bound = {} /\ \A h \in Nat : h <= e => ~ Has(ranges, h)
         \/ \E c \in Nat : /\ w.bound = {c + 1} /\ c < e /\ Has(ranges, c)
                           /\ \A h \in Nat : c < h /\ h <= e => ~ Has(ranges, h)
  BY WalkDownEnds
<1>2. \A h \in Nat : h \in C <=> Has(ranges, h)
  BY CoveredHas
<1>3. MissingRangeOf(ranges, low, high, size) =
        IF e < low THEN <<>> ELSE <<Max({e - size + 1, low} \cup w.bound), e>>
  BY DEF MissingRangeOf
<1> HIDE DEF w, C
<1>4. CASE e < low
  <2>1. \A h \in low..high : h \in C
    BY <1>1, <1>2, <1>4
  <2>2. missing = {}
    BY <2>1
  <2> QED
    BY <1>3, <1>4, <2>2 DEF MissingRange, C
<1>5. CASE ~ e < low
  <2> DEFINE F == {n \in low..e : n..e \subseteq missing /\ e - n < size}
             B == {e - size + 1, low} \cup w.bound
  <2>1. e \in Nat /\ low <= e
    BY <1>1, <1>5
  <2>2. \A h \in missing : h \in Nat /\ h <= e
    BY <1>1, <1>2, <2>1
  <2>3. e \in missing
    <3>1. ~ Has(ranges, e)
      BY <1>1, <2>1
    <3> QED
      BY <1>1, <1>2, <2>1, <3>1
  <2>4. Max(missing) = e
    <3>1. missing \in SUBSET Int
      OBVIOUS
    <3>2. \A x \in missing : x <= e
      BY <2>2
    <3> HIDE DEF missing
    <3> QED
      BY <2>3, <3>1, <3>2, MaxIs
  <2>5. \E m \in B : /\ B \in SUBSET Int /\ \A x \in B : x <= m
                     /\ m \in F /\ \A n \in F : m <= n
    <3> DEFINE a == IF e - size + 1 > low THEN e - size + 1 ELSE low
    <3>1. a \in Nat /\ low <= a /\ a <= e /\ e - a < size /\ a \in {e - size + 1, low}
          /\ \A x \in {e - size + 1, low} : x \in Int /\ x <= a
      BY <2>1
    <3>2. \A n \in F : n \in Nat /\ a <= n /\ n <= e /\ n..e \subseteq missing
      BY <2>1
    <3>3. ASSUME NEW n \in Nat, a <= n, n <= e, \A h \in Nat : n <= h /\ h <= e => ~ Has(ranges, h)
          PROVE  n \in F
      <4>1. \A h \in n..e : h \in missing
        BY <1>1, <1>2, <2>1, <3>1, <3>3
      <4>2. n \in low..e /\ e - n < size
        BY <2>1, <3>1, <3>3
      <4> QED
        BY <4>1, <4>2
    <3> HIDE DEF a, F
    <3>4. CASE w.bound = {} /\ \A h \in Nat : h <= e => ~ Has(ranges, h)
      <4>1. a \in F
        BY <3>1, <3>3, <3>4
      <4>2. B = {e - size + 1, low}
        BY <3>4
      <4> QED
        BY <3>1, <3>2, <4>1, <4>2
    <3>5. CASE \E c \in Nat : /\ w.bound = {c + 1} /\ c < e /\ Has(ranges, c)
                              /\ \A h \in Nat : c < h /\ h <= e => ~ Has(ranges, h)
      <4>1. PICK c \in Nat : /\ w.bound = {c + 1} /\ c < e /\ Has(ranges, c)
                             /\ \A h \in Nat : c < h /\ h <= e => ~ Has(ranges, h)
        BY <3>5
      <4> DEFINE m == IF a > c + 1 THEN a ELSE c + 1
      <4>2. m \in Nat /\ a <= m /\ c < m /\ m <= e /\ m \in B
            /\ B \in SUBSET Int /\ \A x \in B : x <= m
        BY <2>1, <3>1, <4>1
      <4>3. m \in F
        <5> HIDE DEF m
        <5> QED
          BY <2>1, <3>3, <4>1, <4>2
      <4>4. ASSUME NEW n \in F, ~ m <= n
            PROVE  FALSE
        <5>1. n \in Nat /\ a <= n /\ n <= c
          BY <3>1, <3>2, <4>1, <4>4
        <5>2. c \in n..e
          BY <2>1, <4>1, <5>1
        <5>3. c \in missing
          BY <3>2, <5>2
        <5> QED
          BY <1>2, <4>1, <5>3
      <4> HIDE DEF m
      <4> QED
        BY <4>2, <4>3, <4>4
    <3> QED
      BY <1>1, <3>4, <3>5
  <2>6. PICK m \in B : /\ B \in SUBSET Int /\ \A x \in B : x <= m
                       /\ m \in F /\ \A n \in F : m <= n
    BY <2>5
  <2>7. Max(B) = m /\ Min(F) = m
    <3>1. F \in SUBSET Int
      BY <1>1
    <3> HIDE DEF B, F
    <3> QED
      BY <2>6, <3>1, MaxIs, MinIs
  <2>8. missing # {}
    BY <2>3
  <2>9. MissingRange(C, low, high, size) = <<Min(F), e>>
    BY <2>4, <2>8 DEF MissingRange
  <2> QED
    BY <1>3, <1>5, <2>7, <2>9 DEF C
<1> QED
  BY <1>4, <1>5

(* Searched on the ranges, the next range forward is the oldest one that   *)
(* the heights miss.                                                       *)
THEOREM MissingForwardIsExact ==
  ASSUME NEW ranges \in Seq(BlockRange), Canonical(ranges),
         NEW low \in Nat, NEW high \in Nat, NEW size \in Nat \ {0}
  PROVE  MissingForwardRangeOf(ranges, low, high, size) =
           MissingForwardRange(Covered(ranges), low, high, size)
<1> DEFINE C == Covered(ranges)
           w == WalkUp(ranges, low)[Len(ranges)]
           b == w.start
           missing == (low..high) \ C
<1>1. /\ b \in Int /\ low <= b
      /\ \A h \in Nat : low <= h /\ h < b => Has(ranges, h)
      /\ \/ w.bound = {} /\ \A h \in Nat : b <= h => ~ Has(ranges, h)
         \/ \E c \in Nat : /\ w.bound = {c - 1} /\ b < c /\ Has(ranges, c)
                           /\ \A h \in Nat : b <= h /\ h < c => ~ Has(ranges, h)
  BY WalkUpEnds
<1>2. \A h \in Nat : h \in C <=> Has(ranges, h)
  BY CoveredHas
<1>3. MissingForwardRangeOf(ranges, low, high, size) =
        IF b > high THEN <<>> ELSE <<b, Min({b + size - 1, high} \cup w.bound)>>
  BY DEF MissingForwardRangeOf
<1> HIDE DEF w, C
<1>4. CASE b > high
  <2>1. \A h \in low..high : h \in C
    BY <1>1, <1>2, <1>4
  <2>2. missing = {}
    BY <2>1
  <2> QED
    BY <1>3, <1>4, <2>2 DEF MissingForwardRange, C
<1>5. CASE ~ b > high
  <2> DEFINE F == {n \in b..high : b..n \subseteq missing /\ n - b < size}
             B == {b + size - 1, high} \cup w.bound
  <2>1. b \in Nat /\ b <= high
    BY <1>1, <1>5
  <2>2. \A h \in missing : h \in Nat /\ b <= h
    BY <1>1, <1>2, <2>1
  <2>3. b \in missing
    <3>1. ~ Has(ranges, b)
      BY <1>1, <2>1
    <3> QED
      BY <1>1, <1>2, <2>1, <3>1
  <2>4. Min(missing) = b
    <3>1. missing \in SUBSET Int
      OBVIOUS
    <3>2. \A x \in missing : b <= x
      BY <2>2
    <3> HIDE DEF missing
    <3> QED
      BY <2>3, <3>1, <3>2, MinIs
  <2>5. \E m \in B : /\ B \in SUBSET Int /\ \A x \in B : m <= x
                     /\ m \in F /\ \A n \in F : n <= m
    <3> DEFINE a == IF b + size - 1 < high THEN b + size - 1 ELSE high
    <3>1. a \in Nat /\ b <= a /\ a <= high /\ a - b < size /\ a \in {b + size - 1, high}
          /\ \A x \in {b + size - 1, high} : x \in Int /\ a <= x
      BY <2>1
    <3>2. \A n \in F : n \in Nat /\ n <= a /\ b <= n /\ b..n \subseteq missing
      BY <2>1
    <3>3. ASSUME NEW n \in Nat, n <= a, b <= n, \A h \in Nat : b <= h /\ h <= n => ~ Has(ranges, h)
          PROVE  n \in F
      <4>1. \A h \in b..n : h \in missing
        BY <1>1, <1>2, <2>1, <3>1, <3>3
      <4>2. n \in b..high /\ n - b < size
        BY <2>1, <3>1, <3>3
      <4> QED
        BY <4>1, <4>2
    <3> HIDE DEF a, F
    <3>4. CASE w.bound = {} /\ \A h \in Nat : b <= h => ~ Has(ranges, h)
      <4>1. a \in F
        BY <3>1, <3>3, <3>4
      <4>2. B = {b + size - 1, high}
        BY <3>4
      <4> QED
        BY <3>1, <3>2, <4>1, <4>2
    <3>5. CASE \E c \in Nat : /\ w.bound = {c - 1} /\ b < c /\ Has(ranges, c)
                              /\ \A h \in Nat : b <= h /\ h < c => ~ Has(ranges, h)
      <4>1. PICK c \in Nat : /\ w.bound = {c - 1} /\ b < c /\ Has(ranges, c)
                             /\ \A h \in Nat : b <= h /\ h < c => ~ Has(ranges, h)
        BY <3>5
      <4> DEFINE m == IF a < c - 1 THEN a ELSE c - 1
      <4>2. m \in Nat /\ m <= a /\ m < c /\ b <= m /\ m \in B
            /\ B \in SUBSET Int /\ \A x \in B : m <= x
        BY <2>1, <3>1, <4>1
      <4>3. m \in F
        <5> HIDE DEF m
        <5> QED
          BY <2>1, <3>3, <4>1, <4>2
      <4>4. ASSUME NEW n \in F, ~ n <= m
            PROVE  FALSE
        <5>1. n \in Nat /\ n <= a /\ c <= n
          BY <3>1, <3>2, <4>1, <4>4
        <5>2. c \in b..n
          BY <2>1, <4>1, <5>1
        <5>3. c \in missing
          BY <3>2, <5>2
        <5> QED
          BY <1>2, <4>1, <5>3
      <4> HIDE DEF m
      <4> QED
        BY <4>2, <4>3, <4>4
    <3> QED
      BY <1>1, <3>4, <3>5
  <2>6. PICK m \in B : /\ B \in SUBSET Int /\ \A x \in B : m <= x
                       /\ m \in F /\ \A n \in F : n <= m
    BY <2>5
  <2>7. Min(B) = m /\ Max(F) = m
    <3>1. F \in SUBSET Int
      BY <1>1
    <3> HIDE DEF B, F
    <3> QED
      BY <2>6, <3>1, MaxIs, MinIs
  <2>8. missing # {}
    BY <2>3
  <2>9. MissingForwardRange(C, low, high, size) = <<b, Max(F)>>
    BY <2>4, <2>8 DEF MissingForwardRange
  <2> QED
    BY <1>3, <1>5, <2>7, <2>9 DEF C
<1> QED
  BY <1>4, <1>5

-----------------------------------------------------------------------------
(* Places of pages along the direction.  The height h is at Pos(h), a page *)
(* fills the places from Begins up to Ends.                                *)
Pos(h) == IF Forward THEN h ELSE -h
Begins(page) == Pos(Near(page))
Ends(page) == Pos(Beyond(page))
Apart(p, q) == Ends(p) <= Begins(q) \/ Ends(q) <= Begins(p)

(* The pages or chunks of s fill the places from a up to e, in their order. *)
Tiled(s, a, e) ==
  /\ s \in Seq(BlockRange)
  /\ s = <<>> => a = e
  /\ s # <<>> => Begins(s[1]) = a /\ Ends(s[Len(s)]) = e
  /\ \A i \in 1..Len(s) - 1 : Ends(s[i]) = Begins(s[i + 1])
  /\ \A i, j \in 1..Len(s) : i < j => Ends(s[i]) <= Begins(s[j])

LEMMA PageEnds ==
  ASSUME NEW p \in BlockRange
  PROVE  /\ Begins(p) \in Int /\ Ends(p) \in Int /\ Begins(p) < Ends(p)
         /\ Near(p) \in Nat /\ Beyond(p) \in Int
         /\ \A h \in Int : h \in HeightsOf(p) <=> Begins(p) <= Pos(h) /\ Pos(h) < Ends(p)
BY DEF BlockRange, Begins, Ends, Pos, Near, Beyond, HeightsOf

LEMMA PosType ==
  /\ \A h \in Int : Pos(h) \in Int
  /\ \A h, k \in Int : Pos(h) = Pos(k) => h = k
BY DEF Pos

LEMMA TiledTail ==
  ASSUME NEW s, NEW a, NEW e, Tiled(s, a, e), s # <<>>
  PROVE  Tiled(Tail(s), Ends(Head(s)), e) /\ Head(s) \in BlockRange /\ Begins(Head(s)) = a
<1> DEFINE t == Tail(s)
           n == Len(s)
<1>1. s \in Seq(BlockRange) /\ n \in Nat /\ n >= 1 /\ DOMAIN s = 1..n
  BY DEF Tiled
<1>2. /\ t \in Seq(BlockRange) /\ Len(t) = n - 1 /\ DOMAIN t = 1..n - 1
      /\ \A i \in 1..n - 1 : t[i] = s[i + 1]
  BY <1>1
<1>3. Head(s) = s[1] /\ s[1] \in BlockRange
  BY <1>1
<1>4. /\ \A i \in 1..n - 1 : Ends(s[i]) = Begins(s[i + 1])
      /\ \A i, j \in 1..n : i < j => Ends(s[i]) <= Begins(s[j])
      /\ Begins(s[1]) = a /\ Ends(s[n]) = e
  BY DEF Tiled
<1> HIDE DEF t, n
<1>5. t = <<>> => Ends(s[1]) = e
  BY <1>1, <1>2, <1>4
<1>6. t # <<>> => Begins(t[1]) = Ends(s[1]) /\ Ends(t[Len(t)]) = e
  <2> SUFFICES ASSUME t # <<>>
               PROVE  Begins(t[1]) = Ends(s[1]) /\ Ends(t[Len(t)]) = e
    OBVIOUS
  <2>1. n - 1 >= 1
    BY <1>1, <1>2
  <2>2. t[1] = s[2] /\ t[n - 1] = s[n]
    BY <1>1, <1>2, <2>1
  <2>3. Ends(s[1]) = Begins(s[2])
    BY <1>1, <1>4, <2>1
  <2> QED
    BY <1>2, <1>4, <2>2, <2>3
<1>7. \A i \in 1..Len(t) - 1 : Ends(t[i]) = Begins(t[i + 1])
  <2> SUFFICES ASSUME NEW i \in 1..n - 2
               PROVE  Ends(t[i]) = Begins(t[i + 1])
    BY <1>1, <1>2
  <2>1. t[i] = s[i + 1] /\ t[i + 1] = s[i + 2] /\ i + 1 \in 1..n - 1 /\ (i + 1) + 1 = i + 2
    BY <1>1, <1>2
  <2> QED
    BY <1>4, <2>1
<1>8. \A i, j \in 1..Len(t) : i < j => Ends(t[i]) <= Begins(t[j])
  <2> SUFFICES ASSUME NEW i \in 1..n - 1, NEW j \in 1..n - 1, i < j
               PROVE  Ends(t[i]) <= Begins(t[j])
    BY <1>1, <1>2
  <2>1. t[i] = s[i + 1] /\ t[j] = s[j + 1] /\ i + 1 \in 1..n /\ j + 1 \in 1..n /\ i + 1 < j + 1
    BY <1>1, <1>2
  <2> QED
    BY <1>4, <2>1
<1> QED
  BY <1>2, <1>3, <1>4, <1>5, <1>6, <1>7, <1>8 DEF t, Tiled

(* Each of the places is in one page. *)
LEMMA TiledWithin ==
  ASSUME NEW s, NEW a \in Int, NEW e \in Int, Tiled(s, a, e)
  PROVE  /\ a <= e /\ (s # <<>> => a < e)
         /\ \A i \in 1..Len(s) : /\ s[i] \in BlockRange
                                 /\ a <= Begins(s[i]) /\ Ends(s[i]) <= e
         /\ \A x \in Int : a <= x /\ x < e =>
              \E i \in 1..Len(s) : Begins(s[i]) <= x /\ x < Ends(s[i])
<1> DEFINE n == Len(s)
<1>1. s \in Seq(BlockRange) /\ n \in Nat /\ DOMAIN s = 1..n
  BY DEF Tiled
<1>2. \A i \in 1..n : s[i] \in BlockRange
  BY <1>1
<1>3. \A i \in 1..n : Begins(s[i]) \in Int /\ Ends(s[i]) \in Int /\ Begins(s[i]) < Ends(s[i])
  BY <1>2, PageEnds
<1>4. /\ s = <<>> => a = e
      /\ n # 0 => Begins(s[1]) = a /\ Ends(s[n]) = e
      /\ \A i \in 1..n - 1 : Ends(s[i]) = Begins(s[i + 1])
      /\ \A i, j \in 1..n : i < j => Ends(s[i]) <= Begins(s[j])
  BY <1>1 DEF Tiled
<1>5. n = 0 <=> s = <<>>
  BY <1>1
<1> HIDE DEF n
<1>6. ASSUME NEW i \in 1..n
      PROVE  a <= Begins(s[i]) /\ Ends(s[i]) <= e
  <2>1. 1 \in 1..n /\ n \in 1..n /\ n # 0
    BY <1>1
  <2>2. i = 1 \/ 1 < i
    BY <1>1
  <2>3. i = n \/ i < n
    BY <1>1
  <2>4. a <= Begins(s[i])
    BY <1>3, <1>4, <2>1, <2>2
  <2>5. Ends(s[i]) <= e
    BY <1>3, <1>4, <2>1, <2>3
  <2> QED
    BY <2>4, <2>5
<1>7. a <= e /\ (s # <<>> => a < e)
  <2>1. CASE n = 0
    BY <1>4, <1>5, <2>1
  <2>2. CASE n # 0
    <3>1. 1 \in 1..n
      BY <1>1, <2>2
    <3>2. a <= Begins(s[1]) /\ Begins(s[1]) < Ends(s[1]) /\ Ends(s[1]) <= e
          /\ Begins(s[1]) \in Int /\ Ends(s[1]) \in Int
      BY <1>3, <1>6, <3>1
    <3> QED
      BY <3>2
  <2> QED
    BY <2>1, <2>2
<1>8. ASSUME NEW x \in Int, a <= x, x < e
      PROVE  \E i \in 1..n : Begins(s[i]) <= x /\ x < Ends(s[i])
  <2> DEFINE B == {i \in 1..n : x < Ends(s[i])}
  <2>1. n # 0
    BY <1>4, <1>5, <1>8
  <2>2. n \in B
    BY <1>1, <1>4, <1>8, <2>1
  <2>3. PICK i \in B : \A j \in B : i <= j
    <3>1. B \subseteq Nat /\ B # {}
      BY <2>2
    <3> HIDE DEF B
    <3> QED
      BY <3>1, Smallest
  <2>4. i \in 1..n /\ x < Ends(s[i])
    BY <2>3
  <2>5. CASE i = 1
    BY <1>4, <1>8, <2>1, <2>4, <2>5
  <2>6. CASE i # 1
    <3>1. i - 1 \in 1..n - 1 /\ i - 1 \in 1..n /\ (i - 1) + 1 = i
      BY <1>1, <2>4, <2>6
    <3>2. i - 1 \notin B
      BY <2>3, <2>4
    <3>3. ~ x < Ends(s[i - 1]) /\ Ends(s[i - 1]) = Begins(s[i])
      BY <1>4, <3>1, <3>2
    <3>4. Begins(s[i]) <= x
      BY <1>3, <2>4, <3>3
    <3> QED
      BY <2>4, <3>4
  <2> QED
    BY <2>5, <2>6
<1> QED
  BY <1>2, <1>6, <1>7, <1>8 DEF n

LEMMA TiledJoin ==
  ASSUME NEW s, NEW t, NEW a \in Int, NEW b \in Int, NEW e \in Int,
         Tiled(s, a, b), Tiled(t, b, e)
  PROVE  Tiled(s \o t, a, e)
<1> DEFINE m == Len(s)
           n == Len(t)
           u == s \o t
<1>1. /\ s \in Seq(BlockRange) /\ m \in Nat /\ DOMAIN s = 1..m
      /\ t \in Seq(BlockRange) /\ n \in Nat /\ DOMAIN t = 1..n
  BY DEF Tiled
<1>2. /\ u \in Seq(BlockRange) /\ Len(u) = m + n
      /\ \A i \in 1..m : u[i] = s[i]
      /\ \A i \in 1..n : u[m + i] = t[i]
  BY <1>1
<1>3. /\ m = 0 => a = b
      /\ m # 0 => Begins(s[1]) = a /\ Ends(s[m]) = b
      /\ n = 0 => b = e
      /\ n # 0 => Begins(t[1]) = b /\ Ends(t[n]) = e
      /\ \A i \in 1..m - 1 : Ends(s[i]) = Begins(s[i + 1])
      /\ \A i \in 1..n - 1 : Ends(t[i]) = Begins(t[i + 1])
      /\ \A i, j \in 1..m : i < j => Ends(s[i]) <= Begins(s[j])
      /\ \A i, j \in 1..n : i < j => Ends(t[i]) <= Begins(t[j])
  BY <1>1 DEF Tiled
<1>4. /\ \A i \in 1..m : Ends(s[i]) <= b /\ Ends(s[i]) \in Int
      /\ \A i \in 1..n : b <= Begins(t[i]) /\ Begins(t[i]) \in Int
  <2>1. /\ \A i \in 1..m : s[i] \in BlockRange /\ Ends(s[i]) <= b
        /\ \A i \in 1..n : t[i] \in BlockRange /\ b <= Begins(t[i])
    BY TiledWithin
  <2> QED
    BY <2>1, PageEnds
<1>5. u = <<>> <=> m + n = 0
  BY <1>1, <1>2
<1> HIDE DEF m, n, u
<1>6. \A i \in 1..m + n : i \in 1..m \/ (i - m \in 1..n /\ m + (i - m) = i)
  BY <1>1
<1>7. \A i \in 1..m + n : i \notin 1..m => u[i] = t[i - m]
  BY <1>2, <1>6
<1>8. u = <<>> => a = e
  BY <1>1, <1>3, <1>5
<1>9. u # <<>> => Begins(u[1]) = a /\ Ends(u[Len(u)]) = e
  <2> SUFFICES ASSUME m + n # 0
               PROVE  Begins(u[1]) = a /\ Ends(u[m + n]) = e
    BY <1>2, <1>5
  <2>1. Begins(u[1]) = a
    <3>1. CASE m = 0
      <4>1. 1 \in 1..n /\ m + 1 = 1 /\ n # 0
        BY <1>1, <3>1
      <4> QED
        BY <1>2, <1>3, <3>1, <4>1
    <3>2. CASE m # 0
      BY <1>1, <1>2, <1>3, <3>2
    <3> QED
      BY <3>1, <3>2
  <2>2. Ends(u[m + n]) = e
    <3>1. CASE n = 0
      <4>1. m \in 1..m /\ m + n = m /\ m # 0
        BY <1>1, <3>1
      <4> QED
        BY <1>2, <1>3, <3>1, <4>1
    <3>2. CASE n # 0
      BY <1>1, <1>2, <1>3, <3>2
    <3> QED
      BY <3>1, <3>2
  <2> QED
    BY <2>1, <2>2
<1>10. ASSUME NEW i \in 1..m + n - 1
       PROVE  Ends(u[i]) = Begins(u[i + 1])
  <2>1. CASE i \in 1..m - 1
    <3>1. i \in 1..m /\ i + 1 \in 1..m
      BY <1>1, <2>1
    <3> QED
      BY <1>2, <1>3, <2>1, <3>1
  <2>2. CASE i = m
    <3>1. m \in 1..m /\ 1 \in 1..n /\ m # 0 /\ n # 0
      BY <1>1, <2>2
    <3> QED
      BY <1>2, <1>3, <2>2, <3>1
  <2>3. CASE i > m
    <3>1. i - m \in 1..n - 1 /\ i - m \in 1..n /\ (i - m) + 1 \in 1..n
          /\ m + (i - m) = i /\ m + ((i - m) + 1) = i + 1
      BY <1>1, <2>3
    <3>2. u[i] = t[i - m] /\ u[i + 1] = t[(i - m) + 1]
      BY <1>2, <3>1
    <3> QED
      BY <1>3, <3>1, <3>2
  <2> QED
    BY <1>1, <2>1, <2>2, <2>3
<1>11. ASSUME NEW i \in 1..m + n, NEW j \in 1..m + n, i < j
       PROVE  Ends(u[i]) <= Begins(u[j])
  <2>1. CASE j \in 1..m
    <3>1. i \in 1..m
      BY <1>1, <1>11, <2>1
    <3> QED
      BY <1>2, <1>3, <1>11, <2>1, <3>1
  <2>2. CASE i \in 1..m /\ j \notin 1..m
    <3>1. j - m \in 1..n /\ u[j] = t[j - m] /\ u[i] = s[i]
      BY <1>2, <1>6, <1>7, <2>2
    <3> QED
      BY <1>4, <2>2, <3>1
  <2>3. CASE i \notin 1..m
    <3>1. j \notin 1..m
      BY <1>1, <1>11, <2>3
    <3>2. i - m \in 1..n /\ j - m \in 1..n /\ u[i] = t[i - m] /\ u[j] = t[j - m] /\ i - m < j - m
      BY <1>1, <1>6, <1>7, <1>11, <2>3, <3>1
    <3> QED
      BY <1>3, <3>2
  <2> QED
    BY <2>1, <2>2, <2>3
<1>12. /\ \A i \in 1..Len(u) - 1 : Ends(u[i]) = Begins(u[i + 1])
       /\ \A i, j \in 1..Len(u) : i < j => Ends(u[i]) <= Begins(u[j])
  <2>1. ASSUME NEW i \in 1..Len(u) - 1
        PROVE  Ends(u[i]) = Begins(u[i + 1])
    <3>1. i \in 1..m + n - 1
      BY <1>1, <1>2
    <3> QED
      BY <1>10, <3>1
  <2>2. ASSUME NEW i \in 1..Len(u), NEW j \in 1..Len(u), i < j
        PROVE  Ends(u[i]) <= Begins(u[j])
    <3>1. i \in 1..m + n /\ j \in 1..m + n
      BY <1>2
    <3> QED
      BY <1>11, <2>2, <3>1
  <2> QED
    BY <2>1, <2>2
<1>13. Tiled(u, a, e)
  BY ONLY <1>2, <1>8, <1>9, <1>12 DEF Tiled
<1> QED
  BY <1>13 DEF u

(* The blocks with logs of a page, in the order of the direction. *)
LEMMA EventsOrdered ==
  ASSUME NEW p \in BlockRange, NEW E, E = Events(p)
  PROVE  /\ Len(E) \in Nat /\ DOMAIN E = 1..Len(E) /\ (E = <<>> <=> Len(E) = 0)
         /\ \A k \in 1..Len(E) : E[k] \in Int /\ E[k] \in HeightsOf(p)
         /\ \A k, l \in 1..Len(E) : k < l => Pos(E[k]) < Pos(E[l])
<1> DEFINE S == EventBlocks \cap HeightsOf(p)
           key == [n \in HeightsOf(p) |-> IF Forward THEN n - p[1] ELSE p[2] - n]
           N == Cardinality(S)
<1>1. p[1] \in Nat /\ p[2] \in Nat
  BY DEF BlockRange
<1>2. HeightsOf(p) \subseteq Int /\ IsFiniteSet(HeightsOf(p))
  <2>1. IsFiniteSet(p[1]..p[2])
    BY <1>1, FS_Interval
  <2> QED
    BY <2>1 DEF HeightsOf
<1>3. IsFiniteSet(S) /\ N \in Nat
  <2>1. S \in SUBSET HeightsOf(p)
    OBVIOUS
  <2> HIDE DEF S
  <2> QED
    BY <1>2, <2>1, FS_Subset, FS_CardinalityType
<1>4. \A n \in S : key[n] \in Nat
  BY <1>1 DEF HeightsOf
<1>5. \A m, n \in S : /\ key[m] = key[n] => m = n
                      /\ key[m] < key[n] => Pos(m) < Pos(n)
  BY <1>1 DEF HeightsOf, Pos
<1>6. E = SortedBy(S, key)
  BY DEF Events
<1>7. S \subseteq Int /\ S \subseteq HeightsOf(p)
  BY <1>2
<1> HIDE DEF S, key
<1>8. /\ E \in Seq(S) /\ Len(E) = N
      /\ \A i, j \in 1..N : i < j => key[E[i]] < key[E[j]]
  BY <1>3, <1>4, <1>5, <1>6, Sorted
<1>9. DOMAIN E = 1..N /\ \A k \in 1..N : E[k] \in S
  BY <1>8
<1>10. \A k, l \in 1..N : k < l => Pos(E[k]) < Pos(E[l])
  BY <1>5, <1>8, <1>9
<1>11. E = <<>> <=> Len(E) = 0
  BY <1>8
<1>12. \A k \in 1..N : E[k] \in Int /\ E[k] \in HeightsOf(p)
  BY <1>7, <1>9
<1>13. Len(E) = N
  BY <1>8
<1> HIDE DEF N
<1> QED
  BY ONLY <1>3, <1>9, <1>10, <1>11, <1>12, <1>13

LEMMA BetweenEnds ==
  ASSUME NEW p \in BlockRange, NEW near \in Int, NEW beyond \in Int,
         Begins(p) <= Pos(near), Pos(near) < Pos(beyond), Pos(beyond) <= Ends(p)
  PROVE  /\ Between(near, beyond) \in BlockRange
         /\ Begins(Between(near, beyond)) = Pos(near)
         /\ Ends(Between(near, beyond)) = Pos(beyond)
<1>1. p[1] \in Nat /\ p[2] \in Nat
  BY DEF BlockRange
<1>2. CASE Forward
  <2>1. p[1] <= near /\ near < beyond /\ beyond <= p[2] + 1
    BY <1>1, <1>2 DEF Begins, Ends, Pos, Near, Beyond
  <2>2. Between(near, beyond) = <<near, beyond - 1>>
    BY <1>2 DEF Between
  <2> QED
    BY <1>1, <1>2, <2>1, <2>2 DEF BlockRange, Begins, Ends, Pos, Near, Beyond
<1>3. CASE ~ Forward
  <2>1. near <= p[2] /\ beyond < near /\ p[1] - 1 <= beyond
    BY <1>1, <1>3 DEF Begins, Ends, Pos, Near, Beyond
  <2>2. Between(near, beyond) = <<beyond + 1, near>>
    BY <1>3 DEF Between
  <2> QED
    BY <1>1, <1>3, <2>1, <2>2 DEF BlockRange, Begins, Ends, Pos, Near, Beyond
<1> QED
  BY <1>2, <1>3

(* Each chunk but the last ends at a block with logs. *)
LEMMA ChunkCounts ==
  ASSUME NEW N \in Nat \ {0}, NEW P \in Nat \ {0}, NEW count, count = (N + P - 1) \div P
  PROVE  /\ count \in Nat \ {0}
         /\ \A j \in 1..count - 1 : j * P + 1 \in 2..N
         /\ \A i, j \in 1..count - 1 : i < j => i * P + 1 < j * P + 1
<1> DEFINE n == N + P - 1
<1>1. n \in Nat /\ n >= P
  OBVIOUS
<1>2. count \in Nat /\ count * P <= n /\ n < (count + 1) * P
  <2> HIDE DEF n
  <2>1. n \div P \in Nat /\ (n \div P) * P <= n /\ n < ((n \div P) + 1) * P
    BY <1>1
  <2> QED
    BY <2>1 DEF n
<1>3. count # 0
  <2>1. count = 0 => (count + 1) * P = P
    OBVIOUS
  <2> HIDE DEF n
  <2> QED
    BY <1>1, <1>2, <2>1
<1>4. ASSUME NEW j \in 1..count - 1
      PROVE  j * P + 1 \in 2..N
  <2>1. j \in Nat /\ j >= 1 /\ j + 1 <= count
    BY <1>2
  <2>2. (j + 1) * P <= count * P /\ (j + 1) * P = j * P + P /\ j * P >= P /\ j * P \in Nat
    BY <1>2, <2>1
  <2> QED
    BY <1>2, <2>1, <2>2
<1>5. ASSUME NEW i \in 1..count - 1, NEW j \in 1..count - 1, i < j
      PROVE  i * P + 1 < j * P + 1
  <2>1. i \in Nat /\ j \in Nat /\ i + 1 <= j
    BY <1>2, <1>5
  <2>2. (i + 1) * P <= j * P /\ (i + 1) * P = i * P + P /\ i * P \in Nat /\ j * P \in Nat
    BY <2>1
  <2> QED
    BY <2>2
<1> QED
  BY <1>2, <1>3, <1>4, <1>5

(* The chunks of a page fill its places. *)
LEMMA ChunksTile ==
  ASSUME NEW p \in BlockRange
  PROVE  Tiled(Chunks(p), Begins(p), Ends(p))
<1> DEFINE E == Events(p)
           N == Len(E)
           count == ChunkCount(p)
           at(j) == E[j * PerChunk + 1]
           near(j) == IF j = 1 THEN Near(p) ELSE at(j - 1)
           beyond(j) == IF j = count THEN Beyond(p) ELSE at(j)
           c == Chunks(p)
<1>1. /\ N \in Nat /\ (E = <<>> <=> N = 0)
      /\ \A k \in 1..N : E[k] \in Int /\ E[k] \in HeightsOf(p)
      /\ \A k, l \in 1..N : k < l => Pos(E[k]) < Pos(E[l])
  BY EventsOrdered
<1>2. /\ Begins(p) \in Int /\ Ends(p) \in Int /\ Begins(p) < Ends(p)
      /\ Near(p) \in Int /\ Beyond(p) \in Int
      /\ Pos(Near(p)) = Begins(p) /\ Pos(Beyond(p)) = Ends(p)
      /\ \A h \in Int : h \in HeightsOf(p) => Begins(p) <= Pos(h) /\ Pos(h) < Ends(p)
  BY PageEnds DEF Begins, Ends
<1>3. CASE N = 0
  <2>1. c = <<p>>
    BY <1>1, <1>3 DEF Chunks
  <2> HIDE DEF c
  <2>2. c \in Seq(BlockRange) /\ Len(c) = 1 /\ c[1] = p /\ c # <<>>
    BY <2>1
  <2> QED
    BY <2>2 DEF Tiled, c
<1>4. CASE N # 0
  <2>1. c = [j \in 1..count |-> Between(near(j), beyond(j))]
    BY <1>1, <1>4 DEF Chunks
  <2>2. count = (N + PerChunk - 1) \div PerChunk
    BY DEF ChunkCount
  <2> HIDE DEF E, N, count, c
  <2>3. /\ count \in Nat \ {0}
        /\ \A j \in 1..count - 1 : j * PerChunk + 1 \in 2..N
        /\ \A i, j \in 1..count - 1 : i < j => i * PerChunk + 1 < j * PerChunk + 1
    <3>1. N \in Nat \ {0} /\ PerChunk \in Nat \ {0}
      BY <1>1, <1>4, HistoryAssumption
    <3> QED
      BY <2>2, <3>1, ChunkCounts
  <2>4. ASSUME NEW j \in 1..count - 1
        PROVE  at(j) \in Int /\ Begins(p) < Pos(at(j)) /\ Pos(at(j)) < Ends(p) /\ Pos(at(j)) \in Int
    <3> DEFINE k == j * PerChunk + 1
    <3>1. k \in 2..N
      BY <2>3
    <3> HIDE DEF k
    <3>2. k \in 1..N /\ 1 \in 1..N /\ 1 < k
      BY <1>1, <3>1
    <3>3. E[k] \in Int /\ E[1] \in Int /\ Pos(E[1]) < Pos(E[k])
          /\ Begins(p) <= Pos(E[1]) /\ Pos(E[k]) < Ends(p)
      BY <1>1, <1>2, <3>2
    <3>4. Pos(E[1]) \in Int /\ Pos(E[k]) \in Int
      BY <3>3, PosType
    <3> QED
      BY <1>2, <3>3, <3>4 DEF k
  <2>5. ASSUME NEW i \in 1..count - 1, NEW j \in 1..count - 1, i < j
        PROVE  Pos(at(i)) < Pos(at(j))
    <3> DEFINE k == i * PerChunk + 1
               l == j * PerChunk + 1
    <3>1. k \in 2..N /\ l \in 2..N /\ k < l
      BY <2>3, <2>5
    <3> HIDE DEF k, l
    <3>2. k \in 1..N /\ l \in 1..N
      BY <1>1, <3>1
    <3>3. Pos(E[k]) < Pos(E[l])
      BY <1>1, <3>1, <3>2
    <3> QED
      BY <3>3 DEF k, l
  <2> HIDE DEF at
  <2>6. ASSUME NEW j \in 1..count
        PROVE  /\ near(j) \in Int /\ beyond(j) \in Int
               /\ Begins(p) <= Pos(near(j)) /\ Pos(near(j)) < Pos(beyond(j))
               /\ Pos(beyond(j)) <= Ends(p)
    <3>1. j # 1 => j - 1 \in 1..count - 1
      BY <2>3
    <3>2. j # count => j \in 1..count - 1
      BY <2>3
    <3>3. CASE j = 1 /\ j = count
      BY <1>2, <3>3
    <3>4. CASE j = 1 /\ j # count
      BY <1>2, <2>4, <3>2, <3>4
    <3>5. CASE j # 1 /\ j = count
      BY <1>2, <2>4, <3>1, <3>5
    <3>6. CASE j # 1 /\ j # count
      <4>1. j - 1 \in 1..count - 1 /\ j \in 1..count - 1 /\ j - 1 < j
        BY <3>1, <3>2, <3>6
      <4>2. Pos(at(j - 1)) < Pos(at(j))
        BY <2>5, <4>1
      <4>3. near(j) = at(j - 1) /\ beyond(j) = at(j)
        BY <3>6
      <4>4. /\ at(j) \in Int /\ Pos(at(j)) < Ends(p) /\ Pos(at(j)) \in Int
            /\ at(j - 1) \in Int /\ Begins(p) < Pos(at(j - 1)) /\ Pos(at(j - 1)) \in Int
        BY <2>4, <4>1
      <4> QED
        BY <1>2, <4>2, <4>3, <4>4
    <3> QED
      BY <3>3, <3>4, <3>5, <3>6
  <2>7. ASSUME NEW j \in 1..count - 1
        PROVE  j + 1 \in 1..count /\ near(j + 1) = beyond(j)
    BY <2>3
  <2>8. near(1) = Near(p) /\ beyond(count) = Beyond(p) /\ count \in 1..count /\ 1 \in 1..count
    BY <2>3
  <2>9. ASSUME NEW i \in 1..count, NEW j \in 1..count, i < j
        PROVE  Pos(beyond(i)) <= Pos(near(j))
    <3>1. i \in 1..count - 1 /\ j - 1 \in 1..count - 1 /\ i <= j - 1 /\ j # 1 /\ i # count
      BY <2>3, <2>9
    <3>2. i = j - 1 \/ i < j - 1
      BY <2>3, <3>1
    <3>3. Pos(at(i)) \in Int /\ Pos(at(j - 1)) \in Int
      BY <2>4, <3>1
    <3>4. Pos(at(i)) <= Pos(at(j - 1))
      BY <2>5, <3>1, <3>2, <3>3
    <3> QED
      BY <3>1, <3>4
  <2> HIDE DEF near, beyond
  <2>10. \A j \in 1..count : /\ Between(near(j), beyond(j)) \in BlockRange
                             /\ Begins(Between(near(j), beyond(j))) = Pos(near(j))
                             /\ Ends(Between(near(j), beyond(j))) = Pos(beyond(j))
    BY <2>6, BetweenEnds
  <2>11. /\ c \in Seq(BlockRange) /\ Len(c) = count /\ c # <<>>
         /\ \A j \in 1..count : Begins(c[j]) = Pos(near(j)) /\ Ends(c[j]) = Pos(beyond(j))
    <3>1. c \in [1..count -> BlockRange]
      BY <2>1, <2>10
    <3>2. \A j \in 1..count : c[j] = Between(near(j), beyond(j))
      BY <2>1
    <3>3. c \in Seq(BlockRange) /\ Len(c) = count
      BY <2>3, <3>1
    <3> QED
      BY <2>3, <2>10, <3>2, <3>3
  <2>12. Begins(c[1]) = Begins(p) /\ Ends(c[count]) = Ends(p)
    BY <1>2, <2>8, <2>11
  <2>13. \A i \in 1..count - 1 : Ends(c[i]) = Begins(c[i + 1])
    <3>1. \A i \in 1..count - 1 : i \in 1..count
      BY <2>3
    <3> QED
      BY <2>7, <2>11, <3>1
  <2>14. \A i, j \in 1..count : i < j => Ends(c[i]) <= Begins(c[j])
    BY <2>9, <2>11
  <2>15. Tiled(c, Begins(p), Ends(p))
    BY <2>11, <2>12, <2>13, <2>14 DEF Tiled
  <2> QED
    BY <2>15 DEF c
<1> QED
  BY <1>3, <1>4

(* The function that Chunking stands for. *)
LEMMA ChunkingStep ==
  ASSUME NEW chunks \in Seq(BlockRange), NEW pages \in Seq(BlockRange),
         NEW F, F = Chunking(chunks, pages)
  PROVE  \A n \in 0..Len(pages) : F[n] = IF n = 0 THEN chunks ELSE F[n - 1] \o Chunks(pages[n])
<1> DEFINE N == Len(pages)
           S == Seq(BlockRange)
           G == [n \in 1..N |-> [s \in S |-> s \o Chunks(pages[n])]]
           Solves(f) == f = [n \in 0..N |-> IF n = 0 THEN chunks ELSE f[n - 1] \o Chunks(pages[n])]
<1>1. ASSUME NEW s \in S, NEW p \in BlockRange
      PROVE  s \o Chunks(p) \in S
  <2>1. Chunks(p) \in S
    BY ChunksTile DEF Tiled
  <2> QED
    BY <2>1
<1>2. N \in Nat /\ chunks \in S
  OBVIOUS
<1>3. ASSUME NEW n \in 1..N
      PROVE  n - 1 \in 0..N /\ pages[n] \in BlockRange
  BY <1>2
<1>4. Steps(G, N, S)
  BY <1>1, <1>3 DEF Steps
<1>5. PICK g : Solution(g, N, S, chunks, G)
  <2> HIDE DEF N, S, G
  <2> QED
    BY <1>2, <1>4, Recursion
<1> HIDE DEF S
<1>6. Solves(g)
  <2>1. g \in [0..N -> S] /\ g[0] = chunks
    BY <1>5 DEF Solution
  <2>2. ASSUME NEW n \in 1..N
        PROVE  g[n] = g[n - 1] \o Chunks(pages[n])
    <3>1. g[n] = G[n][g[n - 1]] /\ g[n - 1] \in S
      BY <1>3, <1>5, <2>1 DEF Solution
    <3> QED
      BY <3>1
  <2> DEFINE h == [n \in 0..N |-> IF n = 0 THEN chunks ELSE g[n - 1] \o Chunks(pages[n])]
  <2>3. \A n \in 0..N : n # 0 => n \in 1..N
    BY <1>2
  <2>4. \A n \in 0..N : g[n] = IF n = 0 THEN chunks ELSE g[n - 1] \o Chunks(pages[n])
    BY <2>1, <2>2, <2>3
  <2>5. g = [n \in 0..N |-> g[n]] /\ [n \in 0..N |-> g[n]] = h
    BY <2>1, <2>4
  <2> QED
    BY <2>5
<1>7. F = CHOOSE f : Solves(f)
  BY DEF Chunking
<1>8. Solves(F)
  <2> HIDE DEF Solves
  <2> QED
    BY <1>6, <1>7
<1> QED
  BY <1>8

(* The chunks of pages that follow those there are fill their places. *)
LEMMA ChunkingTiles ==
  ASSUME NEW chunks, NEW pages, NEW a \in Int, NEW b \in Int, NEW e \in Int,
         Tiled(chunks, a, b), Tiled(pages, b, e)
  PROVE  Tiled(Chunking(chunks, pages)[Len(pages)], a, e)
<1> DEFINE N == Len(pages)
           F == Chunking(chunks, pages)
           end(n) == IF n = 0 THEN b ELSE Ends(pages[n])
           T == {n \in 0..N : Tiled(F[n], a, end(n))}
<1>1. /\ chunks \in Seq(BlockRange) /\ pages \in Seq(BlockRange)
      /\ N \in Nat /\ DOMAIN pages = 1..N
  BY DEF Tiled
<1>2. \A n \in 0..N : F[n] = IF n = 0 THEN chunks ELSE F[n - 1] \o Chunks(pages[n])
  <2> DEFINE G == Chunking(chunks, pages)
  <2> HIDE DEF G
  <2>1. \A n \in 0..Len(pages) : G[n] = IF n = 0 THEN chunks ELSE G[n - 1] \o Chunks(pages[n])
    BY <1>1, ChunkingStep DEF G
  <2> QED
    BY <2>1 DEF G
<1> HIDE DEF F
<1>3. \A n \in 1..N : pages[n] \in BlockRange /\ Begins(pages[n]) = end(n - 1)
  <2> SUFFICES ASSUME NEW n \in 1..N
               PROVE  pages[n] \in BlockRange /\ Begins(pages[n]) = end(n - 1)
    OBVIOUS
  <2>1. CASE n = 1
    <3>1. pages # <<>>
      BY <1>1
    <3> QED
      BY <1>1, <2>1, <3>1 DEF Tiled
  <2>2. CASE n # 1
    <3>1. n - 1 \in 1..N - 1 /\ (n - 1) + 1 = n /\ n - 1 # 0
      BY <1>1, <2>2
    <3> QED
      BY <1>1, <3>1 DEF Tiled
  <2> QED
    BY <2>1, <2>2
<1>4. \A n \in 0..N : end(n) \in Int
  BY <1>3, PageEnds
<1>5. 0 \in T
  BY <1>1, <1>2
<1>6. ASSUME NEW n \in 0..N - 1, n \in T
      PROVE  n + 1 \in T
  <2>1. n + 1 \in 1..N /\ n + 1 \in 0..N /\ n \in 0..N /\ (n + 1) - 1 = n /\ n + 1 # 0
    BY <1>1
  <2> DEFINE p == pages[n + 1]
  <2>2. p \in BlockRange /\ Begins(p) = end(n) /\ end(n + 1) = Ends(p)
    BY <1>3, <2>1
  <2>3. F[n + 1] = F[n] \o Chunks(p)
    BY <1>2, <2>1
  <2>4. Tiled(F[n], a, end(n))
    BY <1>6
  <2> HIDE DEF p
  <2>5. Tiled(Chunks(p), end(n), end(n + 1))
    BY <2>2, ChunksTile
  <2>6. end(n) \in Int /\ end(n + 1) \in Int
    BY <1>4, <2>1
  <2> HIDE DEF end
  <2>7. Tiled(F[n + 1], a, end(n + 1))
    BY <2>3, <2>4, <2>5, <2>6, TiledJoin
  <2> QED
    BY <2>1, <2>7
<1>7. Tiled(F[N], a, end(N))
  <2> HIDE DEF end
  <2>1. \A n \in 0..N - 1 : n \in T => n + 1 \in T
    BY <1>6
  <2>2. N \in Nat /\ N \in 0..N
    BY <1>1
  <2> HIDE DEF T
  <2>3. \A n \in 0..N : n \in T
    BY ONLY <1>5, <2>1, <2>2, ByCounting
  <2> QED
    BY <2>2, <2>3 DEF T
<1>8. end(N) = e
  <2>1. N = 0 <=> pages = <<>>
    BY <1>1
  <2> QED
    BY <2>1 DEF Tiled
<1> QED
  BY <1>7, <1>8 DEF F

(* The function that Releasing stands for. *)
LEMMA ReleasingStep ==
  ASSUME NEW ready \in SUBSET BlockRange, IsFiniteSet(ready), NEW cursor,
         NEW F, F = Releasing(ready, cursor)
  PROVE  \A n \in 0..Cardinality(ready) :
           F[n] = IF n = 0 THEN <<>> ELSE ReleaseNext(ready, cursor, F[n - 1])
<1> DEFINE N == Cardinality(ready)
           S == Seq(BlockRange)
           G == [n \in 1..N |-> [s \in S |-> ReleaseNext(ready, cursor, s)]]
           Solves(f) == f = [n \in 0..N |-> IF n = 0 THEN <<>>
                                            ELSE ReleaseNext(ready, cursor, f[n - 1])]
<1>1. ASSUME NEW s \in S
      PROVE  ReleaseNext(ready, cursor, s) \in S
  <2> DEFINE at == IF s = <<>> THEN cursor ELSE Beyond(Last(s))
             next == {p \in ready : Near(p) = at}
  <2>1. ReleaseNext(ready, cursor, s) = IF next = {} THEN s ELSE Append(s, CHOOSE p \in next : TRUE)
    BY DEF ReleaseNext
  <2>2. next \subseteq BlockRange
    OBVIOUS
  <2> HIDE DEF next
  <2>3. next # {} => (CHOOSE p \in next : TRUE) \in next
    OBVIOUS
  <2> QED
    BY <2>1, <2>2, <2>3
<1>2. N \in Nat /\ <<>> \in S
  BY FS_CardinalityType
<1>3. ASSUME NEW n \in 1..N
      PROVE  n - 1 \in 0..N
  BY <1>2
<1>4. Steps(G, N, S)
  BY <1>1, <1>3 DEF Steps
<1>5. PICK g : Solution(g, N, S, <<>>, G)
  <2>1. N \in Nat
    BY <1>2
  <2>2. <<>> \in S
    BY <1>2
  <2> HIDE DEF N, S, G
  <2> QED
    BY <2>1, <2>2, <1>4, Recursion
<1> HIDE DEF S
<1>6. Solves(g)
  <2>1. g \in [0..N -> S] /\ g[0] = <<>>
    BY <1>5 DEF Solution
  <2>2. ASSUME NEW n \in 1..N
        PROVE  g[n] = ReleaseNext(ready, cursor, g[n - 1])
    <3>1. g[n] = G[n][g[n - 1]] /\ g[n - 1] \in S
      BY <1>3, <1>5, <2>1 DEF Solution
    <3> QED
      BY <3>1
  <2> DEFINE h == [n \in 0..N |-> IF n = 0 THEN <<>> ELSE ReleaseNext(ready, cursor, g[n - 1])]
  <2>3. \A n \in 0..N : n # 0 => n \in 1..N
    BY <1>2
  <2>4. \A n \in 0..N : g[n] = IF n = 0 THEN <<>> ELSE ReleaseNext(ready, cursor, g[n - 1])
    BY <2>1, <2>2, <2>3
  <2>5. g = [n \in 0..N |-> g[n]] /\ [n \in 0..N |-> g[n]] = h
    BY <2>1, <2>4
  <2> QED
    BY <2>5
<1>7. F = CHOOSE f : Solves(f)
  BY DEF Releasing
<1>8. Solves(F)
  <2> HIDE DEF Solves
  <2> QED
    BY <1>6, <1>7
<1> QED
  BY <1>8

(* What goes out fills the places from the cursor on, as far as there are  *)
(* pages: none that waits begins where it ends.                            *)
LEMMA ReleasedRun ==
  ASSUME NEW ready \in SUBSET BlockRange, IsFiniteSet(ready), NEW cursor \in Int,
         NEW out, out = Released(ready, cursor),
         NEW next, next = IF out = <<>> THEN cursor ELSE Beyond(Last(out))
  PROVE  /\ next \in Int
         /\ Tiled(out, Pos(cursor), Pos(next))
         /\ \A i \in 1..Len(out) : out[i] \in ready
         /\ \A p \in ready : Begins(p) # Pos(next)
<1> DEFINE N == Cardinality(ready)
           F == Releasing(ready, cursor)
           At(s) == IF s = <<>> THEN cursor ELSE Beyond(Last(s))
           Stuck(s) == \A p \in ready : Begins(p) # Pos(At(s))
           Run(s) == /\ At(s) \in Int /\ Tiled(s, Pos(cursor), Pos(At(s)))
                     /\ \A i \in 1..Len(s) : s[i] \in ready
           Good(n) == Run(F[n]) /\ (Len(F[n]) = n \/ Stuck(F[n]))
           T == {n \in 0..N : Good(n)}
<1>1. N \in Nat
  BY FS_CardinalityType
<1>2. \A n \in 0..N : F[n] = IF n = 0 THEN <<>> ELSE ReleaseNext(ready, cursor, F[n - 1])
  <2> DEFINE G == Releasing(ready, cursor)
  <2> HIDE DEF G
  <2>1. \A n \in 0..Cardinality(ready) :
          G[n] = IF n = 0 THEN <<>> ELSE ReleaseNext(ready, cursor, G[n - 1])
    BY ReleasingStep DEF G
  <2> QED
    BY <2>1 DEF G
<1> HIDE DEF F, N
<1>3. Good(0)
  <2>1. F[0] = <<>>
    BY <1>1, <1>2
  <2>2. Tiled(<<>>, Pos(cursor), Pos(cursor))
    BY DEF Tiled
  <2> QED
    BY <2>1, <2>2
<1>4. ASSUME NEW n \in 0..N - 1, Good(n)
      PROVE  Good(n + 1)
  <2> DEFINE s == F[n]
             found == {p \in ready : Near(p) = At(s)}
  <2>1. n + 1 \in 0..N /\ (n + 1) - 1 = n /\ n + 1 # 0
    BY <1>1
  <2>2. F[n + 1] = IF found = {} THEN s ELSE Append(s, CHOOSE p \in found : TRUE)
    BY <1>2, <2>1 DEF ReleaseNext
  <2>3. Run(s) /\ s \in Seq(BlockRange) /\ Len(s) \in Nat
    BY <1>4 DEF Tiled
  <2>4. CASE found = {}
    <3>1. F[n + 1] = s
      BY <2>2, <2>4
    <3>2. Stuck(s)
      <4> SUFFICES ASSUME NEW p \in ready, Begins(p) = Pos(At(s))
                   PROVE  FALSE
        OBVIOUS
      <4>1. Near(p) \in Int /\ Pos(Near(p)) = Pos(At(s))
        BY PageEnds DEF Begins
      <4>2. Near(p) = At(s)
        <5> HIDE DEF At
        <5> QED
          BY <2>3, <4>1, PosType
      <4> QED
        BY <2>4, <4>2
    <3> HIDE DEF Stuck, Run, s
    <3> QED
      BY <2>3, <3>1, <3>2
  <2>5. CASE found # {}
    <3> DEFINE q == CHOOSE p \in found : TRUE
               t == Append(s, q)
    <3>1. q \in ready /\ Near(q) = At(s) /\ q \in BlockRange
      BY <2>5
    <3>2. F[n + 1] = t
      BY <2>2, <2>5
    <3> HIDE DEF q
    <3>3. t = s \o <<q>> /\ t # <<>> /\ Last(t) = q /\ Len(t) = Len(s) + 1
          /\ \A i \in 1..Len(s) : t[i] = s[i]
          /\ t[Len(s) + 1] = q
      <4> HIDE DEF s
      <4>1. t = s \o <<q>>
        BY <2>3, <3>1
      <4>2. Len(t) = Len(s) + 1 /\ t # <<>>
        BY <2>3, <3>1
      <4>3. \A i \in 1..Len(s) : t[i] = s[i]
        BY <2>3, <3>1
      <4>4. t[Len(s) + 1] = q
        BY <2>3, <3>1
      <4>5. Last(t) = q
        BY <4>2, <4>4 DEF Last
      <4> QED
        BY <4>1, <4>2, <4>3, <4>4, <4>5
    <3>4. At(t) = Beyond(q)
      BY <3>3
    <3> HIDE DEF t, found
    <3>5. Begins(q) = Pos(At(s)) /\ Ends(q) = Pos(At(t))
      BY <3>1, <3>4 DEF Begins, Ends
    <3>6. At(t) \in Int /\ Begins(q) \in Int /\ Ends(q) \in Int
      BY <3>1, <3>4, PageEnds
    <3>7. Tiled(<<q>>, Begins(q), Ends(q))
      <4> DEFINE u == <<q>>
      <4>1. u \in Seq(BlockRange) /\ Len(u) = 1 /\ u[1] = q /\ u # <<>>
        BY <3>1
      <4> HIDE DEF u
      <4>2. Tiled(u, Begins(q), Ends(q))
        BY <4>1 DEF Tiled
      <4> QED
        BY <4>2 DEF u
    <3>8. Tiled(t, Pos(cursor), Pos(At(t)))
      <4>1. Pos(cursor) \in Int
        BY PosType
      <4> HIDE DEF At
      <4>2. Tiled(s, Pos(cursor), Begins(q))
        BY <2>3, <3>5
      <4>3. Tiled(s \o <<q>>, Pos(cursor), Ends(q))
        BY <3>6, <3>7, <4>1, <4>2, TiledJoin
      <4> QED
        BY <3>3, <3>5, <4>3
    <3>9. \A i \in 1..Len(t) : t[i] \in ready
      <4>1. \A i \in 1..Len(s) + 1 : i \in 1..Len(s) \/ i = Len(s) + 1
        BY <2>3
      <4> HIDE DEF At
      <4> QED
        BY <2>3, <3>1, <3>3, <4>1
    <3>10. Len(t) = n + 1
      <4>1. ~ Stuck(s)
        <5> HIDE DEF At
        <5> QED
          BY <3>1, <3>5
      <4>2. Len(s) = n
        BY <1>4, <4>1
      <4> QED
        BY <3>3, <4>2
    <3>11. Run(t)
      BY <3>6, <3>8, <3>9
    <3> HIDE DEF Run
    <3> QED
      BY <3>2, <3>10, <3>11
  <2> QED
    BY <2>4, <2>5
<1>5. Good(N)
  <2> HIDE DEF Good
  <2>1. 0 \in T /\ \A n \in 0..N - 1 : n \in T => n + 1 \in T
    BY <1>1, <1>3, <1>4
  <2> HIDE DEF T
  <2>2. \A n \in 0..N : n \in T
    BY ONLY <1>1, <2>1, ByCounting
  <2>3. N \in 0..N
    BY <1>1
  <2> QED
    BY <2>2, <2>3 DEF T
<1>6. out = F[N] /\ next = At(out)
  BY DEF Released, F, N
<1> DEFINE c == Pos(cursor)
           e == Pos(next)
<1>7. Run(out) /\ c \in Int /\ e \in Int /\ out \in Seq(BlockRange)
  BY <1>5, <1>6, PosType DEF Tiled
<1>8. ASSUME Len(out) = N, NEW p \in ready, Begins(p) = e
      PROVE  FALSE
  <2>1. Tiled(out, c, e) /\ (\A i \in 1..N : out[i] \in ready) /\ DOMAIN out = 1..N
    BY <1>6, <1>7, <1>8
  <2>2. /\ \A i \in 1..N : out[i] \in BlockRange /\ Ends(out[i]) <= e
        /\ \A i, j \in 1..N : i < j => Ends(out[i]) <= Begins(out[j])
    <3> HIDE DEF c, e
    <3>1. \A i \in 1..N : out[i] \in BlockRange /\ Ends(out[i]) <= e
      BY <1>7, <1>8, <2>1, TiledWithin
    <3> QED
      BY <1>8, <2>1, <3>1 DEF Tiled
  <2>3. \A i \in 1..N : Begins(out[i]) \in Int /\ Ends(out[i]) \in Int /\ Begins(out[i]) < Ends(out[i])
    BY <2>2, PageEnds
  <2>4. \A i, j \in 1..N : out[i] = out[j] => i = j
    BY <1>1, <2>2, <2>3
  <2>5. out \in [1..N -> ready]
    BY <1>7, <2>1
  <2>6. out \in Injection(1..N, ready)
    BY <2>4, <2>5 DEF Injection, IsInjective
  <2>7. Cardinality(1..N) = Cardinality(ready)
    <3>1. 1 \in Int /\ N \in Int
      BY <1>1
    <3>2. Cardinality(1..N) = IF 1 > N THEN 0 ELSE N - 1 + 1
      BY <3>1, FS_Interval
    <3>3. Cardinality(1..N) = N
      BY <1>1, <3>2
    <3> QED
      BY <3>3 DEF N
  <2>8. out \in Surjection(1..N, ready)
    BY <2>6, <2>7, FS_Injection
  <2>9. PICK i \in 1..N : out[i] = p
    BY <2>8 DEF Surjection
  <2> HIDE DEF e
  <2> QED
    BY <1>7, <1>8, <2>2, <2>3, <2>9
<1>9. \A p \in ready : Begins(p) # e
  <2>1. Len(out) = N \/ Stuck(out)
    BY <1>5, <1>6
  <2> QED
    BY <1>6, <1>8, <2>1
<1> QED
  BY <1>6, <1>7, <1>9

(* The halves of a page fill its places. *)
LEMMA HalvesTile ==
  ASSUME NEW p \in BlockRange, p[1] < p[2]
  PROVE  /\ Len(Halves(p)) = 2 /\ Halves(p) \in Seq(BlockRange)
         /\ Begins(Halves(p)[1]) = Begins(p) /\ Ends(Halves(p)[2]) = Ends(p)
         /\ Ends(Halves(p)[1]) = Begins(Halves(p)[2])
<1> DEFINE m == (p[1] + p[2]) \div 2
<1>1. p[1] \in Nat /\ p[2] \in Nat
  BY DEF BlockRange
<1>2. m \in Nat /\ p[1] <= m /\ m < p[2]
  BY <1>1
<1> DEFINE a == <<p[1], m>>
           b == <<m + 1, p[2]>>
<1>3. Halves(p) = IF Forward THEN <<a, b>> ELSE <<b, a>>
  BY DEF Halves
<1> HIDE DEF m
<1>4. a \in BlockRange /\ b \in BlockRange
  BY <1>1, <1>2 DEF BlockRange
<1>5. a[1] = p[1] /\ a[2] = m /\ b[1] = m + 1 /\ b[2] = p[2]
  OBVIOUS
<1> HIDE DEF a, b
<1>6. CASE Forward
  <2>1. Begins(a) = Begins(p) /\ Ends(b) = Ends(p) /\ Ends(a) = Begins(b)
    BY <1>1, <1>2, <1>5, <1>6 DEF Begins, Ends, Pos, Near, Beyond
  <2>2. Halves(p) = <<a, b>>
    BY <1>3, <1>6
  <2> QED
    BY <1>4, <2>1, <2>2
<1>7. CASE ~ Forward
  <2>1. Begins(b) = Begins(p) /\ Ends(a) = Ends(p) /\ Ends(b) = Begins(a)
    BY <1>1, <1>2, <1>5, <1>7 DEF Begins, Ends, Pos, Near, Beyond
  <2>2. Halves(p) = <<b, a>>
    BY <1>3, <1>7
  <2> QED
    BY <1>4, <2>1, <2>2
<1> QED
  BY <1>6, <1>7

LEMMA Multiples ==
  ASSUME NEW d \in Nat, NEW P \in Nat \ {0}, NEW count, count = d \div P + 1
  PROVE  /\ count \in Nat \ {0}
         /\ \A i \in 0..count : i * P \in Nat
         /\ \A i \in 0..count - 1 : i * P <= d
         /\ d < count * P
         /\ \A i \in 1..count : (i - 1) * P < i * P
         /\ \A i, j \in 1..count : i < j => i * P <= (j - 1) * P
         /\ 0 * P = 0
<1>1. d \div P \in Nat /\ (d \div P) * P <= d /\ d < (d \div P + 1) * P
  OBVIOUS
<1>2. count \in Nat \ {0} /\ (count - 1) * P <= d /\ d < count * P
  BY <1>1
<1>3. ASSUME NEW i \in Nat, NEW j \in Nat, i <= j
      PROVE  i * P \in Nat /\ j * P \in Nat /\ i * P <= j * P /\ (i < j => i * P < j * P)
  <2>1. i * P \in Nat /\ j * P \in Nat /\ i * P <= j * P
    BY <1>3
  <2>2. ASSUME i < j
        PROVE  i * P < j * P
    <3>1. (i + 1) * P <= j * P /\ (i + 1) * P = i * P + P
      BY <2>2
    <3> QED
      BY <2>1, <3>1
  <2> QED
    BY <2>1, <2>2
<1>4. \A i \in 0..count : i * P \in Nat
  BY <1>2, <1>3
<1>5. ASSUME NEW i \in 0..count - 1
      PROVE  i * P <= d
  <2>1. i \in Nat /\ count - 1 \in Nat /\ i <= count - 1
    BY <1>2
  <2>2. i * P <= (count - 1) * P /\ i * P \in Nat /\ (count - 1) * P \in Nat
    BY <1>3, <2>1
  <2> QED
    BY <1>2, <2>2
<1>6. ASSUME NEW i \in 1..count
      PROVE  (i - 1) * P < i * P
  <2>1. i \in Nat /\ i - 1 \in Nat /\ i - 1 <= i /\ i - 1 < i
    BY <1>2
  <2> QED
    BY <1>3, <2>1
<1>7. ASSUME NEW i \in 1..count, NEW j \in 1..count, i < j
      PROVE  i * P <= (j - 1) * P
  <2>1. i \in Nat /\ j - 1 \in Nat /\ i <= j - 1
    BY <1>2, <1>7
  <2> QED
    BY <1>3, <2>1
<1> QED
  BY <1>2, <1>4, <1>5, <1>6, <1>7

(* The pages of a range fill its places. *)
LEMMA RangesTile ==
  ASSUME NEW r \in BlockRange
  PROVE  Tiled(Ranges(r[1], r[2]), Begins(r), Ends(r))
<1> DEFINE low == r[1]
           high == r[2]
           d == high - low
           count == d \div PageSize + 1
           at(i) == i * PageSize
           w == Ranges(low, high)
<1>1. low \in Nat /\ high \in Nat /\ low <= high /\ d \in Nat
  BY DEF BlockRange
<1>2. /\ count \in Nat \ {0}
      /\ \A i \in 0..count : at(i) \in Nat
      /\ \A i \in 0..count - 1 : at(i) <= d
      /\ d < at(count)
      /\ \A i \in 1..count : at(i - 1) < at(i)
      /\ \A i, j \in 1..count : i < j => at(i) <= at(j - 1)
      /\ at(0) = 0
  <2>1. PageSize \in Nat \ {0}
    BY HistoryAssumption
  <2> HIDE DEF d
  <2> QED
    BY <1>1, <2>1, Multiples
<1>3. w = [i \in 1..count |->
             IF Forward
             THEN <<low + at(i - 1), Lesser(low + at(i) - 1, high)>>
             ELSE <<Greater(high - at(i) + 1, low), high - at(i - 1)>>]
  BY DEF Ranges
<1>4. Begins(r) \in Int /\ Ends(r) \in Int /\ Ends(r) = Begins(r) + d + 1
  BY <1>1 DEF Begins, Ends, Pos, Near, Beyond
<1> HIDE DEF at, count, w
<1>5. ASSUME NEW i \in 1..count
      PROVE  /\ i - 1 \in 0..count - 1 /\ i \in 0..count /\ at(i - 1) \in Nat /\ at(i) \in Nat
             /\ at(i - 1) <= d /\ at(i - 1) < at(i)
  BY <1>2
<1>6. ASSUME NEW i \in 1..count
      PROVE  /\ w[i] \in BlockRange
             /\ Begins(w[i]) = Begins(r) + at(i - 1)
             /\ Ends(w[i]) = Begins(r) + (IF at(i) <= d THEN at(i) ELSE d + 1)
  <2>1. at(i - 1) \in Nat /\ at(i) \in Nat /\ at(i - 1) <= d /\ at(i - 1) < at(i)
    BY <1>5
  <2>2. CASE Forward
    <3>1. w[i] = <<low + at(i - 1), Lesser(low + at(i) - 1, high)>>
      BY <1>3, <2>2
    <3>2. w[i][1] = low + at(i - 1)
          /\ w[i][2] = (IF at(i) <= d THEN low + at(i) - 1 ELSE high)
      BY <1>1, <2>1, <3>1 DEF Lesser
    <3>3. w[i] \in BlockRange
      BY <1>1, <2>1, <3>1 DEF Lesser, BlockRange
    <3> HIDE DEF low, high
    <3>4. Begins(r) = low
      BY <2>2 DEF Begins, Pos, Near, low
    <3>5. Begins(w[i]) = w[i][1] /\ Ends(w[i]) = w[i][2] + 1
      BY <2>2 DEF Begins, Ends, Pos, Near, Beyond
    <3> QED
      BY <1>1, <2>1, <3>2, <3>3, <3>4, <3>5
  <2>3. CASE ~ Forward
    <3>1. w[i] = <<Greater(high - at(i) + 1, low), high - at(i - 1)>>
      BY <1>3, <2>3
    <3>2. w[i][2] = high - at(i - 1)
          /\ w[i][1] = (IF at(i) <= d THEN high - at(i) + 1 ELSE low)
      BY <1>1, <2>1, <3>1 DEF Greater
    <3>3. w[i] \in BlockRange
      BY <1>1, <2>1, <3>1 DEF Greater, BlockRange
    <3> HIDE DEF low, high
    <3>4. Begins(r) = - high
      BY <2>3 DEF Begins, Pos, Near, high
    <3>5. Begins(w[i]) = - w[i][2] /\ Ends(w[i]) = - (w[i][1] - 1)
      BY <2>3 DEF Begins, Ends, Pos, Near, Beyond
    <3> QED
      BY <1>1, <2>1, <3>2, <3>3, <3>4, <3>5
  <2> QED
    BY <2>2, <2>3
<1> HIDE DEF d
<1>7. w \in Seq(BlockRange) /\ Len(w) = count /\ w # <<>>
  <2>1. w \in [1..count -> BlockRange]
    BY <1>3, <1>6
  <2>2. w \in Seq(BlockRange) /\ Len(w) = count
    BY <1>2, <2>1
  <2> QED
    BY <1>2, <2>2
<1>8. Begins(w[1]) = Begins(r) /\ Ends(w[count]) = Ends(r)
  <2>1. 1 \in 1..count /\ count \in 1..count /\ 1 - 1 = 0
    BY <1>2
  <2>2. Begins(w[1]) = Begins(r) + 0
    BY <1>2, <1>6, <2>1
  <2>3. Ends(w[count]) = Begins(r) + (d + 1)
    <3>1. ~ at(count) <= d
      BY <1>1, <1>2, <1>5, <2>1
    <3> QED
      BY <1>6, <2>1, <3>1
  <2> QED
    BY <1>1, <1>4, <2>2, <2>3
<1>9. ASSUME NEW i \in 1..count - 1
      PROVE  Ends(w[i]) = Begins(w[i + 1])
  <2>1. i \in 1..count /\ i + 1 \in 1..count /\ (i + 1) - 1 = i /\ i \in 0..count - 1
    BY <1>2
  <2>2. at(i) <= d
    BY <1>2, <2>1
  <2> QED
    BY <1>6, <2>1, <2>2
<1>10. ASSUME NEW i \in 1..count, NEW j \in 1..count, i < j
       PROVE  Ends(w[i]) <= Begins(w[j])
  <2>1. at(i) <= at(j - 1) /\ at(j - 1) <= d /\ at(i) \in Nat /\ at(j - 1) \in Nat
    BY <1>2, <1>5, <1>10
  <2>2. Ends(w[i]) = Begins(r) + at(i) /\ Begins(w[j]) = Begins(r) + at(j - 1)
    BY <1>1, <1>6, <2>1
  <2> QED
    BY <1>4, <2>1, <2>2
<1>11. Tiled(w, Begins(r), Ends(r))
  BY <1>7, <1>8, <1>9, <1>10 DEF Tiled
<1> QED
  BY <1>11 DEF w

(* A range that is found missing lies within its bounds. *)
LEMMA MissingShape ==
  ASSUME NEW covered, NEW low \in Nat, NEW high \in Nat, NEW size \in Nat \ {0},
         NEW r, r # <<>>,
         r = MissingRange(covered, low, high, size)
           \/ r = MissingForwardRange(covered, low, high, size)
  PROVE  r \in BlockRange /\ r[2] <= high /\ HeightsOf(r) \cap covered = {}
<1> DEFINE missing == (low..high) \ covered
<1>1. missing # {} /\ missing \subseteq Nat /\ IsFiniteSet(missing)
  <2>1. missing # {}
    BY DEF MissingRange, MissingForwardRange
  <2>2. missing \in SUBSET (low..high) /\ IsFiniteSet(low..high)
    BY FS_Interval
  <2>3. low..high \subseteq Nat
    OBVIOUS
  <2> HIDE DEF missing
  <2> QED
    BY <2>1, <2>2, <2>3, FS_Subset
<1>2. CASE r = MissingRange(covered, low, high, size)
  <2> DEFINE e == Max(missing)
             F == {n \in low..e : n..e \subseteq missing /\ e - n < size}
  <2>1. r = <<Min(F), e>>
    BY <1>1, <1>2 DEF MissingRange
  <2>2. e \in missing
    <3> HIDE DEF missing
    <3>1. PICK m \in missing : \A n \in missing : n <= m
      BY <1>1, Greatest
    <3>2. missing \in SUBSET Int
      BY <1>1
    <3> QED
      BY <3>1, <3>2, MaxIs
  <2>3. e \in low..high /\ e \in Nat
    BY <1>1, <2>2
  <2> HIDE DEF e
  <2>4. e \in F
    BY <2>2, <2>3
  <2>5. Min(F) \in F
    <3>1. F \in SUBSET (low..e)
      OBVIOUS
    <3> HIDE DEF F
    <3>2. F \subseteq Nat /\ F # {} /\ F \in SUBSET Int
      BY <2>3, <2>4, <3>1
    <3>3. PICK m \in F : \A n \in F : m <= n
      BY <3>2, Smallest
    <3> QED
      BY <3>2, <3>3, MinIs
  <2> DEFINE b == Min(F)
  <2>6. b \in low..e /\ b..e \subseteq missing
    BY <2>5
  <2> HIDE DEF b
  <2>7. r = <<b, e>>
    BY <2>1 DEF b
  <2> QED
    BY <2>3, <2>6, <2>7 DEF BlockRange, HeightsOf
<1>3. CASE r = MissingForwardRange(covered, low, high, size)
  <2> DEFINE b == Min(missing)
             F == {n \in b..high : b..n \subseteq missing /\ n - b < size}
  <2>1. r = <<b, Max(F)>>
    BY <1>1, <1>3 DEF MissingForwardRange
  <2>2. b \in missing
    <3> HIDE DEF missing
    <3>1. PICK m \in missing : \A n \in missing : m <= n
      BY <1>1, Smallest
    <3>2. missing \in SUBSET Int
      BY <1>1
    <3> QED
      BY <3>1, <3>2, MinIs
  <2>3. b \in low..high /\ b \in Nat
    BY <1>1, <2>2
  <2> HIDE DEF b
  <2>4. b \in F
    BY <2>2, <2>3
  <2>5. Max(F) \in F
    <3>1. F \subseteq Nat /\ F # {} /\ F \in SUBSET Int /\ IsFiniteSet(F)
      <4>1. F \in SUBSET (b..high) /\ IsFiniteSet(b..high)
        BY <2>3, FS_Interval
      <4> HIDE DEF F
      <4>2. F \subseteq Nat /\ F # {} /\ F \in SUBSET Int
        BY <2>3, <2>4, <4>1
      <4> QED
        BY <4>1, <4>2, FS_Subset
    <3> HIDE DEF F
    <3>2. PICK m \in F : \A n \in F : n <= m
      BY <3>1, Greatest
    <3> QED
      BY <3>1, <3>2, MaxIs
  <2> DEFINE e == Max(F)
  <2>6. e \in b..high /\ b..e \subseteq missing
    BY <2>5
  <2> HIDE DEF e
  <2>7. r = <<b, e>>
    BY <2>1 DEF e
  <2> QED
    BY <2>3, <2>6, <2>7 DEF BlockRange, HeightsOf
<1> QED
  BY <1>2, <1>3

-----------------------------------------------------------------------------
(* The inductive invariant.  Its parts speak of a fetch f at large, so that *)
(* what an action makes of the fetch can be put for f.                     *)
FetchShape(f) ==
  /\ DOMAIN f = {"range", "revision", "tasks", "tries", "ready", "cursor", "chunks", "at"}
  /\ f.range \in BlockRange /\ f.revision \in Nat
  /\ \A i \in DOMAIN f.tasks : f.tasks[i] \in Seq(BlockRange)
  /\ f.ready \in SUBSET BlockRange /\ IsFiniteSet(f.ready)
  /\ f.cursor \in Int /\ f.at \in Int

(* The pages that wait, for an answer or for others, are those from the     *)
(* cursor to the end of the range: they lie there, every place is in one of *)
(* them, no place is in two; and none of those answered begins at the cursor. *)
Within(f) ==
  /\ Begins(f.range) <= Pos(f.at) /\ Pos(f.cursor) <= Ends(f.range)
  /\ \A p \in f.ready : Pos(f.cursor) < Begins(p) /\ Ends(p) <= Ends(f.range)
  /\ \A i \in DOMAIN f.tasks : \A j \in 1..Len(f.tasks[i]) :
       Pos(f.cursor) <= Begins(f.tasks[i][j]) /\ Ends(f.tasks[i][j]) <= Ends(f.range)
Filled(f) ==
  \A x \in Int : Pos(f.cursor) <= x /\ x < Ends(f.range) =>
    \/ \E p \in f.ready : Begins(p) <= x /\ x < Ends(p)
    \/ \E i \in DOMAIN f.tasks : \E j \in 1..Len(f.tasks[i]) :
         Begins(f.tasks[i][j]) <= x /\ x < Ends(f.tasks[i][j])
Separate(f) ==
  /\ \A p, q \in f.ready : p # q => Apart(p, q)
  /\ \A i \in DOMAIN f.tasks : \A j \in 1..Len(f.tasks[i]) :
       /\ \A p \in f.ready : Apart(p, f.tasks[i][j])
       /\ \A k \in DOMAIN f.tasks : \A l \in 1..Len(f.tasks[k]) :
            i # k \/ j # l => Apart(f.tasks[i][j], f.tasks[k][l])

(* What went out before and is not committed fills the places before them. *)
PagesOK(f) ==
  /\ FetchShape(f) /\ Within(f) /\ Filled(f) /\ Separate(f)
  /\ Tiled(f.chunks, Pos(f.at), Pos(f.cursor))

(* As long as nothing was reverted, no height to be committed is scanned.  *)
Fresh(f) ==
  /\ f.revision <= revision
  /\ f.revision = revision =>
       /\ f.range[2] <= applied
       /\ \A h \in scanned : ~(Pos(f.at) <= Pos(h) /\ Pos(h) < Ends(f.range))

CoverageOK ==
  /\ coverage \in Seq(BlockRange) /\ Canonical(coverage) /\ Covered(coverage) = scanned
  /\ scanned \subseteq Nat
  /\ from \in Nat /\ through \in Nat /\ applied \in Nat /\ revision \in Nat
  /\ through <= applied

IInv == CoverageOK /\ (~Idle => PagesOK(fetch) /\ Fresh(fetch))

(* The new request's pages. *)
LEMMA FetchOK ==
  ASSUME NEW r \in BlockRange, revision \in Nat
  PROVE  PagesOK(Fetch(r)) /\ Fetch(r).revision = revision /\ Fetch(r).range = r
         /\ Fetch(r).at = Near(r) /\ Fetch(r) # NoFetch
<1> DEFINE window == Ranges(r[1], r[2])
           f == Fetch(r)
           one(i) == <<window[i]>>
<1>0. Begins(r) \in Int /\ Ends(r) \in Int /\ Begins(r) < Ends(r) /\ Near(r) \in Nat
  BY PageEnds
<1>1. Tiled(window, Begins(r), Ends(r))
  BY RangesTile
<1>2. /\ \A i \in 1..Len(window) : /\ window[i] \in BlockRange
                                   /\ Begins(r) <= Begins(window[i]) /\ Ends(window[i]) <= Ends(r)
      /\ \A x \in Int : Begins(r) <= x /\ x < Ends(r) =>
           \E i \in 1..Len(window) : Begins(window[i]) <= x /\ x < Ends(window[i])
  BY <1>0, <1>1, TiledWithin
<1>3. window \in Seq(BlockRange) /\ DOMAIN window = 1..Len(window) /\ Len(window) \in Nat
  BY <1>1 DEF Tiled
<1>4. \A i, j \in 1..Len(window) : i < j => Ends(window[i]) <= Begins(window[j])
  BY <1>1 DEF Tiled
<1>5. /\ DOMAIN f = {"range", "revision", "tasks", "tries", "ready", "cursor", "chunks", "at"}
      /\ f.range = r /\ f.revision = revision /\ f.ready = {} /\ f.cursor = Near(r)
      /\ f.chunks = <<>> /\ f.at = Near(r)
      /\ f.tasks = [i \in DOMAIN window |-> one(i)]
  BY DEF Fetch
<1>6. f # NoFetch
  <2>1. DOMAIN NoFetch = {"range"} /\ "at" \in DOMAIN f
    BY <1>5 DEF NoFetch
  <2> QED
    BY <2>1
<1> HIDE DEF f, window
<1>7. DOMAIN f.tasks = 1..Len(window) /\ \A i \in 1..Len(window) : f.tasks[i] = one(i)
  BY <1>3, <1>5
<1>8. \A i \in 1..Len(window) : one(i) \in Seq(BlockRange) /\ Len(one(i)) = 1
                               /\ one(i)[1] = window[i]
  BY <1>2
<1> HIDE DEF one
<1>9. \A i \in 1..Len(window) : \A j \in 1..Len(f.tasks[i]) : j = 1 /\ f.tasks[i][j] = window[i]
  <2> SUFFICES ASSUME NEW i \in 1..Len(window), NEW j \in 1..Len(f.tasks[i])
               PROVE  j = 1 /\ f.tasks[i][j] = window[i]
    OBVIOUS
  <2>1. f.tasks[i] = one(i) /\ Len(one(i)) = 1 /\ one(i)[1] = window[i]
    BY <1>7, <1>8
  <2>2. j \in 1..1
    BY <2>1
  <2> QED
    BY <2>1, <2>2
<1>10. \A i \in 1..Len(window) : 1 \in 1..Len(f.tasks[i]) /\ f.tasks[i][1] = window[i]
  BY <1>7, <1>8
<1>11. FetchShape(f)
  <2>1. IsFiniteSet({})
    BY FS_EmptySet
  <2> QED
    BY <1>0, <1>5, <1>7, <1>8, <2>1 DEF FetchShape
<1>12. Pos(f.cursor) = Begins(r) /\ Pos(f.at) = Begins(r)
  BY <1>5 DEF Begins
<1>13. Within(f)
  BY <1>0, <1>2, <1>5, <1>7, <1>9, <1>12 DEF Within
<1>14. Filled(f)
  <2> SUFFICES ASSUME NEW x \in Int, Begins(r) <= x, x < Ends(r)
               PROVE  \E i \in 1..Len(window) : \E j \in 1..Len(f.tasks[i]) :
                        Begins(f.tasks[i][j]) <= x /\ x < Ends(f.tasks[i][j])
    BY <1>5, <1>7, <1>12 DEF Filled
  <2>1. PICK i \in 1..Len(window) : Begins(window[i]) <= x /\ x < Ends(window[i])
    BY <1>2
  <2> QED
    BY <1>10, <2>1
<1>15. Separate(f)
  <2> SUFFICES ASSUME NEW i \in 1..Len(window), NEW j \in 1..Len(f.tasks[i]),
                      NEW k \in 1..Len(window), NEW l \in 1..Len(f.tasks[k]), i # k \/ j # l
               PROVE  Apart(f.tasks[i][j], f.tasks[k][l])
    BY <1>5, <1>7 DEF Separate
  <2>1. f.tasks[i][j] = window[i] /\ f.tasks[k][l] = window[k] /\ i # k
    BY <1>9
  <2>2. i < k \/ k < i
    BY <1>3, <2>1
  <2> QED
    BY <1>4, <2>1, <2>2 DEF Apart
<1>16. Tiled(f.chunks, Pos(f.at), Pos(f.cursor))
  <2>1. <<>> \in Seq(BlockRange) /\ Len(<<>>) = 0
    OBVIOUS
  <2> QED
    BY <1>5, <1>12, <2>1 DEF Tiled
<1>17. PagesOK(f)
  BY <1>11, <1>13, <1>14, <1>15, <1>16 DEF PagesOK
<1> QED
  BY <1>5, <1>6, <1>17 DEF f

(* The head of a request's pages is answered. *)
Out(f, i) == Released(f.ready \cup {Head(f.tasks[i])}, f.cursor)

LEMMA ReceiveOK ==
  ASSUME NEW f, PagesOK(f), NEW i \in DOMAIN f.tasks, f.tasks[i] # <<>>,
         NEW out, out = Out(f, i), NEW g, g = Receive(f, i, out)
  PROVE  PagesOK(g) /\ g.revision = f.revision /\ g.range = f.range /\ g.at = f.at
<1> DEFINE s == f.tasks[i]
           page == Head(s)
           all == f.ready \cup {page}
           next == IF out = <<>> THEN f.cursor ELSE Beyond(Last(out))
           c == Pos(f.cursor)
           z == Ends(f.range)
           J(k, l) == IF k = i THEN l + 1 ELSE l
<1>1. /\ DOMAIN f = {"range", "revision", "tasks", "tries", "ready", "cursor", "chunks", "at"}
      /\ f.range \in BlockRange /\ f.revision \in Nat
      /\ \A k \in DOMAIN f.tasks : f.tasks[k] \in Seq(BlockRange)
      /\ f.ready \in SUBSET BlockRange /\ IsFiniteSet(f.ready)
      /\ f.cursor \in Int /\ f.at \in Int
  BY DEF PagesOK, FetchShape
<1>2. s \in Seq(BlockRange) /\ s # <<>> /\ page = s[1] /\ page \in BlockRange /\ 1 \in 1..Len(s)
      /\ Tail(s) \in Seq(BlockRange) /\ Len(Tail(s)) = Len(s) - 1 /\ Len(s) \in Nat
      /\ \A l \in 1..Len(s) - 1 : Tail(s)[l] = s[l + 1]
  <2>1. s \in Seq(BlockRange) /\ s # <<>>
    BY <1>1
  <2> QED
    BY <2>1
<1>3. all \in SUBSET BlockRange /\ IsFiniteSet(all)
  BY <1>1, <1>2, FS_AddElement
<1>4. /\ DOMAIN g = {"range", "revision", "tasks", "tries", "ready", "cursor", "chunks", "at"}
      /\ g.range = f.range /\ g.revision = f.revision /\ g.at = f.at
      /\ DOMAIN g.tasks = DOMAIN f.tasks /\ g.tasks[i] = Tail(s)
      /\ \A k \in DOMAIN f.tasks : k # i => g.tasks[k] = f.tasks[k]
      /\ g.ready = all \ ToSet(out)
      /\ g.cursor = next
      /\ g.chunks = Chunking(f.chunks, out)[Len(out)]
  BY <1>1 DEF Receive
<1>5. /\ next \in Int
      /\ Tiled(out, c, Pos(next))
      /\ \A m \in 1..Len(out) : out[m] \in all
      /\ \A p \in all : Begins(p) # Pos(next)
  <2>1. out = Released(all, f.cursor) /\ next = IF out = <<>> THEN f.cursor ELSE Beyond(Last(out))
    BY DEF Out
  <2>2. f.cursor \in Int
    BY <1>1
  <2> HIDE DEF all, next
  <2>3. /\ next \in Int
        /\ Tiled(out, Pos(f.cursor), Pos(next))
        /\ \A m \in 1..Len(out) : out[m] \in all
        /\ \A p \in all : Begins(p) # Pos(next)
    BY ONLY <1>3, <2>1, <2>2, ReleasedRun
  <2> QED
    BY <2>3
<1>6. c \in Int /\ z \in Int /\ Pos(f.at) \in Int /\ Pos(next) \in Int
  BY <1>1, <1>5, PageEnds, PosType
<1>7. Tiled(g.chunks, Pos(g.at), Pos(g.cursor))
  <2> HIDE DEF c, next
  <2>1. Tiled(f.chunks, Pos(f.at), c)
    BY DEF PagesOK, c
  <2>2. Tiled(Chunking(f.chunks, out)[Len(out)], Pos(f.at), Pos(next))
    BY <1>5, <1>6, <2>1, ChunkingTiles
  <2> QED
    BY <1>4, <2>2
<1>8. /\ c <= Pos(next) /\ out \in Seq(BlockRange) /\ Len(out) \in Nat /\ DOMAIN out = 1..Len(out)
      /\ \A m \in 1..Len(out) : /\ out[m] \in BlockRange
                                /\ c <= Begins(out[m]) /\ Ends(out[m]) <= Pos(next)
      /\ \A x \in Int : c <= x /\ x < Pos(next) =>
           \E m \in 1..Len(out) : Begins(out[m]) <= x /\ x < Ends(out[m])
  <2> HIDE DEF c, next
  <2>1. Tiled(out, c, Pos(next))
    BY <1>5
  <2>2. out \in Seq(BlockRange)
    BY <2>1 DEF Tiled
  <2>3. c \in Int /\ Pos(next) \in Int
    BY <1>6
  <2>4. /\ c <= Pos(next)
        /\ \A m \in 1..Len(out) : /\ out[m] \in BlockRange
                                  /\ c <= Begins(out[m]) /\ Ends(out[m]) <= Pos(next)
        /\ \A x \in Int : c <= x /\ x < Pos(next) =>
             \E m \in 1..Len(out) : Begins(out[m]) <= x /\ x < Ends(out[m])
    BY ONLY <2>1, <2>3, TiledWithin
  <2>5. out \in Seq(BlockRange) /\ Len(out) \in Nat /\ DOMAIN out = 1..Len(out)
    BY ONLY <2>2
  <2> QED
    BY ONLY <2>4, <2>5
<1>9. \A q \in BlockRange : Begins(q) \in Int /\ Ends(q) \in Int /\ Begins(q) < Ends(q)
  BY PageEnds
<1>10. /\ \A k \in DOMAIN f.tasks : \A l \in 1..Len(f.tasks[k]) :
            c <= Begins(f.tasks[k][l]) /\ Ends(f.tasks[k][l]) <= z /\ f.tasks[k][l] \in BlockRange
       /\ \A p \in f.ready : c < Begins(p) /\ Ends(p) <= z
       /\ Begins(f.range) <= Pos(f.at) /\ c <= z
  BY <1>1 DEF PagesOK, Within
<1>11. \A p \in all : c <= Begins(p) /\ Ends(p) <= z /\ p \in BlockRange
  <2>1. c <= Begins(page) /\ Ends(page) <= z
    BY <1>2, <1>10
  <2>2. \A p \in f.ready : c <= Begins(p) /\ Ends(p) <= z
    BY <1>1, <1>6, <1>9, <1>10
  <2> QED
    BY <1>3, <2>1, <2>2
<1>12. Pos(next) <= z
  <2>1. CASE out = <<>>
    BY <1>10, <2>1
  <2>2. CASE out # <<>>
    <3>1. Ends(out[Len(out)]) = Pos(next) /\ Len(out) \in 1..Len(out)
      BY <1>5, <1>8, <2>2 DEF Tiled
    <3> QED
      BY <1>5, <1>11, <3>1
  <2> QED
    BY <2>1, <2>2
<1>13. \A p \in all : p \in g.ready \/ \E m \in 1..Len(out) : p = out[m]
  BY <1>4, <1>8 DEF ToSet
<1>14. \A p \in g.ready : p \in all /\ \A m \in 1..Len(out) : p # out[m]
  BY <1>4, <1>8 DEF ToSet
<1> HIDE DEF c, z, next, all, page, s
(* A page apart from those that went out begins behind them. *)
<1>15. ASSUME NEW q \in BlockRange, c <= Begins(q), \A m \in 1..Len(out) : Apart(q, out[m])
       PROVE  Pos(next) <= Begins(q)
  <2> SUFFICES ASSUME Begins(q) < Pos(next)
               PROVE  FALSE
    BY <1>6, <1>9
  <2>1. PICK m \in 1..Len(out) : Begins(out[m]) <= Begins(q) /\ Begins(q) < Ends(out[m])
    BY <1>8, <1>9, <1>15
  <2>2. Apart(q, out[m]) /\ out[m] \in BlockRange
    BY <1>8, <1>15
  <2> QED
    BY <1>9, <2>1, <2>2 DEF Apart
<1>16. /\ \A p, q \in f.ready : p # q => Apart(p, q)
       /\ \A k \in DOMAIN f.tasks : \A l \in 1..Len(f.tasks[k]) :
            /\ \A p \in f.ready : Apart(p, f.tasks[k][l])
            /\ \A m \in DOMAIN f.tasks : \A n \in 1..Len(f.tasks[m]) :
                 k # m \/ l # n => Apart(f.tasks[k][l], f.tasks[m][n])
  BY DEF PagesOK, Separate
<1>17. \A p, q \in BlockRange : Apart(p, q) <=> Apart(q, p)
  BY DEF Apart
<1>18. \A p, q \in all : p # q => Apart(p, q)
  <2>1. \A p \in f.ready : Apart(p, page)
    BY <1>2, <1>16 DEF s
  <2> QED
    BY <1>3, <1>16, <1>17, <2>1 DEF all
(* What a request has left, it had before. *)
<1>19. ASSUME NEW k \in DOMAIN g.tasks, NEW l \in 1..Len(g.tasks[k])
       PROVE  /\ k \in DOMAIN f.tasks /\ J(k, l) \in 1..Len(f.tasks[k])
              /\ g.tasks[k][l] = f.tasks[k][J(k, l)] /\ (k = i => J(k, l) # 1) /\ l \in Int
  <2>0. k \in DOMAIN f.tasks
    BY <1>4, <1>19
  <2>1. CASE k = i
    <3>1. l \in 1..Len(s) - 1 /\ g.tasks[k][l] = Tail(s)[l]
      BY <1>2, <1>4, <1>19, <2>1
    <3> QED
      BY <1>2, <2>0, <2>1, <3>1 DEF s
  <2>2. CASE k # i
    <3>1. g.tasks[k] = f.tasks[k] /\ J(k, l) = l
      BY <1>4, <2>0, <2>2
    <3> QED
      BY <2>0, <2>2, <3>1
  <2> QED
    BY <2>1, <2>2
<1>20. ASSUME NEW k \in DOMAIN f.tasks, NEW l \in 1..Len(f.tasks[k])
       PROVE  \/ f.tasks[k][l] = page
              \/ k \in DOMAIN g.tasks /\ \E m \in 1..Len(g.tasks[k]) : g.tasks[k][m] = f.tasks[k][l]
  <2>1. CASE k # i
    BY <1>4, <1>20, <2>1
  <2>2. CASE k = i /\ l = 1
    BY <1>2, <2>2 DEF s
  <2>3. CASE k = i /\ l # 1
    <3>1. l - 1 \in 1..Len(s) - 1 /\ Tail(s)[l - 1] = s[(l - 1) + 1] /\ (l - 1) + 1 = l
      BY <1>2, <1>20, <2>3 DEF s
    <3>2. l - 1 \in 1..Len(g.tasks[k]) /\ g.tasks[k][l - 1] = f.tasks[k][l]
      BY <1>2, <1>4, <2>3, <3>1 DEF s
    <3> QED
      BY <1>4, <1>20, <3>2
  <2> QED
    BY <2>1, <2>2, <2>3
<1> HIDE DEF J
<1>21. ASSUME NEW k \in DOMAIN g.tasks, NEW l \in 1..Len(g.tasks[k])
       PROVE  /\ g.tasks[k][l] \in BlockRange
              /\ Pos(next) <= Begins(g.tasks[k][l]) /\ Ends(g.tasks[k][l]) <= z
              /\ \A p \in all : Apart(p, g.tasks[k][l])
  <2> DEFINE q == f.tasks[k][J(k, l)]
  <2>1. /\ k \in DOMAIN f.tasks /\ J(k, l) \in 1..Len(f.tasks[k]) /\ g.tasks[k][l] = q
        /\ (k = i => J(k, l) # 1)
    BY <1>19
  <2>2. q \in BlockRange /\ c <= Begins(q) /\ Ends(q) <= z
    BY <1>10, <2>1
  <2>3. Apart(page, q)
    BY <1>2, <1>16, <2>1 DEF s
  <2>4. \A p \in all : Apart(p, q)
    BY <1>16, <2>1, <2>3 DEF all
  <2>5. \A m \in 1..Len(out) : Apart(q, out[m])
    BY <1>5, <1>8, <1>17, <2>2, <2>4
  <2> HIDE DEF q
  <2>6. Pos(next) <= Begins(q)
    BY <1>15, <2>2, <2>5
  <2> QED
    BY <2>1, <2>2, <2>4, <2>6
<1>22. \A p \in g.ready : Pos(next) < Begins(p) /\ Ends(p) <= z
  <2> SUFFICES ASSUME NEW p \in g.ready
               PROVE  Pos(next) < Begins(p) /\ Ends(p) <= z
    OBVIOUS
  <2>1. p \in all /\ p \in BlockRange /\ c <= Begins(p) /\ Ends(p) <= z
    BY <1>11, <1>14
  <2>2. \A m \in 1..Len(out) : Apart(p, out[m])
    BY <1>5, <1>14, <1>18, <2>1
  <2>3. Pos(next) <= Begins(p)
    BY <1>15, <2>1, <2>2
  <2>4. Begins(p) # Pos(next)
    BY <1>5, <2>1
  <2> QED
    BY <1>6, <1>9, <2>1, <2>3, <2>4
<1>23. FetchShape(g)
  <2>1. \A k \in DOMAIN g.tasks : g.tasks[k] \in Seq(BlockRange)
    BY <1>1, <1>2, <1>4
  <2>2. g.ready \in SUBSET BlockRange /\ IsFiniteSet(g.ready)
    <3>1. IsFiniteSet(all \ ToSet(out))
      BY <1>3, FS_Difference
    <3> QED
      BY <1>3, <1>4, <3>1
  <2> QED
    BY <1>1, <1>4, <1>5, <2>1, <2>2 DEF FetchShape
<1>24. Within(g)
  <2>1. Ends(g.range) = z /\ Pos(g.cursor) = Pos(next) /\ g.range = f.range /\ g.at = f.at
    BY <1>4 DEF z
  <2>2. \A k \in DOMAIN g.tasks : \A l \in 1..Len(g.tasks[k]) :
          Pos(next) <= Begins(g.tasks[k][l]) /\ Ends(g.tasks[k][l]) <= z
    BY <1>21
  <2> QED
    BY ONLY <1>10, <1>12, <1>22, <2>1, <2>2 DEF Within
<1>25. Filled(g)
  <2> SUFFICES ASSUME NEW x \in Int, Pos(next) <= x, x < z
               PROVE  \/ \E p \in g.ready : Begins(p) <= x /\ x < Ends(p)
                      \/ \E k \in DOMAIN g.tasks : \E l \in 1..Len(g.tasks[k]) :
                           Begins(g.tasks[k][l]) <= x /\ x < Ends(g.tasks[k][l])
    BY <1>4 DEF Filled, z
  <2>1. c <= x
    BY <1>6, <1>8
  <2>2. \/ \E p \in f.ready : Begins(p) <= x /\ x < Ends(p)
        \/ \E k \in DOMAIN f.tasks : \E l \in 1..Len(f.tasks[k]) :
             Begins(f.tasks[k][l]) <= x /\ x < Ends(f.tasks[k][l])
    BY <2>1 DEF PagesOK, Filled, c, z
  <2>3. ASSUME NEW p \in all, Begins(p) <= x, x < Ends(p)
        PROVE  p \in g.ready
    <3> SUFFICES ASSUME NEW m \in 1..Len(out), p = out[m]
                 PROVE  FALSE
      BY <1>13, <2>3
    <3>1. Ends(p) <= Pos(next) /\ p \in BlockRange
      BY <1>8
    <3> QED
      BY <1>6, <1>9, <2>3, <3>1
  <2>4. CASE \E p \in f.ready : Begins(p) <= x /\ x < Ends(p)
    BY <2>3, <2>4 DEF all
  <2>5. CASE \E k \in DOMAIN f.tasks : \E l \in 1..Len(f.tasks[k]) :
               Begins(f.tasks[k][l]) <= x /\ x < Ends(f.tasks[k][l])
    <3>4. PICK k \in DOMAIN f.tasks : \E l \in 1..Len(f.tasks[k]) :
                 Begins(f.tasks[k][l]) <= x /\ x < Ends(f.tasks[k][l])
      BY <2>5
    <3>1. PICK l \in 1..Len(f.tasks[k]) : Begins(f.tasks[k][l]) <= x /\ x < Ends(f.tasks[k][l])
      BY <3>4
    <3>2. CASE f.tasks[k][l] = page
      <4>1. page \in g.ready
        BY <2>3, <3>1, <3>2 DEF all
      <4> QED
        BY <3>1, <3>2, <4>1
    <3>3. CASE f.tasks[k][l] # page
      <4>1. k \in DOMAIN g.tasks /\ \E m \in 1..Len(g.tasks[k]) : g.tasks[k][m] = f.tasks[k][l]
        BY <1>20, <3>3
      <4> QED
        BY <3>1, <4>1
    <3> QED
      BY <3>2, <3>3
  <2> QED
    BY <2>2, <2>4, <2>5
<1>26. Separate(g)
  <2>1. \A p, q \in g.ready : p # q => Apart(p, q)
    BY <1>14, <1>18
  <2>2. \A k \in DOMAIN g.tasks : \A l \in 1..Len(g.tasks[k]) :
          \A p \in g.ready : Apart(p, g.tasks[k][l])
    BY <1>14, <1>21
  <2>3. ASSUME NEW k \in DOMAIN g.tasks, NEW l \in 1..Len(g.tasks[k]),
               NEW m \in DOMAIN g.tasks, NEW n \in 1..Len(g.tasks[m]), k # m \/ l # n
        PROVE  Apart(g.tasks[k][l], g.tasks[m][n])
    <3>1. /\ k \in DOMAIN f.tasks /\ J(k, l) \in 1..Len(f.tasks[k])
          /\ g.tasks[k][l] = f.tasks[k][J(k, l)] /\ l \in Int
      BY <1>19
    <3>2. /\ m \in DOMAIN f.tasks /\ J(m, n) \in 1..Len(f.tasks[m])
          /\ g.tasks[m][n] = f.tasks[m][J(m, n)] /\ n \in Int
      BY <1>19
    <3>3. k # m \/ J(k, l) # J(m, n)
      BY <2>3, <3>1, <3>2 DEF J
    <3> QED
      BY <1>16, <3>1, <3>2, <3>3
  <2>4. \A k \in DOMAIN g.tasks : \A l \in 1..Len(g.tasks[k]) :
          \A m \in DOMAIN g.tasks : \A n \in 1..Len(g.tasks[m]) :
            k # m \/ l # n => Apart(g.tasks[k][l], g.tasks[m][n])
    BY <2>3
  <2> QED
    BY ONLY <2>1, <2>2, <2>4 DEF Separate
<1> QED
  BY <1>4, <1>7, <1>23, <1>24, <1>25, <1>26 DEF PagesOK

LEMMA JoinIs ==
  ASSUME NEW s \in Seq(BlockRange), NEW t \in Seq(BlockRange)
  PROVE  /\ s \o t \in Seq(BlockRange) /\ Len(s \o t) = Len(s) + Len(t)
         /\ \A i \in 1..Len(s) : (s \o t)[i] = s[i]
         /\ \A i \in 1..Len(t) : (s \o t)[Len(s) + i] = t[i]
OBVIOUS

(* The head of a request's pages is split. *)
LEMMA SplitOK ==
  ASSUME NEW f, PagesOK(f), NEW i \in DOMAIN f.tasks, f.tasks[i] # <<>>,
         Head(f.tasks[i])[1] < Head(f.tasks[i])[2],
         NEW g, g = [f EXCEPT !.tasks[i] = Halves(Head(f.tasks[i])) \o Tail(@), !.tries[i] = 0]
  PROVE  PagesOK(g) /\ g.revision = f.revision /\ g.range = f.range /\ g.at = f.at
<1> DEFINE s == f.tasks[i]
           page == Head(s)
           t == Halves(page) \o Tail(s)
           c == Pos(f.cursor)
           z == Ends(f.range)
           J(k, l) == IF k = i /\ l > 1 THEN l - 1 ELSE l
<1>1. /\ DOMAIN f = {"range", "revision", "tasks", "tries", "ready", "cursor", "chunks", "at"}
      /\ f.range \in BlockRange /\ f.revision \in Nat
      /\ \A k \in DOMAIN f.tasks : f.tasks[k] \in Seq(BlockRange)
      /\ f.ready \in SUBSET BlockRange /\ IsFiniteSet(f.ready)
      /\ f.cursor \in Int /\ f.at \in Int
  BY DEF PagesOK, FetchShape
<1>2. s \in Seq(BlockRange) /\ s # <<>> /\ page = s[1] /\ page \in BlockRange /\ 1 \in 1..Len(s)
      /\ Tail(s) \in Seq(BlockRange) /\ Len(Tail(s)) = Len(s) - 1 /\ Len(s) \in Nat
      /\ \A l \in 1..Len(s) - 1 : Tail(s)[l] = s[l + 1]
  <2>1. s \in Seq(BlockRange) /\ s # <<>>
    BY <1>1
  <2> QED
    BY <2>1
<1>3. /\ DOMAIN g = {"range", "revision", "tasks", "tries", "ready", "cursor", "chunks", "at"}
      /\ g.range = f.range /\ g.revision = f.revision /\ g.at = f.at
      /\ DOMAIN g.tasks = DOMAIN f.tasks /\ g.tasks[i] = t
      /\ \A k \in DOMAIN f.tasks : k # i => g.tasks[k] = f.tasks[k]
      /\ g.ready = f.ready /\ g.cursor = f.cursor /\ g.chunks = f.chunks
  BY <1>1
<1>4. /\ Len(Halves(page)) = 2 /\ Halves(page) \in Seq(BlockRange)
      /\ Begins(Halves(page)[1]) = Begins(page) /\ Ends(Halves(page)[2]) = Ends(page)
      /\ Ends(Halves(page)[1]) = Begins(Halves(page)[2])
  BY <1>2, HalvesTile
<1> HIDE DEF c, z
<1>5. /\ t \in Seq(BlockRange) /\ Len(t) = Len(s) + 1
      /\ t[1] = Halves(page)[1] /\ t[2] = Halves(page)[2]
      /\ \A l \in 3..Len(s) + 1 : t[l] = s[l - 1]
  <2> DEFINE u == Tail(s)
             h == Halves(page)
  <2>1. u \in Seq(BlockRange) /\ Len(u) = Len(s) - 1 /\ Len(s) \in Nat /\ 1 \in 1..Len(s)
        /\ h \in Seq(BlockRange) /\ Len(h) = 2
    BY <1>2, <1>4
  <2>2. ASSUME NEW l \in 3..Len(s) + 1
        PROVE  (h \o u)[l] = s[l - 1]
    <3>1. l - 2 \in 1..Len(s) - 1 /\ (l - 2) + 1 = l - 1
      BY <2>1
    <3>2. u[l - 2] = s[l - 1]
      BY <1>2, <3>1
    <3> HIDE DEF u, h
    <3>3. Len(h) + (l - 2) = l /\ l - 2 \in 1..Len(u)
      BY <2>1
    <3>4. (h \o u)[Len(h) + (l - 2)] = u[l - 2]
      BY ONLY <2>1, <3>3, JoinIs
    <3> QED
      BY <3>2, <3>3, <3>4
  <2> HIDE DEF u, h
  <2>4. h \o u \in Seq(BlockRange) /\ Len(h \o u) = Len(h) + Len(u)
        /\ \A k \in 1..Len(h) : (h \o u)[k] = h[k]
    BY ONLY <2>1, JoinIs
  <2>5. 1 \in 1..Len(h) /\ 2 \in 1..Len(h)
    BY <2>1
  <2>3. h \o u \in Seq(BlockRange) /\ Len(h \o u) = Len(s) + 1
        /\ (h \o u)[1] = h[1] /\ (h \o u)[2] = h[2]
    BY <2>1, <2>4, <2>5
  <2> QED
    BY <2>2, <2>3 DEF u, h
<1> DEFINE first == Halves(page)[1]
           second == Halves(page)[2]
<1>6. first \in BlockRange /\ second \in BlockRange
  BY <1>4
<1>7. \A q \in BlockRange : Begins(q) \in Int /\ Ends(q) \in Int /\ Begins(q) < Ends(q)
  BY PageEnds
<1> HIDE DEF first, second, page, s, t
(* Each page a request has is within one it had. *)
<1>8. ASSUME NEW k \in DOMAIN g.tasks, NEW l \in 1..Len(g.tasks[k])
      PROVE  /\ k \in DOMAIN f.tasks /\ J(k, l) \in 1..Len(f.tasks[k])
             /\ f.tasks[k][J(k, l)] \in BlockRange /\ g.tasks[k][l] \in BlockRange
             /\ Begins(f.tasks[k][J(k, l)]) <= Begins(g.tasks[k][l])
             /\ Ends(g.tasks[k][l]) <= Ends(f.tasks[k][J(k, l)])
             /\ l \in 1..Len(g.tasks[k]) /\ l \in Int
  <2>0. k \in DOMAIN f.tasks /\ f.tasks[k] \in Seq(BlockRange)
    BY <1>1, <1>3
  <2>1. CASE k # i
    <3>1. g.tasks[k] = f.tasks[k] /\ J(k, l) = l
      BY <1>3, <2>0, <2>1
    <3>7. l \in 1..Len(g.tasks[k])
      OBVIOUS
    <3>8. l \in 1..Len(f.tasks[k])
      BY ONLY <3>1, <3>7
    <3>9. Len(f.tasks[k]) \in Nat
      BY ONLY <2>0
    <3>2. l \in 1..Len(f.tasks[k]) /\ l \in Int
      BY ONLY <3>8, <3>9
    <3> DEFINE q == f.tasks[k][l]
    <3>3. q \in BlockRange
      BY <2>0, <3>2
    <3>4. Begins(q) <= Begins(q) /\ Ends(q) <= Ends(q)
      BY <1>7, <3>3
    <3>5. g.tasks[k][l] = q /\ f.tasks[k][J(k, l)] = q
      BY <3>1
    <3> HIDE DEF q
    <3>6. l \in 1..Len(g.tasks[k]) /\ J(k, l) \in 1..Len(f.tasks[k])
      BY <3>1, <3>2
    <3> HIDE DEF J
    <3> QED
      BY ONLY <2>0, <3>2, <3>3, <3>4, <3>5, <3>6
  <2>2. CASE k = i /\ l = 1
    <3>1. g.tasks[k][l] = first /\ J(k, l) = 1 /\ f.tasks[k][1] = page /\ 1 \in 1..Len(f.tasks[k])
      BY <1>2, <1>3, <1>5, <2>2 DEF first, s
    <3>2. Begins(first) = Begins(page) /\ Ends(first) = Begins(second) /\ Ends(second) = Ends(page)
      BY <1>4 DEF first, second
    <3>3. Begins(page) <= Begins(first) /\ Ends(first) <= Ends(page)
      BY <1>2, <1>6, <1>7, <3>2
    <3>4. f.tasks[k][J(k, l)] = page /\ J(k, l) \in 1..Len(f.tasks[k])
          /\ l \in 1..Len(g.tasks[k]) /\ l \in Int
      <4>1. l \in 1..Len(g.tasks[k])
        OBVIOUS
      <4> QED
        BY ONLY <2>2, <3>1, <4>1
    <3> HIDE DEF J
    <3> QED
      BY ONLY <1>2, <1>6, <2>0, <3>1, <3>3, <3>4
  <2>3. CASE k = i /\ l = 2
    <3>1. g.tasks[k][l] = second /\ J(k, l) = 1 /\ f.tasks[k][1] = page /\ 1 \in 1..Len(f.tasks[k])
      BY <1>2, <1>3, <1>5, <2>3 DEF second, s
    <3>2. Begins(first) = Begins(page) /\ Ends(first) = Begins(second) /\ Ends(second) = Ends(page)
      BY <1>4 DEF first, second
    <3>3. Begins(page) <= Begins(second) /\ Ends(second) <= Ends(page)
      BY <1>2, <1>6, <1>7, <3>2
    <3>4. f.tasks[k][J(k, l)] = page /\ J(k, l) \in 1..Len(f.tasks[k])
          /\ l \in 1..Len(g.tasks[k]) /\ l \in Int
      <4>1. l \in 1..Len(g.tasks[k])
        OBVIOUS
      <4> QED
        BY ONLY <2>3, <3>1, <4>1
    <3> HIDE DEF J
    <3> QED
      BY ONLY <1>2, <1>6, <2>0, <3>1, <3>3, <3>4
  <2>4. CASE k = i /\ l > 2
    <3>1. l \in 3..Len(s) + 1 /\ l \in Int
      BY <1>2, <1>3, <1>5, <2>4
    <3>2. J(k, l) = l - 1 /\ l - 1 \in 1..Len(s) /\ t[l] = s[l - 1] /\ s[l - 1] \in BlockRange
      BY <1>2, <1>5, <2>4, <3>1
    <3> DEFINE q == f.tasks[k][J(k, l)]
    <3>3. g.tasks[k][l] = q
      BY <1>3, <2>4, <3>2 DEF s
    <3>4. q \in BlockRange /\ J(k, l) \in 1..Len(f.tasks[k])
      BY <2>4, <3>2 DEF s
    <3>5. Begins(q) <= Begins(q) /\ Ends(q) <= Ends(q)
      BY <1>7, <3>4
    <3> HIDE DEF J
    <3>6. l \in 1..Len(g.tasks[k])
      OBVIOUS
    <3> QED
      BY ONLY <2>0, <3>1, <3>3, <3>4, <3>5, <3>6
  <2>5. l = 1 \/ l = 2 \/ l > 2
    <3>1. Len(g.tasks[k]) \in Nat
      BY <1>1, <1>2, <1>3, <1>5, <2>0
    <3> QED
      BY <3>1
  <2> QED
    BY <2>1, <2>2, <2>3, <2>4, <2>5
<1>9. /\ \A p, q \in f.ready : p # q => Apart(p, q)
      /\ \A k \in DOMAIN f.tasks : \A l \in 1..Len(f.tasks[k]) :
            /\ \A p \in f.ready : Apart(p, f.tasks[k][l])
            /\ \A m \in DOMAIN f.tasks : \A n \in 1..Len(f.tasks[m]) :
                 k # m \/ l # n => Apart(f.tasks[k][l], f.tasks[m][n])
  BY DEF PagesOK, Separate
<1>10. /\ \A k \in DOMAIN f.tasks : \A l \in 1..Len(f.tasks[k]) :
            c <= Begins(f.tasks[k][l]) /\ Ends(f.tasks[k][l]) <= z
       /\ \A p \in f.ready : c < Begins(p) /\ Ends(p) <= z
       /\ Begins(f.range) <= Pos(f.at) /\ c <= z /\ c \in Int /\ z \in Int
  <2>1. c \in Int /\ z \in Int
    BY <1>1, PageEnds, PosType DEF c, z
  <2> QED
    BY <2>1 DEF PagesOK, Within, c, z
<1>11. FetchShape(g)
  <2>1. \A k \in DOMAIN g.tasks : g.tasks[k] \in Seq(BlockRange)
    BY <1>1, <1>3, <1>5
  <2> QED
    BY <1>1, <1>3, <2>1 DEF FetchShape
<1>12. \A p \in f.ready : p \in BlockRange
  BY <1>1
<1>13. Within(g)
  <2>1. Ends(g.range) = z /\ Pos(g.cursor) = c /\ g.range = f.range /\ g.at = f.at
        /\ g.ready = f.ready
    BY <1>3 DEF z, c
  <2>2. \A k \in DOMAIN g.tasks : \A l \in 1..Len(g.tasks[k]) :
          c <= Begins(g.tasks[k][l]) /\ Ends(g.tasks[k][l]) <= z
    <3> SUFFICES ASSUME NEW k \in DOMAIN g.tasks, NEW l \in 1..Len(g.tasks[k])
                 PROVE  c <= Begins(g.tasks[k][l]) /\ Ends(g.tasks[k][l]) <= z
      OBVIOUS
    <3> DEFINE q == f.tasks[k][J(k, l)]
    <3>1. q \in BlockRange /\ g.tasks[k][l] \in BlockRange
          /\ Begins(q) <= Begins(g.tasks[k][l]) /\ Ends(g.tasks[k][l]) <= Ends(q)
      BY <1>8
    <3>2. c <= Begins(q) /\ Ends(q) <= z
      BY <1>8, <1>10
    <3> DEFINE v == g.tasks[k][l]
    <3>3. v \in BlockRange /\ Begins(q) <= Begins(v) /\ Ends(v) <= Ends(q)
      BY <3>1
    <3>4. c \in Int /\ z \in Int
      BY <1>10
    <3> HIDE DEF q, v
    <3>5. c <= Begins(v) /\ Ends(v) <= z
      BY ONLY <1>7, <3>1, <3>2, <3>3, <3>4
    <3> QED
      BY <3>5 DEF v
  <2> QED
    BY ONLY <1>10, <2>1, <2>2 DEF Within
<1>14. Filled(g)
  <2> SUFFICES ASSUME NEW x \in Int, c <= x, x < z
               PROVE  \/ \E p \in g.ready : Begins(p) <= x /\ x < Ends(p)
                      \/ \E k \in DOMAIN g.tasks : \E l \in 1..Len(g.tasks[k]) :
                           Begins(g.tasks[k][l]) <= x /\ x < Ends(g.tasks[k][l])
    <3>1. Pos(g.cursor) = c /\ Ends(g.range) = z
      BY <1>3 DEF z, c
    <3>2. \A x \in Int : c <= x /\ x < z =>
            \/ \E p \in g.ready : Begins(p) <= x /\ x < Ends(p)
            \/ \E k \in DOMAIN g.tasks : \E l \in 1..Len(g.tasks[k]) :
                 Begins(g.tasks[k][l]) <= x /\ x < Ends(g.tasks[k][l])
      OBVIOUS
    <3> QED
      BY ONLY <3>1, <3>2 DEF Filled
  <2>2. \/ \E p \in f.ready : Begins(p) <= x /\ x < Ends(p)
        \/ \E k \in DOMAIN f.tasks : \E l \in 1..Len(f.tasks[k]) :
             Begins(f.tasks[k][l]) <= x /\ x < Ends(f.tasks[k][l])
    BY DEF PagesOK, Filled, c, z
  <2>3. CASE \E p \in f.ready : Begins(p) <= x /\ x < Ends(p)
    BY <1>3, <2>3
  <2>4. CASE \E k \in DOMAIN f.tasks : \E l \in 1..Len(f.tasks[k]) :
               Begins(f.tasks[k][l]) <= x /\ x < Ends(f.tasks[k][l])
    <3>1. PICK k \in DOMAIN f.tasks : \E l \in 1..Len(f.tasks[k]) :
                 Begins(f.tasks[k][l]) <= x /\ x < Ends(f.tasks[k][l])
      BY <2>4
    <3>2. PICK l \in 1..Len(f.tasks[k]) : Begins(f.tasks[k][l]) <= x /\ x < Ends(f.tasks[k][l])
      BY <3>1
    <3>3. k \in DOMAIN g.tasks
      BY <1>3
    <3>4. CASE k # i
      <4>1. g.tasks[k] = f.tasks[k]
        BY <1>3, <3>4
      <4> QED
        BY <3>2, <3>3, <4>1
    <3>5. CASE k = i /\ l = 1
      <4>1. f.tasks[k][l] = page
        BY <1>2, <3>5 DEF s
      <4>2. Begins(first) = Begins(page) /\ Ends(first) = Begins(second)
            /\ Ends(second) = Ends(page)
        BY <1>4 DEF first, second
      <4>3. (Begins(first) <= x /\ x < Ends(first)) \/ (Begins(second) <= x /\ x < Ends(second))
        BY <1>6, <1>7, <3>2, <4>1, <4>2
      <4>4. g.tasks[i][1] = first /\ g.tasks[i][2] = second
            /\ 1 \in 1..Len(g.tasks[i]) /\ 2 \in 1..Len(g.tasks[i])
        BY <1>2, <1>3, <1>5 DEF first, second
      <4> QED
        BY <3>3, <3>5, <4>3, <4>4
    <3>6. CASE k = i /\ l # 1
      <4>1. l + 1 \in 3..Len(s) + 1 /\ l + 1 \in 1..Len(t) /\ (l + 1) - 1 = l
        BY <1>2, <1>5, <3>6 DEF s
      <4>2. g.tasks[i][l + 1] = f.tasks[k][l] /\ l + 1 \in 1..Len(g.tasks[i])
        BY <1>3, <1>5, <3>6, <4>1 DEF s
      <4> QED
        BY <3>2, <3>3, <3>6, <4>2
    <3> QED
      BY <3>4, <3>5, <3>6
  <2> QED
    BY <2>2, <2>3, <2>4
<1>15. Separate(g)
  <2>1. \A k \in DOMAIN g.tasks : \A l \in 1..Len(g.tasks[k]) :
          \A p \in f.ready : Apart(p, g.tasks[k][l])
    <3> SUFFICES ASSUME NEW k \in DOMAIN g.tasks, NEW l \in 1..Len(g.tasks[k]), NEW p \in f.ready
                 PROVE  Apart(p, g.tasks[k][l])
      OBVIOUS
    <3> DEFINE q == f.tasks[k][J(k, l)]
    <3>1. q \in BlockRange /\ g.tasks[k][l] \in BlockRange
          /\ Begins(q) <= Begins(g.tasks[k][l]) /\ Ends(g.tasks[k][l]) <= Ends(q)
      BY <1>8
    <3>2. Apart(p, q)
      BY <1>8, <1>9
    <3> DEFINE v == g.tasks[k][l]
    <3>3. v \in BlockRange /\ Begins(q) <= Begins(v) /\ Ends(v) <= Ends(q)
      BY <3>1
    <3>4. p \in BlockRange
      BY <1>12
    <3> HIDE DEF q, v
    <3>5. Apart(p, v)
      BY ONLY <1>7, <3>1, <3>2, <3>3, <3>4 DEF Apart
    <3> QED
      BY <3>5 DEF v
  <2>2. ASSUME NEW k \in DOMAIN g.tasks, NEW l \in 1..Len(g.tasks[k]),
               NEW m \in DOMAIN g.tasks, NEW n \in 1..Len(g.tasks[m]), k # m \/ l # n
        PROVE  Apart(g.tasks[k][l], g.tasks[m][n])
    <3> DEFINE p == f.tasks[k][J(k, l)]
               q == f.tasks[m][J(m, n)]
    <3>1. k \in DOMAIN f.tasks /\ J(k, l) \in 1..Len(f.tasks[k])
          /\ p \in BlockRange /\ g.tasks[k][l] \in BlockRange
          /\ Begins(p) <= Begins(g.tasks[k][l]) /\ Ends(g.tasks[k][l]) <= Ends(p)
          /\ l \in 1..Len(g.tasks[k]) /\ l \in Int
      BY <1>8
    <3>2. m \in DOMAIN f.tasks /\ J(m, n) \in 1..Len(f.tasks[m])
          /\ q \in BlockRange /\ g.tasks[m][n] \in BlockRange
          /\ Begins(q) <= Begins(g.tasks[m][n]) /\ Ends(g.tasks[m][n]) <= Ends(q)
          /\ n \in 1..Len(g.tasks[m]) /\ n \in Int
      BY <1>8
    <3>3. CASE k # m \/ J(k, l) # J(m, n)
      <4>1. Apart(p, q)
        BY <1>9, <3>1, <3>2, <3>3
      <4> HIDE DEF p, q
      <4> QED
        BY ONLY <1>7, <3>1, <3>2, <4>1 DEF Apart
    <3>4. CASE k = m /\ J(k, l) = J(m, n)
      <4>1. k = i /\ ((l = 1 /\ n = 2) \/ (l = 2 /\ n = 1))
        <5>1. l >= 1 /\ n >= 1 /\ l # n
          BY <2>2, <3>1, <3>2, <3>4
        <5> QED
          BY <3>1, <3>2, <3>4, <5>1
      <4>2. g.tasks[i][1] = first /\ g.tasks[i][2] = second
        BY <1>2, <1>3, <1>5 DEF first, second
      <4>3. Ends(first) = Begins(second)
        BY <1>4 DEF first, second
      <4>4. Ends(first) <= Begins(second)
        BY <1>6, <1>7, <4>3
      <4>5. Apart(first, second) /\ Apart(second, first)
        BY ONLY <4>4 DEF Apart
      <4>6. k = i /\ m = i
        BY <3>4, <4>1
      <4> QED
        BY ONLY <4>1, <4>2, <4>5, <4>6
    <3> QED
      BY <3>3, <3>4
  <2>3. \A k \in DOMAIN g.tasks : \A l \in 1..Len(g.tasks[k]) :
          \A m \in DOMAIN g.tasks : \A n \in 1..Len(g.tasks[m]) :
            k # m \/ l # n => Apart(g.tasks[k][l], g.tasks[m][n])
    BY <2>2
  <2>4. \A p, q \in g.ready : p # q => Apart(p, q)
    BY <1>3, <1>9
  <2>5. g.ready = f.ready
    BY <1>3
  <2> QED
    BY ONLY <2>1, <2>3, <2>4, <2>5 DEF Separate
<1>16. Tiled(g.chunks, Pos(g.at), Pos(g.cursor))
  BY <1>3 DEF PagesOK
<1> QED
  BY <1>3, <1>11, <1>13, <1>14, <1>15, <1>16 DEF PagesOK

(* The first chunk is committed. *)
LEMMA CommitOK ==
  ASSUME NEW f, PagesOK(f), f.chunks # <<>>,
         NEW g, g = [f EXCEPT !.chunks = Tail(@), !.at = Beyond(Head(f.chunks))]
  PROVE  /\ PagesOK(g) /\ g.revision = f.revision /\ g.range = f.range
         /\ Head(f.chunks) \in BlockRange
         /\ Begins(Head(f.chunks)) = Pos(f.at) /\ Ends(Head(f.chunks)) = Pos(g.at)
         /\ Pos(f.at) < Pos(g.at) /\ Pos(g.at) <= Ends(f.range)
<1> DEFINE chunk == Head(f.chunks)
<1>1. FetchShape(f) /\ Within(f) /\ Filled(f) /\ Separate(f)
      /\ Tiled(f.chunks, Pos(f.at), Pos(f.cursor))
  BY DEF PagesOK
<1>2. /\ DOMAIN f = {"range", "revision", "tasks", "tries", "ready", "cursor", "chunks", "at"}
      /\ f.range \in BlockRange /\ f.cursor \in Int /\ f.at \in Int
  BY <1>1 DEF FetchShape
<1>3. /\ DOMAIN g = {"range", "revision", "tasks", "tries", "ready", "cursor", "chunks", "at"}
      /\ g.range = f.range /\ g.revision = f.revision /\ g.tasks = f.tasks
      /\ g.ready = f.ready /\ g.cursor = f.cursor
      /\ g.chunks = Tail(f.chunks) /\ g.at = Beyond(chunk)
  BY <1>2
<1>4. Tiled(Tail(f.chunks), Ends(chunk), Pos(f.cursor)) /\ chunk \in BlockRange
      /\ Begins(chunk) = Pos(f.at)
  BY <1>1, TiledTail
<1> HIDE DEF chunk
<1>5. Begins(chunk) \in Int /\ Ends(chunk) \in Int /\ Begins(chunk) < Ends(chunk)
      /\ Beyond(chunk) \in Int /\ Pos(f.cursor) \in Int /\ Ends(chunk) = Pos(g.at)
      /\ Pos(f.at) \in Int /\ Ends(f.range) \in Int /\ Begins(f.range) \in Int
  BY <1>2, <1>3, <1>4, PageEnds, PosType DEF Ends
<1>6. Ends(chunk) <= Pos(f.cursor)
  <2>1. Tiled(Tail(f.chunks), Ends(chunk), Pos(f.cursor))
        /\ Ends(chunk) \in Int /\ Pos(f.cursor) \in Int
    BY <1>4, <1>5
  <2> QED
    BY ONLY <2>1, TiledWithin
<1>7. Begins(f.range) <= Pos(f.at) /\ Pos(f.cursor) <= Ends(f.range)
  BY <1>1 DEF Within
<1>8. Pos(f.at) < Pos(g.at) /\ Pos(g.at) <= Ends(f.range) /\ Begins(f.range) <= Pos(g.at)
  BY <1>4, <1>5, <1>6, <1>7
<1>9. FetchShape(g)
  BY <1>1, <1>3, <1>5 DEF FetchShape
<1>10. Within(g)
  <2>1. Pos(g.cursor) = Pos(f.cursor)
    BY <1>3
  <2> QED
    BY ONLY <1>1, <1>3, <1>8, <2>1 DEF Within
<1>11. Filled(g) /\ Separate(g)
  BY ONLY <1>1, <1>3 DEF Filled, Separate
<1>12. Tiled(g.chunks, Pos(g.at), Pos(g.cursor))
  BY <1>3, <1>4, <1>5
<1> QED
  BY <1>3, <1>4, <1>5, <1>8, <1>9, <1>10, <1>11, <1>12 DEF PagesOK, chunk

(* A failed request is repeated. *)
LEMMA RepeatOK ==
  ASSUME NEW f, PagesOK(f), NEW i, NEW g, g = [f EXCEPT !.tries[i] = @ + 1]
  PROVE  PagesOK(g) /\ g.revision = f.revision /\ g.range = f.range /\ g.at = f.at
<1>1. FetchShape(f) /\ Within(f) /\ Filled(f) /\ Separate(f)
      /\ Tiled(f.chunks, Pos(f.at), Pos(f.cursor))
  BY DEF PagesOK
<1>2. DOMAIN f = {"range", "revision", "tasks", "tries", "ready", "cursor", "chunks", "at"}
  BY <1>1 DEF FetchShape
<1>3. /\ DOMAIN g = {"range", "revision", "tasks", "tries", "ready", "cursor", "chunks", "at"}
      /\ g.range = f.range /\ g.revision = f.revision /\ g.tasks = f.tasks
      /\ g.ready = f.ready /\ g.cursor = f.cursor /\ g.chunks = f.chunks /\ g.at = f.at
  BY <1>2
<1>4. FetchShape(g)
  BY ONLY <1>1, <1>3 DEF FetchShape
<1>5. Within(g) /\ Filled(g) /\ Separate(g)
  BY ONLY <1>1, <1>3 DEF Within, Filled, Separate
<1>6. Tiled(g.chunks, Pos(g.at), Pos(g.cursor))
  BY <1>1, <1>3
<1> QED
  BY <1>3, <1>4, <1>5, <1>6 DEF PagesOK

LEMMA PagesNext ==
  ASSUME NEW v, direction' = direction, fetch' = v, PagesOK(v)
  PROVE  PagesOK(fetch)'
BY DEF PagesOK, FetchShape, Within, Filled, Separate, Tiled, Apart, Begins, Ends, Near, Beyond,
       Pos, Forward, BlockRange

LEMMA FreshNext ==
  ASSUME NEW v, direction' = direction, fetch' = v, v.revision <= revision',
         v.revision = revision' =>
           /\ v.range[2] <= applied'
           /\ \A h \in scanned' : ~(Pos(v.at) <= Pos(h) /\ Pos(h) < Ends(v.range))
  PROVE  Fresh(fetch)'
BY DEF Fresh, Ends, Beyond, Pos, Forward

LEMMA CoverageNext ==
  ASSUME NEW m \in Seq(BlockRange), Canonical(m), coverage' = m, Covered(m) = scanned',
         scanned' \subseteq Nat, from' \in Nat, through' \in Nat, applied' \in Nat,
         revision' \in Nat, through' <= applied'
  PROVE  CoverageOK'
BY DEF CoverageOK, Canonical, Covered, HeightsOf, BlockRange

(* A commit adds the heights of its range. *)
LEMMA CoverageGrows ==
  ASSUME NEW ranges \in Seq(BlockRange), NEW r \in BlockRange,
         NEW m, m = MergeBlockRanges(Append(ranges, r))
  PROVE  m \in Seq(BlockRange) /\ Canonical(m) /\ Covered(m) = Covered(ranges) \cup HeightsOf(r)
<1> DEFINE a == Append(ranges, r)
<1>1. /\ a \in Seq(BlockRange) /\ Len(a) = Len(ranges) + 1 /\ Len(ranges) \in Nat
      /\ DOMAIN ranges = 1..Len(ranges) /\ DOMAIN a = 1..Len(ranges) + 1
      /\ \A i \in 1..Len(ranges) : a[i] = ranges[i]
      /\ a[Len(ranges) + 1] = r
  OBVIOUS
<1>2. m = MergeBlockRanges(a)
  OBVIOUS
<1> HIDE DEF a
<1>3. m \in Seq(BlockRange) /\ Canonical(m) /\ Covered(m) = Covered(a)
  BY <1>1, <1>2, MergeIsExact
<1>4. \A i \in 1..Len(ranges) + 1 : i \in 1..Len(ranges) \/ i = Len(ranges) + 1
  BY <1>1
<1>5. /\ \A i \in 1..Len(ranges) : i \in 1..Len(ranges) + 1
      /\ Len(ranges) + 1 \in 1..Len(ranges) + 1
  BY <1>1
<1>6. Covered(a) = Covered(ranges) \cup HeightsOf(r)
  <2>1. ASSUME NEW h \in Covered(a)
        PROVE  h \in Covered(ranges) \cup HeightsOf(r)
    <3>1. PICK i \in 1..Len(ranges) + 1 : h \in HeightsOf(a[i])
      BY <1>1 DEF Covered
    <3> QED
      BY <1>1, <1>4, <3>1 DEF Covered
  <2>2. ASSUME NEW h \in Covered(ranges)
        PROVE  h \in Covered(a)
    <3>1. PICK i \in 1..Len(ranges) : h \in HeightsOf(ranges[i])
      BY <1>1 DEF Covered
    <3> QED
      BY <1>1, <1>5, <3>1 DEF Covered
  <2>3. HeightsOf(r) \subseteq Covered(a)
    BY <1>1, <1>5 DEF Covered
  <2> QED
    BY <2>1, <2>2, <2>3
<1> QED
  BY <1>3, <1>6

(* What a step is to read is wanted and not scanned. *)
LEMMA NextRangeIs ==
  ASSUME CoverageOK, NextRange # <<>>
  PROVE  NextRange \in BlockRange /\ NextRange[2] <= applied
         /\ HeightsOf(NextRange) \cap scanned = {}
<1> DEFINE size == PageSize * Concurrency
<1>1. size \in Nat \ {0}
  <2>1. PageSize \in Nat /\ Concurrency \in Nat /\ PageSize # 0 /\ Concurrency # 0
    BY HistoryAssumption
  <2>2. \A m, n \in Nat : m # 0 /\ n # 0 => m * n \in Nat /\ m * n # 0
    OBVIOUS
  <2> QED
    BY ONLY <2>1, <2>2
<1> HIDE DEF size
<1>2. coverage \in Seq(BlockRange) /\ Canonical(coverage) /\ Covered(coverage) = scanned
      /\ from \in Nat /\ through \in Nat /\ applied \in Nat /\ through <= applied
  BY DEF CoverageOK
<1>3. /\ MissingRangeOf(coverage, from, through, size)
           = MissingRange(scanned, from, through, size)
      /\ MissingForwardRangeOf(coverage, from, through, size)
           = MissingForwardRange(scanned, from, through, size)
  BY <1>1, <1>2, MissingIsExact, MissingForwardIsExact
<1>4. NextRange = MissingRange(scanned, from, through, size)
        \/ NextRange = MissingForwardRange(scanned, from, through, size)
  BY <1>3 DEF NextRange, size
<1> DEFINE r == NextRange
<1>5. r # <<>>
  OBVIOUS
<1> HIDE DEF r
<1>6. r = MissingRange(scanned, from, through, size)
        \/ r = MissingForwardRange(scanned, from, through, size)
  BY <1>4 DEF r
<1>7. r \in BlockRange /\ r[2] <= through /\ HeightsOf(r) \cap scanned = {}
  BY <1>1, <1>2, <1>5, <1>6, MissingShape
<1>8. r[2] <= applied
  BY <1>2, <1>7 DEF BlockRange
<1> QED
  BY <1>7, <1>8 DEF r

LEMMA IInvInit ==
  Init => IInv
<1> SUFFICES ASSUME Init
             PROVE  IInv
  OBVIOUS
<1>1. coverage = <<>> /\ scanned = {} /\ from = From /\ through = Latest /\ applied = Latest
      /\ revision = 0 /\ fetch = NoFetch
  BY DEF Init
<1>2. From \in Nat /\ Latest \in Nat
  BY HistoryAssumption
<1>3. <<>> \in Seq(BlockRange) /\ DOMAIN <<>> = {}
  OBVIOUS
<1>4. Canonical(<<>>) /\ Covered(<<>>) = {}
  BY <1>3 DEF Canonical, Covered
<1>5. CoverageOK
  BY <1>1, <1>2, <1>3, <1>4 DEF CoverageOK
<1> QED
  BY <1>1, <1>5 DEF IInv, Idle

(* A step of the worker, a request or a failure leaves the coverage alone. *)
LEMMA FetchSteps ==
  ASSUME IInv, NEW v, fetch' = v,
         v = NoFetch \/ (~Idle /\ PagesOK(v) /\ v.revision = fetch.revision
                         /\ v.range = fetch.range /\ v.at = fetch.at),
         UNCHANGED <<direction, coverage, scanned, from, through, applied, revision>>
  PROVE  IInv'
<1>1. CoverageOK'
  BY DEF IInv, CoverageOK, Canonical, Covered, HeightsOf, BlockRange
<1>2. CASE v = NoFetch
  BY <1>1, <1>2 DEF IInv, Idle, NoFetch
<1>3. CASE v # NoFetch
  <2>1. ~Idle /\ PagesOK(v) /\ v.revision = fetch.revision
        /\ v.range = fetch.range /\ v.at = fetch.at
    BY <1>3
  <2>2. PagesOK(fetch)'
    BY <2>1, PagesNext
  <2>3. Fresh(fetch)
    BY <2>1 DEF IInv
  <2>4. Fresh(fetch)'
    <3>1. v.revision <= revision'
          /\ (v.revision = revision' =>
               /\ v.range[2] <= applied'
               /\ \A h \in scanned' : ~(Pos(v.at) <= Pos(h) /\ Pos(h) < Ends(v.range)))
      BY <2>1, <2>3 DEF Fresh
    <3> QED
      BY <3>1, FreshNext
  <2> QED
    BY <1>1, <2>2, <2>4 DEF IInv
<1> QED
  BY <1>2, <1>3

(* The live worker, retention and a revert leave the fetch alone. *)
LEMMA LiveSteps ==
  ASSUME IInv, CoverageOK', UNCHANGED <<direction, fetch>>, revision <= revision',
         ~Idle /\ fetch.revision = revision' /\ revision' = revision =>
           /\ applied <= applied'
           /\ \A h \in scanned' \ scanned :
                ~(Pos(fetch.at) <= Pos(h) /\ Pos(h) < Ends(fetch.range))
  PROVE  IInv'
<1>1. CASE Idle
  BY <1>1 DEF IInv, Idle, NoFetch
<1>2. CASE ~Idle
  <2>1. PagesOK(fetch) /\ Fresh(fetch) /\ CoverageOK
    BY <1>2 DEF IInv
  <2>2. PagesOK(fetch)'
    BY <2>1, PagesNext
  <2>3. fetch.revision \in Nat /\ fetch.range \in BlockRange
    BY <2>1 DEF PagesOK, FetchShape
  <2>4. revision \in Nat /\ applied \in Nat
    BY <2>1 DEF CoverageOK
  <2>5. revision' \in Nat /\ applied' \in Nat
    BY DEF CoverageOK
  <2>6. fetch.revision <= revision'
    BY <2>1, <2>3, <2>4, <2>5 DEF Fresh
  <2>7. ASSUME fetch.revision = revision'
        PROVE  /\ fetch.range[2] <= applied'
               /\ \A h \in scanned' : ~(Pos(fetch.at) <= Pos(h) /\ Pos(h) < Ends(fetch.range))
    <3>1. fetch.revision <= revision
      BY <2>1 DEF Fresh
    <3>2. revision' = revision /\ fetch.revision = revision
      BY <2>4, <2>5, <2>7, <3>1
    <3>3. /\ fetch.range[2] <= applied
          /\ \A h \in scanned : ~(Pos(fetch.at) <= Pos(h) /\ Pos(h) < Ends(fetch.range))
      BY <2>1, <3>2 DEF Fresh
    <3>4. fetch.range[2] \in Nat
      BY <2>3 DEF BlockRange
    <3>5. /\ applied <= applied'
          /\ \A h \in scanned' \ scanned :
               ~(Pos(fetch.at) <= Pos(h) /\ Pos(h) < Ends(fetch.range))
      BY <1>2, <2>7, <3>2
    <3>6. fetch.range[2] <= applied'
      BY <2>4, <2>5, <3>3, <3>4, <3>5
    <3> QED
      BY <3>3, <3>5, <3>6
  <2>8. Fresh(fetch)'
    BY <2>6, <2>7, FreshNext
  <2> QED
    BY <2>2, <2>8 DEF IInv
<1> QED
  BY <1>1, <1>2

LEMMA IInvStep ==
  IInv /\ [Next]_vars => IInv'
<1> SUFFICES ASSUME IInv, [Next]_vars
             PROVE  IInv'
  OBVIOUS
<1>0. /\ coverage \in Seq(BlockRange) /\ Canonical(coverage) /\ Covered(coverage) = scanned
      /\ scanned \subseteq Nat
      /\ from \in Nat /\ through \in Nat /\ applied \in Nat /\ revision \in Nat
      /\ through <= applied
  BY DEF IInv, CoverageOK
<1>p. ~Idle => PagesOK(fetch) /\ Fresh(fetch)
  BY DEF IInv
<1>1. CASE Step
  <2>1. Idle /\ UNCHANGED <<direction, coverage, scanned, from, through, applied, revision>>
        /\ fetch' = IF NextRange = <<>> THEN NoFetch ELSE Fetch(NextRange)
    BY <1>1 DEF Step
  <2>2. CASE NextRange = <<>>
    <3>1. fetch' = NoFetch
      BY <2>1, <2>2
    <3> QED
      BY <2>1, <3>1, FetchSteps
  <2>3. CASE NextRange # <<>>
    <3> DEFINE r == NextRange
               v == Fetch(r)
    <3>1. r \in BlockRange /\ r[2] <= applied /\ HeightsOf(r) \cap scanned = {}
      BY <2>3, NextRangeIs DEF IInv
    <3>2. fetch' = v
      BY <2>1, <2>3
    <3> HIDE DEF r
    <3>3. PagesOK(v) /\ v.revision = revision /\ v.range = r /\ v.at = Near(r) /\ v # NoFetch
      BY <1>0, <3>1, FetchOK
    <3> HIDE DEF v
    <3>4. PagesOK(fetch)'
      BY <2>1, <3>2, <3>3, PagesNext
    <3>5. ASSUME NEW h \in scanned
          PROVE  ~(Pos(v.at) <= Pos(h) /\ Pos(h) < Ends(v.range))
      <4>1. h \in Int /\ h \notin HeightsOf(r)
        BY <1>0, <3>1
      <4> QED
        BY <3>1, <3>3, <4>1, PageEnds DEF Begins
    <3>6. v.revision <= revision'
          /\ (v.revision = revision' =>
               /\ v.range[2] <= applied'
               /\ \A h \in scanned' : ~(Pos(v.at) <= Pos(h) /\ Pos(h) < Ends(v.range)))
      BY <1>0, <2>1, <3>1, <3>3, <3>5
    <3>7. Fresh(fetch)'
      BY <2>1, <3>2, <3>6, FreshNext
    <3>8. CoverageOK'
      BY <1>0, <2>1, CoverageNext
    <3> QED
      BY <3>4, <3>7, <3>8 DEF IInv
  <2> QED
    BY <2>2, <2>3
<1>2. CASE CommitChunk
  <2> DEFINE chunk == Head(fetch.chunks)
             g == [fetch EXCEPT !.chunks = Tail(@), !.at = Beyond(Head(fetch.chunks))]
  <2>1. ~Idle /\ fetch.chunks # <<>>
        /\ UNCHANGED <<direction, from, through, applied, revision>>
    BY <1>2 DEF CommitChunk
  <2>2. CASE fetch.revision # revision
    <3>1. fetch' = NoFetch /\ UNCHANGED <<coverage, scanned>>
      BY <1>2, <2>2 DEF CommitChunk, Fail
    <3> QED
      BY <2>1, <3>1, FetchSteps
  <2>3. CASE fetch.revision = revision
    <3>1. /\ coverage' = MergeBlockRanges(Append(coverage, chunk))
          /\ scanned' = scanned \cup HeightsOf(chunk)
          /\ fetch' = g
      BY <1>2, <2>3 DEF CommitChunk
    <3>2. /\ PagesOK(g) /\ g.revision = fetch.revision /\ g.range = fetch.range
          /\ chunk \in BlockRange
          /\ Begins(chunk) = Pos(fetch.at) /\ Ends(chunk) = Pos(g.at)
          /\ Pos(fetch.at) < Pos(g.at) /\ Pos(g.at) <= Ends(fetch.range)
      BY <1>p, <2>1, CommitOK
    <3>p. fetch.range \in BlockRange /\ fetch.at \in Int
      BY <1>p, <2>1 DEF PagesOK, FetchShape
    <3>q. g.at \in Int
      BY <3>2 DEF PagesOK, FetchShape
    <3>r. Fresh(fetch)
      BY <1>p, <2>1
    <3> HIDE DEF g, chunk
    <3>3. coverage' \in Seq(BlockRange) /\ Canonical(coverage')
          /\ Covered(coverage') = scanned'
      BY <1>0, <3>1, <3>2, CoverageGrows
    <3>4. HeightsOf(chunk) \subseteq Nat
      BY <3>2 DEF HeightsOf, BlockRange
    <3>5. CoverageOK'
      <4>1. scanned' \subseteq Nat
        BY <1>0, <3>1, <3>4
      <4> QED
        BY <1>0, <2>1, <3>3, <4>1, CoverageNext
    <3>6. PagesOK(fetch)'
      BY <2>1, <3>1, <3>2, PagesNext
    <3>7. ASSUME NEW h \in scanned'
          PROVE  ~(Pos(g.at) <= Pos(h) /\ Pos(h) < Ends(g.range))
      <4>1. h \in Int
        BY <3>5 DEF CoverageOK
      <4>2. Pos(h) \in Int /\ Pos(g.at) \in Int /\ Pos(fetch.at) \in Int /\ Ends(g.range) \in Int
        BY <3>2, <3>p, <3>q, <4>1, PosType, PageEnds
      <4>3. CASE h \in scanned
        <5>1. ~(Pos(fetch.at) <= Pos(h) /\ Pos(h) < Ends(fetch.range))
          BY <2>3, <3>r, <4>3 DEF Fresh
        <5> QED
          BY <3>2, <4>2, <5>1
      <4>4. CASE h \in HeightsOf(chunk)
        <5>1. Pos(h) < Ends(chunk)
          BY <3>2, <4>1, <4>4, PageEnds
        <5> QED
          BY <3>2, <4>2, <5>1
      <4> QED
        BY <3>1, <4>3, <4>4
    <3>8. g.revision <= revision'
          /\ (g.revision = revision' =>
               /\ g.range[2] <= applied'
               /\ \A h \in scanned' : ~(Pos(g.at) <= Pos(h) /\ Pos(h) < Ends(g.range)))
      BY <2>1, <2>3, <3>2, <3>7, <3>r DEF Fresh
    <3>9. Fresh(fetch)'
      BY <2>1, <3>1, <3>8, FreshNext
    <3> QED
      BY <3>5, <3>6, <3>9 DEF IInv
  <2> QED
    BY <2>2, <2>3
<1>3. CASE Finish
  BY <1>3, FetchSteps DEF Finish, FetchUnchanged
<1>4. ASSUME NEW i, Answered(i)
      PROVE  IInv'
  <2> DEFINE out == Out(fetch, i)
  <2>1. ~Idle /\ i \in DOMAIN fetch.tasks /\ fetch.tasks[i] # <<>>
        /\ fetch' = Receive(fetch, i, out)
        /\ UNCHANGED <<direction, coverage, scanned, from, through, applied, revision>>
    BY <1>4 DEF Answered, UnderWay, FetchUnchanged, Out, Page
  <2>2. out = Out(fetch, i)
    OBVIOUS
  <2>3. PagesOK(fetch)
    BY <1>p, <2>1
  <2> DEFINE g == Receive(fetch, i, out)
  <2>4. g = Receive(fetch, i, out) /\ fetch' = g
    BY <2>1
  <2> HIDE DEF out, g
  <2>5. i \in DOMAIN fetch.tasks /\ fetch.tasks[i] # <<>>
    BY <2>1
  <2>6. PagesOK(g) /\ g.revision = fetch.revision /\ g.range = fetch.range /\ g.at = fetch.at
    <3>1. g = Receive(fetch, i, out)
      BY <2>4
    <3> QED
      BY ONLY <2>2, <2>3, <2>5, <3>1, ReceiveOK
  <2> QED
    BY <2>1, <2>4, <2>6, FetchSteps
<1>5. ASSUME NEW i, TooMany(i)
      PROVE  IInv'
  <2> DEFINE g == [fetch EXCEPT !.tasks[i] = Halves(Head(fetch.tasks[i])) \o Tail(@), !.tries[i] = 0]
  <2>1. ~Idle /\ i \in DOMAIN fetch.tasks /\ fetch.tasks[i] # <<>>
        /\ Head(fetch.tasks[i])[1] < Head(fetch.tasks[i])[2]
        /\ fetch' = g
        /\ UNCHANGED <<direction, coverage, scanned, from, through, applied, revision>>
    BY <1>5 DEF TooMany, UnderWay, FetchUnchanged, Page
  <2>2. PagesOK(g) /\ g.revision = fetch.revision /\ g.range = fetch.range /\ g.at = fetch.at
    BY <1>p, <2>1, SplitOK
  <2> HIDE DEF g
  <2> QED
    BY <2>1, <2>2, FetchSteps
<1>6. ASSUME NEW i, RequestFails(i)
      PROVE  IInv'
  <2> DEFINE g == [fetch EXCEPT !.tries[i] = @ + 1]
  <2>1. ~Idle /\ (fetch' = g \/ fetch' = NoFetch)
        /\ UNCHANGED <<direction, coverage, scanned, from, through, applied, revision>>
    BY <1>6 DEF RequestFails, UnderWay, FetchUnchanged, Fail
  <2>2. PagesOK(g) /\ g.revision = fetch.revision /\ g.range = fetch.range /\ g.at = fetch.at
    BY <1>p, <2>1, RepeatOK
  <2> HIDE DEF g
  <2> QED
    BY <2>1, <2>2, FetchSteps
<1>7. CASE Rejected
  BY <1>7, FetchSteps DEF Rejected, Fail, FetchUnchanged
<1>8. CASE LiveCommit
  <2> DEFINE r == <<applied + 1, applied + 1>>
  <2>1. /\ applied' = applied + 1
        /\ coverage' = MergeBlockRanges(Append(coverage, r))
        /\ scanned' = scanned \cup {applied + 1}
        /\ through' = through \/ through' = Greater(through, applied)
        /\ UNCHANGED <<direction, from, revision, fetch>>
    BY <1>8 DEF LiveCommit
  <2>2. r \in BlockRange /\ HeightsOf(r) = {applied + 1}
    BY <1>0 DEF BlockRange, HeightsOf
  <2> HIDE DEF r
  <2>3. coverage' \in Seq(BlockRange) /\ Canonical(coverage') /\ Covered(coverage') = scanned'
    BY <1>0, <2>1, <2>2, CoverageGrows
  <2>4. through' \in Nat /\ through' <= applied' /\ applied' \in Nat /\ scanned' \subseteq Nat
    BY <1>0, <2>1 DEF Greater
  <2>5. CoverageOK'
    BY <1>0, <2>1, <2>3, <2>4, CoverageNext
  <2>6. ASSUME ~Idle, fetch.revision = revision', NEW h \in scanned' \ scanned
        PROVE  ~(Pos(fetch.at) <= Pos(h) /\ Pos(h) < Ends(fetch.range))
    <3>1. h = applied + 1 /\ h \in Int
      BY <1>0, <2>1, <2>6
    <3>2. fetch.range \in BlockRange /\ fetch.at \in Int /\ Begins(fetch.range) <= Pos(fetch.at)
      BY <1>p, <2>6 DEF PagesOK, FetchShape, Within
    <3>3. fetch.range[2] <= applied
      BY <1>p, <2>1, <2>6 DEF Fresh
    <3>4. h \notin HeightsOf(fetch.range)
      BY <1>0, <3>1, <3>2, <3>3 DEF BlockRange, HeightsOf
    <3>5. Begins(fetch.range) \in Int /\ Pos(fetch.at) \in Int /\ Pos(h) \in Int
          /\ (Begins(fetch.range) <= Pos(h) /\ Pos(h) < Ends(fetch.range)
                => h \in HeightsOf(fetch.range))
      BY <3>1, <3>2, PageEnds, PosType
    <3> QED
      BY <3>2, <3>4, <3>5
  <2>7. applied <= applied' /\ revision <= revision'
    BY <1>0, <2>1
  <2> QED
    BY <2>1, <2>5, <2>6, <2>7, LiveSteps
<1>9. ASSUME NEW a \in From..Top, NEW l \in From..Top, Revert(a, l)
      PROVE  IInv'
  <2>1. /\ a < applied /\ (l = a \/ l = applied)
        /\ coverage' = DropFrom(coverage, a + 1)
        /\ scanned' = {n \in scanned : n <= a}
        /\ through' = l /\ applied' = l /\ revision' = revision + 1
        /\ UNCHANGED <<direction, from, fetch>>
    BY <1>9 DEF Revert
  <2>2. a \in Nat /\ l \in Nat
    BY HistoryAssumption
  <2>3. a + 1 \in Nat
    BY <2>2
  <2>4. coverage' \in Seq(BlockRange) /\ Canonical(coverage')
        /\ Covered(coverage') = {h \in Covered(coverage) : h < a + 1}
    BY <1>0, <2>1, <2>3, DropIsExact
  <2>5. Covered(coverage') = scanned' /\ scanned' \subseteq Nat
    <3>1. \A h \in scanned : h < a + 1 <=> h <= a
      BY <1>0, <2>2
    <3>2. {h \in scanned : h < a + 1} = {n \in scanned : n <= a}
      BY <3>1
    <3> QED
      BY <1>0, <2>1, <2>4, <3>2
  <2>6. CoverageOK'
    BY <1>0, <2>1, <2>2, <2>4, <2>5, CoverageNext
  <2>7. revision <= revision' /\ revision' # revision
    BY <1>0, <2>1
  <2> QED
    BY <2>1, <2>6, <2>7, LiveSteps
<1>10. ASSUME NEW n \in From..Top, Retain(n)
       PROVE  IInv'
  <2>1. /\ from' = n
        /\ coverage' = KeepFrom(coverage, n)
        /\ scanned' = {m \in scanned : m >= n}
        /\ UNCHANGED <<direction, through, applied, revision, fetch>>
    BY <1>10 DEF Retain
  <2>2. n \in Nat
    BY HistoryAssumption
  <2>3. coverage' \in Seq(BlockRange) /\ Canonical(coverage')
        /\ Covered(coverage') = {h \in Covered(coverage) : h >= n}
    BY <1>0, <2>1, <2>2, KeepIsExact
  <2>4. CoverageOK'
    BY <1>0, <2>1, <2>2, <2>3, CoverageNext
  <2>5. revision <= revision' /\ applied <= applied' /\ scanned' \ scanned = {}
    BY <1>0, <2>1
  <2> QED
    BY <2>1, <2>4, <2>5, LiveSteps
<1>11. CASE UNCHANGED vars
  <2>1. UNCHANGED <<direction, coverage, scanned, from, through, applied, revision, fetch>>
    BY <1>11 DEF vars
  <2>2. CASE Idle
    BY <2>1, <2>2, FetchSteps DEF Idle
  <2>3. CASE ~Idle
    BY <1>p, <2>1, <2>3, FetchSteps
  <2> QED
    BY <2>2, <2>3
<1> QED
  BY <1>1, <1>2, <1>3, <1>4, <1>5, <1>6, <1>7, <1>8, <1>9, <1>10, <1>11
  DEF Next, Work, Request

(* The inductive invariant holds in every state. *)
THEOREM IInvHolds ==
  Spec => []IInv
<1>1. Init => IInv
  BY IInvInit
<1>2. IInv /\ [Next]_vars => IInv'
  BY IInvStep
<1> QED
  BY <1>1, <1>2, PTL DEF Spec

(* Whatever history and the live worker commit, and whatever is reverted   *)
(* and retained, the coverage is the heights in their one form, and either *)
(* search finds what they miss (model-store.ts, model.ts mergeCoverage).   *)
THEOREM CoverageExactHolds ==
  Spec => []CoverageExact
<1>1. IInv => CoverageExact
  <2> SUFFICES ASSUME IInv
               PROVE  CoverageExact
    OBVIOUS
  <2>1. coverage \in Seq(BlockRange) /\ Canonical(coverage) /\ Covered(coverage) = scanned
    BY DEF IInv, CoverageOK
  <2>2. ASSUME NEW low \in From..Top, NEW high \in From..Top,
               NEW size \in 1..(PageSize * Concurrency)
        PROVE  /\ MissingRangeOf(coverage, low, high, size) = MissingRange(scanned, low, high, size)
               /\ MissingForwardRangeOf(coverage, low, high, size) =
                    MissingForwardRange(scanned, low, high, size)
    <3>1. From \in Nat /\ Top \in Nat /\ PageSize \in Nat /\ Concurrency \in Nat
      BY HistoryAssumption
    <3>2. PageSize * Concurrency \in Int
      <4>1. \A m, n \in Nat : m * n \in Int
        OBVIOUS
      <4> QED
        BY ONLY <3>1, <4>1
    <3> DEFINE most == PageSize * Concurrency
    <3>3. size \in 1..most /\ most \in Int
      BY <3>2
    <3> HIDE DEF most
    <3>4. low \in Nat /\ high \in Nat /\ size \in Nat \ {0}
      BY <3>1, <3>3
    <3> QED
      BY <2>1, <3>4, MissingIsExact, MissingForwardIsExact
  <2> QED
    BY <2>1, <2>2 DEF CoverageExact
<1> QED
  BY <1>1, IInvHolds, PTL

(* Pages that are split, answered out of order or released together are    *)
(* committed as the range they were cut from, in order, without a gap, and *)
(* without a height that is scanned (rpc/history.ts, model.ts fetchRange). *)
THEOREM PagesTileHolds ==
  Spec => []PagesTile
<1>1. IInv => PagesTile
  <2> SUFFICES ASSUME IInv, ~Idle
               PROVE  /\ \A i \in DOMAIN fetch.chunks :
                           Near(fetch.chunks[i])
                             = IF i = 1 THEN fetch.at ELSE Beyond(fetch.chunks[i - 1])
                      /\ fetch.revision = revision =>
                           \A i \in DOMAIN fetch.chunks : HeightsOf(fetch.chunks[i]) \cap scanned = {}
                      /\ Finished => fetch.at = Beyond(fetch.range) /\ fetch.ready = {}
    BY DEF PagesTile
  <2> DEFINE s == fetch.chunks
             a == Pos(fetch.at)
             c == Pos(fetch.cursor)
             z == Ends(fetch.range)
  <2>1. /\ FetchShape(fetch) /\ Within(fetch) /\ Filled(fetch) /\ Tiled(s, a, c)
        /\ Fresh(fetch) /\ CoverageOK
    BY DEF IInv, PagesOK
  <2>2. /\ fetch.range \in BlockRange /\ fetch.at \in Int /\ fetch.cursor \in Int
        /\ fetch.ready \in SUBSET BlockRange
    BY <2>1 DEF FetchShape
  <2>3. a \in Int /\ c \in Int /\ z \in Int /\ Beyond(fetch.range) \in Int
        /\ z = Pos(Beyond(fetch.range))
    BY <2>2, PageEnds, PosType DEF Ends
  <2>4. /\ s \in Seq(BlockRange) /\ DOMAIN s = 1..Len(s) /\ Len(s) \in Nat
        /\ s = <<>> => a = c
        /\ s # <<>> => Begins(s[1]) = a
        /\ \A i \in 1..Len(s) - 1 : Ends(s[i]) = Begins(s[i + 1])
    BY <2>1 DEF Tiled
  <2>5. /\ a <= c
        /\ \A i \in 1..Len(s) : s[i] \in BlockRange /\ a <= Begins(s[i]) /\ Ends(s[i]) <= c
    <3>1. Tiled(s, a, c)
      BY <2>1
    <3> HIDE DEF s, a, c
    <3> QED
      BY ONLY <2>3, <3>1, TiledWithin
  <2>6. c <= z /\ \A p \in fetch.ready : c < Begins(p) /\ Ends(p) <= z
    BY <2>1 DEF Within
  <2>7. ASSUME NEW i \in DOMAIN s
        PROVE  Near(s[i]) = IF i = 1 THEN fetch.at ELSE Beyond(s[i - 1])
    <3>1. i \in 1..Len(s) /\ s[i] \in BlockRange /\ Near(s[i]) \in Int /\ s # <<>>
      BY <2>4, <2>5, PageEnds
    <3>2. CASE i = 1
      <4>1. Pos(Near(s[i])) = Pos(fetch.at)
        BY <2>4, <3>1, <3>2 DEF Begins
      <4> QED
        BY <2>2, <3>1, <3>2, <4>1, PosType
    <3>3. CASE i # 1
      <4>1. i - 1 \in 1..Len(s) - 1 /\ i - 1 \in 1..Len(s) /\ (i - 1) + 1 = i
        BY <2>4, <3>1, <3>3
      <4>2. Ends(s[i - 1]) = Begins(s[i]) /\ s[i - 1] \in BlockRange
        BY <2>4, <2>5, <4>1
      <4>3. Pos(Beyond(s[i - 1])) = Pos(Near(s[i])) /\ Beyond(s[i - 1]) \in Int
        BY <4>2, PageEnds DEF Begins, Ends
      <4> QED
        BY <3>1, <3>3, <4>3, PosType
    <3> QED
      BY <3>2, <3>3
  <2>8. ASSUME fetch.revision = revision, NEW i \in DOMAIN s, NEW h \in HeightsOf(s[i]), h \in scanned
        PROVE  FALSE
    <3>1. s[i] \in BlockRange /\ a <= Begins(s[i]) /\ Ends(s[i]) <= c
      BY <2>4, <2>5, <2>8
    <3>2. h \in Int
      BY <2>1, <2>8 DEF CoverageOK
    <3>3. /\ Begins(s[i]) <= Pos(h) /\ Pos(h) < Ends(s[i])
          /\ Begins(s[i]) \in Int /\ Ends(s[i]) \in Int /\ Pos(h) \in Int
      BY <2>8, <3>1, <3>2, PageEnds, PosType
    <3>4. ~(a <= Pos(h) /\ Pos(h) < z)
      BY <2>1, <2>8 DEF Fresh
    <3> QED
      BY <2>3, <2>6, <3>1, <3>3, <3>4
  <2>9. ASSUME Finished
        PROVE  fetch.at = Beyond(fetch.range) /\ fetch.ready = {}
    <3>1. s = <<>> /\ \A i \in DOMAIN fetch.tasks : fetch.tasks[i] = <<>>
      BY <2>9 DEF Finished, WindowDone
    <3>2. a = c
      BY <2>4, <3>1
    <3>3. ~(\E i \in DOMAIN fetch.tasks : \E j \in 1..Len(fetch.tasks[i]) :
              Begins(fetch.tasks[i][j]) <= c /\ c < Ends(fetch.tasks[i][j]))
      BY <3>1
    <3>4. \A p \in fetch.ready : Begins(p) \in Int /\ Ends(p) \in Int /\ Begins(p) < Ends(p)
      BY <2>2, PageEnds
    <3>5. ~(c < z)
      <4>1. c < z => \E p \in fetch.ready : Begins(p) <= c /\ c < Ends(p)
        BY <2>1, <2>3, <3>3 DEF Filled
      <4> QED
        BY <2>3, <2>6, <3>4, <4>1
    <3>6. c = z
      BY <2>3, <2>6, <3>5
    <3>7. fetch.ready = {}
      BY <2>3, <2>6, <3>4, <3>6
    <3>8. fetch.at = Beyond(fetch.range)
      BY <2>2, <2>3, <3>2, <3>6, PosType
    <3> QED
      BY <3>7, <3>8
  <2> QED
    BY <2>7, <2>8, <2>9
<1> QED
  BY <1>1, IInvHolds, PTL
=============================================================================
