------------------------------ MODULE SharedLemmas ------------------------------
(***************************************************************************)
(* Lemmas that the proofs of several components rest on: least elements,   *)
(* which give induction over the natural numbers; functions defined by     *)
(* recursion over an interval; sets in order; and the chains of a block    *)
(* tree, finite or not: a chain is its newest block and the chain of its   *)
(* parent, it is finite, and has at most one block at a height.            *)
(***************************************************************************)
EXTENDS BlockTree, Ordering, Integers, FiniteSets, Sequences, FiniteSetTheorems,
        WellFoundedInduction, TLAPS

(* A set of naturals has a smallest element. *)
LEMMA Smallest ==
  ASSUME NEW T, T \subseteq Nat, T # {}
  PROVE  \E n \in T : \A m \in T : n <= m
<1> DEFINE R == OpToRel(<, Nat)
<1>1. PICK n \in T : \A m \in T : ~ (<<m, n>> \in R)
  <2>1. IsWellFoundedOn(R, Nat)
    BY NatLessThanWellFounded
  <2> HIDE DEF R
  <2> QED
    BY <2>1, WFMin
<1>2. \A m \in T : ~ (m < n)
  BY <1>1 DEF OpToRel
<1> QED
  BY <1>2

(* A set of naturals that 0 is in, and with a number the next, has all of  *)
(* them: induction, without an operator for what is proved.                *)
LEMMA AllNaturals ==
  ASSUME NEW T \in SUBSET Nat, 0 \in T, \A n \in T : n + 1 \in T
  PROVE  T = Nat
<1> SUFFICES ASSUME T # Nat
             PROVE  FALSE
  OBVIOUS
<1>1. PICK n \in Nat \ T : \A m \in Nat \ T : n <= m
  <2>1. Nat \ T \subseteq Nat /\ Nat \ T # {}
    OBVIOUS
  <2> QED
    BY <2>1, Smallest
<1>2. n - 1 \in Nat /\ n - 1 \in T
  BY <1>1
<1>3. (n - 1) + 1 \in T
  BY <1>2
<1> QED
  BY <1>1, <1>3

(* The same up to a number. *)
LEMMA ByCounting ==
  ASSUME NEW N \in Nat, NEW T, 0 \in T, \A n \in 0..N - 1 : n \in T => n + 1 \in T
  PROVE  \A n \in 0..N : n \in T
<1> DEFINE U == {n \in Nat : n <= N => n \in T}
<1>1. U \in SUBSET Nat /\ 0 \in U
  OBVIOUS
<1>2. \A n \in U : n + 1 \in U
  <2> SUFFICES ASSUME NEW n \in Nat, n <= N => n \in T, n + 1 <= N
               PROVE  n + 1 \in T
    OBVIOUS
  <2> QED
    OBVIOUS
<1>3. U = Nat
  <2> HIDE DEF U
  <2> QED
    BY <1>1, <1>2, AllNaturals
<1> QED
  BY <1>3

(* The equation of a function that is defined by recursion over an         *)
(* interval, from a first value and a step G, has a solution.              *)
Steps(G, N, S) == G \in [1..N -> [S -> S]]
Solution(g, N, S, base, G) ==
  g \in [0..N -> S] /\ g[0] = base /\ \A n \in 1..N : g[n] = G[n][g[n - 1]]

LEMMA Recursion ==
  ASSUME NEW N \in Nat, NEW S, NEW base \in S, NEW G, Steps(G, N, S)
  PROVE  \E g : Solution(g, N, S, base, G)
<1> USE DEF Steps
<1> DEFINE Solves(g, m) == \A n \in 0..m : g[n] = IF n = 0 THEN base ELSE G[n][g[n - 1]]
           T == {m \in Nat : m <= N => \E g \in [0..m -> S] : Solves(g, m)}
<1>1. 0 \in T
  <2> DEFINE g == [n \in 0..0 |-> base]
  <2>1. g \in [0..0 -> S] /\ Solves(g, 0)
    OBVIOUS
  <2> QED
    BY <2>1
<1>2. ASSUME NEW m \in 0..N - 1, m \in T
      PROVE  m + 1 \in T
  <2>1. PICK g \in [0..m -> S] : Solves(g, m)
    BY <1>2
  <2> DEFINE h == [n \in 0..m + 1 |-> IF n = m + 1 THEN G[m + 1][g[m]] ELSE g[n]]
  <2>2. g[m] \in S /\ G[m + 1] \in [S -> S]
    BY <2>1
  <2>3. G[m + 1][g[m]] \in S
    BY <2>2
  <2>4. h \in [0..m + 1 -> S]
    BY <2>3
  <2>5. Solves(h, m + 1)
    <3> SUFFICES ASSUME NEW n \in 0..m + 1
                 PROVE  h[n] = IF n = 0 THEN base ELSE G[n][h[n - 1]]
      OBVIOUS
    <3>1. CASE n = m + 1
      <4>1. h[n] = G[m + 1][g[m]] /\ h[n - 1] = g[m] /\ n # 0
        BY <3>1
      <4> QED
        BY <3>1, <4>1
    <3>2. CASE n # m + 1
      <4>1. n \in 0..m /\ h[n] = g[n] /\ (n # 0 => h[n - 1] = g[n - 1])
        BY <3>2
      <4> HIDE DEF h
      <4> QED
        BY <2>1, <4>1
    <3> QED
      BY <3>1, <3>2
  <2> HIDE DEF h, Solves
  <2> QED
    BY <2>4, <2>5
<1>3. N \in T
  <2> HIDE DEF T
  <2>1. \A n \in 0..N - 1 : n \in T => n + 1 \in T
    BY <1>2
  <2>2. \A n \in 0..N : n \in T
    BY ONLY <1>1, <2>1, ByCounting
  <2> QED
    BY <2>2
<1>4. PICK g \in [0..N -> S] : Solves(g, N)
  BY <1>3
<1>5. g[0] = base
  <2>1. 0 \in 0..N
    OBVIOUS
  <2> QED
    BY <1>4, <2>1
<1>6. ASSUME NEW n \in 1..N
      PROVE  g[n] = G[n][g[n - 1]]
  <2>1. n \in 0..N /\ n # 0
    OBVIOUS
  <2> QED
    BY <1>4, <2>1
<1> QED
  BY <1>5, <1>6 DEF Solution
-----------------------------------------------------------------------------
(* A set in order: each of its elements has one place. *)

LEMMA RankStrict ==
  ASSUME NEW S, IsFiniteSet(S), NEW key, \A c \in S : key[c] \in Nat,
         NEW a \in S, NEW b \in S, key[a] < key[b]
  PROVE  /\ Rank(S, key, a) \in Nat /\ Rank(S, key, b) \in Nat
         /\ Rank(S, key, a) < Rank(S, key, b)
<1> DEFINE A == {d \in S : key[d] < key[a]}
           B == {d \in S : key[d] < key[b]}
<1>1. A \subseteq B /\ A # B
  <2>1. a \in B /\ a \notin A
    OBVIOUS
  <2>2. \A d \in A : d \in B
    OBVIOUS
  <2> QED
    BY <2>1, <2>2
<1>2. IsFiniteSet(B) /\ Cardinality(B) \in Nat /\ Cardinality(A) \in Nat
  <2>1. A \in SUBSET S /\ B \in SUBSET S
    OBVIOUS
  <2> QED
    BY <2>1, FS_Subset, FS_CardinalityType
<1>3. Cardinality(A) <= Cardinality(B) /\ Cardinality(A) # Cardinality(B)
  <2>1. A \in SUBSET B
    BY <1>1
  <2> HIDE DEF A, B
  <2> QED
    BY <1>1, <1>2, <2>1, FS_Subset
<1> QED
  BY <1>2, <1>3 DEF Rank

LEMMA RankBelow ==
  ASSUME NEW S, IsFiniteSet(S), NEW key, \A c \in S : key[c] \in Nat, NEW a \in S
  PROVE  Rank(S, key, a) \in 0..Cardinality(S) - 1
<1> DEFINE A == {d \in S : key[d] < key[a]}
<1>1. A \in SUBSET S /\ a \notin A
  OBVIOUS
<1>2. Cardinality(A) \in Nat /\ Cardinality(S) \in Nat
  BY <1>1, FS_Subset, FS_CardinalityType
<1>3. Cardinality(A) <= Cardinality(S) /\ Cardinality(A) # Cardinality(S)
  BY <1>1, FS_Subset
<1> QED
  BY <1>2, <1>3 DEF Rank

(* Every place is taken. *)
LEMMA RankTaken ==
  ASSUME NEW S, IsFiniteSet(S), NEW key, \A c \in S : key[c] \in Nat,
         \A a, b \in S : key[a] = key[b] => a = b,
         NEW i \in 1..Cardinality(S)
  PROVE  \E c \in S : Rank(S, key, c) = i - 1
<1> DEFINE T == 0..Cardinality(S) - 1
           f == [c \in S |-> Rank(S, key, c)]
<1>1. Cardinality(S) \in Nat
  BY FS_CardinalityType
<1>2. IsFiniteSet(T) /\ Cardinality(T) = Cardinality(S)
  <2>1. 0 \in Int /\ Cardinality(S) - 1 \in Int
    BY <1>1
  <2>2. /\ IsFiniteSet(T)
        /\ Cardinality(T) = IF 0 > Cardinality(S) - 1 THEN 0 ELSE Cardinality(S) - 1 - 0 + 1
    BY ONLY <2>1, FS_Interval
  <2> QED
    BY <1>1, <2>2
<1>3. f \in [S -> T]
  BY RankBelow
<1>4. \A a, b \in S : a # b => f[a] # f[b]
  <2> SUFFICES ASSUME NEW a \in S, NEW b \in S, a # b
               PROVE  f[a] # f[b]
    OBVIOUS
  <2>1. key[a] < key[b] \/ key[b] < key[a]
    OBVIOUS
  <2> QED
    BY <2>1, RankStrict
<1>5. f \in Injection(S, T)
  BY <1>3, <1>4 DEF Injection, IsInjective
<1>6. f \in Surjection(S, T)
  <2> HIDE DEF f, T
  <2> QED
    BY <1>2, <1>5, FS_Injection
<1>7. i - 1 \in T
  BY <1>1
<1>8. PICK c \in S : f[c] = i - 1
  <2> HIDE DEF f, T
  <2> QED
    BY <1>6, <1>7 DEF Surjection
<1> QED
  BY <1>8

(* Who is at a place, is there by rank. *)
LEMMA SortedElement ==
  ASSUME NEW S, IsFiniteSet(S), NEW key, \A c \in S : key[c] \in Nat,
         \A a, b \in S : key[a] = key[b] => a = b,
         NEW i \in 1..Cardinality(S)
  PROVE  /\ SortedBy(S, key)[i] \in S
         /\ Rank(S, key, SortedBy(S, key)[i]) = i - 1
         /\ \A c \in S : Rank(S, key, c) = i - 1 => SortedBy(S, key)[i] = c
<1>1. SortedBy(S, key)[i] \in S /\ Rank(S, key, SortedBy(S, key)[i]) = i - 1
  BY RankTaken DEF SortedBy
<1>2. ASSUME NEW c \in S, Rank(S, key, c) = i - 1
      PROVE  SortedBy(S, key)[i] = c
  <2> DEFINE d == SortedBy(S, key)[i]
  <2>1. d \in S /\ Rank(S, key, d) = Rank(S, key, c)
    BY <1>1, <1>2
  <2> HIDE DEF d
  <2>2. ~ key[d] < key[c] /\ ~ key[c] < key[d]
    BY <2>1, RankStrict
  <2>3. d = c
    BY <2>1, <2>2
  <2> QED
    BY <2>3 DEF d
<1> QED
  BY <1>1, <1>2

(* A set in order is a sequence of its elements, each of them once, with   *)
(* the smaller key before the greater.                                     *)
LEMMA Sorted ==
  ASSUME NEW S, IsFiniteSet(S), NEW key, \A c \in S : key[c] \in Nat,
         \A a, b \in S : key[a] = key[b] => a = b
  PROVE  /\ SortedBy(S, key) \in Seq(S)
         /\ Len(SortedBy(S, key)) = Cardinality(S)
         /\ \A c \in S : \E i \in 1..Cardinality(S) : SortedBy(S, key)[i] = c
         /\ \A i, j \in 1..Cardinality(S) :
              i < j => key[SortedBy(S, key)[i]] < key[SortedBy(S, key)[j]]
         /\ \A i, j \in 1..Cardinality(S) :
              SortedBy(S, key)[i] = SortedBy(S, key)[j] => i = j
<1> DEFINE s == SortedBy(S, key)
<1>1. Cardinality(S) \in Nat
  BY FS_CardinalityType
<1>2. \A i \in 1..Cardinality(S) : s[i] \in S /\ Rank(S, key, s[i]) = i - 1
  BY RankTaken DEF SortedBy
<1>3. s \in [1..Cardinality(S) -> S]
  BY <1>2 DEF SortedBy
<1>4. s \in Seq(S) /\ Len(s) = Cardinality(S)
  BY <1>1, <1>3
<1>5. \A i, j \in 1..Cardinality(S) : s[i] = s[j] => i = j
  <2> HIDE DEF s
  <2> QED
    BY <1>1, <1>2
<1>6. \A i, j \in 1..Cardinality(S) : i < j => key[s[i]] < key[s[j]]
  <2> SUFFICES ASSUME NEW i \in 1..Cardinality(S), NEW j \in 1..Cardinality(S), i < j
               PROVE  key[s[i]] < key[s[j]]
    OBVIOUS
  <2> HIDE DEF s
  <2>1. s[i] \in S /\ s[j] \in S /\ s[i] # s[j]
    BY <1>2, <1>5, <1>1
  <2>2. ~ key[s[j]] < key[s[i]]
    BY <2>1, <1>2, <1>1, RankStrict
  <2> QED
    BY <2>1, <2>2
<1>7. ASSUME NEW c \in S
      PROVE  \E i \in 1..Cardinality(S) : s[i] = c
  <2> DEFINE i == Rank(S, key, c) + 1
  <2>1. i \in 1..Cardinality(S)
    BY <1>1, RankBelow
  <2>2. s[i] \in S /\ Rank(S, key, s[i]) = Rank(S, key, c)
    BY <1>1, <1>2, <2>1, RankBelow
  <2>3. s[i] = c
    <3> HIDE DEF i, s
    <3>1. ~ key[s[i]] < key[c] /\ ~ key[c] < key[s[i]]
      BY <2>2, RankStrict
    <3> QED
      BY <2>2, <3>1
  <2> QED
    BY <2>1, <2>3
<1> QED
  <2> HIDE DEF s
  <2>1. /\ s \in Seq(S) /\ Len(s) = Cardinality(S)
        /\ \A c \in S : \E i \in 1..Cardinality(S) : s[i] = c
    BY <1>4, <1>7
  <2> QED
    BY <1>5, <1>6, <2>1 DEF s

(* What comes before all the rest of a set comes before it in order. *)
LEMMA SortedJoin ==
  ASSUME NEW S, IsFiniteSet(S), NEW T, IsFiniteSet(T), NEW key,
         NEW U, U = S \cup T, \A c \in U : key[c] \in Nat,
         \A a, b \in U : key[a] = key[b] => a = b,
         \A a \in S, b \in T : key[a] < key[b]
  PROVE  SortedBy(U, key) = SortedBy(S, key) \o SortedBy(T, key)
<1> DEFINE W == S \cup T
           s == SortedBy(S, key)
           t == SortedBy(T, key)
           u == SortedBy(W, key)
           m == Cardinality(S)
           n == Cardinality(T)
<1>1. IsFiniteSet(W) /\ m \in Nat /\ n \in Nat /\ Cardinality(W) = m + n
  <2>1. S \cap T = {}
    OBVIOUS
  <2>2. Cardinality(S \cap T) = 0
    BY <2>1, FS_EmptySet
  <2> QED
    BY <2>2, FS_Union, FS_CardinalityType
<1>2. /\ s \in Seq(W) /\ Len(s) = m /\ t \in Seq(W) /\ Len(t) = n
      /\ u \in Seq(W) /\ Len(u) = m + n
  <2>1. s \in Seq(S) /\ Len(s) = m
    BY Sorted
  <2>2. t \in Seq(T) /\ Len(t) = n
    BY Sorted
  <2>3. u \in Seq(W) /\ Len(u) = m + n
    <3> HIDE DEF W
    <3> QED
      BY <1>1, Sorted DEF W
  <2>4. S \subseteq W /\ T \subseteq W
    OBVIOUS
  <2> HIDE DEF W, s, t, u, m, n
  <2>5. s \in Seq(W) /\ t \in Seq(W)
    BY <2>1, <2>2, <2>4
  <2> QED
    BY <2>1, <2>2, <2>3, <2>5
<1>3. ASSUME NEW i \in 1..m
      PROVE  u[i] = s[i]
  <2> DEFINE c == s[i]
  <2>1. c \in S /\ Rank(S, key, c) = i - 1
    BY SortedElement
  <2> HIDE DEF c
  <2>2. {d \in W : key[d] < key[c]} = {d \in S : key[d] < key[c]}
    BY <2>1
  <2>3. c \in W /\ Rank(W, key, c) = i - 1 /\ i \in 1..Cardinality(W)
    BY <1>1, <2>1, <2>2 DEF Rank
  <2>4. u[i] = c
    <3> HIDE DEF W
    <3> QED
      BY <1>1, <2>3, SortedElement DEF W
  <2> QED
    BY <2>4 DEF c
<1>4. ASSUME NEW i \in 1..n
      PROVE  u[m + i] = t[i]
  <2> DEFINE c == t[i]
             B == {d \in T : key[d] < key[c]}
  <2>1. c \in T /\ Rank(T, key, c) = i - 1
    BY SortedElement
  <2> HIDE DEF c
  <2>2. {d \in W : key[d] < key[c]} = S \cup B
    BY <2>1
  <2>3. Cardinality(S \cup B) = m + (i - 1)
    <3>1. B \in SUBSET T /\ S \cap B = {}
      OBVIOUS
    <3>2. IsFiniteSet(B) /\ Cardinality(B) = i - 1
      BY <2>1, <3>1, FS_Subset DEF Rank
    <3>3. Cardinality(S \cap B) = 0
      BY <3>1, FS_EmptySet
    <3> HIDE DEF B
    <3>4. Cardinality(S \cup B) = Cardinality(S) + Cardinality(B) - Cardinality(S \cap B)
      BY <3>2, FS_Union
    <3> QED
      BY <1>1, <3>2, <3>3, <3>4
  <2>4. c \in W /\ Rank(W, key, c) = (m + i) - 1 /\ m + i \in 1..Cardinality(W)
    <3>1. c \in W
      BY <2>1
    <3>2. Rank(W, key, c) = m + (i - 1)
      BY <2>2, <2>3 DEF Rank
    <3> HIDE DEF W, m, n
    <3> QED
      BY <1>1, <3>1, <3>2
  <2>5. u[m + i] = c
    <3> DEFINE k == m + i
    <3>1. k \in 1..Cardinality(W) /\ Rank(W, key, c) = k - 1
      BY <2>4
    <3> HIDE DEF W, k
    <3>2. u[k] = c
      BY <1>1, <2>4, <3>1, SortedElement DEF W
    <3> QED
      BY <3>2 DEF k
  <2> QED
    BY <2>5 DEF c
<1> HIDE DEF W, s, t, u, m, n
<1>5. u = s \o t
  <2>1. \A i \in 1..m + n : u[i] = (s \o t)[i]
    <3> SUFFICES ASSUME NEW i \in 1..m + n
                 PROVE  u[i] = (s \o t)[i]
      OBVIOUS
    <3>1. CASE i <= m
      BY <1>1, <1>2, <1>3, <3>1
    <3>2. CASE i > m
      <4>1. i - m \in 1..n /\ m + (i - m) = i
        BY <1>1, <3>2
      <4>2. u[m + (i - m)] = t[i - m]
        BY <1>4, <4>1
      <4>3. (s \o t)[i] = t[i - m]
        BY <1>1, <1>2, <3>2
      <4> QED
        BY <4>1, <4>2, <4>3
    <3>3. i \in Nat /\ m \in Nat
      BY <1>1
    <3>4. i <= m \/ i > m
      BY <3>3
    <3> QED
      BY <3>1, <3>2, <3>4
  <2>2. s \o t \in Seq(W) /\ Len(s \o t) = m + n
    BY <1>1, <1>2
  <2>3. DOMAIN u = 1..m + n /\ DOMAIN (s \o t) = 1..m + n
    BY <1>2, <2>2
  <2>4. u = [i \in 1..m + n |-> u[i]]
    BY <1>2, <2>3
  <2>5. s \o t = [i \in 1..m + n |-> (s \o t)[i]]
    <3> DEFINE v == s \o t
    <3>1. v \in Seq(W) /\ DOMAIN v = 1..m + n
      BY <2>2, <2>3
    <3> HIDE DEF v
    <3>2. v = [i \in 1..m + n |-> v[i]]
      BY <3>1
    <3> QED
      BY <3>2 DEF v
  <2>6. [i \in 1..m + n |-> u[i]] = [i \in 1..m + n |-> (s \o t)[i]]
    BY ONLY <2>1
  <2> QED
    BY ONLY <2>4, <2>5, <2>6
<1>6. U = W
  BY DEF W
<1> QED
  BY <1>5, <1>6 DEF s, t, u

(* A finite set of naturals has a greatest element. *)
LEMMA Greatest ==
  ASSUME NEW T, T \subseteq Nat, T # {}, IsFiniteSet(T)
  PROVE  \E n \in T : \A m \in T : m <= n
<1> DEFINE key == [n \in T |-> n]
<1>1. Cardinality(T) \in Nat /\ Cardinality(T) # 0
  BY FS_CardinalityType, FS_EmptySet
<1>2. (\A c \in T : key[c] \in Nat) /\ (\A a, b \in T : key[a] = key[b] => a = b)
  OBVIOUS
<1>3. Cardinality(T) \in 1..Cardinality(T)
  BY <1>1
<1>4. PICK n \in T : Rank(T, key, n) = Cardinality(T) - 1
  <2> HIDE DEF key
  <2> QED
    BY <1>2, <1>3, RankTaken
<1>5. ASSUME NEW m \in T, ~ m <= n
      PROVE  FALSE
  <2>1. key[n] < key[m]
    BY <1>5
  <2>2. Rank(T, key, n) < Rank(T, key, m) /\ Rank(T, key, m) \in 0..Cardinality(T) - 1
    <3> HIDE DEF key
    <3> QED
      BY <1>2, <2>1, RankStrict, RankBelow
  <2> QED
    BY <1>1, <1>4, <2>2
<1> QED
  BY <1>5
-----------------------------------------------------------------------------
(* The chains of a block tree. *)

(* The equation that defines Path has a solution, the blocks in every set  *)
(* that holds b and the parents of its members.                            *)
Ancestors(b) ==
  {x \in Block : \A S \in SUBSET Block :
     b \in S /\ (\A y \in S : Parent[y] # NoBlock => Parent[y] \in S) => x \in S}

LEMMA AncestorsStep ==
  ASSUME NEW b \in Block
  PROVE  Ancestors(b) = {b} \cup (IF Parent[b] = NoBlock THEN {} ELSE Ancestors(Parent[b]))
<1> USE TreeAssumption
<1> DEFINE Up == {b} \cup (IF Parent[b] = NoBlock THEN {} ELSE Ancestors(Parent[b]))
           Closed(S) == \A y \in S : Parent[y] # NoBlock => Parent[y] \in S
<1>1. \A c \in Block : c \in Ancestors(c) /\ Closed(Ancestors(c))
  BY DEF Ancestors
<1>2. Up \in SUBSET Block /\ b \in Up
  BY DEF Ancestors
<1>3. Closed(Up)
  <2> SUFFICES ASSUME NEW y \in Up, Parent[y] # NoBlock PROVE Parent[y] \in Up
    OBVIOUS
  <2>1. CASE y = b
    BY <1>1, <2>1
  <2>2. CASE y # b
    <3>1. Parent[b] # NoBlock /\ Parent[b] \in Block /\ y \in Ancestors(Parent[b])
      BY <2>2
    <3> QED BY <1>1, <3>1
  <2> QED BY <2>1, <2>2
<1>4. Ancestors(b) \subseteq Up
  <2> SUFFICES ASSUME NEW x \in Ancestors(b) PROVE x \in Up
    OBVIOUS
  <2>1. \A S \in SUBSET Block : b \in S /\ Closed(S) => x \in S
    BY DEF Ancestors
  <2> HIDE DEF Up, Closed
  <2> QED BY <1>2, <1>3, <2>1
<1>5. Up \subseteq Ancestors(b)
  <2> SUFFICES ASSUME NEW x \in Up, NEW S \in SUBSET Block, b \in S, Closed(S)
               PROVE  x \in S
    BY <1>2 DEF Ancestors
  <2>1. CASE x = b
    BY <2>1
  <2>2. CASE x # b
    <3>1. Parent[b] # NoBlock /\ x \in Ancestors(Parent[b]) /\ Parent[b] \in S
      BY <2>2
    <3> QED BY <3>1 DEF Ancestors
  <2> QED BY <2>1, <2>2
<1> QED BY <1>4, <1>5

(* A chain is its newest block and the chain of its parent. *)
LEMMA PathStep ==
  ASSUME NEW b \in Block
  PROVE  Path[b] = {b} \cup (IF Parent[b] = NoBlock THEN {} ELSE Path[Parent[b]])
<1> DEFINE Solves(f) == f = [c \in Block |->
                               {c} \cup (IF Parent[c] = NoBlock THEN {} ELSE f[Parent[c]])]
           witness == [c \in Block |-> Ancestors(c)]
<1>1. Solves(witness)
  <2>1. ASSUME NEW c \in Block
        PROVE  Ancestors(c) = {c} \cup (IF Parent[c] = NoBlock THEN {} ELSE witness[Parent[c]])
    BY AncestorsStep, TreeAssumption
  <2> QED BY <2>1
<1>2. Path = CHOOSE f : Solves(f)
  BY DEF Path
<1> HIDE DEF Solves, witness
<1>3. Solves(Path)
  BY <1>1, <1>2
<1> QED BY <1>3 DEF Solves

(* The blocks of a chain are told apart by their heights, at most its end's. *)
LEMMA PathHeights ==
  ASSUME NEW b \in Block
  PROVE  /\ Path[b] \subseteq Block /\ b \in Path[b]
         /\ \A c \in Path[b] : Number[c] <= Number[b]
         /\ \A c, d \in Path[b] : Number[c] = Number[d] => c = d
<1> USE TreeAssumption
<1> DEFINE Good(x) == /\ Path[x] \subseteq Block /\ x \in Path[x]
                      /\ \A c \in Path[x] : Number[c] <= Number[x]
                      /\ \A c, d \in Path[x] : Number[c] = Number[d] => c = d
           T == {n \in Nat : \A x \in Block : Number[x] = n => Good(x)}
<1>1. T \in SUBSET Nat
  OBVIOUS
<1>2. ASSUME NEW x \in Block, Parent[x] = NoBlock
      PROVE  Good(x)
  <2>1. Path[x] = {x}
    BY <1>2, PathStep
  <2> QED
    BY <2>1
<1>3. 0 \in T
  <2> SUFFICES ASSUME NEW x \in Block, Number[x] = 0
               PROVE  Good(x)
    OBVIOUS
  <2>1. Parent[x] = NoBlock
    OBVIOUS
  <2> HIDE DEF Good
  <2> QED
    BY <1>2, <2>1
<1>4. ASSUME NEW n \in T
      PROVE  n + 1 \in T
  <2> SUFFICES ASSUME NEW x \in Block, Number[x] = n + 1
               PROVE  Good(x)
    OBVIOUS
  <2>1. CASE Parent[x] = NoBlock
    <3> HIDE DEF Good
    <3> QED
      BY <1>2, <2>1
  <2>2. CASE Parent[x] # NoBlock
    <3> DEFINE y == Parent[x]
    <3>1. y \in Block /\ Number[y] = n /\ Number[x] = n + 1 /\ n \in Nat
      BY <2>2
    <3>2. Good(y)
      <4> HIDE DEF Good
      <4> QED
        BY <1>4, <3>1
    <3>3. Path[x] = {x} \cup Path[y]
      BY <2>2, PathStep
    <3> HIDE DEF y
    <3>4. \A c \in Path[y] : c \in Block /\ Number[c] <= n
      BY <3>1, <3>2
    <3>5. Path[x] \subseteq Block /\ x \in Path[x]
      BY <3>3, <3>4
    <3>6. \A c \in Path[x] : Number[c] <= Number[x]
      BY <3>1, <3>3, <3>4
    <3>7. \A c, d \in Path[x] : Number[c] = Number[d] => c = d
      <4> SUFFICES ASSUME NEW c \in Path[x], NEW d \in Path[x], Number[c] = Number[d]
                   PROVE  c = d
        OBVIOUS
      <4>1. \A e \in Path[y] : Number[e] # n + 1
        BY <3>1, <3>4
      <4>2. CASE c \in Path[y] /\ d \in Path[y]
        BY <3>2, <4>2
      <4>3. CASE c \notin Path[y] \/ d \notin Path[y]
        BY <3>1, <3>3, <4>1, <4>3
      <4> QED
        BY <4>2, <4>3
    <3> QED
      BY <3>5, <3>6, <3>7
  <2> QED
    BY <2>1, <2>2
<1>5. T = Nat
  <2> HIDE DEF T
  <2> QED
    BY <1>1, <1>3, <1>4, AllNaturals
<1>6. Number[b] \in T
  BY <1>5
<1> QED
  BY <1>6

(* The chain of a block of a chain is part of it. *)
LEMMA PathInPath ==
  ASSUME NEW b \in Block, NEW c \in Path[b]
  PROVE  c \in Block /\ Path[c] \subseteq Path[b]
<1> USE TreeAssumption
<1> DEFINE Good(x) == \A d \in Path[x] : Path[d] \subseteq Path[x]
           T == {n \in Nat : \A x \in Block : Number[x] = n => Good(x)}
<1>1. T \in SUBSET Nat
  OBVIOUS
<1>2. ASSUME NEW x \in Block, Parent[x] = NoBlock
      PROVE  Good(x)
  <2>1. Path[x] = {x}
    BY <1>2, PathStep
  <2> QED
    BY <2>1
<1>3. 0 \in T
  <2> SUFFICES ASSUME NEW x \in Block, Number[x] = 0
               PROVE  Good(x)
    OBVIOUS
  <2>1. Parent[x] = NoBlock
    OBVIOUS
  <2> HIDE DEF Good
  <2> QED
    BY <1>2, <2>1
<1>4. ASSUME NEW n \in T
      PROVE  n + 1 \in T
  <2> SUFFICES ASSUME NEW x \in Block, Number[x] = n + 1
               PROVE  Good(x)
    OBVIOUS
  <2>1. CASE Parent[x] = NoBlock
    <3> HIDE DEF Good
    <3> QED
      BY <1>2, <2>1
  <2>2. CASE Parent[x] # NoBlock
    <3> DEFINE y == Parent[x]
    <3>1. y \in Block /\ Number[y] = n
      BY <2>2
    <3>2. Good(y)
      <4> HIDE DEF Good
      <4> QED
        BY <1>4, <3>1
    <3>3. Path[x] = {x} \cup Path[y]
      BY <2>2, PathStep
    <3> HIDE DEF y
    <3> QED
      BY <3>2, <3>3
  <2> QED
    BY <2>1, <2>2
<1>5. T = Nat
  <2> HIDE DEF T
  <2> QED
    BY <1>1, <1>3, <1>4, AllNaturals
<1>6. Number[b] \in T
  BY <1>5
<1>7. Good(b)
  BY <1>6
<1> QED
  BY <1>7, PathHeights

LEMMA PathFinite ==
  ASSUME NEW b \in Block
  PROVE  IsFiniteSet(Path[b])
<1> DEFINE f == [c \in Path[b] |-> Number[c]]
<1>1. \A c \in Path[b] : Number[c] \in 0..Number[b]
  BY PathHeights, TreeAssumption
<1>2. f \in Injection(Path[b], 0..Number[b])
  BY <1>1, PathHeights DEF Injection, IsInjective
<1>3. IsFiniteSet(0..Number[b])
  BY TreeAssumption, FS_Interval
<1> HIDE DEF f
<1> QED
  BY <1>2, <1>3, FS_Injection
=============================================================================
