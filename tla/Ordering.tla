-------------------------------- MODULE Ordering --------------------------------
(***************************************************************************)
(* A finite set as a sequence, by a key that tells its elements apart, and *)
(* one map over another.  What SetToSortSeq of SequencesExt and @@ of TLC  *)
(* compute, in definitions that proofs can expand: an element's place is   *)
(* the number of elements that come before it.                             *)
(***************************************************************************)
EXTENDS Naturals, FiniteSets

Rank(S, key, c) == Cardinality({d \in S : key[d] < key[c]})

SortedBy(S, key) ==
  [i \in 1..Cardinality(S) |-> CHOOSE c \in S : Rank(S, key, c) = i - 1]

Over(f, g) ==
  [x \in DOMAIN f \cup DOMAIN g |-> IF x \in DOMAIN f THEN f[x] ELSE g[x]]
=============================================================================
