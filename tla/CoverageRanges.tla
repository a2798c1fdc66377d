---------------------------- MODULE CoverageRanges ----------------------------
(***************************************************************************)
(* Coverage of block heights as the code keeps it, a sorted sequence of    *)
(* ranges (indexer/model-store.ts), and what it stands for, a set of       *)
(* heights.  The operators on sets are the reference for those on ranges;  *)
(* ModelStore uses the sets.                                               *)
(***************************************************************************)
EXTENDS Integers, Sequences, FiniteSets, FiniteSetsExt, SequencesExt, Ordering

HeightsOf(r) == r[1]..r[2]
Covered(ranges) == UNION {HeightsOf(ranges[i]) : i \in DOMAIN ranges}

(* Sorted ranges that neither overlap nor touch: one sequence for a set. *)
Canonical(ranges) ==
  /\ \A i \in DOMAIN ranges : ranges[i][1] <= ranges[i][2]
  /\ \A i, j \in DOMAIN ranges : i < j => ranges[i][2] + 1 < ranges[j][1]

(* The next range of from..through that the coverage misses, at most size  *)
(* long, the newest or the oldest one; <<>> when it misses none.           *)
MissingRange(covered, from, through, size) ==
  LET missing == (from..through) \ covered
      end == Max(missing)
      first == Min({n \in from..end : n..end \subseteq missing /\ end - n < size})
  IN IF missing = {} THEN <<>> ELSE <<first, end>>

MissingForwardRange(covered, from, through, size) ==
  LET missing == (from..through) \ covered
      first == Min(missing)
      end == Max({n \in first..through : first..n \subseteq missing /\ n - first < size})
  IN IF missing = {} THEN <<>> ELSE <<first, end>>

-----------------------------------------------------------------------------
(* The same on ranges, and what commit, invalidate and retain do to them. *)
Lesser(a, b) == IF a < b THEN a ELSE b
Greater(a, b) == IF a > b THEN a ELSE b

(* Bug: ranges that touch stay two. *)
Extends_Overlap(last, r) == r[1] <= last[2]
Extends(last, r) == r[1] <= last[2] + 1

(* The stable sort of the ranges by their first heights. *)
InOrder(ranges) ==
  LET Before(i, j) == ranges[i][1] < ranges[j][1] \/ (ranges[i][1] = ranges[j][1] /\ i < j)
      place == [j \in DOMAIN ranges |-> Cardinality({i \in DOMAIN ranges : Before(i, j)})]
      order == SortedBy(DOMAIN ranges, place)
  IN [k \in DOMAIN ranges |-> ranges[order[k]]]

(* A range is joined to the last one of the result, or follows it. *)
MergeRange(result, r) ==
  IF result # <<>> /\ Extends(Last(result), r)
  THEN [result EXCEPT ![Len(result)] = <<@[1], Greater(@[2], r[2])>>]
  ELSE Append(result, r)
Merging(ranges) ==
  LET result[n \in 0..Len(ranges)] ==
        IF n = 0 THEN <<>> ELSE MergeRange(result[n - 1], ranges[n])
  IN result
MergeBlockRanges(ranges) == Merging(InOrder(ranges))[Len(ranges)]

(* The ranges at the given places. *)
RangesAt(ranges, places) ==
  LET order == SortedBy(places, [i \in places |-> i])
  IN [k \in DOMAIN order |-> ranges[order[k]]]
DropFrom(ranges, from) ==
  LET kept == RangesAt(ranges, {i \in DOMAIN ranges : ranges[i][1] < from})
  IN [k \in DOMAIN kept |-> <<kept[k][1], Lesser(kept[k][2], from - 1)>>]
KeepFrom(ranges, from) ==
  LET kept == RangesAt(ranges, {i \in DOMAIN ranges : ranges[i][2] >= from})
  IN [k \in DOMAIN kept |-> <<Greater(kept[k][1], from), kept[k][2]>>]

(* Walking down from `through`, ranges that contain the end move it below   *)
(* them; the first that does not bounds the result.                        *)
StepDown(w, r) ==
  IF w.bound # {} \/ r[1] > w.end THEN w
  ELSE IF r[2] >= w.end THEN [w EXCEPT !.end = r[1] - 1]
  ELSE [w EXCEPT !.bound = {r[2] + 1}]
WalkDown(ranges, through) ==
  LET w[n \in 0..Len(ranges)] ==
        IF n = 0 THEN [end |-> through, bound |-> {}]
        ELSE StepDown(w[n - 1], ranges[Len(ranges) - n + 1])
  IN w
MissingRangeOf(ranges, from, through, size) ==
  LET w == WalkDown(ranges, through)[Len(ranges)]
  IN IF w.end < from THEN <<>>
     ELSE <<Max({w.end - size + 1, from} \cup w.bound), w.end>>

StepUp(w, r) ==
  IF w.bound # {} \/ r[2] < w.start THEN w
  ELSE IF r[1] <= w.start THEN [w EXCEPT !.start = r[2] + 1]
  ELSE [w EXCEPT !.bound = {r[1] - 1}]
WalkUp(ranges, from) ==
  LET w[n \in 0..Len(ranges)] ==
        IF n = 0 THEN [start |-> from, bound |-> {}] ELSE StepUp(w[n - 1], ranges[n])
  IN w
MissingForwardRangeOf(ranges, from, through, size) ==
  LET w == WalkUp(ranges, from)[Len(ranges)]
  IN IF w.start > through THEN <<>>
     ELSE <<w.start, Min({w.start + size - 1, through} \cup w.bound)>>
=============================================================================
