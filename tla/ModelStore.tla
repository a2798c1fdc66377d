------------------------------ MODULE ModelStore ------------------------------
(***************************************************************************)
(* The durable state of one model instance and its operations, as every    *)
(* adapter keeps it (indexer/model-store.ts, the memory store; the         *)
(* PostgreSQL one runs the same operations as one transaction each).       *)
(*                                                                         *)
(* A stored batch is the block itself: the events captured in it are the   *)
(* log of that block, if Logged has it and it was not missed.  Merged      *)
(* coverage ranges are the set of heights they contain: two ranges that    *)
(* touch are one range.                                                    *)
(***************************************************************************)
EXTENDS BlockTree, CoverageRanges, Functions, Ordering

CONSTANTS
  Time,      \* Time[b]: the timestamp of b
  Logged,    \* the blocks with a log the model's source selects
  Interval   \* the length of a time partition

ASSUME StoreAssumption ==
  /\ Time \in [Block -> Nat]
  /\ \A b \in Block : Parent[b] # NoBlock => Time[Parent[b]] <= Time[b]
  /\ Logged \subseteq Block
  /\ Interval \in Nat \ {0}

Heights(B) == {Number[b] : b \in B}
Stored(f) == {f[n] : n \in DOMAIN f}

Highest(B) ==
  IF B = {} THEN NoBlock ELSE CHOOSE b \in B : \A c \in B : Number[c] <= Number[b]
Lowest(B) ==
  IF B = {} THEN NoBlock ELSE CHOOSE b \in B : \A c \in B : Number[c] >= Number[b]

(* The stored block nearest to the height n on either side of it. *)
Before(f, n) == Highest({b \in Stored(f) : Number[b] < n})
After(f, n) == Lowest({b \in Stored(f) : Number[b] > n})

(* The map f with the blocks of B written over it. *)
Put(f, B) ==
  [n \in DOMAIN f \cup Heights(B) |->
     IF n \in Heights(B) THEN CHOOSE b \in B : Number[b] = n ELSE f[n]]

(* Partitions are named by the time they start at. *)
Start(b) == (Time[b] \div Interval) * Interval
EndOf(s) == s + Interval
Starts == {k * Interval : k \in 0..(Max({Time[b] : b \in Block}) \div Interval)}

(***************************************************************************)
(* The contents: source batches by height, the heights that were scanned,  *)
(* the closed partition rows and the row of the state projection; and      *)
(* missed, the blocks of scanned heights whose log the scan did not read:  *)
(* a batch of one of these is without it.                                  *)
(***************************************************************************)
NoRow == [block |-> NoBlock, value |-> <<>>]
NoRows == [s \in {} |-> {}]
EmptyStore ==
  [batches |-> EmptyMap, covered |-> {}, closed |-> NoRows, state |-> NoRow, missed |-> {}]

StoreType(st) ==
  /\ BlockMap(st.batches)
  /\ st.covered \subseteq Nat /\ st.missed \subseteq Logged
  /\ DOMAIN st.closed \subseteq Starts
  /\ \A s \in DOMAIN st.closed : st.closed[s] \subseteq Logged
  /\ st.state = NoRow \/ (st.state.block \in Block /\ st.state.value \in Seq(Logged))

CommitStore(st, B, scanned, rows, state, missed) ==
  [batches |-> Put(st.batches, B),
   covered |-> st.covered \cup (IF scanned = {} THEN Heights(B) ELSE scanned),
   closed |-> Over(rows, st.closed),
   state |-> state,
   missed |-> missed]

(* Bug: the first orphan stays. *)
Invalidate_KeepsFirst(st, from) ==
  LET known == Before(st.batches, from + 1)
      forkTime == IF known = NoBlock THEN 0 ELSE Time[known]
  IN [batches |-> Below(st.batches, from + 1),
      covered |-> {n \in st.covered : n <= from},
      closed |-> Restrict(st.closed, {s \in DOMAIN st.closed : EndOf(s) <= forkTime}),
      state |-> NoRow, missed |-> {b \in st.missed : Number[b] <= from}]

(* The rows kept are those that ended by the time of the block stored at   *)
(* or below `from`; a state row has no end and always goes.                *)
Invalidate(st, from) ==
  LET known == Before(st.batches, from + 1)
      forkTime == IF known = NoBlock THEN 0 ELSE Time[known]
  IN [batches |-> Below(st.batches, from),
      covered |-> {n \in st.covered : n < from},
      closed |-> Restrict(st.closed, {s \in DOMAIN st.closed : EndOf(s) <= forkTime}),
      state |-> NoRow,
      missed |-> {b \in st.missed : Number[b] < from}]

Retain(st, fromBlock, fromTime) ==
  [batches |-> Only(st.batches, {n \in DOMAIN st.batches : n >= fromBlock}),
   covered |-> {n \in st.covered : n >= fromBlock},
   closed |-> Restrict(st.closed, {s \in DOMAIN st.closed : EndOf(s) > fromTime}),
   state |-> st.state,
   missed |-> {b \in st.missed : Number[b] >= fromBlock}]
=============================================================================
