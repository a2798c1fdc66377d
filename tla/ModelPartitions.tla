--------------------------- MODULE ModelPartitions ---------------------------
(***************************************************************************)
(* What a commit of a model instance does to its store and its memory      *)
(* (indexer/model.ts, commit, restorePartitions and the start of live      *)
(* partitions) for one state projection and one partitioned projection.    *)
(* The state's value is the sequence of the logs folded into it, a         *)
(* partition's value is the set of its logs: every reducer is a function   *)
(* of these.                                                               *)
(*                                                                         *)
(* The instance's memory, m, has the fields                                *)
(*   applied      the newest block the state projection has, or NoBlock;   *)
(*   open         `volatile`: the rows of partitions that have not closed; *)
(*   cache        `partitionBatches`: the batches of a partition;          *)
(*   done         `completedPartitions`;                                   *)
(*   liveFrom     `livePartitionFrom`, as a set of at most one element;    *)
(*   liveBefore   `livePartitionPredecessor`, or NoBlock;                  *)
(*   liveThrough  `liveHistoryThrough`, as a set of at most one element.   *)
(* Its `coverage` and `current` always equal the store's coverage and      *)
(* state row, which are written in the same locked section.                *)
(***************************************************************************)
EXTENDS ModelStore

FreshMemory ==
  [applied |-> NoBlock, open |-> NoRows, cache |-> [s \in {} |-> EmptyMap],
   done |-> {}, liveFrom |-> {}, liveBefore |-> NoBlock, liveThrough |-> {}]

MemoryType(m) ==
  /\ m.applied \in Block \cup {NoBlock}
  /\ DOMAIN m.open \subseteq Starts
  /\ \A s \in DOMAIN m.open :
       m.open[s].value \subseteq Logged /\ m.open[s].complete \in BOOLEAN
  /\ DOMAIN m.cache \subseteq Starts
  /\ \A s \in DOMAIN m.cache : BlockMap(m.cache[s])
  /\ m.done \subseteq Starts
  /\ m.liveFrom \subseteq Starts
  /\ m.liveBefore \in Block \cup {NoBlock}
  /\ m.liveThrough \subseteq Nat

ByNumber(B) == SortedBy(B, Number)

(* What the seed of the state projection reads at b: every log up to b. *)
LogsTo[b \in Block] == ByNumber(Path[b] \cap Logged)

(* The blocks of B are one unbroken run of a chain. *)
Linked(B) == \A b \in B : b # Lowest(B) => Parent[b] \in B

(* A historical range must meet the stored blocks next to it. *)
Joins(st, B) ==
  LET before == Before(st.batches, Number[Lowest(B)])
      after == After(st.batches, Number[Highest(B)])
  IN /\ before # NoBlock /\ Number[before] + 1 = Number[Lowest(B)] =>
          before = Parent[Lowest(B)]
     /\ after # NoBlock /\ Number[after] = Number[Highest(B)] + 1 =>
          Parent[after] = Highest(B)

(***************************************************************************)
(* The partitions a commit looks at, and its verdict on each.  A commit is *)
(* a record c: joined adds the stored neighbours to the incoming blocks B, *)
(* covered is the coverage it leaves, missed the blocks whose log it lacks *)
(* then, combined has the batches of every partition it looks at.          *)
(***************************************************************************)
Joined(st, B) ==
  B \cup ({Before(st.batches, Number[Lowest(B)]), After(st.batches, Number[Highest(B)])}
           \ {NoBlock})

Progress(m, B, live) == IF live \/ m.applied = NoBlock THEN Highest(B) ELSE m.applied

Periods(m, joined, live, progress) ==
  {s \in Starts :
     \/ \E p, q \in joined : Number[p] <= Number[q] /\ Start(p) <= s /\ s <= Start(q)
     \/ live /\ m.applied # NoBlock /\ Start(m.applied) <= s /\ s <= Start(progress)}

(* Bug: the batches the partition has already are left out. *)
Combined_NewOnly(st, m, B, s) == Put(EmptyMap, {b \in B : Start(b) = s})
Combined(st, m, B, s) ==
  Put(IF s \in DOMAIN m.cache THEN m.cache[s]
      ELSE Only(st.batches, {n \in DOMAIN st.batches : Start(st.batches[n]) = s}),
      {b \in B : Start(b) = s})

TheCommit(st, m, B, live, scanned, missed) ==
  [st |-> st, m |-> m, B |-> B, live |-> live, scanned |-> scanned, missed |-> missed,
   joined |-> Joined(st, B),
   progress |-> Progress(m, B, live),
   covered |-> st.covered \cup Heights(B) \cup scanned,
   combined |-> [s \in Periods(m, Joined(st, B), live, Progress(m, B, live)) \ m.done |->
                   Combined(st, m, B, s)]]

InPeriod(c, s) == Stored(c.combined[s])
Captured(c, s) == (InPeriod(c, s) \cap Logged) \ c.missed

JoinedBefore(c, s) == Highest({b \in c.joined : Time[b] < s})
JoinedAfter(c, s) == Lowest({b \in c.joined : Time[b] >= EndOf(s)})

(* Bug: what lies between the two blocks need not be covered. *)
ClosesEmpty_AnyGap(c, s) ==
  LET before == IF JoinedBefore(c, s) = NoBlock /\ c.live THEN c.m.applied
                ELSE JoinedBefore(c, s)
      after == JoinedAfter(c, s)
  IN before # NoBlock /\ after # NoBlock /\ Time[before] < s
(* A partition without a stored block closes between two covered blocks. *)
ClosesEmpty(c, s) ==
  LET before == IF JoinedBefore(c, s) = NoBlock /\ c.live THEN c.m.applied
                ELSE JoinedBefore(c, s)
      after == JoinedAfter(c, s)
  IN /\ before # NoBlock /\ after # NoBlock
     /\ Time[before] < s
     /\ \/ Number[before] + 1 = Number[after]
        \/ Number[before]..Number[after] \subseteq c.covered

(* Nothing of the partition can lie below its first stored block. *)
StartsCovered(c, s) ==
  LET first == Lowest(InPeriod(c, s))
      before == IF JoinedBefore(c, s) # NoBlock THEN JoinedBefore(c, s)
                ELSE Before(c.st.batches, Number[first])
  IN \/ Number[first] = 0
     \/ /\ before # NoBlock /\ Time[before] < s
        /\ Number[before]..Number[first] \subseteq c.covered
     \/ s \in c.m.liveFrom /\ Time[c.m.liveBefore] < s
     \/ /\ c.live /\ c.m.applied # NoBlock
        /\ Number[c.m.applied] + 1 = Number[first] /\ Time[c.m.applied] < s

Closes(c, s) == Time[c.progress] >= EndOf(s)

Complete(c, s) ==
  LET first == Lowest(InPeriod(c, s))
      after == IF JoinedAfter(c, s) # NoBlock THEN JoinedAfter(c, s)
               ELSE After(c.st.batches, Number[Highest(InPeriod(c, s))])
  IN /\ StartsCovered(c, s)
     /\ IF Closes(c, s)
        THEN /\ after # NoBlock /\ Time[after] >= EndOf(s)
             /\ Number[first]..Number[after] \subseteq c.covered
        ELSE Number[first]..Number[c.progress] \subseteq c.covered

(* "skip" leaves the row alone, "drop" withdraws an open row. *)
Verdict(c, s) ==
  IF c.live /\ c.m.liveFrom = {} THEN "skip"
  ELSE IF InPeriod(c, s) = {} THEN IF ClosesEmpty(c, s) THEN "closed" ELSE "skip"
  ELSE IF Closes(c, s) THEN IF Complete(c, s) THEN "closed" ELSE "drop"
  ELSE IF c.live THEN "open" ELSE "skip"

(***************************************************************************)
(* The commit, as the set of its one outcome.  It leaves the store, the    *)
(* memory and what a watcher holds, seen: the rows are published, and      *)
(* after a withdrawal a reset with every row that is left, the open rows   *)
(* after the durable ones.                                                 *)
(***************************************************************************)
Rule(verdict, v) == {s \in DOMAIN verdict : verdict[s] = v}

ClosedRows(c, verdict) == [s \in Rule(verdict, "closed") |-> Captured(c, s)]

OpenRows(c, verdict) ==
  [s \in Rule(verdict, "open") |->
     [value |-> Captured(c, s), complete |-> Complete(c, s)]]

Withdrawn(c, verdict) == Rule(verdict, "drop") \cap DOMAIN c.m.open

KeptRows(c, verdict) ==
  Over(OpenRows(c, verdict),
       Restrict(c.m.open,
                DOMAIN c.m.open \ (Rule(verdict, "closed") \cup Withdrawn(c, verdict))))

(* The state projection folds the logs of the live blocks. *)
Projected(c) ==
  IF c.live /\ c.st.state # NoRow
  THEN [block |-> c.progress, value |-> c.st.state.value \o ByNumber(c.B \cap Logged)]
  ELSE c.st.state

Values(open) == [s \in DOMAIN open |-> open[s].value]

Outcome(c, seen, verdict) ==
  LET rows == ClosedRows(c, verdict)
      kept == KeptRows(c, verdict)
      after == CommitStore(c.st, c.B, c.scanned, rows, Projected(c), c.missed)
  IN [store |-> after,
      mem |-> [c.m EXCEPT
        !.applied = IF c.live THEN c.progress ELSE @,
        !.open = kept,
        !.cache = Restrict(Over(c.combined, @), (DOMAIN verdict \cup DOMAIN @) \ DOMAIN rows),
        !.done = @ \cup DOMAIN rows],
      seen |-> IF Withdrawn(c, verdict) = {}
               THEN Over(rows, Over(Values(OpenRows(c, verdict)), seen))
               ELSE Over(Values(kept), after.closed)]

Commit(st, m, seen, B, live, scanned, missed) ==
  UNION {{Outcome(c, seen, v) : v \in {[s \in DOMAIN c.combined |-> Verdict(c, s)]}} :
         c \in {TheCommit(st, m, B, live, scanned, missed)}}

(* The first incoming block of a later partition starts the live ones. *)
ActivateLive(m, B) ==
  LET boundary == Lowest({b \in B : Start(b) > Start(m.applied)})
      below == Highest({b \in B : Number[b] < Number[boundary]})
      before == IF below = NoBlock THEN m.applied ELSE below
  IN IF m.applied = NoBlock \/ m.liveFrom # {} \/ boundary = NoBlock THEN m
     ELSE [m EXCEPT !.liveFrom = {Start(boundary)}, !.liveBefore = before,
                    !.liveThrough = {Max(@ \cup {Number[before]})}]

(***************************************************************************)
(* The partitions a starting instance closes from what it finds stored.    *)
(***************************************************************************)
Restorable(st, progress, s) ==
  LET blocks == Stored(st.batches)
      before == Highest({b \in blocks : Time[b] < s})
      after == Lowest({b \in blocks : Time[b] >= EndOf(s)})
      from == IF before = NoBlock THEN 0 ELSE Number[before]
  IN /\ s \notin DOMAIN st.closed
     /\ Time[progress] >= EndOf(s)
     /\ \/ \E b \in blocks : Start(b) = s
        \/ /\ before # NoBlock /\ after # NoBlock
           /\ Number[before]..Number[after] \subseteq st.covered
     /\ before # NoBlock \/ (blocks # {} /\ Number[Lowest(blocks)] = 0)
     /\ after # NoBlock
     /\ from..Number[after] \subseteq st.covered

RestorePartitions(st, progress) ==
  LET rows == [s \in {t \in Starts : Restorable(st, progress, t)} |->
                 ({b \in Stored(st.batches) : Start(b) = s} \cap Logged) \ st.missed]
  IN [st EXCEPT !.closed = Over(rows, @)]
=============================================================================
