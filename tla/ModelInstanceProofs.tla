-------------------------- MODULE ModelInstanceProofs --------------------------
(***************************************************************************)
(* Theorems about ModelInstance for every tree of blocks, every plan and   *)
(* every bound: the durable state row is what seeding at its block would   *)
(* read, a consumer of watch() holds what read() returns, and an instance  *)
(* that has followed its feed to the end has applied the newest block.     *)
(***************************************************************************)
EXTENDS ModelInstance, SharedLemmas

(* The ends of a finite set of blocks. *)
LEMMA HighestOf ==
  ASSUME NEW B, B \subseteq Block, B # {}, IsFiniteSet(B)
  PROVE  Highest(B) \in B /\ \A c \in B : Number[c] <= Number[Highest(B)]
<1> DEFINE f == [b \in B |-> Number[b]]
           T == {Number[b] : b \in B}
<1>1. T \subseteq Nat /\ T # {} /\ f \in Surjection(B, T)
  <2>1. T \subseteq Nat /\ T # {}
    BY TreeAssumption
  <2>2. f \in [B -> T] /\ \A n \in T : \E b \in B : f[b] = n
    OBVIOUS
  <2> QED
    BY <2>1, <2>2 DEF Surjection
<1>2. IsFiniteSet(T)
  <2> HIDE DEF f, T
  <2> QED
    BY <1>1, FS_Surjection
<1>3. PICK n \in T : \A m \in T : m <= n
  <2> HIDE DEF f, T
  <2> QED
    BY <1>1, <1>2, Greatest
<1>4. \E b \in B : \A c \in B : Number[c] <= Number[b]
  BY <1>3
<1> QED
  BY <1>4 DEF Highest

LEMMA LowestOf ==
  ASSUME NEW B, B \subseteq Block, B # {}
  PROVE  Lowest(B) \in B /\ \A c \in B : Number[c] >= Number[Lowest(B)]
<1> DEFINE T == {Number[b] : b \in B}
<1>1. T \subseteq Nat /\ T # {}
  BY TreeAssumption
<1>2. PICK n \in T : \A m \in T : n <= m
  <2> HIDE DEF T
  <2> QED
    BY <1>1, Smallest
<1>3. \E b \in B : \A c \in B : Number[c] >= Number[b]
  BY <1>2, TreeAssumption
<1> QED
  BY <1>3 DEF Lowest

(* An unbroken run of blocks on top of a block extends its chain by those  *)
(* blocks, and all of them are above it.                                   *)
LEMMA LinkedRun ==
  ASSUME NEW B, B \subseteq Block, B # {}, IsFiniteSet(B),
         \A b, c \in B : Number[b] = Number[c] => b = c,
         Linked(B), NEW a \in Block, Parent[Lowest(B)] = a
  PROVE  /\ Highest(B) \in B
         /\ Path[Highest(B)] = Path[a] \cup B
         /\ \A b \in Path[a], c \in B : Number[b] < Number[c]
<1> DEFINE l == Lowest(B)
           UpTo(b) == {c \in B : Number[c] <= Number[b]}
           T == {n \in Nat : \A b \in B : Number[b] = Number[l] + n =>
                                            Path[b] = Path[a] \cup UpTo(b)}
<1>1. l \in B /\ l \in Block /\ \A c \in B : Number[c] >= Number[l]
  BY LowestOf
<1>2. Number[l] = Number[a] + 1 /\ Parent[l] = a /\ a # NoBlock
  BY <1>1, TreeAssumption
<1>3. \A b \in B : b # l => Parent[b] \in B
  BY DEF Linked
<1>4. \A b \in B : Number[b] \in Nat /\ b \in Block
  BY TreeAssumption
<1> HIDE DEF l
<1>5. 0 \in T
  <2> SUFFICES ASSUME NEW b \in B, Number[b] = Number[l] + 0
               PROVE  Path[b] = Path[a] \cup UpTo(b)
    OBVIOUS
  <2>1. b = l
    BY <1>1, <1>4
  <2>2. UpTo(b) = {l}
    BY <1>1, <1>4, <2>1
  <2>3. Path[l] = {l} \cup Path[a]
    BY <1>1, <1>2, PathStep
  <2> QED
    BY <2>1, <2>2, <2>3
<1>6. ASSUME NEW n \in T
      PROVE  n + 1 \in T
  <2> SUFFICES ASSUME NEW b \in B, Number[b] = Number[l] + (n + 1)
               PROVE  Path[b] = Path[a] \cup UpTo(b)
    OBVIOUS
  <2>1. n \in Nat
    OBVIOUS
  <2>2. b # l
    BY <1>1, <1>4, <2>1
  <2> DEFINE d == Parent[b]
  <2>3. d \in B /\ d # NoBlock /\ b \in Block
    BY <1>3, <1>4, <2>2, TreeAssumption
  <2>4. Number[b] = Number[d] + 1
    BY <2>3, TreeAssumption
  <2>5. Path[b] = {b} \cup Path[d]
    BY <2>3, PathStep
  <2> HIDE DEF d
  <2>6. Number[d] = Number[l] + n
    BY <1>1, <1>4, <2>1, <2>3, <2>4
  <2>7. Path[d] = Path[a] \cup UpTo(d)
    BY <2>3, <2>6
  <2>8. UpTo(b) = {b} \cup UpTo(d)
    <3> SUFFICES ASSUME NEW c \in B
                 PROVE  Number[c] <= Number[b] <=> c = b \/ Number[c] <= Number[d]
      BY <2>3, <2>4, <1>4
    <3>1. Number[c] \in Nat /\ Number[b] \in Nat /\ Number[d] \in Nat
      BY <1>4, <2>3
    <3>2. Number[c] = Number[b] => c = b
      OBVIOUS
    <3> QED
      BY <2>4, <3>1, <3>2
  <2> QED
    BY <2>5, <2>7, <2>8
<1>7. T = Nat
  <2>1. T \in SUBSET Nat
    OBVIOUS
  <2> HIDE DEF T
  <2> QED
    BY <1>5, <1>6, <2>1, AllNaturals
<1>8. \A b \in B : Path[b] = Path[a] \cup UpTo(b)
  <2> SUFFICES ASSUME NEW b \in B
               PROVE  Path[b] = Path[a] \cup UpTo(b)
    OBVIOUS
  <2> DEFINE n == Number[b] - Number[l]
  <2>1. n \in Nat /\ Number[b] = Number[l] + n
    BY <1>1, <1>4
  <2> HIDE DEF n
  <2> QED
    BY <1>7, <2>1
<1>9. Highest(B) \in B /\ UpTo(Highest(B)) = B
  BY HighestOf
<1>10. ASSUME NEW b \in Path[a], NEW c \in B
       PROVE  Number[b] < Number[c]
  <2>1. b \in Block /\ Number[b] <= Number[a]
    BY PathHeights
  <2>2. Number[b] \in Nat /\ Number[a] \in Nat
    BY <2>1, TreeAssumption
  <2> QED
    BY <1>1, <1>2, <1>4, <2>1, <2>2
<1> HIDE DEF UpTo
<1> QED
  BY <1>8, <1>9, <1>10

(* What the seed would read after such a run is what it would have read    *)
(* before, and then the logs of the run in order.                          *)
LEMMA LogsRun ==
  ASSUME NEW B, B \subseteq Block, B # {}, IsFiniteSet(B),
         \A b, c \in B : Number[b] = Number[c] => b = c,
         Linked(B), NEW a \in Block, Parent[Lowest(B)] = a
  PROVE  LogsTo[Highest(B)] = LogsTo[a] \o ByNumber(B \cap Logged)
<1> DEFINE h == Highest(B)
           S == Path[a] \cap Logged
           T == B \cap Logged
<1>1. h \in Block /\ Path[h] = Path[a] \cup B /\ \A b \in Path[a], c \in B : Number[b] < Number[c]
  BY LinkedRun
<1> HIDE DEF h
<1>2. Path[h] \cap Logged = S \cup T
  BY <1>1
<1>3. IsFiniteSet(S) /\ IsFiniteSet(T)
  <2>1. S \in SUBSET Path[a] /\ T \in SUBSET B
    OBVIOUS
  <2>2. IsFiniteSet(Path[a])
    BY PathFinite
  <2> QED
    BY <2>1, <2>2, FS_Subset
<1>4. \A c \in S \cup T : Number[c] \in Nat
  BY PathHeights, TreeAssumption
<1>5. \A c, d \in S \cup T : Number[c] = Number[d] => c = d
  <2>1. S \cup T \subseteq Path[h]
    BY <1>2
  <2>2. \A c, d \in Path[h] : Number[c] = Number[d] => c = d
    BY <1>1, PathHeights
  <2> QED
    BY <2>1, <2>2
<1>6. \A c \in S, d \in T : Number[c] < Number[d]
  BY <1>1
<1> HIDE DEF S, T
<1> DEFINE U == S \cup T
<1>7. SortedBy(U, Number) = SortedBy(S, Number) \o SortedBy(T, Number)
  <2>1. /\ U = S \cup T /\ \A c \in U : Number[c] \in Nat
        /\ \A c, d \in U : Number[c] = Number[d] => c = d
    BY <1>4, <1>5
  <2> HIDE DEF U
  <2> QED
    BY ONLY <1>3, <1>6, <2>1, SortedJoin
<1> HIDE DEF U
<1>8. LogsTo[h] = SortedBy(U, Number) /\ LogsTo[a] = SortedBy(S, Number)
  BY <1>1, <1>2 DEF LogsTo, ByNumber, S, U
<1> QED
  BY <1>7, <1>8 DEF h, T, ByNumber
-----------------------------------------------------------------------------
(***************************************************************************)
(* The shape of the state: what the steps rely on without looking.         *)
(***************************************************************************)
Update == [revert : BOOLEAN, block : Block]

StoreShape(st) ==
  /\ DOMAIN st = {"batches", "covered", "closed", "state", "missed"}
  /\ st.state # NoRow => st.state.block \in Block

MemoryShape(m) ==
  DOMAIN m = {"applied", "open", "cache", "done", "liveFrom", "liveBefore", "liveThrough"}

WorkShape(w) ==
  /\ DOMAIN w = {"group", "at", "read", "alone", "retries", "todo"}
  /\ w.group \in Seq(Block) /\ w.todo \in Seq(Update)
  /\ w.at \in Nat /\ (w.group # <<>> => w.at \in 1..Len(w.group))
  /\ BlockMap(w.read) /\ IsFiniteSet(DOMAIN w.read)

RecoveryShape(r) ==
  /\ DOMAIN r = {"step", "latest", "ancestor", "forkTime"}
  /\ r.step \in {"search", "invalidate", "rebuild"} => r.latest \in Block

Shape ==
  /\ tip \in Block /\ startHead \in Block
  /\ queue \in Seq(Update)
  /\ feed \in Block \cup {NoBlock}
  /\ StoreShape(store)
  /\ MemoryShape(mem)
  /\ run \in {"down", "starting", "up", "failed"}
  /\ run = "up" => mem.applied \in Block
  /\ WorkShape(work)
  /\ RecoveryShape(recovery)

LEMMA EmptyMapShape == BlockMap(EmptyMap) /\ IsFiniteSet(DOMAIN EmptyMap)
  BY FS_EmptySet DEF BlockMap, EmptyMap

(* The updates a worker takes begin with a group of blocks. *)
LEMMA LoadShape ==
  ASSUME NEW todo \in Seq(Update)
  PROVE  WorkShape(Load(todo))
<1> DEFINE reverts == {i \in DOMAIN todo : todo[i].revert}
           length == IF reverts = {} THEN Len(todo) ELSE Min(reverts) - 1
<1>1. length \in 0..Len(todo)
  <2>1. CASE reverts = {}
    BY <2>1
  <2>2. CASE reverts # {}
    <3>1. reverts \subseteq Nat
      OBVIOUS
    <3>2. \E i \in reverts : \A j \in reverts : i <= j
      <4> HIDE DEF reverts
      <4> QED
        BY <2>2, <3>1, Smallest
    <3>3. Min(reverts) \in reverts
      <4> HIDE DEF reverts
      <4> QED
        BY <3>2 DEF Min
    <3>4. Min(reverts) \in 1..Len(todo)
      BY <3>3
    <3> QED
      BY <2>2, <3>4
  <2> QED
    BY <2>1, <2>2
<1> HIDE DEF length
<1> DEFINE g == [i \in 1..length |-> todo[i].block]
           rest == SubSeq(todo, length + 1, Len(todo))
<1>2. g \in Seq(Block)
  <2>1. \A i \in 1..length : todo[i] \in Update
    BY <1>1
  <2>2. \A i \in 1..length : todo[i].block \in Block
    BY <2>1 DEF Update
  <2> QED
    BY <1>1, <2>2
<1>3. rest \in Seq(Update)
  BY <1>1
<1>4. Load(todo) = [group |-> g, at |-> 1, read |-> EmptyMap, alone |-> FALSE,
                    retries |-> 0, todo |-> rest]
  BY DEF Load, length
<1> HIDE DEF g, rest
<1>5. g # <<>> => 1 \in 1..Len(g)
  BY <1>2
<1> DEFINE w == Load(todo)
<1>6. /\ w.group = g /\ w.at = 1 /\ w.read = EmptyMap /\ w.todo = rest
      /\ DOMAIN w = {"group", "at", "read", "alone", "retries", "todo"}
  BY <1>4
<1> HIDE DEF w
<1>7. WorkShape(w)
  BY <1>2, <1>3, <1>5, <1>6, EmptyMapShape DEF WorkShape
<1> QED
  BY <1>7 DEF w

LEMMA NoWorkShape == WorkShape(NoWork)
<1>1. <<>> \in Seq(Update)
  OBVIOUS
<1> QED
  BY <1>1, LoadShape DEF NoWork

LEMMA FinishedShape ==
  ASSUME NEW w, WorkShape(w)
  PROVE  WorkShape(Finished(w))
<1>1. CASE w.at < Len(w.group)
  <2> DEFINE x == Finished(w)
  <2>1. /\ DOMAIN x = DOMAIN w
        /\ x.group = w.group /\ x.at = w.at + 1 /\ x.read = EmptyMap /\ x.todo = w.todo
    BY <1>1 DEF Finished, WorkShape
  <2> HIDE DEF x
  <2>2. WorkShape(x)
    BY <1>1, <2>1, EmptyMapShape DEF WorkShape
  <2> QED
    BY <2>2 DEF x
<1>2. CASE ~ w.at < Len(w.group)
  <2>1. Finished(w) = Load(w.todo)
    BY <1>2 DEF Finished
  <2> QED
    BY <2>1, LoadShape DEF WorkShape
<1> QED
  BY <1>1, <1>2
-----------------------------------------------------------------------------
(***************************************************************************)
(* What a commit leaves.                                                   *)
(***************************************************************************)
Verdicts(c) == [s \in DOMAIN c.combined |-> Verdict(c, s)]

(* The fields a commit leaves, one by one. *)
LEMMA CommitFields ==
  ASSUME NEW c, MemoryShape(c.m), NEW before, NEW result,
         result = Outcome(c, before, Verdicts(c))
  PROVE  /\ result.store =
              CommitStore(c.st, c.B, c.scanned, ClosedRows(c, Verdicts(c)), Projected(c), c.missed)
         /\ MemoryShape(result.mem)
         /\ result.mem.applied = IF c.live THEN c.progress ELSE c.m.applied
         /\ result.mem.open = KeptRows(c, Verdicts(c))
         /\ result.mem.cache =
              Restrict(Over(c.combined, c.m.cache),
                       (DOMAIN Verdicts(c) \cup DOMAIN c.m.cache)
                         \ DOMAIN ClosedRows(c, Verdicts(c)))
         /\ result.mem.done = c.m.done \cup DOMAIN ClosedRows(c, Verdicts(c))
         /\ result.mem.liveFrom = c.m.liveFrom
         /\ result.seen =
              IF Withdrawn(c, Verdicts(c)) = {}
              THEN Over(ClosedRows(c, Verdicts(c)),
                        Over(Values(OpenRows(c, Verdicts(c))), before))
              ELSE Over(Values(KeptRows(c, Verdicts(c))), result.store.closed)
<1> DEFINE v == Verdicts(c)
           m == c.m
           rows == ClosedRows(c, v)
           kept == KeptRows(c, v)
           after == CommitStore(c.st, c.B, c.scanned, rows, Projected(c), c.missed)
           cache == Restrict(Over(c.combined, m.cache),
                             (DOMAIN v \cup DOMAIN m.cache) \ DOMAIN rows)
           applied == IF c.live THEN c.progress ELSE m.applied
           done == m.done \cup DOMAIN rows
           shown == IF Withdrawn(c, v) = {}
                    THEN Over(rows, Over(Values(OpenRows(c, v)), before))
                    ELSE Over(Values(kept), after.closed)
<1> HIDE DEF v
<1>1. result = Outcome(c, before, v)
  BY DEF v
<1>2. result = [store |-> after,
                mem |-> [m EXCEPT !.applied = applied, !.open = kept, !.cache = cache,
                                  !.done = done],
                seen |-> shown]
  BY <1>1 DEF Outcome
<1>3. MemoryShape(m)
  OBVIOUS
<1> HIDE DEF rows, kept, after, shown, m, applied, cache, done
<1>4. result.mem = [m EXCEPT !.applied = applied, !.open = kept, !.cache = cache,
                           !.done = done]
  BY <1>2
<1>5. result.store = after /\ result.seen = shown
  BY <1>2
<1>6. /\ MemoryShape(result.mem)
      /\ result.mem.applied = applied /\ result.mem.open = kept /\ result.mem.cache = cache
      /\ result.mem.done = done /\ result.mem.liveFrom = m.liveFrom
  BY <1>3, <1>4 DEF MemoryShape
<1>7. result.seen = IF Withdrawn(c, v) = {}
                    THEN Over(rows, Over(Values(OpenRows(c, v)), before))
                    ELSE Over(Values(kept), result.store.closed)
  BY <1>5 DEF shown
<1>8. /\ result.store = CommitStore(c.st, c.B, c.scanned, ClosedRows(c, v), Projected(c), c.missed)
      /\ result.mem.applied = IF c.live THEN c.progress ELSE c.m.applied
      /\ result.mem.open = KeptRows(c, v)
      /\ result.mem.done = c.m.done \cup DOMAIN ClosedRows(c, v)
  BY <1>5, <1>6 DEF m, rows, kept, after, applied, done
<1>9. /\ result.mem.cache = Restrict(Over(c.combined, c.m.cache),
                                    (DOMAIN v \cup DOMAIN c.m.cache) \ DOMAIN ClosedRows(c, v))
      /\ result.mem.liveFrom = c.m.liveFrom
  BY <1>6 DEF m, rows, cache
<1>10. result.seen = IF Withdrawn(c, v) = {}
                     THEN Over(ClosedRows(c, v), Over(Values(OpenRows(c, v)), before))
                     ELSE Over(Values(KeptRows(c, v)), result.store.closed)
  BY <1>7 DEF rows, kept
<1> QED
  BY <1>6, <1>8, <1>9, <1>10 DEF v

(* The row of the state projection and the applied block after a commit    *)
(* of live blocks, and after one of history.                               *)
LEMMA OutcomeState ==
  ASSUME NEW c, MemoryShape(c.m), NEW before, NEW result,
         result = Outcome(c, before, Verdicts(c))
  PROVE  /\ DOMAIN result.store = {"batches", "covered", "closed", "state", "missed"}
         /\ MemoryShape(result.mem)
         /\ result.mem.applied = IF c.live THEN c.progress ELSE c.m.applied
         /\ result.store.state =
              IF c.live /\ c.st.state # NoRow
              THEN [block |-> c.progress,
                    value |-> c.st.state.value \o ByNumber(c.B \cap Logged)]
              ELSE c.st.state
<1> DEFINE rows == ClosedRows(c, Verdicts(c))
<1>1. /\ result.store = CommitStore(c.st, c.B, c.scanned, rows, Projected(c), c.missed)
      /\ MemoryShape(result.mem)
      /\ result.mem.applied = IF c.live THEN c.progress ELSE c.m.applied
  BY CommitFields
<1> HIDE DEF rows
<1>2. /\ result.store.state = Projected(c)
      /\ DOMAIN result.store = {"batches", "covered", "closed", "state", "missed"}
  BY <1>1 DEF CommitStore
<1> QED
  BY <1>1, <1>2 DEF Projected

(* The two kinds of commit, as the steps make them.                        *)
TheLive(B) ==
  TheCommit(store, ActivateLive(mem, B), B, TRUE, {}, store.missed \ B)
TheQuiet(B, scanned, missed) == TheCommit(store, mem, B, FALSE, scanned, missed)
Quiet(B, scanned, missed) == Commit(store, mem, seen, B, FALSE, scanned, missed)

LEMMA LiveOutcome ==
  ASSUME NEW B,
         NEW result \in
           Commit(store, ActivateLive(mem, B), seen, B, TRUE, {}, store.missed \ B)
  PROVE  LET c == TheLive(B)
         IN /\ result = Outcome(c, seen, Verdicts(c))
            /\ c.st = store /\ c.m = ActivateLive(mem, B) /\ c.B = B /\ c.live
            /\ c.progress = Highest(B)
<1> DEFINE c == TheLive(B)
<1>1. c.st = store /\ c.m = ActivateLive(mem, B) /\ c.B = B /\ c.live
      /\ c.progress = Highest(B)
  BY DEF TheLive, TheCommit, Progress
<1>2. Commit(store, ActivateLive(mem, B), seen, B, TRUE, {}, store.missed \ B) =
        UNION {{Outcome(d, seen, v) : v \in {Verdicts(d)}} : d \in {c}}
  BY DEF TheLive, Commit, Verdicts
<1> HIDE DEF c
<1>3. result = Outcome(c, seen, Verdicts(c))
  BY <1>2
<1> QED
  BY <1>1, <1>3 DEF c

LEMMA QuietOutcome ==
  ASSUME NEW B, NEW scanned, NEW missed, NEW result \in Quiet(B, scanned, missed)
  PROVE  \E c : /\ c = TheQuiet(B, scanned, missed) /\ result = Outcome(c, seen, Verdicts(c))
                /\ c.st = store /\ c.m = mem /\ c.B = B /\ ~c.live
<1> DEFINE c == TheQuiet(B, scanned, missed)
<1>1. c.st = store /\ c.m = mem /\ c.B = B /\ ~c.live
  BY DEF TheQuiet, TheCommit
<1>2. Quiet(B, scanned, missed) =
        UNION {{Outcome(d, seen, v) : v \in {Verdicts(d)}} : d \in {c}}
  BY DEF Quiet, TheQuiet, Commit, Verdicts
<1> HIDE DEF c
<1>3. result = Outcome(c, seen, Verdicts(c))
  BY <1>2
<1> QED
  BY <1>1, <1>3 DEF c

-----------------------------------------------------------------------------
(***************************************************************************)
(* The blocks the worker commits as live ones: told apart by their         *)
(* heights, and on top of a block.                                         *)
(***************************************************************************)
LiveRun(B, a) ==
  /\ B \subseteq Block /\ B # {} /\ IsFiniteSet(B)
  /\ \A b, c \in B : Number[b] = Number[c] => b = c
  /\ Parent[Lowest(B)] = a

LEMMA GroupRun ==
  ASSUME NEW group \in Seq(Block), Len(group) >= 2, NEW a \in Block,
         \A i \in DOMAIN group : Parent[group[i]] = IF i = 1 THEN a ELSE group[i - 1]
  PROVE  LiveRun(Range(group), a) /\ Highest(Range(group)) = group[Len(group)]
<1> DEFINE B == Range(group)
           T == {n \in Nat : n + 1 \in DOMAIN group => Number[group[n + 1]] = Number[a] + n + 1}
<1>1. /\ DOMAIN group = 1..Len(group) /\ Len(group) \in Nat
      /\ \A i \in 1..Len(group) : group[i] \in Block
  OBVIOUS
<1>2. 0 \in T
  <2>1. 1 \in DOMAIN group /\ Parent[group[1]] = a /\ group[1] \in Block
    BY <1>1
  <2> QED
    BY <2>1, TreeAssumption
<1>3. ASSUME NEW n \in T
      PROVE  n + 1 \in T
  <2> SUFFICES ASSUME (n + 1) + 1 \in DOMAIN group
               PROVE  Number[group[(n + 1) + 1]] = Number[a] + (n + 1) + 1
    OBVIOUS
  <2> DEFINE i == n + 1
  <2>1. n \in Nat /\ i \in Nat /\ i >= 1
    OBVIOUS
  <2>2. i \in DOMAIN group /\ i + 1 \in DOMAIN group
    BY <1>1, <2>1
  <2>3. Number[group[i]] = Number[a] + i
    <3>1. Number[group[n + 1]] = Number[a] + n + 1
      BY <2>2
    <3>2. Number[a] \in Nat
      BY TreeAssumption
    <3> QED
      BY <2>1, <3>1, <3>2
  <2>4. Parent[group[i + 1]] = group[i]
    BY <1>1, <2>1, <2>2
  <2> HIDE DEF i
  <2>5. Number[group[i + 1]] = Number[group[i]] + 1
    BY <1>1, <2>2, <2>4, TreeAssumption
  <2>6. Number[a] \in Nat
    BY TreeAssumption
  <2> QED
    BY <2>1, <2>3, <2>5, <2>6 DEF i
<1>4. T = Nat
  <2>1. T \in SUBSET Nat
    OBVIOUS
  <2> HIDE DEF T
  <2> QED
    BY <1>2, <1>3, <2>1, AllNaturals
<1>5. \A i \in 1..Len(group) : Number[group[i]] = Number[a] + i
  <2> SUFFICES ASSUME NEW i \in 1..Len(group)
               PROVE  Number[group[i]] = Number[a] + i
    OBVIOUS
  <2>1. i - 1 \in Nat /\ (i - 1) + 1 = i
    BY <1>1
  <2>2. i - 1 \in T
    BY <1>4, <2>1
  <2> QED
    BY <1>1, <2>1, <2>2, TreeAssumption
<1>6. B = {group[i] : i \in 1..Len(group)}
  BY <1>1 DEF Range
<1> HIDE DEF B, T
<1>7. B \subseteq Block /\ group[1] \in B
  BY <1>1, <1>6
<1>8. IsFiniteSet(B)
  <2>1. group \in Surjection(1..Len(group), B)
    <3>1. group \in [1..Len(group) -> B]
      BY <1>1, <1>6
    <3> QED
      BY <1>6, <3>1 DEF Surjection
  <2>2. IsFiniteSet(1..Len(group))
    <3>1. 1 \in Int /\ Len(group) \in Int
      BY <1>1
    <3> QED
      BY <3>1, FS_Interval
  <2> QED
    BY <2>1, <2>2, FS_Surjection
<1>9. \A b, c \in B : Number[b] = Number[c] => b = c
  <2> SUFFICES ASSUME NEW i \in 1..Len(group), NEW j \in 1..Len(group),
                      Number[group[i]] = Number[group[j]]
               PROVE  group[i] = group[j]
    BY <1>6
  <2>1. i = j
    BY <1>1, <1>5, TreeAssumption
  <2> QED
    BY <2>1
<1>10. Lowest(B) = group[1]
  <2>1. Lowest(B) \in B /\ \A c \in B : Number[c] >= Number[Lowest(B)]
    BY <1>7, LowestOf
  <2>2. PICK i \in 1..Len(group) : Lowest(B) = group[i]
    BY <1>6, <2>1
  <2>3. Number[group[1]] >= Number[group[i]]
    BY <1>7, <2>1, <2>2
  <2>4. i = 1
    BY <1>1, <1>5, <2>3, TreeAssumption
  <2> QED
    BY <2>2, <2>4
<1>11. Parent[group[1]] = a
  BY <1>1
<1>12. Highest(B) = group[Len(group)]
  <2>1. Highest(B) \in B /\ \A c \in B : Number[c] <= Number[Highest(B)]
    BY <1>7, <1>8, HighestOf
  <2>2. PICK i \in 1..Len(group) : Highest(B) = group[i]
    BY <1>6, <2>1
  <2>3. Len(group) \in 1..Len(group) /\ group[Len(group)] \in B
    BY <1>1, <1>6
  <2>4. Number[group[Len(group)]] <= Number[group[i]]
    BY <2>1, <2>2, <2>3
  <2>5. /\ Number[group[i]] = Number[a] + i /\ Number[a] \in Nat
        /\ Number[group[Len(group)]] = Number[a] + Len(group)
    BY <1>5, <2>3, TreeAssumption
  <2>6. Number[a] + Len(group) <= Number[a] + i
    BY <2>4, <2>5
  <2>7. i \in 1..Len(group) /\ Len(group) \in Nat /\ Number[a] \in Nat
    BY <1>1, <2>2, <2>5
  <2>8. i = Len(group)
    BY ONLY <2>6, <2>7
  <2> QED
    BY <2>2, <2>8
<1> QED
  BY <1>7, <1>8, <1>9, <1>10, <1>11, <1>12 DEF LiveRun, B

LEMMA ReadRun ==
  ASSUME NEW read, BlockMap(read), IsFiniteSet(DOMAIN read), DOMAIN read # {},
         NEW a, Parent[Lowest(Stored(read))] = a
  PROVE  LiveRun(Stored(read), a)
<1> DEFINE f == [n \in DOMAIN read |-> read[n]]
           B == Stored(read)
<1>1. B \subseteq Block /\ B # {} /\ \A b, c \in B : Number[b] = Number[c] => b = c
  BY DEF BlockMap, Stored
<1>2. IsFiniteSet(B)
  <2>1. f \in [DOMAIN read -> B] /\ \A b \in B : \E n \in DOMAIN read : f[n] = b
    BY DEF Stored
  <2>2. f \in Surjection(DOMAIN read, B)
    BY <2>1 DEF Surjection
  <2> HIDE DEF f, B
  <2> QED
    BY <2>2, FS_Surjection
<1> QED
  BY <1>1, <1>2 DEF LiveRun

LEMMA ItemRun ==
  ASSUME NEW b \in Block
  PROVE  LiveRun({b}, Parent[b])
<1>1. IsFiniteSet({b})
  BY FS_Singleton
<1>2. Lowest({b}) = b
  BY LowestOf
<1> QED
  BY <1>1, <1>2 DEF LiveRun
-----------------------------------------------------------------------------
(***************************************************************************)
(* The state row: while an instance is up, it belongs to the applied block.*)
(***************************************************************************)
StateInv ==
  /\ StateIsItsBlock
  /\ run = "up" /\ store.state # NoRow => store.state.block = mem.applied

LEMMA ActivateShape ==
  ASSUME NEW m, MemoryShape(m), NEW B
  PROVE  /\ MemoryShape(ActivateLive(m, B))
         /\ ActivateLive(m, B).applied = m.applied
         /\ ActivateLive(m, B).open = m.open
         /\ ActivateLive(m, B).cache = m.cache
         /\ ActivateLive(m, B).done = m.done
         /\ m.liveFrom # {} => ActivateLive(m, B).liveFrom # {}
<1> DEFINE boundary == Lowest({b \in B : Start(b) > Start(m.applied)})
           below == Highest({b \in B : Number[b] < Number[boundary]})
           before == IF below = NoBlock THEN m.applied ELSE below
           through == {Max(m.liveThrough \cup {Number[before]})}
<1>1. \/ ActivateLive(m, B) = m
      \/ ActivateLive(m, B) = [m EXCEPT !.liveFrom = {Start(boundary)}, !.liveBefore = before,
                                        !.liveThrough = through]
  BY DEF ActivateLive
<1> DEFINE s == Start(boundary)
<1> HIDE DEF s, before, through
<1>2. \/ ActivateLive(m, B) = m
      \/ ActivateLive(m, B) = [m EXCEPT !.liveFrom = {s}, !.liveBefore = before,
                                        !.liveThrough = through]
  BY <1>1 DEF s
<1> QED
  BY <1>2 DEF MemoryShape

(* The end of a run leaves the shapes of what it resets. *)
LEMMA StopShape ==
  ASSUME Shape, NEW to \in {"down", "failed"}, Stop(to), UNCHANGED <<tip, startHead>>,
         StoreShape(store'), MemoryShape(mem')
  PROVE  Shape' /\ run' # "up"
<1>1. run' \in {"down", "failed"} /\ work' = NoWork /\ recovery' = NoRecovery
      /\ queue' = <<>> /\ feed' = NoBlock
  BY DEF Stop
<1>2. WorkShape(work)'
  BY <1>1, NoWorkShape
<1>3. RecoveryShape(recovery)'
  BY <1>1 DEF RecoveryShape, NoRecovery
<1>4. <<>> \in Seq(Update)
  OBVIOUS
<1> QED
  BY <1>1, <1>2, <1>3, <1>4 DEF Shape

LEMMA LiveCommit ==
  ASSUME Shape, StateInv, run = "up", NEW B, LiveRun(B, mem.applied), NEW next,
         WorkShape(next), CommitLive(B, next)
  PROVE  Shape' /\ StateInv'
<1> DEFINE active == ActivateLive(mem, B)
<1>1. /\ MemoryShape(active) /\ active.applied = mem.applied
      /\ mem.applied \in Block /\ StoreShape(store)
  BY ActivateShape DEF Shape
<1>2. CASE Linked(B)
  <2> DEFINE c == TheLive(B)
  <2>1. /\ c.st = store /\ c.m = active /\ c.B = B /\ c.live
        /\ c.progress = Highest(B)
        /\ \E result : /\ result = Outcome(c, seen, Verdicts(c))
                       /\ store' = result.store /\ mem' = result.mem
    <3>1. PICK result \in Commit(store, active, seen, B, TRUE, {}, store.missed \ B) :
            store' = result.store /\ mem' = result.mem
      BY <1>2 DEF CommitLive
    <3> QED
      BY <3>1, LiveOutcome
  <2> HIDE DEF c, active
  <2>2. work' = next /\ UNCHANGED <<tip, feed, queue, run, startHead, recovery>>
    BY <1>2 DEF CommitLive
  <2>3. /\ B \subseteq Block /\ B # {} /\ IsFiniteSet(B)
        /\ \A b, d \in B : Number[b] = Number[d] => b = d
        /\ Parent[Lowest(B)] = mem.applied
    BY DEF LiveRun
  <2>4. Highest(B) \in Block
    BY <2>3, HighestOf
  <2>5. LogsTo[Highest(B)] = LogsTo[mem.applied] \o ByNumber(B \cap Logged)
    BY ONLY <1>1, <1>2, <2>3, LogsRun
  <2>6. /\ DOMAIN store' = {"batches", "covered", "closed", "state", "missed"}
        /\ MemoryShape(mem')
        /\ mem'.applied = IF c.live THEN c.progress ELSE c.m.applied
        /\ store'.state =
             IF c.live /\ c.st.state # NoRow
             THEN [block |-> c.progress,
                   value |-> c.st.state.value \o ByNumber(c.B \cap Logged)]
             ELSE c.st.state
    <3>1. MemoryShape(c.m)
      BY <1>1, <2>1
    <3> QED
      BY ONLY <2>1, <3>1, OutcomeState
  <2>7. /\ StoreShape(store') /\ mem'.applied = Highest(B)
        /\ store'.state = IF store.state = NoRow THEN NoRow
                          ELSE [block |-> Highest(B),
                                value |-> store.state.value \o ByNumber(B \cap Logged)]
    BY <2>1, <2>4, <2>6 DEF StoreShape
  <2>8. Shape'
    BY <2>2, <2>4, <2>6, <2>7 DEF Shape
  <2>9. StateInv'
    <3>1. CASE store.state = NoRow
      BY <2>7, <3>1 DEF StateInv, StateIsItsBlock
    <3>2. CASE store.state # NoRow
      <4>1. store.state.block = mem.applied /\ store.state.value = LogsTo[mem.applied]
        BY <3>2 DEF StateInv, StateIsItsBlock
      <4>2. store'.state.block = Highest(B) /\ store'.state.value = LogsTo[Highest(B)]
        BY <2>5, <2>7, <3>2, <4>1
      <4> QED
        BY <2>7, <4>2 DEF StateInv, StateIsItsBlock
    <3> QED
      BY <3>1, <3>2
  <2> QED
    BY <2>8, <2>9
<1>3. CASE ~Linked(B)
  <2>1. mem' = active /\ Stop("failed") /\ UNCHANGED <<tip, store, startHead>>
    BY <1>3 DEF CommitLive
  <2> HIDE DEF active
  <2>2. Shape' /\ run' # "up"
    BY <1>1, <2>1, StopShape
  <2> QED
    BY <2>1, <2>2 DEF StateInv, StateIsItsBlock
<1> QED
  BY <1>2, <1>3

LEMMA QuietCommit ==
  ASSUME Shape, StateInv, run = "up", run' = run, NEW B, NEW scanned, NEW missed,
         NEW result \in Quiet(B, scanned, missed), store' = result.store, mem' = result.mem
  PROVE  /\ StoreShape(store') /\ MemoryShape(mem') /\ mem'.applied \in Block
         /\ StateInv'
<1>1. StoreShape(store) /\ MemoryShape(mem) /\ mem.applied \in Block
  BY DEF Shape
<1>0. result \in Quiet(B, scanned, missed)
  OBVIOUS
<1>2. PICK c : /\ c = TheQuiet(B, scanned, missed) /\ result = Outcome(c, seen, Verdicts(c))
               /\ c.st = store /\ c.m = mem /\ c.B = B /\ ~c.live
  BY ONLY <1>0, QuietOutcome
<1>3. MemoryShape(c.m)
  BY <1>1, <1>2
<1>4. /\ DOMAIN result.store = {"batches", "covered", "closed", "state", "missed"}
      /\ MemoryShape(result.mem)
      /\ result.mem.applied = IF c.live THEN c.progress ELSE c.m.applied
      /\ result.store.state =
           IF c.live /\ c.st.state # NoRow
           THEN [block |-> c.progress,
                 value |-> c.st.state.value \o ByNumber(c.B \cap Logged)]
           ELSE c.st.state
  BY ONLY <1>2, <1>3, OutcomeState
<1>5. /\ StoreShape(store') /\ MemoryShape(mem')
      /\ mem'.applied = mem.applied /\ store'.state = store.state
  BY <1>1, <1>2, <1>4 DEF StoreShape
<1> QED
  BY <1>1, <1>5 DEF StateInv, StateIsItsBlock

(* What is not touched by the chain, the feed and the history worker.      *)
LEMMA SameState ==
  ASSUME StateInv, store' = store, mem' = mem, run' = run
  PROVE  StateInv'
  BY DEF StateInv, StateIsItsBlock

LEMMA StoreOnly ==
  ASSUME StateInv, store' = store, run' # "up"
  PROVE  StateInv'
  BY DEF StateInv, StateIsItsBlock

LEMMA AtNumber ==
  ASSUME tip \in Block, NEW n \in Nat, At(n) # NoBlock
  PROVE  At(n) \in Block /\ At(n) \in Chain /\ Number[At(n)] = n
<1> DEFINE B == {b \in Chain : Number[b] = n}
<1>1. B \subseteq Block
  BY PathHeights DEF Chain
<1>2. IsFiniteSet(B)
  <2>1. B \in SUBSET Path[tip]
    BY DEF Chain
  <2> HIDE DEF B
  <2> QED
    BY <2>1, PathFinite, FS_Subset
<1>3. At(n) = Highest(B)
  BY DEF At
<1>4. B # {}
  BY <1>3 DEF Highest
<1>5. Highest(B) \in B
  <2> HIDE DEF B
  <2> QED
    BY <1>1, <1>2, <1>4, HighestOf
<1> QED
  BY <1>1, <1>3, <1>5

LEMMA ReadMissingShape ==
  ASSUME Shape, run = "up", NEW n \in Missing, ReadMissing(n)
  PROVE  WorkShape(work')
<1>1. WorkShape(work) /\ tip \in Block /\ mem.applied \in Block
  BY DEF Shape
<1>2. work.group # <<>> /\ work' = [work EXCEPT !.read = Put(@, {At(n)}), !.alone = TRUE]
      /\ At(n) # NoBlock
  BY DEF ReadMissing, LiveStep, OnItem
<1>3. n \in Nat
  <2>1. Item \in Block
    BY <1>1, <1>2 DEF WorkShape, Item
  <2>2. Number[mem.applied] \in Nat /\ Number[Item] \in Nat
    BY <1>1, <2>1, TreeAssumption
  <2> QED
    BY <1>2, <2>2 DEF Missing
<1>4. At(n) \in Block /\ Number[At(n)] = n
  BY <1>1, <1>2, <1>3, AtNumber
<1> DEFINE b == At(n)
           f == Put(work.read, {b})
<1> HIDE DEF b
<1>5. Heights({b}) = {n} /\ b \in Block
  BY <1>4 DEF Heights, b
<1>6. DOMAIN f = DOMAIN work.read \cup {n} /\ f[n] = b
      /\ \A m \in DOMAIN work.read : m # n => f[m] = work.read[m]
  <2>1. (CHOOSE c \in {b} : Number[c] = n) = b
    BY <1>4 DEF b
  <2> QED
    BY <1>5, <2>1 DEF Put
<1> HIDE DEF f
<1>7. BlockMap(f)
  BY <1>1, <1>3, <1>4, <1>6 DEF BlockMap, WorkShape, b
<1>8. IsFiniteSet(DOMAIN f)
  BY <1>1, <1>6, FS_AddElement DEF WorkShape
<1>9. work' = [work EXCEPT !.read = f, !.alone = TRUE]
  BY <1>2 DEF f, b
<1> QED
  BY <1>1, <1>7, <1>8, <1>9 DEF WorkShape

LEMMA StartUpState ==
  ASSUME Shape, StateInv, StartUp
  PROVE  Shape' /\ StateInv'
<1> DEFINE row == store.state.block
           resumes == plan.start = "checkpoint" /\ row # NoBlock /\ row \in Chain
           first == IF resumes THEN store ELSE Seeded(store, startHead)
           applied == IF resumes THEN row ELSE startHead
           restored == RestorePartitions(first, applied)
           from == Disowned(restored)
           kept == Invalidate(restored, Min(from))
           valid == IF from = {} THEN restored ELSE Seeded(kept, startHead)
           started == [mem EXCEPT !.applied = applied, !.done = DOMAIN restored.closed,
                                  !.liveThrough = IF plan.history = "none" THEN @
                                                   ELSE {Number[startHead]}]
<1>1. /\ StoreShape(store) /\ MemoryShape(mem) /\ startHead \in Block /\ StateIsItsBlock
  BY DEF Shape, StateInv
<1>2. /\ StoreShape(first) /\ applied \in Block
      /\ first.state # NoRow => /\ first.state.block = applied
                                /\ first.state.value = LogsTo[applied]
  <2>1. CASE resumes
    <3>1. store.state # NoRow
      BY <2>1 DEF NoRow
    <3> QED
      BY <1>1, <2>1, <3>1 DEF StoreShape, StateIsItsBlock
  <2>2. CASE ~resumes
    <3>1. first = [store EXCEPT !.state = [block |-> startHead, value |-> LogsTo[startHead]]]
          /\ applied = startHead
      BY <2>2 DEF Seeded
    <3> HIDE DEF first, applied
    <3> QED
      BY <1>1, <3>1 DEF StoreShape
  <2> QED
    BY <2>1, <2>2
<1> HIDE DEF first, applied
<1>3. StoreShape(restored) /\ restored.state = first.state
  BY <1>2 DEF RestorePartitions, StoreShape
<1> HIDE DEF restored
<1>4. DOMAIN kept = {"batches", "covered", "closed", "state", "missed"}
  BY DEF Invalidate
<1> HIDE DEF from, kept
<1>5. CASE from = {}
  <2>1. store' = restored /\ mem' = started
    BY <1>5 DEF StartUp, from, restored, first, applied
  <2>2. MemoryShape(mem') /\ mem'.applied = applied
    BY <1>1, <2>1 DEF MemoryShape
  <2>3. run' = "up" /\ UNCHANGED <<tip, feed, queue, startHead, work, recovery>>
    BY DEF StartUp
  <2> HIDE DEF started
  <2> QED
    BY <1>2, <1>3, <2>1, <2>2, <2>3 DEF Shape, StateInv, StateIsItsBlock
<1>6. CASE from # {}
  <2>1. /\ store' = Seeded(kept, startHead)
        /\ mem' = [started EXCEPT !.applied = startHead, !.open = NoRows,
                                  !.cache = FreshMemory.cache,
                                  !.done = DOMAIN valid.closed]
    BY <1>6 DEF StartUp, from, restored, first, applied, kept
  <2>2. DOMAIN started = DOMAIN mem
    OBVIOUS
  <2> HIDE DEF started, valid
  <2>3. MemoryShape(mem') /\ mem'.applied = startHead
    BY <1>1, <2>1, <2>2 DEF MemoryShape
  <2>4. store' = [kept EXCEPT !.state = [block |-> startHead, value |-> LogsTo[startHead]]]
    BY <2>1 DEF Seeded
  <2>5. /\ StoreShape(store') /\ store'.state.block = startHead
        /\ store'.state.value = LogsTo[startHead]
    BY <1>1, <1>4, <2>4 DEF StoreShape
  <2>6. run' = "up" /\ UNCHANGED <<tip, feed, queue, startHead, work, recovery>>
    BY DEF StartUp
  <2> QED
    BY <1>1, <2>3, <2>5, <2>6 DEF Shape, StateInv, StateIsItsBlock
<1> QED
  BY <1>5, <1>6

LEMMA OfferState ==
  ASSUME Shape, StateInv, NEW update \in Update, Offer(update)
  PROVE  Shape' /\ StateInv'
<1>1. /\ queue' = Append(queue, update) /\ feed' = update.block
      /\ UNCHANGED <<tip, store, mem, run, startHead, work, recovery>>
  BY DEF Offer
<1>2. update.block \in Block
  BY DEF Update
<1>3. queue' \in Seq(Update)
  BY <1>1 DEF Shape
<1>4. Shape'
  BY <1>1, <1>2, <1>3 DEF Shape
<1> QED
  BY <1>1, <1>4, SameState

LEMMA FeedState ==
  ASSUME Shape, StateInv, Feed
  PROVE  Shape' /\ StateInv'
<1>1. \A b \in Block : ApplyOf(b) \in Update /\ RevertTo(b) \in Update
  BY DEF ApplyOf, RevertTo, Update
<1>2. Chain \subseteq Block
  BY PathHeights DEF Shape, Chain
<1>3. CASE FeedFirst
  <2>1. PICK b \in Chain : Offer(ApplyOf(b)) \/ Offer(RevertTo(b))
    BY <1>3 DEF FeedFirst
  <2> QED
    BY <1>1, <1>2, <2>1, OfferState
<1>4. CASE FeedNext
  <2>1. PICK b \in Chain : Offer(ApplyOf(b))
    BY <1>4 DEF FeedNext
  <2> QED
    BY <1>1, <1>2, <2>1, OfferState
<1>5. CASE FeedRevert
  <2> DEFINE B == Path[feed] \cap Chain
  <2>1. B # {} /\ Offer(RevertTo(Highest(B)))
    BY <1>5 DEF FeedRevert
  <2>2. B \subseteq Block /\ IsFiniteSet(B)
    <3>1. B \in SUBSET Path[tip]
      BY DEF Chain
    <3>2. IsFiniteSet(Path[tip])
      BY PathFinite DEF Shape
    <3> QED
      BY <1>2, <3>1, <3>2, FS_Subset
  <2>3. Highest(B) \in Block
    <3> HIDE DEF B
    <3> QED
      BY <2>1, <2>2, HighestOf
  <2> HIDE DEF B
  <2> QED
    BY <1>1, <2>1, <2>3, OfferState
<1> QED
  BY <1>3, <1>4, <1>5 DEF Feed

LEMMA LiveState ==
  ASSUME Shape, StateInv, LiveGroup \/ CommitMissing \/ CommitItem
  PROVE  Shape' /\ StateInv'
<1>1. /\ run = "up" /\ mem.applied \in Block /\ WorkShape(work) /\ work.group # <<>>
  BY DEF LiveGroup, CommitMissing, CommitItem, LiveStep, OnItem, WorkerReady, Shape
<1>2. Item \in Block
  BY <1>1 DEF WorkShape, Item
<1>3. CASE LiveGroup
  <2>1. LiveRun(Range(work.group), mem.applied)
    BY <1>1, <1>3, GroupRun DEF LiveGroup, IsGroup, WorkShape
  <2>2. WorkShape(Load(work.todo))
    BY <1>1, LoadShape DEF WorkShape
  <2> QED
    BY <1>1, <1>3, <2>1, <2>2, LiveCommit DEF LiveGroup
<1>4. CASE CommitMissing
  <2> DEFINE next == [work EXCEPT !.read = EmptyMap]
  <2>1. WorkShape(next)
    BY <1>1, EmptyMapShape DEF WorkShape
  <2>2. DOMAIN work.read # {} /\ Parent[Lowest(Stored(work.read))] = mem.applied
    BY <1>4 DEF CommitMissing, GapRead
  <2>3. LiveRun(Stored(work.read), mem.applied)
    BY <1>1, <2>2, ReadRun DEF WorkShape
  <2>4. CommitLive(Stored(work.read), next)
    BY <1>4 DEF CommitMissing
  <2> HIDE DEF next
  <2> QED
    BY <1>1, <2>1, <2>3, <2>4, LiveCommit
<1>5. CASE CommitItem
  <2>1. LiveRun({Item}, mem.applied) /\ CommitLive({Item}, Finished(work))
    BY <1>2, <1>5, ItemRun DEF CommitItem
  <2> QED
    BY <1>1, <2>1, FinishedShape, LiveCommit
<1> QED
  BY <1>3, <1>4, <1>5

(* The other steps of the worker that touch neither the store nor memory.  *)
LEMMA WorkState ==
  ASSUME Shape, StateInv,
         \/ Take \/ Skip \/ (\E n \in Missing : ReadMissing(n))
         \/ Recover \/ ReadLatest \/ Search \/ Revert
  PROVE  Shape' /\ StateInv'
<1>1. CASE Take
  <2>1. WorkShape(work') /\ queue' = <<>>
    BY <1>1, LoadShape DEF Take, Shape
  <2>2. <<>> \in Seq(Update)
    OBVIOUS
  <2>3. UNCHANGED <<tip, feed, store, mem, run, startHead, recovery>>
    BY <1>1 DEF Take
  <2> QED
    BY <2>1, <2>2, <2>3, SameState DEF Shape
<1>2. CASE Skip
  <2>1. WorkShape(work')
    BY <1>2, FinishedShape DEF Skip, Shape
  <2>2. UNCHANGED <<tip, feed, queue, store, mem, run, startHead, recovery>>
    BY <1>2 DEF Skip
  <2> QED
    BY <2>1, <2>2, SameState DEF Shape
<1>3. CASE \E n \in Missing : ReadMissing(n)
  <2>1. PICK n \in Missing : ReadMissing(n)
    BY <1>3
  <2>2. /\ run = "up"
        /\ UNCHANGED <<tip, feed, queue, store, mem, run, startHead, recovery>>
    BY <2>1 DEF ReadMissing, LiveStep, OnItem, WorkerReady
  <2>3. WorkShape(work')
    BY <2>1, <2>2, ReadMissingShape
  <2> QED
    BY <2>2, <2>3, SameState DEF Shape
<1>4. CASE Recover
  <2>1. recovery' = [NoRecovery EXCEPT !.step = "latest"]
    BY <1>4 DEF Recover
  <2>2. RecoveryShape(recovery')
    BY <2>1 DEF RecoveryShape, NoRecovery
  <2>3. UNCHANGED <<tip, feed, queue, store, mem, run, startHead, work>>
    BY <1>4 DEF Recover
  <2> QED
    BY <2>2, <2>3, SameState DEF Shape
<1>5. CASE ReadLatest
  <2>1. recovery' = [recovery EXCEPT !.step = "search", !.latest = tip]
    BY <1>5 DEF ReadLatest
  <2>2. RecoveryShape(recovery')
    BY <2>1 DEF RecoveryShape, Shape
  <2>3. UNCHANGED <<tip, feed, queue, store, mem, run, startHead, work>>
    BY <1>5 DEF ReadLatest
  <2> QED
    BY <2>2, <2>3, SameState DEF Shape
<1>6. CASE Search
  <2> DEFINE recent == Recent(Number[mem.applied])
             ancestor == Highest({b \in recent : Number[b] <= Number[recovery.latest]
                                                   /\ b \in Chain})
             forkTime == ForkTime(recent, ancestor, recovery.latest)
  <2>1. \/ Stop("failed") /\ UNCHANGED <<tip, store, mem, startHead>>
        \/ /\ recovery' = [recovery EXCEPT !.step = "invalidate", !.ancestor = ancestor,
                             !.forkTime = forkTime]
           /\ UNCHANGED <<tip, feed, queue, store, mem, run, startHead, work>>
    BY <1>6 DEF Search
  <2>2. recovery.step = "search"
    BY <1>6 DEF Search
  <2> HIDE DEF ancestor, forkTime
  <2>3. CASE Stop("failed") /\ UNCHANGED <<tip, store, mem, startHead>>
    <3>1. StoreShape(store') /\ MemoryShape(mem')
      BY <2>3 DEF Shape
    <3>2. Shape' /\ run' # "up"
      BY <2>3, <3>1, StopShape
    <3> QED
      BY <2>3, <3>2, StoreOnly
  <2>4. CASE /\ recovery' = [recovery EXCEPT !.step = "invalidate", !.ancestor = ancestor,
                               !.forkTime = forkTime]
             /\ UNCHANGED <<tip, feed, queue, store, mem, run, startHead, work>>
    <3>1. RecoveryShape(recovery')
      BY <2>2, <2>4 DEF RecoveryShape, Shape
    <3> QED
      BY <2>4, <3>1, SameState DEF Shape
  <2> QED
    BY <2>1, <2>3, <2>4
<1>7. CASE Revert
  <2> DEFINE b == work.todo[1].block
             forkTime == ForkTime(Recent(Number[b] + 1), b, b)
  <2>1. /\ recovery' = [step |-> "invalidate", latest |-> b, ancestor |-> b,
                        forkTime |-> forkTime]
        /\ work' = [work EXCEPT !.todo = Tail(@)]
        /\ work.todo # <<>> /\ work.group = <<>>
        /\ UNCHANGED <<tip, feed, queue, store, mem, run, startHead>>
    BY <1>7 DEF Revert
  <2>2. WorkShape(work) /\ work.todo \in Seq(Update)
    BY DEF Shape, WorkShape
  <2>3. b \in Block
    <3>1. work.todo[1] \in Update
      BY <2>1, <2>2
    <3> QED
      BY <3>1 DEF Update
  <2>4. Tail(work.todo) \in Seq(Update)
    BY <2>1, <2>2
  <2> HIDE DEF b, forkTime
  <2>5. RecoveryShape(recovery')
    BY <2>1, <2>3 DEF RecoveryShape
  <2>6. WorkShape(work')
    BY <2>1, <2>2, <2>4 DEF WorkShape
  <2> QED
    BY <2>1, <2>5, <2>6, SameState DEF Shape
<1> QED
  BY <1>1, <1>2, <1>3, <1>4, <1>5, <1>6, <1>7

LEMMA InvalidatedShape ==
  /\ DOMAIN Invalidated = {"batches", "covered", "closed", "state", "missed"}
  /\ Invalidated.state = NoRow
  BY DEF Invalidated, Invalidate

LEMMA RecoveryState ==
  ASSUME Shape, StateInv, Reseed \/ Rebuild
  PROVE  Shape' /\ StateInv'
<1>1. CASE Reseed
  <2> DEFINE b == recovery.latest
             through == IF plan.history = "none" THEN {} ELSE {Number[b]}
             row == [block |-> b, value |-> LogsTo[b]]
  <2>1. /\ run = "up" /\ recovery.step = "invalidate"
        /\ store' = [Invalidated EXCEPT !.state = row]
        /\ mem' = [FreshMemory EXCEPT !.applied = b, !.liveThrough = through]
        /\ recovery' = [recovery EXCEPT !.step = "rebuild"]
        /\ UNCHANGED <<tip, feed, queue, run, startHead, work>>
    BY <1>1 DEF Reseed, Seeded
  <2>2. b \in Block /\ row.block = b /\ row.value = LogsTo[b]
    BY <2>1 DEF Shape, RecoveryShape
  <2>3. DOMAIN FreshMemory = {"applied", "open", "cache", "done", "liveFrom", "liveBefore",
                              "liveThrough"}
    BY DEF FreshMemory
  <2>4. RecoveryShape(recovery')
    BY <2>1, <2>2 DEF RecoveryShape, Shape
  <2> HIDE DEF b, through, row
  <2>5. MemoryShape(mem') /\ mem'.applied = b
    BY <2>1, <2>3 DEF MemoryShape
  <2>6. StoreShape(store') /\ store'.state = row
    BY <2>1, <2>2, InvalidatedShape DEF StoreShape
  <2>7. Shape'
    BY <2>1, <2>2, <2>4, <2>5, <2>6 DEF Shape
  <2> QED
    BY <2>2, <2>5, <2>6, <2>7 DEF StateInv, StateIsItsBlock
<1>2. CASE Rebuild
  <2> DEFINE cut == IF recovery.forkTime > Interval THEN recovery.forkTime - Interval ELSE 0
             retained == {b \in Stored(store.batches) : Time[b] >= cut}
             next == IF work.group = <<>> THEN Load(work.todo) ELSE Finished(work)
  <2>1. /\ run = "up"
        /\ \/ Stop("failed") /\ UNCHANGED <<tip, store, mem, startHead>>
           \/ /\ \/ UNCHANGED <<store, mem>>
                 \/ \E result \in Commit(store, mem, seen, retained, FALSE, {}, store.missed) :
                      store' = result.store /\ mem' = result.mem
              /\ recovery' = NoRecovery /\ work' = next
              /\ UNCHANGED <<tip, feed, queue, run, startHead>>
    BY <1>2 DEF Rebuild
  <2>2. /\ StoreShape(store) /\ MemoryShape(mem) /\ mem.applied \in Block /\ WorkShape(next)
    BY <2>1, LoadShape, FinishedShape DEF Shape, WorkShape
  <2> HIDE DEF retained, next
  <2>3. CASE Stop("failed") /\ UNCHANGED <<tip, store, mem, startHead>>
    <3>1. Shape' /\ run' # "up"
      BY <2>2, <2>3, StopShape
    <3> QED
      BY <2>3, <3>1, StoreOnly
  <2>4. ASSUME /\ recovery' = NoRecovery /\ work' = next
               /\ UNCHANGED <<tip, feed, queue, run, startHead>>,
               StoreShape(store'), MemoryShape(mem'), mem'.applied \in Block
        PROVE  Shape'
    <3>1. RecoveryShape(recovery')
      BY <2>4 DEF RecoveryShape, NoRecovery
    <3> QED
      BY <2>2, <2>4, <3>1 DEF Shape
  <2>5. CASE /\ UNCHANGED <<store, mem>>
             /\ recovery' = NoRecovery /\ work' = next
             /\ UNCHANGED <<tip, feed, queue, run, startHead>>
    BY <2>2, <2>4, <2>5, SameState
  <2>6. CASE /\ \E result \in Commit(store, mem, seen, retained, FALSE, {}, store.missed) :
                  store' = result.store /\ mem' = result.mem
             /\ recovery' = NoRecovery /\ work' = next
             /\ UNCHANGED <<tip, feed, queue, run, startHead>>
    <3>1. PICK result \in Quiet(retained, {}, store.missed) :
            store' = result.store /\ mem' = result.mem
      BY <2>6 DEF Quiet
    <3>2. /\ StoreShape(store') /\ MemoryShape(mem') /\ mem'.applied \in Block /\ StateInv'
      BY <2>1, <2>6, <3>1, QuietCommit
    <3> QED
      BY <2>4, <2>6, <3>2
  <2> QED
    BY <2>1, <2>3, <2>5, <2>6
<1> QED
  BY <1>1, <1>2

(* Failures: a read that fails, a start that fails, a new process.         *)
LEMMA FailureState ==
  ASSUME Shape, StateInv, Run \/ StartFails \/ Restart \/ SourceFails \/ SeedFails
  PROVE  Shape' /\ StateInv'
<1> DEFINE again == [work EXCEPT !.at = 1, !.read = EmptyMap, !.alone = FALSE,
                                 !.retries = @ + 1]
<1>1. StoreShape(store) /\ MemoryShape(mem) /\ WorkShape(work)
  BY DEF Shape
<1>2. WorkShape(again)
  BY <1>1, EmptyMapShape DEF WorkShape
<1>3. RecoveryShape(NoRecovery)
  BY DEF RecoveryShape, NoRecovery
<1>4. MemoryShape(FreshMemory)
  BY DEF MemoryShape, FreshMemory
<1> HIDE DEF again
<1>5. CASE Run
  <2>1. /\ run' = "starting" /\ startHead' = tip /\ queue' = <<>> /\ feed' = NoBlock
        /\ mem' = [mem EXCEPT !.done = @ \cup DOMAIN store.closed]
        /\ UNCHANGED <<tip, store, work, recovery>>
    BY <1>5 DEF Run
  <2>2. MemoryShape(mem') /\ queue' \in Seq(Update)
    BY <1>1, <2>1 DEF MemoryShape
  <2>3. Shape'
    BY <2>1, <2>2 DEF Shape
  <2> QED
    BY <2>1, <2>3, StoreOnly
<1>6. CASE StartFails
  <2>1. Stop("failed") /\ UNCHANGED <<tip, store, mem, startHead>>
    BY <1>6 DEF StartFails
  <2>2. Shape' /\ run' # "up"
    BY <1>1, <2>1, StopShape
  <2> QED
    BY <2>1, <2>2, StoreOnly
<1>7. CASE Restart
  <2>1. Stop("down") /\ mem' = FreshMemory /\ UNCHANGED <<tip, store, startHead>>
    BY <1>7 DEF Restart
  <2>2. Shape' /\ run' # "up"
    BY <1>1, <1>4, <2>1, StopShape
  <2> QED
    BY <2>1, <2>2, StoreOnly
<1>8. CASE SourceFails
  <2>1. /\ UNCHANGED <<tip, store, mem, startHead>>
        /\ \/ work' = again /\ recovery' = NoRecovery /\ UNCHANGED <<feed, queue, run>>
           \/ Stop("failed")
    BY <1>8 DEF SourceFails, again
  <2>2. CASE work' = again /\ recovery' = NoRecovery /\ UNCHANGED <<feed, queue, run>>
    <3>1. Shape'
      BY <1>2, <1>3, <2>1, <2>2 DEF Shape
    <3> QED
      BY <2>1, <2>2, <3>1, SameState
  <2>3. CASE Stop("failed")
    <3>1. Shape' /\ run' # "up"
      BY <1>1, <2>1, <2>3, StopShape
    <3> QED
      BY <2>1, <3>1, StoreOnly
  <2> QED
    BY <2>1, <2>2, <2>3
<1>9. CASE SeedFails
  <2>1. /\ run = "up" /\ store' = Invalidated
        /\ mem' = [FreshMemory EXCEPT !.applied = mem.applied]
        /\ UNCHANGED <<tip, startHead>>
        /\ \/ work' = again /\ recovery' = NoRecovery /\ UNCHANGED <<feed, queue, run>>
           \/ Stop("failed")
    BY <1>9 DEF SeedFails, again
  <2>2. StoreShape(store') /\ store'.state = NoRow
    BY <2>1, InvalidatedShape DEF StoreShape
  <2>3. MemoryShape(mem') /\ mem'.applied = mem.applied
    BY <1>4, <2>1 DEF MemoryShape
  <2>4. StateInv'
    BY <2>2 DEF StateInv, StateIsItsBlock
  <2>5. CASE work' = again /\ recovery' = NoRecovery /\ UNCHANGED <<feed, queue, run>>
    BY <1>2, <1>3, <2>1, <2>2, <2>3, <2>4, <2>5 DEF Shape
  <2>6. CASE Stop("failed")
    BY <2>1, <2>2, <2>3, <2>4, <2>6, StopShape
  <2> QED
    BY <2>1, <2>5, <2>6
<1> QED
  BY <1>5, <1>6, <1>7, <1>8, <1>9

LEMMA HistoryKeepsState ==
  ASSUME Shape, StateInv, History \/ ApplyRetention
  PROVE  Shape' /\ StateInv'
<1>1. StoreShape(store) /\ MemoryShape(mem) /\ (run = "up" => mem.applied \in Block)
  BY DEF Shape
<1>2. CASE HistoryPick \/ HistoryLogs \/ HistoryHeaders
  <2>1. UNCHANGED <<tip, feed, queue, store, mem, run, startHead, work, recovery>>
    BY <1>2 DEF HistoryPick, HistoryLogs, HistoryHeaders, HistoryUnchanged
  <2> QED
    BY <2>1, SameState DEF Shape
<1>3. CASE HistoryCommit
  <2> DEFINE scanned == history.from..history.through
             missed == (store.missed \ history.logs) \cup PassedOver
  <2>1. /\ run = "up" /\ UNCHANGED <<tip, feed, queue, run, startHead, work, recovery>>
        /\ \/ UNCHANGED <<store, mem>>
           \/ \E result \in Commit(store, mem, seen, history.blocks, FALSE, scanned, missed) :
                store' = result.store /\ mem' = result.mem
    BY <1>3 DEF HistoryCommit, HistoryUnchanged
  <2> HIDE DEF scanned, missed
  <2>2. CASE UNCHANGED <<store, mem>>
    BY <2>1, <2>2, SameState DEF Shape
  <2>3. CASE \E result \in Commit(store, mem, seen, history.blocks, FALSE, scanned, missed) :
               store' = result.store /\ mem' = result.mem
    <3>1. PICK result \in Quiet(history.blocks, scanned, missed) :
            store' = result.store /\ mem' = result.mem
      BY <2>3 DEF Quiet
    <3>2. /\ StoreShape(store') /\ MemoryShape(mem') /\ mem'.applied \in Block /\ StateInv'
      BY <2>1, <3>1, QuietCommit
    <3> QED
      BY <2>1, <3>2 DEF Shape
  <2> QED
    BY <2>1, <2>2, <2>3
<1>4. CASE ApplyRetention
  <2> DEFINE fromBlock == StoreFrom(mem.applied)
             fromTime == Time[At(HistoryFrom(mem.applied))]
             open == Restrict(mem.open, {s \in DOMAIN mem.open : EndOf(s) > fromTime})
             cache == Restrict(mem.cache, {s \in DOMAIN mem.cache : s >= fromTime})
             done == {s \in mem.done : s >= fromTime}
  <2>1. /\ store' = Retain(store, fromBlock, fromTime)
        /\ mem' = [mem EXCEPT !.open = open, !.cache = cache, !.done = done]
        /\ UNCHANGED <<tip, feed, queue, run, startHead, work, recovery>>
    BY <1>4 DEF ApplyRetention
  <2> HIDE DEF fromBlock, fromTime, open, cache, done
  <2>2. MemoryShape(mem') /\ mem'.applied = mem.applied
    BY <1>1, <2>1 DEF MemoryShape
  <2>3. StoreShape(store') /\ store'.state = store.state
    BY <1>1, <2>1 DEF Retain, StoreShape
  <2> QED
    BY <1>1, <2>1, <2>2, <2>3 DEF Shape, StateInv, StateIsItsBlock
<1> QED
  BY <1>2, <1>3, <1>4 DEF History

(* The shape and the state row are kept by every step.                     *)
LEMMA StateStep ==
  ASSUME Shape, StateInv, [Next]_vars
  PROVE  Shape' /\ StateInv'
<1>1. CASE \E b \in Block : Move(b)
  <2>1. /\ tip' \in Block
        /\ UNCHANGED <<feed, queue, store, mem, run, startHead, work, recovery>>
    BY <1>1 DEF Move
  <2> QED
    BY <2>1, SameState DEF Shape
<1>2. CASE StartUp
  BY <1>2, StartUpState
<1>3. CASE Run \/ StartFails \/ Restart \/ SourceFails \/ SeedFails
  BY <1>3, FailureState
<1>4. CASE Feed
  BY <1>4, FeedState
<1>5. CASE Worker
  BY <1>5, LiveState, WorkState, RecoveryState DEF Worker
<1>6. CASE History \/ ApplyRetention
  BY <1>6, HistoryKeepsState
<1>7. CASE UNCHANGED vars
  BY <1>7, SameState DEF vars, Shape
<1> QED
  BY <1>1, <1>2, <1>3, <1>4, <1>5, <1>6, <1>7 DEF Next

LEMMA StateStart == Init => Shape /\ StateInv
<1> SUFFICES ASSUME Init
             PROVE  Shape /\ StateInv
  OBVIOUS
<1>1. RecoveryShape(NoRecovery) /\ MemoryShape(FreshMemory)
  BY DEF RecoveryShape, NoRecovery, MemoryShape, FreshMemory
<1>2. StoreShape(EmptyStore) /\ EmptyStore.state = NoRow
  BY DEF StoreShape, EmptyStore
<1>3. <<>> \in Seq(Update)
  OBVIOUS
<1> QED
  BY <1>1, <1>2, <1>3, NoWorkShape, InstanceAssumption
     DEF Init, Shape, StateInv, StateIsItsBlock

THEOREM StateInvariance == Spec => [](Shape /\ StateInv)
<1>1. (Shape /\ StateInv) /\ [Next]_vars => (Shape /\ StateInv)'
  BY StateStep
<1> QED
  BY <1>1, StateStart, PTL DEF Spec

(* The durable state row is what seeding at its block would read: over     *)
(* groups and single blocks, gap reads, retries, recoveries, restarts and  *)
(* whatever the history worker commits, no log of the chain below the row  *)
(* is folded in twice or left out (indexer/model.ts, commit, liveGroup and *)
(* recover).                                                               *)
THEOREM StateIsItsBlockHolds == Spec => []StateIsItsBlock
<1>1. Shape /\ StateInv => StateIsItsBlock
  BY DEF StateInv
<1> QED
  BY <1>1, StateInvariance, PTL
-----------------------------------------------------------------------------
(***************************************************************************)
(* What a consumer of watch() holds.  An open row is hidden from read()    *)
(* once the applied block has passed its end; the argument is that a       *)
(* commit never leaves such a row: it looks at every open partition that   *)
(* it passes, and finds there the batches the row was made of.             *)
(***************************************************************************)
LEMMA Quotient ==
  ASSUME NEW t \in Nat, NEW n \in Nat, n > 0
  PROVE  /\ t \div n \in Nat
         /\ (t \div n) * n <= t /\ t < (t \div n) * n + n
<1>1. t \div n \in Nat
  OBVIOUS
<1>2. (t \div n) * n <= t
  OBVIOUS
<1>3. t < (t \div n) * n + n
  OBVIOUS
<1> QED
  BY <1>1, <1>2, <1>3

LEMMA PartitionTimes ==
  ASSUME NEW s \in Starts, NEW b \in Block
  PROVE  /\ s \in Nat /\ EndOf(s) \in Nat /\ Time[b] \in Nat /\ Start(b) \in Nat
         /\ EndOf(s) > Time[b] => Start(b) <= s
         /\ EndOf(s) <= Time[b] => s <= Start(b)
<1>1. Interval \in Nat /\ Interval > 0 /\ Time[b] \in Nat
  BY StoreAssumption
<1> DEFINE last == Max({Time[c] : c \in Block}) \div Interval
<1>2. Starts = {k * Interval : k \in 0..last}
  BY Zenon DEF Starts
<1> HIDE DEF last
<1>3. PICK k \in Nat : s = k * Interval
  <2>1. PICK k \in 0..last : s = k * Interval
    BY <1>2
  <2> QED
    BY <2>1
<1> DEFINE q == Time[b] \div Interval
<1>4. q \in Nat /\ q * Interval <= Time[b] /\ Time[b] < q * Interval + Interval
  BY ONLY <1>1, Quotient
<1>5. Start(b) = q * Interval /\ EndOf(s) = s + Interval
  BY DEF Start, EndOf
<1> HIDE DEF q
<1>6. s \in Nat /\ q * Interval \in Nat
  BY <1>1, <1>3, <1>4
<1>7. ASSUME NEW i \in Nat, NEW j \in Nat, i < j
      PROVE  i * Interval + Interval <= j * Interval
  <2>1. PICK d \in Nat : j = i + 1 + d
    <3>1. j - (i + 1) \in Nat /\ j = i + 1 + (j - (i + 1))
      BY <1>7
    <3> QED
      BY <3>1
  <2>2. j * Interval = i * Interval + Interval + d * Interval
    BY <1>1, <2>1
  <2>3. d * Interval \in Nat /\ i * Interval \in Nat
    BY <1>1, <2>1
  <2> QED
    BY <1>1, <2>2, <2>3
<1>8. q < k \/ q = k \/ k < q
  BY <1>3, <1>4
<1> DEFINE Q == q * Interval
<1>9. /\ Q \in Nat /\ Q <= Time[b] /\ Time[b] < Q + Interval
      /\ (k < q => s + Interval <= Q) /\ (q < k => Q + Interval <= s) /\ (q = k => Q = s)
  BY <1>3, <1>4, <1>6, <1>7
<1> HIDE DEF Q
<1>10. /\ s + Interval > Time[b] => Q <= s
       /\ s + Interval <= Time[b] => s <= Q
  BY <1>1, <1>6, <1>8, <1>9
<1> QED
  BY <1>1, <1>5, <1>6, <1>9, <1>10 DEF Q

(* The rows a commit has, and those it looks at. *)
RowsKept(c) ==
  {s \in DOMAIN c.combined : Verdict(c, s) = "open"}
    \cup {s \in DOMAIN c.m.open :
            ~(s \in DOMAIN c.combined /\ Verdict(c, s) \in {"closed", "drop"})}

LEMMA OutcomeRows ==
  ASSUME NEW c
  PROVE  /\ DOMAIN ClosedRows(c, Verdicts(c)) =
              {s \in DOMAIN c.combined : Verdict(c, s) = "closed"}
         /\ DOMAIN OpenRows(c, Verdicts(c)) =
              {s \in DOMAIN c.combined : Verdict(c, s) = "open"}
         /\ DOMAIN KeptRows(c, Verdicts(c)) = RowsKept(c)
         /\ \A s \in DOMAIN OpenRows(c, Verdicts(c)) :
              KeptRows(c, Verdicts(c))[s] = OpenRows(c, Verdicts(c))[s]
         /\ \A s \in RowsKept(c) \ DOMAIN OpenRows(c, Verdicts(c)) :
              KeptRows(c, Verdicts(c))[s] = c.m.open[s]
         /\ Withdrawn(c, Verdicts(c)) =
              {s \in DOMAIN c.combined \cap DOMAIN c.m.open : Verdict(c, s) = "drop"}
         /\ DOMAIN Verdicts(c) = DOMAIN c.combined
<1> DEFINE v == Verdicts(c)
           open == OpenRows(c, v)
           old == DOMAIN c.m.open \ (Rule(v, "closed") \cup Withdrawn(c, v))
<1>1. DOMAIN v = DOMAIN c.combined /\ \A s \in DOMAIN c.combined : v[s] = Verdict(c, s)
  BY DEF Verdicts
<1> HIDE DEF v
<1>2. \A x : Rule(v, x) = {s \in DOMAIN c.combined : Verdict(c, s) = x}
  BY <1>1 DEF Rule
<1>3. /\ DOMAIN ClosedRows(c, v) = Rule(v, "closed")
      /\ DOMAIN open = Rule(v, "open")
      /\ Withdrawn(c, v) = Rule(v, "drop") \cap DOMAIN c.m.open
  BY DEF ClosedRows, OpenRows, Withdrawn
<1>4. /\ DOMAIN KeptRows(c, v) = DOMAIN open \cup old
      /\ \A s \in DOMAIN open : KeptRows(c, v)[s] = open[s]
      /\ \A s \in old \ DOMAIN open : KeptRows(c, v)[s] = c.m.open[s]
  <2> HIDE DEF open, old
  <2>1. KeptRows(c, v) = Over(open, Restrict(c.m.open, old))
    BY DEF KeptRows, open, old
  <2> QED
    BY <2>1 DEF Over, Restrict
<1>5. old = {s \in DOMAIN c.m.open :
               ~(s \in DOMAIN c.combined /\ Verdict(c, s) \in {"closed", "drop"})}
  BY <1>2, <1>3
<1>6. RowsKept(c) = DOMAIN open \cup old
  BY <1>2, <1>3, <1>5 DEF RowsKept
<1> HIDE DEF open, old
<1>7. \A s \in RowsKept(c) \ DOMAIN open : KeptRows(c, v)[s] = c.m.open[s]
  BY <1>4, <1>6
<1>8. /\ DOMAIN ClosedRows(c, v) = {s \in DOMAIN c.combined : Verdict(c, s) = "closed"}
      /\ DOMAIN open = {s \in DOMAIN c.combined : Verdict(c, s) = "open"}
      /\ Withdrawn(c, v) =
           {s \in DOMAIN c.combined \cap DOMAIN c.m.open : Verdict(c, s) = "drop"}
  BY <1>2, <1>3
<1> QED
  BY <1>1, <1>4, <1>6, <1>7, <1>8 DEF v, open

(* What a verdict needs, and what it may not leave alone. *)
LEMMA Verdicted ==
  ASSUME NEW c, NEW s \in DOMAIN c.combined
  PROVE  /\ Verdict(c, s) = "open" => /\ c.live /\ c.m.liveFrom # {}
                                      /\ DOMAIN c.combined[s] # {} /\ ~Closes(c, s)
         /\ c.live /\ c.m.liveFrom # {} /\ DOMAIN c.combined[s] # {} /\ Closes(c, s) =>
              Verdict(c, s) \in {"closed", "drop"}
<1>1. InPeriod(c, s) = {} <=> DOMAIN c.combined[s] = {}
  BY DEF InPeriod, Stored
<1> QED
  BY <1>1 DEF Verdict

(***************************************************************************)
(* A consumer that holds sn agrees with the memory m and the closed rows:  *)
(* every open row is ahead of the applied block, is not completed and has  *)
(* the batches it was made of in the cache.                                *)
(***************************************************************************)
Holds(m, closed, sn) ==
  /\ \A s \in DOMAIN m.open :
       /\ s \in Starts /\ EndOf(s) > Time[m.applied] /\ s \notin m.done
       /\ s \in DOMAIN m.cache /\ DOMAIN m.cache[s] # {}
  /\ DOMAIN m.open # {} => m.liveFrom # {}
  /\ DOMAIN sn = DOMAIN m.open \cup DOMAIN closed
  /\ \A s \in DOMAIN sn :
       sn[s] = IF s \in DOMAIN m.open THEN m.open[s].value ELSE closed[s]

LEMMA CommitHolds ==
  ASSUME NEW c, MemoryShape(c.m), c.progress \in Block, NEW before,
         Holds(c.m, c.st.closed, before),
         \A s \in DOMAIN c.combined :
           /\ s \in Starts /\ s \notin c.m.done
           /\ s \in DOMAIN c.m.cache => DOMAIN c.m.cache[s] \subseteq DOMAIN c.combined[s],
         c.live => \A s \in DOMAIN c.m.open :
                     EndOf(s) <= Time[c.progress] => s \in DOMAIN c.combined,
         NEW result, result = Outcome(c, before, Verdicts(c))
  PROVE  Holds(result.mem, result.store.closed, result.seen)
<1> DEFINE rows == ClosedRows(c, Verdicts(c))
           opened == OpenRows(c, Verdicts(c))
           kept == KeptRows(c, Verdicts(c))
           gone == Withdrawn(c, Verdicts(c))
           m == result.mem
           old == DOMAIN c.m.open
<1>0. MemoryShape(c.m) /\ result = Outcome(c, before, Verdicts(c))
  OBVIOUS
<1>1. /\ result.store = CommitStore(c.st, c.B, c.scanned, rows, Projected(c), c.missed)
      /\ m.applied = IF c.live THEN c.progress ELSE c.m.applied
      /\ m.open = kept
      /\ m.cache = Restrict(Over(c.combined, c.m.cache),
                            (DOMAIN Verdicts(c) \cup DOMAIN c.m.cache) \ DOMAIN rows)
      /\ m.done = c.m.done \cup DOMAIN rows
      /\ m.liveFrom = c.m.liveFrom
      /\ result.seen = IF gone = {} THEN Over(rows, Over(Values(opened), before))
                       ELSE Over(Values(kept), result.store.closed)
  <2>1. /\ result.store =
             CommitStore(c.st, c.B, c.scanned, ClosedRows(c, Verdicts(c)), Projected(c), c.missed)
        /\ result.mem.applied = IF c.live THEN c.progress ELSE c.m.applied
        /\ result.mem.open = KeptRows(c, Verdicts(c))
        /\ result.mem.cache =
             Restrict(Over(c.combined, c.m.cache),
                      (DOMAIN Verdicts(c) \cup DOMAIN c.m.cache)
                        \ DOMAIN ClosedRows(c, Verdicts(c)))
        /\ result.mem.done = c.m.done \cup DOMAIN ClosedRows(c, Verdicts(c))
        /\ result.mem.liveFrom = c.m.liveFrom
        /\ result.seen =
             IF Withdrawn(c, Verdicts(c)) = {}
             THEN Over(ClosedRows(c, Verdicts(c)),
                       Over(Values(OpenRows(c, Verdicts(c))), before))
             ELSE Over(Values(KeptRows(c, Verdicts(c))), result.store.closed)
    BY ONLY <1>0, CommitFields, Zenon
  <2> QED
    BY ONLY <2>1
<1>2. /\ DOMAIN rows = {s \in DOMAIN c.combined : Verdict(c, s) = "closed"}
      /\ DOMAIN opened = {s \in DOMAIN c.combined : Verdict(c, s) = "open"}
      /\ DOMAIN kept = RowsKept(c)
      /\ \A s \in DOMAIN opened : kept[s] = opened[s]
      /\ \A s \in RowsKept(c) \ DOMAIN opened : kept[s] = c.m.open[s]
      /\ gone = {s \in DOMAIN c.combined \cap old : Verdict(c, s) = "drop"}
      /\ DOMAIN Verdicts(c) = DOMAIN c.combined
  BY OutcomeRows
<1> HIDE DEF rows, opened, kept, gone, m
<1>3. /\ \A s \in old : /\ s \in Starts /\ EndOf(s) > Time[c.m.applied] /\ s \notin c.m.done
                        /\ s \in DOMAIN c.m.cache /\ DOMAIN c.m.cache[s] # {}
      /\ old # {} => c.m.liveFrom # {}
      /\ DOMAIN before = old \cup DOMAIN c.st.closed
      /\ \A s \in DOMAIN before :
           before[s] = IF s \in old THEN c.m.open[s].value ELSE c.st.closed[s]
  BY DEF Holds
<1>4. result.store.closed = Over(rows, c.st.closed)
  BY <1>1 DEF CommitStore
<1>5. \A s \in (DOMAIN c.combined \cup DOMAIN c.m.cache) \ DOMAIN rows :
        /\ s \in DOMAIN m.cache
        /\ m.cache[s] = IF s \in DOMAIN c.combined THEN c.combined[s] ELSE c.m.cache[s]
  BY <1>1, <1>2 DEF Restrict, Over
<1>6. DOMAIN kept = DOMAIN opened \cup
                      (old \ {s \in DOMAIN c.combined : Verdict(c, s) \in {"closed", "drop"}})
  BY <1>2 DEF RowsKept
<1>7. ASSUME NEW s \in DOMAIN kept
      PROVE  /\ s \in Starts /\ EndOf(s) > Time[m.applied] /\ s \notin m.done
             /\ s \in DOMAIN m.cache /\ DOMAIN m.cache[s] # {} /\ m.liveFrom # {}
  <2>1. CASE s \in DOMAIN opened
    <3>1. s \in DOMAIN c.combined /\ Verdict(c, s) = "open"
      BY <1>2, <2>1
    <3>2. /\ c.live /\ c.m.liveFrom # {} /\ DOMAIN c.combined[s] # {} /\ ~Closes(c, s)
      BY <3>1, Verdicted
    <3>3. s \in Starts /\ s \notin c.m.done /\ s \notin DOMAIN rows
      BY <1>2, <3>1
    <3>4. EndOf(s) \in Nat /\ Time[c.progress] \in Nat
      BY <3>3, PartitionTimes
    <3>5. EndOf(s) > Time[m.applied]
      BY <1>1, <3>2, <3>4 DEF Closes
    <3> QED
      BY <1>1, <1>5, <3>1, <3>2, <3>3, <3>5
  <2>2. CASE s \notin DOMAIN opened
    <3>1. s \in old /\ ~(s \in DOMAIN c.combined /\ Verdict(c, s) \in {"closed", "drop"})
      BY <1>6, <2>2
    <3>2. /\ s \in Starts /\ EndOf(s) > Time[c.m.applied] /\ s \notin c.m.done
          /\ s \in DOMAIN c.m.cache /\ DOMAIN c.m.cache[s] # {} /\ c.m.liveFrom # {}
      BY <1>3, <3>1
    <3>3. s \notin DOMAIN rows
      BY <1>2, <3>1
    <3>4. s \in DOMAIN c.combined => DOMAIN c.combined[s] # {}
      BY <3>2
    <3>5. s \in DOMAIN m.cache /\ DOMAIN m.cache[s] # {}
      BY <1>5, <3>2, <3>3, <3>4
    <3>6. EndOf(s) > Time[m.applied]
      <4>1. CASE c.live
        <5>1. EndOf(s) \in Nat /\ Time[c.progress] \in Nat
          BY <3>2, PartitionTimes
        <5>2. ASSUME EndOf(s) <= Time[c.progress]
              PROVE  FALSE
          <6>1. s \in DOMAIN c.combined /\ Closes(c, s)
            BY <3>1, <4>1, <5>1, <5>2 DEF Closes
          <6>2. Verdict(c, s) \in {"closed", "drop"}
            BY <3>2, <3>4, <4>1, <6>1, Verdicted
          <6> QED
            BY <3>1, <6>1, <6>2
        <5> QED
          BY <1>1, <4>1, <5>1, <5>2
      <4>2. CASE ~c.live
        BY <1>1, <3>2, <4>2
      <4> QED
        BY <4>1, <4>2
    <3> QED
      BY <1>1, <3>2, <3>3, <3>5, <3>6
  <2> QED
    BY <2>1, <2>2
<1> DEFINE closed == result.store.closed
<1>8. /\ DOMAIN closed = DOMAIN rows \cup DOMAIN c.st.closed
      /\ \A s \in DOMAIN closed :
           closed[s] = IF s \in DOMAIN rows THEN rows[s] ELSE c.st.closed[s]
  BY <1>4 DEF Over
<1> HIDE DEF closed
<1>9. /\ DOMAIN result.seen = DOMAIN kept \cup DOMAIN closed
      /\ \A s \in DOMAIN result.seen :
           result.seen[s] = IF s \in DOMAIN kept THEN kept[s].value ELSE closed[s]
  <2>1. CASE gone = {}
    <3>1. result.seen = Over(rows, Over(Values(opened), before))
      BY <1>1, <2>1
    <3>2. /\ DOMAIN result.seen = DOMAIN rows \cup DOMAIN opened \cup DOMAIN before
          /\ \A s \in DOMAIN result.seen :
               result.seen[s] = IF s \in DOMAIN rows THEN rows[s]
                                ELSE IF s \in DOMAIN opened THEN opened[s].value
                                ELSE before[s]
      BY <3>1 DEF Over, Values
    <3>3. DOMAIN kept = DOMAIN opened \cup (old \ DOMAIN rows)
      BY <1>2, <1>6, <2>1
    <3>4. DOMAIN rows \cap DOMAIN kept = {}
      BY <1>2, <3>3
    <3>5. DOMAIN result.seen = DOMAIN kept \cup DOMAIN closed
      BY <1>3, <1>8, <3>2, <3>3
    <3>6. ASSUME NEW s \in DOMAIN result.seen
          PROVE  result.seen[s] = IF s \in DOMAIN kept THEN kept[s].value ELSE closed[s]
      <4>1. CASE s \in DOMAIN rows
        BY <1>8, <3>2, <3>4, <4>1
      <4>2. CASE s \in DOMAIN opened /\ s \notin DOMAIN rows
        BY <1>2, <3>2, <3>3, <4>2
      <4>3. CASE s \in old /\ s \notin DOMAIN rows /\ s \notin DOMAIN opened
        BY <1>2, <1>3, <3>2, <3>3, <4>3
      <4>4. CASE s \notin old /\ s \notin DOMAIN rows /\ s \notin DOMAIN opened
        BY <1>3, <1>8, <3>2, <3>3, <4>4
      <4> QED
        BY <4>1, <4>2, <4>3, <4>4
    <3> QED
      BY <3>5, <3>6
  <2>2. CASE gone # {}
    <3>1. result.seen = Over(Values(kept), closed)
      BY <1>1, <2>2 DEF closed
    <3> QED
      BY <3>1 DEF Over, Values
  <2> QED
    BY <2>1, <2>2
<1> QED
  BY <1>1, <1>7, <1>9 DEF Holds, m, closed

(* The partitions a commit looks at keep the batches they have in memory;  *)
(* a live one looks at every partition from the applied block's to that of *)
(* its newest block.                                                       *)
LEMMA CombinedKeeps ==
  ASSUME NEW st, NEW m, NEW B, NEW s \in DOMAIN m.cache
  PROVE  DOMAIN m.cache[s] \subseteq DOMAIN Combined(st, m, B, s)
<1> DEFINE D == {b \in B : Start(b) = s}
<1>1. Combined(st, m, B, s) = Put(m.cache[s], D)
  BY DEF Combined
<1> HIDE DEF D
<1>2. DOMAIN Put(m.cache[s], D) = DOMAIN m.cache[s] \cup Heights(D)
  BY DEF Put
<1> QED
  BY <1>1, <1>2

LEMMA LiveCombined ==
  ASSUME NEW B, mem.applied \in Block, MemoryShape(mem), NEW c, c = TheLive(B)
  PROVE  /\ \A s \in DOMAIN c.combined :
              /\ s \in Starts /\ s \notin mem.done
              /\ s \in DOMAIN mem.cache => DOMAIN mem.cache[s] \subseteq DOMAIN c.combined[s]
         /\ \A s \in Starts :
              s \notin mem.done /\ Start(mem.applied) <= s /\ s <= Start(Highest(B)) =>
                s \in DOMAIN c.combined
<1> DEFINE active == ActivateLive(mem, B)
<1>1. active.applied = mem.applied /\ active.cache = mem.cache /\ active.done = mem.done
  BY ActivateShape
<1> HIDE DEF active
<1>2. /\ DOMAIN c.combined = Periods(active, Joined(store, B), TRUE, Highest(B)) \ mem.done
      /\ \A s \in DOMAIN c.combined : c.combined[s] = Combined(store, active, B, s)
  BY <1>1 DEF TheLive, TheCommit, Progress, active
<1>3. mem.applied # NoBlock
  BY TreeAssumption
<1>4. /\ DOMAIN c.combined \subseteq Starts
      /\ \A s \in Starts :
           s \notin mem.done /\ Start(mem.applied) <= s /\ s <= Start(Highest(B)) =>
             s \in DOMAIN c.combined
  BY <1>1, <1>2, <1>3 DEF Periods
<1>5. \A s \in DOMAIN c.combined : s \notin mem.done
  BY <1>2
<1>6. \A s \in DOMAIN c.combined :
        s \in DOMAIN mem.cache => DOMAIN mem.cache[s] \subseteq DOMAIN c.combined[s]
  <2> SUFFICES ASSUME NEW s \in DOMAIN c.combined, s \in DOMAIN mem.cache
               PROVE  DOMAIN mem.cache[s] \subseteq DOMAIN c.combined[s]
    OBVIOUS
  <2>1. DOMAIN active.cache[s] \subseteq DOMAIN Combined(store, active, B, s)
    BY <1>1, CombinedKeeps
  <2> QED
    BY <1>1, <1>2, <2>1
<1> QED
  BY <1>4, <1>5, <1>6

LEMMA QuietCombined ==
  ASSUME NEW B, NEW scanned, NEW missed, NEW c, c = TheQuiet(B, scanned, missed)
  PROVE  \A s \in DOMAIN c.combined :
           /\ s \in Starts /\ s \notin mem.done
           /\ s \in DOMAIN mem.cache => DOMAIN mem.cache[s] \subseteq DOMAIN c.combined[s]
<1>1. /\ DOMAIN c.combined =
           Periods(mem, Joined(store, B), FALSE, Progress(mem, B, FALSE)) \ mem.done
      /\ \A s \in DOMAIN c.combined : c.combined[s] = Combined(store, mem, B, s)
  BY DEF TheQuiet, TheCommit
<1>2. DOMAIN c.combined \subseteq Starts /\ \A s \in DOMAIN c.combined : s \notin mem.done
  BY <1>1 DEF Periods
<1>3. \A s \in DOMAIN c.combined :
        s \in DOMAIN mem.cache => DOMAIN mem.cache[s] \subseteq DOMAIN c.combined[s]
  <2> SUFFICES ASSUME NEW s \in DOMAIN c.combined, s \in DOMAIN mem.cache
               PROVE  DOMAIN mem.cache[s] \subseteq DOMAIN c.combined[s]
    OBVIOUS
  <2>1. DOMAIN mem.cache[s] \subseteq DOMAIN Combined(store, mem, B, s)
    BY CombinedKeeps
  <2> QED
    BY <1>1, <2>1
<1> QED
  BY <1>2, <1>3

LEMMA LiveHolds ==
  ASSUME Shape, run = "up", Holds(mem, store.closed, seen), NEW B,
         B \subseteq Block, B # {}, IsFiniteSet(B),
         NEW result \in
           Commit(store, ActivateLive(mem, B), seen, B, TRUE, {}, store.missed \ B)
  PROVE  Holds(result.mem, result.store.closed, result.seen)
<1>1. mem.applied \in Block /\ MemoryShape(mem)
  BY DEF Shape
<1> DEFINE active == ActivateLive(mem, B)
<1>2. /\ MemoryShape(active) /\ active.applied = mem.applied /\ active.open = mem.open
      /\ active.cache = mem.cache /\ active.done = mem.done
      /\ mem.liveFrom # {} => active.liveFrom # {}
  BY <1>1, ActivateShape
<1> DEFINE c == TheLive(B)
<1>3. /\ result = Outcome(c, seen, Verdicts(c)) /\ c.st = store /\ c.m = active /\ c.live
      /\ c.progress = Highest(B)
  BY LiveOutcome
<1>4. /\ \A s \in DOMAIN c.combined :
           /\ s \in Starts /\ s \notin mem.done
           /\ s \in DOMAIN mem.cache => DOMAIN mem.cache[s] \subseteq DOMAIN c.combined[s]
      /\ \A s \in Starts :
           s \notin mem.done /\ Start(mem.applied) <= s /\ s <= Start(Highest(B)) =>
             s \in DOMAIN c.combined
  <2> HIDE DEF c
  <2>1. c = TheLive(B)
    BY DEF c
  <2> QED
    BY ONLY <1>1, <2>1, LiveCombined
<1> HIDE DEF c, active
<1>5. c.progress \in Block
  BY <1>3, HighestOf
<1>6. Holds(active, store.closed, seen)
  BY <1>2 DEF Holds
<1>7. ASSUME NEW s \in DOMAIN c.m.open, EndOf(s) <= Time[c.progress]
      PROVE  s \in DOMAIN c.combined
  <2>1. s \in Starts /\ EndOf(s) > Time[mem.applied] /\ s \notin mem.done
    BY <1>2, <1>3 DEF Holds
  <2>2. Start(mem.applied) <= s
    BY <1>1, <2>1, PartitionTimes
  <2>3. s <= Start(Highest(B))
    BY <1>3, <1>5, <1>7, <2>1, PartitionTimes
  <2> QED
    BY <1>4, <2>1, <2>2, <2>3
<1>8. /\ MemoryShape(c.m) /\ Holds(c.m, c.st.closed, seen)
      /\ \A s \in DOMAIN c.combined :
           /\ s \in Starts /\ s \notin c.m.done
           /\ s \in DOMAIN c.m.cache => DOMAIN c.m.cache[s] \subseteq DOMAIN c.combined[s]
      /\ c.live => \A s \in DOMAIN c.m.open :
                     EndOf(s) <= Time[c.progress] => s \in DOMAIN c.combined
      /\ result = Outcome(c, seen, Verdicts(c))
  BY <1>2, <1>3, <1>4, <1>6, <1>7
<1> QED
  BY ONLY <1>5, <1>8, CommitHolds

LEMMA QuietHolds ==
  ASSUME Shape, run = "up", Holds(mem, store.closed, seen), NEW B, NEW scanned, NEW missed,
         NEW result \in Quiet(B, scanned, missed)
  PROVE  Holds(result.mem, result.store.closed, result.seen)
<1>1. mem.applied \in Block /\ MemoryShape(mem) /\ result \in Quiet(B, scanned, missed)
  BY DEF Shape
<1>2. PICK c : /\ c = TheQuiet(B, scanned, missed) /\ result = Outcome(c, seen, Verdicts(c))
               /\ c.st = store /\ c.m = mem /\ c.B = B /\ ~c.live
  BY ONLY <1>1, QuietOutcome
<1>3. c.progress \in Block
  <2>1. mem.applied # NoBlock
    BY <1>1, TreeAssumption
  <2> QED
    BY <1>1, <1>2, <2>1 DEF TheQuiet, TheCommit, Progress
<1>4. \A s \in DOMAIN c.combined :
        /\ s \in Starts /\ s \notin mem.done
        /\ s \in DOMAIN mem.cache => DOMAIN mem.cache[s] \subseteq DOMAIN c.combined[s]
  BY ONLY <1>2, QuietCombined
<1>5. /\ MemoryShape(c.m) /\ Holds(c.m, c.st.closed, seen)
      /\ \A s \in DOMAIN c.combined :
           /\ s \in Starts /\ s \notin c.m.done
           /\ s \in DOMAIN c.m.cache => DOMAIN c.m.cache[s] \subseteq DOMAIN c.combined[s]
      /\ c.live => \A s \in DOMAIN c.m.open :
                     EndOf(s) <= Time[c.progress] => s \in DOMAIN c.combined
      /\ result = Outcome(c, seen, Verdicts(c))
  BY <1>1, <1>2, <1>4
<1> QED
  BY ONLY <1>3, <1>5, CommitHolds

(***************************************************************************)
(* The consumer's view over every step, of an instance that keeps all its  *)
(* blocks and has not been run again after a failure.  Retention forgets   *)
(* the cache of an open partition that a new plan would have to rebuild,   *)
(* and a second run() finds the open rows of the first.                    *)
(***************************************************************************)
Clean == bounds.reruns = 0 /\ plan.retain = 0

BoundsShape == DOMAIN bounds = {"moves", "troubles", "reruns"} /\ bounds.reruns \in Nat

WatchInv ==
  /\ BoundsShape
  /\ run = "down" => DOMAIN mem.open = {}
  /\ Clean /\ run = "starting" => DOMAIN mem.open = {}
  /\ Clean /\ run = "up" => Holds(mem, store.closed, seen)

(* The steps that neither start a run nor commit nor recover. *)
LEMMA SpendingKeeps ==
  ASSUME BoundsShape, plan' = plan,
         UNCHANGED bounds \/ Spend("moves") \/ Spend("troubles")
  PROVE  BoundsShape' /\ (Clean' => Clean)
<1>1. CASE UNCHANGED bounds
  BY <1>1 DEF BoundsShape, Clean
<1>2. CASE Spend("moves")
  BY <1>2 DEF BoundsShape, Clean, Spend
<1>3. CASE Spend("troubles")
  BY <1>3 DEF BoundsShape, Clean, Spend
<1> QED
  BY <1>1, <1>2, <1>3

LEMMA SameWatch ==
  ASSUME WatchInv, plan' = plan,
         UNCHANGED bounds \/ Spend("moves") \/ Spend("troubles"),
         UNCHANGED <<store, mem, seen, run>>
  PROVE  WatchInv'
<1>1. BoundsShape' /\ (Clean' => Clean)
  BY SpendingKeeps DEF WatchInv
<1> QED
  BY <1>1 DEF WatchInv

LEMMA FailedWatch ==
  ASSUME WatchInv, plan' = plan,
         UNCHANGED bounds \/ Spend("moves") \/ Spend("troubles"), run' = "failed"
  PROVE  WatchInv'
<1>1. BoundsShape' /\ (Clean' => Clean)
  BY SpendingKeeps DEF WatchInv
<1> QED
  BY <1>1 DEF WatchInv

LEMMA StopFails == Stop("failed") => run' = "failed"
  BY DEF Stop

(* A commit of an instance that is up and stays up. *)
LEMMA UpWatch ==
  ASSUME WatchInv, plan' = plan, UNCHANGED bounds, run = "up", run' = "up",
         Clean => Holds(mem', store'.closed, seen')
  PROVE  WatchInv'
<1>1. BoundsShape' /\ (Clean' => Clean)
  BY SpendingKeeps DEF WatchInv
<1> QED
  BY <1>1 DEF WatchInv

LEMMA LiveWatch ==
  ASSUME Shape, WatchInv, run = "up", NEW B, LiveRun(B, mem.applied), NEW next,
         CommitLive(B, next)
  PROVE  WatchInv'
<1> DEFINE active == ActivateLive(mem, B)
<1>1. CASE Linked(B)
  <2>1. PICK result \in Commit(store, active, seen, B, TRUE, {}, store.missed \ B) :
          store' = result.store /\ mem' = result.mem /\ seen' = result.seen
    BY <1>1 DEF CommitLive
  <2>2. B \subseteq Block /\ B # {} /\ IsFiniteSet(B)
    BY DEF LiveRun
  <2>3. UNCHANGED <<plan, bounds, run>>
    BY <1>1 DEF CommitLive
  <2>4. ASSUME Clean
        PROVE  Holds(mem', store'.closed, seen')
    <3>1. Holds(mem, store.closed, seen)
      BY <2>4 DEF WatchInv
    <3>2. Holds(result.mem, result.store.closed, result.seen)
      BY <2>2, <3>1, LiveHolds
    <3> QED
      BY <2>1, <3>2
  <2> QED
    BY <2>3, <2>4, UpWatch
<1>2. CASE ~Linked(B)
  <2>1. Stop("failed") /\ UNCHANGED <<plan, bounds>>
    BY <1>2 DEF CommitLive
  <2> QED
    BY <2>1, StopFails, FailedWatch
<1> QED
  BY <1>1, <1>2

LEMMA QuietWatch ==
  ASSUME Shape, WatchInv, run = "up", UNCHANGED <<plan, bounds, run>>, NEW B, NEW scanned,
         NEW missed,
         \E result \in Commit(store, mem, seen, B, FALSE, scanned, missed) :
           store' = result.store /\ mem' = result.mem /\ seen' = result.seen
  PROVE  WatchInv'
<1>1. PICK result \in Quiet(B, scanned, missed) :
        store' = result.store /\ mem' = result.mem /\ seen' = result.seen
  BY DEF Quiet
<1>2. ASSUME Clean
      PROVE  Holds(mem', store'.closed, seen')
  <2>1. Holds(mem, store.closed, seen)
    BY <1>2 DEF WatchInv
  <2>2. Holds(result.mem, result.store.closed, result.seen)
    BY <2>1, QuietHolds
  <2> QED
    BY <1>1, <2>2
<1> QED
  BY <1>2, UpWatch

(* Without open rows a consumer agrees when it has the durable ones. *)
LEMMA EmptyHolds ==
  ASSUME NEW m, NEW closed, DOMAIN m.open = {}
  PROVE  Holds(m, closed, closed)
  BY DEF Holds

LEMMA StartUpWatch ==
  ASSUME Shape, WatchInv, StartUp
  PROVE  WatchInv'
<1> DEFINE row == store.state.block
           resumes == plan.start = "checkpoint" /\ row # NoBlock /\ row \in Chain
           first == IF resumes THEN store ELSE Seeded(store, startHead)
           applied == IF resumes THEN row ELSE startHead
           restored == RestorePartitions(first, applied)
           from == Disowned(restored)
           valid == IF from = {} THEN restored
                    ELSE Seeded(Invalidate(restored, Min(from)), startHead)
           started == [mem EXCEPT !.applied = applied, !.done = DOMAIN restored.closed,
                                  !.liveThrough = IF plan.history = "none" THEN @
                                                   ELSE {Number[startHead]}]
           cleared == [started EXCEPT !.applied = startHead, !.open = NoRows,
                                      !.cache = FreshMemory.cache,
                                      !.done = DOMAIN valid.closed]
<1>1. /\ run = "starting" /\ run' = "up" /\ UNCHANGED <<plan, bounds>>
      /\ store' = valid /\ seen' = ReadOf(valid, mem')
      /\ mem' = IF from = {} THEN started ELSE cleared
  BY DEF StartUp
<1>2. MemoryShape(mem)
  BY DEF Shape
<1>3. DOMAIN started = DOMAIN mem /\ started.open = mem.open
  BY <1>2 DEF MemoryShape
<1>4. DOMAIN NoRows = {}
  BY DEF NoRows
<1> HIDE DEF row, resumes, first, applied, restored, from, valid, started
<1>5. cleared.open = NoRows
  BY <1>2, <1>3 DEF MemoryShape
<1> HIDE DEF cleared
<1>6. BoundsShape' /\ (Clean' => Clean)
  BY <1>1, SpendingKeeps DEF WatchInv
<1>7. ASSUME Clean'
      PROVE  Holds(mem', store'.closed, seen')
  <2>1. DOMAIN mem.open = {}
    BY <1>1, <1>6, <1>7 DEF WatchInv
  <2>2. DOMAIN mem'.open = {}
    BY <1>1, <1>3, <1>4, <1>5, <2>1
  <2>3. /\ DOMAIN seen' = DOMAIN store'.closed
        /\ \A s \in DOMAIN seen' : seen'[s] = store'.closed[s]
    BY <1>1, <2>2 DEF ReadOf, Over
  <2> QED
    BY <2>2, <2>3 DEF Holds
<1> QED
  BY <1>1, <1>6, <1>7 DEF WatchInv

LEMMA WorkerWatch ==
  ASSUME Shape, WatchInv, Worker
  PROVE  WatchInv'
<1>1. CASE \/ Take \/ Skip \/ (\E n \in Missing : ReadMissing(n))
           \/ Recover \/ ReadLatest \/ Revert
  <2>1. Take \/ Skip => UNCHANGED <<plan, store, mem, run, seen, bounds>>
    BY DEF Take, Skip
  <2>2. (\E n \in Missing : ReadMissing(n)) =>
          UNCHANGED <<plan, store, mem, run, seen, bounds>>
    BY DEF ReadMissing
  <2>3. Recover \/ ReadLatest => UNCHANGED <<plan, store, mem, run, seen, bounds>>
    BY DEF Recover, ReadLatest
  <2>4. Revert => UNCHANGED <<plan, store, mem, run, seen, bounds>>
    BY DEF Revert
  <2> QED
    BY <1>1, <2>1, <2>2, <2>3, <2>4, SameWatch
<1>2. CASE Search
  <2>1. \/ Stop("failed") /\ UNCHANGED <<plan, bounds>>
        \/ UNCHANGED <<plan, store, mem, run, seen, bounds>>
    BY <1>2 DEF Search
  <2> QED
    BY <2>1, StopFails, FailedWatch, SameWatch
<1>3. CASE LiveGroup \/ CommitMissing \/ CommitItem
  <2>1. /\ run = "up" /\ mem.applied \in Block /\ WorkShape(work) /\ work.group # <<>>
    BY <1>3 DEF LiveGroup, CommitMissing, CommitItem, LiveStep, OnItem, WorkerReady, Shape
  <2>2. CASE LiveGroup
    <3>1. LiveRun(Range(work.group), mem.applied)
      BY <2>1, <2>2, GroupRun DEF LiveGroup, IsGroup, WorkShape
    <3> QED
      BY <2>1, <2>2, <3>1, LiveWatch DEF LiveGroup
  <2>3. CASE CommitMissing
    <3> DEFINE next == [work EXCEPT !.read = EmptyMap]
    <3>1. DOMAIN work.read # {} /\ Parent[Lowest(Stored(work.read))] = mem.applied
      BY <2>3 DEF CommitMissing, GapRead
    <3>2. LiveRun(Stored(work.read), mem.applied)
      BY <2>1, <3>1, ReadRun DEF WorkShape
    <3>3. CommitLive(Stored(work.read), next)
      BY <2>3 DEF CommitMissing
    <3> HIDE DEF next
    <3> QED
      BY <2>1, <3>2, <3>3, LiveWatch
  <2>4. CASE CommitItem
    <3>1. Item \in Block
      BY <2>1 DEF WorkShape, Item
    <3>2. LiveRun({Item}, mem.applied) /\ CommitLive({Item}, Finished(work))
      BY <2>4, <3>1, ItemRun DEF CommitItem
    <3> QED
      BY <2>1, <3>2, LiveWatch
  <2> QED
    BY <1>3, <2>2, <2>3, <2>4
<1>4. CASE Reseed
  <2> DEFINE b == recovery.latest
             through == IF plan.history = "none" THEN {} ELSE {Number[b]}
             row == [block |-> b, value |-> LogsTo[b]]
  <2>1. /\ run = "up" /\ UNCHANGED <<plan, bounds, run>>
        /\ store' = [Invalidated EXCEPT !.state = row]
        /\ mem' = [FreshMemory EXCEPT !.applied = b, !.liveThrough = through]
        /\ seen' = Invalidated.closed
    BY <1>4 DEF Reseed, Seeded
  <2> HIDE DEF b, through, row
  <2>2. DOMAIN mem'.open = {} /\ store'.closed = Invalidated.closed
    BY <2>1, InvalidatedShape DEF FreshMemory, NoRows
  <2> QED
    BY <2>1, <2>2, EmptyHolds, UpWatch
<1>5. CASE Rebuild
  <2> DEFINE cut == IF recovery.forkTime > Interval THEN recovery.forkTime - Interval ELSE 0
             retained == {b \in Stored(store.batches) : Time[b] >= cut}
  <2>1. /\ run = "up"
        /\ \/ Stop("failed") /\ UNCHANGED <<plan, bounds>>
           \/ /\ UNCHANGED <<plan, run, bounds>>
              /\ \/ UNCHANGED <<store, mem, seen>>
                 \/ \E result \in Commit(store, mem, seen, retained, FALSE, {}, store.missed) :
                      store' = result.store /\ mem' = result.mem /\ seen' = result.seen
    BY <1>5 DEF Rebuild
  <2> HIDE DEF retained
  <2> QED
    BY <2>1, StopFails, FailedWatch, SameWatch, QuietWatch
<1> QED
  BY <1>1, <1>2, <1>3, <1>4, <1>5 DEF Worker

LEMMA FailureWatch ==
  ASSUME Shape, WatchInv, Run \/ StartFails \/ Restart \/ SourceFails \/ SeedFails
  PROVE  WatchInv'
<1>1. MemoryShape(mem)
  BY DEF Shape
<1>2. CASE Run
  <2>1. /\ run' = "starting" /\ plan' = plan
        /\ mem' = [mem EXCEPT !.done = @ \cup DOMAIN store.closed]
        /\ \/ run = "down" /\ UNCHANGED bounds
           \/ Spend("reruns")
    BY <1>2 DEF Run
  <2>2. mem'.open = mem.open
    BY <1>1, <2>1 DEF MemoryShape
  <2>3. CASE run = "down" /\ UNCHANGED bounds
    BY <2>1, <2>2, <2>3 DEF WatchInv, BoundsShape
  <2>4. CASE Spend("reruns")
    <3>1. BoundsShape' /\ bounds'.reruns # 0
      BY <2>4 DEF WatchInv, BoundsShape, Spend
    <3> QED
      BY <2>1, <3>1 DEF WatchInv, Clean
  <2> QED
    BY <2>1, <2>3, <2>4
<1>3. CASE StartFails
  BY <1>3, StopFails, FailedWatch DEF StartFails
<1>4. CASE Restart
  <2>1. run' = "down" /\ mem' = FreshMemory /\ plan' = plan /\ Spend("troubles")
    BY <1>4 DEF Restart, Stop
  <2>2. BoundsShape'
    BY <2>1, SpendingKeeps DEF WatchInv
  <2> QED
    BY <2>1, <2>2 DEF WatchInv, FreshMemory, NoRows
<1>5. CASE SourceFails
  <2>1. /\ plan' = plan /\ (UNCHANGED bounds \/ Spend("troubles"))
        /\ Stop("failed") \/ UNCHANGED <<store, mem, seen, run>>
    BY <1>5 DEF SourceFails
  <2> QED
    BY <2>1, StopFails, FailedWatch, SameWatch
<1>6. CASE SeedFails
  <2>1. /\ run = "up" /\ plan' = plan /\ Spend("troubles")
        /\ store' = Invalidated /\ seen' = Invalidated.closed
        /\ mem' = [FreshMemory EXCEPT !.applied = mem.applied]
        /\ Stop("failed") \/ run' = run
    BY <1>6 DEF SeedFails
  <2>2. CASE Stop("failed")
    BY <2>1, <2>2, StopFails, FailedWatch
  <2>3. CASE run' = run
    <3>1. DOMAIN mem'.open = {}
      BY <2>1 DEF FreshMemory, NoRows
    <3>2. Holds(mem', store'.closed, seen')
      BY <2>1, <3>1, EmptyHolds
    <3>3. BoundsShape'
      BY <2>1, SpendingKeeps DEF WatchInv
    <3> QED
      BY <2>1, <2>3, <3>2, <3>3 DEF WatchInv
  <2> QED
    BY <2>1, <2>2, <2>3
<1> QED
  BY <1>2, <1>3, <1>4, <1>5, <1>6

LEMMA HistoryWatch ==
  ASSUME Shape, WatchInv, History \/ ApplyRetention
  PROVE  WatchInv'
<1>1. CASE HistoryPick \/ HistoryLogs \/ HistoryHeaders
  <2>1. UNCHANGED <<plan, store, mem, run, seen, bounds>>
    BY <1>1 DEF HistoryPick, HistoryLogs, HistoryHeaders, HistoryUnchanged
  <2> QED
    BY <2>1, SameWatch
<1>2. CASE HistoryCommit
  <2> DEFINE scanned == history.from..history.through
             missed == (store.missed \ history.logs) \cup PassedOver
  <2>1. /\ run = "up" /\ UNCHANGED <<plan, run, bounds>>
        /\ \/ UNCHANGED <<store, mem, seen>>
           \/ \E result \in Commit(store, mem, seen, history.blocks, FALSE, scanned, missed) :
                store' = result.store /\ mem' = result.mem /\ seen' = result.seen
    BY <1>2 DEF HistoryCommit, HistoryUnchanged
  <2> HIDE DEF scanned, missed
  <2> QED
    BY <2>1, SameWatch, QuietWatch
<1>3. CASE ApplyRetention
  <2>1. plan.retain > 0 /\ run = "up" /\ UNCHANGED <<plan, bounds, run>>
    BY <1>3 DEF ApplyRetention
  <2>2. ~Clean'
    BY <2>1 DEF Clean
  <2> QED
    BY <2>1, <2>2 DEF WatchInv, BoundsShape
<1> QED
  BY <1>1, <1>2, <1>3 DEF History

LEMMA WatchStep ==
  ASSUME Shape, WatchInv, [Next]_vars
  PROVE  WatchInv'
<1>1. CASE \E b \in Block : Move(b)
  <2>1. UNCHANGED <<plan, store, mem, run, seen>> /\ Spend("moves")
    BY <1>1 DEF Move
  <2> QED
    BY <2>1, SameWatch
<1>2. CASE Feed
  <2>1. UNCHANGED <<plan, store, mem, run, seen, bounds>>
    BY <1>2 DEF Feed, FeedFirst, FeedNext, FeedRevert, Offer
  <2> QED
    BY <2>1, SameWatch
<1>3. CASE UNCHANGED vars
  BY <1>3, SameWatch DEF vars
<1> QED
  BY <1>1, <1>2, <1>3, StartUpWatch, FailureWatch, WorkerWatch, HistoryWatch DEF Next

LEMMA WatchStart == Init => WatchInv
  BY DEF Init, WatchInv, BoundsShape, FreshMemory, NoRows

THEOREM WatchInvariance == Spec => [](Shape /\ StateInv /\ WatchInv)
<1>1. (Shape /\ StateInv /\ WatchInv) /\ [Next]_vars => (Shape /\ StateInv /\ WatchInv)'
  BY StateStep, WatchStep
<1> QED
  BY <1>1, StateStart, WatchStart, PTL DEF Spec

(* While no retention is planned and the instance has not been run again   *)
(* after a failure, a consumer that read once and applied every update of  *)
(* watch() holds exactly what read() returns: over commits of live blocks  *)
(* and of history, withdrawn rows and their resets, recoveries, failed     *)
(* seeds and new processes (indexer/model.ts, updates and commit).         *)
THEOREM WatchAgreesWithReadHolds ==
  Spec => [](bounds.reruns = 0 /\ plan.retain = 0 => WatchAgreesWithRead)
<1>1. ASSUME Shape, WatchInv, Clean
      PROVE  WatchAgreesWithRead
  <2> SUFFICES ASSUME run = "up"
               PROVE  /\ \A s \in DOMAIN Read : s \in DOMAIN seen /\ seen[s] = Read[s]
                      /\ DOMAIN seen = DOMAIN Read
    BY DEF WatchAgreesWithRead
  <2>1. Holds(mem, store.closed, seen)
    BY <1>1 DEF WatchInv
  <2> DEFINE shown == {t \in DOMAIN mem.open : EndOf(t) > Time[mem.applied]}
  <2>2. shown = DOMAIN mem.open
    BY <2>1 DEF Holds
  <2> HIDE DEF shown
  <2>3. Read = Over([s \in shown |-> mem.open[s].value], store.closed)
    BY DEF Read, ReadOf, shown
  <2>4. /\ DOMAIN Read = DOMAIN mem.open \cup DOMAIN store.closed
        /\ \A s \in DOMAIN Read :
             Read[s] = IF s \in DOMAIN mem.open THEN mem.open[s].value ELSE store.closed[s]
    BY <2>2, <2>3 DEF Over
  <2> QED
    BY <2>1, <2>4 DEF Holds
<1>2. Shape /\ StateInv /\ WatchInv =>
        (bounds.reruns = 0 /\ plan.retain = 0 => WatchAgreesWithRead)
  BY <1>1 DEF Clean
<1> QED
  BY <1>2, WatchInvariance, PTL
-----------------------------------------------------------------------------
(***************************************************************************)
(* The feed, followed to its end.  What is due is the last update of the   *)
(* queue, of the worker's part of it or of the recovery under way: it is   *)
(* the newest block of the feed until the worker is done with it, and then *)
(* the applied block meets it.                                             *)
(***************************************************************************)
(* The blocks the chain has had. *)
Ever == Chain \cup left

UpdatesIn(s, U) == \A i \in DOMAIN s : s[i].block \in U
WorkIn(w, U) ==
  /\ \A i \in DOMAIN w.group : w.group[i] \in U
  /\ UpdatesIn(w.todo, U)
  /\ Stored(w.read) \subseteq U

LastOf(s) == IF s = <<>> THEN {} ELSE {s[Len(s)].block}
EndOfWork(w) ==
  IF w.todo # <<>> THEN LastOf(w.todo)
  ELSE IF w.group # <<>> THEN {w.group[Len(w.group)]} ELSE {}

Due ==
  IF queue # <<>> THEN LastOf(queue)
  ELSE IF EndOfWork(work) # {} THEN EndOfWork(work)
  ELSE IF recovery.step # "none" THEN {recovery.latest} ELSE {}

(* An instance at b has what the feed said with f: f itself, a block above *)
(* it, or the chain has left f, and the feed will tell of that.            *)
Meets(b, f) == b = f \/ Number[b] > Number[f] \/ f \in left

Found == recovery.step \in {"search", "invalidate", "rebuild"}

EverInv ==
  /\ left \subseteq Block
  /\ \A x \in Ever : Number[x] <= Number[tip]
  /\ startHead \in Ever
  /\ feed # NoBlock => feed \in Ever
  /\ run = "up" => mem.applied \in Ever
  /\ UpdatesIn(queue, Ever) /\ WorkIn(work, Ever)
  /\ Found => recovery.latest \in Ever

Idle ==
  /\ feed = NoBlock /\ queue = <<>>
  /\ work.group = <<>> /\ work.todo = <<>> /\ recovery.step = "none"

FollowInv ==
  /\ run # "up" => Idle
  /\ \A b \in Due : feed = b
  /\ recovery.step \in {"latest", "search"} => work.group # <<>>
  /\ Due = {} /\ run = "up" /\ feed # NoBlock => Meets(mem.applied, feed)
  /\ work.group # <<>> /\ Found => Meets(recovery.latest, Item)
  /\ recovery.step = "rebuild" => mem.applied = recovery.latest

(* What the worker takes keeps its last update and brings no other block.  *)
LEMMA LoadParts ==
  ASSUME NEW s \in Seq(Update)
  PROVE  /\ EndOfWork(Load(s)) = LastOf(s)
         /\ \A U : UpdatesIn(s, U) => WorkIn(Load(s), U)
<1> DEFINE reverts == {i \in DOMAIN s : s[i].revert}
           n == IF reverts = {} THEN Len(s) ELSE Min(reverts) - 1
<1>0. PICK k \in Nat : k = Len(s) /\ DOMAIN s = 1..k
  OBVIOUS
<1>1. n \in 0..k
  <2>1. CASE reverts = {}
    BY <1>0, <2>1
  <2>2. CASE reverts # {}
    <3>1. reverts \subseteq Nat
      OBVIOUS
    <3>2. \E i \in reverts : \A j \in reverts : i <= j
      <4> HIDE DEF reverts
      <4> QED
        BY <2>2, <3>1, Smallest
    <3>3. Min(reverts) \in reverts
      <4> HIDE DEF reverts
      <4> QED
        BY <3>2 DEF Min
    <3>4. Min(reverts) \in 1..k
      BY <1>0, <3>3
    <3> QED
      BY <1>0, <2>2, <3>4
  <2> QED
    BY <2>1, <2>2
<1> HIDE DEF n
<1> DEFINE g == [i \in 1..n |-> s[i].block]
           rest == SubSeq(s, n + 1, Len(s))
           w == Load(s)
<1>2. w.group = g /\ w.read = EmptyMap /\ w.todo = rest
  BY DEF Load, n
<1> HIDE DEF w
<1>3. DOMAIN g = 1..n /\ (\A i \in 1..n : g[i] = s[i].block) /\ g \in Seq({s[i].block : i \in 1..n})
      /\ Len(g) = n
  BY <1>1
<1>4. /\ rest \in Seq(Update) /\ Len(rest) = k - n
      /\ \A i \in 1..(k - n) : rest[i] = s[n + i]
  <2>1. \A i \in 1..(k - n) : rest[i] = s[(n + 1) + i - 1]
    BY <1>0, <1>1
  <2>2. \A i \in 1..(k - n) : (n + 1) + i - 1 = n + i
    BY ONLY <1>0, <1>1
  <2>3. rest \in Seq(Update) /\ Len(rest) = k - n
    BY <1>0, <1>1
  <2> QED
    BY <2>1, <2>2, <2>3
<1> HIDE DEF g, rest
<1>5. EndOfWork(w) = LastOf(s)
  <2>1. CASE n = k /\ n # 0
    <3>1. rest = <<>> /\ g # <<>> /\ s # <<>>
      BY <1>0, <1>3, <1>4, <2>1
    <3>2. g[Len(g)] = s[Len(s)].block
      BY <1>0, <1>3, <2>1
    <3> QED
      BY <1>2, <3>1, <3>2 DEF EndOfWork, LastOf
  <2>2. CASE n = k /\ n = 0
    <3>1. rest = <<>> /\ g = <<>> /\ s = <<>>
      BY <1>0, <1>3, <1>4, <2>2
    <3> QED
      BY <1>2, <3>1 DEF EndOfWork, LastOf
  <2>3. CASE n < k
    <3>1. rest # <<>> /\ s # <<>>
      BY <1>0, <1>1, <1>4, <2>3
    <3>2. k - n \in 1..(k - n) /\ n + (k - n) = k
      BY <1>0, <1>1, <2>3
    <3>3. rest[Len(rest)] = s[Len(s)]
      BY <1>0, <1>4, <3>2
    <3> QED
      BY <1>2, <3>1, <3>3 DEF EndOfWork, LastOf
  <2>4. \/ n = k /\ n # 0
        \/ n = k /\ n = 0
        \/ n < k
    BY ONLY <1>0, <1>1
  <2> QED
    BY <2>1, <2>2, <2>3, <2>4
<1>6. ASSUME NEW U, UpdatesIn(s, U)
      PROVE  WorkIn(w, U)
  <2>1. \A i \in 1..k : s[i].block \in U
    BY <1>0, <1>6 DEF UpdatesIn
  <2>2. \A i \in DOMAIN g : g[i] \in U
    BY <1>0, <1>1, <1>3, <2>1
  <2>3. \A i \in DOMAIN rest : rest[i].block \in U
    <3>1. DOMAIN rest = 1..(k - n)
      BY <1>4
    <3>2. \A i \in 1..(k - n) : n + i \in 1..k
      BY ONLY <1>0, <1>1
    <3> QED
      BY <1>4, <2>1, <3>1, <3>2
  <2>4. Stored(EmptyMap) = {}
    BY DEF Stored, EmptyMap
  <2> QED
    BY <1>2, <2>2, <2>3, <2>4 DEF WorkIn, UpdatesIn
<1> QED
  BY <1>5, <1>6 DEF w

(* An item less: the end stays, unless the item was it.                    *)
LEMMA FinishedParts ==
  ASSUME NEW w, WorkShape(w), w.group # <<>>
  PROVE  /\ \/ EndOfWork(Finished(w)) = EndOfWork(w)
            \/ EndOfWork(Finished(w)) = {} /\ EndOfWork(w) = {w.group[w.at]}
         /\ \A U : WorkIn(w, U) => WorkIn(Finished(w), U)
<1>1. w.group \in Seq(Block) /\ w.todo \in Seq(Update) /\ w.at \in 1..Len(w.group)
  BY DEF WorkShape
<1>2. CASE w.at < Len(w.group)
  <2> DEFINE x == Finished(w)
  <2>1. x.group = w.group /\ x.todo = w.todo /\ x.read = EmptyMap
    BY <1>2 DEF Finished, WorkShape
  <2> HIDE DEF x
  <2>2. Stored(EmptyMap) = {}
    BY DEF Stored, EmptyMap
  <2>3. EndOfWork(x) = EndOfWork(w) /\ \A U : WorkIn(w, U) => WorkIn(x, U)
    BY <2>1, <2>2 DEF EndOfWork, WorkIn
  <2> QED
    BY <2>3 DEF x
<1>3. CASE ~ w.at < Len(w.group)
  <2>1. Finished(w) = Load(w.todo)
    BY <1>3 DEF Finished
  <2>2. w.at = Len(w.group)
    BY <1>1, <1>3
  <2>3. EndOfWork(Load(w.todo)) = LastOf(w.todo)
        /\ \A U : UpdatesIn(w.todo, U) => WorkIn(Load(w.todo), U)
    BY <1>1, LoadParts
  <2>4. CASE w.todo = <<>>
    BY <2>1, <2>2, <2>3, <2>4 DEF EndOfWork, LastOf, WorkIn
  <2>5. CASE w.todo # <<>>
    BY <2>1, <2>3, <2>5 DEF EndOfWork, WorkIn
  <2> QED
    BY <2>4, <2>5
<1> QED
  BY <1>2, <1>3

LEMMA NoWorkParts ==
  NoWork.group = <<>> /\ NoWork.todo = <<>> /\ \A U : WorkIn(NoWork, U)
<1> DEFINE s == <<>>
<1>1. s \in Seq(Update) /\ LastOf(s) = {} /\ \A U : UpdatesIn(s, U)
  BY DEF LastOf, UpdatesIn
<1>2. NoWork = Load(s)
  BY DEF NoWork
<1>3. WorkShape(NoWork) /\ EndOfWork(NoWork) = {} /\ \A U : WorkIn(NoWork, U)
  <2> HIDE DEF s
  <2> QED
    BY <1>1, <1>2, LoadParts, NoWorkShape
<1>4. NoWork.todo \in Seq(Update) /\ NoWork.group \in Seq(Block)
  BY <1>3 DEF WorkShape
<1>5. NoWork.todo = <<>> /\ NoWork.group = <<>>
  BY <1>3, <1>4 DEF EndOfWork, LastOf
<1> QED
  BY <1>3, <1>5

LEMMA SomeEnd ==
  ASSUME NEW w
  PROVE  (w.group # <<>> \/ w.todo # <<>>) <=> EndOfWork(w) # {}
  BY DEF EndOfWork, LastOf

LEMMA EverKept ==
  ASSUME UNCHANGED <<tip, left>>
  PROVE  Ever' = Ever
  BY DEF Ever, Chain

LEMMA TipEver ==
  ASSUME tip \in Block
  PROVE  tip \in Ever /\ tip \in Chain /\ Chain \subseteq Block
  BY PathHeights DEF Ever, Chain

(* A run that has ended follows nothing.                                   *)
LEMMA StopFollows ==
  ASSUME EverInv, NEW to \in {"down", "failed"}, Stop(to), UNCHANGED <<tip, left, startHead>>
  PROVE  EverInv' /\ FollowInv'
<1>1. /\ run' # "up" /\ work' = NoWork /\ recovery' = NoRecovery
      /\ queue' = <<>> /\ feed' = NoBlock
  BY DEF Stop
<1>2. NoRecovery.step = "none"
  BY DEF NoRecovery
<1>3. EverInv'
  <2>1. UpdatesIn(queue', Ever) /\ WorkIn(work', Ever)
    BY <1>1, NoWorkParts DEF UpdatesIn
  <2>2. Ever' = Ever
    BY EverKept
  <2>3. ~Found'
    BY <1>1, <1>2 DEF Found
  <2> QED
    BY <1>1, <2>1, <2>2, <2>3 DEF EverInv
<1>4. EndOfWork(work') = {} /\ work'.group = <<>> /\ work'.todo = <<>>
  BY <1>1, NoWorkParts, SomeEnd
<1>5. Idle' /\ Due' = {} /\ ~Found' /\ recovery'.step = "none"
  BY <1>1, <1>2, <1>4 DEF Idle, Due, Found
<1> QED
  BY <1>1, <1>3, <1>4, <1>5 DEF FollowInv

(* The steps that leave the chain, the feed, the worker and the applied    *)
(* block alone.                                                            *)
LEMMA SameFollows ==
  ASSUME EverInv, FollowInv, mem'.applied = mem.applied,
         UNCHANGED <<tip, left, feed, queue, run, startHead, work, recovery>>
  PROVE  EverInv' /\ FollowInv'
<1>1. Ever' = Ever /\ Due' = Due /\ Item' = Item /\ (Found' <=> Found) /\ (Idle' <=> Idle)
  BY EverKept DEF Due, Item, Found, Idle
<1>2. EverInv'
  BY <1>1 DEF EverInv
<1>3. FollowInv'
  BY <1>1 DEF FollowInv, Meets
<1> QED
  BY <1>2, <1>3

(* A step of the worker on what it has taken, with no recovery after it.   *)
LEMMA WorkFollows ==
  ASSUME EverInv, FollowInv, run = "up", WorkIn(work', Ever), recovery'.step = "none",
         UNCHANGED <<tip, left, feed, queue, run, startHead>>, mem'.applied \in Ever,
         EndOfWork(work') # {} => EndOfWork(work') = EndOfWork(work),
         EndOfWork(work') = {} /\ queue = <<>> => Meets(mem'.applied, feed)
  PROVE  EverInv' /\ FollowInv'
<1>1. Ever' = Ever /\ ~Found'
  BY EverKept DEF Found
<1>2. EverInv'
  BY <1>1 DEF EverInv
<1>3. \A b \in Due' : feed' = b
  <2>1. Due' \subseteq Due
    BY DEF Due
  <2> QED
    BY <2>1 DEF FollowInv
<1>4. Due' = {} => Meets(mem'.applied, feed')
  <2> SUFFICES ASSUME Due' = {}
               PROVE  Meets(mem'.applied, feed')
    OBVIOUS
  <2>1. queue = <<>> /\ EndOfWork(work') = {}
    BY DEF Due, LastOf
  <2> QED
    BY <2>1
<1>5. Meets(mem'.applied, feed') => Meets(mem.applied, feed)'
  BY DEF Meets
<1> QED
  BY <1>1, <1>2, <1>3, <1>4, <1>5 DEF FollowInv

(* A group that is tried again.                                            *)
LEMMA AgainFollows ==
  ASSUME Shape, EverInv, FollowInv, run = "up", work.group # <<>>,
         work' = [work EXCEPT !.at = 1, !.read = EmptyMap, !.alone = FALSE, !.retries = @ + 1],
         recovery' = NoRecovery, mem'.applied = mem.applied,
         UNCHANGED <<tip, left, feed, queue, run, startHead>>
  PROVE  EverInv' /\ FollowInv'
<1>1. work'.group = work.group /\ work'.todo = work.todo /\ work'.read = EmptyMap
  BY DEF Shape, WorkShape
<1>2. Stored(EmptyMap) = {} /\ NoRecovery.step = "none"
  BY DEF Stored, EmptyMap, NoRecovery
<1>3. WorkIn(work', Ever)
  BY <1>1, <1>2 DEF EverInv, WorkIn
<1>4. EndOfWork(work') = EndOfWork(work) /\ EndOfWork(work) # {}
  BY <1>1, SomeEnd DEF EndOfWork
<1>5. mem'.applied \in Ever
  BY DEF EverInv
<1> QED
  BY <1>2, <1>3, <1>4, <1>5, WorkFollows

(* An item that is done, and that the applied block meets.                 *)
LEMMA ItemFollows ==
  ASSUME Shape, EverInv, FollowInv, run = "up", work.group # <<>>,
         work' = Finished(work), recovery'.step = "none",
         mem'.applied \in Ever, Meets(mem'.applied, Item),
         UNCHANGED <<tip, left, feed, queue, run, startHead>>
  PROVE  EverInv' /\ FollowInv'
<1>1. WorkShape(work) /\ WorkIn(work, Ever)
  BY DEF Shape, EverInv
<1>2. /\ \/ EndOfWork(work') = EndOfWork(work)
         \/ EndOfWork(work') = {} /\ EndOfWork(work) = {Item}
      /\ WorkIn(work', Ever)
  BY <1>1, FinishedParts DEF Item
<1>3. EndOfWork(work) # {}
  BY SomeEnd
<1>4. ASSUME EndOfWork(work') = {}, queue = <<>>
      PROVE  Meets(mem'.applied, feed)
  <2>1. Due = {Item}
    BY <1>2, <1>3, <1>4 DEF Due
  <2> QED
    BY <2>1 DEF FollowInv
<1> QED
  BY <1>2, <1>3, <1>4, WorkFollows

(* What is left of the taken updates, after a group or a revert.           *)
LEMMA RestFollows ==
  ASSUME Shape, EverInv, FollowInv, run = "up",
         work' = Load(work.todo), recovery'.step = "none", mem'.applied \in Ever,
         work.todo = <<>> /\ queue = <<>> => Meets(mem'.applied, feed),
         UNCHANGED <<tip, left, feed, queue, run, startHead>>
  PROVE  EverInv' /\ FollowInv'
<1>1. work.todo \in Seq(Update) /\ UpdatesIn(work.todo, Ever)
  BY DEF Shape, WorkShape, EverInv, WorkIn
<1>2. EndOfWork(work') = LastOf(work.todo) /\ WorkIn(work', Ever)
  BY <1>1, LoadParts
<1>3. EndOfWork(work') # {} => EndOfWork(work') = EndOfWork(work)
  BY <1>2 DEF LastOf, EndOfWork
<1>4. EndOfWork(work') = {} => work.todo = <<>>
  BY <1>2 DEF LastOf
<1> QED
  BY <1>2, <1>3, <1>4, WorkFollows

LEMMA QuietApplied ==
  ASSUME MemoryShape(mem), NEW B, NEW scanned, NEW missed,
         NEW result \in Quiet(B, scanned, missed), mem' = result.mem
  PROVE  mem'.applied = mem.applied
<1>0. result \in Quiet(B, scanned, missed)
  OBVIOUS
<1>1. PICK c : /\ c = TheQuiet(B, scanned, missed) /\ result = Outcome(c, seen, Verdicts(c))
               /\ c.st = store /\ c.m = mem /\ c.B = B /\ ~c.live
  BY ONLY <1>0, QuietOutcome
<1>2. MemoryShape(c.m)
  BY <1>1
<1>3. result.mem.applied = IF c.live THEN c.progress ELSE c.m.applied
  BY ONLY <1>1, <1>2, OutcomeState
<1> QED
  BY <1>1, <1>3

LEMMA LiveApplied ==
  ASSUME MemoryShape(mem), NEW B, NEW next, CommitLive(B, next)
  PROVE  \/ Stop("failed") /\ UNCHANGED <<tip, left, startHead>>
         \/ /\ mem'.applied = Highest(B) /\ work' = next
            /\ UNCHANGED <<tip, left, feed, queue, run, startHead, recovery>>
<1> DEFINE active == ActivateLive(mem, B)
           c == TheLive(B)
<1>1. CASE Linked(B)
  <2>1. PICK result \in Commit(store, active, seen, B, TRUE, {}, store.missed \ B) :
          mem' = result.mem
    BY <1>1 DEF CommitLive
  <2>2. /\ result = Outcome(c, seen, Verdicts(c)) /\ c.m = active /\ c.live
        /\ c.progress = Highest(B)
    BY <2>1, LiveOutcome
  <2>3. MemoryShape(active)
    BY ActivateShape
  <2> HIDE DEF c, active
  <2>4. MemoryShape(c.m)
    BY <2>2, <2>3
  <2>5. result.mem.applied = IF c.live THEN c.progress ELSE c.m.applied
    BY ONLY <2>2, <2>4, OutcomeState
  <2> QED
    BY <1>1, <2>1, <2>2, <2>5 DEF CommitLive
<1>2. CASE ~Linked(B)
  BY <1>2 DEF CommitLive
<1> QED
  BY <1>1, <1>2

LEMMA LiveFollows ==
  ASSUME Shape, EverInv, FollowInv, LiveGroup \/ CommitMissing \/ CommitItem
  PROVE  EverInv' /\ FollowInv'
<1>1. /\ run = "up" /\ recovery.step = "none" /\ work.group # <<>>
      /\ mem.applied \in Block /\ WorkShape(work) /\ MemoryShape(mem) /\ WorkIn(work, Ever)
  BY DEF LiveGroup, CommitMissing, CommitItem, LiveStep, OnItem, WorkerReady, Shape, EverInv
<1>2. work.at \in DOMAIN work.group /\ Item \in Block /\ Item \in Ever
  BY <1>1 DEF WorkShape, WorkIn, Item
<1>3. CASE LiveGroup
  <2> DEFINE B == Range(work.group)
             last == work.group[Len(work.group)]
  <2>1. LiveRun(B, mem.applied) /\ Highest(B) = last
    BY <1>1, <1>3, GroupRun DEF LiveGroup, IsGroup, WorkShape
  <2>2. CommitLive(B, Load(work.todo))
    BY <1>3 DEF LiveGroup
  <2>3. last \in Ever
    <3>1. Len(work.group) \in DOMAIN work.group
      BY <1>1 DEF WorkShape
    <3> QED
      BY <1>1, <3>1 DEF WorkIn
  <2> HIDE DEF B
  <2>4. CASE Stop("failed") /\ UNCHANGED <<tip, left, startHead>>
    BY <2>4, StopFollows
  <2>5. CASE /\ mem'.applied = Highest(B) /\ work' = Load(work.todo)
             /\ UNCHANGED <<tip, left, feed, queue, run, startHead, recovery>>
    <3>1. ASSUME work.todo = <<>>, queue = <<>>
          PROVE  Meets(mem'.applied, feed)
      <4>1. Due = {last}
        BY <1>1, <3>1 DEF Due, EndOfWork
      <4> QED
        BY <2>1, <2>5, <4>1 DEF FollowInv, Meets
    <3> QED
      BY <1>1, <2>1, <2>3, <2>5, <3>1, RestFollows
  <2> QED
    BY <1>1, <2>2, <2>4, <2>5, LiveApplied
<1>4. CASE CommitMissing
  <2> DEFINE B == Stored(work.read)
             next == [work EXCEPT !.read = EmptyMap]
  <2>1. CommitLive(B, next) /\ DOMAIN work.read # {}
        /\ Parent[Lowest(B)] = mem.applied
    BY <1>4 DEF CommitMissing, GapRead
  <2>2. LiveRun(B, mem.applied)
    BY <1>1, <2>1, ReadRun DEF WorkShape
  <2>3. Highest(B) \in Ever
    <3>1. Highest(B) \in B
      BY <2>2, HighestOf DEF LiveRun
    <3> QED
      BY <1>1, <3>1 DEF WorkIn
  <2>4. next.group = work.group /\ next.todo = work.todo /\ next.read = EmptyMap
    BY <1>1 DEF WorkShape
  <2>5. Stored(EmptyMap) = {}
    BY DEF Stored, EmptyMap
  <2> HIDE DEF B, next
  <2>6. WorkIn(next, Ever) /\ EndOfWork(next) = EndOfWork(work) /\ EndOfWork(work) # {}
    BY <1>1, <2>4, <2>5, SomeEnd DEF WorkIn, EndOfWork
  <2>7. CASE Stop("failed") /\ UNCHANGED <<tip, left, startHead>>
    BY <2>7, StopFollows
  <2>8. CASE /\ mem'.applied = Highest(B) /\ work' = next
             /\ UNCHANGED <<tip, left, feed, queue, run, startHead, recovery>>
    BY <1>1, <2>3, <2>6, <2>8, WorkFollows
  <2> QED
    BY <1>1, <2>1, <2>7, <2>8, LiveApplied
<1>5. CASE CommitItem
  <2> DEFINE B == {Item}
  <2>1. CommitLive(B, Finished(work))
    BY <1>5 DEF CommitItem
  <2>2. Highest(B) = Item
    <3>1. B \subseteq Block /\ B # {} /\ IsFiniteSet(B)
      BY <1>2, FS_Singleton
    <3>2. Highest(B) \in B
      <4> HIDE DEF B
      <4> QED
        BY <3>1, HighestOf
    <3> QED
      BY <3>2
  <2> HIDE DEF B
  <2>3. CASE Stop("failed") /\ UNCHANGED <<tip, left, startHead>>
    BY <2>3, StopFollows
  <2>4. CASE /\ mem'.applied = Highest(B) /\ work' = Finished(work)
             /\ UNCHANGED <<tip, left, feed, queue, run, startHead, recovery>>
    <3>1. mem'.applied \in Ever /\ Meets(mem'.applied, Item)
      BY <1>2, <2>2, <2>4 DEF Meets
    <3> QED
      BY <1>1, <2>4, <3>1, ItemFollows
  <2> QED
    BY <1>1, <2>1, <2>3, <2>4, LiveApplied
<1> QED
  BY <1>3, <1>4, <1>5

(* Taking from the queue, and the steps that start a recovery.             *)
LEMMA TakeFollows ==
  ASSUME Shape, EverInv, FollowInv, Take
  PROVE  EverInv' /\ FollowInv'
<1>1. /\ run = "up" /\ recovery.step = "none"
      /\ work' = Load(queue) /\ queue' = <<>> /\ queue # <<>>
      /\ UNCHANGED <<tip, left, feed, mem, run, startHead, recovery>>
  BY DEF Take, WorkerReady
<1>2. EndOfWork(work') = LastOf(queue) /\ WorkIn(work', Ever) /\ UpdatesIn(queue', Ever)
  <2>1. queue \in Seq(Update) /\ UpdatesIn(queue, Ever)
    BY DEF Shape, EverInv
  <2> QED
    BY <1>1, <2>1, LoadParts DEF UpdatesIn
<1>3. LastOf(queue) # {}
  BY <1>1 DEF LastOf
<1>4. Due = LastOf(queue) /\ Due' = LastOf(queue)
  BY <1>1, <1>2, <1>3 DEF Due
<1>5. Ever' = Ever /\ ~Found'
  BY <1>1, EverKept DEF Found
<1>6. EverInv'
  BY <1>1, <1>2, <1>5 DEF EverInv
<1> QED
  BY <1>1, <1>3, <1>4, <1>5, <1>6 DEF FollowInv

LEMMA SkipFollows ==
  ASSUME Shape, EverInv, FollowInv, Skip
  PROVE  EverInv' /\ FollowInv'
<1>1. /\ run = "up" /\ recovery.step = "none" /\ work.group # <<>>
      /\ Number[Item] < Number[mem.applied] \/ Item = mem.applied
      /\ work' = Finished(work)
      /\ UNCHANGED <<tip, left, feed, queue, mem, run, startHead, recovery>>
  BY DEF Skip, LiveStep, OnItem, WorkerReady
<1>2. mem.applied \in Ever /\ mem.applied \in Block /\ Item \in Block
  BY <1>1 DEF EverInv, Shape, WorkShape, Item
<1>3. Meets(mem.applied, Item)
  <2>1. Number[Item] \in Nat /\ Number[mem.applied] \in Nat
    BY <1>2, TreeAssumption
  <2> QED
    BY <1>1, <2>1 DEF Meets
<1>4. mem'.applied \in Ever /\ Meets(mem'.applied, Item)
  BY <1>1, <1>2, <1>3
<1> QED
  BY <1>1, <1>4, ItemFollows

LEMMA ReadFollows ==
  ASSUME Shape, EverInv, FollowInv, NEW n \in Missing, ReadMissing(n)
  PROVE  EverInv' /\ FollowInv'
<1>1. /\ run = "up" /\ recovery.step = "none" /\ work.group # <<>>
      /\ work' = [work EXCEPT !.read = Put(@, {At(n)}), !.alone = TRUE]
      /\ At(n) # NoBlock /\ WorkShape(work) /\ WorkIn(work, Ever)
      /\ UNCHANGED <<tip, left, feed, queue, mem, run, startHead, recovery>>
  BY DEF ReadMissing, LiveStep, OnItem, WorkerReady, Shape, EverInv
<1>2. n \in Nat /\ tip \in Block
  <2>1. Item \in Block /\ mem.applied \in Block
    BY <1>1 DEF WorkShape, Item, Shape
  <2>2. Number[mem.applied] \in Nat /\ Number[Item] \in Nat
    BY <2>1, TreeAssumption
  <2> QED
    BY <1>1, <2>2 DEF Missing, Shape
<1>3. At(n) \in Ever
  BY <1>1, <1>2, AtNumber DEF Ever
<1> DEFINE b == At(n)
           f == Put(work.read, {b})
<1> HIDE DEF b
<1>4. Stored(f) \subseteq Stored(work.read) \cup {b}
  BY DEF Stored, Put, Heights
<1> HIDE DEF f
<1>5. work'.group = work.group /\ work'.todo = work.todo /\ work'.read = f
  BY <1>1 DEF f, b, WorkShape
<1>6. WorkIn(work', Ever) /\ EndOfWork(work') = EndOfWork(work) /\ EndOfWork(work) # {}
  BY <1>1, <1>3, <1>4, <1>5, SomeEnd DEF WorkIn, EndOfWork, b
<1>7. mem'.applied \in Ever
  BY <1>1 DEF EverInv
<1> QED
  BY <1>1, <1>6, <1>7, WorkFollows

(* A recovery: where it starts, what it reads and what it leaves.          *)
LEMMA RecoverFollows ==
  ASSUME Shape, EverInv, FollowInv, Recover \/ ReadLatest \/ Search
  PROVE  EverInv' /\ FollowInv'
<1>0. RecoveryShape(recovery) /\ WorkShape(work) /\ WorkIn(work, Ever) /\ tip \in Block
  BY DEF Shape, EverInv
<1>1. ASSUME UNCHANGED <<tip, left, feed, queue, mem, run, startHead, work>>, run = "up",
             work.group # <<>>, recovery'.step \in {"latest", "search", "invalidate"},
             Found' => recovery'.latest \in Ever /\ Meets(recovery'.latest, Item)
      PROVE  EverInv' /\ FollowInv'
  <2>1. Ever' = Ever /\ Item' = Item
    BY <1>1, EverKept DEF Item
  <2>2. EverInv'
    BY <1>1, <2>1 DEF EverInv
  <2>3. Due' = Due /\ Due # {}
    <3>1. EndOfWork(work) # {}
      BY <1>1, SomeEnd
    <3> QED
      BY <1>1, <3>1 DEF Due, LastOf
  <2>4. Found' => Meets(recovery'.latest, Item')
    BY <1>1, <2>1
  <2>5. \A b, f : Meets(b, f) => (b = f \/ Number[b] > Number[f] \/ f \in left')
    BY <1>1 DEF Meets
  <2>6. Found' => Meets(recovery.latest, Item)'
    BY <2>4, <2>5 DEF Meets
  <2> QED
    BY <1>1, <2>2, <2>3, <2>6 DEF FollowInv
<1>2. CASE Recover
  <2>1. /\ run = "up" /\ work.group # <<>>
        /\ recovery' = [NoRecovery EXCEPT !.step = "latest"]
        /\ UNCHANGED <<tip, left, feed, queue, mem, run, startHead, work>>
    BY <1>2 DEF Recover, LiveStep, OnItem, WorkerReady
  <2>2. recovery'.step = "latest" /\ ~Found'
    BY <2>1 DEF NoRecovery, Found
  <2> QED
    BY <1>1, <2>1, <2>2
<1>3. CASE ReadLatest
  <2>1. /\ run = "up" /\ recovery.step = "latest"
        /\ recovery' = [recovery EXCEPT !.step = "search", !.latest = tip]
        /\ UNCHANGED <<tip, left, feed, queue, mem, run, startHead, work>>
    BY <1>3 DEF ReadLatest
  <2>2. recovery'.step = "search" /\ recovery'.latest = tip
    BY <1>0, <2>1 DEF RecoveryShape
  <2>3. work.group # <<>>
    BY <2>1 DEF FollowInv
  <2>4. Item \in Ever /\ Item \in Block
    BY <1>0, <2>3 DEF WorkShape, WorkIn, Item
  <2>5. Meets(tip, Item)
    <3>1. Number[Item] <= Number[tip] /\ Number[Item] \in Nat /\ Number[tip] \in Nat
      BY <1>0, <2>4, TreeAssumption DEF EverInv
    <3>2. CASE Item \in left
      BY <3>2 DEF Meets
    <3>3. CASE Item \in Chain
      <4>1. Number[Item] = Number[tip] => Item = tip
        BY <1>0, <3>3, PathHeights DEF Chain
      <4> QED
        BY <3>1, <4>1 DEF Meets
    <3> QED
      BY <2>4, <3>2, <3>3 DEF Ever
  <2>6. tip \in Ever
    BY <1>0, TipEver
  <2> QED
    BY <1>1, <2>1, <2>2, <2>3, <2>5, <2>6
<1>4. CASE Search
  <2> DEFINE recent == Recent(Number[mem.applied])
             ancestor == Highest({b \in recent : Number[b] <= Number[recovery.latest]
                                                   /\ b \in Chain})
             forkTime == ForkTime(recent, ancestor, recovery.latest)
  <2>1. /\ run = "up" /\ recovery.step = "search"
        /\ \/ Stop("failed") /\ UNCHANGED <<tip, left, startHead>>
           \/ /\ recovery' = [recovery EXCEPT !.step = "invalidate", !.ancestor = ancestor,
                                !.forkTime = forkTime]
              /\ UNCHANGED <<tip, left, feed, queue, mem, run, startHead, work>>
    BY <1>4 DEF Search
  <2> HIDE DEF ancestor, forkTime
  <2>2. CASE Stop("failed") /\ UNCHANGED <<tip, left, startHead>>
    BY <2>2, StopFollows
  <2>3. CASE /\ recovery' = [recovery EXCEPT !.step = "invalidate", !.ancestor = ancestor,
                               !.forkTime = forkTime]
             /\ UNCHANGED <<tip, left, feed, queue, mem, run, startHead, work>>
    <3>1. recovery'.step = "invalidate" /\ recovery'.latest = recovery.latest
      BY <1>0, <2>3 DEF RecoveryShape
    <3>2. Found /\ work.group # <<>>
      BY <2>1 DEF Found, FollowInv
    <3>3. recovery.latest \in Ever /\ Meets(recovery.latest, Item)
      BY <3>2 DEF EverInv, FollowInv
    <3> QED
      BY <1>1, <2>1, <2>3, <3>1, <3>2, <3>3
  <2> QED
    BY <2>1, <2>2, <2>3
<1> QED
  BY <1>2, <1>3, <1>4

LEMMA RevertFollows ==
  ASSUME Shape, EverInv, FollowInv, Revert
  PROVE  EverInv' /\ FollowInv'
<1> DEFINE todo == work.todo
           b == todo[1].block
           forkTime == ForkTime(Recent(Number[b] + 1), b, b)
<1>1. /\ run = "up" /\ recovery.step = "none" /\ work.group = <<>> /\ todo # <<>>
      /\ recovery' = [step |-> "invalidate", latest |-> b, ancestor |-> b,
                      forkTime |-> forkTime]
      /\ work' = [work EXCEPT !.todo = Tail(todo)]
      /\ UNCHANGED <<tip, left, feed, queue, mem, run, startHead>>
  BY DEF Revert, WorkerReady
<1>2. WorkShape(work) /\ WorkIn(work, Ever) /\ todo \in Seq(Update)
  BY DEF Shape, EverInv, WorkShape
<1> HIDE DEF forkTime
<1>3. recovery'.step = "invalidate" /\ recovery'.latest = b
  BY <1>1
<1>4. /\ work'.group = <<>> /\ work'.todo = Tail(todo) /\ work'.read = work.read
  BY <1>1, <1>2 DEF WorkShape
<1> HIDE DEF todo
<1>5. PICK k \in Nat : k = Len(todo) /\ DOMAIN todo = 1..k /\ k >= 1
  BY <1>1, <1>2
<1>6. /\ Tail(todo) \in Seq(Update) /\ Len(Tail(todo)) = k - 1
      /\ \A i \in 1..(k - 1) : Tail(todo)[i] = todo[i + 1]
  BY <1>1, <1>2, <1>5
<1>7. UpdatesIn(todo, Ever) /\ b \in Ever
  BY <1>2, <1>5 DEF WorkIn, UpdatesIn, todo
<1>8. WorkIn(work', Ever)
  <2>1. DOMAIN Tail(todo) = 1..(k - 1)
    BY <1>6
  <2>2. \A i \in 1..(k - 1) : i + 1 \in 1..k
    BY ONLY <1>5
  <2>3. UpdatesIn(Tail(todo), Ever)
    BY <1>5, <1>6, <1>7, <2>1, <2>2 DEF UpdatesIn
  <2> QED
    BY <1>2, <1>4, <2>3 DEF WorkIn
<1>9. Due' = Due
  <2>1. EndOfWork(work) = LastOf(todo) /\ LastOf(todo) = {todo[k].block}
    BY <1>1, <1>5 DEF EndOfWork, LastOf, todo
  <2>2. Due = IF queue # <<>> THEN LastOf(queue) ELSE {todo[k].block}
    BY <2>1 DEF Due
  <2>3. CASE k = 1
    <3>0. k - 1 = 0
      BY <2>3
    <3>1. Tail(todo) = <<>>
      <4> DEFINE rest == Tail(todo)
      <4>1. rest \in Seq(Update) /\ Len(rest) = 0
        BY <1>6, <3>0
      <4> HIDE DEF rest
      <4>2. rest = <<>>
        BY <4>1
      <4> QED
        BY <4>2 DEF rest
    <3>2. EndOfWork(work') = {}
      BY <1>4, <3>1 DEF EndOfWork
    <3>3. b = todo[k].block
      BY <2>3
    <3> QED
      BY <1>1, <1>3, <2>2, <3>2, <3>3 DEF Due
  <2>4. CASE k # 1
    <3>0. k - 1 \in 1..(k - 1) /\ (k - 1) + 1 = k
      BY ONLY <1>5, <2>4
    <3>1. Tail(todo) # <<>> /\ Tail(todo)[Len(Tail(todo))] = todo[k]
      <4> DEFINE rest == Tail(todo)
      <4>1. rest \in Seq(Update) /\ Len(rest) = k - 1 /\ rest[k - 1] = todo[k]
        BY <1>6, <3>0
      <4>2. k - 1 # 0
        BY ONLY <1>5, <2>4
      <4> HIDE DEF rest
      <4>3. rest # <<>> /\ rest[Len(rest)] = todo[k]
        BY <4>1, <4>2
      <4> QED
        BY <4>3 DEF rest
    <3>2. EndOfWork(work') = {todo[k].block}
      BY <1>4, <3>1 DEF EndOfWork, LastOf
    <3> QED
      BY <1>1, <2>2, <3>2 DEF Due
  <2> QED
    BY <2>3, <2>4
<1>10. Due # {}
  <2>1. EndOfWork(work) # {}
    BY <1>1, SomeEnd DEF todo
  <2> QED
    BY <2>1 DEF Due, LastOf
<1>11. Ever' = Ever
  BY <1>1, EverKept
<1>12. EverInv'
  BY <1>1, <1>3, <1>7, <1>8, <1>11 DEF EverInv
<1> QED
  BY <1>1, <1>3, <1>4, <1>9, <1>10, <1>12 DEF FollowInv

LEMMA ReseedFollows ==
  ASSUME Shape, EverInv, FollowInv, Reseed
  PROVE  EverInv' /\ FollowInv'
<1> DEFINE b == recovery.latest
           through == IF plan.history = "none" THEN {} ELSE {Number[b]}
<1>1. /\ run = "up" /\ recovery.step = "invalidate"
      /\ mem' = [FreshMemory EXCEPT !.applied = b, !.liveThrough = through]
      /\ recovery' = [recovery EXCEPT !.step = "rebuild"]
      /\ UNCHANGED <<tip, left, feed, queue, run, startHead, work>>
  BY DEF Reseed
<1>2. recovery'.step = "rebuild" /\ recovery'.latest = b
  BY <1>1 DEF Shape, RecoveryShape
<1> HIDE DEF through
<1>3. mem'.applied = b
  BY <1>1 DEF FreshMemory
<1>4. Found /\ Found' /\ Ever' = Ever /\ Item' = Item
  BY <1>1, <1>2, EverKept DEF Found, Item
<1>5. EverInv'
  BY <1>1, <1>2, <1>3, <1>4 DEF EverInv
<1>6. Due' = Due /\ Due # {}
  BY <1>1, <1>2 DEF Due, LastOf
<1>7. work.group # <<>> => Meets(recovery.latest, Item)'
  BY <1>1, <1>2, <1>4 DEF FollowInv, Meets
<1> QED
  BY <1>1, <1>2, <1>3, <1>5, <1>6, <1>7 DEF FollowInv

LEMMA RebuildFollows ==
  ASSUME Shape, EverInv, FollowInv, Rebuild
  PROVE  EverInv' /\ FollowInv'
<1> DEFINE cut == IF recovery.forkTime > Interval THEN recovery.forkTime - Interval ELSE 0
           retained == {b \in Stored(store.batches) : Time[b] >= cut}
           next == IF work.group = <<>> THEN Load(work.todo) ELSE Finished(work)
<1>1. /\ run = "up" /\ recovery.step = "rebuild"
      /\ \/ Stop("failed") /\ UNCHANGED <<tip, left, startHead>>
         \/ /\ \/ UNCHANGED mem
               \/ \E result \in Commit(store, mem, seen, retained, FALSE, {}, store.missed) :
                    mem' = result.mem
            /\ recovery' = NoRecovery /\ work' = next
            /\ UNCHANGED <<tip, left, feed, queue, run, startHead>>
  BY DEF Rebuild
<1> HIDE DEF retained
<1>2. CASE Stop("failed") /\ UNCHANGED <<tip, left, startHead>>
  BY <1>2, StopFollows
<1>3. CASE /\ \/ UNCHANGED mem
              \/ \E result \in Commit(store, mem, seen, retained, FALSE, {}, store.missed) :
                   mem' = result.mem
           /\ recovery' = NoRecovery /\ work' = next
           /\ UNCHANGED <<tip, left, feed, queue, run, startHead>>
  <2>1. MemoryShape(mem)
    BY DEF Shape
  <2>2. mem'.applied = mem.applied
    <3>1. CASE UNCHANGED mem
      BY <3>1
    <3>2. CASE \E result \in Commit(store, mem, seen, retained, FALSE, {}, store.missed) :
                 mem' = result.mem
      <4>1. PICK result \in Quiet(retained, {}, store.missed) : mem' = result.mem
        BY <3>2 DEF Quiet
      <4> QED
        BY <2>1, <4>1, QuietApplied
    <3> QED
      BY <1>3, <3>1, <3>2
  <2>3. /\ recovery'.step = "none" /\ mem'.applied = recovery.latest
        /\ mem'.applied \in Ever /\ Found
    BY <1>1, <1>3, <2>2 DEF NoRecovery, FollowInv, EverInv, Found
  <2>4. CASE work.group = <<>>
    <3>1. work' = Load(work.todo)
      BY <1>3, <2>4
    <3>2. ASSUME work.todo = <<>>, queue = <<>>
          PROVE  Meets(mem'.applied, feed)
      <4>1. Due = {recovery.latest}
        BY <1>1, <2>4, <3>2 DEF Due, EndOfWork
      <4> QED
        BY <2>3, <4>1 DEF FollowInv, Meets
    <3> QED
      BY <1>1, <1>3, <2>3, <3>1, <3>2, RestFollows
  <2>5. CASE work.group # <<>>
    <3>1. work' = Finished(work)
      BY <1>3, <2>5
    <3>2. Meets(mem'.applied, Item)
      BY <2>3, <2>5 DEF FollowInv
    <3> QED
      BY <1>1, <1>3, <2>3, <2>5, <3>1, <3>2, ItemFollows
  <2> QED
    BY <2>4, <2>5
<1> QED
  BY <1>1, <1>2, <1>3

LEMMA FailureFollows ==
  ASSUME Shape, EverInv, FollowInv, StartFails \/ Restart \/ SourceFails \/ SeedFails
  PROVE  EverInv' /\ FollowInv'
<1> DEFINE again == [work EXCEPT !.at = 1, !.read = EmptyMap, !.alone = FALSE,
                                 !.retries = @ + 1]
<1>1. CASE StartFails \/ Restart
  BY <1>1, StopFollows DEF StartFails, Restart
<1>2. CASE SourceFails
  <2>1. /\ run = "up" /\ UNCHANGED <<tip, left, mem, startHead>>
        /\ \/ work' = again /\ recovery' = NoRecovery /\ UNCHANGED <<feed, queue, run>>
           \/ Stop("failed")
    BY <1>2 DEF SourceFails
  <2>2. work.group # <<>>
    BY <1>2 DEF SourceFails, Reading, FollowInv
  <2>3. CASE Stop("failed")
    BY <2>1, <2>3, StopFollows
  <2>4. CASE work' = again /\ recovery' = NoRecovery /\ UNCHANGED <<feed, queue, run>>
    BY <2>1, <2>2, <2>4, AgainFollows
  <2> QED
    BY <2>1, <2>3, <2>4
<1>3. CASE SeedFails
  <2>1. /\ run = "up" /\ UNCHANGED <<tip, left, startHead>>
        /\ mem' = [FreshMemory EXCEPT !.applied = mem.applied]
        /\ \/ /\ work' = again /\ recovery' = NoRecovery /\ UNCHANGED <<feed, queue, run>>
              /\ work.group # <<>>
           \/ Stop("failed")
    BY <1>3 DEF SeedFails
  <2>2. mem'.applied = mem.applied
    BY <2>1 DEF FreshMemory
  <2>3. CASE Stop("failed")
    BY <2>1, <2>3, StopFollows
  <2>4. CASE /\ work' = again /\ recovery' = NoRecovery /\ UNCHANGED <<feed, queue, run>>
             /\ work.group # <<>>
    BY <2>1, <2>2, <2>4, AgainFollows
  <2> QED
    BY <2>1, <2>3, <2>4
<1> QED
  BY <1>1, <1>2, <1>3

LEMMA HistoryFollows ==
  ASSUME Shape, EverInv, FollowInv, History \/ ApplyRetention
  PROVE  EverInv' /\ FollowInv'
<1>1. MemoryShape(mem)
  BY DEF Shape
<1>2. UNCHANGED <<tip, left, feed, queue, run, startHead, work, recovery>>
  BY DEF History, HistoryPick, HistoryLogs, HistoryHeaders, HistoryCommit, HistoryUnchanged,
         ApplyRetention
<1>3. mem'.applied = mem.applied
  <2>1. CASE HistoryPick \/ HistoryLogs \/ HistoryHeaders
    BY <2>1 DEF HistoryPick, HistoryLogs, HistoryHeaders
  <2>2. CASE HistoryCommit
    <3> DEFINE scanned == history.from..history.through
               missed == (store.missed \ history.logs) \cup PassedOver
    <3>1. \/ UNCHANGED mem
          \/ \E result \in Commit(store, mem, seen, history.blocks, FALSE, scanned, missed) :
               mem' = result.mem
      BY <2>2 DEF HistoryCommit
    <3> HIDE DEF scanned, missed
    <3>2. CASE UNCHANGED mem
      BY <3>2
    <3>3. CASE \E result \in Commit(store, mem, seen, history.blocks, FALSE, scanned, missed) :
                 mem' = result.mem
      <4>1. PICK result \in Quiet(history.blocks, scanned, missed) : mem' = result.mem
        BY <3>3 DEF Quiet
      <4> QED
        BY <1>1, <4>1, QuietApplied
    <3> QED
      BY <3>1, <3>2, <3>3
  <2>3. CASE ApplyRetention
    <3> DEFINE fromTime == Time[At(HistoryFrom(mem.applied))]
               open == Restrict(mem.open, {s \in DOMAIN mem.open : EndOf(s) > fromTime})
               cache == Restrict(mem.cache, {s \in DOMAIN mem.cache : s >= fromTime})
               done == {s \in mem.done : s >= fromTime}
    <3>1. mem' = [mem EXCEPT !.open = open, !.cache = cache, !.done = done]
      BY <2>3 DEF ApplyRetention
    <3> HIDE DEF open, cache, done
    <3> QED
      BY <1>1, <3>1 DEF MemoryShape
  <2> QED
    BY <2>1, <2>2, <2>3 DEF History
<1> QED
  BY <1>2, <1>3, SameFollows

(* The chain moves on: what it had been is remembered.                     *)
LEMMA MoveFollows ==
  ASSUME Shape, EverInv, FollowInv, NEW b \in Block, Move(b)
  PROVE  EverInv' /\ FollowInv'
<1>1. /\ tip' = b /\ left' = left \cup (Chain \ Path[b]) /\ Number[b] >= Number[tip]
      /\ UNCHANGED <<feed, queue, mem, run, startHead, work, recovery>>
  BY DEF Move
<1>2. Ever' = Path[b] \cup left \cup Chain
  BY <1>1 DEF Ever, Chain
<1>3. tip \in Block /\ Chain \subseteq Block /\ left \subseteq Block
      /\ Path[b] \subseteq Block
  BY TipEver, PathHeights DEF Shape, EverInv
<1>4. \A x \in Ever' : Number[x] <= Number[b]
  <2>1. \A x \in Path[b] : Number[x] <= Number[b]
    BY PathHeights
  <2>2. \A x \in left \cup Chain : Number[x] <= Number[tip] /\ Number[x] \in Nat
    BY <1>3, TreeAssumption DEF EverInv, Ever
  <2>3. Number[tip] \in Nat /\ Number[b] \in Nat
    BY <1>3, TreeAssumption
  <2> QED
    BY <1>1, <1>2, <2>1, <2>2, <2>3
<1>5. left' \subseteq Block /\ Ever \subseteq Ever'
  BY <1>1, <1>2, <1>3 DEF Ever
<1>6. EverInv'
  <2>1. UpdatesIn(queue, Ever') /\ WorkIn(work, Ever')
    BY <1>5 DEF EverInv, UpdatesIn, WorkIn
  <2>2. (Found' <=> Found) /\ recovery' = recovery
    BY <1>1 DEF Found
  <2>3. UpdatesIn(queue', Ever') /\ WorkIn(work', Ever')
    BY <1>1, <2>1
  <2>4. /\ startHead' \in Ever' /\ (feed' # NoBlock => feed' \in Ever')
        /\ (run' = "up" => mem'.applied \in Ever')
        /\ (Found' => recovery'.latest \in Ever')
    BY <1>1, <1>5, <2>2 DEF EverInv
  <2> QED
    BY <1>1, <1>4, <1>5, <2>3, <2>4 DEF EverInv
<1>7. FollowInv'
  <2>1. Due' = Due /\ Item' = Item /\ (Found' <=> Found) /\ (Idle' <=> Idle)
    BY <1>1 DEF Due, Item, Found, Idle
  <2> QED
    BY <1>1, <2>1 DEF FollowInv, Meets
<1> QED
  BY <1>6, <1>7

LEMMA RunFollows ==
  ASSUME Shape, EverInv, FollowInv, Run
  PROVE  EverInv' /\ FollowInv'
<1>1. /\ run' = "starting" /\ run # "up" /\ startHead' = tip
      /\ queue' = <<>> /\ feed' = NoBlock
      /\ UNCHANGED <<tip, left, work, recovery>>
  BY DEF Run
<1>2. Ever' = Ever /\ tip \in Ever
  BY <1>1, EverKept, TipEver DEF Shape
<1>3. Idle
  BY <1>1 DEF FollowInv
<1>4. Idle' /\ Due' = {} /\ ~Found'
  <2>1. EndOfWork(work) = {}
    BY <1>3, SomeEnd DEF Idle
  <2> QED
    BY <1>1, <1>3, <2>1 DEF Idle, Due, Found
<1>5. EverInv'
  BY <1>1, <1>2, <1>4 DEF EverInv, UpdatesIn
<1> QED
  BY <1>1, <1>4, <1>5 DEF FollowInv, Idle

LEMMA StartUpFollows ==
  ASSUME Shape, EverInv, FollowInv, StartUp
  PROVE  EverInv' /\ FollowInv'
<1> DEFINE row == store.state.block
           resumes == plan.start = "checkpoint" /\ row # NoBlock /\ row \in Chain
           first == IF resumes THEN store ELSE Seeded(store, startHead)
           applied == IF resumes THEN row ELSE startHead
           restored == RestorePartitions(first, applied)
           from == Disowned(restored)
           valid == IF from = {} THEN restored
                    ELSE Seeded(Invalidate(restored, Min(from)), startHead)
           through == IF plan.history = "none" THEN mem.liveThrough ELSE {Number[startHead]}
           started == [mem EXCEPT !.applied = applied, !.done = DOMAIN restored.closed,
                                  !.liveThrough = through]
<1>1. MemoryShape(mem)
  BY DEF Shape
<1>2. applied \in Ever /\ startHead \in Ever
  BY DEF Ever, EverInv
<1>3. /\ run = "starting" /\ run' = "up"
      /\ UNCHANGED <<tip, left, feed, queue, startHead, work, recovery>>
      /\ mem' = IF from = {} THEN started
                ELSE [started EXCEPT !.applied = startHead, !.open = NoRows,
                                     !.cache = FreshMemory.cache, !.done = DOMAIN valid.closed]
  BY DEF StartUp
<1> HIDE DEF applied, restored, from, valid, through
<1>4. mem'.applied \in {applied, startHead}
  BY <1>1, <1>3 DEF MemoryShape
<1>5. Ever' = Ever /\ Idle /\ Idle' /\ Due' = {} /\ ~Found' /\ feed' = NoBlock
  <2>1. Idle
    BY <1>3 DEF FollowInv
  <2>2. EndOfWork(work) = {}
    BY <2>1, SomeEnd DEF Idle
  <2> QED
    BY <1>3, <2>1, <2>2, EverKept DEF Idle, Due, Found
<1>6. EverInv'
  BY <1>2, <1>3, <1>4, <1>5 DEF EverInv
<1> QED
  BY <1>5, <1>6 DEF FollowInv, Idle

(* What the feed sends is on the chain, and is due from then on.           *)
LEMMA OfferFollows ==
  ASSUME Shape, EverInv, FollowInv, NEW update \in Update, update.block \in Chain,
         Offer(update)
  PROVE  EverInv' /\ FollowInv'
<1>1. /\ run = "up" /\ queue' = Append(queue, update) /\ feed' = update.block
      /\ UNCHANGED <<tip, left, mem, run, startHead, work, recovery>>
  BY DEF Offer
<1>2. queue \in Seq(Update) /\ UpdatesIn(queue, Ever) /\ update.block \in Ever
  BY DEF Shape, EverInv, Ever
<1>3. PICK k \in Nat : k = Len(queue) /\ DOMAIN queue = 1..k
  BY <1>2
<1>4. /\ DOMAIN queue' = 1..(k + 1) /\ Len(queue') = k + 1 /\ queue'[k + 1] = update
      /\ \A i \in 1..k : queue'[i] = queue[i]
      /\ queue' # <<>>
  BY <1>1, <1>2, <1>3
<1>5. UpdatesIn(queue', Ever) /\ Due' = {feed'}
  <2>1. \A i \in 1..(k + 1) : i \in 1..k \/ i = k + 1
    BY ONLY <1>3
  <2>2. UpdatesIn(queue', Ever)
    BY <1>2, <1>3, <1>4, <2>1 DEF UpdatesIn
  <2> QED
    BY <1>1, <1>4, <2>2 DEF Due, LastOf
<1>6. Ever' = Ever /\ Item' = Item /\ (Found' <=> Found)
  BY <1>1, EverKept DEF Item, Found
<1>7. EverInv'
  BY <1>1, <1>2, <1>5, <1>6 DEF EverInv
<1> QED
  BY <1>1, <1>5, <1>6, <1>7 DEF FollowInv, Meets

LEMMA FeedFollows ==
  ASSUME Shape, EverInv, FollowInv, Feed
  PROVE  EverInv' /\ FollowInv'
<1>1. \A b \in Block : /\ ApplyOf(b) \in Update /\ ApplyOf(b).block = b
                       /\ RevertTo(b) \in Update /\ RevertTo(b).block = b
  BY DEF ApplyOf, RevertTo, Update
<1>2. Chain \subseteq Block
  BY TipEver DEF Shape
<1>3. CASE FeedFirst
  <2>1. PICK b \in Chain : Offer(ApplyOf(b)) \/ Offer(RevertTo(b))
    BY <1>3 DEF FeedFirst
  <2> QED
    BY <1>1, <1>2, <2>1, OfferFollows
<1>4. CASE FeedNext
  <2>1. PICK b \in Chain : Offer(ApplyOf(b))
    BY <1>4 DEF FeedNext
  <2> QED
    BY <1>1, <1>2, <2>1, OfferFollows
<1>5. CASE FeedRevert
  <2> DEFINE B == Path[feed] \cap Chain
  <2>1. B # {} /\ Offer(RevertTo(Highest(B)))
    BY <1>5 DEF FeedRevert
  <2>2. B \subseteq Block /\ IsFiniteSet(B) /\ B \subseteq Chain
    <3>1. B \in SUBSET Path[tip]
      BY DEF Chain
    <3>2. IsFiniteSet(Path[tip])
      BY PathFinite DEF Shape
    <3> QED
      BY <1>2, <3>1, <3>2, FS_Subset
  <2>3. Highest(B) \in B
    <3> HIDE DEF B
    <3> QED
      BY <2>1, <2>2, HighestOf
  <2>4. Highest(B) \in Chain /\ Highest(B) \in Block
    BY <2>2, <2>3
  <2> HIDE DEF B
  <2> QED
    BY <1>1, <2>1, <2>4, OfferFollows
<1> QED
  BY <1>3, <1>4, <1>5 DEF Feed

LEMMA FollowStep ==
  ASSUME Shape, EverInv, FollowInv, [Next]_vars
  PROVE  EverInv' /\ FollowInv'
<1>1. CASE \E b \in Block : Move(b)
  BY <1>1, MoveFollows
<1>2. CASE Run \/ StartUp
  BY <1>2, RunFollows, StartUpFollows
<1>3. CASE StartFails \/ Restart \/ SourceFails \/ SeedFails
  BY <1>3, FailureFollows
<1>4. CASE Feed
  BY <1>4, FeedFollows
<1>5. CASE Worker
  BY <1>5, TakeFollows, LiveFollows, SkipFollows, ReadFollows, RecoverFollows, RevertFollows,
     ReseedFollows, RebuildFollows DEF Worker
<1>6. CASE History \/ ApplyRetention
  BY <1>6, HistoryFollows
<1>7. CASE UNCHANGED vars
  BY <1>7, SameFollows DEF vars
<1> QED
  BY <1>1, <1>2, <1>3, <1>4, <1>5, <1>6, <1>7 DEF Next

LEMMA FollowStart == Init => EverInv /\ FollowInv
<1> SUFFICES ASSUME Init
             PROVE  EverInv /\ FollowInv
  OBVIOUS
<1>1. /\ tip \in Block /\ startHead = tip /\ left = {} /\ feed = NoBlock /\ queue = <<>>
      /\ run = "down" /\ work = NoWork /\ recovery = NoRecovery
  BY InstanceAssumption DEF Init
<1>2. NoRecovery.step = "none"
  BY DEF NoRecovery
<1>3. Idle /\ Due = {} /\ ~Found
  BY <1>1, <1>2, NoWorkParts, SomeEnd DEF Idle, Due, Found
<1>4. EverInv
  <2>1. Ever = Path[tip] /\ tip \in Ever /\ \A x \in Path[tip] : Number[x] <= Number[tip]
    BY <1>1, PathHeights DEF Ever, Chain
  <2>2. UpdatesIn(queue, Ever) /\ WorkIn(work, Ever)
    BY <1>1, NoWorkParts DEF UpdatesIn
  <2> QED
    BY <1>1, <1>3, <2>1, <2>2 DEF EverInv
<1> QED
  BY <1>1, <1>3, <1>4 DEF FollowInv, Idle

THEOREM FollowInvariance == Spec => [](Shape /\ StateInv /\ EverInv /\ FollowInv)
<1> DEFINE Inv == Shape /\ StateInv /\ EverInv /\ FollowInv
<1>1. Inv /\ [Next]_vars => Inv'
  BY StateStep, FollowStep
<1>2. Init => Inv
  BY StateStart, FollowStart
<1> QED
  BY <1>1, <1>2, PTL DEF Spec

(* When the instance has followed the feed to its end it has applied the   *)
(* chain's newest block: no update is skipped for good, whatever groups    *)
(* were retried, gaps were read, recoveries were cut short by a failure    *)
(* and runs were started again on the way (indexer/model.ts, liveBatch,    *)
(* and the retry of the last group).                                       *)
THEOREM CaughtUpHolds == Spec => []CaughtUp
<1>1. Shape /\ EverInv /\ FollowInv => CaughtUp
  <2> SUFFICES ASSUME Shape, EverInv, FollowInv, Settled
               PROVE  mem.applied = tip
    BY DEF CaughtUp
  <2>1. /\ run = "up" /\ recovery.step = "none" /\ work = NoWork /\ queue = <<>>
        /\ feed = tip /\ Chain \cap left = {}
    BY DEF Settled, WorkerReady
  <2>2. tip \in Block /\ tip \in Chain /\ mem.applied \in Block /\ tip # NoBlock
    BY <2>1, TipEver, TreeAssumption DEF Shape
  <2>3. Due = {}
    BY <2>1, NoWorkParts, SomeEnd DEF Due
  <2>4. Meets(mem.applied, tip)
    BY <2>1, <2>2, <2>3 DEF FollowInv
  <2>5. Number[mem.applied] <= Number[tip]
    BY <2>1 DEF EverInv
  <2>6. Number[mem.applied] \in Nat /\ Number[tip] \in Nat
    BY <2>2, TreeAssumption
  <2> QED
    BY <2>1, <2>2, <2>4, <2>5, <2>6 DEF Meets
<1> QED
  BY <1>1, FollowInvariance, PTL
=============================================================================
