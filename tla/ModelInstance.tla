----------------------------- MODULE ModelInstance -----------------------------
(***************************************************************************)
(* One running instance of a reusable model (indexer/model.ts): the live   *)
(* worker with its groups, its gap reads and its recovery, the history     *)
(* worker, retention, start and restart, on the store of ModelStore.       *)
(*                                                                         *)
(* A read of the chain is a step of its own and is answered from the chain *)
(* as it is then; two reads of one operation can see two forks.  Taken     *)
(* together are the reads by which a recovery looks for its ancestor       *)
(* (Search), those by which a start checks its rows and its coverage       *)
(* (StartUp), and the headers of one history range: each group sees the    *)
(* chain of one moment.                                                    *)
(*                                                                         *)
(* The feed (watchLogUpdates, a consumer of LiveChain) is the follower that *)
(* ChainView promises.  One state projection, one partitioned projection.  *)
(***************************************************************************)
EXTENDS ModelPartitions

CONSTANTS
  Plans,         \* the plans an instance is made with, see PlanType
  FirstTip,      \* the chain's newest block at first
  From,          \* plan.history.from, an explicit lower bound
  Batch,         \* plan.history.batch: heights one history step covers
  Window,        \* heights a recovery searches (128 in the code)
  GapBatch,      \* missing heights one live gap read covers (8 in the code)
  Retries,       \* times a live group is retried (3 in the code)
  Queue,         \* bound: updates the feed may be ahead of the worker
  MaxMoves,      \* bound: changes of the chain
  MaxTroubles,   \* bound: failed reads and new processes
  MaxReruns      \* bound: run() again on the instance that failed

(* plan.live.start, plan.history.direction and plan.retention.blocks; "none" *)
(* and 0 where the plan leaves history or retention out.                     *)
PlanType ==
  [start : {"head", "checkpoint"}, history : {"none", "backward", "forward"}, retain : Nat]

ASSUME InstanceAssumption ==
  /\ Plans \subseteq PlanType
  /\ FirstTip \in Block
  /\ {From, Retries, MaxMoves, MaxTroubles, MaxReruns} \subseteq Nat
  /\ {Batch, Window, GapBatch, Queue} \subseteq Nat \ {0}

VARIABLES
  plan,       \* the plan of the instance, never changed
  tip,        \* the newest block of the chain
  left,       \* history: the blocks the chain has left
  feed,       \* the newest block the feed has, or NoBlock before its first
  queue,      \* updates of the feed the worker has not taken
  store,      \* the durable state
  mem,        \* the instance's memory, see ModelPartitions
  run,        \* "down", "starting", "up" or "failed"
  startHead,  \* startupHead
  work,       \* the updates the worker has taken
  recovery,   \* where a recovery is
  history,    \* where the history worker is
  seen,       \* the partition values of a consumer that reads when a run comes
              \* up and then applies every update of watch()
  bounds      \* moves, troubles and reruns so far

vars == <<plan, tip, left, feed, queue, store, mem, run, startHead, work, recovery, history,
          seen, bounds>>

(* Updates of the feed: a block applied, or the ancestor of a revert. *)
ApplyOf(b) == [revert |-> FALSE, block |-> b]
RevertTo(b) == [revert |-> TRUE, block |-> b]

(***************************************************************************)
(* The worker's part of the queue.  group is the run of applied blocks it  *)
(* works on, at the next of them, read what it has read of the gap below   *)
(* that block; alone is set once the group is taken block by block.  todo  *)
(* begins with a revert, or is empty.                                      *)
(***************************************************************************)
Load(todo) ==
  LET reverts == {i \in DOMAIN todo : todo[i].revert}
      length == IF reverts = {} THEN Len(todo) ELSE Min(reverts) - 1
  IN [group |-> [i \in 1..length |-> todo[i].block], at |-> 1, read |-> EmptyMap,
      alone |-> FALSE, retries |-> 0, todo |-> SubSeq(todo, length + 1, Len(todo))]

NoWork == Load(<<>>)
Finished(w) ==
  IF w.at < Len(w.group) THEN [w EXCEPT !.at = @ + 1, !.read = EmptyMap, !.alone = TRUE]
  ELSE Load(w.todo)
Item == work.group[work.at]

NoRecovery == [step |-> "none", latest |-> NoBlock, ancestor |-> NoBlock, forkTime |-> 0]
NoHistory == [step |-> "idle", from |-> 0, through |-> 0, logs |-> {}, blocks |-> {},
              valid |-> TRUE]

Chain == Path[tip]
At(n) == Highest({b \in Chain : Number[b] = n})

TypeOK ==
  /\ plan \in Plans
  /\ tip \in Block /\ left \subseteq Block /\ feed \in Block \cup {NoBlock}
  /\ Len(queue) <= Queue
  /\ \A i \in DOMAIN queue : queue[i] \in [revert : BOOLEAN, block : Block]
  /\ StoreType(store) /\ MemoryType(mem)
  /\ run \in {"down", "starting", "up", "failed"}
  /\ startHead \in Block
  /\ work.group \in Seq(Block) /\ work.retries \in 0..Retries
  /\ work.group # <<>> => work.at \in DOMAIN work.group
  /\ recovery.step = "none" /\ work.todo # <<>> => work.todo[1].revert
  /\ recovery.step \in {"none", "latest", "search", "invalidate", "rebuild"}
  /\ history.step \in {"idle", "logs", "headers", "commit"}
  /\ history.blocks \subseteq Block
  /\ \A s \in DOMAIN seen : seen[s] \subseteq Logged
  /\ \A k \in DOMAIN bounds : bounds[k] \in Nat

Init ==
  /\ plan \in Plans
  /\ tip = FirstTip
  /\ left = {}
  /\ feed = NoBlock
  /\ queue = <<>>
  /\ store = EmptyStore
  /\ mem = FreshMemory
  /\ run = "down"
  /\ startHead = FirstTip
  /\ work = NoWork
  /\ recovery = NoRecovery
  /\ history = NoHistory
  /\ seen = NoRows
  /\ bounds = [moves |-> 0, troubles |-> 0, reruns |-> 0]

Spend(what) == bounds' = [bounds EXCEPT ![what] = @ + 1]

(***************************************************************************)
(* The chain grows or reorganises to a fork that is not shorter.           *)
(***************************************************************************)
Move(b) ==
  /\ bounds.moves < MaxMoves
  /\ Number[b] >= Number[tip] /\ b # tip
  /\ tip' = b
  /\ left' = left \cup (Chain \ Path[b])
  /\ Spend("moves")
  /\ UNCHANGED <<plan, feed, queue, store, mem, run, startHead, work, recovery, history,
                 seen>>

(***************************************************************************)
(* run().  A first step claims the store, loads the completed partitions   *)
(* and reads the head; the second resumes or seeds, restores partitions    *)
(* and validates the newest block of every covered range.                  *)
(***************************************************************************)
Run ==
  /\ \/ run = "down" /\ UNCHANGED bounds
     \/ run = "failed" /\ bounds.reruns < MaxReruns /\ Spend("reruns")
  /\ run' = "starting"
  /\ startHead' = tip
  /\ mem' = [mem EXCEPT !.done = @ \cup DOMAIN store.closed]
  /\ feed' = NoBlock
  /\ queue' = <<>>
  /\ UNCHANGED <<plan, tip, left, store, work, recovery, history, seen>>

(* What read() returns: durable rows and the open rows of this run. *)
ReadOf(st, m) ==
  Over([s \in {t \in DOMAIN m.open : EndOf(t) > Time[m.applied]} |-> m.open[s].value],
       st.closed)

Seeded(st, b) == [st EXCEPT !.state = [block |-> b, value |-> LogsTo[b]]]

RangeStart(st, n) == Min({m \in st.covered : m..n \subseteq st.covered})

(* The oldest covered range whose newest block is not on the chain. *)
Disowned(st) ==
  LET ends == {n \in st.covered \cap DOMAIN st.batches :
                 n + 1 \notin st.covered /\ At(n) # st.batches[n]}
  IN IF ends = {} THEN {} ELSE {RangeStart(st, Min(ends))}

StartUp ==
  LET row == store.state.block
      resumes == plan.start = "checkpoint" /\ row # NoBlock /\ row \in Chain
      first == IF resumes THEN store ELSE Seeded(store, startHead)
      applied == IF resumes THEN row ELSE startHead
      restored == RestorePartitions(first, applied)
      from == Disowned(restored)
      valid == IF from = {} THEN restored
               ELSE Seeded(Invalidate(restored, Min(from)), startHead)
      started == [mem EXCEPT !.applied = applied, !.done = DOMAIN restored.closed,
                             !.liveThrough = IF plan.history = "none" THEN @
                                              ELSE {Number[startHead]}]
  IN /\ run = "starting"
     /\ store' = valid
     /\ mem' = IF from = {} THEN started
               ELSE [started EXCEPT !.applied = startHead, !.open = NoRows,
                                    !.cache = FreshMemory.cache, !.done = DOMAIN valid.closed]
     /\ seen' = ReadOf(valid, mem')
     /\ run' = "up"
     /\ UNCHANGED <<plan, tip, left, feed, queue, startHead, work, recovery, history,
                    bounds>>

(* A run ends at a failure; what it has in memory stays with the instance. *)
Stop(to) ==
  /\ run' = to
  /\ work' = NoWork
  /\ recovery' = NoRecovery
  /\ history' = NoHistory
  /\ queue' = <<>>
  /\ feed' = NoBlock

StartFails ==
  /\ run = "starting"
  /\ bounds.troubles < MaxTroubles
  /\ Spend("troubles")
  /\ Stop("failed")
  /\ UNCHANGED <<plan, tip, left, store, mem, startHead, seen>>

(* The process ends: its memory is lost. *)
Restart ==
  /\ run # "down"
  /\ bounds.troubles < MaxTroubles
  /\ Spend("troubles")
  /\ Stop("down")
  /\ mem' = FreshMemory
  /\ UNCHANGED <<plan, tip, left, store, startHead, seen>>

(***************************************************************************)
(* The feed.  Its first update is the newest one of the shared stream: a   *)
(* block, or a revert to a block that another fork leaves.                 *)
(***************************************************************************)
Offer(update) ==
  /\ run = "up"
  /\ Len(queue) < Queue
  /\ queue' = Append(queue, update)
  /\ feed' = update.block
  /\ UNCHANGED <<plan, tip, left, store, mem, run, startHead, work, recovery, history,
                 seen, bounds>>

FeedFirst ==
  /\ feed = NoBlock
  /\ \E b \in Chain :
       \/ Offer(ApplyOf(b))
       \/ /\ \E c \in Block \ Chain : Parent[c] = b /\ Number[c] <= Number[tip]
          /\ Offer(RevertTo(b))
FeedNext ==
  feed # NoBlock /\ \E b \in Chain : Parent[b] = feed /\ Offer(ApplyOf(b))
(* The feed ends instead when the fork has no ancestor that it knows. *)
FeedRevert ==
  /\ feed # NoBlock /\ feed \notin Chain /\ Path[feed] \cap Chain # {}
  /\ Offer(RevertTo(Highest(Path[feed] \cap Chain)))

(***************************************************************************)
(* The live worker.                                                        *)
(***************************************************************************)
WorkerReady == run = "up" /\ recovery.step = "none"
OnItem == WorkerReady /\ work.group # <<>>

Take ==
  /\ WorkerReady
  /\ work.group = <<>> /\ work.todo = <<>>
  /\ queue # <<>>
  /\ work' = Load(queue)
  /\ queue' = <<>>
  /\ UNCHANGED <<plan, tip, left, feed, store, mem, run, startHead, recovery, history,
                 seen, bounds>>

(* Commits B as live blocks, or ends the run when they are not linked. *)
CommitLive(B, next) ==
  \E active \in {ActivateLive(mem, B)} :
    IF Linked(B)
    THEN /\ \E result \in Commit(store, active, seen, B, TRUE, {}, store.missed \ B) :
              store' = result.store /\ mem' = result.mem /\ seen' = result.seen
         /\ work' = next
         /\ UNCHANGED <<plan, tip, left, feed, queue, run, startHead, recovery, history,
                        bounds>>
    ELSE /\ mem' = active
         /\ Stop("failed")
         /\ UNCHANGED <<plan, tip, left, store, startHead, seen, bounds>>

(* Bug: a group is taken for linked. *)
IsGroup_Unlinked == Len(work.group) >= 2 /\ ~work.alone
(* A group that extends the applied block is committed as one. *)
IsGroup ==
  /\ Len(work.group) >= 2 /\ ~work.alone
  /\ \A i \in DOMAIN work.group :
       Parent[work.group[i]] = IF i = 1 THEN mem.applied ELSE work.group[i - 1]

LiveGroup ==
  /\ OnItem /\ IsGroup
  /\ CommitLive(Range(work.group), Load(work.todo))

LiveStep == OnItem /\ ~IsGroup

(* Bug: another block of the applied height is taken for known. *)
Skip_SameHeight ==
  /\ LiveStep
  /\ Number[Item] <= Number[mem.applied]
  /\ work' = Finished(work)
  /\ UNCHANGED <<plan, tip, left, feed, queue, store, mem, run, startHead, recovery,
                 history,
                 seen, bounds>>
Skip ==
  /\ LiveStep
  /\ Number[Item] < Number[mem.applied] \/ Item = mem.applied
  /\ work' = Finished(work)
  /\ UNCHANGED <<plan, tip, left, feed, queue, store, mem, run, startHead, recovery,
                 history, seen,
                 bounds>>

(* The heights the next gap read covers. *)
Missing ==
  IF work.group = <<>> THEN {}
  ELSE {n \in (Number[mem.applied] + 1)..(Number[Item] - 1) :
          n <= Number[mem.applied] + GapBatch}

ReadMissing(n) ==
  /\ LiveStep
  /\ n \in Missing \ DOMAIN work.read
  /\ At(n) # NoBlock
  /\ work' = [work EXCEPT !.read = Put(@, {At(n)}), !.alone = TRUE]
  /\ UNCHANGED <<plan, tip, left, feed, queue, store, mem, run, startHead, recovery,
                 history, seen,
                 bounds>>

GapRead == Missing # {} /\ Missing \subseteq DOMAIN work.read

CommitMissing ==
  /\ LiveStep /\ GapRead
  /\ Parent[Lowest(Stored(work.read))] = mem.applied
  /\ CommitLive(Stored(work.read), [work EXCEPT !.read = EmptyMap])

CommitItem ==
  /\ LiveStep
  /\ Number[Item] > Number[mem.applied] /\ Missing = {}
  /\ Parent[Item] = mem.applied
  /\ CommitLive({Item}, Finished(work))

(***************************************************************************)
(* Recovery.  A block that contradicts the applied one starts it without,  *)
(* a revert of the feed with a verified ancestor.                          *)
(***************************************************************************)
Conflict ==
  \/ Number[Item] = Number[mem.applied] /\ Item # mem.applied
  \/ Number[Item] > Number[mem.applied] /\ Missing = {} /\ Parent[Item] # mem.applied
  \/ GapRead /\ Parent[Lowest(Stored(work.read))] # mem.applied

Recover ==
  /\ LiveStep /\ Conflict
  /\ recovery' = [NoRecovery EXCEPT !.step = "latest"]
  /\ UNCHANGED <<plan, tip, left, feed, queue, store, mem, run, startHead, work, history,
                 seen, bounds>>

ReadLatest ==
  /\ run = "up" /\ recovery.step = "latest"
  /\ recovery' = [recovery EXCEPT !.step = "search", !.latest = tip]
  /\ UNCHANGED <<plan, tip, left, feed, queue, store, mem, run, startHead, work, history,
                 seen, bounds>>

Recent(ceiling) ==
  {b \in Stored(store.batches) : Number[b] <= ceiling /\ Number[b] + Window >= ceiling}

(* The time of the first recent block above the ancestor. *)
ForkTime(recent, ancestor, latest) ==
  LET orphans == {b \in recent : ancestor = NoBlock \/ Number[b] > Number[ancestor]}
  IN IF orphans = {} THEN Time[latest] ELSE Time[Lowest(orphans)]

Search ==
  LET recent == Recent(Number[mem.applied])
      ancestor == Highest({b \in recent : Number[b] <= Number[recovery.latest] /\ b \in Chain})
  IN /\ run = "up" /\ recovery.step = "search"
     /\ IF ancestor = NoBlock /\ recent # {}
        THEN /\ Stop("failed")
             /\ UNCHANGED <<plan, tip, left, store, mem, startHead, seen, bounds>>
        ELSE /\ recovery' = [recovery EXCEPT !.step = "invalidate", !.ancestor = ancestor,
                               !.forkTime = ForkTime(recent, ancestor, recovery.latest)]
             /\ UNCHANGED <<plan, tip, left, feed, queue, store, mem, run, startHead,
                            work, history,
                            seen, bounds>>

Revert ==
  /\ WorkerReady
  /\ work.group = <<>> /\ work.todo # <<>>
  /\ LET b == work.todo[1].block IN
       recovery' = [step |-> "invalidate", latest |-> b, ancestor |-> b,
                    forkTime |-> ForkTime(Recent(Number[b] + 1), b, b)]
  /\ work' = [work EXCEPT !.todo = Tail(@)]
  /\ UNCHANGED <<plan, tip, left, feed, queue, store, mem, run, startHead, history, seen,
                 bounds>>

(* Under the lock: the orphans go, the memory is cleared, the state is     *)
(* seeded again, and a history fetch under way is outdated.                *)
Invalidated ==
  Invalidate(store, IF recovery.ancestor = NoBlock THEN 0 ELSE Number[recovery.ancestor] + 1)

(* Bug: watchers are not reset. *)
Reseed_NoReset ==
  /\ run = "up" /\ recovery.step = "invalidate"
  /\ store' = Seeded(Invalidated, recovery.latest)
  /\ mem' = [FreshMemory EXCEPT !.applied = recovery.latest,
       !.liveThrough = IF plan.history = "none" THEN {} ELSE {Number[recovery.latest]}]
  /\ history' = [history EXCEPT !.valid = FALSE]
  /\ recovery' = [recovery EXCEPT !.step = "rebuild"]
  /\ UNCHANGED <<plan, tip, left, feed, queue, run, startHead, work, seen, bounds>>
Reseed ==
  /\ run = "up" /\ recovery.step = "invalidate"
  /\ store' = Seeded(Invalidated, recovery.latest)
  /\ mem' = [FreshMemory EXCEPT !.applied = recovery.latest,
       !.liveThrough = IF plan.history = "none" THEN {} ELSE {Number[recovery.latest]}]
  /\ seen' = Invalidated.closed
  /\ history' = [history EXCEPT !.valid = FALSE]
  /\ recovery' = [recovery EXCEPT !.step = "rebuild"]
  /\ UNCHANGED <<plan, tip, left, feed, queue, run, startHead, work, bounds>>

(* After the lock: the retained blocks are committed again for their       *)
(* partitions.                                                             *)
Rebuild ==
  LET cut == IF recovery.forkTime > Interval THEN recovery.forkTime - Interval ELSE 0
      retained == {b \in Stored(store.batches) : Time[b] >= cut}
  IN /\ run = "up" /\ recovery.step = "rebuild"
     /\ IF retained # {} /\ ~Joins(store, retained)
        THEN /\ Stop("failed")
             /\ UNCHANGED <<plan, tip, left, store, mem, startHead, seen, bounds>>
        ELSE /\ IF retained = {} THEN UNCHANGED <<store, mem, seen>>
                ELSE \E result \in Commit(store, mem, seen, retained, FALSE, {}, store.missed) :
                       store' = result.store /\ mem' = result.mem /\ seen' = result.seen
             /\ recovery' = NoRecovery
             /\ work' = IF work.group = <<>> THEN Load(work.todo) ELSE Finished(work)
             /\ UNCHANGED <<plan, tip, left, feed, queue, run, startHead, history, bounds>>

(***************************************************************************)
(* A read of the worker fails.  Only the last group of what was taken is   *)
(* tried again, from its first block; any other failure ends the run.      *)
(***************************************************************************)
Reading ==
  \/ recovery.step \in {"latest", "search"}
  \/ recovery.step = "none" /\ work.group # <<>> /\ ~IsGroup
       /\ ~(Missing \subseteq DOMAIN work.read)

SourceFails ==
  /\ run = "up" /\ Reading
  /\ \/ bounds.troubles < MaxTroubles /\ Spend("troubles")
     \/ /\ recovery.step = "none" /\ \E n \in Missing \ DOMAIN work.read : At(n) = NoBlock
        /\ UNCHANGED bounds
  /\ IF work.todo = <<>> /\ work.retries < Retries
     THEN /\ work' = [work EXCEPT !.at = 1, !.read = EmptyMap, !.alone = FALSE,
                                  !.retries = @ + 1]
          /\ recovery' = NoRecovery
          /\ UNCHANGED <<plan, feed, queue, run, history>>
     ELSE Stop("failed")
  /\ UNCHANGED <<plan, tip, left, store, mem, startHead, seen>>

(* The seed of a recovery fails: the store is invalidated all the same. *)
SeedFails ==
  /\ run = "up" /\ recovery.step = "invalidate"
  /\ bounds.troubles < MaxTroubles
  /\ Spend("troubles")
  /\ store' = Invalidated
  /\ seen' = Invalidated.closed
  /\ mem' = [FreshMemory EXCEPT !.applied = mem.applied]
  /\ IF work.group # <<>> /\ work.todo = <<>> /\ work.retries < Retries
     THEN /\ work' = [work EXCEPT !.at = 1, !.read = EmptyMap, !.alone = FALSE,
                                  !.retries = @ + 1]
          /\ recovery' = NoRecovery
          /\ history' = [history EXCEPT !.valid = FALSE]
          /\ UNCHANGED <<plan, feed, queue, run>>
     ELSE Stop("failed")
  /\ UNCHANGED <<plan, tip, left, startHead>>

(***************************************************************************)
(* The history worker: it picks a range and the revision, reads the logs,  *)
(* reads the headers of its ends and of the blocks with logs, and commits. *)
(***************************************************************************)
HistoryFrom(b) ==
  LET kept == IF plan.retain > 0 /\ Number[b] > plan.retain THEN Number[b] - plan.retain
              ELSE 0
  IN Max({From, kept})
StoreFrom(b) ==
  LET recover == IF Number[b] > Window THEN Number[b] - Window ELSE 0
  IN IF plan.retain = 0 THEN HistoryFrom(b) ELSE Min({HistoryFrom(b), recover})

NextRange ==
  LET from == Max({From, StoreFrom(mem.applied)})
      through == Max(mem.liveThrough)
  IN IF plan.history = "none" \/ mem.liveThrough = {} \/ through < from THEN <<>>
     ELSE IF plan.history = "forward" THEN MissingForwardRange(store.covered, from, through, Batch)
     ELSE MissingRange(store.covered, from, through, Batch)

HistoryUnchanged ==
  UNCHANGED <<plan, tip, left, feed, queue, run, startHead, work, recovery, bounds>>

HistoryPick ==
  /\ run = "up" /\ history.step = "idle"
  /\ mem.applied # NoBlock /\ NextRange # <<>>
  /\ history' = [NoHistory EXCEPT !.step = "logs", !.from = NextRange[1],
                                  !.through = NextRange[2]]
  /\ UNCHANGED <<store, mem, seen>> /\ HistoryUnchanged

HistoryLogs ==
  /\ run = "up" /\ history.step = "logs"
  /\ history' = [history EXCEPT !.step = "headers",
       !.logs = {b \in Chain \cap Logged : Number[b] \in history.from..history.through}]
  /\ UNCHANGED <<store, mem, seen>> /\ HistoryUnchanged

HistoryHeaders ==
  LET numbers == {history.from, history.through} \cup Heights(history.logs)
      found == {At(n) : n \in numbers}
  IN /\ run = "up" /\ history.step = "headers"
     /\ history' = IF NoBlock \notin found /\ history.logs \subseteq found
                   THEN [history EXCEPT !.step = "commit", !.blocks = found]
                   ELSE NoHistory
     /\ UNCHANGED <<store, mem, seen>> /\ HistoryUnchanged

(* The blocks of the range whose log the fetch did not read, because the   *)
(* chain changed between its logs and its headers and the logs it has are  *)
(* those of both forks.                                                    *)
PassedOver ==
  {b \in Path[Highest(history.blocks)] \cap Logged :
     Number[b] \in history.from..history.through} \ history.logs

HistoryCommit ==
  /\ run = "up" /\ history.step = "commit"
  /\ IF /\ Highest(history.blocks) \in Chain
        /\ history.valid
        /\ Joins(store, history.blocks)
     THEN \E result \in Commit(store, mem, seen, history.blocks, FALSE,
                               history.from..history.through,
                               (store.missed \ history.logs) \cup PassedOver) :
            store' = result.store /\ mem' = result.mem /\ seen' = result.seen
     ELSE UNCHANGED <<store, mem, seen>>
  /\ history' = NoHistory
  /\ HistoryUnchanged

(***************************************************************************)
(* Retention, at its first time or after enough blocks and seconds.        *)
(***************************************************************************)
ApplyRetention ==
  LET fromBlock == StoreFrom(mem.applied)
      fromTime == Time[At(HistoryFrom(mem.applied))]
  IN /\ run = "up" /\ plan.retain > 0
     /\ At(HistoryFrom(mem.applied)) # NoBlock
     /\ store' = Retain(store, fromBlock, fromTime)
     /\ mem' = [mem EXCEPT
          !.open = Restrict(@, {s \in DOMAIN @ : EndOf(s) > fromTime}),
          !.cache = Restrict(@, {s \in DOMAIN @ : s >= fromTime}),
          !.done = {s \in @ : s >= fromTime}]
     /\ UNCHANGED <<plan, tip, left, feed, queue, run, startHead, work, recovery,
                    history, seen, bounds>>

(***************************************************************************)
Worker ==
  \/ Take \/ LiveGroup \/ Skip \/ CommitMissing \/ CommitItem
  \/ \E n \in Missing : ReadMissing(n)
  \/ Recover \/ ReadLatest \/ Search \/ Revert \/ Reseed \/ Rebuild
History == HistoryPick \/ HistoryLogs \/ HistoryHeaders \/ HistoryCommit
Feed == FeedFirst \/ FeedNext \/ FeedRevert

Next ==
  \/ \E b \in Block : Move(b)
  \/ Run \/ StartUp \/ StartFails \/ Restart
  \/ Feed \/ Worker \/ SourceFails \/ SeedFails
  \/ History \/ ApplyRetention

Spec == Init /\ [][Next]_vars

-----------------------------------------------------------------------------
(***************************************************************************)
(* Properties.                                                             *)
(***************************************************************************)
(* The logs of partition s on the chain that ends in b. *)
Logs(b, s) == {c \in Path[b] \cap Logged : Start(c) = s}

(* The value of s at b, but for logs that history has missed. *)
Whole(value, b, s, missed) ==
  Logs(b, s) \ missed \subseteq value /\ value \subseteq Logs(b, s)

(* The blocks of B lie on one chain, which b ends. *)
OnChainTo(B, b) == B \subseteq Path[b]

(* Nothing of the instance is under way and it has all the feed will send, *)
(* on a chain that never came back to a fork it had left: a read during    *)
(* the excursion sees a fork that the feed need not tell of.               *)
Settled ==
  /\ run = "up" /\ WorkerReady
  /\ work = NoWork /\ queue = <<>>
  /\ history.step = "idle"
  /\ feed = tip
  /\ Chain \cap left = {}

(* The durable state row is what seeding at its block would read: no block *)
(* is folded in twice or left out, across gaps, groups that are retried,   *)
(* recoveries and restarts (model.ts, commit and liveGroup).               *)
StateIsItsBlock ==
  store.state # NoRow => store.state.value = LogsTo[store.state.block]

(* A row closes as the whole partition of the chain the stored blocks lie  *)
(* on: none is published early, with a log missing or with one of a fork   *)
(* that was left, by whatever worker, in whatever order history and live   *)
(* commits, recoveries and restarts come (model.ts, commit and             *)
(* restorePartitions).  Not counted as missing are the logs that a history *)
(* scan took for read when the chain moved during its reads (missed).      *)
ClosesWhole ==
  [][\A s \in DOMAIN store'.closed \ DOMAIN store.closed :
       (\E b \in Block : OnChainTo(Stored(store'.batches), b)) =>
         \E b \in Block :
           /\ OnChainTo(Stored(store'.batches), b)
           /\ Time[b] >= EndOf(s)
           /\ Whole(store'.closed[s], b, s, store'.missed)]_vars

(* When the instance has followed the feed to its end, no orphan is left   *)
(* in the store and no log of a covered height is missing, but for those   *)
(* that a history scan took for read when the chain moved during its reads *)
(* (missed): what history and the live worker wrote on the way was         *)
(* invalidated or agrees (model.ts, recover and historyStep).              *)
StoreIsCanonical ==
  Settled =>
    /\ Stored(store.batches) \subseteq Chain
    /\ \A b \in (Chain \cap Logged) \ store.missed :
         Number[b] \in store.covered => b \in Stored(store.batches)

(* An open row that says its coverage is complete has, if the stored       *)
(* blocks lie on one chain, every log of its period up to the applied      *)
(* block, but for those history has missed, and beyond it only those that  *)
(* history has read ahead (model.ts, commit).                              *)
OpenIsHonest ==
  \A s \in DOMAIN mem.open :
    LET known == Stored(store.batches) \cup {mem.applied} IN
      /\ mem.open[s].complete /\ EndOf(s) > Time[mem.applied]
      /\ mem.applied \in Chain
      /\ \E b \in Block : OnChainTo(known, b)
      => \E b \in Block :
           mem.applied \in Path[b] /\ Whole(mem.open[s].value, b, s, store.missed)

Read == ReadOf(store, mem)

(* A consumer that reads and then applies every upsert and reset holds     *)
(* what read() returns, and nothing else unless retention removed a row,   *)
(* which it does without a notice (model.ts, updates).                     *)
WatchAgreesWithRead ==
  run = "up" =>
    /\ \A s \in DOMAIN Read : s \in DOMAIN seen /\ seen[s] = Read[s]
    /\ plan.retain = 0 => DOMAIN seen = DOMAIN Read

(* When the instance has followed the feed to its end it has applied the   *)
(* chain's newest block: no update is skipped for good (model.ts,          *)
(* liveBatch, and the retry of the last group).                            *)
CaughtUp == Settled => mem.applied = tip

(* docs/reusable-indexer.md, "a closed partition only when its source      *)
(* coverage is complete" and "invalidates orphaned blocks and affected     *)
(* projection rows": settled, closed rows are those of the chain.          *)
ClosedIsCanonical ==
  Settled => \A s \in DOMAIN store.closed :
               Time[tip] >= EndOf(s) /\ Whole(store.closed[s], tip, s, store.missed)
=============================================================================
