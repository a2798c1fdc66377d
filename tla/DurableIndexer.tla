---------------------------- MODULE DurableIndexer ----------------------------
(***************************************************************************)
(* The durable indexer: Indexer.sync, its recovery and the run loop around *)
(* it (indexer/index.ts), with the store transactions it makes             *)
(* (pglite.ts, libsql.ts, d1.ts) and the endpoints it reads.               *)
(*                                                                         *)
(* Every read of an endpoint and every transaction is a step of its own:   *)
(* the chain may move, a read may fail and the process may stop between    *)
(* any two of them.  A stored block stands for its row of block metadata   *)
(* and the index rows written and deleted under its hash.                  *)
(***************************************************************************)
EXTENDS BlockTree, FiniteSets

CONSTANTS
  Endpoint,         \* the RPC endpoints; each read is answered by any of them
  StartBlock,       \* index.startBlock
  Finality,         \* the finality modes of the index; a restart may change it
  Confirmations,    \* blocks the target stays below the newest one
  Given,            \* the block numbers sync(toBlock) is called with
  ReorgDepth,       \* stored blocks a recovery looks at (128 by default)
  Window,           \* bootstrapConcurrency: blocks loaded at once
  Retries,          \* times run() repeats a failed sync (3 in the code)
  FirstTip,         \* the block every endpoint is at initially
  MayConflict,      \* whether an endpoint may leave a finalized block
  MaxDisturbances,  \* bound: chain changes and failures in a behaviour
  MaxRestarts       \* bound: times the process stops

ASSUME IndexerAssumption ==
  /\ StartBlock \in Nat
  /\ Confirmations \in Nat
  /\ Finality \subseteq {"finalized", "confirmations"}
  /\ Given \subseteq Nat
  /\ ReorgDepth \in Nat \ {0}
  /\ Window \in Nat \ {0}
  /\ Retries \in Nat
  /\ FirstTip \in Block
  /\ MayConflict \in BOOLEAN
  /\ MaxDisturbances \in Nat
  /\ MaxRestarts \in Nat

VARIABLES
  (* the endpoints *)
  tip,          \* tip[e]: the newest block of e's chain
  final,        \* final[e]: the block e answers for "finalized"
  disturbances, \* chain changes and failures so far
  (* the database *)
  blocks,       \* the stored blocks
  saved,        \* the stored checkpoint
  (* one sync *)
  phase,        \* the read or write it makes next
  checkpoint,   \* its copy of the checkpoint
  force,        \* whether the recovery does not trust a canonical checkpoint
  unread,       \* recent blocks the recovery has not compared yet
  ancestor,     \* the stored block it found canonical, or NoBlock
  target,       \* the height it stops at
  number, last, \* the next height to commit, and the last of its window
  window,       \* the loaded blocks of the window
  anchor,       \* the finalized anchor of the next checkpoint, or NoBlock
  (* the run *)
  attempts,     \* failed syncs since the last one that succeeded
  restarts      \* times the process stopped so far

env == <<tip, final, disturbances>>
store == <<blocks, saved>>
recovery == <<force, unread, ancestor>>
replay == <<target, number, last, window, anchor>>
memory == <<checkpoint, recovery, replay>>
vars == <<env, store, phase, memory, attempts, restarts>>

Checkpoint == [block : Block \cup {NoBlock}, anchor : Block \cup {NoBlock}]
NoCheckpoint == [block |-> NoBlock, anchor |-> NoBlock]

TypeOK ==
  /\ tip \in [Endpoint -> Block]
  /\ final \in [Endpoint -> Block]
  /\ disturbances \in 0..MaxDisturbances
  /\ blocks \subseteq Block
  /\ saved \in Checkpoint
  /\ phase \in {"idle", "anchor", "current", "walk", "rollback", "target",
                "load", "commit", "stopped"}
  /\ checkpoint \in Checkpoint
  /\ force \in BOOLEAN
  /\ unread \subseteq blocks
  /\ ancestor \in blocks \cup {NoBlock}
  /\ target \in Nat /\ number \in Nat /\ last \in Nat
  /\ BlockMap(window)
  /\ anchor \in Block \cup {NoBlock}
  /\ attempts \in 0..Retries
  /\ restarts \in 0..MaxRestarts

Init ==
  /\ tip = [e \in Endpoint |-> FirstTip]
  /\ final = [e \in Endpoint |-> FirstTip]
  /\ disturbances = 0
  /\ blocks = {} /\ saved = NoCheckpoint
  /\ phase = "idle"
  /\ checkpoint = NoCheckpoint
  /\ force = FALSE /\ unread = {} /\ ancestor = NoBlock
  /\ target = 0 /\ number = 0 /\ last = 0
  /\ window = EmptyMap /\ anchor = NoBlock
  /\ attempts = 0 /\ restarts = 0
-----------------------------------------------------------------------------
(* The environment. *)

Compatible(a, b) == a \in Path[b] \/ b \in Path[a]

(* An endpoint's chain grows, reorganises, or finalizes more.  Unless      *)
(* MayConflict, finalized blocks stay on every chain; an endpoint that     *)
(* lags behind them may not have them yet.                                 *)
Move(e) ==
  /\ disturbances < MaxDisturbances
  /\ \E b, f \in Block :
       /\ f \in Path[b]
       /\ \/ MayConflict
          \/ /\ final[e] \in Path[f]
             /\ \A d \in Endpoint \ {e} :
                  Compatible(final[d], b) /\ Compatible(f, tip[d])
       /\ tip' = [tip EXCEPT ![e] = b]
       /\ final' = [final EXCEPT ![e] = f]
  /\ disturbances' = disturbances + 1
  /\ UNCHANGED <<store, phase, memory, attempts, restarts>>

(* The endpoint e has b at b's height. *)
Has(e, b) == b \in Path[tip[e]]

(* Some endpoint answers the read of b's height with b. *)
ReadFinds(b) == \E e \in Endpoint : Has(e, b)

(* Mutant of ReadGone: a read that fails counts as another block. *)
FailedReadGone(b) == b \in Block

(* Some endpoint answers it with another block, or with null.  Only null   *)
(* and another block count: a failed read fails the sync.                  *)
ReadGone(b) == \E e \in Endpoint : ~Has(e, b)

(* Some endpoint answers the read of the height n with null. *)
ReadNull(n) == \E e \in Endpoint : \A b \in Path[tip[e]] : Number[b] # n
-----------------------------------------------------------------------------
(* The end of a recovery and of a sync. *)

EndRecovery == force' = FALSE /\ unread' = {} /\ ancestor' = NoBlock

Forget ==
  /\ checkpoint' = NoCheckpoint
  /\ EndRecovery
  /\ target' = 0 /\ number' = 0 /\ last' = 0
  /\ window' = EmptyMap /\ anchor' = NoBlock

(* Mutant of Fail: one repetition too many. *)
FailOnceMore ==
  /\ Forget
  /\ IF attempts > Retries
     THEN phase' = "stopped" /\ UNCHANGED attempts
     ELSE phase' = "idle" /\ attempts' = attempts + 1

(* run() repeats a failed sync; after Retries repetitions its stream fails. *)
Fail ==
  /\ Forget
  /\ IF attempts = Retries
     THEN phase' = "stopped" /\ UNCHANGED attempts
     ELSE phase' = "idle" /\ attempts' = attempts + 1

Succeed == Forget /\ phase' = "idle" /\ attempts' = 0

InSync == phase \notin {"idle", "stopped"}

(* A read of the endpoints or of the store fails, or the transform does. *)
Fault ==
  /\ InSync /\ phase \notin {"rollback", "commit"}
  /\ disturbances < MaxDisturbances
  /\ disturbances' = disturbances + 1
  /\ Fail
  /\ UNCHANGED <<tip, final, store, restarts>>

(* The process stops and starts again, or the application runs a stopped   *)
(* indexer again: only the store is left.                                  *)
Restart ==
  /\ restarts < MaxRestarts
  /\ restarts' = restarts + 1
  /\ Forget /\ phase' = "idle" /\ attempts' = 0
  /\ UNCHANGED <<env, store>>
-----------------------------------------------------------------------------
(* Recovery: validate the checkpoint, or find the newest stored block that *)
(* is canonical and roll back to it.                                       *)

(* The newest ReorgDepth stored blocks: store.recent. *)
Recent ==
  {b \in blocks :
     Cardinality({c \in blocks : Number[c] > Number[b]}) < ReorgDepth}

BeginWalk == phase' = "walk" /\ unread' = Recent

(* The first steps of recover(c, forced) for a checkpoint c. *)
Recover(c, forced) ==
  /\ checkpoint' = c /\ force' = forced /\ ancestor' = NoBlock
  /\ IF c.anchor = NoBlock /\ forced
     THEN BeginWalk
     ELSE /\ phase' = IF c.anchor # NoBlock THEN "anchor" ELSE "current"
          /\ UNCHANGED unread

(* A sync begins with the stored checkpoint and its recovery. *)
Begin ==
  /\ phase = "idle"
  /\ IF saved = NoCheckpoint
     THEN phase' = "target" /\ checkpoint' = saved /\ UNCHANGED recovery
     ELSE Recover(saved, FALSE)
  /\ UNCHANGED <<env, store, replay, attempts, restarts>>

AnchorHolds ==
  /\ phase = "anchor"
  /\ ReadFinds(checkpoint.anchor)
  /\ IF force THEN BeginWalk ELSE phase' = "current" /\ UNCHANGED unread
  /\ UNCHANGED <<env, store, checkpoint, force, ancestor, replay, attempts,
                 restarts>>

(* FinalizedChainConflict, or nobody has a block at the anchor's height. *)
AnchorFails ==
  /\ phase = "anchor"
  /\ ReadGone(checkpoint.anchor)
  /\ Fail
  /\ UNCHANGED <<env, store, restarts>>

CheckpointHolds ==
  /\ phase = "current"
  /\ ReadFinds(checkpoint.block)
  /\ phase' = "target"
  /\ UNCHANGED <<env, store, memory, attempts, restarts>>

CheckpointGone ==
  /\ phase = "current"
  /\ ReadGone(checkpoint.block)
  /\ BeginWalk
  /\ UNCHANGED <<env, store, checkpoint, force, ancestor, replay, attempts,
                 restarts>>

(* The walk reads the heights of the recent blocks, newest first. *)
Walking(b) ==
  /\ phase = "walk"
  /\ b \in unread
  /\ \A c \in unread : Number[c] <= Number[b]

StoredGone ==
  /\ \E b \in Block :
       /\ Walking(b) /\ ReadGone(b)
       /\ unread' = unread \ {b}
  /\ UNCHANGED <<env, store, phase, checkpoint, force, ancestor, replay,
                 attempts, restarts>>

StoredHolds ==
  /\ \E b \in Block : Walking(b) /\ ReadFinds(b) /\ ancestor' = b
  /\ phase' = "rollback"
  /\ UNCHANGED <<env, store, checkpoint, force, unread, replay, attempts,
                 restarts>>

(* Mutant of CanRestart: the start block is not within the walk. *)
CanRestartBelowStart == \E b \in Recent : Number[b] < StartBlock

(* Without an ancestor the index starts over, if the walk saw its start. *)
CanRestart == \E b \in Recent : Number[b] = StartBlock

StartOver ==
  /\ phase = "walk" /\ unread = {}
  /\ CanRestart
  /\ phase' = "rollback"
  /\ UNCHANGED <<env, store, memory, attempts, restarts>>

(* IndexReorgTooDeep. *)
TooDeep ==
  /\ phase = "walk" /\ unread = {}
  /\ ~CanRestart
  /\ Fail
  /\ UNCHANGED <<env, store, restarts>>

(* Mutant of Orphaned: the ancestor is deleted too. *)
OrphanedFromAncestor ==
  {b \in Recent : ancestor # NoBlock => Number[b] >= Number[ancestor]}

Orphaned ==
  {b \in Recent : ancestor # NoBlock => Number[b] > Number[ancestor]}

(* The checkpoint keeps its finalized anchor when it goes back. *)
RolledBack ==
  IF ancestor = NoBlock THEN NoCheckpoint
  ELSE [block |-> ancestor, anchor |-> checkpoint.anchor]

(* Mutant of WriteRollback: the checkpoint row stays. *)
WriteRollbackOfBlocks == blocks' = blocks \ Orphaned /\ saved' = saved

(* The transaction of store.rollback. *)
WriteRollback == blocks' = blocks \ Orphaned /\ saved' = RolledBack
-----------------------------------------------------------------------------
(* Replay: load windows of blocks and commit them in chain order. *)

After(c) == IF c.block = NoBlock THEN StartBlock ELSE Number[c.block] + 1

(* The sync goes on after c with the next window, up to the height n. *)
Continue(c, n) ==
  IF After(c) > n
  THEN Succeed
  ELSE /\ phase' = "load"
       /\ checkpoint' = c
       /\ EndRecovery
       /\ target' = n /\ number' = After(c)
       /\ last' = IF number' + Window - 1 < n THEN number' + Window - 1 ELSE n
       /\ window' = EmptyMap /\ anchor' = NoBlock
       /\ UNCHANGED attempts

(* The height e's newest block confirms; "latest" is 0 confirmations. *)
Confirmed(e) ==
  IF Number[tip[e]] > Confirmations THEN Number[tip[e]] - Confirmations ELSE 0

(* The heights a sync asks for: a given one, or one by the finality mode. *)
Wanted ==
  Given \cup {Number[final[e]] : e \in {d \in Endpoint : "finalized" \in Finality}}
        \cup {Confirmed(e) : e \in {d \in Endpoint : "confirmations" \in Finality}}

ReadTarget ==
  /\ phase = "target"
  /\ \E n \in Wanted :
       /\ \E b \in Block : Number[b] = n /\ ReadFinds(b)
       /\ Continue(checkpoint, n)
  /\ UNCHANGED <<env, store, restarts>>

TargetFails ==
  /\ phase = "target"
  /\ \E n \in Wanted : ReadNull(n)
  /\ Fail
  /\ UNCHANGED <<env, store, restarts>>

(* The blocks of a window are loaded concurrently. *)
Load(n) ==
  /\ phase = "load"
  /\ n \in (number..last) \ DOMAIN window
  /\ \E b \in Block :
       /\ Number[b] = n /\ ReadFinds(b)
       /\ window' = [m \in DOMAIN window \cup {n} |->
                       IF m = n THEN b ELSE window[m]]
  /\ UNCHANGED <<env, store, phase, checkpoint, recovery, target, number, last,
                 anchor, attempts, restarts>>

LoadFails ==
  /\ phase = "load"
  /\ \E n \in (number..last) \ DOMAIN window : ReadNull(n)
  /\ Fail
  /\ UNCHANGED <<env, store, restarts>>

Loaded == phase = "load" /\ number..last \subseteq DOMAIN window

(* Mutant of Follows: only the heights have to follow. *)
FollowsByHeight ==
  checkpoint.block # NoBlock => number = Number[checkpoint.block] + 1

(* The next block is a child of the checkpoint; the first one is any block *)
(* at the start.                                                           *)
Follows ==
  checkpoint.block # NoBlock => Parent[window[number]] = checkpoint.block

Mismatch ==
  /\ Loaded /\ ~Follows
  /\ Recover(checkpoint, TRUE)
  /\ UNCHANGED <<env, store, replay, attempts, restarts>>

(* The finalized block is read after the block it is stored with.  A       *)
(* failed read, or one above that block, keeps the old anchor.             *)
ReadAnchor ==
  /\ Loaded /\ Follows
  /\ \E f \in {final[e] : e \in Endpoint} \cup {NoBlock} :
       anchor' = IF f # NoBlock /\ Number[f] <= number
                 THEN f ELSE checkpoint.anchor
  /\ phase' = "commit"
  /\ UNCHANGED <<env, store, checkpoint, recovery, target, number, last,
                 window, attempts, restarts>>

Committed == [block |-> window[number], anchor |-> anchor]

(* The transaction of store.commit. *)
WriteCommit == blocks' = blocks \cup {window[number]} /\ saved' = Committed
-----------------------------------------------------------------------------
(* The writes, when they are acknowledged and when they fail. *)

Rollback ==
  /\ phase = "rollback"
  /\ WriteRollback
  /\ IF force
     THEN Continue(RolledBack, target)
     ELSE /\ phase' = "target"
          /\ checkpoint' = RolledBack
          /\ EndRecovery
          /\ UNCHANGED <<replay, attempts>>
  /\ UNCHANGED <<env, restarts>>

Commit ==
  /\ phase = "commit"
  /\ WriteCommit
  /\ IF number < last
     THEN /\ checkpoint' = Committed
          /\ phase' = "load" /\ number' = number + 1 /\ anchor' = NoBlock
          /\ UNCHANGED <<recovery, target, last, window, attempts>>
     ELSE Continue(Committed, target)
  /\ UNCHANGED <<env, restarts>>

(* A transaction fails: it was rolled back, or its acknowledgement is lost. *)
WriteFails ==
  /\ disturbances < MaxDisturbances
  /\ disturbances' = disturbances + 1
  /\ \/ phase = "rollback" /\ (WriteRollback \/ UNCHANGED store)
     \/ phase = "commit" /\ (WriteCommit \/ UNCHANGED store)
  /\ Fail
  /\ UNCHANGED <<tip, final, restarts>>
-----------------------------------------------------------------------------
(* One sync, or the next attempt of it. *)
Sync ==
  \/ Begin
  \/ AnchorHolds \/ AnchorFails
  \/ CheckpointHolds \/ CheckpointGone
  \/ StoredHolds \/ StoredGone
  \/ StartOver \/ TooDeep \/ Rollback
  \/ ReadTarget \/ TargetFails
  \/ \E n \in number..last : Load(n)
  \/ LoadFails \/ Mismatch \/ ReadAnchor \/ Commit

Next ==
  \/ \E e \in Endpoint : Move(e)
  \/ Fault \/ WriteFails \/ Restart
  \/ Sync

(* run() syncs on every head and on every tick of the block time; nothing  *)
(* makes an endpoint's chain move, a read fail or the process stop.        *)
Fairness == WF_vars(Sync)

Spec == Init /\ [][Next]_vars
FairSpec == Spec /\ Fairness
-----------------------------------------------------------------------------
(* Properties. *)

(* Whenever a sync holds a checkpoint it is the stored one: what it        *)
(* replays next and what a recovery rolls back start from what is durable, *)
(* also after a forced recovery in the middle of a window and after a      *)
(* transaction whose acknowledgement was lost.                             *)
CheckpointIsSaved == InSync => checkpoint = saved

(* The stored blocks are one linked chain from the start block to the      *)
(* checkpoint, whatever the endpoints answered and wherever the process    *)
(* stopped: no gap, no block of another fork, nothing without a checkpoint *)
(* ("commits blocks in chain order", README.md).                           *)
StoredChain ==
  /\ saved.block = NoBlock => blocks = {}
  /\ saved.block # NoBlock => saved.block \in blocks
  /\ \A b \in blocks :
       /\ StartBlock <= Number[b] /\ Number[b] <= Number[saved.block]
       /\ Number[b] > StartBlock => Parent[b] \in blocks
       /\ \A c \in blocks : Number[b] = Number[c] => b = c

(* With one endpoint that never leaves its finalized blocks, the stored    *)
(* blocks up to the finalized anchor are never rolled back, although a     *)
(* recovery compares height by height while the chain moves under it,      *)
(* reads fail, and the anchor was read later than the block stored with it.*)
FinalizedKept ==
  [][saved.anchor # NoBlock => blocks \cap Path[saved.anchor] \subseteq blocks']_vars

(* The stored blocks by height. *)
Stored ==
  [n \in {Number[b] : b \in blocks} |-> CHOOSE b \in blocks : Number[b] = n]

View == INSTANCE ChainView WITH chain <- Stored

(* The index keeps its blocks as a consumer of the live chain does: every  *)
(* transaction, acknowledged or not, adds one child of the newest block,   *)
(* goes back to a stored ancestor, or starts over.                         *)
StoreFollowsChain == View!Spec

(* "A conflict with the stored finalized anchor fails closed" (README.md): *)
(* an anchor is never replaced by one of another fork.                     *)
ConflictFailsClosed ==
  [][saved.anchor # NoBlock /\ saved'.anchor # NoBlock
       => Compatible(saved.anchor, saved'.anchor)]_vars

(* The chain of every endpoint has the stored anchor, and a stored block a *)
(* recovery looks at, unless the recovery looks as far as the start block. *)
WithinReach ==
  \A e \in Endpoint :
    /\ saved.anchor # NoBlock => Has(e, saved.anchor)
    /\ blocks # {} => \E b \in Recent : Has(e, b) \/ Number[b] = StartBlock

(* The index ends at a block of the endpoint's chain with no block missing *)
(* that has its confirmations, or is empty before the start block.         *)
CaughtUp ==
  \E e \in Endpoint :
    LET confirmed == Number[tip[e]] - Confirmations IN
      IF saved.block = NoBlock THEN confirmed < StartBlock
      ELSE Has(e, saved.block) /\ Number[saved.block] >= confirmed

(* When no reorg is deeper than a recovery looks, the index reaches the    *)
(* newest confirmed block once the chain is quiet: no checkpoint,          *)
(* half-loaded window or half-done recovery keeps it behind, nor a failure *)
(* that a repetition of the sync makes up for.  It is said of behaviours   *)
(* in which failures do not use up the repetitions.                        *)
CatchesUp == []WithinReach => <>[]CaughtUp
=============================================================================
