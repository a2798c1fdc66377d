------------------------- MODULE DurableIndexerProofs -------------------------
(***************************************************************************)
(* Proofs about DurableIndexer, for every block tree, set of endpoints,    *)
(* window, recovery depth, number of retries and bound: types, that a sync *)
(* works on the stored checkpoint, that the stored blocks are one linked   *)
(* chain that ends in it, and that finalized ones are never rolled back.   *)
(***************************************************************************)
EXTENDS DurableIndexer, SharedLemmas

(* A recovery that writes knows an ancestor among the recent blocks, or    *)
(* that these include the start block.                                     *)
RecoveryInv ==
  /\ phase # "rollback" => ancestor = NoBlock
  /\ phase = "walk" => unread \subseteq Recent
  /\ phase = "rollback" =>
       /\ ancestor # NoBlock => ancestor \in Recent
       /\ ancestor = NoBlock => CanRestart

(* A replay goes on right after the checkpoint, and only a child of it is  *)
(* committed.                                                              *)
ReplayInv ==
  /\ phase \in {"load", "commit"} => number = After(checkpoint) /\ number <= last
  /\ phase = "commit" => number \in DOMAIN window /\ Follows

StoreInv == IsFiniteSet(blocks) /\ StoredChain

IInv == TypeOK /\ StoreInv /\ CheckpointIsSaved /\ RecoveryInv /\ ReplayInv
-----------------------------------------------------------------------------
(* Lemmas. *)

(* A stored block that is not below a recent one is recent. *)
LEMMA RecentIsTop ==
  ASSUME TypeOK, IsFiniteSet(blocks), NEW b \in blocks, NEW c \in Recent,
         Number[c] <= Number[b]
  PROVE  b \in Recent
<1> DEFINE Above(d) == {a \in blocks : Number[a] > Number[d]}
<1>1. c \in blocks /\ Cardinality(Above(c)) < ReorgDepth
  BY DEF Recent
<1>2. \A a \in blocks : Number[a] \in Nat
  BY TreeAssumption DEF TypeOK
<1>3. Above(b) \subseteq Above(c)
  BY <1>1, <1>2
<1>4. IsFiniteSet(Above(c))
  BY FS_Subset
<1>5. /\ IsFiniteSet(Above(b))
      /\ Cardinality(Above(b)) <= Cardinality(Above(c))
  BY <1>3, <1>4, FS_Subset
<1>6. Cardinality(Above(b)) \in Nat /\ Cardinality(Above(c)) \in Nat
  BY <1>4, <1>5, FS_CardinalityType
<1>7. Cardinality(Above(b)) < ReorgDepth
  BY <1>1, <1>5, <1>6, IndexerAssumption
<1> QED BY <1>7 DEF Recent

(* The transaction of a rollback keeps the stored chain. *)
LEMMA RollbackKeepsChain ==
  ASSUME IInv, phase = "rollback", WriteRollback
  PROVE  StoreInv' /\ RolledBack \in Checkpoint /\ saved' = RolledBack
         /\ blocks' \subseteq blocks
<1>1. blocks' = blocks \ Orphaned /\ saved' = RolledBack
  BY DEF WriteRollback
<1>2. \A a \in blocks : Number[a] \in Nat
  BY TreeAssumption DEF IInv, TypeOK
<1>3. IsFiniteSet(blocks')
  BY <1>1, FS_Subset DEF IInv, StoreInv
<1>4. CASE ancestor = NoBlock
  <2>1. PICK c \in Recent : Number[c] = StartBlock
    BY <1>4 DEF IInv, RecoveryInv, CanRestart
  <2>2. \A b \in blocks : b \in Recent
    BY <2>1, RecentIsTop DEF IInv, StoreInv, StoredChain
  <2>3. blocks' = {}
    BY <1>1, <1>4, <2>2 DEF Orphaned
  <2>4. saved' = NoCheckpoint /\ RolledBack \in Checkpoint
    BY <1>1, <1>4 DEF RolledBack, NoCheckpoint, Checkpoint
  <2>5. StoredChain'
    BY <2>3, <2>4 DEF StoredChain, NoCheckpoint
  <2> QED BY <1>1, <1>3, <2>4, <2>5 DEF StoreInv
<1>5. CASE ancestor # NoBlock
  <2>1. ancestor \in Recent /\ ancestor \in blocks
    BY <1>5 DEF IInv, RecoveryInv, Recent
  <2>2. \A b \in blocks : b \in blocks' <=> Number[b] <= Number[ancestor]
    <3> SUFFICES ASSUME NEW b \in blocks
                 PROVE  b \in blocks' <=> Number[b] <= Number[ancestor]
      OBVIOUS
    <3>1. Number[ancestor] <= Number[b] => b \in Recent
      BY <2>1, RecentIsTop DEF IInv, StoreInv
    <3> QED BY <1>1, <1>2, <1>5, <2>1, <3>1 DEF Orphaned
  <2>3. saved' = [block |-> ancestor, anchor |-> checkpoint.anchor]
    BY <1>1, <1>5 DEF RolledBack
  <2>4. saved'.block = ancestor /\ ancestor \in blocks' /\ RolledBack \in Checkpoint
    BY <1>1, <1>2, <2>1, <2>2, <2>3 DEF IInv, TypeOK, Checkpoint
  <2>5. ASSUME NEW b \in blocks'
        PROVE  /\ StartBlock <= Number[b] /\ Number[b] <= Number[saved'.block]
               /\ Number[b] > StartBlock => Parent[b] \in blocks'
               /\ \A c \in blocks' : Number[b] = Number[c] => b = c
    <3>1. b \in blocks /\ blocks' \subseteq blocks
      BY <1>1, <2>5
    <3>2. StartBlock <= Number[b] /\ Number[b] <= Number[ancestor]
      BY <2>2, <2>5, <3>1 DEF IInv, StoreInv, StoredChain
    <3>3. ASSUME Number[b] > StartBlock PROVE Parent[b] \in blocks'
      <4>1. Parent[b] \in blocks
        BY <3>1, <3>3 DEF IInv, StoreInv, StoredChain
      <4>2. Number[b] = Number[Parent[b]] + 1
        BY <3>1, <4>1, TreeAssumption DEF IInv, TypeOK
      <4> QED BY <1>2, <2>1, <2>2, <3>1, <3>2, <4>1, <4>2
    <3> QED BY <2>4, <3>1, <3>2, <3>3 DEF IInv, StoreInv, StoredChain
  <2>6. StoredChain'
    BY <1>5, <2>4, <2>5 DEF StoredChain
  <2> QED BY <1>1, <1>3, <2>4, <2>6 DEF StoreInv
<1> QED BY <1>4, <1>5

(* The transaction of a commit keeps the stored chain. *)
LEMMA CommitKeepsChain ==
  ASSUME IInv, phase = "commit", WriteCommit
  PROVE  /\ StoreInv' /\ Committed \in Checkpoint /\ saved' = Committed
         /\ blocks \subseteq blocks' /\ blocks' \subseteq Block
         /\ After(Committed) = number + 1
<1> DEFINE x == window[number]
<1>1. blocks' = blocks \cup {x} /\ saved' = Committed /\ Committed.block = x
  BY DEF WriteCommit, Committed
<1>2. x \in Block /\ Number[x] = number /\ number \in Nat
  BY DEF IInv, TypeOK, ReplayInv, BlockMap
<1>3. x # NoBlock /\ StartBlock \in Nat
  BY <1>2, TreeAssumption, IndexerAssumption
<1>4. checkpoint = saved /\ number = After(saved)
  BY DEF IInv, CheckpointIsSaved, InSync, ReplayInv
<1>5. Committed \in Checkpoint
  BY <1>2 DEF Committed, Checkpoint, IInv, TypeOK
<1>6. IsFiniteSet(blocks')
  BY <1>1, FS_AddElement DEF IInv, StoreInv
<1>7. \A a \in blocks : a \in Block /\ Number[a] \in Nat
  BY TreeAssumption DEF IInv, TypeOK
<1>8. CASE saved.block = NoBlock
  <2>1. blocks' = {x} /\ Number[x] = StartBlock
    BY <1>1, <1>2, <1>4, <1>8 DEF IInv, StoreInv, StoredChain, After
  <2>2. StoredChain'
    BY <1>1, <1>3, <2>1 DEF StoredChain
  <2> QED BY <1>1, <1>2, <1>3, <1>5, <1>6, <1>7, <2>2 DEF StoreInv, After
<1>9. CASE saved.block # NoBlock
  <2>1. /\ saved.block \in blocks
        /\ number = Number[saved.block] + 1
        /\ Parent[x] = saved.block
    BY <1>4, <1>9 DEF IInv, StoreInv, StoredChain, After, ReplayInv, Follows
  <2>2. \A b \in blocks : StartBlock <= Number[b] /\ Number[b] < number
    BY <1>7, <2>1 DEF IInv, StoreInv, StoredChain
  <2>3. StartBlock <= Number[x]
    BY <1>2, <1>3, <1>7, <2>1, <2>2
  <2>4. ASSUME NEW b \in blocks'
        PROVE  /\ StartBlock <= Number[b] /\ Number[b] <= Number[saved'.block]
               /\ Number[b] > StartBlock => Parent[b] \in blocks'
               /\ \A c \in blocks' : Number[b] = Number[c] => b = c
    <3>1. CASE b = x
      BY <1>1, <1>2, <1>7, <2>1, <2>2, <2>3, <3>1
    <3>2. CASE b \in blocks
      <4>1. Number[b] > StartBlock => Parent[b] \in blocks
        BY <3>2 DEF IInv, StoreInv, StoredChain
      <4>2. \A c \in blocks : Number[b] = Number[c] => b = c
        BY <3>2 DEF IInv, StoreInv, StoredChain
      <4> QED BY <1>1, <1>2, <1>7, <2>2, <3>2, <4>1, <4>2
    <3> QED BY <1>1, <2>4, <3>1, <3>2
  <2>5. StoredChain'
    BY <1>1, <1>3, <2>4 DEF StoredChain
  <2> QED BY <1>1, <1>2, <1>3, <1>5, <1>6, <1>7, <2>5 DEF StoreInv, After
<1> QED BY <1>8, <1>9
-----------------------------------------------------------------------------
(* The ends of a recovery, of a window and of a sync. *)

(* What the environment and the counters keep. *)
Surroundings ==
  /\ tip \in [Endpoint -> Block] /\ final \in [Endpoint -> Block]
  /\ disturbances \in 0..MaxDisturbances
  /\ restarts \in 0..MaxRestarts

(* What the store keeps. *)
StoreOK == blocks \subseteq Block /\ saved \in Checkpoint /\ StoreInv

LEMMA ForgetKeeps ==
  ASSUME Forget, Surroundings', StoreOK', attempts' \in 0..Retries,
         phase' \in {"idle", "stopped"}
  PROVE  IInv'
<1>1. BlockMap(window)'
  BY DEF Forget, BlockMap, EmptyMap
<1>2. TypeOK'
  BY <1>1, TreeAssumption DEF Forget, EndRecovery, TypeOK, Surroundings,
     StoreOK, Checkpoint, NoCheckpoint
<1>3. RecoveryInv' /\ ReplayInv' /\ CheckpointIsSaved'
  BY DEF Forget, EndRecovery, RecoveryInv, ReplayInv, CheckpointIsSaved, InSync
<1> QED BY <1>2, <1>3 DEF IInv, StoreOK

LEMMA FailKeeps ==
  ASSUME IInv, Fail, Surroundings', StoreOK'
  PROVE  IInv'
<1>1. attempts' \in 0..Retries /\ phase' \in {"idle", "stopped"}
  BY IndexerAssumption DEF Fail, IInv, TypeOK
<1> QED BY <1>1, ForgetKeeps DEF Fail

LEMMA ContinueKeeps ==
  ASSUME IInv, NEW c \in Checkpoint, NEW n \in Nat, Continue(c, n),
         Surroundings', StoreOK', saved' = c
  PROVE  IInv'
<1>1. CASE After(c) > n
  <2>1. Forget /\ phase' = "idle" /\ attempts' = 0
    BY <1>1 DEF Continue, Succeed
  <2> QED BY <2>1, ForgetKeeps, IndexerAssumption
<1>2. CASE ~(After(c) > n)
  <2>1. /\ phase' = "load" /\ checkpoint' = c /\ EndRecovery
        /\ target' = n /\ number' = After(c)
        /\ last' = IF number' + Window - 1 < n THEN number' + Window - 1 ELSE n
        /\ window' = EmptyMap /\ anchor' = NoBlock /\ attempts' = attempts
    BY <1>2 DEF Continue
  <2>2. After(c) \in Nat
    BY TreeAssumption, IndexerAssumption DEF After, Checkpoint
  <2>3. number' \in Nat /\ last' \in Nat /\ number' <= last'
    BY <1>2, <2>1, <2>2, IndexerAssumption
  <2>4. BlockMap(window)'
    BY <2>1 DEF BlockMap, EmptyMap
  <2>5. TypeOK'
    BY <2>1, <2>3, <2>4, TreeAssumption DEF EndRecovery, TypeOK, Surroundings,
       StoreOK, IInv
  <2>6. RecoveryInv' /\ CheckpointIsSaved'
    BY <2>1 DEF EndRecovery, RecoveryInv, CheckpointIsSaved
  <2>7. number' = After(checkpoint')
    BY <2>1
  <2>8. ReplayInv'
    BY <2>1, <2>3, <2>7 DEF ReplayInv, After
  <2> QED BY <2>5, <2>6, <2>8 DEF IInv, StoreOK
<1> QED BY <1>1, <1>2

LEMMA SurroundingsKept ==
  ASSUME IInv, UNCHANGED <<env, restarts>> PROVE Surroundings'
BY DEF env, Surroundings, IInv, TypeOK

LEMMA StoreKept == ASSUME IInv, UNCHANGED store PROVE StoreOK'
<1>1. blocks' = blocks /\ saved' = saved
  BY DEF store
<1> QED BY <1>1 DEF StoreOK, StoreInv, StoredChain, IInv, TypeOK
-----------------------------------------------------------------------------
(* The steps outside a sync, and the failures. *)

LEMMA MoveKeeps == ASSUME IInv, NEW e \in Endpoint, Move(e) PROVE IInv'
<1>1. Surroundings'
  BY IndexerAssumption DEF Move, Surroundings, IInv, TypeOK
<1>2. /\ UNCHANGED store /\ UNCHANGED memory
      /\ UNCHANGED <<phase, attempts>>
  BY DEF Move
<1>3. StoreOK'
  BY <1>2, StoreKept
<1>4. TypeOK'
  BY <1>1, <1>2 DEF Surroundings, store, memory, recovery, replay, IInv, TypeOK
<1>5. Recent' = Recent
  BY <1>2 DEF store, Recent
<1>6. RecoveryInv'
  BY <1>2, <1>5 DEF memory, recovery, IInv, RecoveryInv, CanRestart
<1>7. ReplayInv' /\ CheckpointIsSaved'
  BY <1>2 DEF store, memory, replay, IInv, ReplayInv, After, Follows,
     CheckpointIsSaved, InSync
<1> QED BY <1>3, <1>4, <1>6, <1>7 DEF IInv, StoreOK

LEMMA FaultKeeps == ASSUME IInv, Fault PROVE IInv'
<1>1. Surroundings' /\ UNCHANGED store /\ Fail
  BY IndexerAssumption DEF Fault, Surroundings, IInv, TypeOK
<1> QED BY <1>1, StoreKept, FailKeeps

LEMMA RestartKeeps == ASSUME IInv, Restart PROVE IInv'
<1>1. Surroundings' /\ UNCHANGED store
  BY IndexerAssumption DEF Restart, env, Surroundings, IInv, TypeOK
<1>2. attempts' \in 0..Retries /\ phase' = "idle" /\ Forget
  BY IndexerAssumption DEF Restart
<1> QED BY <1>1, <1>2, StoreKept, ForgetKeeps

LEMMA WriteFailsKeeps == ASSUME IInv, WriteFails PROVE IInv'
<1>1. Surroundings' /\ Fail
  BY IndexerAssumption DEF WriteFails, Surroundings, IInv, TypeOK
<1>2. CASE phase = "rollback" /\ WriteRollback
  <2>1. StoreOK'
    BY <1>2, RollbackKeepsChain DEF StoreOK, IInv, TypeOK
  <2> QED BY <1>1, <2>1, FailKeeps
<1>3. CASE phase = "commit" /\ WriteCommit
  <2>1. StoreOK'
    BY <1>3, CommitKeepsChain DEF StoreOK
  <2> QED BY <1>1, <2>1, FailKeeps
<1>4. CASE UNCHANGED store
  BY <1>1, <1>4, StoreKept, FailKeeps
<1> QED BY <1>2, <1>3, <1>4 DEF WriteFails

LEMMA FailuresKeep ==
  ASSUME IInv, AnchorFails \/ TooDeep \/ TargetFails \/ LoadFails PROVE IInv'
<1>1. UNCHANGED <<env, restarts>> /\ UNCHANGED store /\ Fail
  BY DEF AnchorFails, TooDeep, TargetFails, LoadFails
<1> QED BY <1>1, SurroundingsKept, StoreKept, FailKeeps
-----------------------------------------------------------------------------
(* The steps of a recovery. *)

(* A step that only moves the recovery on. *)
LEMMA RecoveryStepKeeps ==
  ASSUME IInv, UNCHANGED <<env, restarts, attempts>>, UNCHANGED store,
         UNCHANGED replay, checkpoint' = saved, force' \in BOOLEAN,
         unread' \subseteq blocks, ancestor' \in blocks \cup {NoBlock},
         phase' \in {"anchor", "current", "walk", "rollback", "target"},
         RecoveryInv'
  PROVE  IInv'
<1>1. Surroundings' /\ StoreOK'
  BY SurroundingsKept, StoreKept
<1>2. blocks' = blocks /\ saved' = saved /\ checkpoint' \in Checkpoint
  BY DEF store, IInv, TypeOK
<1>3. TypeOK'
  BY <1>1, <1>2 DEF Surroundings, StoreOK, replay, IInv, TypeOK
<1>4. CheckpointIsSaved' /\ ReplayInv'
  BY <1>2 DEF CheckpointIsSaved, ReplayInv
<1> QED BY <1>1, <1>3, <1>4 DEF IInv, StoreOK

(* The recent blocks depend on the store only. *)
LEMMA RecentKept ==
  ASSUME UNCHANGED store
  PROVE  Recent' = Recent /\ CanRestart' = CanRestart /\ Recent \subseteq blocks
BY DEF store, Recent, CanRestart

LEMMA RecoverKeeps ==
  ASSUME IInv, NEW forced \in BOOLEAN, Recover(saved, forced),
         UNCHANGED <<env, restarts, attempts>>, UNCHANGED store,
         UNCHANGED replay
  PROVE  IInv'
<1>1. Recent' = Recent /\ Recent \subseteq blocks
  BY RecentKept
<1>2. /\ checkpoint' = saved /\ force' = forced /\ ancestor' = NoBlock
      /\ \/ phase' = "walk" /\ unread' = Recent
         \/ phase' \in {"anchor", "current"} /\ unread' = unread
  BY DEF Recover, BeginWalk
<1>3. RecoveryInv'
  BY <1>1, <1>2 DEF RecoveryInv
<1>4. unread' \subseteq blocks
  BY <1>1, <1>2 DEF IInv, TypeOK
<1> QED BY <1>2, <1>3, <1>4, RecoveryStepKeeps

LEMMA BeginKeeps == ASSUME IInv, Begin PROVE IInv'
<1>1. /\ UNCHANGED <<env, restarts, attempts>> /\ UNCHANGED store
      /\ UNCHANGED replay
  BY DEF Begin
<1>2. CASE saved = NoCheckpoint
  <2>1. /\ phase = "idle" /\ phase' = "target"
        /\ checkpoint' = saved /\ UNCHANGED recovery
    BY <1>2 DEF Begin
  <2>2. RecoveryInv'
    BY <2>1 DEF recovery, IInv, RecoveryInv
  <2> QED BY <1>1, <2>1, <2>2, RecoveryStepKeeps DEF recovery, IInv, TypeOK
<1>3. CASE saved # NoCheckpoint
  BY <1>1, <1>3, RecoverKeeps DEF Begin
<1> QED BY <1>2, <1>3

(* The steps that go from one read of the recovery to the next. *)
Recovering ==
  \/ AnchorHolds \/ CheckpointHolds \/ CheckpointGone
  \/ StoredGone \/ StoredHolds \/ StartOver

LEMMA RecoveringKeeps == ASSUME IInv, Recovering PROVE IInv'
<1>1. /\ UNCHANGED <<env, restarts, attempts>> /\ UNCHANGED store
      /\ UNCHANGED replay
      /\ checkpoint' = checkpoint /\ force' = force
  BY DEF Recovering, AnchorHolds, CheckpointHolds, CheckpointGone, StoredGone,
     StoredHolds, StartOver, memory, recovery
<1>2. phase \in {"anchor", "current", "walk"}
  BY DEF Recovering, AnchorHolds, CheckpointHolds, CheckpointGone, StoredGone,
     StoredHolds, StartOver, Walking
<1>3. checkpoint' = saved /\ force' \in BOOLEAN /\ ancestor = NoBlock
  BY <1>1, <1>2 DEF IInv, TypeOK, CheckpointIsSaved, InSync, RecoveryInv
<1>4. /\ Recent' = Recent /\ Recent \subseteq blocks
      /\ CanRestart' = CanRestart
  BY <1>1, RecentKept
<1>5. CASE AnchorHolds \/ CheckpointHolds \/ CheckpointGone
  <2>1. /\ ancestor' = ancestor
        /\ \/ phase' = "walk" /\ unread' = Recent
           \/ phase' \in {"current", "target"} /\ unread' = unread
    BY <1>5 DEF AnchorHolds, CheckpointHolds, CheckpointGone, BeginWalk, memory,
       recovery
  <2>2. RecoveryInv' /\ unread' \subseteq blocks
    BY <1>3, <1>4, <2>1 DEF IInv, TypeOK, RecoveryInv
  <2> QED BY <1>1, <1>3, <2>1, <2>2, RecoveryStepKeeps
<1>6. CASE StoredGone
  <2>1. phase = "walk" /\ phase' = "walk" /\ ancestor' = ancestor
    BY <1>6 DEF StoredGone, Walking
  <2>2. unread' \subseteq unread
    BY <1>6 DEF StoredGone
  <2>3. unread \subseteq Recent
    BY <2>1 DEF IInv, RecoveryInv
  <2>4. RecoveryInv'
    BY <1>3, <1>4, <2>1, <2>2, <2>3 DEF RecoveryInv
  <2> QED BY <1>1, <1>3, <1>4, <2>1, <2>2, <2>3, <2>4, RecoveryStepKeeps
<1>7. CASE StoredHolds
  <2>1. /\ phase = "walk" /\ phase' = "rollback" /\ unread' = unread
        /\ ancestor' \in unread
    BY <1>7 DEF StoredHolds, Walking
  <2>2. unread \subseteq Recent
    BY <2>1 DEF IInv, RecoveryInv
  <2>3. ancestor' # NoBlock
    BY <2>1, TreeAssumption DEF IInv, TypeOK
  <2>4. RecoveryInv'
    BY <1>4, <2>1, <2>2, <2>3 DEF RecoveryInv
  <2> QED BY <1>1, <1>3, <1>4, <2>1, <2>2, <2>4, RecoveryStepKeeps
<1>8. CASE StartOver
  <2>1. /\ phase' = "rollback" /\ CanRestart
        /\ unread' = unread /\ ancestor' = ancestor
    BY <1>8 DEF StartOver, memory, recovery
  <2>2. RecoveryInv'
    BY <1>3, <1>4, <2>1 DEF RecoveryInv
  <2> QED BY <1>1, <1>3, <2>1, <2>2, RecoveryStepKeeps DEF IInv, TypeOK
<1> QED BY <1>5, <1>6, <1>7, <1>8 DEF Recovering

LEMMA RollbackKeeps == ASSUME IInv, Rollback PROVE IInv'
<1>1. /\ phase = "rollback" /\ WriteRollback /\ UNCHANGED <<env, restarts>>
  BY DEF Rollback
<1>2. /\ StoreInv' /\ RolledBack \in Checkpoint /\ saved' = RolledBack
      /\ blocks' \subseteq blocks
  BY <1>1, RollbackKeepsChain
<1>3. StoreOK' /\ Surroundings'
  BY <1>1, <1>2, SurroundingsKept DEF StoreOK, IInv, TypeOK
<1>4. CASE force
  <2>1. Continue(RolledBack, target) /\ target \in Nat
    BY <1>4 DEF Rollback, IInv, TypeOK
  <2> QED BY <1>2, <1>3, <2>1, ContinueKeeps
<1>5. CASE ~force
  <2>1. /\ phase' = "target" /\ checkpoint' = RolledBack /\ EndRecovery
        /\ UNCHANGED <<replay, attempts>>
    BY <1>5 DEF Rollback
  <2>2. TypeOK'
    BY <1>2, <1>3, <2>1 DEF EndRecovery, replay, Surroundings, StoreOK, IInv,
       TypeOK
  <2>3. RecoveryInv' /\ ReplayInv' /\ CheckpointIsSaved'
    BY <1>2, <2>1 DEF EndRecovery, RecoveryInv, ReplayInv, CheckpointIsSaved
  <2> QED BY <1>2, <2>2, <2>3 DEF IInv
<1> QED BY <1>4, <1>5
-----------------------------------------------------------------------------
(* The steps of a replay. *)

LEMMA ReadTargetKeeps == ASSUME IInv, ReadTarget PROVE IInv'
<1>1. UNCHANGED <<env, restarts>> /\ UNCHANGED store /\ phase = "target"
  BY DEF ReadTarget
<1>2. PICK n \in Wanted, b \in Block : Number[b] = n /\ Continue(checkpoint, n)
  BY DEF ReadTarget
<1>3. n \in Nat
  BY <1>2, TreeAssumption
<1>4. checkpoint \in Checkpoint /\ saved' = checkpoint
  BY <1>1 DEF store, IInv, TypeOK, CheckpointIsSaved, InSync
<1> QED BY <1>1, <1>2, <1>3, <1>4, SurroundingsKept, StoreKept, ContinueKeeps

(* A step that leaves the store and the checkpoint alone. *)
LEMMA ReplayStepKeeps ==
  ASSUME IInv, UNCHANGED <<env, restarts, attempts>>, UNCHANGED store,
         UNCHANGED <<checkpoint, recovery, target, number, last>>,
         phase = "load", phase' \in {"load", "commit"},
         BlockMap(window)', anchor' \in Block \cup {NoBlock}, ReplayInv'
  PROVE  IInv'
<1>1. Surroundings' /\ StoreOK'
  BY SurroundingsKept, StoreKept
<1>2. TypeOK'
  BY <1>1 DEF Surroundings, store, recovery, IInv, TypeOK
<1>3. CheckpointIsSaved' /\ RecoveryInv'
  BY DEF store, recovery, IInv, CheckpointIsSaved, InSync, RecoveryInv
<1> QED BY <1>1, <1>2, <1>3 DEF IInv, StoreOK

LEMMA LoadKeeps == ASSUME IInv, NEW n \in number..last, Load(n) PROVE IInv'
<1>1. /\ UNCHANGED <<env, restarts, attempts>> /\ UNCHANGED store
      /\ UNCHANGED <<checkpoint, recovery, target, number, last>>
      /\ phase = "load" /\ phase' = "load" /\ anchor' = anchor
  BY DEF Load
<1>2. PICK b \in Block :
        /\ Number[b] = n
        /\ window' = [m \in DOMAIN window \cup {n} |->
                        IF m = n THEN b ELSE window[m]]
  BY DEF Load
<1>3. BlockMap(window)'
  BY <1>2, TreeAssumption DEF BlockMap, IInv, TypeOK
<1>4. ReplayInv'
  BY <1>1 DEF IInv, ReplayInv, After
<1> QED BY <1>1, <1>3, <1>4, ReplayStepKeeps DEF IInv, TypeOK

LEMMA ReadAnchorKeeps == ASSUME IInv, ReadAnchor PROVE IInv'
<1>1. /\ UNCHANGED <<env, restarts, attempts>> /\ UNCHANGED store
      /\ UNCHANGED <<checkpoint, recovery, target, number, last>>
      /\ phase = "load" /\ phase' = "commit" /\ window' = window
      /\ Follows /\ number..last \subseteq DOMAIN window
  BY DEF ReadAnchor, Loaded
<1>2. anchor' \in Block \cup {NoBlock}
  BY DEF ReadAnchor, IInv, TypeOK, Checkpoint
<1>3. number \in DOMAIN window
  BY <1>1 DEF IInv, TypeOK, ReplayInv
<1>4. ReplayInv'
  BY <1>1, <1>3 DEF IInv, ReplayInv, After, Follows
<1> QED BY <1>1, <1>2, <1>4, ReplayStepKeeps DEF IInv, TypeOK

LEMMA MismatchKeeps == ASSUME IInv, Mismatch PROVE IInv'
<1>1. /\ UNCHANGED <<env, restarts, attempts>> /\ UNCHANGED store
      /\ UNCHANGED replay
      /\ Recover(saved, TRUE)
  BY DEF Mismatch, Loaded, IInv, CheckpointIsSaved, InSync
<1> QED BY <1>1, RecoverKeeps

LEMMA CommitKeeps == ASSUME IInv, Commit PROVE IInv'
<1>1. /\ phase = "commit" /\ WriteCommit /\ UNCHANGED <<env, restarts>>
  BY DEF Commit
<1>2. /\ StoreInv' /\ Committed \in Checkpoint /\ saved' = Committed
      /\ blocks \subseteq blocks' /\ blocks' \subseteq Block
      /\ After(Committed) = number + 1
  BY <1>1, CommitKeepsChain
<1>3. StoreOK' /\ Surroundings'
  BY <1>1, <1>2, SurroundingsKept DEF StoreOK
<1>4. CASE number < last
  <2>1. /\ checkpoint' = Committed
        /\ phase' = "load" /\ number' = number + 1 /\ anchor' = NoBlock
        /\ UNCHANGED <<recovery, target, last, window, attempts>>
    BY <1>4 DEF Commit
  <2>2. TypeOK'
    BY <1>2, <1>3, <2>1 DEF recovery, Surroundings, StoreOK, IInv, TypeOK,
       BlockMap
  <2>3. RecoveryInv' /\ CheckpointIsSaved'
    BY <1>1, <1>2, <2>1 DEF recovery, IInv, RecoveryInv, CheckpointIsSaved
  <2>4. After(checkpoint)' = number'
    BY <1>2, <2>1 DEF After
  <2>5. ReplayInv'
    BY <1>4, <2>1, <2>4 DEF ReplayInv, IInv, TypeOK
  <2> QED BY <1>2, <2>2, <2>3, <2>5 DEF IInv
<1>5. CASE ~(number < last)
  <2>1. Continue(Committed, target) /\ target \in Nat
    BY <1>5 DEF Commit, IInv, TypeOK
  <2> QED BY <1>2, <1>3, <2>1, ContinueKeeps
<1> QED BY <1>4, <1>5
-----------------------------------------------------------------------------
(* The inductive invariant. *)

LEMMA InitHolds == Init => IInv
<1> SUFFICES ASSUME Init PROVE IInv
  OBVIOUS
<1>1. BlockMap(window)
  BY DEF Init, BlockMap, EmptyMap
<1>2. NoCheckpoint \in Checkpoint
  BY DEF NoCheckpoint, Checkpoint
<1>3. /\ tip \in [Endpoint -> Block] /\ final \in [Endpoint -> Block]
      /\ disturbances \in 0..MaxDisturbances
      /\ attempts \in 0..Retries /\ restarts \in 0..MaxRestarts
  BY IndexerAssumption DEF Init
<1>4. TypeOK
  BY <1>1, <1>2, <1>3 DEF Init, TypeOK
<1>5. StoreInv
  BY FS_EmptySet DEF Init, StoreInv, StoredChain, NoCheckpoint
<1>6. CheckpointIsSaved /\ RecoveryInv /\ ReplayInv
  BY DEF Init, CheckpointIsSaved, InSync, RecoveryInv, ReplayInv
<1> QED BY <1>4, <1>5, <1>6 DEF IInv

LEMMA StutterKeeps == ASSUME IInv, UNCHANGED vars PROVE IInv'
<1>1. /\ UNCHANGED <<env, restarts>> /\ UNCHANGED store /\ UNCHANGED memory
      /\ UNCHANGED <<phase, attempts>>
  BY DEF vars
<1>2. StoreOK' /\ Recent' = Recent /\ CanRestart' = CanRestart
  BY <1>1, StoreKept, RecentKept
<1>3. TypeOK'
  BY <1>1 DEF env, store, memory, recovery, replay, IInv, TypeOK
<1>4. RecoveryInv'
  BY <1>1, <1>2 DEF memory, recovery, IInv, RecoveryInv
<1>5. ReplayInv' /\ CheckpointIsSaved'
  BY <1>1 DEF store, memory, replay, IInv, ReplayInv, After, Follows,
     CheckpointIsSaved, InSync
<1> QED BY <1>2, <1>3, <1>4, <1>5 DEF IInv, StoreOK

(* Every step keeps it. *)
LEMMA NextKeeps == ASSUME IInv, [Next]_vars PROVE IInv'
<1>1. ASSUME NEW e \in Endpoint, Move(e) PROVE IInv'
  BY <1>1, MoveKeeps
<1>2. ASSUME NEW n \in number..last, Load(n) PROVE IInv'
  BY <1>2, LoadKeeps
<1>3. CASE Recovering
  BY <1>3, RecoveringKeeps
<1>4. CASE AnchorFails \/ TooDeep \/ TargetFails \/ LoadFails
  BY <1>4, FailuresKeep
<1>5. CASE Fault \/ WriteFails \/ Restart
  BY <1>5, FaultKeeps, WriteFailsKeeps, RestartKeeps
<1>6. CASE Begin \/ Rollback \/ ReadTarget \/ Mismatch \/ ReadAnchor \/ Commit
  BY <1>6, BeginKeeps, RollbackKeeps, ReadTargetKeeps, MismatchKeeps,
     ReadAnchorKeeps, CommitKeeps
<1>7. CASE UNCHANGED vars
  BY <1>7, StutterKeeps
<1> QED
  BY <1>1, <1>2, <1>3, <1>4, <1>5, <1>6, <1>7 DEF Next, Sync, Recovering

(* The inductive invariant holds in every reachable state. *)
THEOREM Invariance == Spec => []IInv
BY InitHolds, NextKeeps, PTL DEF Spec
-----------------------------------------------------------------------------
(* Every variable of the indexer has its type. *)
THEOREM TypeCorrect == Spec => []TypeOK
<1>1. IInv => TypeOK
  BY DEF IInv
<1> QED BY <1>1, Invariance, PTL

(* The checkpoint sync and recover work on is the one that is stored, also *)
(* after a forced recovery and after a lost acknowledgement.               *)
THEOREM CheckpointIsSavedHolds == Spec => []CheckpointIsSaved
<1>1. IInv => CheckpointIsSaved
  BY DEF IInv
<1> QED BY <1>1, Invariance, PTL

(* What commit and rollback store is one linked chain from the start block *)
(* to the checkpoint, whatever the endpoints answer between two reads and  *)
(* wherever the process stops.                                             *)
THEOREM StoredChainHolds == Spec => []StoredChain
<1>1. IInv => StoredChain
  BY DEF IInv, StoreInv
<1> QED BY <1>1, Invariance, PTL
-----------------------------------------------------------------------------
(* The store implements ChainView. *)

(* In a chain the block at a height is the one the map gives. *)
LEMMA BlockAtHeight ==
  ASSUME NEW S, \A b, c \in S : Number[b] = Number[c] => b = c, NEW x \in S,
         NEW f, f = [n \in {Number[b] : b \in S} |->
                       CHOOSE b \in S : Number[b] = n]
  PROVE  Number[x] \in DOMAIN f /\ f[Number[x]] = x
<1>1. Number[x] \in {Number[b] : b \in S}
  OBVIOUS
<1>2. f[Number[x]] = CHOOSE b \in S : Number[b] = Number[x]
  BY <1>1
<1> QED BY <1>1, <1>2

LEMMA StoredBlock ==
  ASSUME StoreInv
  PROVE  /\ DOMAIN Stored = {Number[b] : b \in blocks}
         /\ \A b \in blocks : Stored[Number[b]] = b
<1>1. \A b, c \in blocks : Number[b] = Number[c] => b = c
  BY DEF StoreInv, StoredChain
<1> QED BY <1>1, BlockAtHeight DEF Stored

LEMMA NextStoredBlock ==
  ASSUME StoreInv'
  PROVE  /\ DOMAIN Stored' = {Number[b] : b \in blocks'}
         /\ \A b \in blocks' : Stored'[Number[b]] = b
<1>1. \A b, c \in blocks' : Number[b] = Number[c] => b = c
  BY DEF StoreInv, StoredChain
<1> QED BY <1>1, BlockAtHeight DEF Stored

(* A commit applies a child of the newest stored block. *)
LEMMA CommitApplies ==
  ASSUME IInv, phase = "commit", WriteCommit
  PROVE  View!Apply(window[number]) /\ window[number] \in Block
<1> DEFINE x == window[number]
<1>1. /\ StoreInv' /\ StoreInv /\ blocks' = blocks \cup {x}
  BY CommitKeepsChain DEF IInv, WriteCommit
<1>2. x \in Block /\ Number[x] = number
  BY DEF IInv, TypeOK, ReplayInv, BlockMap
<1>3. checkpoint = saved /\ number = After(saved)
  BY DEF IInv, CheckpointIsSaved, InSync, ReplayInv
<1>4. /\ DOMAIN Stored = {Number[b] : b \in blocks}
      /\ \A b \in blocks : Stored[Number[b]] = b
  BY <1>1, StoredBlock
<1>5. /\ DOMAIN Stored' = {Number[b] : b \in blocks'}
      /\ \A b \in blocks' : Stored'[Number[b]] = b
  BY <1>1, NextStoredBlock
<1>6. Stored' = [n \in DOMAIN Stored' |-> Stored'[n]]
  BY DEF Stored
<1>7. DOMAIN Stored' = DOMAIN Stored \cup {Number[x]}
  BY <1>1, <1>4, <1>5
<1>8. \A n \in DOMAIN Stored' : Stored'[n] = IF n = Number[x] THEN x ELSE Stored[n]
  <2> SUFFICES ASSUME NEW b \in blocks'
               PROVE  Stored'[Number[b]] = IF Number[b] = Number[x] THEN x
                                           ELSE Stored[Number[b]]
    BY <1>5
  <2> QED BY <1>1, <1>4, <1>5
<1>9. Stored' = [n \in DOMAIN Stored \cup {Number[x]} |->
                   IF n = Number[x] THEN x ELSE Stored[n]]
  BY <1>6, <1>7, <1>8
<1>10. CASE saved.block = NoBlock
  <2>1. blocks = {}
    BY <1>1, <1>10 DEF StoreInv, StoredChain
  <2>2. Stored = View!EmptyMap
    BY <2>1 DEF Stored, View!EmptyMap
  <2> QED BY <1>2, <1>9, <2>2 DEF View!Apply
<1>11. CASE saved.block # NoBlock
  <2>1. saved.block \in blocks /\ Parent[x] = saved.block
    BY <1>1, <1>3, <1>11 DEF StoreInv, StoredChain, IInv, ReplayInv, Follows
  <2>2. /\ Parent[x] # NoBlock /\ Number[Parent[x]] \in DOMAIN Stored
        /\ Stored[Number[Parent[x]]] = Parent[x]
    BY <1>4, <1>11, <2>1
  <2>3. \A n \in DOMAIN Stored : n < Number[x]
    <3>1. \A b \in blocks : Number[b] \in Nat /\ Number[b] <= Number[saved.block]
      BY <1>1, TreeAssumption DEF StoreInv, StoredChain, IInv, TypeOK
    <3>2. Number[x] = Number[saved.block] + 1
      BY <1>2, <1>3, <1>11 DEF After
    <3> QED BY <1>4, <2>1, <3>1, <3>2
  <2> QED BY <1>2, <1>9, <2>2, <2>3 DEF View!Apply
<1> QED BY <1>10, <1>11

(* A rollback reverts to a stored block, or starts over. *)
LEMMA RollbackReverts ==
  ASSUME IInv, phase = "rollback", WriteRollback
  PROVE  View!Next
<1>1. /\ StoreInv' /\ StoreInv /\ blocks' = blocks \ Orphaned
      /\ blocks' \subseteq blocks /\ saved' = RolledBack
  BY RollbackKeepsChain DEF IInv, WriteRollback
<1>2. /\ DOMAIN Stored = {Number[b] : b \in blocks}
      /\ \A b \in blocks : Stored[Number[b]] = b
  BY <1>1, StoredBlock
<1>3. /\ DOMAIN Stored' = {Number[b] : b \in blocks'}
      /\ \A b \in blocks' : Stored'[Number[b]] = b
  BY <1>1, NextStoredBlock
<1>4. \A b \in blocks : Number[b] \in Nat
  BY TreeAssumption DEF IInv, TypeOK
<1>5. CASE ancestor = NoBlock
  <2>1. blocks' = {}
    BY <1>1, <1>5 DEF RolledBack, NoCheckpoint, StoreInv, StoredChain
  <2>2. Stored' = View!EmptyMap
    BY <2>1 DEF Stored, View!EmptyMap
  <2> QED BY <2>2 DEF View!Next, View!StartAgain
<1>6. CASE ancestor # NoBlock
  <2> DEFINE k == Number[ancestor]
  <2>1. ancestor \in Recent /\ ancestor \in blocks /\ k \in Nat
    BY <1>4, <1>6 DEF IInv, RecoveryInv, Recent
  <2>2. ancestor \in blocks' /\ RolledBack.block = ancestor
    BY <1>1, <1>4, <1>6, <2>1 DEF Orphaned, RolledBack
  <2>3. \A b \in blocks : b \in blocks' <=> Number[b] < k + 1
    <3> SUFFICES ASSUME NEW b \in blocks
                 PROVE  b \in blocks' <=> Number[b] < k + 1
      OBVIOUS
    <3>1. k <= Number[b] => b \in Recent
      BY <2>1, RecentIsTop DEF IInv, StoreInv
    <3> QED BY <1>1, <1>4, <1>6, <2>1, <3>1 DEF Orphaned
  <2>4. DOMAIN Stored' = {n \in DOMAIN Stored : n < k + 1}
    BY <1>1, <1>2, <1>3, <2>3
  <2>5. \A n \in DOMAIN Stored' : Stored'[n] = Stored[n]
    BY <1>1, <1>2, <1>3
  <2>6. Stored' = [n \in DOMAIN Stored' |-> Stored'[n]]
    BY DEF Stored
  <2>7. Stored' = View!Below(Stored, k + 1)
    BY <2>4, <2>5, <2>6 DEF View!Below
  <2>8. k \in DOMAIN Stored
    BY <1>2, <2>1
  <2> QED BY <2>7, <2>8 DEF View!Next, View!Revert
<1> QED BY <1>5, <1>6

(* The store changes by its two transactions only. *)
LEMMA StepWrites ==
  ASSUME [Next]_vars
  PROVE  \/ UNCHANGED store
         \/ phase = "rollback" /\ WriteRollback
         \/ phase = "commit" /\ WriteCommit
<1>1. ASSUME NEW e \in Endpoint, Move(e) PROVE UNCHANGED store
  BY <1>1 DEF Move
<1>2. ASSUME NEW n \in number..last, Load(n) PROVE UNCHANGED store
  BY <1>2 DEF Load
<1>3. CASE Recovering \/ Begin \/ Mismatch
  BY <1>3 DEF Recovering, AnchorHolds, CheckpointHolds, CheckpointGone,
     StoredGone, StoredHolds, StartOver, Begin, Mismatch
<1>4. CASE AnchorFails \/ TooDeep \/ TargetFails \/ LoadFails \/ Fault \/ Restart
  BY <1>4 DEF AnchorFails, TooDeep, TargetFails, LoadFails, Fault, Restart
<1>5. CASE ReadTarget \/ ReadAnchor
  BY <1>5 DEF ReadTarget, ReadAnchor
<1>6. CASE Rollback \/ Commit \/ WriteFails
  BY <1>6 DEF Rollback, Commit, WriteFails
<1>7. CASE UNCHANGED vars
  BY <1>7 DEF vars
<1> QED
  BY <1>1, <1>2, <1>3, <1>4, <1>5, <1>6, <1>7 DEF Next, Sync, Recovering

LEMMA StepRefines == ASSUME IInv, [Next]_vars PROVE [View!Next]_Stored
<1>1. CASE UNCHANGED store
  BY <1>1 DEF store, Stored
<1>2. CASE phase = "commit" /\ WriteCommit
  BY <1>2, CommitApplies DEF View!Next
<1>3. CASE phase = "rollback" /\ WriteRollback
  BY <1>3, RollbackReverts
<1> QED BY <1>1, <1>2, <1>3, StepWrites

(* Every transaction, acknowledged or not, is an application of a child of *)
(* the newest block, a revert to a stored ancestor, or a new start: the    *)
(* store keeps the promise a consumer of the live chain gets.              *)
THEOREM Refinement == Spec => StoreFollowsChain
<1>1. Init => View!Init
  BY DEF Init, Stored, View!Init, View!EmptyMap
<1>2. IInv /\ [Next]_vars => [View!Next]_Stored
  BY StepRefines
<1> QED BY <1>1, <1>2, Invariance, PTL DEF Spec, StoreFollowsChain, View!Spec
-----------------------------------------------------------------------------
(* Finalized blocks are kept.  With one endpoint e that keeps them, the     *)
(* stored anchor is on the chain of e's finalized block, and so on every    *)
(* chain a recovery can compare the stored blocks with.                     *)

FinalInv(e) ==
  /\ final[e] \in Path[tip[e]]
  /\ saved.anchor # NoBlock => saved.anchor \in Path[final[e]]
  /\ phase = "commit" /\ anchor # NoBlock => anchor \in Path[final[e]]
  /\ saved.anchor # NoBlock /\ phase = "walk" =>
       Recent \cap Path[saved.anchor] \subseteq unread
  /\ saved.anchor # NoBlock /\ phase = "rollback" =>
       \A b \in Recent \cap Path[saved.anchor] :
         ancestor # NoBlock /\ Number[b] <= Number[ancestor]

(* What the stored anchor covers is on the endpoint's chain. *)
LEMMA AnchorOnChain ==
  ASSUME IInv, NEW e \in Endpoint, FinalInv(e), saved.anchor # NoBlock
  PROVE  Path[saved.anchor] \subseteq Path[tip[e]]
<1>1. tip[e] \in Block /\ final[e] \in Path[tip[e]]
      /\ saved.anchor \in Path[final[e]]
  BY DEF IInv, TypeOK, FinalInv
<1>2. final[e] \in Block /\ Path[final[e]] \subseteq Path[tip[e]]
  BY <1>1, PathInPath
<1>3. Path[saved.anchor] \subseteq Path[final[e]]
  BY <1>1, <1>2, PathInPath
<1> QED BY <1>2, <1>3

(* A step to a phase that neither walks nor writes, after which the stored  *)
(* anchor is covered.                                                       *)
LEMMA FinalQuiet ==
  ASSUME NEW e \in Endpoint, FinalInv(e), UNCHANGED <<tip, final>>,
         saved'.anchor # NoBlock => saved'.anchor \in Path[final[e]],
         phase' \notin {"walk", "rollback", "commit"}
  PROVE  FinalInv(e)'
BY DEF FinalInv

(* A recovery starts its walk with all recent blocks. *)
LEMMA FinalWalks ==
  ASSUME NEW e \in Endpoint, FinalInv(e), UNCHANGED <<tip, final>>,
         UNCHANGED store, phase' = "walk", unread' = Recent
  PROVE  FinalInv(e)'
<1>1. Recent' = Recent /\ saved' = saved
  BY RecentKept DEF store
<1> QED BY <1>1 DEF FinalInv

(* A recovery before its walk, and one that begins. *)
LEMMA FinalRecovers ==
  ASSUME NEW e \in Endpoint, FinalInv(e), UNCHANGED <<tip, final>>,
         UNCHANGED store,
         Begin \/ AnchorHolds \/ CheckpointHolds \/ CheckpointGone \/ Mismatch
  PROVE  FinalInv(e)'
<1>1. \/ phase' \in {"target", "anchor", "current"}
      \/ phase' = "walk" /\ unread' = Recent
  BY DEF Begin, AnchorHolds, CheckpointHolds, CheckpointGone, Mismatch, Recover,
     BeginWalk
<1>2. saved' = saved
  BY DEF store
<1>3. CASE phase' \in {"target", "anchor", "current"}
  BY <1>2, <1>3, FinalQuiet DEF FinalInv
<1>4. CASE phase' = "walk" /\ unread' = Recent
  BY <1>4, FinalWalks
<1> QED BY <1>1, <1>3, <1>4

(* The walk never drops a block the anchor covers, and ends at or above all *)
(* of them.                                                                 *)
LEMMA FinalCompares ==
  ASSUME IInv, NEW e \in Endpoint, Endpoint = {e}, FinalInv(e),
         UNCHANGED <<tip, final>>, UNCHANGED store,
         StoredGone \/ StoredHolds \/ StartOver
  PROVE  FinalInv(e)'
<1>1. Recent' = Recent /\ saved' = saved
  BY RecentKept DEF store
<1>2. phase = "walk" /\ ancestor = NoBlock
  BY DEF StoredGone, StoredHolds, StartOver, Walking, IInv, RecoveryInv
<1>3. CASE saved.anchor = NoBlock
  <2>1. phase' # "commit"
    BY <1>2 DEF StoredGone, StoredHolds, StartOver
  <2> QED BY <1>1, <1>3, <2>1 DEF FinalInv
<1>4. CASE saved.anchor # NoBlock
  <2>1. Recent \cap Path[saved.anchor] \subseteq unread
    BY <1>2, <1>4 DEF FinalInv
  <2>2. CASE StoredGone
    <3>1. PICK b \in Block : ReadGone(b) /\ unread' = unread \ {b}
      BY <2>2 DEF StoredGone
    <3>2. b \notin Path[tip[e]]
      BY <3>1 DEF ReadGone, Has
    <3>3. b \notin Path[saved.anchor]
      BY <1>4, <3>2, AnchorOnChain
    <3>4. phase' = "walk"
      BY <1>2, <2>2 DEF StoredGone
    <3> QED BY <1>1, <2>1, <3>1, <3>3, <3>4 DEF FinalInv
  <2>3. CASE StoredHolds
    <3>1. PICK b \in Block : Walking(b) /\ ancestor' = b /\ phase' = "rollback"
      BY <2>3 DEF StoredHolds
    <3>2. \A c \in unread : Number[c] <= Number[b]
      BY <3>1 DEF Walking
    <3>3. ancestor' # NoBlock
      BY <3>1, TreeAssumption
    <3> QED BY <1>1, <2>1, <3>1, <3>2, <3>3 DEF FinalInv
  <2>4. CASE StartOver
    BY <1>1, <2>1, <2>4 DEF StartOver, FinalInv
  <2> QED BY <2>2, <2>3, <2>4
<1> QED BY <1>3, <1>4

(* The two transactions and what they leave of the anchor. *)
LEMMA FinalRollsBack ==
  ASSUME IInv, NEW e \in Endpoint, FinalInv(e), phase = "rollback", WriteRollback
  PROVE  /\ saved.anchor # NoBlock =>
              blocks \cap Path[saved.anchor] \subseteq blocks'
         /\ saved'.anchor # NoBlock => saved'.anchor \in Path[final[e]]
<1>1. checkpoint = saved
  BY DEF IInv, CheckpointIsSaved, InSync
<1>2. saved'.anchor \in {saved.anchor, NoBlock}
  BY <1>1 DEF WriteRollback, RolledBack, NoCheckpoint
<1>3. \A b \in blocks : Number[b] \in Nat
  BY TreeAssumption DEF IInv, TypeOK
<1>4. ancestor # NoBlock => ancestor \in blocks
  BY DEF IInv, RecoveryInv, Recent
<1>5. ASSUME saved.anchor # NoBlock, NEW b \in blocks \cap Path[saved.anchor]
      PROVE  b \notin Orphaned
  BY <1>3, <1>4, <1>5 DEF Orphaned, FinalInv
<1> QED BY <1>2, <1>5 DEF WriteRollback, FinalInv

LEMMA FinalCommits ==
  ASSUME IInv, NEW e \in Endpoint, FinalInv(e), phase = "commit", WriteCommit
  PROVE  /\ blocks \subseteq blocks'
         /\ saved'.anchor # NoBlock => saved'.anchor \in Path[final[e]]
BY DEF WriteCommit, Committed, FinalInv

(* A sync that goes on or ends neither walks nor writes. *)
LEMMA ContinueIsQuiet ==
  ASSUME NEW c, NEW n, Continue(c, n)
  PROVE  phase' \in {"idle", "load"}
BY DEF Continue, Succeed

LEMMA FinalWrites ==
  ASSUME IInv, NEW e \in Endpoint, FinalInv(e), Rollback \/ Commit \/ WriteFails
  PROVE  FinalInv(e)'
<1>1. UNCHANGED <<tip, final>>
  BY DEF Rollback, Commit, WriteFails, env
<1>2. phase' \notin {"walk", "rollback", "commit"}
  <2>1. CASE Rollback
    BY <2>1, ContinueIsQuiet DEF Rollback
  <2>2. CASE Commit
    BY <2>2, ContinueIsQuiet DEF Commit
  <2>3. CASE WriteFails
    BY <2>3 DEF WriteFails, Fail
  <2> QED BY <2>1, <2>2, <2>3
<1>3. saved'.anchor # NoBlock => saved'.anchor \in Path[final[e]]
  <2>1. \/ phase = "rollback" /\ WriteRollback
        \/ phase = "commit" /\ WriteCommit
        \/ UNCHANGED store
    BY DEF Rollback, Commit, WriteFails
  <2>2. UNCHANGED store => (saved'.anchor # NoBlock => saved'.anchor \in Path[final[e]])
    BY DEF store, FinalInv
  <2> QED BY <2>1, <2>2, FinalRollsBack, FinalCommits
<1> QED BY <1>1, <1>2, <1>3, FinalQuiet

(* The anchor a commit stores is the finalized block, or the stored anchor. *)
LEMMA FinalAnchors ==
  ASSUME IInv, NEW e \in Endpoint, Endpoint = {e}, FinalInv(e), ReadAnchor
  PROVE  FinalInv(e)'
<1>1. UNCHANGED <<tip, final>> /\ saved' = saved /\ phase' = "commit"
  BY DEF ReadAnchor, env, store
<1>2. checkpoint = saved
  BY DEF ReadAnchor, Loaded, IInv, CheckpointIsSaved, InSync
<1>3. anchor' \in {final[e], saved.anchor}
  BY <1>2 DEF ReadAnchor
<1>4. final[e] \in Path[final[e]]
  BY PathHeights DEF IInv, TypeOK
<1>5. anchor' # NoBlock => anchor' \in Path[final[e]]
  BY <1>3, <1>4 DEF FinalInv
<1> QED BY <1>1, <1>5 DEF FinalInv

(* A chain that moves keeps its finalized blocks. *)
LEMMA FinalMoves ==
  ASSUME IInv, NEW e \in Endpoint, Endpoint = {e}, ~MayConflict, FinalInv(e),
         Move(e)
  PROVE  FinalInv(e)'
<1>1. PICK b \in Block, f \in Block :
        /\ f \in Path[b] /\ final[e] \in Path[f]
        /\ tip' = [tip EXCEPT ![e] = b] /\ final' = [final EXCEPT ![e] = f]
  BY DEF Move
<1>2. tip'[e] = b /\ final'[e] = f
  BY <1>1 DEF IInv, TypeOK
<1>3. Path[final[e]] \subseteq Path[f]
  BY <1>1, PathInPath
<1>4. UNCHANGED store /\ UNCHANGED <<phase, anchor, unread, ancestor>>
  BY DEF Move, memory, recovery, replay
<1>5. Recent' = Recent /\ saved' = saved
  BY <1>4, RecentKept DEF store
<1> QED BY <1>1, <1>2, <1>3, <1>4, <1>5 DEF FinalInv

(* Every step of an index with one endpoint keeps FinalInv. *)
LEMMA FinalKeeps ==
  ASSUME IInv, NEW e \in Endpoint, Endpoint = {e}, ~MayConflict, FinalInv(e),
         [Next]_vars
  PROVE  FinalInv(e)'
<1>1. ASSUME NEW d \in Endpoint, Move(d) PROVE FinalInv(e)'
  BY <1>1, FinalMoves
<1>2. ASSUME NEW n \in number..last, Load(n) PROVE FinalInv(e)'
  <2>1. UNCHANGED <<tip, final>> /\ saved' = saved /\ phase' = "load"
    BY <1>2 DEF Load, env, store
  <2> QED BY <2>1, FinalQuiet DEF FinalInv
<1>3. CASE Begin \/ AnchorHolds \/ CheckpointHolds \/ CheckpointGone \/ Mismatch
  <2>1. UNCHANGED <<tip, final>> /\ UNCHANGED store
    BY <1>3 DEF Begin, AnchorHolds, CheckpointHolds, CheckpointGone, Mismatch, env
  <2> QED BY <1>3, <2>1, FinalRecovers
<1>4. CASE StoredGone \/ StoredHolds \/ StartOver
  <2>1. UNCHANGED <<tip, final>> /\ UNCHANGED store
    BY <1>4 DEF StoredGone, StoredHolds, StartOver, env
  <2> QED BY <1>4, <2>1, FinalCompares
<1>5. CASE AnchorFails \/ TooDeep \/ TargetFails \/ LoadFails \/ Fault \/ Restart
  <2>1. UNCHANGED <<tip, final>> /\ saved' = saved /\ phase' \in {"idle", "stopped"}
    BY <1>5 DEF AnchorFails, TooDeep, TargetFails, LoadFails, Fault, Restart, Fail,
       env, store
  <2> QED BY <2>1, FinalQuiet DEF FinalInv
<1>6. CASE Rollback \/ Commit \/ WriteFails
  BY <1>6, FinalWrites
<1>7. CASE ReadTarget
  <2>1. UNCHANGED <<tip, final>> /\ saved' = saved /\ phase' \in {"idle", "load"}
    BY <1>7, ContinueIsQuiet DEF ReadTarget, env, store
  <2> QED BY <2>1, FinalQuiet DEF FinalInv
<1>8. CASE ReadAnchor
  BY <1>8, FinalAnchors
<1>9. CASE UNCHANGED vars
  <2>1. UNCHANGED <<tip, final, phase, anchor, unread, ancestor>> /\ UNCHANGED store
    BY <1>9 DEF vars, env, memory, recovery, replay
  <2>2. Recent' = Recent /\ saved' = saved
    BY <2>1, RecentKept DEF store
  <2> QED BY <2>1, <2>2 DEF FinalInv
<1> QED
  BY <1>1, <1>2, <1>3, <1>4, <1>5, <1>6, <1>7, <1>8, <1>9 DEF Next, Sync

(* No step removes a stored block the stored anchor covers. *)
LEMMA StepKeepsFinal ==
  ASSUME IInv, NEW e \in Endpoint, FinalInv(e), [Next]_vars,
         saved.anchor # NoBlock
  PROVE  blocks \cap Path[saved.anchor] \subseteq blocks'
<1>1. \/ UNCHANGED store
      \/ phase = "rollback" /\ WriteRollback
      \/ phase = "commit" /\ WriteCommit
  BY StepWrites
<1> QED BY <1>1, FinalRollsBack, FinalCommits DEF store

(* With one endpoint that keeps its finalized blocks, no rollback removes a *)
(* stored block up to the stored anchor: recover compares height by height  *)
(* while the chain moves, reads fail, and sync reads the anchor after the   *)
(* block it is stored with.                                                 *)
THEOREM FinalizedKeptHolds ==
  ASSUME NEW e, Endpoint = {e}, ~MayConflict
  PROVE  Spec => FinalizedKept
<1>1. e \in Endpoint
  OBVIOUS
<1>2. Init => FinalInv(e)
  BY <1>1, IndexerAssumption, PathHeights DEF Init, FinalInv, NoCheckpoint
<1>3. IInv /\ FinalInv(e) /\ [Next]_vars => FinalInv(e)'
  BY <1>1, FinalKeeps
<1>4. IInv /\ FinalInv(e) /\ [Next]_vars =>
        [saved.anchor # NoBlock => blocks \cap Path[saved.anchor] \subseteq blocks']_vars
  BY <1>1, StepKeepsFinal
<1> QED BY <1>2, <1>3, <1>4, Invariance, PTL DEF Spec, FinalizedKept
=============================================================================
