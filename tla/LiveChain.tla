------------------------------ MODULE LiveChain ------------------------------
(***************************************************************************)
(* The shared live chain worker: liveChain (rpc/live-chain.ts) with the    *)
(* observed head it waits for, the reads it makes of the endpoints, the    *)
(* updates it hands downstream and the completed-block cache that follows  *)
(* them (rpc/client.ts).                                                   *)
(*                                                                         *)
(* Every read is a step of its own: the endpoints' chains may change       *)
(* between the head, each block load and each header read of one round.    *)
(***************************************************************************)
EXTENDS BlockTree, Integers, Sequences, FiniteSets

CONSTANTS
  Endpoint,         \* the RPC endpoints; each read is answered by any of them
  Window,           \* blocks one round loads at most (8 in the code)
  Cap,              \* blocks retained at most (128 in the code)
  FirstTip,         \* the block every endpoint is at initially
  MaxDisturbances,  \* bound: chain changes and failed reads in a behaviour
  MaxRestarts       \* bound: times the last subscriber leaves

ASSUME LiveChainAssumption ==
  /\ Window \in Nat \ {0}
  /\ Cap \in Nat \ {0}
  /\ FirstTip \in Block
  /\ MaxDisturbances \in Nat
  /\ MaxRestarts \in Nat

VARIABLES
  (* the endpoints *)
  tip,          \* tip[e]: the newest block of e's chain
  disturbances, \* chain changes and failed reads so far
  (* the client *)
  head,         \* the observed head: its height and its hash, or NoBlock
  (* the worker: liveChain's closure *)
  cursor,       \* the last block it applied or reverted to, or NoBlock
  retained,     \* Map of the applied blocks a reorg can be resolved against
  ready,        \* Map of the blocks loaded and not applied yet
  phase,        \* where the round is: "wait", "load" or "walk"
  from, through,\* the heights the round loads
  unread,       \* the retained heights the walk has not compared yet
  (* downstream *)
  pending,      \* updates of the last round not handed on yet
  completed,    \* client.completedBlocks: serves reads of whole blocks
  view,         \* the blocks a consumer of watchChain() holds
  restarts      \* times the last subscriber left so far

env == <<tip, disturbances>>
worker == <<cursor, retained, ready, phase, from, through, unread>>
downstream == <<pending, completed, view, restarts>>
vars == <<env, head, worker, downstream>>

Heads == [number : Nat, hash : Block \cup {NoBlock}]
Updates ==
  [kind : {"apply"}, value : Block]
    \cup [kind : {"revert"}, from : Nat, ancestor : Block]

TypeOK ==
  /\ tip \in [Endpoint -> Block]
  /\ disturbances \in 0..MaxDisturbances
  /\ head \in Heads
  /\ cursor \in Block \cup {NoBlock}
  /\ BlockMap(retained)
  /\ BlockMap(ready)
  /\ phase \in {"wait", "load", "walk"}
  /\ from \in Nat /\ through \in Nat
  /\ unread \subseteq DOMAIN retained
  /\ pending \in Seq(Updates)
  /\ BlockMap(completed)
  /\ BlockMap(view)
  /\ restarts \in 0..MaxRestarts

(* The client starts with the head the endpoint probes found. *)
Init ==
  /\ tip = [e \in Endpoint |-> FirstTip]
  /\ disturbances = 0
  /\ head = [number |-> Number[FirstTip], hash |-> FirstTip]
  /\ cursor = NoBlock
  /\ retained = EmptyMap
  /\ ready = EmptyMap
  /\ phase = "wait"
  /\ from = 0 /\ through = 0
  /\ unread = {}
  /\ pending = <<>>
  /\ completed = EmptyMap
  /\ view = EmptyMap
  /\ restarts = 0
-----------------------------------------------------------------------------
(* The environment. *)

(* An endpoint's chain grows, reorganises, or falls behind. *)
Move(e) ==
  /\ disturbances < MaxDisturbances
  /\ \E b \in Block : tip' = [tip EXCEPT ![e] = b]
  /\ disturbances' = disturbances + 1
  /\ UNCHANGED <<head, worker, downstream>>

(* A read fails although an endpoint has the block: a timeout, an error, a *)
(* rejected answer.                                                        *)
Fault == disturbances < MaxDisturbances /\ disturbances' = disturbances + 1

(* Mutant of Serves: the answer's height is not compared with the request. *)
ServesAnyHeight(b, n) == \E e \in Endpoint : b \in Path[tip[e]]

(* The block some endpoint has at a height. *)
Serves(b, n) == Number[b] = n /\ \E e \in Endpoint : b \in Path[tip[e]]

(* A read of a height fails: no endpoint has it, or by a fault. *)
ReadFails(n) ==
  /\ \/ (\A b \in Block : ~Serves(b, n)) /\ UNCHANGED disturbances
     \/ Fault
  /\ UNCHANGED tip
-----------------------------------------------------------------------------
(* The observed head never moves to a lower height; at the same height a   *)
(* different hash replaces it.  eth_blockNumber answers have no hash.      *)
Observe(e) ==
  \E hash \in {tip[e], NoBlock} :
    LET number == Number[tip[e]] IN
    /\ \/ number > head.number
       \/ number = head.number /\ hash # NoBlock /\ hash # head.hash
    /\ head' = [number |-> number, hash |-> hash]
    /\ UNCHANGED <<env, worker, downstream>>
-----------------------------------------------------------------------------
(* One round of the worker. *)

(* A head worth a round: unfold asks for it when downstream took the whole *)
(* result of the previous round.                                           *)
Fresh ==
  /\ head.hash # NoBlock
  /\ cursor # NoBlock =>
       \/ head.number > Number[cursor]
       \/ head.number = Number[cursor] /\ head.hash # cursor

Await ==
  /\ phase = "wait" /\ pending = <<>>
  /\ Fresh
  /\ phase' = "load"
  /\ IF cursor # NoBlock /\ head.number > Number[cursor]
     THEN /\ from' = Number[cursor] + 1
          /\ through' = IF head.number < from' + Window - 1
                        THEN head.number ELSE from' + Window - 1
     ELSE from' = head.number /\ through' = head.number
  /\ UNCHANGED <<env, head, cursor, retained, ready, unread, downstream>>

(* The loads of a round run concurrently and keep what they got. *)
Load(n) ==
  /\ phase = "load"
  /\ n \in (from..through) \ DOMAIN ready
  /\ \E b \in Block :
       /\ Serves(b, n)
       /\ ready' = [m \in DOMAIN ready \cup {n} |->
                      IF m = n THEN b ELSE ready[m]]
  /\ UNCHANGED <<env, head, cursor, retained, phase, from, through, unread,
                 downstream>>

(* One failed load ends the round; recoverLive starts the next one. *)
LoadFails ==
  /\ phase = "load"
  /\ \E n \in (from..through) \ DOMAIN ready : ReadFails(n)
  /\ phase' = "wait"
  /\ UNCHANGED <<head, cursor, retained, ready, from, through, unread,
                 downstream>>

Loaded == phase = "load" /\ from..through \subseteq DOMAIN ready

(* The block the one at height n has to be a child of. *)
Predecessor(n) == IF n = from THEN cursor ELSE ready[n - 1]

(* Mutant of Continues: the parent hash is not compared. *)
ContinuesByHeight(n) ==
  Predecessor(n) # NoBlock => n = Number[Predecessor(n)] + 1

Continues(n) ==
  Predecessor(n) # NoBlock =>
    /\ n = Number[Predecessor(n)] + 1
    /\ Parent[ready[n]] = Predecessor(n)

(* The endpoints still have the applied tip. *)
Unchanged == from = through /\ cursor # NoBlock /\ ready[from] = cursor

SameBlock ==
  /\ Loaded /\ Unchanged
  /\ ready' = Only(ready, DOMAIN ready \ {from})
  /\ phase' = "wait"
  /\ UNCHANGED <<env, head, cursor, retained, from, through, unread,
                 downstream>>

(* The n newest entries: the maps are filled in ascending height, and the  *)
(* code trims them in insertion order.                                     *)
Newest(f, n) ==
  Only(f, {h \in DOMAIN f : Cardinality({k \in DOMAIN f : k > h}) < n})

Extend ==
  /\ Loaded /\ ~Unchanged
  /\ \A n \in from..through : Continues(n)
  /\ retained' = Newest([n \in DOMAIN retained \cup (from..through) |->
                           IF n \in from..through THEN ready[n]
                                                  ELSE retained[n]], Cap)
  /\ ready' = Only(ready, DOMAIN ready \ (from..through))
  /\ cursor' = ready[through]
  /\ pending' = [i \in 1..(through - from + 1) |->
                   [kind |-> "apply", value |-> ready[from + i - 1]]]
  /\ phase' = "wait"
  /\ UNCHANGED <<env, head, from, through, unread, completed, view, restarts>>

(* A parent hash does not match: look for the common ancestor. *)
Break ==
  /\ Loaded /\ ~Unchanged
  /\ \E n \in from..through : ~Continues(n)
  /\ phase' = "walk"
  /\ unread' = DOMAIN retained
  /\ UNCHANGED <<env, head, cursor, retained, ready, from, through,
                 downstream>>

(* The walk reads the canonical header of retained heights, newest first.  *)
Walking(n) ==
  /\ phase = "walk"
  /\ n \in unread
  /\ \A m \in unread : m <= n

HeaderDiffers(n) ==
  /\ Walking(n)
  /\ \E b \in Block : Serves(b, n) /\ b # retained[n]
  /\ unread' = unread \ {n}
  /\ UNCHANGED <<env, head, cursor, retained, ready, phase, from, through,
                 downstream>>

HeaderFails(n) ==
  /\ Walking(n)
  /\ ReadFails(n)
  /\ phase' = "wait" /\ unread' = {}
  /\ UNCHANGED <<head, cursor, retained, ready, from, through, downstream>>

(* The applied tip is canonical and a later block does not continue it: a  *)
(* stale child, loaded again in the next round.                            *)
StaleChild(n) == n = Number[cursor] /\ from > n

HeaderMatches(n) == Walking(n) /\ Serves(retained[n], n)

(* Mutant of Reload: the stale child stays in the ready cache. *)
ReloadKeepsReady(n) ==
  /\ HeaderMatches(n) /\ StaleChild(n)
  /\ phase' = "wait" /\ unread' = {}
  /\ UNCHANGED <<env, head, cursor, retained, ready, from, through, downstream>>

Reload(n) ==
  /\ HeaderMatches(n) /\ StaleChild(n)
  /\ ready' = EmptyMap
  /\ phase' = "wait" /\ unread' = {}
  /\ UNCHANGED <<env, head, cursor, retained, from, through, downstream>>

(* Mutant of Revert: the orphaned blocks stay retained. *)
RevertKeepsRetained(n) ==
  /\ HeaderMatches(n) /\ ~StaleChild(n)
  /\ ready' = EmptyMap
  /\ cursor' = retained[n]
  /\ pending' = << [kind |-> "revert", from |-> n + 1,
                    ancestor |-> retained[n]] >>
  /\ phase' = "wait" /\ unread' = {}
  /\ UNCHANGED <<env, head, retained, from, through, completed, view, restarts>>

Revert(n) ==
  /\ HeaderMatches(n) /\ ~StaleChild(n)
  /\ ready' = EmptyMap
  /\ cursor' = retained[n]
  /\ retained' = Below(retained, n + 1)
  /\ pending' = << [kind |-> "revert", from |-> n + 1,
                    ancestor |-> retained[n]] >>
  /\ phase' = "wait" /\ unread' = {}
  /\ UNCHANGED <<env, head, from, through, completed, view, restarts>>

(* No retained block is canonical: BlockUnavailable, and another round. *)
NoAncestor ==
  /\ phase = "walk" /\ unread = {}
  /\ ready' = EmptyMap
  /\ phase' = "wait"
  /\ UNCHANGED <<env, head, cursor, retained, from, through, unread,
                 downstream>>
-----------------------------------------------------------------------------
(* Downstream takes the updates of a round one at a time.  The cache       *)
(* follows each update before the consumers see it.                        *)
With(f, b) ==
  [n \in DOMAIN f \cup {Number[b]} |-> IF n = Number[b] THEN b ELSE f[n]]

(* Mutant of DropFrom: the comparison with the first invalid height is off *)
(* by one, so the ancestor goes too.                                       *)
DropFromAncestor(f, n) == Below(f, n - 1)

(* Mutant of DropFrom: the cache ignores reverts. *)
DropNothing(f, n) == f

(* What a revert leaves of the cache. *)
DropFrom(f, n) == Below(f, n)

Deliver ==
  /\ pending # <<>>
  /\ LET update == Head(pending) IN
       \/ /\ update.kind = "apply"
          /\ completed' = Newest(With(completed, update.value), Cap)
          /\ view' = With(view, update.value)
       \/ /\ update.kind = "revert"
          /\ completed' = DropFrom(completed, update.from)
          /\ view' = Below(view, update.from)
  /\ pending' = Tail(pending)
  /\ UNCHANGED <<env, head, worker, restarts>>

(* The last subscriber leaves, which ends the shared stream; the next one  *)
(* starts a new worker.  The cache belongs to the client and stays.        *)
Restart ==
  /\ restarts < MaxRestarts
  /\ restarts' = restarts + 1
  /\ cursor' = NoBlock
  /\ retained' = EmptyMap /\ ready' = EmptyMap
  /\ phase' = "wait" /\ from' = 0 /\ through' = 0 /\ unread' = {}
  /\ pending' = <<>> /\ view' = EmptyMap
  /\ UNCHANGED <<env, head, completed>>
-----------------------------------------------------------------------------
Round ==
  \/ Await
  \/ \E n \in from..through : Load(n)
  \/ LoadFails
  \/ SameBlock
  \/ Extend
  \/ Break
  \/ \E n \in unread : HeaderDiffers(n) \/ Reload(n) \/ Revert(n)
  \/ \E n \in unread : HeaderFails(n)
  \/ NoAncestor

Next ==
  \/ \E e \in Endpoint : Move(e) \/ Observe(e)
  \/ Round
  \/ Deliver
  \/ Restart

(* The worker's fiber, the downstream pump and the head watchers keep      *)
(* running; nothing makes an endpoint's chain move or a read fail.         *)
Fairness ==
  /\ WF_vars(Round)
  /\ WF_vars(Deliver)
  /\ \A e \in Endpoint : WF_vars(Observe(e))

Spec == Init /\ [][Next]_vars
FairSpec == Spec /\ Fairness
-----------------------------------------------------------------------------
(* Properties. *)

View == INSTANCE ChainView WITH chain <- view

(* Whatever the endpoints do between two reads, a consumer that follows    *)
(* the updates always holds one linked chain: liveChain's updates are      *)
(* applications of children of the newest block and reverts to a block the *)
(* consumer has.                                                           *)
ViewIsLinked == View!Spec

(* When a round starts, the worker's retained blocks are exactly the top   *)
(* of the chain the consumers hold and cursor is its newest block, so an   *)
(* ancestor found by the walk is one every consumer can return to.         *)
RecoveryWindow ==
  pending = <<>> =>
    /\ \A n \in DOMAIN retained :
         /\ n \in DOMAIN view /\ view[n] = retained[n]
         /\ \A m \in DOMAIN view : m > n => m \in DOMAIN retained
    /\ cursor # NoBlock =>
         /\ Number[cursor] \in DOMAIN retained
         /\ retained[Number[cursor]] = cursor
         /\ \A n \in DOMAIN view : n <= Number[cursor]
    /\ (cursor = NoBlock) <=> (view = EmptyMap)

(* The completed-block cache holds every block the worker can still        *)
(* revert: a revert removes from the cache all it removes from retained.   *)
CacheCoversRetained ==
  pending = <<>> =>
    \A n \in DOMAIN retained : n \in DOMAIN completed /\ completed[n] = retained[n]

(* Two blocks the cache can serve (completedResponse) never belong to      *)
(* different forks.                                                        *)
CacheOnOneChain ==
  \A n, m \in DOMAIN completed : n < m => completed[n] \in Path[completed[m]]

(* The same while the client has had one worker: reverts prune the cache   *)
(* of every block of the fork they leave.                                  *)
CacheOfOneWorker == restarts = 0 => CacheOnOneChain

(* The endpoints agree on a chain that is not behind the observed head. *)
Agreed(b) == \A e \in Endpoint : tip[e] = b /\ Number[b] >= head.number

(* A block the worker can resume b's chain from. *)
CanResume(b) ==
  retained = EmptyMap \/ \E n \in DOMAIN retained : retained[n] \in Path[b]

CaughtUp == pending = <<>> /\ cursor # NoBlock /\ \A e \in Endpoint : tip[e] = cursor

(* Once the endpoints agree and stop changing, the consumers get to their  *)
(* newest block, unless the reorg is deeper than the retained blocks.      *)
Convergence ==
  <>[](\E b \in Block : Agreed(b) /\ CanResume(b)) => <>[]CaughtUp

(* The same for every reorg, also one of the first block acquired. *)
ConvergenceAfterEveryReorg ==
  <>[](\E b \in Block : Agreed(b)) => <>[]CaughtUp
=============================================================================
