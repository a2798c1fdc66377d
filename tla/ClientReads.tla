------------------------------ MODULE ClientReads ------------------------------
(***************************************************************************)
(* fetch of the client (rpc/client.ts): a read is answered from the        *)
(* completed blocks the live chain has delivered, or goes through the      *)
(* query coordinator, which keeps the results that can not change.  Reads  *)
(* are of one height, of the latest block or of a block's hash.            *)
(*                                                                         *)
(* The completed blocks are the client's and outlive the workers of the    *)
(* live chain (LiveChain has the rounds of a worker): a worker ends with   *)
(* the last subscriber of the shared stream, and the next one starts at    *)
(* the head, with nothing it could revert to.                              *)
(***************************************************************************)
EXTENDS QueryCoordinator

CONSTANTS
  Chains,       \* the canonical chain, as it changes: sequences of hashes
  WithReceipts, \* the hashes of blocks that the updates carry the receipts of
  BlocksLimit,  \* blocks the client, and a worker, hold at most: 128
  Asked,        \* the height of the reads by number
  Null          \* no block, or its hash is not known

Hash == UNION {Range(Chains[i]) : i \in DOMAIN Chains}

ASSUME ClientAssumption ==
  /\ Chains # <<>> /\ Chains \in Seq(Seq(Hash) \ {<<>>})
  /\ \A k \in Key : k.method # "call"
  /\ BlocksLimit \in Nat \ {0}

VARIABLES
  at,      \* the canonical chain is Chains[at]
  told,    \* retained of the worker, as handed on: hashes by their heights
  next,    \* the height the worker goes on at; 0 until it has a head
  blocks,  \* completedBlocks: the hashes of the blocks held, by their heights
  head,    \* latestHead
  kept,    \* kept[k]: the result kept for k
  given    \* the answer this step has given without a read, if any

clientVars == <<at, told, next, blocks, head, kept>>

Moving == {"number", "latest"}   \* references to another block after a fork

ClientInit ==
  /\ Init
  /\ at = 1 /\ told = <<>> /\ next = 0 /\ blocks = <<>>
  /\ head = [number |-> 0, hash |-> Null]
  /\ kept = [k \in Key |-> Null]
  /\ given = {}
-----------------------------------------------------------------------------
(* A hash stands at a height of a chain that is or was canonical. *)
Canonical(number, hash) ==
  \E i \in 1..at : number \in DOMAIN Chains[i] /\ Chains[i][number] = hash

(* Maps are trimmed in the order of insertion, which is that of heights: a *)
(* worker goes up from the head, and the head is never under a block held. *)
Newest(heights) ==
  {n \in heights : Cardinality({m \in heights : m >= n}) <= BlocksLimit}

With(map, number, hash) ==
  [m \in Newest(DOMAIN map \cup {number}) |-> IF m = number THEN hash ELSE map[m]]

UpTo(map, number) == [m \in {m \in DOMAIN map : m <= number} |-> map[m]]

(* A worker without a cursor takes the head, if its hash is known, and     *)
(* takes it anew when a round has failed.                                  *)
Starts ==
  /\ DOMAIN told = {} /\ head.hash # Null
  /\ next' = head.number
  /\ UNCHANGED <<vars, at, told, blocks, head, kept>>

(* The block is read by its height, from an endpoint that may be behind or *)
(* on another fork than the head, and continues those told.                *)
Applies ==
  /\ next \in 1..head.number
  /\ \E hash \in Hash :
       /\ \E i \in 1..at :
            /\ next \in DOMAIN Chains[i] /\ Chains[i][next] = hash
            /\ DOMAIN told # {} => Chains[i][next - 1] = told[next - 1]
       /\ told' = With(told, next, hash)
       /\ blocks' = With(blocks, next, hash)
  /\ next' = next + 1
  /\ UNCHANGED <<vars, at, head, kept>>

(* Mutant of Reverts: the completed blocks are not pruned. *)
Reverts_KeepsBlocks ==
  \E n \in DOMAIN told :
    /\ n + 1 < next /\ Canonical(n, told[n])
    /\ \A m \in (n + 1)..(next - 1) : \E hash \in Hash \ {told[m]} : Canonical(m, hash)
    /\ told' = UpTo(told, n) /\ next' = n + 1
    /\ UNCHANGED <<vars, at, blocks, head, kept>>

(* The headers above the ancestor differ; without one, the worker stays.   *)
Reverts ==
  \E n \in DOMAIN told :
    /\ n + 1 < next /\ Canonical(n, told[n])
    /\ \A m \in (n + 1)..(next - 1) : \E hash \in Hash \ {told[m]} : Canonical(m, hash)
    /\ told' = UpTo(told, n) /\ next' = n + 1
    /\ blocks' = UpTo(blocks, n)
    /\ UNCHANGED <<vars, at, head, kept>>

(* The last subscriber leaves and another one comes: a worker that has     *)
(* told nothing yet, over the completed blocks of those before.            *)
Restarts ==
  /\ next # 0
  /\ told' = <<>> /\ next' = 0
  /\ UNCHANGED <<vars, at, blocks, head, kept>>

(* observe: a higher head, or another hash at the head's height, replaces it. *)
Heard(number, hash) ==
  IF number > head.number \/ (number = head.number /\ hash \notin {Null, head.hash})
  THEN [number |-> number, hash |-> hash]
  ELSE head

(* A head is observed; eth_blockNumber gives its number only. *)
Observes ==
  /\ \E i \in 1..at : \E hash \in {Last(Chains[i]), Null} :
       head' = Heard(Len(Chains[i]), hash)
  /\ head' # head
  /\ UNCHANGED <<vars, at, told, next, blocks, kept>>

Moves ==
  /\ at < Len(Chains)
  /\ at' = at + 1
  /\ UNCHANGED <<vars, told, next, blocks, head, kept>>
-----------------------------------------------------------------------------
(* The height of the completed block that a read refers to, if any.        *)
Referred(k) ==
  {n \in DOMAIN blocks :
     CASE k.at = "number" -> n = Asked
       [] k.at = "latest" -> n = head.number /\ blocks[n] = head.hash
       [] OTHER -> blocks[n] = k.at}

(* completedResponse: the blocks that hold the response to the read. *)
Completed(k) ==
  {n \in Referred(k) :
     k.method \in {"block", "logs"} \/ (k.method = "receipts" /\ blocks[n] \in WithReceipts)}

(* A completed block answers, and the coordinator is not asked. *)
FromBlocks(c, k) ==
  /\ caller[c] = "new"
  /\ \E n \in Completed(k) : given' = {[of |-> k, block |-> blocks[n]]}
  /\ caller' = [caller EXCEPT ![c] = "value"]
  /\ UNCHANGED <<queries, load, completed, clientVars>>

(* budget: the deadline of the caller has passed before it asks. *)
Late(c) ==
  /\ caller[c] = "new"
  /\ caller' = [caller EXCEPT ![c] = "failure"]
  /\ given' = {}
  /\ UNCHANGED <<queries, load, completed, clientVars>>

FromQueries(c, k) ==
  /\ Completed(k) = {}
  /\ \/ Hit(c, k) /\ given' = {[of |-> k, block |-> kept[k]]}
     \/ (Join(c, k) \/ Start(c, k)) /\ given' = {}
  /\ UNCHANGED clientVars

(* getBlock: the head, if it is a recent block, or the latest block read.  *)
GetBlock ==
  \/ head.hash # Null /\ head' = head
  \/ \E i \in 1..at : head' = Heard(Len(Chains[i]), Last(Chains[i]))

(* The block an eth_call names: by its number alone, unless it is the head. *)
Named(ref, known) ==
  LET number == IF ref = "number" THEN Asked ELSE known.number
  IN  [of |-> [method |-> "call", at |-> ref], number |-> number,
       block |-> IF number = known.number THEN known.hash ELSE Null]

(* call, up to its place in the queue of calls (BatchServices); a hash or a *)
(* tag is named by the number and the hash of one block.                    *)
Calls(c) ==
  /\ caller[c] = "new"
  /\ \/ \E ref \in Moving :
          /\ GetBlock
          /\ IF head'.hash = Null
             THEN caller' = [caller EXCEPT ![c] = "failure"] /\ given' = {}
             ELSE caller' = [caller EXCEPT ![c] = "gone"] /\ given' = {Named(ref, head')}
     \/ \E i \in 1..at : \E n \in DOMAIN Chains[i] :
          /\ caller' = [caller EXCEPT ![c] = "gone"]
          /\ given' = {Named(Chains[i][n], [number |-> n, hash |-> Chains[i][n]])}
          /\ head' = head
  /\ UNCHANGED <<queries, load, completed, at, told, next, blocks, kept>>

(* Bound of the environment: callers come in the order of their numbers. *)
Fetch(c) ==
  /\ \A b \in Caller : b < c => caller[b] # "new"
  /\ Late(c) \/ Calls(c) \/ \E k \in Key : FromBlocks(c, k) \/ FromQueries(c, k)

(* What the endpoints may answer: they are at the canonical chain, or behind. *)
Reads(k) ==
  UNION {CASE k.at = "number" -> {IF Asked \in DOMAIN Chains[i] THEN Chains[i][Asked] ELSE Null}
           [] k.at = "latest" -> {Last(Chains[i])}
           [] OTHER -> {k.at, Null} : i \in 1..at}

(* keepCompletedResult: only of a block named by its hash. *)
Keeps(k, block) == block # Null /\ k.at \notin Moving

LoadKeeps(q) ==
  /\ LoadSucceeds(q)
  /\ \E block \in Reads(key[q]) :
       IF Keeps(key[q], block)
       THEN completed' = Stored(key[q]) /\ kept' = [kept EXCEPT ![key[q]] = block]
       ELSE completed' = completed /\ kept' = kept
  /\ UNCHANGED <<at, told, next, blocks, head>>

Loads(q) ==
  /\ LoadKeeps(q) \/ ((LoadFails(q) \/ LoadStops(q)) /\ UNCHANGED clientVars)
  /\ given' = {}

(* A caller whose deadline passes leaves the query it waits for. *)
Returns(c) == Resume(c) /\ given' = {} /\ UNCHANGED clientVars
Quits(c) == (Leave(c) \/ Gone(c)) /\ given' = {} /\ UNCHANGED clientVars

ClientNext ==
  \/ (Moves \/ Starts \/ Applies \/ Reverts \/ Restarts \/ Observes) /\ given' = {}
  \/ \E c \in Caller : Fetch(c) \/ Loads(c) \/ Returns(c) \/ Quits(c)

allVars == <<vars, clientVars, given>>

ClientSpec == ClientInit /\ [][ClientNext]_allVars

(* As FairSpec: reads end, and ready fibers run. *)
FairClientSpec ==
  ClientSpec /\ \A c \in Caller : WF_allVars(Loads(c)) /\ WF_allVars(Returns(c))
-----------------------------------------------------------------------------
(* What is answered without a read is what the client knows at that time:  *)
(* for a hash its own block, for "latest" the block of the latest head,    *)
(* whatever forks have been seen since a result was kept; for a height the *)
(* block the running worker has told, and a block left by another worker   *)
(* only under the first it has told, where one of a fork that was left     *)
(* meanwhile may stay; and the hash that an eth_call names stands at the   *)
(* number its result is kept for (client.ts:268, 664-678, 773, 1101-1106). *)
AtOnceIsCurrent ==
  [][\A g \in given' :
       IF g.of.method = "call"
       THEN g.block # Null => Canonical(g.number, g.block)
       ELSE CASE g.of.at = "number" ->
                   IF Asked \in DOMAIN told
                   THEN g.block = told[Asked]
                   ELSE Canonical(Asked, g.block) /\ \A n \in DOMAIN told : Asked < n
              [] g.of.at = "latest" -> g.block = head.hash
              [] OTHER -> g.block = g.of.at]_given
=============================================================================
