------------------------------ MODULE BatchQueue ------------------------------
(***************************************************************************)
(* The queue that turns concurrent requests into batches: BatchQueue       *)
(* (rpc/transport/queue.ts), under the HTTP batcher and the multicall      *)
(* reads.  The first request of an idle queue starts its drain, a fiber    *)
(* that collects requests for a window, or until a batch is full, and runs *)
(* one batch at a time.                                                    *)
(*                                                                         *)
(* A step is what a fiber does between two suspensions: fibers share one   *)
(* thread, and suspend here only for a result, the window and the batch.   *)
(***************************************************************************)
EXTENDS Naturals, FiniteSets

CONSTANTS
  Caller,     \* the calls of request(); a call stands for its entry, too
  Weight,     \* Weight[c]: the weight of c's input, at least 0
  Size,       \* entries of a batch at most
  MaxWeight,  \* weight of a batch at most, unless one entry exceeds it
  Capacity    \* entries of the queue at most

ASSUME QueueAssumption ==
  /\ IsFiniteSet(Caller)
  /\ Weight \in [Caller -> Nat]
  /\ Size \in Nat \ {0}
  /\ MaxWeight \in Nat /\ Capacity \in Nat

VARIABLES
  caller,     \* where each call is: it waits, it left, or how it ended
  result,     \* result[c]: the deferred of c's entry, or "none"
  pending,    \* the entries without a result whose callers wait
  arrival,    \* arrival[c]: c's place in the insertion order of pending
  drain,      \* the drain: "off", "forked", "window" or "batch"
  woken,      \* the deferred wake of the window is done
  active,     \* active.entries, the batch that runs
  abandoned,  \* the deferred active.abandoned is done
  closed      \* the scope of the drain is closed

entries == <<pending, arrival>>
batch == <<active, abandoned>>
vars == <<caller, result, entries, drain, woken, batch, closed>>

Result == {"value", "failure", "missing", "interrupted"}

TypeOK ==
  /\ caller \in [Caller -> {"new", "waiting", "gone", "full"} \cup Result]
  /\ result \in [Caller -> {"none"} \cup Result]
  /\ pending \subseteq Caller
  /\ arrival \in [Caller -> Nat]
  /\ drain \in {"off", "forked", "window", "batch"}
  /\ woken \in BOOLEAN
  /\ active \subseteq Caller
  /\ abandoned \in BOOLEAN
  /\ closed \in BOOLEAN

Init ==
  /\ caller = [c \in Caller |-> "new"]
  /\ result = [c \in Caller |-> "none"]
  /\ pending = {}
  /\ arrival = [c \in Caller |-> 0]
  /\ drain = "off"
  /\ woken = FALSE
  /\ active = {} /\ abandoned = FALSE
  /\ closed = FALSE
-----------------------------------------------------------------------------
(* The sum of their weights: the entries with their units are that many.   *)
TotalWeight(S) == Cardinality(UNION {{c} \X (1..Weight[c]) : c \in S})

IsFull(S) == Cardinality(S) >= Size \/ TotalWeight(S) >= MaxWeight

(* The entries of S up to c in the order of insertion. *)
UpTo(c, S) == {b \in S : arrival[b] <= arrival[c]}

Fits(S) ==
  Cardinality(S) <= Size /\ (Cardinality(S) > 1 => TotalWeight(S) <= MaxWeight)

(* A mutant: a batch is cut by its size only. *)
Take_BySize(S) == {c \in S : Cardinality(UpTo(c, S)) <= Size}

(* Weights are not negative: the entries before the first that does not    *)
(* fit are those up to which everything fits.                              *)
Take(S) == {c \in S : Fits(UpTo(c, S))}

QueueFull(c) ==
  /\ caller[c] = "new" /\ Cardinality(pending) >= Capacity
  /\ caller' = [caller EXCEPT ![c] = "full"]
  /\ UNCHANGED <<result, entries, drain, woken, batch, closed>>

(* A mutant: a request that fills the batch does not end the window. *)
Request_NoWake(c) ==
  /\ caller[c] = "new" /\ Cardinality(pending) < Capacity /\ ~ closed
  /\ caller' = [caller EXCEPT ![c] = "waiting"]
  /\ pending' = pending \cup {c}
  /\ arrival' = [arrival EXCEPT ![c] = Cardinality({b \in Caller : arrival[b] > 0}) + 1]
  /\ drain' = IF drain = "off" THEN "forked" ELSE drain
  /\ UNCHANGED <<result, woken, batch, closed>>

(* A closed client refuses its calls before they get here. *)
Request(c) ==
  /\ caller[c] = "new" /\ Cardinality(pending) < Capacity /\ ~ closed
  /\ caller' = [caller EXCEPT ![c] = "waiting"]
  /\ pending' = pending \cup {c}
  /\ arrival' = [arrival EXCEPT ![c] = Cardinality({b \in Caller : arrival[b] > 0}) + 1]
  /\ drain' = IF drain = "off" THEN "forked" ELSE drain
  /\ woken' = (woken \/ (drain = "window" /\ IsFull(pending \cup {c})))
  /\ UNCHANGED <<result, batch, closed>>

(* A mutant: the batch is checked before the entry is deleted. *)
Forget_ChecksFirst(c) ==
  /\ pending' = pending \ {c}
  /\ abandoned' = (abandoned \/ (drain = "batch" /\ active \cap pending = {}))
  /\ UNCHANGED <<result, arrival, drain, woken, active, closed>>

(* The ensuring of request(): the last caller of a batch abandons it. *)
Forget(c) ==
  /\ pending' = pending \ {c}
  /\ abandoned' = (abandoned \/ (drain = "batch" /\ active \cap (pending \ {c}) = {}))
  /\ UNCHANGED <<result, arrival, drain, woken, active, closed>>

Resume(c) ==
  /\ caller[c] = "waiting" /\ result[c] # "none"
  /\ caller' = [caller EXCEPT ![c] = result[c]]
  /\ Forget(c)

(* The caller is interrupted: cancelled, or out of time. *)
Leave(c) ==
  /\ caller[c] = "waiting"
  /\ caller' = [caller EXCEPT ![c] = "gone"]
  /\ Forget(c)
-----------------------------------------------------------------------------
(* The drain runs the batch of the oldest entries of S. *)
RunBatch(S) ==
  /\ drain' = "batch"
  /\ active' = Take(S)
  /\ abandoned' = FALSE
  /\ woken' = FALSE

Off ==
  /\ drain' = "off"
  /\ active' = {} /\ abandoned' = FALSE
  /\ woken' = FALSE

Window ==
  /\ drain' = "window"
  /\ active' = {} /\ abandoned' = FALSE
  /\ woken' = FALSE

(* The top of the drain's loop, with the entries S pending. *)
Loop(S) ==
  \/ S = {} /\ Off
  \/ S # {} /\ IsFull(S) /\ RunBatch(S)
  \/ S # {} /\ ~ IsFull(S) /\ Window

Begin ==
  /\ drain = "forked"
  /\ Loop(pending)
  /\ UNCHANGED <<caller, result, entries, closed>>

(* The window is over, or wake is done; callers may have left meanwhile. *)
Collect ==
  /\ drain = "window"
  /\ IF pending = {} THEN Off ELSE RunBatch(pending)
  /\ UNCHANGED <<caller, result, entries, closed>>

(* onExit of the batch: its entries leave the queue with their results; an *)
(* entry that already left has one that nobody reads.                      *)
Deliver(results) ==
  /\ result' = [c \in Caller |-> IF c \in active THEN results[c] ELSE result[c]]
  /\ pending' = pending \ active
  /\ UNCHANGED <<caller, arrival, closed>>

(* A mutant: the drain ends after one batch. *)
BatchAnswers_Ends ==
  /\ drain = "batch"
  /\ \E results \in [active -> {"value", "failure"}] : Deliver(results)
  /\ Off

(* run() answers every input of the batch, each with a value or a failure. *)
BatchAnswers ==
  /\ drain = "batch"
  /\ \E results \in [active -> {"value", "failure"}] : Deliver(results)
  /\ Loop(pending \ active)

BatchFails ==
  /\ drain = "batch"
  /\ Deliver([c \in active |-> "failure"])
  /\ Loop(pending \ active)

(* The race is won by active.abandoned: run() is cancelled, no results. *)
BatchAbandoned ==
  /\ drain = "batch" /\ abandoned
  /\ Deliver([c \in active |-> "missing"])
  /\ Loop(pending \ active)

(* The scope closes and interrupts the drain, which fails every entry.  A  *)
(* drain that has not begun is left out: what an interrupted fiber does    *)
(* before its first step is up to the effect library.                      *)
Close ==
  /\ ~ closed /\ drain # "forked"
  /\ closed' = TRUE
  /\ result' = [c \in Caller |->
       IF drain # "off" /\ c \in pending \cup active THEN "interrupted" ELSE result[c]]
  /\ pending' = IF drain = "off" THEN pending ELSE {}
  /\ Off
  /\ UNCHANGED <<caller, arrival>>

Drain == Begin \/ Collect \/ BatchAnswers \/ BatchFails \/ BatchAbandoned

Next ==
  \/ \E c \in Caller : QueueFull(c) \/ Request(c) \/ Resume(c) \/ Leave(c)
  \/ Drain \/ Close

Spec == Init /\ [][Next]_vars

(* Windows and batches end: a timer and a deadline bound them.  The        *)
(* scheduler runs a ready fiber.                                           *)
FairSpec == Spec /\ WF_vars(Drain) /\ \A c \in Caller : WF_vars(Resume(c))
-----------------------------------------------------------------------------
(* An entry without a result has a drain that will come to it, and its     *)
(* caller waits for it (queue.ts:36, 74, 94).                              *)
NobodyStranded ==
  /\ pending # {} => drain # "off"
  /\ pending = {c \in Caller : caller[c] = "waiting" /\ result[c] = "none"}

(* A batch is cancelled exactly when nobody waits for any of its results,  *)
(* whatever waits for the next one (queue.ts:44).                          *)
AbandonedIffUnwanted ==
  drain = "batch" => (abandoned <=> active \cap pending = {})

(* A caller that stays never gets "Missing batch result": the batch it is  *)
(* in is not the one that was abandoned (queue.ts:88).                     *)
NoMissing ==
  \A c \in Caller :
    /\ caller[c] # "missing"
    /\ caller[c] = "waiting" => result[c] # "missing"

(* Requests that fill a batch do not wait for the window (queue.ts:40, 77). *)
FullWakes == drain = "window" /\ IsFull(pending) => woken

(* The queue is first come, first served, and bounded; a batch keeps its   *)
(* limits, but for a single entry that exceeds the weight (queue.ts:61).   *)
OldestFirst ==
  /\ Cardinality(pending) <= Capacity
  /\ drain = "batch" =>
       /\ active # {} /\ Fits(active)
       /\ \A a \in active, p \in pending \ active : arrival[a] < arrival[p]

(* A caller that waits is answered, or leaves by itself.                   *)
Answered == \A c \in Caller : caller[c] = "waiting" ~> caller[c] # "waiting"
=============================================================================
