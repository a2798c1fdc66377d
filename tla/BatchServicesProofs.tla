-------------------------- MODULE BatchServicesProofs --------------------------
(***************************************************************************)
(* Proofs about the batch queue and what it runs, for every finite set of  *)
(* callers, all weights and limits.                                        *)
(*                                                                         *)
(* BatchQueue: a pending entry has a drain, a batch is abandoned exactly   *)
(* when nobody waits for it, no caller that stays misses its result, and   *)
(* batches are filled, limited and first come, first served.               *)
(*                                                                         *)
(* BatchServices: every step of the HTTP batcher and of the multicall      *)
(* reads is a step of the queue or leaves it alone; and whatever the       *)
(* endpoint answers to an envelope or to an aggregate, a request gets its  *)
(* own response: what the codec encodes is what it decodes.                *)
(***************************************************************************)
EXTENDS BatchServices, SharedLemmas

Arrived == {c \in Caller : arrival[c] > 0}

(* Entries arrive one after the other. *)
ArrivalInv ==
  /\ \A c \in Caller : arrival[c] <= Cardinality(Arrived)
  /\ \A b, c \in Arrived : arrival[b] = arrival[c] => b = c
  /\ pending \subseteq Arrived
  /\ \A c \in Caller : caller[c] = "new" => c \notin Arrived
  /\ \A c \in Caller : result[c] # "none" => c \in Arrived

(* The entries of the batch have no results before it ends. *)
ActiveInv ==
  /\ drain # "batch" => active = {}
  /\ active \subseteq Arrived
  /\ \A c \in active : result[c] = "none"

IInv ==
  /\ TypeOK /\ ArrivalInv /\ ActiveInv
  /\ NobodyStranded /\ AbandonedIffUnwanted /\ NoMissing
-----------------------------------------------------------------------------
(* Lemmas. *)

(* Of pending entries, the oldest is always taken: a batch is not empty. *)
LEMMA TakeNonempty ==
  ASSUME TypeOK, ArrivalInv, NEW S \in SUBSET pending, S # {}
  PROVE  Take(S) # {} /\ Take(S) \subseteq S
<1> DEFINE Places == {arrival[c] : c \in S}
<1>1. Places \subseteq Nat /\ Places # {}
  BY DEF TypeOK
<1>2. PICK n \in Places : \A m \in Places : n <= m
  BY <1>1, Smallest
<1>3. PICK c \in S : arrival[c] = n
  BY <1>2
<1>4. UpTo(c, S) = {c}
  <2>1. ASSUME NEW b \in S, arrival[b] <= arrival[c]
        PROVE  b = c
    <3>1. arrival[b] \in Nat /\ arrival[c] \in Nat /\ arrival[c] <= arrival[b]
      BY <1>2, <1>3 DEF TypeOK
    <3> QED
      BY <2>1, <3>1 DEF ArrivalInv
  <2>2. arrival[c] <= arrival[c]
    BY DEF TypeOK
  <2> QED
    BY <2>1, <2>2 DEF UpTo
<1>5. Fits(UpTo(c, S))
  <2>1. Cardinality({c}) = 1
    BY FS_Singleton
  <2>2. Cardinality({c}) <= Size /\ ~ Cardinality({c}) > 1
    BY <2>1, QueueAssumption
  <2> QED
    BY <1>4, <2>2 DEF Fits
<1> QED
  BY <1>3, <1>5 DEF Take

(* Those that arrived are finitely many. *)
LEMMA ArrivedFinite == IsFiniteSet(Arrived) /\ Cardinality(Arrived) \in Nat
BY QueueAssumption, FS_Subset, FS_CardinalityType DEF Arrived

(* A loop that goes on has a batch of pending entries, with none abandoned. *)
LEMMA LoopStep ==
  ASSUME TypeOK, ArrivalInv, NEW S \in SUBSET pending, Loop(S),
         pending' = S, arrival' = arrival, result' \in [Caller -> {"none"} \cup Result],
         \A c \in S : result'[c] = "none"
  PROVE  /\ drain' \in {"off", "window", "batch"} /\ woken' \in BOOLEAN
         /\ active' \subseteq Caller /\ abandoned' \in BOOLEAN
         /\ ActiveInv' /\ AbandonedIffUnwanted'
         /\ pending' # {} => drain' # "off"
<1>1. CASE S = {} /\ Off
  BY <1>1 DEF Off, ActiveInv, AbandonedIffUnwanted
<1>2. CASE S # {} /\ ~ IsFull(S) /\ Window
  BY <1>2 DEF Window, ActiveInv, AbandonedIffUnwanted
<1>3. CASE S # {} /\ IsFull(S) /\ RunBatch(S)
  <2>1. Take(S) # {} /\ Take(S) \subseteq S
    BY <1>3, TakeNonempty
  <2>2. active' \subseteq S /\ active' # {} /\ S \subseteq Arrived
    BY <1>3, <2>1 DEF RunBatch, ArrivalInv
  <2>3. Arrived' = Arrived
    BY DEF Arrived
  <2> QED
    BY <1>3, <2>2, <2>3 DEF RunBatch, ActiveInv, AbandonedIffUnwanted, TypeOK
<1> QED
  BY <1>1, <1>2, <1>3 DEF Loop
-----------------------------------------------------------------------------
(* Every step preserves the inductive invariant. *)

LEMMA RequestStep ==
  ASSUME IInv, NEW c \in Caller, Request(c)
  PROVE  IInv'
<1> USE DEF IInv
<1> DEFINE n == Cardinality(Arrived) + 1
<1>1. n \in Nat /\ n > 0 /\ \A b \in Caller : arrival[b] < n /\ arrival[b] \in Nat
  BY ArrivedFinite DEF ArrivalInv, TypeOK
<1>2. arrival' = [arrival EXCEPT ![c] = n]
  BY DEF Request, Arrived
<1>3. c \notin Arrived /\ c \notin pending
  BY DEF Request, ArrivalInv
<1>4. TypeOK'
  BY <1>1, <1>2 DEF Request, TypeOK, batch
<1>5. Arrived' = Arrived \cup {c}
  BY <1>1, <1>2 DEF Arrived, TypeOK
<1>6. Cardinality(Arrived') = n
  BY <1>3, <1>5, ArrivedFinite, FS_AddElement
<1>7. ArrivalInv'
  <2>1. \A b \in Caller : arrival'[b] <= n
    BY <1>1, <1>2 DEF TypeOK
  <2>2. \A b, d \in Arrived' : arrival'[b] = arrival'[d] => b = d
    BY <1>1, <1>2, <1>3, <1>5 DEF ArrivalInv, Arrived, TypeOK
  <2>3. pending' \subseteq Arrived'
    BY <1>5 DEF Request, ArrivalInv
  <2>4. \A b \in Caller : caller'[b] = "new" => b \notin Arrived'
    BY <1>5 DEF Request, ArrivalInv, TypeOK
  <2> QED
    BY <1>5, <1>6, <2>1, <2>2, <2>3, <2>4 DEF Request, ArrivalInv
<1>8. result[c] = "none" /\ result' = result
  BY <1>3 DEF Request, ArrivalInv
<1>9. ActiveInv'
  BY <1>3, <1>5 DEF Request, ActiveInv, ArrivalInv, batch
<1>10. NobodyStranded'
  BY <1>3, <1>8 DEF Request, NobodyStranded, TypeOK
<1>11. AbandonedIffUnwanted'
  BY <1>3 DEF Request, AbandonedIffUnwanted, ActiveInv, batch
<1>12. NoMissing'
  BY <1>8 DEF Request, NoMissing, TypeOK
<1> QED
  BY <1>4, <1>7, <1>9, <1>10, <1>11, <1>12

(* Steps that leave the queue alone but for one call. *)
LEMMA QueueFullStep ==
  ASSUME IInv, NEW c \in Caller, QueueFull(c)
  PROVE  IInv'
<1>1. TypeOK' /\ ActiveInv' /\ AbandonedIffUnwanted'
  BY DEF QueueFull, IInv, TypeOK, ActiveInv, AbandonedIffUnwanted, Arrived, entries, batch
<1>2. ArrivalInv' /\ NobodyStranded' /\ NoMissing'
  BY DEF QueueFull, IInv, TypeOK, ArrivalInv, Arrived, NobodyStranded, NoMissing, entries
<1> QED
  BY <1>1, <1>2 DEF IInv

LEMMA ForgetStep ==
  ASSUME IInv, NEW c \in Caller, Resume(c) \/ Leave(c)
  PROVE  IInv'
<1> USE DEF IInv
<1>1. PICK s : /\ s \in {"gone"} \cup (Result \ {"missing"})
               /\ caller' = [caller EXCEPT ![c] = s]
               /\ caller[c] = "waiting" /\ Forget(c)
  BY DEF Resume, Leave, NoMissing, TypeOK
<1>2. s \notin {"new", "waiting"}
  BY <1>1 DEF Result
<1>3. TypeOK'
  BY <1>1 DEF Forget, TypeOK
<1>4. ArrivalInv'
  BY <1>1, <1>2 DEF Forget, ArrivalInv, Arrived, TypeOK
<1>5. ActiveInv'
  BY <1>1 DEF Forget, ActiveInv, Arrived
<1>6. NobodyStranded'
  BY <1>1, <1>2 DEF Forget, NobodyStranded, TypeOK
<1>7. AbandonedIffUnwanted'
  BY <1>1 DEF Forget, AbandonedIffUnwanted, TypeOK
<1>8. NoMissing'
  BY <1>1 DEF Forget, NoMissing, TypeOK, Result
<1> QED
  BY <1>3, <1>4, <1>5, <1>6, <1>7, <1>8

(* Steps of the drain. *)
LEMMA BeginStep ==
  ASSUME IInv, Begin
  PROVE  IInv'
<1> USE DEF IInv
<1>1. \A c \in pending : result[c] = "none"
  BY DEF NobodyStranded
<1>2. /\ drain' \in {"off", "window", "batch"} /\ woken' \in BOOLEAN
      /\ active' \subseteq Caller /\ abandoned' \in BOOLEAN
      /\ ActiveInv' /\ AbandonedIffUnwanted'
      /\ pending' # {} => drain' # "off"
  BY <1>1, LoopStep DEF Begin, entries, TypeOK
<1>3. UNCHANGED <<caller, result, pending, arrival, closed>>
  BY DEF Begin, entries
<1> QED
  BY <1>2, <1>3 DEF TypeOK, ArrivalInv, Arrived, NobodyStranded, NoMissing

LEMMA CollectStep ==
  ASSUME IInv, Collect
  PROVE  IInv'
<1> USE DEF IInv
<1>1. UNCHANGED <<caller, result, pending, arrival, closed>>
  BY DEF Collect, entries
<1>2. CASE pending = {}
  BY <1>1, <1>2 DEF Collect, Off, TypeOK, ArrivalInv, ActiveInv, Arrived,
                    NobodyStranded, AbandonedIffUnwanted, NoMissing
<1>3. CASE pending # {}
  <2>1. Take(pending) # {} /\ Take(pending) \subseteq pending
    BY <1>3, TakeNonempty
  <2>2. TypeOK'
    BY <1>1, <1>3, <2>1 DEF Collect, RunBatch, TypeOK
  <2>3. ActiveInv'
    BY <1>1, <1>3, <2>1 DEF Collect, RunBatch, ActiveInv, ArrivalInv, Arrived, NobodyStranded
  <2>4. AbandonedIffUnwanted' /\ NobodyStranded'
    BY <1>1, <1>3, <2>1 DEF Collect, RunBatch, AbandonedIffUnwanted, NobodyStranded
  <2>5. ArrivalInv' /\ NoMissing'
    BY <1>1 DEF ArrivalInv, Arrived, NoMissing
  <2> QED
    BY <2>2, <2>3, <2>4, <2>5
<1> QED
  BY <1>2, <1>3

(* A batch that ends hands results to its entries, "missing" only to those *)
(* that left, and the loop goes on with the rest.                          *)
LEMMA DeliverStep ==
  ASSUME IInv, drain = "batch", NEW r \in [active -> Result \ {"interrupted"}],
         \A c \in active : r[c] = "missing" => abandoned,
         Deliver(r), Loop(pending \ active)
  PROVE  IInv'
<1> USE DEF IInv
<1>1. result' \in [Caller -> {"none"} \cup Result]
  BY DEF Deliver, TypeOK
<1>2. \A c \in Caller : result'[c] = IF c \in active THEN r[c] ELSE result[c]
  BY DEF Deliver
<1>3. UNCHANGED <<caller, arrival, closed>> /\ pending' = pending \ active
  BY DEF Deliver
<1>4. \A c \in pending \ active : result'[c] = "none"
  BY <1>2 DEF NobodyStranded
<1>5. /\ drain' \in {"off", "window", "batch"} /\ woken' \in BOOLEAN
      /\ active' \subseteq Caller /\ abandoned' \in BOOLEAN
      /\ ActiveInv' /\ AbandonedIffUnwanted'
      /\ pending' # {} => drain' # "off"
  BY <1>1, <1>3, <1>4, LoopStep
<1>6. TypeOK'
  BY <1>1, <1>3, <1>5 DEF TypeOK
<1>7. ArrivalInv'
  BY <1>2, <1>3 DEF ArrivalInv, ActiveInv, Arrived
<1>8. \A c \in active : r[c] # "none"
  BY DEF Result
<1>9. NobodyStranded'
  BY <1>2, <1>3, <1>5, <1>8 DEF NobodyStranded
<1>10. NoMissing'
  <2>1. \A c \in active : r[c] = "missing" => caller[c] # "waiting"
    BY DEF AbandonedIffUnwanted, NobodyStranded, ActiveInv, TypeOK
  <2> QED
    BY <1>2, <1>3, <2>1 DEF NoMissing
<1> QED
  BY <1>5, <1>6, <1>7, <1>9, <1>10

LEMMA CloseStep ==
  ASSUME IInv, Close
  PROVE  IInv'
<1> USE DEF IInv
<1>1. \A c \in Caller : result'[c] =
        IF drain # "off" /\ c \in pending \cup active THEN "interrupted" ELSE result[c]
  BY DEF Close
<1>2. UNCHANGED <<caller, arrival>> /\ pending' = {}
  BY DEF Close, NobodyStranded
<1>3. TypeOK'
  BY <1>2 DEF Close, Off, TypeOK, Result
<1>4. ArrivalInv'
  BY <1>1, <1>2 DEF ArrivalInv, ActiveInv, Arrived
<1>5. NobodyStranded'
  BY <1>1, <1>2 DEF NobodyStranded
<1>6. ActiveInv' /\ AbandonedIffUnwanted'
  BY DEF Close, Off, ActiveInv, AbandonedIffUnwanted
<1>7. NoMissing'
  BY <1>1, <1>2 DEF NoMissing
<1> QED
  BY <1>3, <1>4, <1>5, <1>6, <1>7
-----------------------------------------------------------------------------
(* In every state entries, callers and the drain fiber agree (request and  *)
(* drain of rpc/transport/queue.ts).                                       *)
THEOREM Invariance == Spec => []IInv
<1>1. Init => IInv
  <2> SUFFICES ASSUME Init
               PROVE  IInv
    OBVIOUS
  <2>1. Arrived = {}
    BY DEF Init, Arrived
  <2>2. ArrivalInv
    BY <2>1, FS_EmptySet DEF Init, ArrivalInv
  <2>3. TypeOK /\ ActiveInv /\ NobodyStranded /\ AbandonedIffUnwanted /\ NoMissing
    BY <2>1 DEF Init, TypeOK, ActiveInv, NobodyStranded, AbandonedIffUnwanted, NoMissing
  <2> QED
    BY <2>2, <2>3 DEF IInv
<1>2. IInv /\ [Next]_vars => IInv'
  <2> SUFFICES ASSUME IInv, [Next]_vars
               PROVE  IInv'
    OBVIOUS
  <2>1. CASE BatchAnswers
    <3>1. PICK r \in [active -> {"value", "failure"}] : Deliver(r)
      BY <2>1 DEF BatchAnswers
    <3>2. r \in [active -> Result \ {"interrupted"}] /\ \A c \in active : r[c] # "missing"
      BY DEF Result
    <3> QED
      BY <2>1, <3>1, <3>2, DeliverStep DEF BatchAnswers
  <2>2. CASE BatchFails
    <3> DEFINE r == [c \in active |-> "failure"]
    <3>1. r \in [active -> Result \ {"interrupted"}] /\ \A c \in active : r[c] # "missing"
      BY DEF Result
    <3>2. Deliver(r) /\ Loop(pending \ active) /\ drain = "batch"
      BY <2>2 DEF BatchFails
    <3> HIDE DEF r
    <3> QED
      BY <3>1, <3>2, DeliverStep
  <2>3. CASE BatchAbandoned
    <3> DEFINE r == [c \in active |-> "missing"]
    <3>1. r \in [active -> Result \ {"interrupted"}]
      BY DEF Result
    <3>2. Deliver(r) /\ Loop(pending \ active) /\ drain = "batch" /\ abandoned
      BY <2>3 DEF BatchAbandoned
    <3> HIDE DEF r
    <3> QED
      BY <3>1, <3>2, DeliverStep
  <2>4. CASE UNCHANGED vars
    BY <2>4 DEF vars, entries, batch, IInv, TypeOK, ArrivalInv, ActiveInv, Arrived,
                NobodyStranded, AbandonedIffUnwanted, NoMissing
  <2> QED
    BY <2>1, <2>2, <2>3, <2>4, QueueFullStep, RequestStep, ForgetStep, BeginStep,
       CollectStep, CloseStep DEF Next, Drain
<1> QED
  BY <1>1, <1>2, PTL DEF Spec

(* An entry without a result has a drain, and a caller that waits for it.  *)
THEOREM NobodyStrandedHolds == Spec => []NobodyStranded
<1>1. IInv => NobodyStranded
  BY DEF IInv
<1> QED
  BY <1>1, Invariance, PTL

(* A batch is abandoned exactly when nobody waits for its results.         *)
THEOREM AbandonedIffUnwantedHolds == Spec => []AbandonedIffUnwanted
<1>1. IInv => AbandonedIffUnwanted
  BY DEF IInv
<1> QED
  BY <1>1, Invariance, PTL

(* A caller that stays is never told that its batch has no result for it.  *)
THEOREM NoMissingHolds == Spec => []NoMissing
<1>1. IInv => NoMissing
  BY DEF IInv
<1> QED
  BY <1>1, Invariance, PTL
-----------------------------------------------------------------------------
(* The limits of a batch. *)

(* A part of a set of callers weighs no more than the set. *)
LEMMA TotalWeightMonotone ==
  ASSUME NEW T \in SUBSET Caller, NEW S \in SUBSET T
  PROVE  /\ TotalWeight(S) \in Nat /\ TotalWeight(T) \in Nat
         /\ TotalWeight(S) <= TotalWeight(T)
<1> DEFINE Units(A) == UNION {{c} \X (1..Weight[c]) : c \in A}
<1>1. \A c \in T : IsFiniteSet({c} \X (1..Weight[c]))
  <2> SUFFICES ASSUME NEW c \in T
               PROVE  IsFiniteSet({c} \X (1..Weight[c]))
    OBVIOUS
  <2>1. Weight[c] \in Int /\ 1 \in Int
    BY QueueAssumption
  <2>2. IsFiniteSet({c}) /\ IsFiniteSet(1..Weight[c])
    BY <2>1, FS_Singleton, FS_Interval
  <2> QED
    BY <2>2, FS_Product
<1>2. IsFiniteSet({{c} \X (1..Weight[c]) : c \in T})
  <2>1. IsFiniteSet(T)
    BY QueueAssumption, FS_Subset
  <2> DEFINE f == [c \in T |-> {c} \X (1..Weight[c])]
             All == {{c} \X (1..Weight[c]) : c \in T}
  <2>2. f \in Surjection(T, All)
    BY DEF Surjection
  <2> HIDE DEF f, All
  <2>3. IsFiniteSet(All)
    BY <2>1, <2>2, FS_Surjection
  <2> QED
    BY <2>3 DEF All
<1>3. IsFiniteSet(Units(T))
  BY <1>1, <1>2, FS_UNION
<1>4. Units(S) \subseteq Units(T)
  OBVIOUS
<1>5. TotalWeight(S) = Cardinality(Units(S)) /\ TotalWeight(T) = Cardinality(Units(T))
  BY DEF TotalWeight
<1> HIDE DEF Units
<1> QED
  BY <1>3, <1>4, <1>5, FS_Subset, FS_CardinalityType

LEMMA SizeMonotone ==
  ASSUME NEW T \in SUBSET Caller, NEW S \in SUBSET T
  PROVE  /\ Cardinality(S) \in Nat /\ Cardinality(T) \in Nat
         /\ Cardinality(S) <= Cardinality(T)
BY QueueAssumption, FS_Subset, FS_CardinalityType

LEMMA FullMonotone ==
  ASSUME NEW T \in SUBSET Caller, NEW S \in SUBSET T, IsFull(S)
  PROVE  IsFull(T)
<1>1. Cardinality(S) >= Size => Cardinality(T) >= Size
  BY SizeMonotone, QueueAssumption
<1>2. TotalWeight(S) >= MaxWeight => TotalWeight(T) >= MaxWeight
  BY TotalWeightMonotone, QueueAssumption
<1> QED
  BY <1>1, <1>2 DEF IsFull

LEMMA FitsMonotone ==
  ASSUME NEW T \in SUBSET Caller, NEW S \in SUBSET T, Fits(T)
  PROVE  Fits(S)
<1>1. Cardinality(S) <= Size
  BY SizeMonotone, QueueAssumption DEF Fits
<1>2. ASSUME Cardinality(S) > 1
      PROVE  TotalWeight(S) <= MaxWeight
  <2>1. TotalWeight(T) <= MaxWeight
    BY <1>2, SizeMonotone DEF Fits
  <2> QED
    BY <2>1, TotalWeightMonotone, QueueAssumption
<1> QED
  BY <1>1, <1>2 DEF Fits

(* Of entries that arrived, one is the newest. *)
LEMMA Newest ==
  ASSUME TypeOK, ArrivalInv, NEW S \in SUBSET Caller, S # {}
  PROVE  \E c \in S : \A b \in S : arrival[b] <= arrival[c]
<1> DEFINE n == Cardinality(Arrived)
           Before == {n - arrival[c] : c \in S}
<1>1. n \in Nat /\ \A c \in S : arrival[c] \in Nat /\ arrival[c] <= n
  BY ArrivedFinite DEF TypeOK, ArrivalInv
<1> HIDE DEF n
<1>2. Before \subseteq Nat /\ Before # {}
  BY <1>1
<1>3. PICK m \in Before : \A k \in Before : m <= k
  BY <1>2, Smallest
<1>4. PICK c \in S : n - arrival[c] = m
  BY <1>3
<1>5. \A b \in S : n - arrival[c] <= n - arrival[b]
  BY <1>3, <1>4
<1> QED
  BY <1>1, <1>5

(* What is taken keeps the limits, and is older than what stays. *)
LEMMA TakeFits ==
  ASSUME TypeOK, ArrivalInv, NEW S \in SUBSET pending, S # {}
  PROVE  /\ Fits(Take(S))
         /\ \A a \in Take(S), p \in S \ Take(S) : arrival[a] < arrival[p]
<1>1. Take(S) # {} /\ Take(S) \subseteq S /\ S \subseteq Caller
  BY TakeNonempty DEF TypeOK
<1>2. Fits(Take(S))
  <2>1. PICK c \in Take(S) : \A b \in Take(S) : arrival[b] <= arrival[c]
    BY <1>1, Newest
  <2>2. Take(S) \subseteq UpTo(c, S) /\ UpTo(c, S) \subseteq Caller /\ Fits(UpTo(c, S))
    BY <1>1, <2>1 DEF UpTo, Take
  <2> QED
    BY <2>2, FitsMonotone
<1>3. ASSUME NEW a \in Take(S), NEW p \in S \ Take(S)
      PROVE  arrival[a] < arrival[p]
  <2>1. arrival[a] \in Nat /\ arrival[p] \in Nat
    BY <1>1 DEF TypeOK
  <2>2. Fits(UpTo(a, S)) /\ ~ Fits(UpTo(p, S))
    BY <1>3 DEF Take
  <2>3. CASE arrival[p] <= arrival[a]
    <3>1. UpTo(p, S) \subseteq UpTo(a, S)
      <4>1. \A b \in S : arrival[b] \in Nat
        BY <1>1 DEF TypeOK
      <4> QED
        BY <2>1, <2>3, <4>1 DEF UpTo
    <3>2. UpTo(a, S) \subseteq Caller
      BY <1>1 DEF UpTo
    <3> QED
      BY <2>2, <3>1, <3>2, FitsMonotone
  <2> QED
    BY <2>1, <2>3
<1> QED
  BY <1>2, <1>3

Limits == FullWakes /\ OldestFirst

(* The loop, with what is pending after the step. *)
LEMMA LoopLimits ==
  ASSUME TypeOK, ArrivalInv, Limits, NEW S \in SUBSET pending, Loop(S),
         pending' = S, arrival' = arrival
  PROVE  Limits'
<1>1. Cardinality(S) <= Capacity
  BY SizeMonotone, QueueAssumption DEF TypeOK, Limits, OldestFirst
<1>2. CASE S = {} /\ Off
  BY <1>1, <1>2 DEF Off, Limits, FullWakes, OldestFirst
<1>3. CASE S # {} /\ ~ IsFull(S) /\ Window
  BY <1>1, <1>3 DEF Window, Limits, FullWakes, OldestFirst, IsFull, TotalWeight
<1>4. CASE S # {} /\ RunBatch(S)
  <2>1. Take(S) # {} /\ Fits(Take(S))
        /\ \A a \in Take(S), p \in S \ Take(S) : arrival[a] < arrival[p]
    BY <1>4, TakeNonempty, TakeFits
  <2>2. active' = Take(S) /\ drain' = "batch"
    BY <1>4 DEF RunBatch
  <2>3. Fits(active')
    BY <2>1, <2>2
  <2> HIDE DEF Take
  <2> QED
    BY <1>1, <2>1, <2>2, <2>3 DEF Limits, FullWakes, OldestFirst, Fits, TotalWeight
<1> QED
  BY <1>2, <1>3, <1>4 DEF Loop

(* Every step keeps the limits of a batch and the order of arrival (take of *)
(* rpc/transport/queue.ts).                                                *)
THEOREM LimitsHold == Spec => []Limits
<1>1. Init => Limits
  BY FS_EmptySet, QueueAssumption DEF Init, Limits, FullWakes, OldestFirst
<1>2. IInv /\ Limits /\ [Next]_vars => Limits'
  <2> SUFFICES ASSUME IInv, Limits, [Next]_vars
               PROVE  Limits'
    OBVIOUS
  <2> USE DEF IInv
  <2>1. ASSUME NEW c \in Caller, Request(c)
        PROVE  Limits'
    <3>1. c \notin pending /\ c \notin active /\ c \notin Arrived
      BY <2>1 DEF Request, ArrivalInv, ActiveInv
    <3>2. Cardinality(pending') <= Capacity
      <4>1. Cardinality(pending \cup {c}) = Cardinality(pending) + 1
        BY <3>1, QueueAssumption, FS_Subset, FS_AddElement DEF TypeOK
      <4>2. Cardinality(pending) \in Nat
        BY SizeMonotone DEF TypeOK
      <4> QED
        BY <2>1, <4>1, <4>2, QueueAssumption DEF Request
    <3>3. FullWakes'
      BY <2>1 DEF Request, Limits, FullWakes, IsFull, TotalWeight
    <3>4. \A a \in active : arrival'[a] = arrival[a] /\ arrival[a] < arrival'[c]
      BY <2>1, <3>1, ArrivedFinite DEF Request, TypeOK, ArrivalInv, Arrived
    <3>5. \A p \in pending : arrival'[p] = arrival[p]
      BY <2>1, <3>1 DEF Request, TypeOK
    <3>6. active' = active /\ drain' = "batch" => drain = "batch"
      BY <2>1 DEF Request, batch
    <3>7. OldestFirst'
      BY <2>1, <3>2, <3>4, <3>5, <3>6
      DEF Request, batch, Limits, OldestFirst, Fits, TotalWeight
    <3> QED
      BY <3>3, <3>7 DEF Limits
  <2>2. ASSUME NEW c \in Caller, Resume(c) \/ Leave(c)
        PROVE  Limits'
    <3>1. Forget(c)
      BY <2>2 DEF Resume, Leave
    <3>2. Cardinality(pending \ {c}) <= Capacity
      BY SizeMonotone, QueueAssumption DEF TypeOK, Limits, OldestFirst
    <3>3. IsFull(pending \ {c}) => IsFull(pending)
      BY FullMonotone DEF TypeOK
    <3>4. FullWakes'
      BY <3>1, <3>3 DEF Forget, Limits, FullWakes, IsFull, TotalWeight
    <3>5. OldestFirst'
      BY <3>1, <3>2 DEF Forget, Limits, OldestFirst, Fits, TotalWeight
    <3> QED
      BY <3>4, <3>5 DEF Limits
  <2>3. CASE Begin
    BY <2>3, LoopLimits DEF Begin, entries
  <2>4. CASE Collect
    <3>1. pending' = pending /\ arrival' = arrival
      BY <2>4 DEF Collect, entries
    <3>2. CASE pending = {}
      BY <2>4, <3>1, <3>2 DEF Collect, Off, Limits, FullWakes, OldestFirst
    <3>3. CASE pending # {}
      <4>1. RunBatch(pending)
        BY <2>4, <3>3 DEF Collect
      <4>2. Take(pending) # {} /\ Fits(Take(pending))
            /\ \A a \in Take(pending), p \in pending \ Take(pending) : arrival[a] < arrival[p]
        BY <3>3, TakeNonempty, TakeFits
      <4>3. active' = Take(pending) /\ drain' = "batch"
        BY <4>1 DEF RunBatch
      <4> HIDE DEF Take
      <4> QED
        BY <3>1, <4>2, <4>3 DEF Limits, FullWakes, OldestFirst, Fits, TotalWeight
    <3> QED
      BY <3>2, <3>3
  <2>5. CASE BatchAnswers \/ BatchFails \/ BatchAbandoned
    <3>1. Loop(pending \ active) /\ pending' = pending \ active /\ arrival' = arrival
      BY <2>5 DEF BatchAnswers, BatchFails, BatchAbandoned, Deliver
    <3> QED
      BY <3>1, LoopLimits
  <2>6. CASE Close
    <3>1. drain' = "off" /\ pending' = {}
      BY <2>6 DEF Close, Off, NobodyStranded
    <3> QED
      BY <3>1, FS_EmptySet, QueueAssumption DEF Limits, FullWakes, OldestFirst
  <2>7. ASSUME NEW c \in Caller, QueueFull(c)
        PROVE  Limits'
    BY <2>7 DEF QueueFull, entries, batch, Limits, FullWakes, OldestFirst, IsFull, Fits, TotalWeight
  <2>8. CASE UNCHANGED vars
    BY <2>8 DEF vars, entries, batch, Limits, FullWakes, OldestFirst, IsFull, Fits, TotalWeight
  <2> QED
    BY <2>1, <2>2, <2>3, <2>4, <2>5, <2>6, <2>7, <2>8 DEF Next, Drain
<1> QED
  BY <1>1, <1>2, Invariance, PTL DEF Spec

(* Requests that fill a batch end its window, whoever leaves meanwhile.    *)
THEOREM FullWakesHolds == Spec => []FullWakes
<1>1. Limits => FullWakes
  BY DEF Limits
<1> QED
  BY <1>1, LimitsHold, PTL

(* Batches keep their limits and are older than what waits.                *)
THEOREM OldestFirstHolds == Spec => []OldestFirst
<1>1. Limits => OldestFirst
  BY DEF Limits
<1> QED
  BY <1>1, LimitsHold, PTL
-----------------------------------------------------------------------------
(* The steps of a run with its service are steps of the queue or stutter.  *)
LEMMA HttpStep ==
  ASSUME HttpSends \/ HttpEnds \/ Forgives
  PROVE  [Next]_vars
<1>1. CASE HttpSends
  BY <1>1 DEF HttpSends, SendsSingly, Splits, Learns, Rejected, EnvelopeFails, Answered_,
              Next, Drain
<1>2. CASE HttpEnds
  BY <1>2 DEF HttpEnds, DrainSteps, RunEnds, Next, Drain
<1>3. CASE Forgives
  BY <1>3 DEF Forgives
<1> QED
  BY <1>1, <1>2, <1>3

LEMMA MulticallStep ==
  ASSUME MulticallReads \/ MulticallEnds
  PROVE  [Next]_vars
<1>1. CASE MulticallReads
  BY <1>1 DEF MulticallReads, Singles, NoContract, HasContract, Aggregates, Reverts,
              ReadFails, Next, Drain
<1>2. CASE MulticallEnds
  BY <1>2 DEF MulticallEnds, DrainSteps, RunEnds, Next, Drain
<1> QED
  BY <1>1, <1>2

(* Under the HTTP batcher or multicall (rpc/transport/http.ts and          *)
(* rpc/multicall.ts) the queue behaves as its specification says.          *)
THEOREM QueueUnderServices == ServiceSpec => Spec
<1>1. ServiceInit => Init
  BY DEF ServiceInit
<1>2. [ServiceNext]_serviceVars => [Next]_vars
  <2> SUFFICES ASSUME [ServiceNext]_serviceVars
               PROVE  [Next]_vars
    OBVIOUS
  <2>1. CASE Callers
    BY <2>1 DEF Callers, CallersStep, Next
  <2>2. CASE Closes
    BY <2>2 DEF Closes, Next
  <2>3. CASE Runs \/ (Http /\ Forgives)
    BY <2>3, HttpStep, MulticallStep DEF Runs
  <2>4. CASE UNCHANGED serviceVars
    BY <2>4 DEF serviceVars
  <2> QED
    BY <2>1, <2>2, <2>3, <2>4 DEF ServiceNext
<1> QED
  BY <1>1, <1>2, PTL DEF ServiceSpec, Spec

(* So everything proved of the queue holds under its services: entries are *)
(* served, batches are cancelled by their last caller only, filled at      *)
(* once, limited, and first come, first served.                            *)
THEOREM QueuePromises ==
  ServiceSpec => [](NobodyStranded /\ AbandonedIffUnwanted /\ NoMissing /\ FullWakes /\ OldestFirst)
BY QueueUnderServices, NobodyStrandedHolds, AbandonedIffUnwantedHolds, NoMissingHolds,
   FullWakesHolds, OldestFirstHolds, PTL
-----------------------------------------------------------------------------
(* The answers of the HTTP batcher.                                        *)

(* No request is in two places of the pieces. *)
Once(pieces) ==
  \A p, q \in DOMAIN pieces : \A i \in DOMAIN pieces[p], j \in DOMAIN pieces[q] :
    pieces[p][i] = pieces[q][j] => p = q /\ i = j

(* No request that is still to be sent is among those of S. *)
Avoids(pieces, S) == \A p \in DOMAIN pieces : \A i \in DOMAIN pieces[p] : pieces[p][i] \notin S

OwnValues == \A c \in Caller : answer[c].kind = "value" => answer[c].of = c

Nowhere == \A c \in Caller : answer[c].kind # "elsewhere"

HttpAnswers ==
  /\ todo \in Seq(Seq(Caller)) /\ Once(todo) /\ Avoids(todo, told)
  /\ answer \in [Caller -> Answer] /\ OwnValues /\ Nowhere
  /\ AnswersReach

(* What the run has still to send it sends once, and what the endpoint has *)
(* answered it sends no more.                                              *)
HttpInv ==
  /\ service \in {"http", "multicall"}
  /\ limit \in Nat \ {0} /\ told \subseteq Caller
  /\ IF service = "http" THEN HttpAnswers ELSE told = {}

(* A batch that begins is one piece, with nothing answered. *)
LEMMA RunBegins ==
  ASSUME IInv, IInv', arrival' = arrival, HttpRuns
  PROVE  HttpAnswers' /\ told' = {}
<1>1. /\ todo' \in Seq(Seq(Caller))
      /\ Once(todo')
  <2>1. CASE drain' = "batch"
    <3> DEFINE S == active'
               s == InOrder(S)
    <3>1. S \in SUBSET Caller /\ IsFiniteSet(S)
      BY QueueAssumption, FS_Subset DEF IInv, TypeOK
    <3>2. \A c \in S : arrival[c] \in Nat
      BY <3>1 DEF IInv, TypeOK
    <3>3. \A a, b \in S : arrival[a] = arrival[b] => a = b
      BY DEF IInv, ActiveInv, ArrivalInv, Arrived
    <3>4. /\ s \in Seq(S) /\ Len(s) = Cardinality(S)
          /\ \A i, j \in 1..Cardinality(S) : s[i] = s[j] => i = j
      <4> HIDE DEF S
      <4> QED
        BY <3>1, <3>2, <3>3, Sorted DEF InOrder
    <3>5. s \in Seq(Caller) /\ \A i, j \in DOMAIN s : s[i] = s[j] => i = j
      <4> HIDE DEF s, S
      <4> QED
        BY <3>1, <3>4
    <3>6. todo' = Whole(s)
      BY <2>1 DEF HttpRuns
    <3> HIDE DEF s, S
    <3> QED
      BY <3>5, <3>6 DEF Whole, Once
  <2>2. CASE drain' # "batch"
    BY <2>2 DEF HttpRuns, Once
  <2> QED
    BY <2>1, <2>2
<1>2. answer' = NoAnswers /\ told' = {}
  BY DEF HttpRuns
<1>3. Avoids(todo', told')
  BY <1>2 DEF Avoids
<1>4. answer' \in [Caller -> Answer] /\ OwnValues' /\ Nowhere' /\ AnswersReach'
  BY <1>2 DEF NoAnswers, Answer, OwnValues, Nowhere, AnswersReach
<1> QED
  BY <1>1, <1>3, <1>2, <1>4 DEF HttpAnswers

(* The pieces after the first. *)
LEMMA AfterPiece ==
  ASSUME HttpAnswers, todo # <<>>
  PROVE  /\ Piece \in Seq(Caller) /\ InPiece \subseteq Caller
         /\ Tail(todo) \in Seq(Seq(Caller)) /\ Once(Tail(todo))
         /\ Avoids(Tail(todo), told) /\ Avoids(Tail(todo), InPiece)
         /\ InPiece \cap told = {}
<1>1. /\ todo \in Seq(Seq(Caller)) /\ 1 \in DOMAIN todo /\ Tail(todo) \in Seq(Seq(Caller))
      /\ \A p \in DOMAIN Tail(todo) : p + 1 \in DOMAIN todo /\ p + 1 # 1 /\ Tail(todo)[p] = todo[p + 1]
  BY DEF HttpAnswers
<1>2. InPiece = {todo[1][i] : i \in DOMAIN todo[1]}
  BY DEF InPiece, Piece, ToSet
<1>3. Piece \in Seq(Caller) /\ InPiece \subseteq Caller
  BY <1>1, <1>2 DEF Piece
<1>4. Once(Tail(todo))
  <2> SUFFICES ASSUME NEW p \in DOMAIN Tail(todo), NEW q \in DOMAIN Tail(todo),
                      NEW i \in DOMAIN Tail(todo)[p], NEW j \in DOMAIN Tail(todo)[q],
                      Tail(todo)[p][i] = Tail(todo)[q][j]
               PROVE  p = q /\ i = j
    BY DEF Once
  <2>1. p + 1 = q + 1 /\ i = j
    BY <1>1 DEF HttpAnswers, Once
  <2>2. p \in Nat /\ q \in Nat
    BY <1>1
  <2> QED
    BY <2>1, <2>2
<1>5. Avoids(Tail(todo), told)
  BY <1>1 DEF HttpAnswers, Avoids
<1>6. Avoids(Tail(todo), InPiece)
  BY <1>1, <1>2 DEF HttpAnswers, Once, Avoids
<1>7. InPiece \cap told = {}
  BY <1>1, <1>2 DEF HttpAnswers, Avoids
<1> QED
  BY <1>1, <1>3, <1>4, <1>5, <1>6, <1>7

(* Answers found for a piece leave the answers to the other requests alone. *)
LEMMA FoundForPiece ==
  ASSUME HttpAnswers, told \subseteq Caller, todo # <<>>, PieceDone, NEW T \in SUBSET InPiece,
         told' = told \cup T,
         NEW f \in [InPiece -> Answer], Found(f),
         \A c \in InPiece : f[c].kind # "elsewhere" /\ (f[c].kind = "value" => f[c].of = c),
         \A c \in T : f[c] = [kind |-> "value", of |-> c]
  PROVE  HttpAnswers' /\ told' \subseteq Caller
<1>1. /\ InPiece \subseteq Caller /\ todo' \in Seq(Seq(Caller)) /\ Once(todo')
      /\ Avoids(todo', told) /\ Avoids(todo', InPiece) /\ InPiece \cap told = {}
  BY AfterPiece DEF PieceDone
<1>2. answer' = [c \in Caller |-> IF c \in InPiece THEN f[c] ELSE answer[c]]
  BY DEF Found
<1>3. answer \in [Caller -> Answer] /\ OwnValues /\ Nowhere /\ AnswersReach
  BY DEF HttpAnswers
<1>4. answer' \in [Caller -> Answer]
  BY <1>2, <1>3
<1>5. OwnValues' /\ Nowhere'
  BY <1>2, <1>3 DEF OwnValues, Nowhere
<1>6. AnswersReach'
  BY <1>1, <1>2, <1>3 DEF AnswersReach
<1>7. Avoids(todo', told')
  BY <1>1 DEF Avoids
<1> QED
  BY <1>1, <1>4, <1>5, <1>6, <1>7 DEF HttpAnswers

(* A chunk is a stretch of the piece. *)
LEMMA Chunk ==
  ASSUME NEW s \in Seq(Caller), limit \in Nat \ {0}, NEW k \in DOMAIN Chunks(s)
  PROVE  /\ k \in Nat \ {0} /\ (k - 1) * limit \in Nat
         /\ Chunks(s)[k] \in Seq(Caller)
         /\ \A i \in DOMAIN Chunks(s)[k] :
              /\ i \in 1..limit /\ (k - 1) * limit + i \in DOMAIN s
              /\ Chunks(s)[k][i] = s[(k - 1) * limit + i]
<1> DEFINE a == (k - 1) * limit
           b == IF k * limit < Len(s) THEN k * limit ELSE Len(s)
<1>1. k \in Nat /\ k >= 1 /\ k <= (Len(s) + limit - 1) \div limit
  BY DEF Chunks
<1>2. k * limit = a + limit /\ a \in Nat /\ k * limit \in Nat
  <2>1. k - 1 \in Nat
    BY <1>1
  <2>2. a \in Nat /\ k * limit \in Nat
    BY <1>1, <2>1
  <2>3. k * limit = a + limit
    BY <1>1
  <2> QED
    BY <2>2, <2>3
<1>3. a < Len(s)
  <2> DEFINE n == Len(s) + limit - 1
             d == n \div limit
  <2>1. n \in Nat /\ limit \in Nat /\ limit > 0
    OBVIOUS
  <2>2. d \in Nat /\ d * limit <= n
    <3> HIDE DEF n
    <3> QED
      BY <2>1
  <2>3. k * limit <= d * limit
    <3> HIDE DEF d
    <3> QED
      BY <1>1, <2>2 DEF d
  <2>4. k * limit <= n
    <3> HIDE DEF d, n
    <3> QED
      BY <2>1, <2>2, <2>3, <1>2
  <2> QED
    BY <1>2, <2>4
<1>4. b \in Nat /\ b <= Len(s) /\ b >= a + 1 /\ b <= a + limit
  BY <1>2, <1>3
<1>5. Chunks(s)[k] = SubSeq(s, a + 1, b)
  BY DEF Chunks
<1>6. /\ SubSeq(s, a + 1, b) \in Seq(Caller) /\ Len(SubSeq(s, a + 1, b)) = b - a
      /\ \A i \in 1..b - a : SubSeq(s, a + 1, b)[i] = s[a + i]
  <2> HIDE DEF a, b
  <2> QED
    BY <1>2, <1>3, <1>4
<1>7. \A i \in 1..b - a : i \in 1..limit /\ a + i \in DOMAIN s
  <2> HIDE DEF a, b
  <2> QED
    BY <1>2, <1>3, <1>4
<1> QED
  <2> HIDE DEF a, b
  <2>1. k \in Nat \ {0} /\ a \in Nat
    BY <1>1, <1>2
  <2>2. DOMAIN Chunks(s)[k] = 1..b - a
    BY <1>2, <1>4, <1>5, <1>6
  <2>3. \A i \in DOMAIN Chunks(s)[k] :
          i \in 1..limit /\ a + i \in DOMAIN s /\ Chunks(s)[k][i] = s[a + i]
    BY <1>5, <1>6, <1>7, <2>2
  <2> QED
    BY <1>5, <1>6, <2>1, <2>3 DEF a

(* Numbers are told apart by quotient and remainder. *)
LEMMA ChunkPlace ==
  ASSUME limit \in Nat \ {0}, NEW k \in Nat \ {0}, NEW m \in Nat \ {0},
         NEW i \in 1..limit, NEW j \in 1..limit,
         (k - 1) * limit + i = (m - 1) * limit + j
  PROVE  k = m /\ i = j
<1>1. ASSUME NEW x \in Nat, NEW y \in Nat, x < y
      PROVE  x * limit + limit <= y * limit
  <2>1. (x + 1) * limit <= y * limit
    BY <1>1
  <2>2. (x + 1) * limit = x * limit + limit
    OBVIOUS
  <2> QED
    BY <2>1, <2>2
<1>2. k - 1 \in Nat /\ m - 1 \in Nat /\ (k - 1) * limit \in Nat /\ (m - 1) * limit \in Nat
  OBVIOUS
<1>3. ~ (k - 1 < m - 1)
  <2> SUFFICES ASSUME k - 1 < m - 1
               PROVE  FALSE
    OBVIOUS
  <2>1. (k - 1) * limit + limit <= (m - 1) * limit
    BY <1>1, <1>2
  <2> QED
    BY <1>2, <2>1
<1>4. ~ (m - 1 < k - 1)
  <2> SUFFICES ASSUME m - 1 < k - 1
               PROVE  FALSE
    OBVIOUS
  <2>1. (m - 1) * limit + limit <= (k - 1) * limit
    BY <1>1, <1>2
  <2> QED
    BY <1>2, <2>1
<1>5. k = m
  BY <1>2, <1>3, <1>4
<1> QED
  BY <1>2, <1>5

LEMMA SplitsStep ==
  ASSUME HttpAnswers, limit \in Nat \ {0}, Splits
  PROVE  HttpAnswers'
<1> DEFINE chunks == Chunks(Piece)
           rest == Tail(todo)
           n == Len(chunks)
<1>1. todo # <<>> /\ todo' = chunks \o rest /\ UNCHANGED <<answer, told>>
  BY DEF Splits, Sending, httpVars
<1>2. /\ Piece \in Seq(Caller)
      /\ rest \in Seq(Seq(Caller)) /\ Once(rest)
      /\ Avoids(rest, told) /\ Avoids(rest, InPiece) /\ InPiece \cap told = {}
  BY <1>1, AfterPiece
<1>3. \A i \in DOMAIN Piece : Piece[i] \in InPiece
  BY DEF InPiece, ToSet
<1>4. chunks \in Seq(Seq(Caller)) /\ n \in Nat /\ DOMAIN chunks = 1..n
  <2> DEFINE d == (Len(Piece) + limit - 1) \div limit
  <2>1. d \in Nat
    <3> DEFINE m == Len(Piece) + limit - 1
    <3>1. m \in Nat /\ limit \in Nat /\ limit > 0
      BY <1>2
    <3> HIDE DEF m
    <3>2. m \div limit \in Nat
      BY <3>1
    <3> QED
      BY <3>2 DEF m
  <2>2. chunks = [k \in 1..d |-> chunks[k]] /\ DOMAIN chunks = 1..d
    BY DEF Chunks
  <2>3. \A k \in 1..d : chunks[k] \in Seq(Caller)
    BY <1>2, <2>2, Chunk
  <2> HIDE DEF chunks, d
  <2>4. chunks \in [1..d -> Seq(Caller)]
    BY <2>2, <2>3
  <2> QED
    BY <2>1, <2>2, <2>4
<1>5. \A k \in DOMAIN chunks : \A i \in DOMAIN chunks[k] :
        /\ k \in Nat \ {0} /\ i \in 1..limit /\ (k - 1) * limit + i \in DOMAIN Piece
        /\ chunks[k][i] = Piece[(k - 1) * limit + i] /\ chunks[k][i] \in InPiece
  BY <1>2, <1>3, Chunk
<1>6. Once(chunks)
  <2> SUFFICES ASSUME NEW k \in DOMAIN chunks, NEW m \in DOMAIN chunks,
                      NEW i \in DOMAIN chunks[k], NEW j \in DOMAIN chunks[m],
                      chunks[k][i] = chunks[m][j]
               PROVE  k = m /\ i = j
    BY DEF Once
  <2>1. (k - 1) * limit + i = (m - 1) * limit + j
    <3>1. 1 \in DOMAIN todo /\ Piece = todo[1]
      BY <1>1 DEF HttpAnswers, Piece
    <3> HIDE DEF chunks
    <3> QED
      BY <1>5, <3>1 DEF HttpAnswers, Once
  <2> HIDE DEF chunks
  <2> QED
    BY <1>5, <2>1, ChunkPlace
<1>7. Avoids(chunks, told)
  BY <1>2, <1>5 DEF Avoids
<1> HIDE DEF chunks, rest, n
<1>8. /\ todo' \in Seq(Seq(Caller)) /\ Len(todo') = n + Len(rest)
      /\ \A p \in DOMAIN todo' :
           IF p <= n THEN p \in DOMAIN chunks /\ todo'[p] = chunks[p]
           ELSE p - n \in DOMAIN rest /\ todo'[p] = rest[p - n]
  <2>1. n = Len(chunks)
    BY DEF n
  <2> QED
    BY <1>1, <1>2, <1>4, <2>1
<1>9. Once(todo')
  <2> SUFFICES ASSUME NEW p \in DOMAIN todo', NEW q \in DOMAIN todo',
                      NEW i \in DOMAIN todo'[p], NEW j \in DOMAIN todo'[q],
                      todo'[p][i] = todo'[q][j]
               PROVE  p = q /\ i = j
    BY DEF Once
  <2>1. p \in Nat /\ q \in Nat
    BY <1>8
  <2>2. \A r \in DOMAIN todo' : r > n => r - n \in DOMAIN rest /\ todo'[r] = rest[r - n]
    BY <1>4, <1>8
  <2>3. \A r \in DOMAIN todo' :
          r > n => \A k \in DOMAIN todo'[r] : todo'[r][k] \notin InPiece
    BY ONLY <1>2, <2>2 DEF Avoids
  <2>4. CASE p <= n /\ q <= n
    BY <1>6, <1>8, <2>4 DEF Once
  <2>5. CASE p > n /\ q > n
    <3>1. /\ p - n \in DOMAIN rest /\ todo'[p] = rest[p - n]
          /\ q - n \in DOMAIN rest /\ todo'[q] = rest[q - n]
      BY ONLY <2>5, <2>2
    <3>2. p - n = q - n /\ i = j
      BY ONLY <1>2, <3>1, todo'[p][i] = todo'[q][j], i \in DOMAIN todo'[p],
              j \in DOMAIN todo'[q] DEF Once
    <3> QED
      BY <1>4, <2>1, <3>2
  <2>6. CASE p <= n /\ q > n
    <3>1. todo'[p][i] \in InPiece
      BY <1>5, <1>8, <2>6
    <3>2. todo'[q][j] \notin InPiece
      BY ONLY <2>6, <2>3, j \in DOMAIN todo'[q], q \in DOMAIN todo'
    <3> QED
      BY <3>1, <3>2
  <2>7. CASE p > n /\ q <= n
    <3>1. todo'[q][j] \in InPiece
      BY <1>5, <1>8, <2>7
    <3>2. todo'[p][i] \notin InPiece
      BY ONLY <2>7, <2>3, i \in DOMAIN todo'[p], p \in DOMAIN todo'
    <3> QED
      BY <3>1, <3>2
  <2> QED
    BY <1>4, <2>1, <2>4, <2>5, <2>6, <2>7
<1>10. Avoids(todo', told')
  BY <1>1, <1>2, <1>7, <1>8 DEF Avoids
<1>11. answer' \in [Caller -> Answer] /\ OwnValues' /\ Nowhere' /\ AnswersReach'
  BY <1>1 DEF HttpAnswers, OwnValues, Nowhere, AnswersReach
<1> QED
  BY <1>8, <1>9, <1>10, <1>11 DEF HttpAnswers

(* Requests that are sent by themselves answer for themselves. *)
LEMMA AloneStep ==
  ASSUME HttpAnswers, told \subseteq Caller, todo # <<>>, PieceDone, told' = told,
         NEW f \in Alone(InPiece), Found(f)
  PROVE  HttpAnswers' /\ told' \subseteq Caller
<1>1. f \in [InPiece -> Answer]
  BY DEF Alone
<1>2. \A c \in InPiece : f[c].kind # "elsewhere" /\ (f[c].kind = "value" => f[c].of = c)
  BY DEF Alone
<1>3. {} \in SUBSET InPiece /\ told' = told \cup {}
  OBVIOUS
<1> QED
  BY <1>1, <1>2, <1>3, FoundForPiece

(* The response with a request's id is its answer; whatever has none, or   *)
(* two, is sent again alone.                                               *)
LEMMA AnsweredStep ==
  ASSUME HttpAnswers, told \subseteq Caller, NEW responses \in Responses, Answered_(responses)
  PROVE  HttpAnswers' /\ told' \subseteq Caller
<1> DEFINE T == {c \in InPiece : Cardinality(Matches(c, responses)) = 1}
           U == {c \in InPiece : Cardinality(Matches(c, responses)) # 1}
           of(c) == responses[CHOOSE i \in Matches(c, responses) : TRUE]
           F(again) == [c \in InPiece |->
             IF c \in DOMAIN again THEN again[c]
             ELSE [kind |-> IF of(c) = c THEN "value" ELSE "failure", of |-> of(c)]]
<1>1. todo # <<>> /\ PieceDone
  BY DEF Answered_, Enveloped, Sending
<1>2. PICK again \in Alone(U) : Found(F(again))
  BY DEF Answered_
<1>3. told' = told \cup T
  BY DEF Answered_, Matches
<1>4. DOMAIN again = U /\ \A c \in U :
        again[c] \in Answer /\ again[c].kind \in {"value", "failure"} /\ again[c].of = c
  BY DEF Alone
<1>5. \A c \in T : of(c) = c
  <2> SUFFICES ASSUME NEW c \in T
               PROVE  of(c) = c
    OBVIOUS
  <2>1. PICK n \in 0..Len(Piece) : responses \in [1..n -> InPiece]
    BY DEF Responses
  <2>2. IsFiniteSet(Matches(c, responses))
    <3>1. Piece \in Seq(Caller)
      BY <1>1, AfterPiece
    <3>2. n \in Int /\ IsFiniteSet(1..n)
      BY <2>1, <3>1, FS_Interval
    <3>3. Matches(c, responses) \in SUBSET (1..n)
      BY <2>1 DEF Matches
    <3> QED
      BY <3>2, <3>3, FS_Subset
  <2>3. Matches(c, responses) # {}
    BY <2>2, FS_EmptySet
  <2> QED
    BY <2>3 DEF Matches
<1>6. T \cap U = {} /\ T \cup U = InPiece /\ InPiece \subseteq Caller
  BY <1>1, AfterPiece
<1>7. \A c \in T : F(again)[c] = [kind |-> "value", of |-> c]
  BY <1>4, <1>5, <1>6
<1>8. \A c \in U : F(again)[c] = again[c]
  BY <1>4
<1>9. F(again) \in [InPiece -> Answer]
  <2>1. \A c \in T : [kind |-> "value", of |-> c] \in Answer
    BY <1>6 DEF Answer
  <2>2. \A c \in InPiece : F(again)[c] \in Answer
    <3> HIDE DEF F, T, U
    <3> QED
      BY <1>4, <1>6, <1>7, <1>8, <2>1
  <2> QED
    BY <2>2
<1> HIDE DEF F, T, U, of
<1>10. \A c \in InPiece :
         F(again)[c].kind # "elsewhere" /\ (F(again)[c].kind = "value" => F(again)[c].of = c)
  <2>1. \A c \in T :
          F(again)[c].kind # "elsewhere" /\ (F(again)[c].kind = "value" => F(again)[c].of = c)
    <3> SUFFICES ASSUME NEW c \in T
                 PROVE  F(again)[c].kind # "elsewhere" /\ F(again)[c].of = c
      OBVIOUS
    <3>1. F(again)[c] = [kind |-> "value", of |-> c]
      BY <1>7
    <3> QED
      BY <3>1
  <2>2. \A c \in U :
          F(again)[c].kind # "elsewhere" /\ (F(again)[c].kind = "value" => F(again)[c].of = c)
    <3> SUFFICES ASSUME NEW c \in U
                 PROVE  again[c].kind # "elsewhere" /\ (again[c].kind = "value" => again[c].of = c)
      BY <1>8
    <3> QED
      BY <1>4
  <2> QED
    BY <1>6, <2>1, <2>2
<1>11. T \in SUBSET InPiece
  BY <1>6
<1> QED
  BY <1>1, <1>2, <1>3, <1>7, <1>9, <1>10, <1>11, FoundForPiece

(* The batcher sends a piece: in an envelope, one by one, or in chunks. *)
LEMMA HttpSendsStep ==
  ASSUME IInv, IInv', limit \in Nat \ {0}, told \subseteq Caller, HttpAnswers, HttpSends
  PROVE  limit' \in Nat \ {0} /\ told' \subseteq Caller /\ HttpAnswers'
<1>1. CASE SendsSingly
  <2>1. todo # <<>> /\ PieceDone /\ limit' = limit /\ told' = told
    BY <1>1 DEF SendsSingly, Sending, httpVars
  <2>2. PICK f \in Alone(InPiece) : Found(f)
    BY <1>1 DEF SendsSingly
  <2> QED
    BY <2>1, <2>2, AloneStep
<1>2. CASE Splits
  <2>1. limit' = limit /\ told' = told
    BY <1>2 DEF Splits, httpVars
  <2> QED
    BY <1>2, <2>1, SplitsStep
<1>3. CASE Learns
  <2>1. UNCHANGED <<todo, answer, told>>
    BY <1>3 DEF Learns, runVars
  <2>2. PICK maximum \in 1..(Len(Piece) - 1) : limit' = maximum
    BY <1>3 DEF Learns
  <2>3. Len(Piece) \in Nat
    BY <1>3, AfterPiece DEF Learns, Enveloped, Sending
  <2> QED
    BY <2>1, <2>2, <2>3 DEF HttpAnswers, OwnValues, Nowhere, AnswersReach
<1>4. CASE Rejected
  <2>1. todo # <<>> /\ PieceDone /\ limit' = limit /\ told' = told
    BY <1>4 DEF Rejected, Enveloped, Sending
  <2>2. PICK f \in Alone(InPiece) : Found(f)
    BY <1>4 DEF Rejected
  <2> QED
    BY <2>1, <2>2, AloneStep
<1>5. CASE EnvelopeFails
  <2>1. HttpRuns /\ arrival' = arrival /\ limit' = limit
    BY <1>5 DEF EnvelopeFails, HttpRuns, BatchFails, Deliver
  <2> QED
    BY <2>1, RunBegins
<1>6. CASE Sending /\ \E responses \in Responses : Answered_(responses)
  <2>1. PICK responses \in Responses : Answered_(responses)
    BY <1>6
  <2>2. limit' = limit
    BY <2>1 DEF Answered_
  <2> QED
    BY <2>1, <2>2, AnsweredStep
<1> QED
  BY <1>1, <1>2, <1>3, <1>4, <1>5, <1>6 DEF HttpSends

LEMMA HttpServiceStep ==
  ASSUME IInv, IInv', HttpInv, ServiceNext
  PROVE  HttpInv'
<1>1. CASE Callers
  BY <1>1 DEF Callers, CallersStep, runVars, httpVars, HttpInv, HttpAnswers, OwnValues,
              Nowhere, AnswersReach
<1>2. CASE Closes
  <2>1. /\ todo' = <<>> /\ answer' = NoAnswers /\ told' = {}
        /\ limit' = limit /\ service' = service
    BY <1>2 DEF Closes
  <2>2. todo' \in Seq(Seq(Caller)) /\ Once(todo') /\ Avoids(todo', told')
    BY <2>1 DEF Once, Avoids
  <2>3. answer' \in [Caller -> Answer] /\ OwnValues' /\ Nowhere' /\ AnswersReach'
    BY <2>1 DEF NoAnswers, Answer, OwnValues, Nowhere, AnswersReach
  <2> QED
    BY <2>1, <2>2, <2>3 DEF HttpInv, HttpAnswers
<1>3. CASE Http /\ HttpSends
  <2>1. service = "http" /\ service' = service
    BY <1>3 DEF Http
  <2> QED
    BY <1>3, <2>1, HttpSendsStep DEF HttpInv
<1>4. CASE Http /\ HttpEnds
  <2>1. service = "http" /\ service' = service
    BY <1>4 DEF Http
  <2>2. HttpRuns /\ limit' = limit
    BY <1>4 DEF HttpEnds, HttpRuns
  <2>3. arrival' = arrival
    BY <1>4 DEF HttpEnds, DrainSteps, Begin, Collect, BatchAbandoned, RunEnds, BatchAnswers,
                Deliver, entries
  <2> QED
    BY <2>1, <2>2, <2>3, RunBegins DEF HttpInv
<1>5. CASE Http /\ Forgives
  BY <1>5 DEF Http, Forgives, runVars, HttpInv, HttpAnswers, OwnValues, Nowhere, AnswersReach
<1>6. CASE Aggregating
  BY <1>6 DEF Aggregating, httpVars, HttpInv
<1> QED
  BY <1>1, <1>2, <1>3, <1>4, <1>5, <1>6 DEF ServiceNext, Runs

(* Under the HTTP batcher what is still to be sent is sent once, and every *)
(* answer is of its own request (HttpBatcher.send of                       *)
(* rpc/transport/http.ts).                                                 *)
THEOREM HttpInvariance == ServiceSpec => []HttpInv
<1>1. ServiceInit => HttpInv
  <2> SUFFICES ASSUME ServiceInit
               PROVE  HttpInv
    OBVIOUS
  <2>1. todo = <<>> /\ answer = NoAnswers /\ told = {} /\ limit = Size
    BY DEF ServiceInit, RunInit, HttpInit
  <2>2. todo \in Seq(Seq(Caller)) /\ Once(todo) /\ Avoids(todo, told)
    BY <2>1 DEF Once, Avoids
  <2>3. answer \in [Caller -> Answer] /\ OwnValues /\ Nowhere /\ AnswersReach
    BY <2>1 DEF NoAnswers, Answer, OwnValues, Nowhere, AnswersReach
  <2> QED
    BY <2>1, <2>2, <2>3, QueueAssumption DEF ServiceInit, HttpInv, HttpAnswers
<1>2. IInv /\ IInv' /\ HttpInv /\ [ServiceNext]_serviceVars => HttpInv'
  <2> SUFFICES ASSUME IInv, IInv', HttpInv, [ServiceNext]_serviceVars
               PROVE  HttpInv'
    OBVIOUS
  <2>1. CASE UNCHANGED serviceVars
    BY <2>1 DEF serviceVars, runVars, httpVars, HttpInv, HttpAnswers, OwnValues, Nowhere,
                AnswersReach
  <2> QED
    BY <2>1, HttpServiceStep
<1> QED
  BY <1>1, <1>2, QueueUnderServices, Invariance, PTL DEF ServiceSpec

(* Whatever is missing, comes twice or out of order, in chunks or after    *)
(* the limit has changed: a request that the endpoint answered once has    *)
(* that answer (rpc/transport/http.ts:119).                                *)
THEOREM AnswersReachHolds == ServiceSpec => []AnswersReach
<1>1. HttpInv => AnswersReach
  BY DEF HttpInv, HttpAnswers, AnswersReach
<1> QED
  BY <1>1, HttpInvariance, PTL

(* A request of the HTTP batcher has no answer but its own                 *)
(* (rpc/transport/http.ts:72).                                             *)
THEOREM HttpOwnAnswer == ServiceSpec => [](service = "http" => OwnAnswer)
<1>1. HttpInv => (service = "http" => OwnAnswer)
  BY DEF HttpInv, HttpAnswers, OwnValues, Nowhere, OwnAnswer
<1> QED
  BY <1>1, HttpInvariance, PTL
-----------------------------------------------------------------------------
(* What the codec of multicall encodes is what it decodes.  A word is its  *)
(* digits, so what lies in the data at a place can be read from there.     *)

(* The function that Quotients stands for. *)
LEMMA QuotientsStep ==
  ASSUME NEW v \in Nat, NEW q, q = Quotients(v)
  PROVE  /\ q \in [0..WordBytes -> Nat] /\ q[0] = v
         /\ \A n \in 1..WordBytes : q[n] = q[n - 1] \div 256
<1> DEFINE N == WordBytes
           G == [n \in 1..N |-> [r \in Nat |-> r \div 256]]
           Solves(f) == f = [n \in 0..N |-> IF n = 0 THEN v ELSE f[n - 1] \div 256]
<1>1. N \in Nat
  BY WordAssumption
<1>2. \A r \in Nat : r \div 256 \in Nat
  OBVIOUS
<1>3. Steps(G, N, Nat)
  BY <1>1, <1>2 DEF Steps
<1>4. PICK g : Solution(g, N, Nat, v, G)
  <2> HIDE DEF N, G
  <2> QED
    BY <1>1, <1>3, Recursion
<1> USE DEF Solution
<1>5. \A n \in 1..N : G[n][g[n - 1]] = g[n - 1] \div 256
  <2> SUFFICES ASSUME NEW n \in 1..N
               PROVE  G[n][g[n - 1]] = g[n - 1] \div 256
    OBVIOUS
  <2>1. n - 1 \in 0..N
    BY <1>1
  <2>2. g[n - 1] \in Nat
    BY <1>4, <2>1
  <2> QED
    BY <2>2
<1>6. Solves(g)
  <2> DEFINE h == [n \in 0..N |-> IF n = 0 THEN v ELSE g[n - 1] \div 256]
  <2>1. \A n \in 0..N : n # 0 => n \in 1..N
    BY <1>1
  <2> HIDE DEF G, N
  <2>2. \A n \in 0..N : g[n] = IF n = 0 THEN v ELSE g[n - 1] \div 256
    BY <1>4, <1>5, <2>1
  <2>3. g = [n \in 0..N |-> g[n]] /\ [n \in 0..N |-> g[n]] = h
    BY <1>4, <2>2
  <2> QED
    BY <2>3
<1>7. q = CHOOSE f : Solves(f)
  BY DEF Quotients
<1> HIDE DEF Solves
<1>8. Solves(q)
  BY <1>6, <1>7
<1>9. \A n \in 0..N : q[n] = IF n = 0 THEN v ELSE q[n - 1] \div 256
  BY <1>8 DEF Solves
<1>10. DOMAIN q = 0..N /\ q = [n \in 0..N |-> q[n]]
  BY <1>8 DEF Solves
<1>11. \A n \in 0..N : q[n] \in Nat
  <2> DEFINE T == {n \in 0..N : q[n] \in Nat}
  <2>1. 0 \in T
    BY <1>1, <1>9
  <2>2. \A n \in 0..N - 1 : n \in T => n + 1 \in T
    <3> SUFFICES ASSUME NEW n \in 0..N - 1, q[n] \in Nat
                 PROVE  q[n + 1] \in Nat
      BY <1>1
    <3>1. n + 1 \in 0..N /\ n + 1 # 0 /\ (n + 1) - 1 = n
      BY <1>1
    <3>2. q[n + 1] = q[n] \div 256
      BY <1>9, <3>1
    <3> QED
      BY <3>2, <1>2
  <2>3. \A n \in 0..N : n \in T
    <3> HIDE DEF T, N
    <3> QED
      BY <1>1, <2>1, <2>2, ByCounting
  <2> QED
    BY <2>3
<1>12. q \in [0..N -> Nat]
  BY <1>10, <1>11
<1>13. q[0] = v /\ \A n \in 1..N : q[n] = q[n - 1] \div 256
  <2>1. 0 \in 0..N /\ \A n \in 1..N : n \in 0..N /\ n # 0
    BY <1>1
  <2> HIDE DEF N
  <2> QED
    BY <1>9, <2>1
<1> QED
  BY <1>12, <1>13

(* A word is as long as words are. *)
LEMMA WordShape ==
  ASSUME NEW v \in Nat
  PROVE  Word(v) \in Seq(Nat) /\ Len(Word(v)) = WordBytes
<1>1. WordBytes \in Nat
  BY WordAssumption
<1>2. Quotients(v) \in [0..WordBytes -> Nat]
  BY QuotientsStep
<1>3. \A i \in 1..WordBytes : Quotients(v)[WordBytes - i] % 256 \in Nat
  <2> SUFFICES ASSUME NEW i \in 1..WordBytes
               PROVE  Quotients(v)[WordBytes - i] % 256 \in Nat
    OBVIOUS
  <2>1. WordBytes - i \in 0..WordBytes
    BY <1>1
  <2>2. Quotients(v)[WordBytes - i] \in Nat
    BY <1>2, <2>1
  <2> QED
    BY <2>2
<1> DEFINE w == [i \in 1..WordBytes |-> Quotients(v)[WordBytes - i] % 256]
<1>4. Word(v) = w
  BY DEF Word
<1>5. w \in [1..WordBytes -> Nat]
  BY <1>3
<1> HIDE DEF w
<1>6. w \in Seq(Nat) /\ Len(w) = WordBytes
  BY <1>1, <1>5
<1> QED
  BY <1>4, <1>6

(* A smaller number has not more digits. *)
LEMMA HoldsLess ==
  ASSUME NEW u \in Nat, NEW v \in Nat, u <= v, Holds(v)
  PROVE  Holds(u)
<1> DEFINE p == Quotients(u)
           q == Quotients(v)
           T == {n \in 0..WordBytes : p[n] <= q[n]}
<1>0. WordBytes \in Nat
  BY WordAssumption
<1>1. /\ p \in [0..WordBytes -> Nat] /\ p[0] = u /\ \A n \in 1..WordBytes : p[n] = p[n - 1] \div 256
      /\ q \in [0..WordBytes -> Nat] /\ q[0] = v /\ \A n \in 1..WordBytes : q[n] = q[n - 1] \div 256
  BY QuotientsStep
<1> HIDE DEF p, q
<1>2. 0 \in T
  BY <1>0, <1>1
<1>3. \A n \in 0..WordBytes - 1 : n \in T => n + 1 \in T
  <2> SUFFICES ASSUME NEW n \in 0..WordBytes - 1, p[n] <= q[n]
               PROVE  p[n + 1] <= q[n + 1]
    BY <1>0
  <2>1. n \in 0..WordBytes /\ n + 1 \in 1..WordBytes /\ (n + 1) - 1 = n
    BY <1>0
  <2>2. p[n + 1] = p[n] \div 256 /\ q[n + 1] = q[n] \div 256
    BY <1>1, <2>1
  <2>3. p[n] \in Nat /\ q[n] \in Nat
    BY <1>1, <2>1
  <2> QED
    BY <2>2, <2>3
<1>4. \A n \in 0..WordBytes : n \in T
  <2> HIDE DEF T
  <2> QED
    BY <1>0, <1>2, <1>3, ByCounting
<1>5. p[WordBytes] <= q[WordBytes] /\ p[WordBytes] \in Nat
  BY <1>0, <1>1, <1>4
<1>6. q[WordBytes] = 0
  BY DEF Holds, q
<1>7. p[WordBytes] = 0
  BY <1>5, <1>6
<1> QED
  BY <1>7 DEF Holds, p

(* s lies in data behind the first a bytes. *)
Lies(s, data, a) ==
  /\ a \in Nat /\ a + Len(s) <= Len(data)
  /\ \A n \in 1..Len(s) : data[a + n] = s[n]

(* A word that lies at a place is read there as the number it was made of. *)
LEMMA ReadWordIs ==
  ASSUME NEW v \in Nat, Holds(v), NEW data \in Seq(Nat), NEW a, Lies(Word(v), data, a)
  PROVE  ReadWord(data, a) = v /\ HasWord(data, a)
<1> DEFINE N == WordBytes
           q == Quotients(v)
           g == [n \in 0..N |-> q[N - n]]
           Solves(f) == f = [n \in 0..N |-> IF n = 0 THEN 0 ELSE 256 * f[n - 1] + data[a + n]]
           f == CHOOSE f : Solves(f)
<1>0. N \in Nat /\ N # 0
  BY WordAssumption
<1>1. q \in [0..N -> Nat] /\ q[0] = v /\ \A n \in 1..N : q[n] = q[n - 1] \div 256
  BY QuotientsStep
<1>2. q[N] = 0
  BY DEF Holds
<1>3. \A n \in 1..N : data[a + n] = q[N - n] % 256
  BY WordShape DEF Lies, Word
<1>4. Solves(g)
  <2> DEFINE h == [n \in 0..N |-> IF n = 0 THEN 0 ELSE 256 * g[n - 1] + data[a + n]]
  <2> SUFFICES ASSUME NEW n \in 0..N
               PROVE  g[n] = IF n = 0 THEN 0 ELSE 256 * g[n - 1] + data[a + n]
    <3>1. g = [n \in 0..N |-> g[n]]
      OBVIOUS
    <3>2. [n \in 0..N |-> g[n]] = h
      <4> HIDE DEF N, q, g
      <4> QED
        OBVIOUS
    <3>3. g = h
      BY <3>1, <3>2
    <3> HIDE DEF g
    <3> QED
      BY <3>3
  <2>1. CASE n = 0
    BY <1>0, <1>2, <2>1
  <2>2. CASE n # 0
    <3>1. n \in 1..N /\ n - 1 \in 0..N /\ N - n \in 0..N /\ N - (n - 1) \in 1..N
          /\ (N - (n - 1)) - 1 = N - n
      BY <1>0, <2>2
    <3> HIDE DEF N, q
    <3>2. g[n] = q[N - n] /\ g[n - 1] = q[N - (n - 1)]
      BY <3>1
    <3>3. q[N - (n - 1)] = q[N - n] \div 256 /\ q[N - n] \in Nat
      BY <1>1, <3>1
    <3>4. data[a + n] = q[N - n] % 256
      BY <1>3, <3>1
    <3>5. 256 * (q[N - n] \div 256) + (q[N - n] % 256) = q[N - n]
      BY <3>3
    <3> HIDE DEF g
    <3> QED
      BY <2>2, <3>2, <3>3, <3>4, <3>5
  <2> QED
    BY <2>1, <2>2
<1>5. Solves(f)
  <2> HIDE DEF Solves
  <2> QED
    BY <1>4
<1> DEFINE T == {n \in 0..N : f[n] = g[n]}
<1> HIDE DEF f
<1>6. \A n \in 0..N : f[n] = IF n = 0 THEN 0 ELSE 256 * f[n - 1] + data[a + n]
  BY <1>5
<1>7. \A n \in 0..N : g[n] = IF n = 0 THEN 0 ELSE 256 * g[n - 1] + data[a + n]
  BY <1>4
<1> HIDE DEF g
<1>8. 0 \in T
  BY <1>0, <1>6, <1>7
<1>9. \A n \in 0..N - 1 : n \in T => n + 1 \in T
  <2> SUFFICES ASSUME NEW n \in 0..N - 1, f[n] = g[n]
               PROVE  f[n + 1] = g[n + 1]
    BY <1>0
  <2>1. n + 1 \in 0..N /\ n + 1 # 0 /\ (n + 1) - 1 = n
    BY <1>0
  <2> HIDE DEF N
  <2>2. f[n + 1] = 256 * f[n] + data[a + (n + 1)] /\ g[n + 1] = 256 * g[n] + data[a + (n + 1)]
    BY <1>6, <1>7, <2>1
  <2> QED
    BY <2>2
<1>10. N \in 0..N
  BY <1>0
<1>11. \A n \in 0..N : n \in T
  <2> HIDE DEF T, N
  <2> QED
    BY <1>0, <1>8, <1>9, ByCounting
<1>12. f[N] = g[N]
  BY <1>10, <1>11
<1>13. g[N] = v
  BY <1>0, <1>1 DEF g
<1>14. ReadWord(data, a) = f[N]
  BY DEF ReadWord, f
<1>15. a + N <= Len(data)
  BY WordShape DEF Lies
<1> QED
  BY <1>12, <1>13, <1>14, <1>15 DEF HasWord

(* The function that Joining stands for. *)
LEMMA JoiningStep ==
  ASSUME NEW seqs \in Seq(Seq(Nat)), NEW j, j = Joining(seqs)
  PROVE  /\ j \in [0..Len(seqs) -> Seq(Nat)] /\ j[0] = <<>>
         /\ \A n \in 1..Len(seqs) : j[n] = j[n - 1] \o seqs[n]
<1> DEFINE N == Len(seqs)
           S == Seq(Nat)
           G == [n \in 1..N |-> [r \in S |-> r \o seqs[n]]]
           Solves(f) == f = [n \in 0..N |-> IF n = 0 THEN <<>> ELSE f[n - 1] \o seqs[n]]
<1>1. N \in Nat /\ <<>> \in S /\ \A n \in 1..N : seqs[n] \in S
  OBVIOUS
<1>2. \A r \in S, n \in 1..N : r \o seqs[n] \in S
  <2> SUFFICES ASSUME NEW r \in S, NEW n \in 1..N
               PROVE  r \o seqs[n] \in S
    OBVIOUS
  <2>1. seqs[n] \in S
    BY <1>1
  <2> QED
    BY <2>1
<1>3. Steps(G, N, S)
  <2> HIDE DEF S, N
  <2> QED
    BY <1>1, <1>2 DEF Steps
<1>4. PICK g : Solution(g, N, S, <<>>, G)
  <2> HIDE DEF N, G, S
  <2> QED
    BY <1>1, <1>3, Recursion
<1> USE DEF Solution
<1> HIDE DEF S
<1>5. \A n \in 1..N : G[n][g[n - 1]] = g[n - 1] \o seqs[n]
  <2> SUFFICES ASSUME NEW n \in 1..N
               PROVE  G[n][g[n - 1]] = g[n - 1] \o seqs[n]
    OBVIOUS
  <2>1. n - 1 \in 0..N
    BY <1>1
  <2>2. g[n - 1] \in S
    BY <1>4, <2>1
  <2> QED
    BY <2>2
<1>6. Solves(g)
  <2> DEFINE h == [n \in 0..N |-> IF n = 0 THEN <<>> ELSE g[n - 1] \o seqs[n]]
  <2>1. \A n \in 0..N : n # 0 => n \in 1..N
    BY <1>1
  <2> HIDE DEF G, N
  <2>2. \A n \in 0..N : g[n] = IF n = 0 THEN <<>> ELSE g[n - 1] \o seqs[n]
    BY <1>4, <1>5, <2>1
  <2>3. g = [n \in 0..N |-> g[n]] /\ [n \in 0..N |-> g[n]] = h
    BY <1>4, <2>2
  <2> QED
    BY <2>3
<1>7. j = CHOOSE f : Solves(f)
  BY DEF Joining
<1> HIDE DEF Solves
<1>8. Solves(j)
  BY <1>6, <1>7
<1>9. \A n \in 0..N : j[n] = IF n = 0 THEN <<>> ELSE j[n - 1] \o seqs[n]
  BY <1>8 DEF Solves
<1>10. DOMAIN j = 0..N /\ j = [n \in 0..N |-> j[n]]
  BY <1>8 DEF Solves
<1>11. \A n \in 0..N : j[n] \in S
  <2> DEFINE T == {n \in 0..N : j[n] \in S}
  <2>1. 0 \in T
    BY <1>1, <1>9
  <2>2. \A n \in 0..N - 1 : n \in T => n + 1 \in T
    <3> SUFFICES ASSUME NEW n \in 0..N - 1, j[n] \in S
                 PROVE  j[n + 1] \in S
      BY <1>1
    <3>1. n + 1 \in 1..N /\ n + 1 \in 0..N /\ n + 1 # 0 /\ (n + 1) - 1 = n
      BY <1>1
    <3>2. j[n + 1] = j[n] \o seqs[n + 1]
      BY <1>9, <3>1
    <3> HIDE DEF N
    <3> QED
      BY <3>1, <3>2, <1>2
  <2>3. \A n \in 0..N : n \in T
    <3> HIDE DEF T, N
    <3> QED
      BY <1>1, <2>1, <2>2, ByCounting
  <2> QED
    BY <2>3
<1>12. j \in [0..N -> S]
  BY <1>10, <1>11
<1>13. j[0] = <<>> /\ \A n \in 1..N : j[n] = j[n - 1] \o seqs[n]
  <2>1. 0 \in 0..N /\ \A n \in 1..N : n \in 0..N /\ n # 0
    BY <1>1
  <2> HIDE DEF N
  <2> QED
    BY <1>9, <2>1
<1> QED
  BY <1>12, <1>13 DEF S

(* What lies in a part lies in the whole. *)
LEMMA LiesIn ==
  ASSUME NEW s \in Seq(Nat), NEW t \in Seq(Nat), NEW data \in Seq(Nat), NEW a, NEW b,
         Lies(s, t, b), Lies(t, data, a)
  PROVE  Lies(s, data, a + b)
<1>1. a \in Nat /\ b \in Nat /\ a + Len(t) <= Len(data) /\ b + Len(s) <= Len(t)
  BY DEF Lies
<1>2. ASSUME NEW n \in 1..Len(s)
      PROVE  data[(a + b) + n] = s[n]
  <2>1. b + n \in 1..Len(t)
    BY <1>1
  <2>2. data[a + (b + n)] = t[b + n] /\ t[b + n] = s[n]
    BY <2>1 DEF Lies
  <2>3. a + (b + n) = (a + b) + n
    BY <1>1
  <2> QED
    BY <2>2, <2>3
<1> QED
  BY <1>1, <1>2 DEF Lies

(* Both sides of two joined sequences lie in what they make. *)
LEMMA LiesJoined ==
  ASSUME NEW s \in Seq(Nat), NEW t \in Seq(Nat)
  PROVE  /\ s \o t \in Seq(Nat) /\ Len(s \o t) = Len(s) + Len(t)
         /\ Lies(s, s \o t, 0) /\ Lies(t, s \o t, Len(s))
  BY DEF Lies

(* What lies in the first of two sequences lies in both joined, and what   *)
(* lies in the second is moved by the length of the first.                 *)
LEMMA LiesBeside ==
  ASSUME NEW s \in Seq(Nat), NEW t \in Seq(Nat), NEW x \in Seq(Nat), NEW a
  PROVE  /\ Lies(x, s, a) => Lies(x, s \o t, a)
         /\ Lies(x, t, a) => Lies(x, s \o t, Len(s) + a)
<1>1. s \o t \in Seq(Nat) /\ Lies(s, s \o t, 0) /\ Lies(t, s \o t, Len(s))
  BY LiesJoined
<1>2. ASSUME Lies(x, s, a)
      PROVE  Lies(x, s \o t, a)
  <2>1. Lies(x, s \o t, 0 + a)
    BY <1>1, <1>2, LiesIn
  <2>2. 0 + a = a
    BY <1>2 DEF Lies
  <2> QED
    BY <2>1, <2>2
<1>3. ASSUME Lies(x, t, a)
      PROVE  Lies(x, s \o t, Len(s) + a)
  BY <1>1, <1>3, LiesIn
<1> QED
  BY <1>2, <1>3

(* Sequences that are joined lie one behind the other. *)
LEMMA JoinedLies ==
  ASSUME NEW seqs \in Seq(Seq(Nat)), NEW j, j = Joining(seqs),
         NEW i \in 1..Len(seqs)
  PROVE  Lies(seqs[i], Join(seqs), Len(j[i - 1]))
<1> DEFINE N == Len(seqs)
           T == {n \in 0..N : i <= n => Lies(seqs[i], j[n], Len(j[i - 1]))}
<1>0. N \in Nat /\ \A n \in 1..N : seqs[n] \in Seq(Nat)
  OBVIOUS
<1>1. j \in [0..N -> Seq(Nat)] /\ \A n \in 1..N : j[n] = j[n - 1] \o seqs[n]
  BY JoiningStep
<1>2. 0 \in T
  BY <1>0
<1>3. \A n \in 0..N - 1 : n \in T => n + 1 \in T
  <2> SUFFICES ASSUME NEW n \in 0..N - 1, n \in T, i <= n + 1
               PROVE  Lies(seqs[i], j[n + 1], Len(j[i - 1]))
    BY <1>0
  <2>1. n + 1 \in 1..N /\ n \in 0..N /\ (n + 1) - 1 = n
    BY <1>0
  <2>2. j[n] \in Seq(Nat) /\ seqs[n + 1] \in Seq(Nat) /\ seqs[i] \in Seq(Nat)
        /\ j[n + 1] = j[n] \o seqs[n + 1]
    BY <1>0, <1>1, <2>1
  <2>3. CASE i = n + 1
    <3>1. i - 1 = n
      BY <2>1, <2>3
    <3> HIDE DEF N, T
    <3> QED
      BY <2>2, <2>3, <3>1, LiesJoined
  <2>4. CASE i # n + 1
    <3>1. i <= n
      BY <2>1, <2>4
    <3>2. Lies(seqs[i], j[n], Len(j[i - 1]))
      BY <3>1
    <3> HIDE DEF N, T
    <3> QED
      BY <2>2, <3>2, LiesBeside
  <2> QED
    BY <2>3, <2>4
<1>4. \A n \in 0..N : n \in T
  <2> HIDE DEF T, N
  <2> QED
    BY <1>0, <1>2, <1>3, ByCounting
<1>5. N \in 0..N /\ i <= N
  BY <1>0
<1> QED
  BY <1>4, <1>5 DEF Join

(* A sum of lengths. *)
LEMMA JoinedLength ==
  ASSUME NEW seqs \in Seq(Seq(Nat)), NEW L \in Nat, \A i \in 1..Len(seqs) : Len(seqs[i]) = L
  PROVE  \A n \in 0..Len(seqs) : Len(Joining(seqs)[n]) = n * L
<1> DEFINE N == Len(seqs)
           j == Joining(seqs)
           T == {n \in 0..N : Len(j[n]) = n * L}
<1>0. N \in Nat /\ \A n \in 1..N : seqs[n] \in Seq(Nat)
  OBVIOUS
<1>1. j \in [0..N -> Seq(Nat)] /\ j[0] = <<>> /\ \A n \in 1..N : j[n] = j[n - 1] \o seqs[n]
  BY JoiningStep
<1> HIDE DEF j
<1>2. 0 \in T
  BY <1>0, <1>1
<1>3. \A n \in 0..N - 1 : n \in T => n + 1 \in T
  <2> SUFFICES ASSUME NEW n \in 0..N - 1, Len(j[n]) = n * L
               PROVE  Len(j[n + 1]) = (n + 1) * L
    BY <1>0
  <2>1. n + 1 \in 1..N /\ n \in 0..N /\ (n + 1) - 1 = n
    BY <1>0
  <2>2. j[n] \in Seq(Nat) /\ seqs[n + 1] \in Seq(Nat) /\ j[n + 1] = j[n] \o seqs[n + 1]
        /\ Len(seqs[n + 1]) = L
    BY <1>0, <1>1, <2>1
  <2>3. Len(j[n + 1]) = n * L + L
    <3>1. Len(j[n] \o seqs[n + 1]) = Len(j[n]) + Len(seqs[n + 1])
      BY <2>2, LiesJoined
    <3> QED
      BY <2>2, <3>1
  <2>4. (n + 1) * L = n * L + L
    BY <1>0
  <2> QED
    BY <2>3, <2>4
<1>4. \A n \in 0..N : n \in T
  <2> HIDE DEF T, N
  <2> QED
    BY <1>0, <1>2, <1>3, ByCounting
<1> QED
  BY <1>4 DEF j

(* Where the parts of an array lie. *)
Before(tuples, i) == Len(Joining(tuples)[i - 1])
Head0(tuples) == 2 * WordBytes + Len(tuples) * WordBytes

(* Where the parts of an encoded array are. *)
LEMMA ArrayLies ==
  ASSUME NEW tuples \in Seq(Seq(Nat)), NEW R, R = EncodeArray(tuples)
  PROVE  /\ R \in Seq(Nat)
         /\ Lies(Word(WordBytes), R, 0) /\ Lies(Word(Len(tuples)), R, WordBytes)
         /\ \A i \in 1..Len(tuples) :
              /\ Before(tuples, i) \in Nat
              /\ Lies(Word(Len(tuples) * WordBytes + Before(tuples, i)), R,
                      2 * WordBytes + (i - 1) * WordBytes)
              /\ Lies(tuples[i], R, Head0(tuples) + Before(tuples, i))
         /\ Len(R) = Head0(tuples) + Len(Join(tuples))
<1> DEFINE W == WordBytes
           k == Len(tuples)
           o == [i \in 1..k |-> k * W + Before(tuples, i)]
           hs == [i \in 1..k |-> Word(o[i])]
           A == Word(W)
           B == Word(k)
           H == Join(hs)
           C == Join(tuples)
<1>1. W \in Nat /\ k \in Nat /\ k * W \in Nat
  <2>1. W \in Nat /\ k \in Nat
    BY WordAssumption
  <2>2. \A m, n \in Nat : m * n \in Nat
    OBVIOUS
  <2> QED
    BY <2>1, <2>2
<1>2. Joining(tuples) \in [0..k -> Seq(Nat)]
  BY JoiningStep
<1>3. \A i \in 1..k : Before(tuples, i) \in Nat
  <2> SUFFICES ASSUME NEW i \in 1..k
               PROVE  Before(tuples, i) \in Nat
    OBVIOUS
  <2>1. i - 1 \in 0..k
    BY <1>1
  <2>2. Joining(tuples)[i - 1] \in Seq(Nat)
    BY <1>2, <2>1
  <2> QED
    BY <2>2 DEF Before
<1>4. \A i \in 1..k : o[i] \in Nat
  <2>1. \A m, n \in Nat : m + n \in Nat
    OBVIOUS
  <2>2. \A i \in 1..k : k * W + Before(tuples, i) \in Nat
    <3> HIDE DEF k, W
    <3> QED
      BY <1>1, <1>3, <2>1
  <2> QED
    BY <2>2
<1>5. A \in Seq(Nat) /\ B \in Seq(Nat) /\ Len(A) = W /\ Len(B) = W
  BY <1>1, WordShape
<1>6. \A i \in 1..k : hs[i] \in Seq(Nat) /\ Len(hs[i]) = W
  BY <1>4, WordShape
<1>7. hs \in Seq(Seq(Nat)) /\ Len(hs) = k
  <2>1. hs \in [1..k -> Seq(Nat)]
    BY <1>6
  <2> HIDE DEF hs
  <2> QED
    BY <1>1, <2>1
<1>8. C \in Seq(Nat)
  <2>1. k \in 0..k
    BY <1>1
  <2> QED
    BY <1>2, <2>1 DEF Join
<1>9. H \in Seq(Nat) /\ Len(H) = k * W
  <2>1. Joining(hs) \in [0..k -> Seq(Nat)]
    BY <1>7, JoiningStep
  <2>2. \A n \in 0..k : Len(Joining(hs)[n]) = n * W
    BY <1>1, <1>6, <1>7, JoinedLength
  <2>3. k \in 0..k
    BY <1>1
  <2> QED
    BY <1>7, <2>1, <2>2, <2>3 DEF Join
<1>10. R = ((A \o B) \o H) \o C
  <2>1. DOMAIN tuples = 1..k
    OBVIOUS
  <2>2. hs = [i \in 1..k |-> Word(k * W + Len(Joining(tuples)[i - 1]))]
    BY DEF Before
  <2> QED
    BY <2>1, <2>2 DEF EncodeArray
<1> HIDE DEF A, B, H, C, hs, o, W, k
<1> DEFINE AB == A \o B
           ABH == AB \o H
<1>11. AB \in Seq(Nat) /\ Len(AB) = W + W /\ Lies(A, AB, 0) /\ Lies(B, AB, W)
  BY <1>1, <1>5, LiesJoined
<1> HIDE DEF AB
<1>12. ABH \in Seq(Nat) /\ Len(ABH) = W + W + k * W
       /\ Lies(A, ABH, 0) /\ Lies(B, ABH, W) /\ Lies(H, ABH, W + W)
  <2>1. ABH \in Seq(Nat) /\ Len(ABH) = Len(AB) + Len(H) /\ Lies(AB, ABH, 0) /\ Lies(H, ABH, Len(AB))
    BY ONLY <1>9, <1>11, LiesJoined
  <2>2. Lies(A, ABH, 0) /\ Lies(B, ABH, W)
    BY ONLY <1>5, <1>9, <1>11, LiesBeside
  <2> QED
    BY ONLY <1>9, <1>11, <2>1, <2>2
<1>13. R = ABH \o C
  BY <1>10 DEF AB
<1> HIDE DEF ABH
<1>14. R \in Seq(Nat) /\ Len(R) = W + W + k * W + Len(C)
       /\ Lies(A, R, 0) /\ Lies(B, R, W) /\ Lies(H, R, W + W) /\ Lies(C, R, W + W + k * W)
  <2>1. R \in Seq(Nat) /\ Len(R) = Len(ABH) + Len(C) /\ Lies(C, R, Len(ABH))
    BY <1>8, <1>12, <1>13, LiesJoined
  <2>2. Lies(A, R, 0) /\ Lies(B, R, W) /\ Lies(H, R, W + W)
    BY <1>5, <1>8, <1>9, <1>12, <1>13, LiesBeside
  <2> QED
    BY <1>12, <2>1, <2>2
<1>15. ASSUME NEW i \in 1..k
       PROVE  /\ Lies(Word(o[i]), R, 2 * W + (i - 1) * W)
              /\ Lies(tuples[i], R, 2 * W + k * W + Before(tuples, i))
  <2>1. Lies(hs[i], H, Len(Joining(hs)[i - 1]))
    BY <1>7, JoinedLies DEF H
  <2>2. i - 1 \in 0..k
    BY <1>1
  <2>3. Len(Joining(hs)[i - 1]) = (i - 1) * W
    BY <1>1, <1>6, <1>7, <2>2, JoinedLength
  <2>4. hs[i] = Word(o[i])
    BY DEF hs
  <2>5. Lies(Word(o[i]), R, (W + W) + (i - 1) * W)
    BY <2>1, <2>3, <2>4, <1>6, <1>9, <1>14, LiesIn
  <2>6. tuples[i] \in Seq(Nat)
    BY DEF k
  <2>7. Lies(tuples[i], C, Before(tuples, i))
    BY JoinedLies DEF C, Before, k
  <2>8. Lies(tuples[i], R, (W + W + k * W) + Before(tuples, i))
    BY <2>6, <2>7, <1>8, <1>14, LiesIn
  <2>9. W + W = 2 * W
    BY <1>1
  <2> QED
    BY <2>5, <2>8, <2>9
<1>16. \A i \in 1..k : o[i] = k * W + Before(tuples, i)
  BY DEF o
<1>17. W + W = 2 * W
  BY <1>1
<1>18. Lies(Word(W), R, 0) /\ Lies(Word(k), R, W)
  BY <1>14 DEF A, B
<1>19. Len(R) = 2 * W + k * W + Len(C)
  BY <1>14, <1>17
<1> QED
  BY <1>3, <1>14, <1>15, <1>16, <1>18, <1>19 DEF W, k, C, Head0

(* Bytes lie behind their length, padded by less than a word. *)
LEMMA BytesLie ==
  ASSUME NEW d \in Seq(Nat), NEW e, e = EncodeBytes(d)
  PROVE  /\ e \in Seq(Nat) /\ Lies(Word(Len(d)), e, 0) /\ Lies(d, e, WordBytes)
         /\ WordBytes + Len(d) <= Len(e) /\ Len(e) < 2 * WordBytes + Len(d)
<1> DEFINE m == (WordBytes - (Len(d) % WordBytes)) % WordBytes
           z == [i \in 1..m |-> 0]
           w == Word(Len(d))
<1>1. WordBytes \in Nat /\ WordBytes # 0 /\ Len(d) \in Nat
  BY WordAssumption
<1>2. m \in Nat /\ m < WordBytes
  <2>1. \A x \in Int : x % WordBytes \in 0..WordBytes - 1
    BY <1>1
  <2>2. WordBytes - (Len(d) % WordBytes) \in Int
    BY <1>1, <2>1
  <2>3. m \in 0..WordBytes - 1
    BY ONLY <2>1, <2>2 DEF m
  <2> QED
    BY <1>1, <2>3
<1> HIDE DEF m
<1>3. z \in Seq(Nat) /\ Len(z) = m
  BY <1>2
<1> HIDE DEF z
<1>4. d \o z \in Seq(Nat) /\ Len(d \o z) = Len(d) + m /\ Lies(d, d \o z, 0)
  BY <1>3, LiesJoined
<1>5. e = w \o (d \o z)
  BY DEF EncodeBytes, Padded, z, m
<1>6. w \in Seq(Nat) /\ Len(w) = WordBytes
  BY <1>1, WordShape
<1> HIDE DEF w
<1>7. e \in Seq(Nat) /\ Len(e) = WordBytes + (Len(d) + m) /\ Lies(w, e, 0)
      /\ Lies(d, e, WordBytes + 0)
  <2>1. Lies(w, e, 0) /\ e \in Seq(Nat) /\ Len(e) = Len(w) + Len(d \o z)
    BY <1>4, <1>5, <1>6, LiesJoined
  <2>2. Lies(d, e, Len(w) + 0)
    BY <1>4, <1>5, <1>6, LiesBeside
  <2> QED
    BY <1>4, <1>6, <2>1, <2>2
<1>8. WordBytes + 0 = WordBytes
  BY <1>1
<1> QED
  BY <1>1, <1>2, <1>7, <1>8 DEF w

(* A call and a result as tuples. *)
Call == [target : Nat, allowFailure : BOOLEAN, data : Seq(Nat)]
CallResult == [success : BOOLEAN, data : Seq(Nat)]
Flag(b) == IF b THEN 1 ELSE 0
ResultTuple(r) == Word(Flag(r.success)) \o Word(2 * WordBytes) \o EncodeBytes(r.data)

(* Where the parts of an encoded call are. *)
LEMMA CallLies ==
  ASSUME NEW call \in Call, NEW t, t = EncodeCall(call)
  PROVE  /\ t \in Seq(Nat)
         /\ Lies(Word(call.target), t, 0) /\ Lies(Word(Flag(call.allowFailure)), t, WordBytes)
         /\ Lies(Word(3 * WordBytes), t, 2 * WordBytes)
         /\ Lies(Word(Len(call.data)), t, 3 * WordBytes)
         /\ Lies(call.data, t, 3 * WordBytes + WordBytes)
<1> DEFINE W == WordBytes
           A == Word(call.target)
           B == Word(Flag(call.allowFailure))
           C == Word(3 * W)
           E == EncodeBytes(call.data)
           AB == A \o B
           ABC == AB \o C
           L == Word(Len(call.data))
<1>1. W \in Nat /\ 3 * W \in Nat /\ call.target \in Nat /\ Flag(call.allowFailure) \in Nat
      /\ call.data \in Seq(Nat) /\ Len(call.data) \in Nat
  BY WordAssumption DEF Call, Flag
<1>2. /\ A \in Seq(Nat) /\ Len(A) = W /\ B \in Seq(Nat) /\ Len(B) = W
      /\ C \in Seq(Nat) /\ Len(C) = W /\ L \in Seq(Nat)
  BY <1>1, WordShape
<1>3. E \in Seq(Nat) /\ Lies(L, E, 0) /\ Lies(call.data, E, W)
  BY <1>1, BytesLie
<1>4. t = ABC \o E
  BY DEF EncodeCall, Flag
<1> HIDE DEF A, B, C, E, L, W
<1>5. AB \in Seq(Nat) /\ Len(AB) = W + W /\ Lies(A, AB, 0) /\ Lies(B, AB, W)
  <2>1. A \in Seq(Nat) /\ Len(A) = W /\ B \in Seq(Nat) /\ Len(B) = W
    BY <1>2
  <2>2. A \o B \in Seq(Nat) /\ Len(A \o B) = Len(A) + Len(B)
        /\ Lies(A, A \o B, 0) /\ Lies(B, A \o B, Len(A))
    BY <2>1, LiesJoined
  <2> QED
    BY <2>1, <2>2
<1> HIDE DEF AB
<1>6. ABC \in Seq(Nat) /\ Len(ABC) = W + W + W /\ Lies(A, ABC, 0) /\ Lies(B, ABC, W)
      /\ Lies(C, ABC, W + W)
  <2>1. ABC \in Seq(Nat) /\ Len(ABC) = Len(AB) + Len(C) /\ Lies(C, ABC, Len(AB))
    BY <1>2, <1>5, LiesJoined
  <2>2. Lies(A, ABC, 0) /\ Lies(B, ABC, W)
    BY <1>2, <1>5, LiesBeside
  <2> QED
    BY <1>1, <1>2, <1>5, <2>1, <2>2
<1> HIDE DEF ABC
<1>7. t \in Seq(Nat) /\ Lies(A, t, 0) /\ Lies(B, t, W) /\ Lies(C, t, W + W)
  BY <1>2, <1>3, <1>4, <1>6, LiesJoined, LiesBeside
<1>8. Lies(L, t, (W + W + W) + 0) /\ Lies(call.data, t, (W + W + W) + W)
  <2>1. Lies(L, t, Len(ABC) + 0) /\ Lies(call.data, t, Len(ABC) + W)
    BY <1>1, <1>2, <1>3, <1>4, <1>6, LiesBeside
  <2> QED
    BY <1>6, <2>1
<1>9. W + W = 2 * W /\ (W + W + W) + 0 = 3 * W /\ W + W + W = 3 * W
  BY <1>1
<1> QED
  BY <1>7, <1>8, <1>9 DEF A, B, C, L, W

(* Where the parts of an encoded result are. *)
LEMMA ResultLies ==
  ASSUME NEW r \in CallResult, NEW t, t = ResultTuple(r)
  PROVE  /\ t \in Seq(Nat)
         /\ Lies(Word(Flag(r.success)), t, 0) /\ Lies(Word(2 * WordBytes), t, WordBytes)
         /\ Lies(Word(Len(r.data)), t, 2 * WordBytes)
         /\ Lies(r.data, t, 2 * WordBytes + WordBytes)
         /\ 3 * WordBytes + Len(r.data) <= Len(t) /\ Len(t) < 4 * WordBytes + Len(r.data)
<1> DEFINE W == WordBytes
           A == Word(Flag(r.success))
           B == Word(2 * W)
           E == EncodeBytes(r.data)
           AB == A \o B
           L == Word(Len(r.data))
<1>1. W \in Nat /\ 2 * W \in Nat /\ Flag(r.success) \in Nat
      /\ r.data \in Seq(Nat) /\ Len(r.data) \in Nat
  BY WordAssumption DEF CallResult, Flag
<1>2. A \in Seq(Nat) /\ Len(A) = W /\ B \in Seq(Nat) /\ Len(B) = W /\ L \in Seq(Nat)
  BY <1>1, WordShape
<1>3. /\ E \in Seq(Nat) /\ Lies(L, E, 0) /\ Lies(r.data, E, W)
      /\ W + Len(r.data) <= Len(E) /\ Len(E) < 2 * W + Len(r.data)
  BY <1>1, BytesLie
<1>4. t = AB \o E
  BY DEF ResultTuple
<1> HIDE DEF A, B, E, L, W
<1>5. AB \in Seq(Nat) /\ Len(AB) = W + W /\ Lies(A, AB, 0) /\ Lies(B, AB, W)
  BY <1>2, LiesJoined
<1> HIDE DEF AB
<1>6. t \in Seq(Nat) /\ Len(t) = (W + W) + Len(E) /\ Lies(A, t, 0) /\ Lies(B, t, W)
  <2>1. t \in Seq(Nat) /\ Len(t) = Len(AB) + Len(E)
    BY <1>3, <1>4, <1>5, LiesJoined
  <2>2. Lies(A, t, 0) /\ Lies(B, t, W)
    BY <1>2, <1>3, <1>4, <1>5, LiesBeside
  <2> QED
    BY <1>5, <2>1, <2>2
<1>7. Lies(L, t, (W + W) + 0) /\ Lies(r.data, t, (W + W) + W)
  <2>1. Lies(L, t, Len(AB) + 0) /\ Lies(r.data, t, Len(AB) + W)
    BY <1>1, <1>2, <1>3, <1>4, <1>5, LiesBeside
  <2> QED
    BY <1>5, <2>1
<1>8. W + W = 2 * W /\ (W + W) + 0 = 2 * W
  BY <1>1
<1>9. Len(E) \in Nat
  BY <1>3
<1>10. 3 * W + Len(r.data) <= Len(t) /\ Len(t) < 4 * W + Len(r.data)
  <2>1. \A w, l, x, y \in Nat : w + l <= x /\ x < 2 * w + l /\ y = (w + w) + x
          => 3 * w + l <= y /\ y < 4 * w + l
    OBVIOUS
  <2>2. Len(t) \in Nat
    BY <1>6
  <2> QED
    BY <1>1, <1>3, <1>6, <1>9, <2>1, <2>2
<1> QED
  BY <1>6, <1>7, <1>8, <1>10 DEF A, B, L, W

(* data is R, or what is left of it without its end. *)
Cut(data, R) ==
  /\ data \in Seq(Nat) /\ Len(data) <= Len(R)
  /\ \A n \in 1..Len(data) : data[n] = R[n]

(* What does not reach beyond the cut lies in the data that is left. *)
LEMMA LiesCut ==
  ASSUME NEW s \in Seq(Nat), NEW R \in Seq(Nat), NEW data, Cut(data, R),
         NEW a, Lies(s, R, a), a + Len(s) <= Len(data)
  PROVE  Lies(s, data, a)
<1>1. a \in Nat /\ Len(s) \in Nat /\ Len(data) \in Nat
  BY DEF Lies, Cut
<1>2. ASSUME NEW n \in 1..Len(s)
      PROVE  data[a + n] = s[n]
  <2>1. a + n \in 1..Len(data)
    BY <1>1
  <2>2. data[a + n] = R[a + n]
    BY <2>1 DEF Cut
  <2> QED
    BY <2>2 DEF Lies
<1> QED
  BY <1>1, <1>2 DEF Lies

(* The heads of an array lie in its data, of which nothing is cut. *)
LEMMA ArrayFits ==
  ASSUME NEW tuples \in Seq(Seq(Nat)), NEW R, R = EncodeArray(tuples)
  PROVE  Head0(tuples) \in Nat /\ Head0(tuples) <= Len(R) /\ Cut(R, R)
<1>1. R \in Seq(Nat) /\ Len(R) = Head0(tuples) + Len(Join(tuples))
  BY ArrayLies
<1>2. Head0(tuples) \in Nat
  <2>1. WordBytes \in Nat /\ Len(tuples) \in Nat
    BY WordAssumption
  <2>2. \A m, n \in Nat : 2 * m + n * m \in Nat
    OBVIOUS
  <2> QED
    BY <2>1, <2>2 DEF Head0
<1>3. Len(Join(tuples)) \in Nat
  <2>1. Joining(tuples) \in [0..Len(tuples) -> Seq(Nat)]
    BY JoiningStep
  <2>2. Joining(tuples)[Len(tuples)] \in Seq(Nat)
    <3>1. Len(tuples) \in 0..Len(tuples)
      OBVIOUS
    <3> QED
      BY <2>1, <3>1
  <2> QED
    BY <2>2 DEF Join
<1> QED
  BY <1>1, <1>2, <1>3 DEF Cut

(* The head of an array is read as it was written. *)
LEMMA ArrayIsRead ==
  ASSUME NEW tuples \in Seq(Seq(Nat)), NEW R, R = EncodeArray(tuples), Holds(Len(R)),
         NEW data, Cut(data, R), Head0(tuples) <= Len(data)
  PROVE  /\ HasWord(data, 0) /\ ArrayAt(data) = WordBytes /\ HasWord(data, ArrayAt(data))
         /\ LengthOf(data) = Len(tuples) /\ HeadsAt(data) = 2 * WordBytes
         /\ \A i \in 1..Len(tuples) : TupleAt(data, i) = Head0(tuples) + Before(tuples, i)
<1> DEFINE W == WordBytes
           k == Len(tuples)
           h == Head0(tuples)
<1>1. W \in Nat /\ W # 0 /\ k \in Nat /\ k * W \in Nat /\ h \in Nat /\ h = 2 * W + k * W
  <2>1. W \in Nat /\ W # 0 /\ k \in Nat
    BY WordAssumption
  <2>2. \A m, n \in Nat : m * n \in Nat /\ m + n \in Nat
    OBVIOUS
  <2>3. k * W \in Nat /\ 2 * W \in Nat
    BY <2>1, <2>2
  <2> HIDE DEF k, W
  <2> QED
    BY <2>1, <2>2, <2>3 DEF Head0, k, W
<1>2. /\ R \in Seq(Nat) /\ data \in Seq(Nat) /\ Len(data) \in Nat
      /\ Lies(Word(W), R, 0) /\ Lies(Word(k), R, W)
      /\ \A i \in 1..k : /\ Before(tuples, i) \in Nat
                         /\ Lies(Word(k * W + Before(tuples, i)), R, 2 * W + (i - 1) * W)
                         /\ Lies(tuples[i], R, h + Before(tuples, i))
  BY ArrayLies DEF Cut
<1>3. k <= k * W
  <2>1. \A m, n \in Nat : n # 0 => m <= m * n
    <3> SUFFICES ASSUME NEW m \in Nat, NEW n \in Nat, n # 0
                 PROVE  m <= m * n
      OBVIOUS
    <3>1. m * n = m * (n - 1) + m /\ m * (n - 1) \in Nat
      OBVIOUS
    <3> QED
      BY <3>1
  <2> HIDE DEF k
  <2> QED
    BY <1>1, <2>1
<1>4. Len(R) \in Nat /\ h <= Len(R) /\ h <= Len(data)
  BY <1>1, <1>2 DEF Cut
<1>a. W + W <= h /\ k <= h /\ k * W <= h
  <2>1. \A w, m, x \in Nat : x <= m => w + w <= 2 * w + m /\ x <= 2 * w + m /\ m <= 2 * w + m
    OBVIOUS
  <2> HIDE DEF k, W, h
  <2> QED
    BY <1>1, <1>3, <2>1
<1>5. Holds(W) /\ Holds(k)
  <2>1. W <= Len(R) /\ k <= Len(R)
    <3> HIDE DEF k, W, h
    <3>1. W \in Nat /\ k \in Nat
      BY <1>1
    <3>2. \A w, x, l, m \in Nat : w + w <= l /\ x <= l /\ l <= m => w <= m /\ x <= m
      OBVIOUS
    <3> QED
      BY <1>1, <1>4, <1>a, <3>1, <3>2
  <2> QED
    BY <1>1, <1>4, <2>1, HoldsLess
<1> HIDE DEF k, W, h
<1>b. W \in Nat /\ k \in Nat /\ Len(data) \in Nat
  BY <1>1, <1>2
<1>c. 0 + W <= Len(data) /\ W + W <= Len(data)
  <2>1. \A w, l, m \in Nat : w + w <= l /\ l <= m => 0 + w <= m /\ w + w <= m
    OBVIOUS
  <2> QED
    BY <1>1, <1>4, <1>a, <1>b, <2>1
<1>6. ReadWord(data, 0) = W /\ HasWord(data, 0)
  <2>1. Word(W) \in Seq(Nat) /\ Len(Word(W)) = W
    BY <1>1, WordShape DEF W
  <2>2. 0 + W <= Len(data)
    BY <1>c
  <2>3. Lies(Word(W), data, 0)
    BY <1>2, <2>1, <2>2, LiesCut
  <2> QED
    BY <1>1, <1>2, <1>5, <2>3, ReadWordIs
<1>7. ReadWord(data, W) = k /\ HasWord(data, W)
  <2>1. Word(k) \in Seq(Nat) /\ Len(Word(k)) = W
    BY <1>1, WordShape DEF W
  <2>2. W + W <= Len(data)
    BY <1>c
  <2>3. Lies(Word(k), data, W)
    BY <1>2, <2>1, <2>2, LiesCut
  <2> QED
    BY <1>1, <1>2, <1>5, <2>3, ReadWordIs
<1>8. HeadsAt(data) = 2 * W
  BY <1>1, <1>6 DEF HeadsAt, ArrayAt, W
<1>9. ASSUME NEW i \in 1..k
      PROVE  TupleAt(data, i) = h + Before(tuples, i)
  <2> DEFINE o == k * W + Before(tuples, i)
             p == 2 * W + (i - 1) * W
  <2>1. o \in Nat /\ o <= Len(R)
    <3>1. Before(tuples, i) \in Nat /\ h + Before(tuples, i) + Len(tuples[i]) <= Len(R)
      BY <1>2 DEF Lies
    <3>2. Len(tuples[i]) \in Nat
      BY DEF k
    <3>3. \A m, x, b, l, n \in Nat : m <= x /\ x + b + l <= n => m + b \in Nat /\ m + b <= n
      OBVIOUS
    <3> QED
      BY <1>1, <1>4, <1>a, <3>1, <3>2, <3>3
  <2>2. Holds(o)
    BY <1>4, <2>1, HoldsLess
  <2>3. Word(o) \in Seq(Nat) /\ Len(Word(o)) = W
    BY <2>1, WordShape DEF W
  <2>4. p + W <= Len(data)
    <3>1. (i - 1) * W + W <= k * W
      <4>1. \A m, n, w \in Nat : m + 1 <= n => m * w + w <= n * w
        <5> SUFFICES ASSUME NEW m \in Nat, NEW n \in Nat, NEW w \in Nat, m + 1 <= n
                     PROVE  m * w + w <= n * w
          OBVIOUS
        <5>1. n * w = m * w + w + (n - (m + 1)) * w /\ (n - (m + 1)) * w \in Nat
          OBVIOUS
        <5>2. n * w \in Nat /\ m * w + w \in Nat
          OBVIOUS
        <5> QED
          BY <5>1, <5>2
      <4>2. i - 1 \in Nat /\ (i - 1) + 1 <= k
        BY <1>1
      <4> QED
        BY <1>1, <4>1, <4>2
    <3>2. (i - 1) * W \in Nat
      <4>1. i - 1 \in Nat
        BY <1>1
      <4>2. \A m, n \in Nat : m * n \in Nat
        OBVIOUS
      <4> QED
        BY <1>1, <4>1, <4>2
    <3>3. \A w, m, x, l \in Nat : x + w <= m /\ 2 * w + m <= l => (2 * w + x) + w <= l
      OBVIOUS
    <3> QED
      BY <1>1, <1>4, <1>b, <3>1, <3>2, <3>3
  <2>5. Lies(Word(o), R, p)
    BY <1>2
  <2> HIDE DEF o, p
  <2>6. Lies(Word(o), data, p)
    BY <1>2, <2>3, <2>4, <2>5, LiesCut
  <2>7. ReadWord(data, p) = o
    BY <1>2, <2>1, <2>2, <2>6, ReadWordIs
  <2>8. TupleAt(data, i) = 2 * W + o
    BY <1>8, <2>7 DEF TupleAt, p, W
  <2>9. 2 * W + o = h + Before(tuples, i)
    BY <1>1, <1>2 DEF o
  <2> QED
    BY <2>8, <2>9
<1> QED
  BY <1>6, <1>7, <1>8, <1>9 DEF ArrayAt, LengthOf, W, k, h

(* A number in a tuple is read where the tuple lies, and so are bytes.     *)
LEMMA WordInTuple ==
  ASSUME NEW data \in Seq(Nat), NEW t \in Seq(Nat), NEW p, Lies(t, data, p),
         NEW v \in Nat, Holds(v), NEW b, Lies(Word(v), t, b)
  PROVE  ReadWord(data, p + b) = v /\ HasWord(data, p + b)
<1>1. Word(v) \in Seq(Nat)
  BY WordShape
<1>2. Lies(Word(v), data, p + b)
  BY <1>1, LiesIn
<1> QED
  BY <1>2, ReadWordIs

(* What SubSeq takes. *)
LEMMA SubSeqIs ==
  ASSUME NEW s \in Seq(Nat), NEW a \in Nat, NEW l \in Nat, a + l <= Len(s)
  PROVE  /\ SubSeq(s, a + 1, a + l) \in Seq(Nat) /\ Len(SubSeq(s, a + 1, a + l)) = l
         /\ \A n \in 1..l : SubSeq(s, a + 1, a + l)[n] = s[a + n]
<1> DEFINE sub == SubSeq(s, a + 1, a + l)
<1>1. Len(sub) = l
  OBVIOUS
<1>2. sub \in Seq(Nat)
  OBVIOUS
<1>3. ASSUME NEW n \in 1..l
      PROVE  sub[n] = s[a + n]
  <2>1. n \in 1..((a + l) - (a + 1) + 1)
    OBVIOUS
  <2>2. sub[n] = s[(a + 1) + n - 1]
    BY <2>1
  <2>3. (a + 1) + n - 1 = a + n
    OBVIOUS
  <2> QED
    BY <2>2, <2>3
<1> QED
  BY <1>1, <1>2, <1>3

(* Bytes are read back from where their length and they lie. *)
LEMMA BytesAreRead ==
  ASSUME NEW data \in Seq(Nat), NEW d \in Seq(Nat), Holds(Len(d)), NEW q,
         Lies(Word(Len(d)), data, q), Lies(d, data, q + WordBytes)
  PROVE  HasBytes(data, q) /\ ReadBytes(data, q) = d
<1> DEFINE s == q + WordBytes
           l == Len(d)
<1>1. ReadWord(data, q) = l /\ HasWord(data, q)
  BY ReadWordIs
<1>2. s \in Nat /\ l \in Nat /\ Len(data) \in Nat /\ s + l <= Len(data)
      /\ \A n \in 1..l : data[s + n] = d[n]
  BY DEF Lies
<1>3. SubSeq(data, s + 1, s + l) = d
  <2> DEFINE sub == SubSeq(data, s + 1, s + l)
  <2> HIDE DEF s, l
  <2>1. Len(sub) = l /\ \A n \in 1..l : sub[n] = data[s + n]
    BY <1>2, SubSeqIs
  <2>2. sub \in Seq(Nat)
    BY <1>2, SubSeqIs
  <2> HIDE DEF sub
  <2>3. \A n \in 1..l : sub[n] = d[n]
    BY <1>2, <2>1
  <2>4. sub = d
    BY <2>1, <2>2, <2>3 DEF l
  <2> QED
    BY <2>4 DEF sub
<1>4. q + WordBytes + ReadWord(data, q) <= Len(data)
  BY <1>1, <1>2
<1> QED
  BY <1>1, <1>3, <1>4 DEF HasBytes, ReadBytes

(* What is not longer than a message can be written in a word. *)
LEMMA PlaceHolds ==
  ASSUME NEW R \in Seq(Nat), Holds(Len(R)), NEW t \in Seq(Nat), NEW p, Lies(t, R, p),
         NEW s \in Seq(Nat), NEW b, Lies(s, t, b), NEW n \in Nat, n <= b \/ n <= Len(s)
  PROVE  Holds(n)
<1>1. p \in Nat /\ b \in Nat /\ p + Len(t) <= Len(R) /\ b + Len(s) <= Len(t)
  BY DEF Lies
<1>2. Len(R) \in Nat /\ Len(t) \in Nat /\ Len(s) \in Nat
  OBVIOUS
<1>3. n <= Len(R)
  BY <1>1, <1>2
<1> QED
  BY <1>2, <1>3, HoldsLess

(* The contract receives the calls that were encoded. *)
LEMMA CallsArrive ==
  ASSUME NEW calls \in Seq(Call), \A i \in 1..Len(calls) : Holds(calls[i].target),
         NEW R, R = EncodeAggregate3(calls), Holds(Len(R))
  PROVE  ReceivedCalls(R) = calls
<1> DEFINE W == WordBytes
           k == Len(calls)
           tuples == [i \in 1..k |-> EncodeCall(calls[i])]
<1>1. k \in Nat /\ DOMAIN calls = 1..k /\ W \in Nat /\ W # 0 /\ \A i \in 1..k : calls[i] \in Call
  BY WordAssumption
<1>2. \A i \in 1..k : EncodeCall(calls[i]) \in Seq(Nat)
  BY <1>1, CallLies
<1>3. tuples \in Seq(Seq(Nat)) /\ Len(tuples) = k /\ \A i \in 1..k : tuples[i] = EncodeCall(calls[i])
  <2>1. tuples \in [1..k -> Seq(Nat)]
    BY <1>2
  <2>2. \A i \in 1..k : tuples[i] = EncodeCall(calls[i])
    OBVIOUS
  <2> HIDE DEF tuples
  <2> QED
    BY <1>1, <2>1, <2>2
<1>4. R = EncodeArray(tuples)
  BY <1>1 DEF EncodeAggregate3
<1> HIDE DEF tuples
<1>5. /\ R \in Seq(Nat) /\ Len(R) \in Nat
      /\ \A i \in 1..k : Lies(tuples[i], R, Head0(tuples) + Before(tuples, i))
      /\ Len(R) = Head0(tuples) + Len(Join(tuples))
  BY <1>3, <1>4, ArrayLies
<1>6. Cut(R, R) /\ Head0(tuples) <= Len(R)
  BY <1>3, <1>4, ArrayFits
<1>8. LengthOf(R) = k /\ \A i \in 1..k : TupleAt(R, i) = Head0(tuples) + Before(tuples, i)
  BY <1>3, <1>4, <1>6, ArrayIsRead
<1>9. ASSUME NEW i \in 1..k
      PROVE  [target |-> ReadWord(R, TupleAt(R, i)),
              allowFailure |-> ReadWord(R, TupleAt(R, i) + WordBytes) = 1,
              data |-> ReadBytes(R, Pointed(R, i, 2 * WordBytes))] = calls[i]
  <2> DEFINE c == calls[i]
             t == tuples[i]
             a == TupleAt(R, i)
  <2>1. c \in Call /\ t = EncodeCall(c) /\ t \in Seq(Nat) /\ Lies(t, R, a) /\ a \in Nat
    BY <1>1, <1>2, <1>3, <1>5, <1>8 DEF Lies
  <2>2. /\ Lies(Word(c.target), t, 0) /\ Lies(Word(Flag(c.allowFailure)), t, W)
        /\ Lies(Word(3 * W), t, 2 * W) /\ Lies(Word(Len(c.data)), t, 3 * W)
        /\ Lies(c.data, t, 3 * W + W)
    BY <2>1, CallLies
  <2>3. c.target \in Nat /\ c.allowFailure \in BOOLEAN /\ c.data \in Seq(Nat)
        /\ Len(c.data) \in Nat /\ Flag(c.allowFailure) \in Nat /\ 3 * W \in Nat
    BY <1>1, <2>1 DEF Call, Flag
  <2>4. Holds(c.target)
    OBVIOUS
  <2>5. Word(Len(c.data)) \in Seq(Nat) /\ Word(3 * W) \in Seq(Nat) /\ Len(Word(3 * W)) = W
    BY <2>3, WordShape
  <2> HIDE DEF c, t, a
  <2>6. Holds(3 * W) /\ Holds(Len(c.data)) /\ Holds(Flag(c.allowFailure))
    <3>1. Holds(3 * W)
      BY <1>5, <2>1, <2>2, <2>3, <2>5, PlaceHolds
    <3>2. Holds(Len(c.data))
      BY <1>5, <2>1, <2>2, <2>3, PlaceHolds
    <3>3. Flag(c.allowFailure) <= 3 * W
      BY <1>1 DEF Flag
    <3> QED
      BY <2>3, <3>1, <3>2, <3>3, HoldsLess
  <2>7. ReadWord(R, a + 0) = c.target
    BY <1>5, <2>1, <2>2, <2>3, <2>4, WordInTuple
  <2>8. ReadWord(R, a + W) = Flag(c.allowFailure)
    BY <1>5, <2>1, <2>2, <2>3, <2>6, WordInTuple
  <2>9. ReadWord(R, a + 2 * W) = 3 * W
    BY <1>5, <2>1, <2>2, <2>3, <2>6, WordInTuple
  <2>10. Lies(Word(Len(c.data)), R, a + 3 * W) /\ Lies(c.data, R, a + (3 * W + W))
    BY <1>5, <2>1, <2>2, <2>3, <2>5, LiesIn
  <2>11. a + (3 * W + W) = (a + 3 * W) + W /\ a + 0 = a
    BY <1>1, <2>1
  <2>12. ReadBytes(R, a + 3 * W) = c.data
    BY <1>5, <2>3, <2>6, <2>10, <2>11, BytesAreRead
  <2>13. Pointed(R, i, 2 * W) = a + 3 * W
    BY <2>9 DEF Pointed, a
  <2>14. c.allowFailure = (Flag(c.allowFailure) = 1)
    BY <2>3 DEF Flag
  <2>15. c = [target |-> c.target, allowFailure |-> c.allowFailure, data |-> c.data]
    BY <2>1 DEF Call
  <2> QED
    BY <2>7, <2>8, <2>11, <2>12, <2>13, <2>14, <2>15 DEF a, c, W
<1> QED
  <2>1. ReceivedCalls(R) = [i \in 1..k |-> calls[i]]
    BY <1>8, <1>9 DEF ReceivedCalls
  <2> QED
    BY <1>1, <2>1

ResultTuples(results) == [i \in 1..Len(results) |-> ResultTuple(results[i])]

(* The tuples of the results. *)
LEMMA ResultsLie ==
  ASSUME NEW results \in Seq(CallResult), NEW R, R = Returned(results),
         NEW tuples, tuples = ResultTuples(results)
  PROVE  /\ tuples \in Seq(Seq(Nat)) /\ Len(tuples) = Len(results) /\ R = EncodeArray(tuples)
         /\ \A i \in 1..Len(results) : /\ tuples[i] = ResultTuple(results[i])
                                       /\ tuples[i] \in Seq(Nat) /\ results[i] \in CallResult
<1> DEFINE k == Len(results)
<1>1. k \in Nat /\ DOMAIN results = 1..k /\ \A i \in 1..k : results[i] \in CallResult
  OBVIOUS
<1>2. \A i \in 1..k : ResultTuple(results[i]) \in Seq(Nat)
  BY <1>1, ResultLies
<1>3. tuples \in [1..k -> Seq(Nat)] /\ \A i \in 1..k : tuples[i] = ResultTuple(results[i])
  BY <1>2 DEF ResultTuples
<1>4. tuples \in Seq(Seq(Nat)) /\ Len(tuples) = k
  BY <1>1, <1>3
<1>5. R = EncodeArray(tuples)
  BY <1>1 DEF Returned, ResultTuples, ResultTuple, Flag
<1> QED
  BY <1>1, <1>2, <1>3, <1>4, <1>5

(* The results that were returned are decoded. *)
LEMMA ResultsArrive ==
  ASSUME NEW results \in Seq(CallResult), NEW R, R = Returned(results), Holds(Len(R))
  PROVE  DecodeAggregate3(R) = results
<1> DEFINE W == WordBytes
           k == Len(results)
           tuples == ResultTuples(results)
<1>1. k \in Nat /\ DOMAIN results = 1..k /\ W \in Nat
  BY WordAssumption
<1>2. /\ tuples \in Seq(Seq(Nat)) /\ Len(tuples) = k /\ R = EncodeArray(tuples)
      /\ \A i \in 1..k : /\ tuples[i] = ResultTuple(results[i])
                         /\ tuples[i] \in Seq(Nat) /\ results[i] \in CallResult
  BY ResultsLie
<1> HIDE DEF tuples
<1>3. /\ R \in Seq(Nat) /\ Len(R) \in Nat
      /\ \A i \in 1..k : Lies(tuples[i], R, Head0(tuples) + Before(tuples, i))
  BY <1>2, ArrayLies
<1>4. Cut(R, R) /\ Head0(tuples) <= Len(R)
  BY <1>2, ArrayFits
<1>5. LengthOf(R) = k /\ \A i \in 1..k : TupleAt(R, i) = Head0(tuples) + Before(tuples, i)
  BY <1>2, <1>4, ArrayIsRead
<1>6. ASSUME NEW i \in 1..k
      PROVE  [success |-> ReadWord(R, TupleAt(R, i)) = 1,
              data |-> ReadBytes(R, Pointed(R, i, WordBytes))] = results[i]
  <2> DEFINE r == results[i]
             t == tuples[i]
             a == TupleAt(R, i)
  <2>1. r \in CallResult /\ t = ResultTuple(r) /\ t \in Seq(Nat) /\ Lies(t, R, a) /\ a \in Nat
    BY <1>2, <1>3, <1>5 DEF Lies
  <2>2. /\ Lies(Word(Flag(r.success)), t, 0) /\ Lies(Word(2 * W), t, W)
        /\ Lies(Word(Len(r.data)), t, 2 * W) /\ Lies(r.data, t, 2 * W + W)
    BY <2>1, ResultLies
  <2>3. r.success \in BOOLEAN /\ r.data \in Seq(Nat)
        /\ Len(r.data) \in Nat /\ Flag(r.success) \in Nat /\ 2 * W \in Nat
    BY <1>1, <2>1 DEF CallResult, Flag
  <2>4. Word(Len(r.data)) \in Seq(Nat)
    BY <2>3, WordShape
  <2> HIDE DEF r, t, a
  <2>5. Holds(2 * W) /\ Holds(Len(r.data)) /\ Holds(Flag(r.success))
    <3>1. Holds(2 * W)
      BY <1>3, <2>1, <2>2, <2>3, <2>4, PlaceHolds
    <3>2. Holds(Len(r.data))
      BY <1>3, <2>1, <2>2, <2>3, PlaceHolds
    <3>3. Flag(r.success) <= 2 * W
      BY WordAssumption DEF Flag
    <3> QED
      BY <2>3, <3>1, <3>2, <3>3, HoldsLess
  <2>6. ReadWord(R, a + 0) = Flag(r.success)
    BY <1>3, <2>1, <2>2, <2>3, <2>5, WordInTuple
  <2>7. ReadWord(R, a + W) = 2 * W
    BY <1>3, <2>1, <2>2, <2>3, <2>5, WordInTuple
  <2>8. Lies(Word(Len(r.data)), R, a + 2 * W) /\ Lies(r.data, R, a + (2 * W + W))
    BY <1>3, <2>1, <2>2, <2>3, <2>4, LiesIn
  <2>9. a + (2 * W + W) = (a + 2 * W) + W /\ a + 0 = a
    BY <1>1, <2>1
  <2>10. ReadBytes(R, a + 2 * W) = r.data
    BY <1>3, <2>3, <2>5, <2>8, <2>9, BytesAreRead
  <2>11. Pointed(R, i, W) = a + 2 * W
    BY <2>7 DEF Pointed, a
  <2>12. r.success = (Flag(r.success) = 1)
    BY <2>3 DEF Flag
  <2>13. r = [success |-> r.success, data |-> r.data]
    BY <2>1 DEF CallResult
  <2> QED
    BY <2>6, <2>9, <2>10, <2>11, <2>12, <2>13 DEF a, r, W
<1> QED
  <2>1. DecodeAggregate3(R) = [i \in 1..k |-> results[i]]
    BY <1>5, <1>6 DEF DecodeAggregate3
  <2> QED
    BY <1>1, <2>1

(* Without the last word, the bytes of the last result reach beyond the    *)
(* end: the data does not decode.                                          *)
LEMMA CutFails ==
  ASSUME NEW results \in Seq(CallResult), results # <<>>,
         Len(results[Len(results)].data) = WordBytes,
         NEW R, R = Returned(results), Holds(Len(R)),
         NEW data, data = SubSeq(R, 1, Len(R) - WordBytes)
  PROVE  ~Decodes(data)
<1> DEFINE W == WordBytes
           k == Len(results)
           tuples == ResultTuples(results)
           r == results[k]
           t == tuples[k]
           a == Head0(tuples) + Before(tuples, k)
<1>1. k \in 1..k /\ k \in Nat /\ W \in Nat /\ W # 0 /\ 2 * W \in Nat
  BY WordAssumption
<1>2. /\ tuples \in Seq(Seq(Nat)) /\ Len(tuples) = k /\ R = EncodeArray(tuples)
      /\ t = ResultTuple(r) /\ r \in CallResult
  BY <1>1, ResultsLie
<1>3. /\ t \in Seq(Nat) /\ Lies(Word(2 * W), t, W) /\ Lies(Word(W), t, 2 * W)
      /\ Len(t) \in Nat /\ 4 * W <= Len(t) /\ Len(t) < 5 * W
  <2>1. /\ t \in Seq(Nat) /\ Lies(Word(2 * W), t, W) /\ Lies(Word(Len(r.data)), t, 2 * W)
        /\ 3 * W + Len(r.data) <= Len(t) /\ Len(t) < 4 * W + Len(r.data)
    BY <1>2, ResultLies
  <2>2. Len(r.data) = W /\ 3 * W + W = 4 * W /\ 4 * W + W = 5 * W
    BY <1>1
  <2> QED
    BY <2>1, <2>2
<1> HIDE DEF tuples, t, r, k
<1>4. /\ R \in Seq(Nat) /\ Len(R) \in Nat /\ Lies(t, R, a) /\ a \in Nat
      /\ Head0(tuples) \in Nat /\ Before(tuples, k) \in Nat
      /\ Len(R) = Head0(tuples) + Len(Join(tuples))
  <2>1. /\ R \in Seq(Nat) /\ Lies(t, R, a) /\ Before(tuples, k) \in Nat
        /\ Len(R) = Head0(tuples) + Len(Join(tuples))
    BY <1>1, <1>2, ArrayLies DEF t
  <2>2. Head0(tuples) \in Nat
    BY <1>2, ArrayFits
  <2> QED
    BY <2>1, <2>2
<1>5. Len(R) = a + Len(t)
  <2>1. Joining(tuples) \in [0..k -> Seq(Nat)] /\ Joining(tuples)[k] = Joining(tuples)[k - 1] \o t
    BY <1>1, <1>2, JoiningStep DEF t
  <2>2. k - 1 \in 0..k
    BY <1>1
  <2>3. Joining(tuples)[k - 1] \in Seq(Nat)
    BY <2>1, <2>2
  <2>4. Len(Join(tuples)) = Before(tuples, k) + Len(t)
    BY <1>2, <1>3, <2>1, <2>3, LiesJoined DEF Join, Before
  <2>5. Len(t) \in Nat
    BY <1>3
  <2> QED
    BY <1>4, <2>4, <2>5
<1>0. a \in Nat /\ Len(t) \in Nat /\ W \in Nat /\ W # 0 /\ 4 * W <= Len(t) /\ Len(t) < 5 * W
  BY <1>1, <1>3, <1>4
<1>6. /\ Len(data) \in Nat /\ Len(data) = (a + Len(t)) - W /\ Cut(data, R)
      /\ Head0(tuples) <= Len(data)
  <2> DEFINE n == Len(R) - W
  <2>1. n \in Nat /\ n <= Len(R) /\ n = (a + Len(t)) - W /\ a <= n
    <3> HIDE DEF a, W
    <3>1. (a + Len(t)) - W \in Nat /\ (a + Len(t)) - W <= a + Len(t) /\ a <= (a + Len(t)) - W
      BY ONLY <1>0
    <3> QED
      BY <1>5, <3>1
  <2> HIDE DEF n
  <2>2. data = SubSeq(R, 1, n)
    BY DEF n
  <2>3. data \in Seq(Nat) /\ Len(data) = n /\ \A j \in 1..n : data[j] = R[j]
    <3>1. 0 + n <= Len(R) /\ data = SubSeq(R, 0 + 1, 0 + n)
      BY <2>1, <2>2
    <3>2. R \in Seq(Nat) /\ 0 \in Nat /\ n \in Nat
      BY <1>4, <2>1
    <3>3. /\ SubSeq(R, 0 + 1, 0 + n) \in Seq(Nat) /\ Len(SubSeq(R, 0 + 1, 0 + n)) = n
          /\ \A j \in 1..n : SubSeq(R, 0 + 1, 0 + n)[j] = R[0 + j]
      BY ONLY <3>1, <3>2, SubSeqIs
    <3>4. \A j \in 1..n : 0 + j = j
      BY <3>2
    <3> QED
      BY <3>1, <3>3, <3>4
  <2>4. Head0(tuples) <= Len(data)
    <3>1. \A x, y, z \in Nat : x + y <= z => x <= z
      OBVIOUS
    <3> QED
      BY <1>4, <2>1, <2>3, <3>1
  <2> HIDE DEF a
  <2> QED
    BY <1>4, <2>1, <2>3, <2>4 DEF Cut
<1> HIDE DEF a
<1>t. /\ (a + W) + W <= Len(data) /\ (a + 2 * W) + W <= Len(data)
      /\ ~((a + 2 * W) + W + W <= Len(data))
  <2>1. Len(data) = (a + Len(t)) - W
    BY <1>6
  <2> HIDE DEF W
  <2> QED
    BY ONLY <1>0, <2>1
<1>7. LengthOf(data) = k /\ TupleAt(data, k) = a
  BY <1>1, <1>2, <1>6, ArrayIsRead DEF a
<1>8. data \in Seq(Nat)
  BY <1>6 DEF Cut
<1>9. Word(2 * W) \in Seq(Nat) /\ Len(Word(2 * W)) = W /\ Word(W) \in Seq(Nat) /\ Len(Word(W)) = W
  BY <1>1, WordShape
<1>10. Holds(2 * W) /\ Holds(W)
  <2>1. 2 * W <= 2 * W /\ W <= W
    BY <1>1
  <2> QED
    BY <1>1, <1>3, <1>4, <1>9, <2>1, PlaceHolds
<1>11. ReadWord(data, a + W) = 2 * W
  <2>1. Lies(Word(2 * W), R, a + W)
    BY <1>3, <1>4, <1>9, LiesIn
  <2>2. (a + W) + W <= Len(data)
    BY <1>t
  <2>3. Lies(Word(2 * W), data, a + W)
    BY <1>4, <1>6, <1>9, <2>1, <2>2, LiesCut
  <2> QED
    BY <1>1, <1>8, <1>10, <2>3, ReadWordIs
<1>12. ReadWord(data, a + 2 * W) = W
  <2>1. Lies(Word(W), R, a + 2 * W)
    BY <1>3, <1>4, <1>9, LiesIn
  <2>2. (a + 2 * W) + W <= Len(data)
    BY <1>t
  <2>3. Lies(Word(W), data, a + 2 * W)
    BY <1>4, <1>6, <1>9, <2>1, <2>2, LiesCut
  <2> QED
    BY <1>1, <1>8, <1>10, <2>3, ReadWordIs
<1>13. Pointed(data, k, W) = a + 2 * W
  BY <1>7, <1>11 DEF Pointed
<1>14. ~HasBytes(data, a + 2 * W)
  <2> QED
    BY <1>12, <1>t DEF HasBytes, W
<1> QED
  BY <1>1, <1>7, <1>13, <1>14 DEF Decodes, W

(* How long calls and results are. *)
LEMMA TupleLengths ==
  ASSUME NEW call \in Call, NEW r \in CallResult
  PROVE  /\ Len(EncodeCall(call)) = 3 * WordBytes + Len(EncodeBytes(call.data))
         /\ Len(ResultTuple(r)) = 2 * WordBytes + Len(EncodeBytes(r.data))
<1> DEFINE W == WordBytes
           A == Word(call.target)
           B == Word(Flag(call.allowFailure))
           C == Word(3 * W)
           E == EncodeBytes(call.data)
           F == Word(Flag(r.success))
           G == Word(2 * W)
           H == EncodeBytes(r.data)
<1>1. W \in Nat /\ 3 * W \in Nat /\ 2 * W \in Nat /\ call.target \in Nat
      /\ Flag(call.allowFailure) \in Nat /\ Flag(r.success) \in Nat
      /\ call.data \in Seq(Nat) /\ r.data \in Seq(Nat)
  BY WordAssumption DEF Call, CallResult, Flag
<1>2. /\ A \in Seq(Nat) /\ Len(A) = W /\ B \in Seq(Nat) /\ Len(B) = W
      /\ C \in Seq(Nat) /\ Len(C) = W /\ F \in Seq(Nat) /\ Len(F) = W
      /\ G \in Seq(Nat) /\ Len(G) = W
  BY <1>1, WordShape
<1>3. E \in Seq(Nat) /\ H \in Seq(Nat)
  BY <1>1, BytesLie
<1>4. EncodeCall(call) = ((A \o B) \o C) \o E /\ ResultTuple(r) = (F \o G) \o H
  BY DEF EncodeCall, ResultTuple, Flag
<1> HIDE DEF A, B, C, E, F, G, H, W
<1>5. A \o B \in Seq(Nat) /\ Len(A \o B) = W + W /\ F \o G \in Seq(Nat) /\ Len(F \o G) = W + W
  <2>1. A \o B \in Seq(Nat) /\ Len(A \o B) = Len(A) + Len(B)
    BY ONLY <1>2, LiesJoined
  <2>2. F \o G \in Seq(Nat) /\ Len(F \o G) = Len(F) + Len(G)
    BY ONLY <1>2, LiesJoined
  <2> QED
    BY <1>2, <2>1, <2>2
<1>6. (A \o B) \o C \in Seq(Nat) /\ Len((A \o B) \o C) = (W + W) + W
  <2>1. (A \o B) \o C \in Seq(Nat) /\ Len((A \o B) \o C) = Len(A \o B) + Len(C)
    BY ONLY <1>2, <1>5, LiesJoined
  <2> QED
    BY <1>2, <1>5, <2>1
<1>7. Len(EncodeCall(call)) = ((W + W) + W) + Len(E) /\ Len(ResultTuple(r)) = (W + W) + Len(H)
  <2>1. Len(((A \o B) \o C) \o E) = Len((A \o B) \o C) + Len(E)
    BY ONLY <1>3, <1>6, LiesJoined
  <2>2. Len((F \o G) \o H) = Len(F \o G) + Len(H)
    BY ONLY <1>3, <1>5, LiesJoined
  <2> QED
    BY <1>4, <1>5, <1>6, <2>1, <2>2
<1>8. (W + W) + W = 3 * W /\ W + W = 2 * W
  BY <1>1
<1> QED
  BY <1>7, <1>8 DEF E, H, W

(* A word needs no padding. *)
LEMMA BytesOfWord ==
  ASSUME NEW v \in Nat
  PROVE  Len(EncodeBytes(Word(v))) = 2 * WordBytes
<1> DEFINE W == WordBytes
           d == Word(v)
           z == [i \in 1..((W - (Len(d) % W)) % W) |-> 0]
<1>1. W \in Nat /\ W # 0
  BY WordAssumption
<1>2. d \in Seq(Nat) /\ Len(d) = W
  BY WordShape
<1>3. W % W = 0
  BY <1>1
<1>4. z = <<>>
  <2>1. W - (Len(d) % W) = W
    BY <1>1, <1>2, <1>3
  <2>2. (W - (Len(d) % W)) % W = 0
    BY <1>3, <2>1
  <2> QED
    BY <2>2
<1>5. EncodeBytes(d) = Word(Len(d)) \o (d \o z)
  BY DEF EncodeBytes, Padded
<1> HIDE DEF z, d
<1>6. Word(Len(d)) \in Seq(Nat) /\ Len(Word(Len(d))) = W
  BY <1>1, <1>2, WordShape
<1>7. d \o z \in Seq(Nat) /\ Len(d \o z) = W
  BY <1>1, <1>2, <1>4
<1>8. Len(EncodeBytes(d)) = W + W
  BY <1>5, <1>6, <1>7, LiesJoined
<1> QED
  BY <1>1, <1>8 DEF d

(* Of sequences that are not longer, neither is what they are joined to. *)
LEMMA JoinedShorter ==
  ASSUME NEW a \in Seq(Seq(Nat)), NEW b \in Seq(Seq(Nat)), Len(a) = Len(b),
         \A i \in 1..Len(a) : Len(a[i]) <= Len(b[i])
  PROVE  Len(Join(a)) <= Len(Join(b))
<1> DEFINE N == Len(a)
           p == Joining(a)
           q == Joining(b)
           T == {n \in 0..N : Len(p[n]) <= Len(q[n])}
<1>0. N \in Nat /\ \A n \in 1..N : a[n] \in Seq(Nat) /\ b[n] \in Seq(Nat)
  OBVIOUS
<1>1. /\ p \in [0..N -> Seq(Nat)] /\ p[0] = <<>> /\ \A n \in 1..N : p[n] = p[n - 1] \o a[n]
      /\ q \in [0..N -> Seq(Nat)] /\ q[0] = <<>> /\ \A n \in 1..N : q[n] = q[n - 1] \o b[n]
  BY JoiningStep
<1> HIDE DEF p, q
<1>2. 0 \in T
  BY <1>0, <1>1
<1>3. \A n \in 0..N - 1 : n \in T => n + 1 \in T
  <2> SUFFICES ASSUME NEW n \in 0..N - 1, Len(p[n]) <= Len(q[n])
               PROVE  Len(p[n + 1]) <= Len(q[n + 1])
    BY <1>0
  <2>1. n + 1 \in 1..N /\ n \in 0..N /\ (n + 1) - 1 = n
    BY <1>0
  <2>2. /\ p[n] \in Seq(Nat) /\ a[n + 1] \in Seq(Nat) /\ p[n + 1] = p[n] \o a[n + 1]
        /\ q[n] \in Seq(Nat) /\ b[n + 1] \in Seq(Nat) /\ q[n + 1] = q[n] \o b[n + 1]
        /\ Len(a[n + 1]) <= Len(b[n + 1])
    BY <1>0, <1>1, <2>1
  <2>3. Len(p[n + 1]) = Len(p[n]) + Len(a[n + 1]) /\ Len(q[n + 1]) = Len(q[n]) + Len(b[n + 1])
    BY <2>2, LiesJoined
  <2>4. Len(p[n]) \in Nat /\ Len(q[n]) \in Nat /\ Len(a[n + 1]) \in Nat /\ Len(b[n + 1]) \in Nat
    BY <2>2
  <2>5. \A w, x, y, z \in Nat : w <= x /\ y <= z => w + y <= x + z
    OBVIOUS
  <2>6. Len(a[n + 1]) <= Len(b[n + 1]) /\ Len(p[n]) <= Len(q[n])
    BY <2>2
  <2>7. Len(p[n]) + Len(a[n + 1]) <= Len(q[n]) + Len(b[n + 1])
    BY ONLY <2>4, <2>5, <2>6
  <2> QED
    BY ONLY <2>3, <2>7
<1>4. \A n \in 0..N : n \in T
  <2> HIDE DEF T, N
  <2> QED
    BY <1>0, <1>2, <1>3, ByCounting
<1>5. N \in 0..N
  BY <1>0
<1> QED
  BY <1>4, <1>5 DEF Join, p, q

-----------------------------------------------------------------------------
(* The answers of multicall. *)

(* A group of reads and the calls made of it. *)
Group(reads) == reads \in Seq(Caller) /\ Len(reads) \in 1..Cardinality(Caller)

(* The calls of a group: those of its reads, and the one for the block. *)
LEMMA CallsOfGroup ==
  ASSUME NEW reads, Group(reads), NEW calls, calls = CallsOf(reads)
  PROVE  /\ calls \in Seq(Call) /\ Len(calls) = Len(reads) + 1
         /\ \A i \in 1..Len(calls) : Holds(calls[i].target)
         /\ \A i \in 1..Len(reads) : calls[i].data = Transaction[reads[i]] /\ calls[i].target # 0
         /\ calls[Len(calls)].target = 0 /\ calls[Len(calls)].data = <<>>
         /\ Holds(Len(Aggregate(reads)))
<1> DEFINE n == Len(reads)
           first == [i \in 1..n |->
                       [target |-> Target, allowFailure |-> TRUE, data |-> Transaction[reads[i]]]]
           last == [target |-> 0, allowFailure |-> FALSE, data |-> <<>>]
<1>1. n \in Nat /\ DOMAIN reads = 1..n /\ \A i \in 1..n : reads[i] \in Caller
  BY DEF Group
<1>2. calls = Append(first, last)
  BY <1>1 DEF CallsOf
<1>3. Holds(Target) /\ Target \in Nat /\ Target # 0
  BY NumbersAssumption
<1>4. \A i \in 1..n : first[i] \in Call
  <2> SUFFICES ASSUME NEW i \in 1..n
               PROVE  first[i] \in Call
    OBVIOUS
  <2>1. Transaction[reads[i]] \in Seq(Nat)
    BY <1>1, TransactionAssumption
  <2> QED
    BY <1>3, <2>1 DEF Call
<1>5. last \in Call
  BY DEF Call
<1>6. first \in Seq(Call) /\ Len(first) = n
  <2>1. first \in [1..n -> Call]
    BY <1>4
  <2> HIDE DEF first
  <2> QED
    BY <1>1, <2>1
<1>7. /\ calls \in Seq(Call) /\ Len(calls) = n + 1 /\ calls[n + 1] = last
      /\ \A i \in 1..n : calls[i] = first[i]
  <2> HIDE DEF first, last
  <2> QED
    BY <1>1, <1>2, <1>5, <1>6
<1>8. Holds(0)
  BY <1>3, HoldsLess
<1>9. \A i \in 1..n : calls[i].target = Target /\ calls[i].data = Transaction[reads[i]]
  <2>1. \A i \in 1..n : first[i].target = Target /\ first[i].data = Transaction[reads[i]]
    OBVIOUS
  <2> QED
    BY <1>7, <2>1
<1>10. calls[n + 1].target = 0 /\ calls[n + 1].data = <<>>
  BY <1>7
<1>11. \A i \in 1..n + 1 : i \in 1..n \/ i = n + 1
  BY <1>1
<1>12. Holds(Len(Aggregate(reads)))
  <2>1. n \in 1..Cardinality(Caller) /\ reads \in [1..n -> Caller]
    BY DEF Group
  <2> HIDE DEF n
  <2> QED
    BY <2>1, NumbersAssumption
<1> QED
  <2> HIDE DEF first, last, n
  <2>1. \A i \in 1..n + 1 : Holds(calls[i].target)
    BY <1>3, <1>8, <1>9, <1>10, <1>11
  <2> QED
    BY <1>7, <1>3, <1>9, <1>10, <1>12, <2>1 DEF n

(* What the contract returns for such calls.                               *)
ResultsOf(calls, block, reverted) ==
  [i \in DOMAIN calls |->
     IF calls[i].target = 0 THEN [success |-> TRUE, data |-> Word(block)]
     ELSE [success |-> i \notin reverted, data |-> calls[i].data]]

(* The results for such calls have the data of the reads, then the block. *)
LEMMA ResponseIs ==
  ASSUME NEW reads, Group(reads), NEW calls, calls = CallsOf(reads),
         NEW block \in Nat, NEW reverted,
         NEW results, results = ResultsOf(calls, block, reverted)
  PROVE  /\ results \in Seq(CallResult) /\ Len(results) = Len(reads) + 1
         /\ Len(results) = Len(calls)
         /\ \A i \in 1..Len(reads) : results[i].data = Transaction[reads[i]]
         /\ results[Len(results)] = [success |-> TRUE, data |-> Word(block)]
<1> DEFINE n == Len(reads)
<1>1. n \in Nat
  BY DEF Group
<1>2. /\ calls \in Seq(Call) /\ Len(calls) = n + 1
      /\ \A i \in 1..n : calls[i].data = Transaction[reads[i]] /\ calls[i].target # 0
      /\ calls[n + 1].target = 0
  BY CallsOfGroup
<1> HIDE DEF n
<1> USE DEF ResultsOf
<1>3. DOMAIN calls = 1..n + 1 /\ \A i \in 1..n + 1 : calls[i] \in Call
  BY <1>2
<1>4. Word(block) \in Seq(Nat)
  BY WordShape
<1>5. \A i \in 1..n + 1 : results[i] \in CallResult
  BY <1>3, <1>4 DEF Call, CallResult
<1>6. results \in [1..n + 1 -> CallResult]
  BY <1>3, <1>5
<1>7. results \in Seq(CallResult) /\ Len(results) = n + 1
  <2>1. n + 1 \in Nat
    BY <1>1
  <2>2. \A m \in Nat : \A f \in [1..m -> CallResult] : f \in Seq(CallResult) /\ Len(f) = m
    OBVIOUS
  <2> QED
    BY ONLY <1>6, <2>1, <2>2
<1>8. \A i \in 1..n : i \in 1..n + 1
  BY <1>1
<1>9. \A i \in 1..n : results[i].data = Transaction[reads[i]]
  BY <1>2, <1>3, <1>8
<1>10. n + 1 \in 1..n + 1
  BY <1>1
<1>11. results[n + 1] = [success |-> TRUE, data |-> Word(block)]
  BY <1>2, <1>3, <1>10
<1> QED
  BY <1>2, <1>7, <1>9, <1>11 DEF n

(* It is not longer than what was sent: its length fits into a word, too.  *)
LEMMA ResponseHolds ==
  ASSUME NEW reads, Group(reads), NEW calls, calls = CallsOf(reads),
         NEW results \in Seq(CallResult), Len(results) = Len(calls),
         \A i \in 1..Len(reads) : results[i].data = Transaction[reads[i]],
         NEW block \in Nat, results[Len(results)].data = Word(block),
         NEW R, R = Returned(results)
  PROVE  Holds(Len(R))
<1> DEFINE n == Len(reads)
           W == WordBytes
           a == ResultTuples(results)
           b == [i \in 1..n + 1 |-> EncodeCall(calls[i])]
           sent == EncodeAggregate3(calls)
<1>1. n \in Nat /\ W \in Nat
  BY WordAssumption DEF Group
<1>2. /\ calls \in Seq(Call) /\ Len(calls) = n + 1
      /\ \A i \in 1..n : calls[i].data = Transaction[reads[i]]
      /\ calls[n + 1].data = <<>>
      /\ Holds(Len(sent))
  BY CallsOfGroup DEF Aggregate
<1>3. DOMAIN calls = 1..n + 1 /\ \A i \in 1..n + 1 : calls[i] \in Call
  BY <1>2
<1>4. /\ a \in Seq(Seq(Nat)) /\ Len(a) = n + 1 /\ R = EncodeArray(a)
      /\ \A i \in 1..n + 1 : a[i] = ResultTuple(results[i]) /\ results[i] \in CallResult
  BY <1>2, ResultsLie
<1>5. b \in Seq(Seq(Nat)) /\ Len(b) = n + 1 /\ sent = EncodeArray(b)
  <2>1. \A i \in 1..n + 1 : EncodeCall(calls[i]) \in Seq(Nat)
    BY <1>3, CallLies
  <2>2. b \in [1..n + 1 -> Seq(Nat)]
    BY <2>1
  <2>3. sent = EncodeArray(b)
    BY <1>3 DEF EncodeAggregate3
  <2> HIDE DEF b
  <2> QED
    BY <1>1, <2>2, <2>3
<1> HIDE DEF n, a, W
<1>6. ASSUME NEW i \in 1..n + 1
      PROVE  Len(a[i]) <= Len(b[i])
  <2> DEFINE D == EncodeBytes(calls[i].data)
             E == EncodeBytes(results[i].data)
  <2>1. Len(a[i]) = 2 * W + Len(E) /\ Len(b[i]) = 3 * W + Len(D)
    BY <1>3, <1>4, TupleLengths DEF W
  <2>2. calls[i].data \in Seq(Nat) /\ results[i].data \in Seq(Nat)
    BY <1>3, <1>4 DEF Call, CallResult
  <2>3. D \in Seq(Nat) /\ E \in Seq(Nat) /\ W + Len(calls[i].data) <= Len(D)
    BY <2>2, BytesLie DEF W
  <2>4. Len(D) \in Nat /\ Len(E) \in Nat /\ Len(calls[i].data) \in Nat
    BY <2>2, <2>3
  <2> HIDE DEF D, E
  <2>5. Len(E) <= W + Len(D)
    <3>1. CASE i \in 1..n
      <4>1. E = D
        BY <1>2, <3>1 DEF D, E, n
      <4> QED
        BY ONLY <1>1, <2>4, <4>1
    <3>2. CASE i = n + 1
      <4>1. Len(results) = n + 1 /\ results[n + 1].data = Word(block)
        BY <1>2
      <4>2. Len(E) = 2 * W
        BY <3>2, <4>1, BytesOfWord DEF E, W
      <4>3. W <= Len(D)
        BY ONLY <1>1, <2>3, <2>4
      <4> QED
        BY ONLY <1>1, <2>4, <4>2, <4>3
    <3> QED
      BY <1>1, <3>1, <3>2
  <2> QED
    BY ONLY <1>1, <2>1, <2>4, <2>5
<1> HIDE DEF b
<1>7. Len(Join(a)) <= Len(Join(b))
  BY <1>4, <1>5, <1>6, JoinedShorter
<1>8. Len(R) = Head0(a) + Len(Join(a)) /\ Len(sent) = Head0(b) + Len(Join(b)) /\ Head0(a) = Head0(b)
  BY <1>4, <1>5, ArrayLies DEF Head0
<1>9. R \in Seq(Nat) /\ sent \in Seq(Nat)
  BY <1>4, <1>5, ArrayLies
<1>10. Head0(a) \in Nat /\ Len(Join(a)) \in Nat /\ Len(Join(b)) \in Nat
  BY <1>4, <1>5, ArrayFits, JoinedLength
<1> HIDE DEF sent
<1>11. Len(R) <= Len(sent) /\ Len(R) \in Nat /\ Len(sent) \in Nat
  <2>1. Head0(a) + Len(Join(a)) <= Head0(a) + Len(Join(b))
    BY ONLY <1>7, <1>10
  <2> QED
    BY <1>8, <1>9, <2>1
<1> QED
  BY <1>2, <1>11, HoldsLess

(* The block that a word names. *)
LEMMA WordTells ==
  ASSUME NEW u \in Nat, NEW v \in Nat, Holds(u), Holds(v), Word(u) = Word(v)
  PROVE  u = v
<1> DEFINE w == Word(u)
<1>1. w \in Seq(Nat) /\ Len(w) = WordBytes
  BY WordShape
<1>2. WordBytes \in Nat
  BY WordAssumption
<1> HIDE DEF w
<1>3. Lies(w, w, 0)
  BY <1>1, <1>2 DEF Lies
<1>4. ReadWord(w, 0) = u /\ ReadWord(w, 0) = v
  BY <1>1, <1>3, ReadWordIs DEF w
<1> QED
  BY <1>4

(* The reads have the data that their own calls were returned. *)
Fetched(reads, results) == \A i \in 1..Len(reads) : results[i].data = Transaction[reads[i]]

(* What decodes and verifies was computed at the block that was asked for, *)
(* and each read has the data that was returned to its own call.           *)
LEMMA VerifiedAnswers ==
  ASSUME NEW reads, Group(reads), NEW block, block \in {BlockAsked, BlockAsked + 1}, NEW reverted,
         NEW arrived, arrived \in Arrivals(Response(ReceivedCalls(Aggregate(reads)), block, reverted)),
         NEW results, results = DecodeAggregate3(arrived), Decodes(arrived),
         Len(results) = Len(reads) + 1,
         results[Len(results)] = [success |-> TRUE, data |-> Word(BlockAsked)]
  PROVE  block = BlockAsked /\ Fetched(reads, results)
<1> DEFINE calls == ReceivedCalls(Aggregate(reads))
           returned == ResultsOf(calls, block, reverted)
           R == Returned(returned)
<1>1. calls = CallsOf(reads)
  <2>1. /\ CallsOf(reads) \in Seq(Call)
        /\ \A i \in 1..Len(CallsOf(reads)) : Holds(CallsOf(reads)[i].target)
        /\ Holds(Len(EncodeAggregate3(CallsOf(reads))))
    BY CallsOfGroup DEF Aggregate
  <2> QED
    BY <2>1, CallsArrive DEF Aggregate
<1>2. block \in Nat /\ BlockAsked \in Nat /\ Holds(block) /\ Holds(BlockAsked)
  <2>1. BlockAsked \in Nat /\ BlockAsked + 1 \in Nat /\ Holds(BlockAsked + 1)
        /\ BlockAsked <= BlockAsked + 1
    BY NumbersAssumption
  <2>2. Holds(BlockAsked)
    BY <2>1, HoldsLess
  <2> QED
    BY <2>1, <2>2
<1>3. R = Response(calls, block, reverted)
  BY DEF Response, ResultsOf
<1>4. /\ returned \in Seq(CallResult) /\ Len(returned) = Len(calls)
      /\ Len(returned) = Len(reads) + 1
      /\ \A i \in 1..Len(reads) : returned[i].data = Transaction[reads[i]]
      /\ returned[Len(returned)] = [success |-> TRUE, data |-> Word(block)]
  BY <1>1, <1>2, ResponseIs
<1> HIDE DEF returned
<1>5. Holds(Len(R))
  <2>1. returned[Len(returned)].data = Word(block)
    BY <1>4
  <2> QED
    BY <1>1, <1>2, <1>4, <2>1, ResponseHolds
<1>6. arrived # <<>>
  <2>1. ~HasWord(<<>>, 0)
    BY WordAssumption DEF HasWord
  <2> QED
    BY <2>1 DEF Decodes
<1>7. arrived # SubSeq(R, 1, Len(R) - WordBytes)
  <2>1. returned # <<>>
    <3>1. Len(reads) \in Nat
      BY DEF Group
    <3> QED
      BY <1>4, <3>1
  <2>2. Len(returned[Len(returned)].data) = WordBytes
    BY <1>2, <1>4, WordShape
  <2> QED
    BY <1>4, <1>5, <2>1, <2>2, CutFails
<1>8. arrived = R
  BY <1>3, <1>6, <1>7 DEF Arrivals
<1>9. results = returned
  BY <1>4, <1>5, <1>8, ResultsArrive
<1>10. Word(block) = Word(BlockAsked)
  BY <1>4, <1>9
<1>11. block = BlockAsked
  BY <1>2, <1>10, WordTells
<1> QED
  BY <1>4, <1>9, <1>11 DEF Fetched

(* Each of the entries S has an equal read in the one group of the pieces. *)
Represented(pieces, S) ==
  pieces # <<>> =>
    /\ pieces = <<pieces[1]>> /\ Group(pieces[1])
    /\ \A c \in S : \E i \in DOMAIN pieces[1] : Transaction[pieces[1][i]] = Transaction[c]

MulticallAnswers ==
  /\ \A c \in Caller : /\ answer[c].kind # "elsewhere"
                       /\ answer[c].kind = "value" => Transaction[answer[c].of] = Transaction[c]
  /\ Represented(todo, active)

MulticallInv ==
  service \in {"http", "multicall"} /\ (service = "multicall" => MulticallAnswers)

(* The first of the equal reads stand for all of them. *)
LEMMA UniqueRepresents ==
  ASSUME NEW S \in SUBSET Caller, S # {}, \A c \in S : arrival[c] \in Nat,
         \A a, b \in S : arrival[a] = arrival[b] => a = b
  PROVE  Represented(Unique(S), S)
<1> DEFINE U == {c \in S : Stands(c, S)}
           s == InOrder(U)
<1>1. ASSUME NEW c \in S
      PROVE  \E e \in U : Transaction[e] = Transaction[c]
  <2> DEFINE E == {e \in S : Transaction[e] = Transaction[c]}
             Places == {arrival[e] : e \in E}
  <2>1. Places \subseteq Nat /\ Places # {}
    OBVIOUS
  <2>2. PICK m \in Places : \A k \in Places : m <= k
    BY <2>1, Smallest
  <2>3. PICK e \in E : arrival[e] = m
    BY <2>2
  <2>4. \A f \in S : Transaction[f] = Transaction[e] => arrival[e] <= arrival[f]
    BY <2>2, <2>3
  <2> QED
    BY <2>3, <2>4 DEF Stands
<1>2. IsFiniteSet(U) /\ U \subseteq Caller /\ Cardinality(U) \in Nat
      /\ Cardinality(Caller) \in Nat /\ Cardinality(U) <= Cardinality(Caller)
  BY QueueAssumption, FS_Subset, FS_CardinalityType
<1>3. Cardinality(U) # 0
  BY <1>1, <1>2, FS_EmptySet
<1>4. \A c \in U : arrival[c] \in Nat
  OBVIOUS
<1>5. \A a, b \in U : arrival[a] = arrival[b] => a = b
  OBVIOUS
<1>6. /\ s \in Seq(U) /\ Len(s) = Cardinality(U)
      /\ \A c \in U : \E i \in 1..Cardinality(U) : s[i] = c
  <2> HIDE DEF U
  <2> QED
    BY <1>2, <1>4, <1>5, Sorted DEF InOrder
<1>7. Unique(S) = <<s>>
  BY DEF Unique
<1> HIDE DEF U, s
<1>8. Group(s)
  <2>1. s \in Seq(Caller)
    BY <1>2, <1>6
  <2>2. Len(s) \in 1..Cardinality(Caller)
    BY <1>2, <1>3, <1>6
  <2> QED
    BY <2>1, <2>2 DEF Group
<1>9. \A c \in S : \E i \in DOMAIN s : Transaction[s[i]] = Transaction[c]
  <2>1. DOMAIN s = 1..Cardinality(U)
    BY <1>6
  <2> QED
    BY <1>1, <1>6, <2>1
<1> QED
  BY <1>7, <1>8, <1>9 DEF Represented

(* A batch that begins has an equal read for each of its entries. *)
LEMMA GroupBegins ==
  ASSUME IInv, IInv', OldestFirst', arrival' = arrival, MulticallRuns
  PROVE  MulticallAnswers'
<1>1. answer' = NoAnswers
  BY DEF MulticallRuns
<1>2. \A c \in Caller : answer'[c].kind = "none"
  BY <1>1 DEF NoAnswers
<1>3. Represented(todo', active')
  <2>1. CASE drain' = "batch"
    <3>1. active' # {} /\ active' \in SUBSET Caller
      BY <2>1 DEF OldestFirst, IInv, TypeOK
    <3>2. \A c \in active' : arrival[c] \in Nat
      BY <3>1 DEF IInv, TypeOK
    <3>3. \A a, b \in active' : arrival[a] = arrival[b] => a = b
      BY DEF IInv, ActiveInv, ArrivalInv, Arrived
    <3>4. todo' = Unique(active')
      BY <2>1 DEF MulticallRuns
    <3> QED
      BY <3>1, <3>2, <3>3, <3>4, UniqueRepresents
  <2>2. CASE drain' # "batch"
    BY <2>2 DEF MulticallRuns, Represented
  <2> QED
    BY <2>1, <2>2
<1> QED
  BY <1>2, <1>3 DEF MulticallAnswers

(* An entry's results are those of a read equal to it. *)
LEMMA ResultsReach ==
  ASSUME MulticallAnswers, todo # <<>>, todo' = <<>>, active' = active,
         NEW f, Results(f),
         \A i \in DOMAIN todo[1] :
           LET r == todo[1][i] IN
           f[r].kind # "elsewhere" /\ (f[r].kind = "value" => Transaction[f[r].of] = Transaction[r])
  PROVE  MulticallAnswers'
<1>1. ASSUME NEW c \in active
      PROVE  /\ Index(c) \in DOMAIN todo[1]
             /\ Transaction[todo[1][Index(c)]] = Transaction[c]
  BY <1>1 DEF MulticallAnswers, Represented, Index
<1>2. ASSUME NEW c \in Caller
      PROVE  answer'[c] = IF c \in active THEN f[todo[1][Index(c)]] ELSE answer[c]
  BY DEF Results, Found
<1>3. ASSUME NEW c \in Caller
      PROVE  /\ answer'[c].kind # "elsewhere"
             /\ answer'[c].kind = "value" => Transaction[answer'[c].of] = Transaction[c]
  <2>1. CASE c \in active
    BY <1>1, <1>2, <2>1
  <2>2. CASE c \notin active
    BY <1>2, <2>2 DEF MulticallAnswers
  <2> QED
    BY <2>1, <2>2
<1> QED
  BY <1>3 DEF MulticallAnswers, Represented

(* Reads that are sent singly have their own answers. *)
LEMMA SinglesStep ==
  ASSUME MulticallAnswers, Singles
  PROVE  MulticallAnswers'
<1>1. todo # <<>> /\ todo' = <<>> /\ active' = active
  BY DEF Singles, Reading, vars, batch
<1>2. PICK f \in Alone(Reads) : Results(f)
  BY DEF Singles
<1>3. Group(todo[1])
  BY <1>1 DEF MulticallAnswers, Represented
<1>4. \A i \in DOMAIN todo[1] : todo[1][i] \in Reads
  BY DEF Reads, ToSet
<1>5. \A r \in Reads : f[r].kind \in {"value", "failure"} /\ f[r].of = r
  BY DEF Alone
<1> QED
  BY <1>1, <1>2, <1>4, <1>5, ResultsReach

(* What is taken from an aggregate are the answers of the reads. *)
LEMMA AggregatesStep ==
  ASSUME MulticallAnswers, Aggregates
  PROVE  MulticallAnswers'
<1>0. PICK reads : reads = todo[1]
  OBVIOUS
<1> DEFINE calls == ReceivedCalls(Aggregate(reads))
<1>1. todo # <<>> /\ active' = active /\ Group(reads)
  BY <1>0 DEF Aggregates, Reading, vars, batch, MulticallAnswers, Represented
<1>2. PICK block \in {BlockAsked, BlockAsked + 1}, reverted \in SUBSET DOMAIN reads :
        \E arrived \in Arrivals(Response(calls, block, reverted)) :
          IF Decodes(arrived) /\ Verified(DecodeAggregate3(arrived))
          THEN Results(Answers(block, DecodeAggregate3(arrived))) /\ todo' = <<>>
          ELSE UNCHANGED runVars
  BY <1>0 DEF Aggregates
<1>3. PICK arrived \in Arrivals(Response(calls, block, reverted)) :
        IF Decodes(arrived) /\ Verified(DecodeAggregate3(arrived))
        THEN Results(Answers(block, DecodeAggregate3(arrived))) /\ todo' = <<>>
        ELSE UNCHANGED runVars
  BY <1>2
<1>4. CASE ~(Decodes(arrived) /\ Verified(DecodeAggregate3(arrived)))
  BY <1>1, <1>3, <1>4 DEF runVars, MulticallAnswers
<1>5. CASE Decodes(arrived) /\ Verified(DecodeAggregate3(arrived))
  <2> DEFINE results == DecodeAggregate3(arrived)
  <2>1. /\ Len(results) = Len(reads) + 1
        /\ results[Len(results)] = [success |-> TRUE, data |-> Word(BlockAsked)]
    BY <1>0, <1>5 DEF Verified
  <2>2. block = BlockAsked /\ Fetched(reads, results)
    <3>1. Group(reads) /\ Decodes(arrived) /\ calls = ReceivedCalls(Aggregate(reads))
          /\ results = DecodeAggregate3(arrived)
      BY <1>1, <1>5
    <3>2. arrived \in Arrivals(Response(calls, block, reverted))
          /\ block \in {BlockAsked, BlockAsked + 1}
          /\ calls = ReceivedCalls(Aggregate(reads))
      OBVIOUS
    <3> HIDE DEF calls, results
    <3> QED
      BY ONLY <2>1, <3>1, <3>2, VerifiedAnswers
  <2>3. Results(Answers(block, results)) /\ todo' = <<>>
    BY <1>3, <1>5
  <2> HIDE DEF results
  <2>4. DOMAIN reads = 1..Len(reads)
    BY <1>1 DEF Group
  <2>5. ASSUME NEW i \in DOMAIN todo[1]
        PROVE  LET r == todo[1][i] IN
               /\ Answers(block, results)[r].kind # "elsewhere"
               /\ Answers(block, results)[r].kind = "value" =>
                    Transaction[Answers(block, results)[r].of] = Transaction[r]
    <3> DEFINE r == todo[1][i]
               j == CHOOSE k \in DOMAIN todo[1] : todo[1][k] = r
    <3>1. r \in Reads
      BY DEF Reads, ToSet
    <3>2. j \in DOMAIN todo[1] /\ todo[1][j] = r
      OBVIOUS
    <3>3. results[j].data = Transaction[r]
      BY <1>0, <2>2, <2>4, <3>2 DEF Fetched
    <3>4. Answers(block, results)[r] =
            [of |-> r,
             kind |-> IF ~ results[j].success THEN "failure"
                      ELSE IF block = BlockAsked /\ results[j].data = Transaction[r] THEN "value"
                      ELSE "elsewhere"]
      BY <3>1 DEF Answers
    <3> HIDE DEF r, j
    <3>5. Answers(block, results)[r].of = r /\ Answers(block, results)[r].kind \in {"failure", "value"}
      BY <2>2, <3>3, <3>4
    <3> QED
      BY <3>5 DEF r
  <2> QED
    BY <1>1, <2>3, <2>5, ResultsReach
<1> QED
  BY <1>4, <1>5

(* Every step of the services keeps the invariant. *)
LEMMA MulticallServiceStep ==
  ASSUME IInv, IInv', OldestFirst', MulticallInv, ServiceNext
  PROVE  MulticallInv'
<1>1. CASE Callers
  <2>1. UNCHANGED <<answer, todo, service, active>>
    BY <1>1 DEF Callers, CallersStep, runVars, QueueFull, Request, Resume, Leave, Forget, batch
  <2> QED
    BY <2>1 DEF MulticallInv, MulticallAnswers, Represented
<1>2. CASE Closes
  <2>1. todo' = <<>> /\ answer' = NoAnswers /\ service' = service
    BY <1>2 DEF Closes
  <2> QED
    BY <2>1 DEF MulticallInv, MulticallAnswers, Represented, NoAnswers
<1>3. CASE Http
  BY <1>3 DEF Http, MulticallInv
<1>4. CASE Aggregating /\ (MulticallReads \/ MulticallEnds)
  <2>1. service = "multicall" /\ service' = service /\ MulticallAnswers
    BY <1>4 DEF Aggregating, MulticallInv
  <2>2. CASE Singles
    BY <2>1, <2>2, SinglesStep DEF MulticallInv
  <2>3. CASE NoContract \/ HasContract \/ Reverts
    BY <2>1, <2>3 DEF NoContract, HasContract, Reverts, vars, batch, runVars, MulticallInv,
                      MulticallAnswers, Represented
  <2>4. CASE Aggregates
    BY <2>1, <2>4, AggregatesStep DEF MulticallInv
  <2>5. CASE ReadFails \/ MulticallEnds
    <3>1. MulticallRuns
      BY <2>5 DEF ReadFails, MulticallEnds
    <3>2. arrival' = arrival
      BY <2>5 DEF ReadFails, BatchFails, MulticallEnds, DrainSteps, Begin, Collect,
                  BatchAbandoned, RunEnds, BatchAnswers, Deliver, entries
    <3> QED
      BY <2>1, <3>1, <3>2, GroupBegins DEF MulticallInv
  <2> QED
    BY <1>4, <2>2, <2>3, <2>4, <2>5 DEF MulticallReads
<1> QED
  BY <1>1, <1>2, <1>3, <1>4 DEF ServiceNext, Runs

(* Under the reads of multicall every entry of a batch has an equal read   *)
(* in its one group, and its answer is that of such a read, at the block   *)
(* asked for (MulticallReads of rpc/multicall.ts).                         *)
THEOREM MulticallInvariance == ServiceSpec => []MulticallInv
<1>1. ServiceInit => MulticallInv
  BY DEF ServiceInit, RunInit, NoAnswers, MulticallInv, MulticallAnswers, Represented
<1>2. IInv /\ IInv' /\ OldestFirst' /\ MulticallInv /\ [ServiceNext]_serviceVars => MulticallInv'
  <2> SUFFICES ASSUME IInv, IInv', OldestFirst', MulticallInv, [ServiceNext]_serviceVars
               PROVE  MulticallInv'
    OBVIOUS
  <2>1. CASE UNCHANGED serviceVars
    BY <2>1 DEF serviceVars, vars, batch, runVars, MulticallInv, MulticallAnswers, Represented
  <2> QED
    BY <2>1, MulticallServiceStep
<1> QED
  BY <1>1, <1>2, QueueUnderServices, Invariance, OldestFirstHolds, PTL DEF ServiceSpec

(* What a run finds for a caller is the answer to its own request, or to   *)
(* one with the same data: what was computed at another block, or lost its *)
(* end on the way, is never taken for it (rpc/transport/http.ts:72,        *)
(* rpc/multicall.ts:159, 184).                                             *)
THEOREM OwnAnswerHolds == ServiceSpec => []OwnAnswer
<1>1. MulticallInv /\ (service = "http" => OwnAnswer) => OwnAnswer
  BY DEF MulticallInv, MulticallAnswers, OwnAnswer
<1> QED
  BY <1>1, MulticallInvariance, HttpOwnAnswer, PTL
=============================================================================
