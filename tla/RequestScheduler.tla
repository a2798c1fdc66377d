--------------------------- MODULE RequestScheduler ---------------------------
(***************************************************************************)
(* The scheduler every request of a client passes: RequestScheduler        *)
(* (rpc/transport/queue.ts).  A request is admitted or refused at once; an *)
(* admitted one takes a background slot if it is background work, then a   *)
(* permit of its endpoint, then a place in the endpoint's rate window, and *)
(* runs.  Whatever ends it, it gives back what it holds.                   *)
(*                                                                         *)
(* A request holds a semaphore's permit while its stage is past the one    *)
(* that waits for it; which waiter a semaphore prefers is left open.       *)
(***************************************************************************)
EXTENDS Naturals, FiniteSets, Sequences, SequencesExt

CONSTANTS
  Endpoint,
  Request,      \* whoever calls run(), one call at a time
  Background,   \* those of them with the background priority
  Capacity,     \* requests in the scheduler at most
  Concurrency,  \* permits of an endpoint
  Rps           \* requests to an endpoint in a second, before throttling

ASSUME SchedulerAssumption ==
  /\ IsFiniteSet(Request) /\ Background \subseteq Request
  /\ {Capacity, Concurrency, Rps} \subseteq Nat \ {0}

VARIABLES
  stage,             \* stage[r]: what r's call of run() waits for, or "out"
  at,                \* at[r]: the endpoint of r's call, or "none"
  queued, backgroundQueued,
  active, backgroundActive,
  load,              \* load[e]: the active of e's budget
  sent,              \* sent[e]: the last second's requests, oldest first;
                     \*   TRUE for one that is also in backgroundSent
  limit              \* limit[e]: how many a second allows

counters == <<queued, backgroundQueued, active, backgroundActive, load>>
rates == <<sent, limit>>
schedulerVars == <<stage, at, counters, rates>>

SchedulerTypeOK ==
  /\ stage \in [Request -> {"out", "slot", "permit", "rate", "running"}]
  /\ at \in [Request -> Endpoint \cup {"none"}]
  /\ {queued, backgroundQueued, active, backgroundActive} \subseteq 0..Cardinality(Request)
  /\ load \in [Endpoint -> 0..Cardinality(Request)]
  /\ \A e \in Endpoint : sent[e] \in Seq(BOOLEAN) /\ Len(sent[e]) <= Rps
  /\ limit \in [Endpoint -> 1..Rps]

SchedulerInit ==
  /\ stage = [r \in Request |-> "out"]
  /\ at = [r \in Request |-> "none"]
  /\ queued = 0 /\ backgroundQueued = 0 /\ active = 0 /\ backgroundActive = 0
  /\ load = [e \in Endpoint |-> 0]
  /\ sent = [e \in Endpoint |-> <<>>]
  /\ limit = [e \in Endpoint |-> Rps]
-----------------------------------------------------------------------------
AtLeastOne(n) == IF n = 0 THEN 1 ELSE n

(* Bug: a share of a small number is rounded down to nothing. *)
Share_ToZero(n) == (n * 4) \div 5

(* The part of n that background work may use: four fifths, at least one. *)
Share(n) == AtLeastOne((n * 4) \div 5)

(* 1 for background work, which its own counters count. *)
Own(r) == IF r \in Background THEN 1 ELSE 0

(* Bug: background work is admitted as long as there is room. *)
QueueIsFull_NoShare(r) == queued >= Capacity

QueueIsFull(r) ==
  \/ queued >= Capacity
  \/ r \in Background /\ backgroundQueued >= Share(Capacity)

Admit(r, e) ==
  /\ stage[r] = "out" /\ ~ QueueIsFull(r)
  /\ stage' = [stage EXCEPT ![r] = IF r \in Background THEN "slot" ELSE "permit"]
  /\ at' = [at EXCEPT ![r] = e]
  /\ queued' = queued + 1
  /\ backgroundQueued' = backgroundQueued + Own(r)
  /\ load' = [load EXCEPT ![e] = @ + 1]
  /\ UNCHANGED <<active, backgroundActive, rates>>

SlotHolders == {r \in Background : stage[r] \in {"permit", "rate", "running"}}

TakeSlot(r) ==
  /\ stage[r] = "slot" /\ Cardinality(SlotHolders) < Share(Concurrency)
  /\ stage' = [stage EXCEPT ![r] = "permit"]
  /\ UNCHANGED <<at, counters, rates>>

PermitHolders(e) == {r \in Request : at[r] = e /\ stage[r] \in {"rate", "running"}}

TakePermit(r) ==
  /\ stage[r] = "permit" /\ Cardinality(PermitHolders(at[r])) < Concurrency
  /\ stage' = [stage EXCEPT ![r] = "rate"]
  /\ UNCHANGED <<at, counters, rates>>

BackgroundSent(e) == SelectSeq(sent[e], LAMBDA background : background)

(* acquire: background work leaves a part of the rate to the others. *)
WithinRate(r) ==
  /\ r \in Background => Len(BackgroundSent(at[r])) < Share(limit[at[r]])
  /\ Len(sent[at[r]]) < limit[at[r]]

Send(r) ==
  /\ stage[r] = "rate" /\ WithinRate(r)
  /\ stage' = [stage EXCEPT ![r] = "running"]
  /\ sent' = [sent EXCEPT ![at[r]] = Append(@, r \in Background)]
  /\ active' = active + 1
  /\ backgroundActive' = backgroundActive + Own(r)
  /\ UNCHANGED <<at, queued, backgroundQueued, load, limit>>

(* Bug: a request that leaves before it runs stays counted. *)
Release_OnlyRunning(R) ==
  LET running == {r \in R : stage[r] = "running"}
      Ours(S) == Cardinality(S \cap Background)
  IN  /\ stage' = [r \in Request |-> IF r \in R THEN "out" ELSE stage[r]]
      /\ at' = [r \in Request |-> IF r \in R THEN "none" ELSE at[r]]
      /\ queued' = queued - Cardinality(running)
      /\ backgroundQueued' = backgroundQueued - Ours(running)
      /\ active' = active - Cardinality(running)
      /\ backgroundActive' = backgroundActive - Ours(running)
      /\ load' = [e \in Endpoint |-> load[e] - Cardinality({r \in running : at[r] = e})]

(* The finalizers of the calls of R, at whatever stage they end. *)
Release(R) ==
  LET held == {r \in R : stage[r] # "out"}
      running == {r \in R : stage[r] = "running"}
      Ours(S) == Cardinality(S \cap Background)
  IN  /\ stage' = [r \in Request |-> IF r \in R THEN "out" ELSE stage[r]]
      /\ at' = [r \in Request |-> IF r \in R THEN "none" ELSE at[r]]
      /\ queued' = queued - Cardinality(held)
      /\ backgroundQueued' = backgroundQueued - Ours(held)
      /\ active' = active - Cardinality(running)
      /\ backgroundActive' = backgroundActive - Ours(running)
      /\ load' = [e \in Endpoint |-> load[e] - Cardinality({r \in held : at[r] = e})]

(* The oldest request of a window becomes a second old. *)
Age(e) ==
  /\ sent[e] # <<>>
  /\ sent' = [sent EXCEPT ![e] = Tail(@)]
  /\ UNCHANGED <<stage, at, counters, limit>>

Throttled(e) == AtLeastOne((limit[e] * 3) \div 4)

(* A success raises the limit, five seconds after the last change of it. *)
Recovered(e) == {limit[e], IF limit[e] < Rps THEN limit[e] + 1 ELSE Rps}
-----------------------------------------------------------------------------
(* What is counted is what the requests hold: none that ended, however it  *)
(* ended, takes room from those that come (queue.ts:155-157, 170, 175).    *)
GivenBack ==
  LET Inside(S) == {r \in S : stage[r] # "out"}
      Running(S) == {r \in S : stage[r] = "running"}
  IN  /\ queued = Cardinality(Inside(Request))
      /\ backgroundQueued = Cardinality(Inside(Background))
      /\ active = Cardinality(Running(Request))
      /\ backgroundActive = Cardinality(Running(Background))
      /\ \A e \in Endpoint : load[e] = Cardinality({r \in Inside(Request) : at[r] = e})

(* Background work alone never closes an endpoint, or the queue, to the    *)
(* other requests: some room is left wherever there is more than one place *)
(* (queue.ts:116, 147, 163).                                               *)
ForegroundRoom ==
  /\ Capacity > 1 => Cardinality({r \in Background : stage[r] # "out"}) < Capacity
  /\ Concurrency > 1 =>
       \A e \in Endpoint : Cardinality(PermitHolders(e) \cap Background) < Concurrency
=============================================================================
