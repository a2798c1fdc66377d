----------------------------- MODULE ReadsProofs -----------------------------
(***************************************************************************)
(* Proofs about Reads and the RequestScheduler its requests pass, for any  *)
(* number of calls, endpoints and places: what is counted is what is held, *)
(* background work leaves room, and a read asks every endpoint it found    *)
(* before it gives up.                                                     *)
(***************************************************************************)
EXTENDS Reads, FiniteSetTheorems, TLAPS

Inside == {r \in Request : stage[r] # "out"}
Ours == {r \in Background : stage[r] # "out"}
Running == {r \in Request : stage[r] = "running"}
OursRunning == {r \in Background : stage[r] = "running"}
InsideAt(e) == {r \in Inside : at[r] = e}

Counted ==
  /\ queued = Cardinality(Inside) /\ backgroundQueued = Cardinality(Ours)
  /\ active = Cardinality(Running) /\ backgroundActive = Cardinality(OursRunning)
  /\ \A e \in Endpoint : load[e] = Cardinality(InsideAt(e))

Stages == {"out", "slot", "permit", "rate", "running"}

SchedulerIInv ==
  /\ stage \in [Request -> Stages]
  /\ at \in [Request -> Endpoint \cup {"none"}]
  /\ load \in [Endpoint -> Int]
  /\ Counted
  /\ backgroundQueued <= Share(Capacity)
  /\ Cardinality(SlotHolders) <= Share(Concurrency)
-----------------------------------------------------------------------------
(* A share is a number of at least one, and a part of what is more than it. *)
LEMMA ShareIsPart ==
  ASSUME NEW n \in Nat \ {0}
  PROVE  Share(n) \in Nat \ {0} /\ (n > 1 => Share(n) < n)
<1>1. (n * 4) \div 5 \in Nat /\ (n * 4) \div 5 < n
  OBVIOUS
<1> QED BY <1>1 DEF Share, AtLeastOne

LEMMA Bounds ==
  /\ Capacity \in Nat \ {0} /\ Concurrency \in Nat \ {0}
  /\ IsFiniteSet(Request) /\ Background \subseteq Request
BY SchedulerAssumption

(* Every set of requests is finite. *)
LEMMA RequestSets ==
  ASSUME NEW S \in SUBSET Request
  PROVE  IsFiniteSet(S) /\ Cardinality(S) \in Nat
BY Bounds, FS_Subset, FS_CardinalityType

(* One more, and some less. *)
LEMMA OneMore ==
  ASSUME NEW S \in SUBSET Request, NEW r \in Request \ S
  PROVE  Cardinality(S \cup {r}) = Cardinality(S) + 1
BY RequestSets, FS_AddElement

LEMMA SomeLess ==
  ASSUME NEW S \in SUBSET Request, NEW T \in SUBSET S
  PROVE  Cardinality(S \ T) = Cardinality(S) - Cardinality(T)
<1>1. IsFiniteSet(S) /\ S \cap T = T
  BY RequestSets
<1> QED BY <1>1, FS_Difference

LEMMA NotMore ==
  ASSUME NEW S \in SUBSET Request, NEW T \in SUBSET S
  PROVE  Cardinality(T) <= Cardinality(S)
BY RequestSets, FS_Subset

LEMMA SchedulerSets ==
  /\ Inside \subseteq Request /\ Ours \subseteq Request /\ Running \subseteq Request
  /\ OursRunning \subseteq Request /\ SlotHolders \subseteq Request
  /\ \A e : InsideAt(e) \subseteq Request
BY Bounds DEF Inside, Ours, Running, OursRunning, SlotHolders, InsideAt

LEMMA SchedulerStart == SchedulerInit => SchedulerIInv
<1> SUFFICES ASSUME SchedulerInit PROVE SchedulerIInv
  OBVIOUS
<1>1. /\ Inside = {} /\ Ours = {} /\ Running = {} /\ OursRunning = {} /\ SlotHolders = {}
      /\ \A e \in Endpoint : InsideAt(e) = {}
  BY Bounds DEF SchedulerInit, Inside, Ours, Running, OursRunning, SlotHolders, InsideAt
<1>2. Counted
  BY <1>1, FS_EmptySet DEF Counted, SchedulerInit
<1>3. backgroundQueued <= Share(Capacity) /\ Cardinality(SlotHolders) <= Share(Concurrency)
  BY <1>1, FS_EmptySet, Bounds, ShareIsPart DEF SchedulerInit
<1> QED BY <1>2, <1>3 DEF SchedulerIInv, SchedulerInit, Stages

LEMMA AdmitCounts ==
  ASSUME SchedulerIInv, NEW r \in Request, NEW e \in Endpoint, Admit(r, e)
  PROVE  SchedulerIInv'
<1> USE DEF SchedulerIInv, Stages
<1>1. /\ stage[r] = "out" /\ stage' \in [Request -> Stages] /\ stage'[r] \in {"slot", "permit"}
      /\ (r \in Background => stage'[r] = "slot")
      /\ \A q \in Request : q # r => stage'[q] = stage[q] /\ at'[q] = at[q]
      /\ at' \in [Request -> Endpoint \cup {"none"}] /\ at'[r] = e
  BY DEF Admit
<1>2. /\ Inside' = Inside \cup {r} /\ r \notin Inside
      /\ Ours' = IF r \in Background THEN Ours \cup {r} ELSE Ours
      /\ r \notin Ours
      /\ Running' = Running /\ OursRunning' = OursRunning /\ SlotHolders' = SlotHolders
  BY <1>1, Bounds DEF Inside, Ours, Running, OursRunning, SlotHolders
<1>3. \A f \in Endpoint : /\ f # e => InsideAt(f)' = InsideAt(f)
                          /\ InsideAt(e)' = InsideAt(e) \cup {r} /\ r \notin InsideAt(e)
  BY <1>1, <1>2 DEF Inside, InsideAt
<1>4. /\ Cardinality(Inside') = Cardinality(Inside) + 1
      /\ Cardinality(Ours') = Cardinality(Ours) + Own(r)
      /\ Cardinality(InsideAt(e)') = Cardinality(InsideAt(e)) + 1
      /\ Cardinality(Ours) \in Nat
  BY <1>2, <1>3, OneMore, SchedulerSets, RequestSets DEF Own
<1>5. /\ queued' = queued + 1 /\ backgroundQueued' = backgroundQueued + Own(r)
      /\ load' \in [Endpoint -> Int] /\ load'[e] = load[e] + 1
      /\ \A f \in Endpoint : f # e => load'[f] = load[f]
      /\ UNCHANGED <<active, backgroundActive>>
  BY DEF Admit
<1>6. Counted'
  BY <1>2, <1>3, <1>4, <1>5 DEF Counted
<1>7. backgroundQueued' <= Share(Capacity)
  <2>1. backgroundQueued \in Nat /\ Share(Capacity) \in Nat
    BY <1>4, Bounds, ShareIsPart DEF Counted
  <2>2. r \in Background => backgroundQueued < Share(Capacity)
    BY <2>1 DEF Admit, QueueIsFull
  <2> QED BY <1>5, <2>1, <2>2 DEF Own
<1> QED BY <1>1, <1>2, <1>5, <1>6, <1>7

LEMMA SlotCounts ==
  ASSUME SchedulerIInv, NEW r \in Request, TakeSlot(r)
  PROVE  SchedulerIInv'
<1> USE DEF SchedulerIInv, Stages
<1>1. /\ stage[r] = "slot" /\ stage' = [stage EXCEPT ![r] = "permit"]
      /\ Cardinality(SlotHolders) < Share(Concurrency)
      /\ UNCHANGED <<at, queued, backgroundQueued, active, backgroundActive, load>>
  BY DEF TakeSlot, counters
<1>2. /\ Inside' = Inside /\ Ours' = Ours /\ Running' = Running /\ OursRunning' = OursRunning
      /\ \A e \in Endpoint : InsideAt(e)' = InsideAt(e)
  BY <1>1, Bounds DEF Inside, Ours, Running, OursRunning, InsideAt
<1>3. SlotHolders' \subseteq SlotHolders \cup {r}
  BY <1>1, Bounds DEF SlotHolders
<1>4. Cardinality(SlotHolders') <= Share(Concurrency)
  <2>1. Cardinality(SlotHolders \cup {r}) <= Cardinality(SlotHolders) + 1
    BY SchedulerSets, RequestSets, FS_AddElement
  <2>2. Cardinality(SlotHolders') <= Cardinality(SlotHolders \cup {r})
    BY <1>3, SchedulerSets, NotMore
  <2>3. /\ Cardinality(SlotHolders) \in Nat /\ Cardinality(SlotHolders') \in Nat
        /\ Cardinality(SlotHolders \cup {r}) \in Nat /\ Share(Concurrency) \in Nat
    <3>1. SlotHolders' \in SUBSET Request
      BY <1>3, SchedulerSets
    <3> QED BY <3>1, SchedulerSets, RequestSets, Bounds, ShareIsPart
  <2> QED BY <1>1, <2>1, <2>2, <2>3
<1> QED BY <1>1, <1>2, <1>4 DEF Counted

LEMMA PermitCounts ==
  ASSUME SchedulerIInv, NEW r \in Request, TakePermit(r)
  PROVE  SchedulerIInv'
<1> USE DEF SchedulerIInv, Stages
<1>1. /\ stage[r] = "permit" /\ stage' = [stage EXCEPT ![r] = "rate"]
      /\ UNCHANGED <<at, queued, backgroundQueued, active, backgroundActive, load>>
  BY DEF TakePermit, counters
<1>2. /\ Inside' = Inside /\ Ours' = Ours /\ Running' = Running /\ OursRunning' = OursRunning
      /\ SlotHolders' = SlotHolders
      /\ \A e \in Endpoint : InsideAt(e)' = InsideAt(e)
  BY <1>1, Bounds DEF Inside, Ours, Running, OursRunning, SlotHolders, InsideAt
<1> QED BY <1>1, <1>2 DEF Counted

LEMMA SendCounts ==
  ASSUME SchedulerIInv, NEW r \in Request, Send(r)
  PROVE  SchedulerIInv'
<1> USE DEF SchedulerIInv, Stages
<1>1. /\ stage[r] = "rate" /\ stage' = [stage EXCEPT ![r] = "running"]
      /\ active' = active + 1 /\ backgroundActive' = backgroundActive + Own(r)
      /\ UNCHANGED <<at, queued, backgroundQueued, load>>
  BY DEF Send
<1>2. /\ Inside' = Inside /\ Ours' = Ours /\ SlotHolders' = SlotHolders
      /\ Running' = Running \cup {r} /\ r \notin Running
      /\ OursRunning' = IF r \in Background THEN OursRunning \cup {r} ELSE OursRunning
      /\ r \notin OursRunning
      /\ \A e \in Endpoint : InsideAt(e)' = InsideAt(e)
  BY <1>1, Bounds DEF Inside, Ours, Running, OursRunning, SlotHolders, InsideAt
<1>3. /\ Cardinality(Running') = Cardinality(Running) + 1
      /\ Cardinality(OursRunning') = Cardinality(OursRunning) + Own(r)
  BY <1>2, OneMore, SchedulerSets, RequestSets DEF Own
<1> QED BY <1>1, <1>2, <1>3 DEF Counted

(* Whatever the requests that end were waiting for. *)
LEMMA ReleaseCounts ==
  ASSUME SchedulerIInv, NEW R \in SUBSET Request, Release(R)
  PROVE  SchedulerIInv' /\ \A q \in R : stage'[q] = "out"
<1> USE DEF SchedulerIInv, Stages
<1> DEFINE held == {r \in R : stage[r] # "out"}
           running == {r \in R : stage[r] = "running"}
<1>1. /\ stage' = [r \in Request |-> IF r \in R THEN "out" ELSE stage[r]]
      /\ at' = [r \in Request |-> IF r \in R THEN "none" ELSE at[r]]
      /\ queued' = queued - Cardinality(held)
      /\ backgroundQueued' = backgroundQueued - Cardinality(held \cap Background)
      /\ active' = active - Cardinality(running)
      /\ backgroundActive' = backgroundActive - Cardinality(running \cap Background)
      /\ load' = [e \in Endpoint |-> load[e] - Cardinality({r \in held : at[r] = e})]
  BY DEF Release
<1>2. /\ Inside' = Inside \ held /\ held \subseteq Inside
      /\ Ours' = Ours \ (held \cap Background) /\ held \cap Background \subseteq Ours
      /\ Running' = Running \ running /\ running \subseteq Running
      /\ OursRunning' = OursRunning \ (running \cap Background)
      /\ running \cap Background \subseteq OursRunning
      /\ SlotHolders' \subseteq SlotHolders
  BY <1>1, Bounds DEF Inside, Ours, Running, OursRunning, SlotHolders
<1>3. \A e \in Endpoint :
        /\ InsideAt(e)' = InsideAt(e) \ {r \in held : at[r] = e}
        /\ {r \in held : at[r] = e} \subseteq InsideAt(e)
  BY <1>1, <1>2 DEF Inside, InsideAt
<1>4. stage' \in [Request -> Stages] /\ at' \in [Request -> Endpoint \cup {"none"}]
  BY <1>1
<1>5. \A S \in SUBSET Request : Cardinality(S) \in Nat
  BY RequestSets
<1>6. held \subseteq Request /\ running \subseteq Request
  OBVIOUS
<1>7. load' \in [Endpoint -> Int]
  <2>1. ASSUME NEW e \in Endpoint
        PROVE  load[e] - Cardinality({r \in held : at[r] = e}) \in Int
    <3>1. {r \in held : at[r] = e} \in SUBSET Request
      BY <1>6
    <3> QED BY <1>5, <3>1
  <2> QED BY <1>1, <2>1
<1> HIDE DEF held, running
<1>8. Counted'
  <2>1. /\ Cardinality(Inside') = Cardinality(Inside) - Cardinality(held)
        /\ Cardinality(Ours') = Cardinality(Ours) - Cardinality(held \cap Background)
    BY <1>2, SchedulerSets, SomeLess
  <2>2. /\ Cardinality(Running') = Cardinality(Running) - Cardinality(running)
        /\ Cardinality(OursRunning') = Cardinality(OursRunning) - Cardinality(running \cap Background)
    BY <1>2, SchedulerSets, SomeLess
  <2>3. ASSUME NEW e \in Endpoint PROVE load'[e] = Cardinality(InsideAt(e)')
    <3>1. Cardinality(InsideAt(e)') = Cardinality(InsideAt(e)) - Cardinality({r \in held : at[r] = e})
      BY <1>3, SchedulerSets, SomeLess
    <3> QED BY <1>1, <3>1 DEF Counted
  <2> QED BY <1>1, <2>1, <2>2, <2>3 DEF Counted
<1>9. backgroundQueued' <= Share(Capacity)
  <2>1. Cardinality(Ours) \in Nat /\ Cardinality(held \cap Background) \in Nat
    BY <1>5, <1>6, SchedulerSets
  <2> QED BY <1>1, <2>1, Bounds, ShareIsPart DEF Counted
<1>10. Cardinality(SlotHolders') <= Share(Concurrency)
  <2>1. /\ Cardinality(SlotHolders') <= Cardinality(SlotHolders)
        /\ Cardinality(SlotHolders') \in Nat /\ Cardinality(SlotHolders) \in Nat
    BY <1>2, <1>5, SchedulerSets, NotMore
  <2> QED BY <2>1, Bounds, ShareIsPart
<1> QED BY <1>1, <1>4, <1>7, <1>8, <1>9, <1>10

(* A request outside may be said to be at any endpoint. *)
LEMMA OutsideCounts ==
  ASSUME SchedulerIInv, at' \in [Request -> Endpoint \cup {"none"}],
         UNCHANGED <<stage, counters>>,
         \A q \in Request : stage[q] # "out" => at'[q] = at[q]
  PROVE  SchedulerIInv'
<1>1. UNCHANGED <<stage, queued, backgroundQueued, active, backgroundActive, load>>
  BY DEF counters
<1>2. /\ Inside' = Inside /\ Ours' = Ours /\ Running' = Running /\ OursRunning' = OursRunning
      /\ SlotHolders' = SlotHolders
      /\ \A e \in Endpoint : InsideAt(e)' = InsideAt(e)
  BY <1>1 DEF Inside, Ours, Running, OursRunning, SlotHolders, InsideAt
<1> QED BY <1>1, <1>2 DEF SchedulerIInv, Counted
-----------------------------------------------------------------------------
Stopping == {"off", "pick", "pause", "failed", "answered"}
Waiting == {"pause", "queue", "flight"}

(* A lane is in the scheduler only while it queues or flies; a call that   *)
(* has not begun has no lanes.                                             *)
LaneInv ==
  /\ lane \in [Request -> Stopping \cup {"queue", "flight"}]
  /\ status \in [Call -> {"new", "running", "value", "failed", "aborted"}]
  /\ \A q \in Request : lane[q] \in Stopping => stage[q] = "out"
  /\ \A q \in Request : status[q[1]] = "new" => lane[q] = "off"

ReadTypes ==
  /\ attempts \in [Read -> Nat] /\ maxAttempts \in [Read -> Nat]
  /\ tried \in [Read -> SUBSET Endpoint] /\ busy \in [Read -> SUBSET Endpoint]
  /\ excluded \in [Read -> SUBSET Endpoint] /\ peers \in [Read -> SUBSET Endpoint]
  /\ stopped \in [Read -> BOOLEAN]

Usable == {e \in Endpoint : role[e] \in {"selected", "standby"}}

Asked(r) == peers[r] \cap Candidates \subseteq tried[r]

(* What a read knows of the endpoints: it counts an attempt for each one   *)
(* it tried until it has tried all of those it started with.               *)
TriedInv(r) ==
  /\ busy[r] \cup excluded[r] \subseteq tried[r]
  /\ peers[r] \cup tried[r] \subseteq Usable
  /\ Asked(r) \/ attempts[r] = Cardinality(tried[r])
  /\ status[r] = "new" => tried[r] = {} /\ attempts[r] = 0
  /\ \A i \in {1, 2} :
       /\ status[r] = "failed" => lane[<<r, i>>] = "failed"
       /\ lane[<<r, i>>] \in Waiting => at[<<r, i>>] \in tried[r]
  /\ status[r] = "failed" /\ ~ stopped[r] /\ tried[r] \subseteq Candidates \cup excluded[r] =>
       Asked(r)

IInv == SchedulerIInv /\ LaneInv /\ ReadTypes /\ \A r \in Read : TriedInv(r)

(* A request is a lane of a read, or a sending to an endpoint. *)
LEMMA Requests ==
  /\ Read \cap Write = {} /\ IsFiniteSet(Endpoint)
  /\ \A r \in Read, i \in {1, 2} : <<r, i>> \in Request
  /\ \A q \in Request :
       /\ q[1] \in Call /\ q = <<q[1], q[2]>>
       /\ q[1] \in Read => q[2] \in {1, 2}
       /\ q[1] \in Write => q[2] \in Endpoint
BY ReadAssumption DEF Call

LEMMA CandidatesUsable == Candidates = Usable \ unsupported
BY DEF Candidates, Usable

(* The endpoints a read started with can only become fewer. *)
LEMMA Frame ==
  ASSUME NEW r \in Read, TriedInv(r),
         Usable \subseteq Usable', unsupported \subseteq unsupported',
         attempts'[r] = attempts[r], tried'[r] = tried[r], busy'[r] \subseteq tried[r],
         excluded'[r] = excluded[r], stopped'[r] = stopped[r], peers'[r] = peers[r],
         status'[r] = "new" => status[r] = "new",
         status'[r] = "failed" => status[r] = "failed",
         \A i \in {1, 2} :
           /\ status'[r] = "failed" => lane'[<<r, i>>] = "failed"
           /\ lane'[<<r, i>>] \in Waiting => at'[<<r, i>>] \in tried[r]
  PROVE  TriedInv(r)'
<1>1. \A e \in Usable : e \in Candidates' => e \in Candidates
  BY DEF Candidates, Usable
<1>2. peers[r] \subseteq Usable /\ tried[r] \subseteq Usable
  BY DEF TriedInv
<1>3. Asked(r) => Asked(r)'
  BY <1>1, <1>2 DEF Asked
<1>4. tried[r] \subseteq Candidates' \cup excluded[r] => tried[r] \subseteq Candidates \cup excluded[r]
  BY <1>1, <1>2
<1>5. /\ busy'[r] \cup excluded'[r] \subseteq tried'[r]
      /\ peers'[r] \cup tried'[r] \subseteq Usable'
      /\ Asked(r)' \/ attempts'[r] = Cardinality(tried'[r])
      /\ status'[r] = "new" => tried'[r] = {} /\ attempts'[r] = 0
  BY <1>2, <1>3 DEF TriedInv
<1>6. status'[r] = "failed" /\ ~ stopped'[r] /\ tried'[r] \subseteq Candidates' \cup excluded'[r] =>
        Asked(r)'
  BY <1>3, <1>4 DEF TriedInv
<1> QED BY <1>5, <1>6 DEF TriedInv

LEMMA StartInv == Init => IInv
<1> SUFFICES ASSUME Init PROVE IInv
  OBVIOUS
<1>1. SchedulerIInv
  BY SchedulerStart DEF Init
<1>2. LaneInv
  BY Requests DEF Init, LaneInv, SchedulerInit, Stopping
<1>3. MinAttempts \in Nat
  BY ReadAssumption
<1>4. ReadTypes
  BY <1>3 DEF Init, ReadTypes
<1>5. ASSUME NEW r \in Read PROVE TriedInv(r)
  <2>1. /\ tried[r] = {} /\ busy[r] = {} /\ excluded[r] = {} /\ peers[r] = {} /\ attempts[r] = 0
        /\ status[r] = "new" /\ \A i \in {1, 2} : lane[<<r, i>>] = "off"
    BY Requests DEF Init, Call
  <2> QED BY <2>1, FS_EmptySet DEF TriedInv, Asked, Waiting
<1> QED BY <1>1, <1>2, <1>4, <1>5 DEF IInv

(* The scheduler of a client does not change. *)
LEMMA SchedulerFrame ==
  ASSUME SchedulerIInv, UNCHANGED <<stage, at, counters>> PROVE SchedulerIInv'
BY OutsideCounts DEF SchedulerIInv

(* Steps that touch no lane. *)
Quiet ==
  \/ \E c \in Call : StartClosed(c)
  \/ \E w \in Write : SendEnds(w)
  \/ \E e \in Endpoint : CooledDown(e) \/ SecondPasses(e) \/ FoundUnsupported(e)
  \/ ProbesEnd
  \/ UNCHANGED vars

LEMMA QuietInv == ASSUME IInv, Quiet PROVE IInv'
<1>1. UNCHANGED <<lane, progress, stage, at, counters>>
  BY DEF Quiet, StartClosed, SendEnds, CooledDown, SecondPasses, FoundUnsupported, ProbesEnd,
     vars, schedulerVars, Age
<1>2. SchedulerIInv'
  BY <1>1, SchedulerFrame DEF IInv
<1>3. unsupported \subseteq unsupported'
  BY DEF Quiet, StartClosed, SendEnds, CooledDown, SecondPasses, FoundUnsupported, ProbesEnd,
     vars, endpointVars
<1>4. Usable \subseteq Usable'
  <2>1. CASE ProbesEnd
    BY <2>1 DEF ProbesEnd, Usable
  <2>2. CASE UNCHANGED role
    BY <2>2 DEF Usable
  <2> QED
    BY <2>1, <2>2 DEF Quiet, StartClosed, SendEnds, CooledDown, SecondPasses, FoundUnsupported,
       vars, endpointVars
<1>5. /\ status' \in [Call -> {"new", "running", "value", "failed", "aborted"}]
      /\ \A c \in Call : status'[c] = "new" => status[c] = "new"
      /\ \A r \in Read : status'[r] = "failed" => status[r] = "failed"
  <2>1. status \in [Call -> {"new", "running", "value", "failed", "aborted"}]
    BY DEF IInv, LaneInv
  <2>2. ASSUME NEW c \in Call, StartClosed(c)
        PROVE  status' = [status EXCEPT ![c] = "aborted"]
    BY <2>2 DEF StartClosed
  <2>3. ASSUME NEW w \in Write, SendEnds(w)
        PROVE  /\ w \in Call /\ \A r \in Read : r # w
               /\ \E x \in {"value", "failed"} : status' = [status EXCEPT ![w] = x]
    BY <2>3, Requests DEF SendEnds, Call
  <2>4. CASE UNCHANGED status
    BY <2>1, <2>4
  <2>5. ASSUME NEW c \in Call, StartClosed(c)
        PROVE  /\ status' \in [Call -> {"new", "running", "value", "failed", "aborted"}]
               /\ \A d \in Call : status'[d] = "new" => status[d] = "new"
               /\ \A r \in Read : status'[r] = "failed" => status[r] = "failed"
    BY <2>1, <2>2, <2>5 DEF Call
  <2>6. ASSUME NEW w \in Write, SendEnds(w)
        PROVE  /\ status' \in [Call -> {"new", "running", "value", "failed", "aborted"}]
               /\ \A d \in Call : status'[d] = "new" => status[d] = "new"
               /\ \A r \in Read : status'[r] = "failed" => status[r] = "failed"
    BY <2>1, <2>3, <2>6 DEF Call
  <2> QED
    BY <2>4, <2>5, <2>6 DEF Quiet, CooledDown, SecondPasses, FoundUnsupported, ProbesEnd, vars
<1>6. LaneInv'
  BY <1>1, <1>5, Requests DEF IInv, LaneInv
<1>7. ReadTypes'
  BY <1>1 DEF IInv, ReadTypes, progress
<1>8. ASSUME NEW r \in Read PROVE TriedInv(r)'
  <2>1. TriedInv(r)
    BY DEF IInv
  <2>2. /\ attempts'[r] = attempts[r] /\ tried'[r] = tried[r] /\ busy'[r] = busy[r]
        /\ excluded'[r] = excluded[r] /\ stopped'[r] = stopped[r] /\ peers'[r] = peers[r]
        /\ lane' = lane /\ at' = at
    BY <1>1 DEF progress
  <2>3. status'[r] = "new" => status[r] = "new"
    BY <1>5 DEF Call
  <2>4. status'[r] = "failed" => status[r] = "failed"
    BY <1>5
  <2>5. busy'[r] \subseteq tried[r]
    BY <2>1, <2>2 DEF TriedInv
  <2>6. \A i \in {1, 2} :
          /\ status'[r] = "failed" => lane'[<<r, i>>] = "failed"
          /\ lane'[<<r, i>>] \in Waiting => at'[<<r, i>>] \in tried[r]
    BY <2>1, <2>2, <2>4 DEF TriedInv
  <2> QED BY <1>3, <1>4, <2>1, <2>2, <2>3, <2>4, <2>5, <2>6, Frame
<1> QED BY <1>2, <1>6, <1>7, <1>8 DEF IInv

(* A lane that asks an endpoint is admitted, or stays outside. *)
LEMMA AsksInv ==
  ASSUME SchedulerIInv, LaneInv, NEW q \in Request, NEW e \in Endpoint, lane[q] \in Stopping,
         NEW refused \in Stopping, Asks(q, e, refused)
  PROVE  /\ SchedulerIInv'
         /\ lane' \in [Request -> Stopping \cup {"queue", "flight"}]
         /\ \A p \in Request : lane'[p] \in Stopping => stage'[p] = "out"
         /\ \A p \in Request : p # q => lane'[p] = lane[p] /\ at'[p] = at[p]
         /\ \/ lane'[q] = "queue" /\ at'[q] = e
            \/ lane'[q] = refused
<1> USE DEF LaneInv
<1>1. stage[q] = "out" /\ at \in [Request -> Endpoint \cup {"none"}] /\ stage \in [Request -> Stages]
  BY DEF SchedulerIInv
<1>2. CASE Admit(q, e) /\ lane' = [lane EXCEPT ![q] = "queue"]
  <2>1. SchedulerIInv'
    BY <1>2, AdmitCounts
  <2>2. /\ \A p \in Request : p # q => stage'[p] = stage[p] /\ at'[p] = at[p]
        /\ at'[q] = e
    BY <1>1, <1>2 DEF Admit
  <2> QED BY <1>2, <2>1, <2>2 DEF Stopping
<1>3. CASE /\ lane' = [lane EXCEPT ![q] = refused] /\ at' = [at EXCEPT ![q] = "none"]
           /\ UNCHANGED <<stage, counters>>
  <2>1. SchedulerIInv'
    BY <1>1, <1>3, OutsideCounts
  <2> QED BY <1>1, <1>3, <2>1
<1> QED BY <1>2, <1>3 DEF Asks

(* The lanes of other reads. *)
LEMMA Others ==
  ASSUME IInv, NEW q \in Request, NEW r \in Read, r # q[1],
         UNCHANGED role, unsupported \subseteq unsupported',
         \A p \in Request : p # q => lane'[p] = lane[p] /\ (at'[p] = at[p] \/ lane'[p] \notin Waiting),
         attempts'[r] = attempts[r], tried'[r] = tried[r], busy'[r] = busy[r],
         excluded'[r] = excluded[r], stopped'[r] = stopped[r], peers'[r] = peers[r],
         status'[r] = status[r]
  PROVE  TriedInv(r)'
<1>1. TriedInv(r) /\ Usable' = Usable
  BY DEF IInv, Usable
<1>2. \A i \in {1, 2} : <<r, i>> \in Request /\ <<r, i>> # q
  BY Requests
<1>3. \A i \in {1, 2} :
        /\ status'[r] = "failed" => lane'[<<r, i>>] = "failed"
        /\ lane'[<<r, i>>] \in Waiting => at'[<<r, i>>] \in tried[r]
  BY <1>1, <1>2 DEF TriedInv
<1>4. busy'[r] \subseteq tried[r]
  BY <1>1 DEF TriedInv
<1> QED BY <1>1, <1>3, <1>4, Frame

LEMMA PickInv ==
  ASSUME IInv, NEW q \in Request, q[1] \in Read, Pick(q) PROVE IInv'
<1> DEFINE r == q[1]
<1>1. /\ q = <<r, q[2]>> /\ q[2] \in {1, 2} /\ r \in Read /\ r \in Call
      /\ lane[q] = "pick" /\ ~ GivesUp(r)
      /\ UNCHANGED <<status, excluded, stopped, peers, role, unsupported>>
      /\ attempts' = [attempts EXCEPT ![r] = @ + 1]
      /\ maxAttempts' = [maxAttempts EXCEPT ![r] = MaxAttempts(r)]
  BY Requests DEF Pick, endpointVars
<1>2. PICK e \in Ranked(r) :
        /\ tried' = [tried EXCEPT ![r] = @ \cup {e}]
        /\ \/ /\ e \in tried[r]
              /\ lane' = [lane EXCEPT ![q] = "pause"]
              /\ at' = [at EXCEPT ![q] = e]
              /\ UNCHANGED <<stage, counters, rates>>
           \/ e \notin tried[r] /\ Asks(q, e, "pick")
        /\ busy' = [busy EXCEPT ![r] = IF lane'[q] = "pick" THEN @ ELSE @ \cup {e}]
  BY DEF Pick
<1>3. e \in Candidates /\ e \in Endpoint /\ e \in Usable
  BY <1>2 DEF Ranked, Candidates, Usable
<1>4. /\ SchedulerIInv'
      /\ lane' \in [Request -> Stopping \cup {"queue", "flight"}]
      /\ \A p \in Request : lane'[p] \in Stopping => stage'[p] = "out"
      /\ \A p \in Request : p # q => lane'[p] = lane[p] /\ at'[p] = at[p]
      /\ lane'[q] \in {"pause", "queue", "pick"}
      /\ lane'[q] \in Waiting => at'[q] = e
  <2>1. CASE e \notin tried[r] /\ Asks(q, e, "pick")
    BY <1>1, <1>3, <2>1, AsksInv DEF IInv, Stopping, Waiting
  <2>2. CASE /\ lane' = [lane EXCEPT ![q] = "pause"] /\ at' = [at EXCEPT ![q] = e]
             /\ UNCHANGED <<stage, counters>>
    <3>1. at \in [Request -> Endpoint \cup {"none"}] /\ stage[q] = "out"
      BY <1>1 DEF IInv, SchedulerIInv, LaneInv, Stopping
    <3>2. SchedulerIInv'
      BY <1>3, <2>2, <3>1, OutsideCounts DEF IInv
    <3> QED BY <2>2, <3>1, <3>2 DEF IInv, LaneInv, Stopping
  <2> QED BY <1>2, <2>1, <2>2
<1>5. LaneInv'
  <2>1. status[r] # "new"
    BY <1>1 DEF IInv, LaneInv
  <2> QED BY <1>1, <1>4, <2>1 DEF IInv, LaneInv
<1>6. MaxAttempts(r) \in Nat
  <2>1. Candidates \cup excluded[r] \in SUBSET Endpoint
    BY <1>1 DEF IInv, ReadTypes, Candidates
  <2>2. Cardinality(Candidates \cup excluded[r]) \in Nat
    BY <2>1, Requests, FS_Subset, FS_CardinalityType
  <2> QED BY <1>1, <2>2 DEF MaxAttempts, IInv, ReadTypes
<1>7. ReadTypes'
  <2>1. tried[r] \cup {e} \in SUBSET Endpoint /\ busy[r] \cup {e} \in SUBSET Endpoint
    BY <1>1, <1>3 DEF IInv, ReadTypes
  <2> QED BY <1>1, <1>2, <1>6, <2>1 DEF IInv, ReadTypes
<1>8. ASSUME NEW s \in Read, s # r PROVE TriedInv(s)'
  <2>1. /\ attempts'[s] = attempts[s] /\ tried'[s] = tried[s] /\ busy'[s] = busy[s]
        /\ excluded'[s] = excluded[s] /\ stopped'[s] = stopped[s] /\ peers'[s] = peers[s]
        /\ status'[s] = status[s]
    BY <1>1, <1>2, <1>8 DEF IInv, ReadTypes
  <2> QED BY <1>1, <1>4, <1>8, <2>1, Others
<1>9. TriedInv(r)'
  <2>1. TriedInv(r)
    BY <1>1 DEF IInv
  <2>2. /\ tried'[r] = tried[r] \cup {e} /\ attempts'[r] = attempts[r] + 1
        /\ busy'[r] \subseteq busy[r] \cup {e}
        /\ excluded'[r] = excluded[r] /\ peers'[r] = peers[r] /\ status'[r] = status[r]
    BY <1>1, <1>2 DEF IInv, ReadTypes
  <2>3. Usable' = Usable /\ Candidates' = Candidates
    BY <1>1 DEF Usable, Candidates
  <2>4. IsFiniteSet(tried[r]) /\ Cardinality(tried[r]) \in Nat
    BY <1>1, Requests, FS_Subset, FS_CardinalityType DEF IInv, ReadTypes
  <2>5. ASSUME Candidates \subseteq tried[r] PROVE Asked(r)'
    BY <2>2, <2>3, <2>5 DEF Asked
  <2>6. ASSUME ~ (Candidates \subseteq tried[r])
        PROVE  Asked(r)' \/ attempts'[r] = Cardinality(tried'[r])
    <3> DEFINE untried == (Candidates \ (excluded[r] \cup busy[r])) \ tried[r]
    <3>1. untried # {}
      BY <2>1, <2>6 DEF TriedInv
    <3>2. Ranked(r) = untried
      BY <3>1 DEF Ranked
    <3>3. e \notin tried[r]
      BY <1>2, <3>2
    <3>4. Cardinality(tried'[r]) = Cardinality(tried[r]) + 1
      BY <2>2, <2>4, <3>3, FS_AddElement
    <3> QED BY <2>1, <2>2, <2>3, <3>4 DEF TriedInv, Asked
  <2>7. Asked(r)' \/ attempts'[r] = Cardinality(tried'[r])
    BY <2>5, <2>6
  <2>8. status'[r] # "new" /\ status'[r] # "failed"
    BY <1>1, <2>1, <2>2 DEF IInv, LaneInv, TriedInv
  <2>9. \A i \in {1, 2} : lane'[<<r, i>>] \in Waiting => at'[<<r, i>>] \in tried'[r]
    <3> SUFFICES ASSUME NEW i \in {1, 2}, lane'[<<r, i>>] \in Waiting
                 PROVE  at'[<<r, i>>] \in tried'[r]
      OBVIOUS
    <3>1. CASE <<r, i>> = q
      BY <1>4, <2>2, <3>1
    <3>2. CASE <<r, i>> # q
      BY <1>1, <1>4, <2>1, <2>2, <3>2, Requests DEF TriedInv
    <3> QED BY <3>1, <3>2
  <2> QED BY <1>3, <2>1, <2>2, <2>3, <2>7, <2>8, <2>9 DEF TriedInv
<1> QED BY <1>4, <1>5, <1>7, <1>8, <1>9 DEF IInv

(* Steps of one lane that leave what the reads know alone. *)
LEMMA Same ==
  ASSUME IInv, UNCHANGED <<status, role, unsupported, attempts, tried, excluded, stopped, peers>>,
         NEW r \in Read, busy'[r] \subseteq busy[r],
         \A i \in {1, 2} :
           /\ status[r] = "failed" => lane'[<<r, i>>] = "failed"
           /\ lane'[<<r, i>>] \in Waiting => at'[<<r, i>>] \in tried[r]
  PROVE  TriedInv(r)'
<1>1. TriedInv(r) /\ Usable' = Usable
  BY DEF IInv, Usable
<1>2. busy'[r] \subseteq tried[r]
  BY <1>1 DEF TriedInv
<1> QED BY <1>1, <1>2, Frame

LEMMA ResumeInv ==
  ASSUME IInv, NEW q \in Request, q[1] \in Read, Resume(q) PROVE IInv'
<1> DEFINE r == q[1]
<1>1. /\ q = <<r, q[2]>> /\ q[2] \in {1, 2} /\ r \in Read /\ r \in Call /\ lane[q] = "pause"
      /\ UNCHANGED <<status, role, unsupported, attempts, maxAttempts, tried, excluded, stopped, peers>>
      /\ busy' = [busy EXCEPT ![r] = IF lane'[q] = "pick" THEN @ \ {at[q]} ELSE @]
      /\ Asks(q, at[q], "pick")
  BY Requests DEF Resume, endpointVars
<1>2. at[q] \in tried[r] /\ at[q] \in Endpoint
  <2>1. at[q] \in tried[r]
    BY <1>1 DEF IInv, TriedInv, Waiting
  <2> QED BY <1>1, <2>1 DEF IInv, ReadTypes
<1>3. /\ SchedulerIInv'
      /\ lane' \in [Request -> Stopping \cup {"queue", "flight"}]
      /\ \A p \in Request : lane'[p] \in Stopping => stage'[p] = "out"
      /\ \A p \in Request : p # q => lane'[p] = lane[p] /\ at'[p] = at[p]
      /\ \/ lane'[q] = "queue" /\ at'[q] = at[q]
         \/ lane'[q] = "pick"
  BY <1>1, <1>2, AsksInv DEF IInv, Stopping
<1>4. LaneInv'
  <2>1. status[r] # "new"
    BY <1>1 DEF IInv, LaneInv
  <2> QED BY <1>1, <1>3, <2>1 DEF IInv, LaneInv
<1>5. ReadTypes' /\ \A s \in Read : busy'[s] \subseteq busy[s]
  BY <1>1 DEF IInv, ReadTypes
<1>6. ASSUME NEW s \in Read PROVE TriedInv(s)'
  <2>1. \A i \in {1, 2} :
          /\ status[s] = "failed" => lane'[<<s, i>>] = "failed"
          /\ lane'[<<s, i>>] \in Waiting => at'[<<s, i>>] \in tried[s]
    <3> SUFFICES ASSUME NEW i \in {1, 2}
                 PROVE  /\ status[s] = "failed" => lane'[<<s, i>>] = "failed"
                        /\ lane'[<<s, i>>] \in Waiting => at'[<<s, i>>] \in tried[s]
      OBVIOUS
    <3>1. TriedInv(s) /\ <<s, i>> \in Request
      BY Requests DEF IInv
    <3>2. CASE <<s, i>> = q
      BY <1>1, <1>2, <1>3, <3>1, <3>2 DEF TriedInv, Waiting
    <3>3. CASE <<s, i>> # q
      BY <1>3, <3>1, <3>3 DEF TriedInv
    <3> QED BY <3>2, <3>3
  <2> QED BY <1>1, <1>5, <2>1, Same
<1> QED BY <1>3, <1>4, <1>5, <1>6 DEF IInv

(* A lane gives up: the attempts are used up, or nobody is left to ask. *)
LEMMA GivesUpAsked ==
  ASSUME IInv, NEW r \in Read, GivesUp(r), ~ stopped[r],
         tried[r] \subseteq Candidates \cup excluded[r]
  PROVE  Asked(r)
<1>1. TriedInv(r) /\ tried[r] \in SUBSET Endpoint /\ attempts[r] \in Nat /\ maxAttempts[r] \in Nat
  BY DEF IInv, ReadTypes
<1>2. CASE Ranked(r) = {}
  <2>1. Candidates \ (excluded[r] \cup busy[r]) = {}
    BY <1>2 DEF Ranked
  <2> QED BY <1>1, <2>1 DEF TriedInv, Asked
<1>3. CASE attempts[r] >= MaxAttempts(r) /\ ~ Asked(r)
  <2> DEFINE known == Candidates \cup excluded[r]
  <2>1. known \in SUBSET Endpoint
    BY DEF IInv, ReadTypes, Candidates
  <2>2. IsFiniteSet(known) /\ Cardinality(known) \in Nat /\ Cardinality(tried[r]) \in Nat
    BY <1>1, <2>1, Requests, FS_Subset, FS_CardinalityType
  <2>3. Cardinality(tried[r]) >= Cardinality(known)
    BY <1>1, <1>3, <2>2 DEF TriedInv, MaxAttempts
  <2>4. tried[r] = known
    BY <2>2, <2>3, FS_Subset
  <2> QED BY <2>4 DEF Asked
<1> QED BY <1>2, <1>3 DEF GivesUp

LEMMA GiveUpInv ==
  ASSUME IInv, NEW q \in Request, q[1] \in Read, GiveUp(q) PROVE IInv'
<1> DEFINE r == q[1]
<1>1. /\ q = <<r, q[2]>> /\ q[2] \in {1, 2} /\ r \in Read /\ r \in Call
      /\ lane[q] = "pick" /\ GivesUp(r)
      /\ lane' = [lane EXCEPT ![q] = "failed"]
      /\ status' = [status EXCEPT ![r] =
           IF \A p \in Lanes(r) : lane'[p] = "failed" THEN "failed" ELSE @]
      /\ maxAttempts' = [maxAttempts EXCEPT ![r] = IF stopped[r] THEN @ ELSE MaxAttempts(r)]
      /\ UNCHANGED <<attempts, tried, busy, excluded, stopped, peers, role, unsupported,
                     stage, at, counters>>
  BY Requests DEF GiveUp, endpointVars, schedulerVars
<1>2. SchedulerIInv'
  BY <1>1, SchedulerFrame DEF IInv
<1>3. LaneInv'
  <2>1. status[r] # "new"
    BY <1>1 DEF IInv, LaneInv
  <2>2. status' \in [Call -> {"new", "running", "value", "failed", "aborted"}]
    BY <1>1 DEF IInv, LaneInv
  <2>3. \A c \in Call : status'[c] = "new" => status[c] = "new" /\ c # r
    BY <1>1, <2>1 DEF IInv, LaneInv
  <2>4. lane' \in [Request -> Stopping \cup {"queue", "flight"}]
    BY <1>1 DEF IInv, LaneInv, Stopping
  <2>5. \A p \in Request : lane'[p] \in Stopping => stage'[p] = "out"
    BY <1>1 DEF IInv, LaneInv, Stopping
  <2>6. \A p \in Request : status'[p[1]] = "new" => lane'[p] = "off"
    BY <1>1, <2>3, Requests DEF IInv, LaneInv
  <2> QED BY <2>2, <2>4, <2>5, <2>6 DEF LaneInv
<1>4. ReadTypes'
  <2>1. Candidates \cup excluded[r] \in SUBSET Endpoint
    BY <1>1 DEF IInv, ReadTypes, Candidates
  <2>2. Cardinality(Candidates \cup excluded[r]) \in Nat
    BY <2>1, Requests, FS_Subset, FS_CardinalityType
  <2>3. MaxAttempts(r) \in Nat
    BY <1>1, <2>2 DEF MaxAttempts, IInv, ReadTypes
  <2> QED BY <1>1, <2>3 DEF IInv, ReadTypes
<1>5. ASSUME NEW s \in Read, s # r PROVE TriedInv(s)'
  <2>1. status'[s] = status[s]
    BY <1>1, <1>5 DEF IInv, LaneInv, Call
  <2>2. \A p \in Request : p # q => lane'[p] = lane[p] /\ at'[p] = at[p]
    BY <1>1 DEF IInv, LaneInv
  <2> QED BY <1>1, <1>5, <2>1, <2>2, Others
<1>6. TriedInv(r)'
  <2>1. TriedInv(r)
    BY <1>1 DEF IInv
  <2>2. Usable' = Usable /\ Candidates' = Candidates
    BY <1>1 DEF Usable, Candidates
  <2>3. status'[r] # "new"
    BY <1>1 DEF IInv, LaneInv
  <2>4. status[r] # "failed"
    BY <1>1, <2>1 DEF TriedInv
  <2>5. ASSUME NEW i \in {1, 2}, status'[r] = "failed" PROVE lane'[<<r, i>>] = "failed"
    <3>1. Lanes(r) = {r} \X {1, 2}
      BY <1>1 DEF Lanes
    <3>2. \A p \in Lanes(r) : lane'[p] = "failed"
      BY <1>1, <2>4, <2>5 DEF IInv, LaneInv
    <3> QED BY <3>1, <3>2
  <2>6. ASSUME NEW i \in {1, 2}, lane'[<<r, i>>] \in Waiting PROVE at'[<<r, i>>] \in tried'[r]
    BY <1>1, <2>1, <2>6, Requests DEF IInv, LaneInv, TriedInv, Waiting
  <2>7. ~ stopped'[r] /\ tried'[r] \subseteq Candidates' \cup excluded'[r] => Asked(r)'
    BY <1>1, <2>2, GivesUpAsked DEF Asked
  <2> QED BY <1>1, <2>1, <2>2, <2>3, <2>5, <2>6, <2>7 DEF TriedInv, Asked
<1> QED BY <1>2, <1>3, <1>4, <1>5, <1>6 DEF IInv

(* A read, or its hedge, or a transaction begins: no request is inside. *)
LEMMA BeginsInv ==
  ASSUME IInv, NEW c \in Call, Start(c) \/ (c \in Read /\ Hedge(c)) \/ SendAll(c) PROVE IInv'
<1>1. /\ status[c] \in {"new", "running"} /\ status' = [status EXCEPT ![c] = "running"]
      /\ lane' \in [Request -> {"pick"} \cup Stopping \cup {"queue", "flight"}]
      /\ \A p \in Request : \/ lane'[p] = lane[p]
                            \/ p[1] = c /\ lane[p] = "off" /\ lane'[p] = "pick"
      /\ UNCHANGED <<attempts, maxAttempts, tried, busy, excluded, stopped, role, unsupported,
                     stage, at, counters>>
  <2>1. \A p \in Request : status[p[1]] = "new" => lane[p] = "off"
    BY DEF IInv, LaneInv
  <2>2. CASE Start(c)
    <3>1. <<c, 1>> \in Request /\ lane[<<c, 1>>] = "off" /\ status[c] = "new"
      BY <2>1, <2>2, Requests DEF Start
    <3> QED BY <2>2, <3>1 DEF Start, IInv, LaneInv, Stopping, endpointVars, schedulerVars
  <2>3. CASE c \in Read /\ Hedge(c)
    <3>1. <<c, 2>> \in Request /\ lane[<<c, 2>>] = "off" /\ status[c] = "running"
      BY <2>3, Requests DEF Hedge
    <3>2. status' = [status EXCEPT ![c] = "running"]
      BY <2>3, <3>1 DEF Hedge, IInv, LaneInv
    <3>3. /\ lane' = [lane EXCEPT ![<<c, 2>>] = "pick"]
          /\ UNCHANGED <<attempts, maxAttempts, tried, busy, excluded, stopped, role, unsupported,
                         stage, at, counters>>
      BY <2>3 DEF Hedge, progress, endpointVars, schedulerVars
    <3>4. lane \in [Request -> Stopping \cup {"queue", "flight"}]
      BY DEF IInv, LaneInv
    <3>5. /\ lane' \in [Request -> {"pick"} \cup Stopping \cup {"queue", "flight"}]
          /\ \A p \in Request : \/ lane'[p] = lane[p]
                                \/ p[1] = c /\ lane[p] = "off" /\ lane'[p] = "pick"
      BY <3>1, <3>3, <3>4
    <3> QED BY <3>1, <3>2, <3>3, <3>5
  <2>4. CASE SendAll(c)
    <3>1. /\ status[c] = "new" /\ status' = [status EXCEPT ![c] = "running"]
          /\ lane' = [q \in Request |->
               IF q[1] = c /\ role[q[2]] = "selected" THEN "pick" ELSE lane[q]]
          /\ UNCHANGED <<attempts, maxAttempts, tried, busy, excluded, stopped, role, unsupported,
                         stage, at, counters>>
      BY <2>4 DEF SendAll, progress, endpointVars, schedulerVars
    <3>2. \A p \in Request : lane'[p] \in {"pick"} \cup Stopping \cup {"queue", "flight"}
      BY <3>1 DEF IInv, LaneInv
    <3>3. \A p \in Request : \/ lane'[p] = lane[p]
                             \/ p[1] = c /\ lane[p] = "off" /\ lane'[p] = "pick"
      BY <2>1, <3>1
    <3> QED BY <3>1, <3>2, <3>3
  <2> QED BY <2>2, <2>3, <2>4
<1>2. SchedulerIInv'
  BY <1>1, SchedulerFrame DEF IInv
<1>3. LaneInv'
  <2>1. status' \in [Call -> {"new", "running", "value", "failed", "aborted"}]
    BY <1>1 DEF IInv, LaneInv
  <2>2. \A d \in Call : status'[d] = "new" => status[d] = "new" /\ d # c
    BY <1>1 DEF IInv, LaneInv
  <2>3. lane' \in [Request -> Stopping \cup {"queue", "flight"}]
    BY <1>1 DEF Stopping
  <2>4. \A p \in Request : lane'[p] \in Stopping => stage'[p] = "out"
    BY <1>1 DEF IInv, LaneInv, Stopping
  <2>5. \A p \in Request : status'[p[1]] = "new" => lane'[p] = "off"
    BY <1>1, <2>2, Requests DEF IInv, LaneInv
  <2> QED BY <2>1, <2>3, <2>4, <2>5 DEF LaneInv
<1>4. /\ peers' \in [Read -> SUBSET Endpoint]
      /\ \A r \in Read : \/ peers'[r] = peers[r]
                         \/ r = c /\ status[c] = "new" /\ peers'[r] = Candidates
  <2>1. CASE Start(c)
    BY <2>1 DEF Start, IInv, ReadTypes, Candidates
  <2>2. CASE peers' = peers
    BY <2>2 DEF IInv, ReadTypes
  <2> QED BY <2>1, <2>2 DEF Hedge, SendAll, progress
<1>5. ReadTypes'
  BY <1>1, <1>4 DEF IInv, ReadTypes
<1>6. ASSUME NEW r \in Read PROVE TriedInv(r)'
  <2>1. TriedInv(r) /\ r \in Call /\ Usable' = Usable /\ Candidates' = Candidates
    BY <1>1 DEF IInv, Call, Usable, Candidates
  <2>2. /\ status'[r] = "new" => status[r] = "new"
        /\ status'[r] = "failed" => status[r] = "failed" /\ r # c
    BY <1>1, <2>1 DEF IInv, LaneInv
  <2>3. ASSUME NEW i \in {1, 2}
        PROVE  /\ status'[r] = "failed" => lane'[<<r, i>>] = "failed"
               /\ lane'[<<r, i>>] \in Waiting => at'[<<r, i>>] \in tried[r]
    <3>1. /\ <<r, i>> \in Request
          /\ \/ lane'[<<r, i>>] = lane[<<r, i>>]
             \/ r = c /\ lane'[<<r, i>>] = "pick"
      BY <1>1, Requests
    <3> QED BY <1>1, <2>1, <2>2, <3>1 DEF TriedInv, Waiting
  <2>4. CASE peers'[r] = peers[r]
    <3>1. busy'[r] \subseteq tried[r]
      BY <1>1, <2>1 DEF TriedInv
    <3> QED BY <1>1, <2>1, <2>2, <2>3, <2>4, <3>1, Frame
  <2>5. CASE r = c /\ status[c] = "new" /\ peers'[r] = Candidates
    <3>1. tried[r] = {} /\ attempts[r] = 0
      BY <2>1, <2>5 DEF TriedInv
    <3>2. Cardinality(tried'[r]) = attempts'[r]
      BY <1>1, <3>1, FS_EmptySet
    <3>3. peers'[r] \subseteq Usable'
      BY <2>1, <2>5, CandidatesUsable
    <3> QED BY <1>1, <2>1, <2>2, <2>3, <2>5, <3>1, <3>2, <3>3 DEF TriedInv
  <2> QED BY <1>4, <2>4, <2>5
<1> QED BY <1>2, <1>3, <1>5, <1>6 DEF IInv

(* A sending asks its endpoint. *)
LEMMA SendToInv == ASSUME IInv, NEW q \in Request, SendTo(q) PROVE IInv'
<1>1. /\ q[1] \in Write /\ q[2] \in Endpoint /\ lane[q] = "pick" /\ Asks(q, q[2], "failed")
      /\ UNCHANGED <<status, attempts, maxAttempts, tried, busy, excluded, stopped, peers,
                     role, unsupported>>
  BY Requests DEF SendTo, progress, endpointVars
<1>2. /\ SchedulerIInv'
      /\ lane' \in [Request -> Stopping \cup {"queue", "flight"}]
      /\ \A p \in Request : lane'[p] \in Stopping => stage'[p] = "out"
      /\ \A p \in Request : p # q => lane'[p] = lane[p] /\ at'[p] = at[p]
  BY <1>1, AsksInv DEF IInv, Stopping
<1>3. LaneInv'
  <2>1. status[q[1]] # "new"
    BY <1>1 DEF IInv, LaneInv
  <2> QED BY <1>1, <1>2, <2>1 DEF IInv, LaneInv
<1>4. ReadTypes'
  BY <1>1 DEF IInv, ReadTypes
<1>5. ASSUME NEW r \in Read PROVE TriedInv(r)'
  <2>1. r # q[1]
    BY <1>1, Requests
  <2> QED BY <1>1, <1>2, <2>1, Others
<1> QED BY <1>2, <1>3, <1>4, <1>5 DEF IInv

(* A request moves on in the scheduler. *)
LEMMA WaitsInv == ASSUME IInv, NEW q \in Request, Waits(q) PROVE IInv'
<1>1. /\ lane[q] = "queue" /\ lane \in [Request -> Stopping \cup {"queue", "flight"}]
      /\ UNCHANGED <<status, attempts, maxAttempts, tried, busy, excluded, stopped, peers,
                     role, unsupported>>
  BY DEF Waits, progress, endpointVars, IInv, LaneInv
<1>2. lane' \in [Request -> Stopping \cup {"queue", "flight"}]
      /\ (\A p \in Request : p # q => lane'[p] = lane[p]) /\ lane'[q] \in {"queue", "flight"}
  BY <1>1 DEF Waits
<1>3. SchedulerIInv'
  <2>1. CASE UNCHANGED schedulerVars
    BY <2>1, SchedulerFrame DEF IInv, schedulerVars
  <2> QED BY <2>1, SlotCounts, PermitCounts, SendCounts DEF IInv, Waits
<1>4. at' = at /\ \A p \in Request : p # q => stage'[p] = stage[p]
  BY DEF Waits, TakeSlot, TakePermit, Send, schedulerVars, IInv, SchedulerIInv
<1>5. LaneInv'
  <2>1. status[q[1]] # "new"
    BY <1>1 DEF IInv, LaneInv
  <2>2. \A p \in Request : lane'[p] \in Stopping => stage'[p] = "out"
    BY <1>2, <1>4 DEF IInv, LaneInv, Stopping
  <2> QED BY <1>1, <1>2, <2>1, <2>2 DEF IInv, LaneInv
<1>6. ReadTypes'
  BY <1>1 DEF IInv, ReadTypes
<1>7. ASSUME NEW r \in Read PROVE TriedInv(r)'
  <2>1. ASSUME NEW i \in {1, 2}
        PROVE  /\ status[r] = "failed" => lane'[<<r, i>>] = "failed"
               /\ lane'[<<r, i>>] \in Waiting => at'[<<r, i>>] \in tried[r]
    <3>1. TriedInv(r) /\ <<r, i>> \in Request
      BY Requests DEF IInv
    <3>2. CASE <<r, i>> = q
      BY <1>1, <1>2, <1>4, <3>1, <3>2 DEF TriedInv, Waiting
    <3>3. CASE <<r, i>> # q
      BY <1>2, <1>4, <3>1, <3>3 DEF TriedInv
    <3> QED BY <3>2, <3>3
  <2> QED BY <1>1, <2>1, Same
<1> QED BY <1>3, <1>5, <1>6, <1>7 DEF IInv

(* Calls that end by an answer, their deadline, their caller or a close. *)
LEMMA CancelInv ==
  ASSUME IInv, NEW C \in SUBSET Call, NEW ending \in {"value", "aborted"}, Cancel(C, ending)
  PROVE  IInv'
<1> DEFINE R == {q \in Request : q[1] \in C}
<1>1. /\ status' = [c \in Call |-> IF c \in C THEN ending ELSE status[c]]
      /\ lane' = [q \in Request |-> IF q[1] \in C THEN "off" ELSE lane[q]]
      /\ Forget(C) /\ Release(R) /\ UNCHANGED <<unsupported, role>>
  BY DEF Cancel
<1>2. /\ SchedulerIInv' /\ \A q \in R : stage'[q] = "out"
      /\ \A q \in Request : q \notin R => stage'[q] = stage[q] /\ at'[q] = at[q]
  BY <1>1, ReleaseCounts DEF IInv, Release
<1>3. LaneInv'
  <2>1. /\ status' \in [Call -> {"new", "running", "value", "failed", "aborted"}]
        /\ lane' \in [Request -> Stopping \cup {"queue", "flight"}]
    BY <1>1 DEF IInv, LaneInv, Stopping
  <2>2. \A q \in Request : lane'[q] \in Stopping => stage'[q] = "out"
    BY <1>1, <1>2 DEF IInv, LaneInv
  <2>3. \A q \in Request : status'[q[1]] = "new" => lane'[q] = "off"
    BY <1>1, Requests DEF IInv, LaneInv
  <2> QED BY <2>1, <2>2, <2>3 DEF LaneInv
<1>4. ReadTypes'
  <2>1. MinAttempts \in Nat
    BY ReadAssumption
  <2> QED BY <1>1, <2>1 DEF IInv, ReadTypes, Forget
<1>5. ASSUME NEW r \in Read PROVE TriedInv(r)'
  <2>1. TriedInv(r) /\ r \in Call /\ Usable' = Usable
    BY <1>1 DEF IInv, Call, Usable
  <2>2. CASE r \in C
    <3>1. /\ tried'[r] = {} /\ busy'[r] = {} /\ excluded'[r] = {} /\ peers'[r] = {}
          /\ attempts'[r] = 0 /\ status'[r] = ending
      BY <1>1, <2>1, <2>2 DEF Forget
    <3>2. \A j \in {1, 2} : lane'[<<r, j>>] = "off"
      BY <1>1, <2>2, Requests
    <3> QED BY <3>1, <3>2, FS_EmptySet DEF TriedInv, Asked, Waiting
  <2>3. CASE r \notin C
    <3>1. /\ attempts'[r] = attempts[r] /\ tried'[r] = tried[r] /\ busy'[r] = busy[r]
          /\ excluded'[r] = excluded[r] /\ stopped'[r] = stopped[r] /\ peers'[r] = peers[r]
          /\ status'[r] = status[r]
      BY <1>1, <2>1, <2>3 DEF Forget
    <3>2. \A j \in {1, 2} : lane'[<<r, j>>] = lane[<<r, j>>] /\ at'[<<r, j>>] = at[<<r, j>>]
      BY <1>1, <1>2, <2>3, Requests
    <3>3. busy'[r] \subseteq tried[r]
      BY <2>1, <3>1 DEF TriedInv
    <3>4. \A j \in {1, 2} :
            /\ status'[r] = "failed" => lane'[<<r, j>>] = "failed"
            /\ lane'[<<r, j>>] \in Waiting => at'[<<r, j>>] \in tried[r]
      BY <2>1, <3>1, <3>2 DEF TriedInv
    <3> QED BY <1>1, <2>1, <3>1, <3>3, <3>4, Frame
  <2> QED BY <2>2, <2>3
<1> QED BY <1>2, <1>3, <1>4, <1>5 DEF IInv

(* An attempt that ends without ending its call. *)
LEMMA AttemptEnds ==
  ASSUME IInv, NEW q \in Request, lane[q] = "flight", Release({q}),
         NEW x \in {"pick", "failed", "answered"}, lane' = [lane EXCEPT ![q] = x],
         UNCHANGED status
  PROVE  /\ SchedulerIInv' /\ LaneInv'
         /\ \A p \in Request : p # q => lane'[p] = lane[p] /\ at'[p] = at[p]
         /\ lane'[q] = x
<1>1. /\ SchedulerIInv' /\ stage'[q] = "out"
      /\ \A p \in Request : p # q => stage'[p] = stage[p] /\ at'[p] = at[p]
  <2>1. {q} \in SUBSET Request
    OBVIOUS
  <2>2. SchedulerIInv' /\ stage'[q] = "out"
    BY <2>1, ReleaseCounts DEF IInv
  <2>3. \A p \in Request : p # q => stage'[p] = stage[p] /\ at'[p] = at[p]
    BY DEF Release
  <2> QED BY <2>2, <2>3
<1>2. /\ lane' \in [Request -> Stopping \cup {"queue", "flight"}] /\ lane'[q] = x
      /\ \A p \in Request : p # q => lane'[p] = lane[p]
  BY DEF IInv, LaneInv, Stopping
<1>3. status[q[1]] # "new"
  BY DEF IInv, LaneInv
<1>4. \A p \in Request : lane'[p] \in Stopping => stage'[p] = "out"
  BY <1>1, <1>2 DEF IInv, LaneInv
<1> QED BY <1>1, <1>2, <1>3, <1>4 DEF IInv, LaneInv

LEMMA FailedInv ==
  ASSUME IInv, NEW q \in Request, NEW policy, lane[q] = "flight", Failed(q, policy),
         Release({q}), UNCHANGED <<status, role>>
  PROVE  IInv'
<1>1. CASE q[1] \in Write
  <2>1. /\ lane' = [lane EXCEPT ![q] = "failed"] /\ UNCHANGED unsupported
        /\ UNCHANGED <<attempts, maxAttempts, tried, busy, excluded, stopped, peers>>
    BY <1>1, Requests DEF Failed, progress
  <2>2. /\ SchedulerIInv' /\ LaneInv'
        /\ \A p \in Request : p # q => lane'[p] = lane[p] /\ at'[p] = at[p]
    BY <2>1, AttemptEnds
  <2>3. ReadTypes'
    BY <2>1 DEF IInv, ReadTypes
  <2>4. ASSUME NEW r \in Read PROVE TriedInv(r)'
    <3>1. r # q[1]
      BY <1>1, Requests
    <3> QED BY <2>1, <2>2, <3>1, Others
  <2> QED BY <2>2, <2>3, <2>4 DEF IInv
<1>2. CASE q[1] \in Read
  <2> DEFINE r == q[1]
  <2>1. /\ r \in Read /\ q = <<r, q[2]>> /\ q[2] \in {1, 2}
        /\ lane' = [lane EXCEPT ![q] = "pick"]
        /\ busy' = [busy EXCEPT ![r] = @ \ {at[q]}]
        /\ stopped' = [stopped EXCEPT ![r] = @ \/ policy = "stop"]
        /\ excluded' = [excluded EXCEPT ![r] =
             IF policy \in {"rotate", "unsupported"} THEN @ \cup {at[q]} ELSE @]
        /\ unsupported \subseteq unsupported'
        /\ UNCHANGED <<attempts, maxAttempts, tried, peers>>
    BY <1>2, Requests DEF Failed
  <2>2. /\ SchedulerIInv' /\ LaneInv'
        /\ \A p \in Request : p # q => lane'[p] = lane[p] /\ at'[p] = at[p]
        /\ lane'[q] = "pick"
    BY <2>1, AttemptEnds
  <2>3. TriedInv(r) /\ at[q] \in tried[r] /\ tried[r] \in SUBSET Endpoint
    BY <2>1 DEF IInv, TriedInv, Waiting, ReadTypes
  <2>4. ReadTypes'
    <3>1. busy' \in [Read -> SUBSET Endpoint] /\ excluded' \in [Read -> SUBSET Endpoint]
      BY <2>1, <2>3 DEF IInv, ReadTypes
    <3>2. stopped' \in [Read -> BOOLEAN]
      <4>1. (stopped[r] \/ policy = "stop") \in BOOLEAN
        OBVIOUS
      <4> QED BY <2>1, <4>1 DEF IInv, ReadTypes
    <3> QED BY <2>1, <3>1, <3>2 DEF IInv, ReadTypes
  <2>5. ASSUME NEW s \in Read, s # r PROVE TriedInv(s)'
    <3>1. /\ attempts'[s] = attempts[s] /\ tried'[s] = tried[s] /\ busy'[s] = busy[s]
          /\ excluded'[s] = excluded[s] /\ stopped'[s] = stopped[s] /\ peers'[s] = peers[s]
          /\ status'[s] = status[s]
      BY <2>1, <2>5 DEF IInv, ReadTypes
    <3> QED BY <2>1, <2>2, <2>5, <3>1, Others
  <2>6. TriedInv(r)'
    <3>1. /\ tried'[r] = tried[r] /\ attempts'[r] = attempts[r] /\ peers'[r] = peers[r]
          /\ status'[r] = status[r] /\ busy'[r] \subseteq tried[r] /\ excluded'[r] \subseteq tried[r]
      BY <2>1, <2>3 DEF IInv, ReadTypes, TriedInv
    <3>2. Usable' = Usable /\ Candidates' \subseteq Candidates
      BY <2>1 DEF Usable, Candidates
    <3>3. Asked(r) => Asked(r)'
      BY <3>1, <3>2 DEF Asked
    <3>4. status[r] # "new" /\ status[r] # "failed"
      BY <2>1, <2>3 DEF IInv, LaneInv, TriedInv
    <3>5. ASSUME NEW j \in {1, 2}, lane'[<<r, j>>] \in Waiting PROVE at'[<<r, j>>] \in tried'[r]
      <4>1. <<r, j>> # q /\ <<r, j>> \in Request
        BY <2>1, <2>2, <3>5, Requests DEF Waiting
      <4> QED BY <2>2, <2>3, <3>1, <3>5, <4>1 DEF TriedInv
    <3> QED BY <2>3, <3>1, <3>2, <3>3, <3>4, <3>5 DEF TriedInv
  <2> QED BY <2>2, <2>4, <2>5, <2>6 DEF IInv
<1> QED BY <1>1, <1>2 DEF Failed

LEMMA AnswerInv == ASSUME IInv, NEW q \in Request, Answer(q) PROVE IInv'
<1>1. CASE Cancel({q[1]}, "value")
  BY <1>1, CancelInv, Requests
<1>2. CASE /\ q[1] \in Write /\ lane' = [lane EXCEPT ![q] = "answered"] /\ Release({q})
           /\ UNCHANGED <<status, progress, unsupported, role>>
  <2>1. /\ UNCHANGED <<attempts, maxAttempts, tried, busy, excluded, stopped, peers>>
        /\ lane[q] = "flight"
    BY <1>2 DEF progress, Answer
  <2>2. /\ SchedulerIInv' /\ LaneInv'
        /\ \A p \in Request : p # q => lane'[p] = lane[p] /\ at'[p] = at[p]
    BY <1>2, <2>1, AttemptEnds
  <2>3. ReadTypes'
    BY <2>1 DEF IInv, ReadTypes
  <2>4. ASSUME NEW r \in Read PROVE TriedInv(r)'
    <3>1. r # q[1]
      BY <1>2, Requests
    <3> QED BY <1>2, <2>1, <2>2, <3>1, Others
  <2> QED BY <2>2, <2>3, <2>4 DEF IInv
<1> QED BY <1>1, <1>2 DEF Answer
-----------------------------------------------------------------------------
LEMMA NextInv == ASSUME IInv, [Next]_vars PROVE IInv'
<1>1. CASE Quiet
  BY <1>1, QuietInv
<1>2. ASSUME NEW q \in Request, Proceeds(q) PROVE IInv'
  <2>1. CASE Failure(q)
    BY <2>1, FailedInv DEF Failure
  <2>2. CASE RateLimited(q)
    BY <2>2, FailedInv DEF RateLimited
  <2> QED
    BY <1>2, <2>1, <2>2, PickInv, ResumeInv, GiveUpInv, SendToInv, WaitsInv, AnswerInv
       DEF Proceeds
<1>3. ASSUME NEW c \in Call, Abort(c) PROVE IInv'
  <2>1. {c} \in SUBSET Call /\ Cancel({c}, "aborted")
    BY <1>3 DEF Abort
  <2> QED BY <2>1, CancelInv
<1>4. CASE Close
  <2>1. Cancel({c \in Call : status[c] = "running"}, "aborted")
    BY <1>4 DEF Close
  <2> QED BY <2>1, CancelInv
<1>5. ASSUME NEW r \in Read, Start(r) \/ Hedge(r) PROVE IInv'
  BY <1>5, BeginsInv DEF Call
<1>6. ASSUME NEW w \in Write, SendAll(w) PROVE IInv'
  BY <1>6, BeginsInv DEF Call
<1> QED BY <1>1, <1>2, <1>3, <1>4, <1>5, <1>6 DEF Next, Quiet

(* In every state counters, stages and lanes agree, and a read has counted *)
(* the attempts it made (fetchPhysical, client.ts:1135-1191).              *)
THEOREM Invariance == Spec => []IInv
<1>1. Init => IInv
  BY StartInv
<1>2. IInv /\ [Next]_vars => IInv'
  BY NextInv
<1> QED BY <1>1, <1>2, PTL DEF Spec

(* Whatever ends a request, and wherever it is then, the counters of the   *)
(* scheduler are again those of the requests that are left (the finalizers *)
(* of rpc/transport/queue.ts:168-175).                                     *)
THEOREM GivenBackHolds == Spec => []GivenBack
<1>1. IInv => GivenBack
  BY DEF IInv, SchedulerIInv, Counted, GivenBack, Inside, Ours, Running, OursRunning, InsideAt
<1> QED BY <1>1, Invariance, PTL

(* Background work never takes the last place of a queue, or the last      *)
(* permit of an endpoint, that has more than one (queue.ts:116, 147, 163). *)
THEOREM ForegroundRoomHolds == Spec => []ForegroundRoom
<1>1. IInv => ForegroundRoom
  <2> SUFFICES ASSUME IInv PROVE ForegroundRoom
    OBVIOUS
  <2>1. Cardinality(Ours) <= Share(Capacity) /\ Cardinality(SlotHolders) <= Share(Concurrency)
    BY DEF IInv, SchedulerIInv, Counted
  <2>2. ASSUME Capacity > 1 PROVE Cardinality({r \in Background : stage[r] # "out"}) < Capacity
    <3>1. Cardinality(Ours) < Capacity
      BY <2>1, <2>2, Bounds, ShareIsPart, RequestSets, SchedulerSets
    <3> QED BY <3>1 DEF Ours
  <2>3. ASSUME Concurrency > 1, NEW e \in Endpoint
        PROVE  Cardinality(PermitHolders(e) \cap Background) < Concurrency
    <3>1. PermitHolders(e) \cap Background \subseteq SlotHolders
      BY DEF PermitHolders, SlotHolders
    <3>2. Cardinality(PermitHolders(e) \cap Background) <= Cardinality(SlotHolders)
      BY <3>1, SchedulerSets, NotMore
    <3>3. /\ Cardinality(PermitHolders(e) \cap Background) \in Nat
          /\ Cardinality(SlotHolders) \in Nat
      BY <3>1, SchedulerSets, RequestSets
    <3> QED BY <2>1, <2>3, <3>2, <3>3, Bounds, ShareIsPart
  <2> QED BY <2>2, <2>3 DEF ForegroundRoom
<1> QED BY <1>1, Invariance, PTL

(* A read that fails has asked every endpoint it found at its start that   *)
(* can still serve it, whatever its two lanes, other calls and the probes  *)
(* do meanwhile (fetchPhysical, client.ts:1147-1186).                      *)
THEOREM TriedEveryPeerHolds == Spec => []TriedEveryPeer
<1>1. IInv => TriedEveryPeer
  BY DEF IInv, TriedInv, TriedEveryPeer, Asked
<1> QED BY <1>1, Invariance, PTL
=============================================================================
