-------------------------------- MODULE Reads --------------------------------
(***************************************************************************)
(* The physical reads of EvmClient, fetchPhysical and requestAt, the       *)
(* sending of transactions (rpc/client.ts) and the policy for failures     *)
(* (rpc/recovery.ts), within the lifetime of the client                    *)
(* (internal/lifetime.ts) and through its RequestScheduler.                *)
(*                                                                         *)
(* A read has two lanes, the second of which starts after the hedge delay. *)
(* A lane asks one endpoint at a time, never the one the other lane asks,  *)
(* one that was not tried before one that was, until an answer is accepted *)
(* or the attempts of the read are used up.  The first answer cancels the  *)
(* other lane; the deadline, the caller or a close cancels both.  A        *)
(* transaction goes to all selected endpoints at once, and never twice.    *)
(* Which endpoints are known, and which of them selected, changes as the   *)
(* probes of the client end.                                               *)
(*                                                                         *)
(* All reads are of one method and all endpoints of HTTP.  The scores that *)
(* rank the endpoints are left out, for reads as for the selection: any of *)
(* those the ranking chooses from is picked.                               *)
(***************************************************************************)
EXTENDS RequestScheduler, FiniteSetsExt

CONSTANTS
  Read, Write,  \* calls of fetchPhysical and of sendRawTransaction
  MinAttempts,  \* attempts of a read, if there are not more endpoints
  MaxSelected,  \* concurrentHttp: endpoints selected at most
  Late,         \* endpoints the client is made without waiting for
  Foreign       \* bound: endpoints that reads not in Read find unsupported

Lanes(c) == IF c \in Read THEN {c} \X {1, 2} ELSE {c} \X Endpoint

ASSUME ReadAssumption ==
  /\ Read \cap Write = {}
  /\ Request = (Read \X {1, 2}) \cup (Write \X Endpoint)
  /\ Background \subseteq Read \X {1, 2}
  /\ IsFiniteSet(Endpoint) /\ Endpoint # {}
  /\ {MinAttempts, MaxSelected} \subseteq Nat \ {0} /\ {Late, Foreign} \subseteq SUBSET Endpoint

Call == Read \cup Write

VARIABLES
  status,       \* status[c]: a call is new, running, or how it ended
  lane,         \* lane[q]: what a lane, or the sending to an endpoint, does
  attempts,     \* attempts[r]
  maxAttempts,  \* maxAttempts[r]
  tried,        \* tried[r]: endpoints a lane of r has picked
  busy,         \* busy[r]: endpoints a lane of r has picked and not left
  excluded,     \* excluded[r]: endpoints whose failure told r to go elsewhere
  stopped,      \* stopped[r]: a failure no endpoint would answer differently
  unsupported,  \* endpoints known not to support the method
  role,         \* role[e]: the status of an endpoint, "unknown" before its probe
  cooling,      \* endpoints whose retryAt is in the future
  closed,       \* the lifetime of the client is closed
  peers         \* history: peers[r], the endpoints r found when it started

progress == <<attempts, maxAttempts, tried, busy, excluded, stopped, peers>>
endpointVars == <<unsupported, role, cooling>>
vars == <<status, lane, progress, endpointVars, closed, schedulerVars>>

TypeOK ==
  /\ SchedulerTypeOK
  /\ status \in [Call -> {"new", "running", "value", "failed", "aborted"}]
  /\ lane \in [Request -> {"off", "pick", "pause", "queue", "flight", "failed", "answered"}]
  /\ {attempts, maxAttempts} \subseteq [Read -> Nat]
  /\ {tried, busy, excluded, peers} \subseteq [Read -> SUBSET Endpoint]
  /\ stopped \in [Read -> BOOLEAN]
  /\ {unsupported, cooling} \subseteq SUBSET Endpoint
  /\ role \in [Endpoint -> {"unknown", "failed", "standby", "selected"}]
  /\ closed \in BOOLEAN
  /\ \A q \in Request : stage[q] # "out" <=> lane[q] \in {"queue", "flight"}

(* rankProbes: the best of the endpoints that answered; which, is left open. *)
Selections(E) == kSubset(IF Cardinality(E) < MaxSelected THEN Cardinality(E) ELSE MaxSelected, E)

Init ==
  /\ SchedulerInit
  /\ status = [c \in Call |-> "new"]
  /\ lane = [q \in Request |-> "off"]
  /\ attempts = [r \in Read |-> 0] /\ maxAttempts = [r \in Read |-> MinAttempts]
  /\ tried = [r \in Read |-> {}] /\ busy = tried /\ excluded = tried /\ peers = tried
  /\ stopped = [r \in Read |-> FALSE]
  /\ \E chosen \in Selections(Endpoint \ Late) :
       role = [e \in Endpoint |-> IF e \in chosen THEN "selected"
                                 ELSE IF e \in Late THEN "unknown" ELSE "standby"]
  /\ unsupported = {} /\ cooling = {}
  /\ closed = FALSE

(* A batch of the remaining probes ends, and those that succeed compete    *)
(* with the selected endpoints (applyProbeResults).                        *)
ProbesEnd ==
  /\ \E batch \in SUBSET {e \in Endpoint : role[e] = "unknown"} \ {{}} :
       \E good \in SUBSET batch :
         \E chosen \in Selections({e \in Endpoint : role[e] = "selected"} \cup good) :
           role' = [e \in Endpoint |->
             IF e \in chosen THEN "selected"
             ELSE IF e \in good \/ role[e] = "selected" THEN "standby"
             ELSE IF e \in batch THEN "failed" ELSE role[e]]
  /\ ~ closed
  /\ UNCHANGED <<status, lane, progress, unsupported, cooling, closed, schedulerVars>>
-----------------------------------------------------------------------------
(* Asking e: the scheduler admits the request, or it is a failed attempt.  *)
Asks(q, e, refused) ==
  \/ /\ Admit(q, e)
     /\ lane' = [lane EXCEPT ![q] = "queue"]
  \/ /\ QueueIsFull(q)
     /\ lane' = [lane EXCEPT ![q] = refused]
     /\ at' = [at EXCEPT ![q] = "none"]
     /\ UNCHANGED <<stage, counters, rates>>

Candidates == {e \in Endpoint : role[e] \in {"selected", "standby"}} \ unsupported

Start(r) ==
  /\ r \in Read /\ status[r] = "new" /\ ~ closed
  /\ status' = [status EXCEPT ![r] = "running"]
  /\ lane' = [lane EXCEPT ![<<r, 1>>] = "pick"]
  /\ peers' = [peers EXCEPT ![r] = Candidates]
  /\ UNCHANGED <<attempts, maxAttempts, tried, busy, excluded, stopped, endpointVars, closed,
                 schedulerVars>>

(* A client that is closed interrupts the calls that come. *)
StartClosed(c) ==
  /\ status[c] = "new" /\ closed
  /\ status' = [status EXCEPT ![c] = "aborted"]
  /\ UNCHANGED <<lane, progress, endpointVars, closed, schedulerVars>>

(* The hedge delay is over. *)
Hedge(r) ==
  /\ status[r] = "running" /\ lane[<<r, 2>>] = "off"
  /\ lane' = [lane EXCEPT ![<<r, 2>>] = "pick"]
  /\ UNCHANGED <<status, progress, endpointVars, closed, schedulerVars>>

(* Four, in the code, or as many as there have been endpoints. *)
MaxAttempts(r) ==
  LET known == Cardinality(Candidates \cup excluded[r])
  IN  IF known > maxAttempts[r] THEN known ELSE maxAttempts[r]

(* Bug: the endpoints that were tried compete with those that were not. *)
Ranked_AnyAvailable(r) == Candidates \ (excluded[r] \cup busy[r])

(* The endpoints a lane of r ranks: untried ones, as long as there are any. *)
Ranked(r) ==
  LET available == Candidates \ (excluded[r] \cup busy[r])
      untried == available \ tried[r]
  IN  IF untried # {} THEN untried ELSE available

GivesUp(r) == stopped[r] \/ attempts[r] >= MaxAttempts(r) \/ Ranked(r) = {}

(* A second attempt at an endpoint is made after a pause. *)
Pick(q) ==
  LET r == q[1] IN
  /\ lane[q] = "pick" /\ ~ GivesUp(r)
  /\ attempts' = [attempts EXCEPT ![r] = @ + 1]
  /\ maxAttempts' = [maxAttempts EXCEPT ![r] = MaxAttempts(r)]
  /\ \E e \in Ranked(r) :
       /\ tried' = [tried EXCEPT ![r] = @ \cup {e}]
       /\ \/ /\ e \in tried[r]
             /\ lane' = [lane EXCEPT ![q] = "pause"]
             /\ at' = [at EXCEPT ![q] = e]
             /\ UNCHANGED <<stage, counters, rates>>
          \/ e \notin tried[r] /\ Asks(q, e, "pick")
       /\ busy' = [busy EXCEPT ![r] = IF lane'[q] = "pick" THEN @ ELSE @ \cup {e}]
  /\ UNCHANGED <<status, excluded, stopped, peers, endpointVars, closed>>

Resume(q) ==
  LET r == q[1] IN
  /\ lane[q] = "pause"
  /\ Asks(q, at[q], "pick")
  /\ busy' = [busy EXCEPT ![r] = IF lane'[q] = "pick" THEN @ \ {at[q]} ELSE @]
  /\ UNCHANGED <<status, attempts, maxAttempts, tried, excluded, stopped, peers, endpointVars, closed>>

(* The race fails when both lanes have failed, the hedge included. *)
GiveUp(q) ==
  LET r == q[1] IN
  /\ lane[q] = "pick" /\ GivesUp(r)
  /\ lane' = [lane EXCEPT ![q] = "failed"]
  /\ status' = [status EXCEPT ![r] =
       IF \A p \in Lanes(r) : lane'[p] = "failed" THEN "failed" ELSE @]
  /\ maxAttempts' = [maxAttempts EXCEPT ![r] = IF stopped[r] THEN @ ELSE MaxAttempts(r)]
  /\ UNCHANGED <<attempts, tried, busy, excluded, stopped, peers, endpointVars, closed,
                 schedulerVars>>
-----------------------------------------------------------------------------
(* Without a selected endpoint there is nothing to wait for: it fails.     *)
SendAll(w) ==
  /\ w \in Write /\ status[w] = "new" /\ ~ closed
  /\ status' = [status EXCEPT ![w] = "running"]
  /\ lane' = [q \in Request |->
       IF q[1] = w /\ role[q[2]] = "selected" THEN "pick" ELSE lane[q]]
  /\ UNCHANGED <<progress, endpointVars, closed, schedulerVars>>

(* The sendings enter the scheduler, one after the other. *)
SendTo(q) ==
  /\ q[1] \in Write /\ lane[q] = "pick"
  /\ Asks(q, q[2], "failed")
  /\ UNCHANGED <<status, progress, endpointVars, closed>>

(* The call ends when every endpoint has answered or failed. *)
SendEnds(w) ==
  /\ w \in Write /\ status[w] = "running"
  /\ \A q \in Lanes(w) : lane[q] \in {"off", "failed", "answered"}
  /\ status' = [status EXCEPT ![w] =
       IF \E q \in Lanes(w) : lane[q] = "answered" THEN "value" ELSE "failed"]
  /\ UNCHANGED <<lane, progress, endpointVars, closed, schedulerVars>>
-----------------------------------------------------------------------------
(* Inside the scheduler.  An endpoint that asked for a pause is not asked  *)
(* before it ends; the request that waits for that holds its permit.       *)
Waits(q) ==
  /\ lane[q] = "queue"
  /\ \/ TakeSlot(q) /\ UNCHANGED lane
     \/ TakePermit(q) /\ UNCHANGED lane
     \/ /\ Send(q)
        /\ lane' = [lane EXCEPT ![q] = IF at[q] \in cooling THEN "queue" ELSE "flight"]
     \/ /\ stage[q] = "running" /\ at[q] \notin cooling
        /\ lane' = [lane EXCEPT ![q] = "flight"]
        /\ UNCHANGED schedulerVars
  /\ UNCHANGED <<status, progress, endpointVars, closed>>

(* The locals of a read go with it. *)
Forget(C) ==
  /\ attempts' = [r \in Read |-> IF r \in C THEN 0 ELSE attempts[r]]
  /\ maxAttempts' = [r \in Read |-> IF r \in C THEN MinAttempts ELSE maxAttempts[r]]
  /\ tried' = [r \in Read |-> IF r \in C THEN {} ELSE tried[r]]
  /\ busy' = [r \in Read |-> IF r \in C THEN {} ELSE busy[r]]
  /\ excluded' = [r \in Read |-> IF r \in C THEN {} ELSE excluded[r]]
  /\ stopped' = [r \in Read |-> IF r \in C THEN FALSE ELSE stopped[r]]
  /\ peers' = [r \in Read |-> IF r \in C THEN {} ELSE peers[r]]

(* What runs for the calls C is interrupted, wherever it is. *)
Cancel(C, ending) ==
  /\ status' = [c \in Call |-> IF c \in C THEN ending ELSE status[c]]
  /\ lane' = [q \in Request |-> IF q[1] \in C THEN "off" ELSE lane[q]]
  /\ Forget(C)
  /\ Release({q \in Request : q[1] \in C})
  /\ UNCHANGED <<unsupported, role, sent>>

(* An answer raises the limit of its endpoint, and ends a read. *)
Answer(q) ==
  /\ lane[q] = "flight"
  /\ \/ q[1] \in Read /\ Cancel({q[1]}, "value")
     \/ /\ q[1] \in Write
        /\ lane' = [lane EXCEPT ![q] = "answered"]
        /\ Release({q})
        /\ UNCHANGED <<status, progress, unsupported, role, sent>>
  /\ \E l \in Recovered(at[q]) : limit' = [limit EXCEPT ![at[q]] = l]
  /\ UNCHANGED <<cooling, closed>>

(* What a lane does with a failed attempt: readFailurePolicy decides. *)
Failed(q, policy) ==
  LET r == q[1] IN
  \/ /\ r \in Read
     /\ lane' = [lane EXCEPT ![q] = "pick"]
     /\ busy' = [busy EXCEPT ![r] = @ \ {at[q]}]
     /\ stopped' = [stopped EXCEPT ![r] = @ \/ policy = "stop"]
     /\ excluded' = [excluded EXCEPT ![r] =
          IF policy \in {"rotate", "unsupported"} THEN @ \cup {at[q]} ELSE @]
     /\ unsupported' = IF policy = "unsupported" THEN unsupported \cup {at[q]} ELSE unsupported
     /\ UNCHANGED <<attempts, maxAttempts, tried, peers>>
  \/ /\ r \in Write
     /\ lane' = [lane EXCEPT ![q] = "failed"]
     /\ UNCHANGED <<progress, unsupported>>

(* A timeout, an overloaded endpoint, a block it does not have yet, a      *)
(* failure that concerns this endpoint, this method of it, or the request. *)
Failure(q) ==
  /\ lane[q] = "flight"
  /\ \E policy \in {"retry", "rotate", "unsupported", "stop"} : Failed(q, policy)
  /\ Release({q})
  /\ UNCHANGED <<status, rates, role, cooling, closed>>

(* The endpoint limits its rate: a pause for all, once a lower limit. *)
RateLimited(q) ==
  /\ lane[q] = "flight"
  /\ \E policy \in {"retry", "rotate"} : Failed(q, policy)
  /\ cooling' = cooling \cup {at[q]}
  /\ limit' = [limit EXCEPT ![at[q]] = IF at[q] \in cooling THEN @ ELSE Throttled(at[q])]
  /\ Release({q})
  /\ UNCHANGED <<status, sent, role, closed>>

(* The deadline of the call passes, or its caller is interrupted. *)
Abort(c) ==
  /\ status[c] = "running"
  /\ Cancel({c}, "aborted")
  /\ UNCHANGED <<limit, cooling, closed>>

(* The lifetime interrupts every call that runs in its scope. *)
Close ==
  /\ ~ closed /\ closed' = TRUE
  /\ Cancel({c \in Call : status[c] = "running"}, "aborted")
  /\ UNCHANGED <<limit, cooling>>
-----------------------------------------------------------------------------
(* The environment. *)
CooledDown(e) ==
  /\ e \in cooling
  /\ cooling' = cooling \ {e}
  /\ UNCHANGED <<status, lane, progress, unsupported, role, closed, schedulerVars>>

(* A read of the method that is none of these finds that e does not        *)
(* support it.                                                             *)
FoundUnsupported(e) ==
  /\ e \in Candidates \cap Foreign /\ ~ closed
  /\ unsupported' = unsupported \cup {e}
  /\ UNCHANGED <<status, lane, progress, role, cooling, closed, schedulerVars>>

SecondPasses(e) ==
  /\ Age(e)
  /\ UNCHANGED <<status, lane, progress, endpointVars, closed>>

Proceeds(q) ==
  \/ q[1] \in Read /\ (Pick(q) \/ Resume(q) \/ GiveUp(q))
  \/ SendTo(q) \/ Waits(q) \/ Answer(q) \/ Failure(q) \/ RateLimited(q)

Next ==
  \/ \E q \in Request : Proceeds(q)
  \/ \E c \in Call : StartClosed(c) \/ Abort(c)
  \/ \E r \in Read : Start(r) \/ Hedge(r)
  \/ \E w \in Write : SendAll(w) \/ SendEnds(w)
  \/ \E e \in Endpoint : CooledDown(e) \/ SecondPasses(e) \/ FoundUnsupported(e)
  \/ ProbesEnd \/ Close

Spec == Init /\ [][Next]_vars

(* A ready fiber runs, and timers ring: a request ends with its own        *)
(* timeout, a pause, a hedge delay and a rate window pass.                 *)
Ongoing ==
  \/ \E e \in Endpoint : CooledDown(e) \/ SecondPasses(e)
  \/ \E r \in Read : Hedge(r)
  \/ \E w \in Write : SendEnds(w)
  \/ \E q \in Request : Proceeds(q)

(* Something of it happens as long as something can.  The deadline of a    *)
(* call and its caller are not needed for it to end.                       *)
FairSpec == Spec /\ WF_vars(Ongoing)
-----------------------------------------------------------------------------
(* "Do not exhaust four attempts while a verified peer remains untried":   *)
(* a read fails, but for a failure that stops it, only after every         *)
(* endpoint it found at its start that could still serve it was asked,     *)
(* whichever came to be known since (client.ts:1152-1156).  That is said   *)
(* of a read whose own failures told it of every endpoint it tried and can *)
(* try no more: the attempts count one that another read found unsupported *)
(* and their limit does not.                                               *)
TriedEveryPeer ==
  \A r \in Read :
    status[r] = "failed" /\ ~ stopped[r] /\ tried[r] \subseteq Candidates \cup excluded[r] =>
      peers[r] \cap Candidates \subseteq tried[r]

(* Slots, permits, rates and pauses never hold a call for good: it ends    *)
(* without its deadline.                                                   *)
Settles == \A c \in Call : status[c] = "running" ~> status[c] # "running"
=============================================================================
