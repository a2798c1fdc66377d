--------------------------- MODULE QueryCoordinator ---------------------------
(***************************************************************************)
(* Shared reads of the client: RpcQueryCoordinator (rpc/query.ts).  A      *)
(* caller is answered from the completed results, joins the read of its    *)
(* key that is in flight, or starts one, which runs in a fiber of its own  *)
(* and is cancelled when its last caller leaves.                           *)
(*                                                                         *)
(* A step is what a fiber does between two suspensions: fibers share one   *)
(* thread, and suspend here only to wait for a read's result, for the end  *)
(* of a cancelled fiber, and within the read.  A query is named by the     *)
(* caller that started it.                                                 *)
(***************************************************************************)
EXTENDS Naturals, FiniteSets, Sequences, SequencesExt

CONSTANTS
  Caller,    \* the calls of get(); each asks once
  Key,       \* the keys of reads
  Capacity,  \* completed results kept at most
  None       \* no query

ASSUME QueryAssumption ==
  /\ IsFiniteSet(Caller)
  /\ None \notin Caller
  /\ Capacity \in Nat

VARIABLES
  caller,    \* where each call of get() is, or how it ended
  key,       \* key[q]: the key of the query that q started
  query,     \* query[c]: the query c waits for
  users,     \* users[q]: query.users
  load,      \* the fiber of the query q, and with its end query.deferred
  inFlight,  \* state.inFlight: the running query of a key, or None
  completed  \* state.completed in insertion order: the keys of kept results

queries == <<key, query, users, inFlight>>
vars == <<caller, queries, load, completed>>

Outcome == {"value", "failure", "interrupted"}

TypeOK ==
  /\ caller \in [Caller -> {"new", "waiting", "cancelling", "gone"} \cup Outcome]
  /\ key \in [Caller -> Key \cup {None}]
  /\ query \in [Caller -> Caller \cup {None}]
  /\ users \in [Caller -> Nat]
  /\ load \in [Caller -> {"none", "running", "stopping"} \cup Outcome]
  /\ inFlight \in [Key -> Caller \cup {None}]

Init ==
  /\ caller = [c \in Caller |-> "new"]
  /\ key = [c \in Caller |-> None]
  /\ query = [c \in Caller |-> None]
  /\ users = [c \in Caller |-> 0]
  /\ load = [c \in Caller |-> "none"]
  /\ inFlight = [k \in Key |-> None]
  /\ completed = <<>>
-----------------------------------------------------------------------------
Cached(k) == k \in Range(completed)

(* The kept results but that of k. *)
Without(k) ==
  IF Cached(k) THEN RemoveAt(completed, CHOOSE i \in DOMAIN completed : completed[i] = k)
  ELSE completed

(* A hit makes its key the newest. *)
Hit(c, k) ==
  /\ caller[c] = "new" /\ Cached(k)
  /\ completed' = Append(Without(k), k)
  /\ caller' = [caller EXCEPT ![c] = "value"]
  /\ UNCHANGED <<queries, load>>

(* A mutant: a caller that joins is not counted. *)
Join_Uncounted(c, k) ==
  /\ caller[c] = "new" /\ ~ Cached(k) /\ inFlight[k] # None
  /\ caller' = [caller EXCEPT ![c] = "waiting"]
  /\ query' = [query EXCEPT ![c] = inFlight[k]]
  /\ UNCHANGED <<key, users, load, inFlight, completed>>

Join(c, k) ==
  /\ caller[c] = "new" /\ ~ Cached(k) /\ inFlight[k] # None
  /\ caller' = [caller EXCEPT ![c] = "waiting"]
  /\ query' = [query EXCEPT ![c] = inFlight[k]]
  /\ users' = [users EXCEPT ![inFlight[k]] = @ + 1]
  /\ UNCHANGED <<key, load, inFlight, completed>>

Start(c, k) ==
  /\ caller[c] = "new" /\ ~ Cached(k) /\ inFlight[k] = None
  /\ caller' = [caller EXCEPT ![c] = "waiting"]
  /\ query' = [query EXCEPT ![c] = c]
  /\ key' = [key EXCEPT ![c] = k]
  /\ users' = [users EXCEPT ![c] = 1]
  /\ load' = [load EXCEPT ![c] = "running"]
  /\ inFlight' = [inFlight EXCEPT ![k] = c]
  /\ UNCHANGED completed
-----------------------------------------------------------------------------
(* A mutant: the entry is removed by its key. *)
Removed_ByKey(q) == [inFlight EXCEPT ![key[q]] = None]

(* inFlight without the query q, unless its key has another query now. *)
Removed(q) ==
  [k \in Key |-> IF k = key[q] /\ inFlight[k] = q THEN None ELSE inFlight[k]]

(* A mutant: the cache is trimmed before the new result is added. *)
Stored_TrimsFirst(k) ==
  LET old == Without(k)
      excess == IF Len(old) > Capacity THEN Len(old) - Capacity ELSE 0
  IN  Append(SubSeq(old, excess + 1, Len(old)), k)

(* The newest results that fit, with the result of k as the newest. *)
Stored(k) ==
  LET all == Append(Without(k), k)
      excess == IF Len(all) > Capacity THEN Len(all) - Capacity ELSE 0
  IN  SubSeq(all, excess + 1, Len(all))

(* run's onExit: the query leaves inFlight as its result is handed out. *)
Ends(q, outcome) ==
  /\ load' = [load EXCEPT ![q] = outcome]
  /\ inFlight' = Removed(q)
  /\ UNCHANGED <<caller, key, query, users>>

(* keep(result): only results that cannot change are stored. *)
LoadSucceeds(q) ==
  /\ load[q] = "running"
  /\ completed' \in {completed, Stored(key[q])}
  /\ Ends(q, "value")

(* A mutant: only a value completes the deferred. *)
LoadFails_Silent(q) ==
  /\ load[q] = "running"
  /\ Ends(q, "none")
  /\ UNCHANGED completed

(* A typed failure or the deadline of the caller that started the read. *)
LoadFails(q) ==
  /\ load[q] = "running"
  /\ Ends(q, "failure")
  /\ UNCHANGED completed

LoadStops(q) ==
  /\ load[q] = "stopping"
  /\ Ends(q, "interrupted")
  /\ UNCHANGED completed

(* A mutant: the last user removes the query and leaves it running. *)
Release_KeepsFiber(c) ==
  LET q == query[c] IN
  /\ users' = [users EXCEPT ![q] = @ - 1]
  /\ inFlight' = IF users[q] = 1 THEN Removed(q) ELSE inFlight
  /\ UNCHANGED <<key, query, load, completed>>

(* The ensuring of get(): the last user of a query removes and cancels it. *)
Release(c) ==
  LET q == query[c] IN
  /\ users' = [users EXCEPT ![q] = @ - 1]
  /\ IF users[q] = 1
     THEN /\ inFlight' = Removed(q)
          /\ load' = [load EXCEPT ![q] = IF @ = "running" THEN "stopping" ELSE @]
     ELSE UNCHANGED <<inFlight, load>>
  /\ UNCHANGED <<key, query, completed>>

Resume(c) ==
  /\ caller[c] = "waiting" /\ load[query[c]] \in Outcome
  /\ caller' = [caller EXCEPT ![c] = load[query[c]]]
  /\ Release(c)

(* The caller is interrupted; Fiber.interrupt waits for the fiber's end. *)
Leave(c) ==
  /\ caller[c] = "waiting"
  /\ caller' = [caller EXCEPT ![c] = IF users[query[c]] = 1 THEN "cancelling" ELSE "gone"]
  /\ Release(c)

Gone(c) ==
  /\ caller[c] = "cancelling" /\ load[query[c]] \in Outcome
  /\ caller' = [caller EXCEPT ![c] = "gone"]
  /\ UNCHANGED <<queries, load, completed>>

Get(c) == \E k \in Key : Hit(c, k) \/ Join(c, k) \/ Start(c, k)
Load(q) == LoadSucceeds(q) \/ LoadFails(q) \/ LoadStops(q)

Next == \E c \in Caller : Get(c) \/ Load(c) \/ Resume(c) \/ Leave(c) \/ Gone(c)

Spec == Init /\ [][Next]_vars

(* A read ends: its budget bounds it.  The scheduler runs a ready fiber. *)
FairSpec == Spec /\ \A c \in Caller : WF_vars(Load(c)) /\ WF_vars(Resume(c))
-----------------------------------------------------------------------------
Waiting(q) == {c \in Caller : caller[c] = "waiting" /\ query[c] = q}

(* A running read is the one its key's new callers join, and inFlight has   *)
(* no other queries: two reads of a key never run unless one is being       *)
(* cancelled, and what a query removes is its own entry (query.ts:146).     *)
SharedRead ==
  /\ \A q \in Caller : load[q] = "running" => key[q] \in Key /\ inFlight[key[q]] = q
  /\ \A k \in Key : inFlight[k] # None =>
       load[inFlight[k]] = "running" /\ key[inFlight[k]] = k

(* A read nobody waits for does not go on (query.ts:123).                   *)
NoOrphanRead == \A q \in Caller : load[q] = "running" => Waiting(q) # {}

(* A caller that stays never sees the cancellation of another caller: no    *)
(* query is cancelled while somebody waits for it (query.ts:101, 125).      *)
NoStrayInterrupt ==
  \A c \in Caller :
    /\ caller[c] # "interrupted"
    /\ caller[c] = "waiting" => load[query[c]] \notin {"none", "stopping", "interrupted"}

(* The kept results fit, each key is kept once, and no key with a kept      *)
(* result is read again (query.ts:90, 137).                                 *)
CacheInv ==
  /\ completed \in Seq(Key)
  /\ Len(completed) <= Capacity
  /\ IsInjective(completed)
  /\ \A k \in Key : Cached(k) => inFlight[k] = None

(* A caller that waits is answered, or leaves by itself.                    *)
Answered == \A c \in Caller : caller[c] = "waiting" ~> caller[c] # "waiting"
=============================================================================
