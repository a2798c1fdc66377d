--------------------------- MODULE ClientReadsProofs ---------------------------
(***************************************************************************)
(* Proofs about QueryCoordinator, for every finite set of callers, every   *)
(* set of keys and every capacity: one running read per key, none that     *)
(* nobody waits for, and no caller that stays sees a cancellation.         *)
(*                                                                         *)
(* And about ClientReads, for every chain that grows and forks and every   *)
(* number of workers of the live chain: the coordinator keeps its promises *)
(* under the client, and what the client answers without a read is what    *)
(* the running worker and the head have told it, as far as they have.      *)
(***************************************************************************)
EXTENDS ClientReads, FiniteSetTheorems, TLAPS

(* users counts the callers that wait. *)
Counted == \A q \in Caller : users[q] = Cardinality(Waiting(q))

(* Who waits, waits for a query; a query not started has no users, and one *)
(* runs exactly as long as it has some, unless it ended by itself.         *)
Owned ==
  /\ \A c \in Caller : caller[c] = "waiting" => query[c] \in Caller
  /\ \A c \in Caller : caller[c] = "new" => load[c] = "none"
  /\ \A q \in Caller : load[q] \in {"none", "stopping", "interrupted"} => users[q] = 0
  /\ \A q \in Caller : load[q] = "running" => users[q] # 0
  /\ \A c \in Caller : caller[c] # "interrupted"

IInv == TypeOK /\ SharedRead /\ Counted /\ Owned
-----------------------------------------------------------------------------
(* Lemmas about the callers that wait for a query. *)

(* Waiting sets are finite, and empty exactly when nobody is counted. *)
LEMMA WaitingFinite ==
  ASSUME NEW q
  PROVE  /\ IsFiniteSet(Waiting(q)) /\ Cardinality(Waiting(q)) \in Nat
         /\ Cardinality(Waiting(q)) = 0 <=> Waiting(q) = {}
<1>1. Waiting(q) \subseteq Caller
  BY DEF Waiting
<1>2. IsFiniteSet(Waiting(q))
  BY <1>1, FS_Subset, QueryAssumption
<1> QED
  BY <1>2, FS_CardinalityType, FS_EmptySet

(* A caller that counts itself in keeps users the number of callers that   *)
(* wait: the other queries keep theirs.                                    *)
LEMMA CountsJoiner ==
  ASSUME TypeOK, Counted, NEW c \in Caller, NEW q \in Caller,
         caller[c] = "new",
         caller' = [caller EXCEPT ![c] = "waiting"],
         query' = [query EXCEPT ![c] = q],
         users' = [users EXCEPT ![q] = users[q] + 1]
  PROVE  Counted'
<1> SUFFICES ASSUME NEW p \in Caller
             PROVE  users'[p] = Cardinality(Waiting(p)')
  BY DEF Counted
<1>1. CASE p = q
  <2>1. Waiting(p)' = Waiting(p) \cup {c} /\ c \notin Waiting(p)
    BY <1>1 DEF TypeOK, Waiting
  <2>2. Cardinality(Waiting(p)') = Cardinality(Waiting(p)) + 1
    BY <2>1, WaitingFinite, FS_AddElement
  <2> QED
    BY <1>1, <2>2 DEF TypeOK, Counted
<1>2. CASE p # q
  <2>1. Waiting(p)' = Waiting(p)
    BY <1>2 DEF TypeOK, Waiting
  <2> QED
    BY <1>2, <2>1 DEF TypeOK, Counted
<1> QED
  BY <1>1, <1>2

(* A caller that stops waiting was counted, and counts itself out. *)
LEMMA CountsLeaver ==
  ASSUME TypeOK, Counted, Owned, NEW c \in Caller, caller[c] = "waiting",
         NEW s, s # "waiting",
         caller' = [caller EXCEPT ![c] = s],
         query' = query,
         users' = [users EXCEPT ![query[c]] = @ - 1]
  PROVE  Counted' /\ users[query[c]] \in Nat \ {0}
<1> DEFINE q == query[c]
<1>0. q \in Caller
  BY DEF Owned
<1>1. c \in Waiting(q)
  BY DEF Waiting
<1>2. Waiting(q)' = Waiting(q) \ {c}
  BY DEF TypeOK, Waiting
<1>3. Cardinality(Waiting(q)') = Cardinality(Waiting(q)) - 1
  BY <1>1, <1>2, WaitingFinite, FS_RemoveElement
<1>4. users[q] # 0 /\ users[q] \in Nat
  BY <1>0, <1>1, WaitingFinite DEF Counted, TypeOK
<1>5. \A p \in Caller \ {q} : Waiting(p)' = Waiting(p)
  BY DEF TypeOK, Waiting
<1>6. ASSUME NEW p \in Caller
      PROVE  users'[p] = Cardinality(Waiting(p)')
  BY <1>0, <1>3, <1>5 DEF TypeOK, Counted
<1> QED
  BY <1>4, <1>6 DEF Counted
-----------------------------------------------------------------------------
(* Every step preserves the inductive invariant. *)

LEMMA TypeStep == TypeOK /\ Owned /\ Counted /\ [Next]_vars => TypeOK'
<1> SUFFICES ASSUME TypeOK, Owned, Counted, [Next]_vars
             PROVE  TypeOK'
  OBVIOUS
<1>1. ASSUME NEW c \in Caller, NEW k \in Key, Hit(c, k) \/ Join(c, k) \/ Start(c, k)
      PROVE  TypeOK'
  <2>1. CASE Hit(c, k)
    BY <2>1 DEF TypeOK, Hit, queries, Outcome
  <2>2. CASE Join(c, k)
    <3>1. inFlight[k] \in Caller
      BY <2>2 DEF TypeOK, Join
    <3> QED
      BY <2>2, <3>1 DEF TypeOK, Join, Outcome
  <2>3. CASE Start(c, k)
    BY <2>3 DEF TypeOK, Start, Outcome
  <2> QED
    BY <1>1, <2>1, <2>2, <2>3
<1>2. ASSUME NEW q \in Caller, Load(q)
      PROVE  TypeOK'
  BY <1>2 DEF TypeOK, Load, LoadSucceeds, LoadFails, LoadStops, Ends, Removed, Outcome
<1>3. ASSUME NEW c \in Caller, Resume(c) \/ Leave(c)
      PROVE  TypeOK'
  <2>1. PICK s : s # "waiting" /\ caller' = [caller EXCEPT ![c] = s]
                 /\ s \in {"cancelling", "gone"} \cup Outcome
    BY <1>3 DEF Resume, Leave, Outcome
  <2>2. users[query[c]] \in Nat \ {0} /\ query[c] \in Caller
    BY <1>3, <2>1, CountsLeaver DEF Resume, Leave, Release, Owned
  <2> QED
    BY <1>3, <2>1, <2>2 DEF TypeOK, Resume, Leave, Release, Removed, Outcome
<1>4. ASSUME NEW c \in Caller, Gone(c)
      PROVE  TypeOK'
  BY <1>4 DEF TypeOK, Gone, queries, Outcome
<1> QED
  BY <1>1, <1>2, <1>3, <1>4 DEF Next, Get, vars, queries, TypeOK

LEMMA CountedStep == TypeOK /\ Owned /\ Counted /\ [Next]_vars => Counted'
<1> SUFFICES ASSUME TypeOK, Owned, Counted, [Next]_vars
             PROVE  Counted'
  OBVIOUS
<1>1. ASSUME NEW c \in Caller, NEW k \in Key, Hit(c, k)
      PROVE  Counted'
  <2>1. \A q \in Caller : Waiting(q)' = Waiting(q)
    BY <1>1 DEF TypeOK, Hit, Waiting, queries
  <2> QED
    BY <1>1, <2>1 DEF Counted, Hit, queries
<1>2. ASSUME NEW c \in Caller, NEW k \in Key, Join(c, k)
      PROVE  Counted'
  <2>1. inFlight[k] \in Caller
    BY <1>2 DEF TypeOK, Join
  <2> QED
    BY <1>2, <2>1, CountsJoiner DEF Join
<1>3. ASSUME NEW c \in Caller, NEW k \in Key, Start(c, k)
      PROVE  Counted'
  <2>1. users[c] = 0
    BY <1>3 DEF Start, Owned
  <2>2. users' = [users EXCEPT ![c] = users[c] + 1]
    BY <1>3, <2>1 DEF Start
  <2> QED
    BY <1>3, <2>2, CountsJoiner DEF Start
<1>4. ASSUME NEW q \in Caller, Load(q)
      PROVE  Counted'
  <2>1. \A p \in Caller : Waiting(p)' = Waiting(p)
    BY <1>4 DEF Load, LoadSucceeds, LoadFails, LoadStops, Ends, Waiting
  <2> QED
    BY <1>4, <2>1 DEF Counted, Load, LoadSucceeds, LoadFails, LoadStops, Ends
<1>5. ASSUME NEW c \in Caller, Resume(c) \/ Leave(c)
      PROVE  Counted'
  <2>1. PICK s : s # "waiting" /\ caller' = [caller EXCEPT ![c] = s]
    BY <1>5 DEF Resume, Leave, Outcome
  <2> QED
    BY <1>5, <2>1, CountsLeaver DEF Resume, Leave, Release
<1>6. ASSUME NEW c \in Caller, Gone(c)
      PROVE  Counted'
  <2>1. \A q \in Caller : Waiting(q)' = Waiting(q)
    BY <1>6 DEF TypeOK, Gone, Waiting, queries
  <2> QED
    BY <1>6, <2>1 DEF Counted, Gone, queries
<1>7. ASSUME UNCHANGED vars
      PROVE  Counted'
  BY <1>7 DEF Counted, Waiting, vars, queries
<1> QED
  BY <1>1, <1>2, <1>3, <1>4, <1>5, <1>6, <1>7 DEF Next, Get

LEMMA SharedStep == IInv /\ [Next]_vars => SharedRead'
<1> SUFFICES ASSUME IInv, [Next]_vars
             PROVE  SharedRead'
  OBVIOUS
<1>1. ASSUME NEW c \in Caller, NEW k \in Key, Hit(c, k)
      PROVE  SharedRead'
  BY <1>1 DEF Hit, SharedRead, IInv, queries
<1>2. ASSUME NEW c \in Caller, NEW k \in Key, Join(c, k)
      PROVE  SharedRead'
  BY <1>2 DEF Join, SharedRead, IInv
<1>3. ASSUME NEW c \in Caller, NEW k \in Key, Start(c, k)
      PROVE  SharedRead'
  <2>1. load[c] = "none"
    BY <1>3 DEF Start, Owned, IInv
  <2>2. \A q \in Caller \ {c} : load'[q] = load[q] /\ key'[q] = key[q]
    BY <1>3 DEF Start, TypeOK, IInv
  <2>3. load'[c] = "running" /\ key'[c] = k
    BY <1>3 DEF Start, TypeOK, IInv
  <2>4. \A j \in Key : inFlight'[j] = IF j = k THEN c ELSE inFlight[j]
    BY <1>3 DEF Start, TypeOK, IInv
  <2>5. \A j \in Key : inFlight[j] # None => inFlight[j] \in Caller \ {c}
    BY <2>1 DEF SharedRead, TypeOK, IInv
  <2>6. inFlight[k] = None
    BY <1>3 DEF Start
  <2> QED
    BY <2>2, <2>3, <2>4, <2>5, <2>6, QueryAssumption DEF SharedRead, IInv
<1>4. ASSUME NEW q \in Caller, Load(q)
      PROVE  SharedRead'
  <2>1. PICK o \in Outcome : load' = [load EXCEPT ![q] = o]
    BY <1>4 DEF Load, LoadSucceeds, LoadFails, LoadStops, Ends, Outcome
  <2>2. inFlight' = Removed(q) /\ key' = key
    BY <1>4 DEF Load, LoadSucceeds, LoadFails, LoadStops, Ends
  <2> QED
    BY <2>1, <2>2, QueryAssumption DEF SharedRead, Removed, Outcome, IInv, TypeOK
<1>5. ASSUME NEW c \in Caller, Resume(c) \/ Leave(c)
      PROVE  SharedRead'
  <2>1. query[c] \in Caller
    BY <1>5 DEF Resume, Leave, Owned, IInv
  <2>2. CASE users[query[c]] = 1
    BY <1>5, <2>1, <2>2, QueryAssumption
       DEF Resume, Leave, Release, Removed, SharedRead, IInv, TypeOK, Outcome
  <2>3. CASE users[query[c]] # 1
    BY <1>5, <2>3 DEF Resume, Leave, Release, SharedRead, IInv
  <2> QED
    BY <2>2, <2>3
<1>6. ASSUME NEW c \in Caller, Gone(c)
      PROVE  SharedRead'
  BY <1>6 DEF Gone, SharedRead, IInv, queries
<1>7. ASSUME UNCHANGED vars
      PROVE  SharedRead'
  BY <1>7 DEF SharedRead, IInv, vars, queries
<1> QED
  BY <1>1, <1>2, <1>3, <1>4, <1>5, <1>6, <1>7 DEF Next, Get

LEMMA OwnedStep == IInv /\ [Next]_vars => Owned'
<1> SUFFICES ASSUME IInv, [Next]_vars
             PROVE  Owned'
  OBVIOUS
<1>1. ASSUME NEW c \in Caller, NEW k \in Key, Hit(c, k)
      PROVE  Owned'
  BY <1>1 DEF Hit, Owned, IInv, TypeOK, queries
<1>2. ASSUME NEW c \in Caller, NEW k \in Key, Join(c, k)
      PROVE  Owned'
  <2>1. inFlight[k] \in Caller /\ load[inFlight[k]] = "running"
    BY <1>2 DEF Join, SharedRead, IInv, TypeOK
  <2>2. users'[inFlight[k]] = users[inFlight[k]] + 1 /\ users[inFlight[k]] \in Nat
    BY <1>2, <2>1 DEF Join, IInv, TypeOK
  <2> QED
    BY <1>2, <2>1, <2>2 DEF Join, Owned, IInv, TypeOK
<1>3. ASSUME NEW c \in Caller, NEW k \in Key, Start(c, k)
      PROVE  Owned'
  BY <1>3 DEF Start, Owned, IInv, TypeOK
<1>4. ASSUME NEW q \in Caller, Load(q)
      PROVE  Owned'
  <2>1. \/ load' = [load EXCEPT ![q] = "interrupted"] /\ load[q] = "stopping"
        \/ \E o \in {"value", "failure"} :
             load' = [load EXCEPT ![q] = o] /\ load[q] = "running"
    BY <1>4 DEF Load, LoadSucceeds, LoadFails, LoadStops, Ends
  <2>2. UNCHANGED <<caller, query, users>>
    BY <1>4 DEF Load, LoadSucceeds, LoadFails, LoadStops, Ends
  <2> QED
    BY <2>1, <2>2 DEF Owned, IInv, TypeOK
<1>5. ASSUME NEW c \in Caller, Resume(c) \/ Leave(c)
      PROVE  Owned'
  <2>1. PICK s : s # "waiting" /\ caller' = [caller EXCEPT ![c] = s]
    BY <1>5 DEF Resume, Leave, Outcome
  <2>2. users[query[c]] \in Nat \ {0} /\ query[c] \in Caller
    BY <1>5, <2>1, CountsLeaver DEF Resume, Leave, Release, Owned, IInv
  <2>3. caller' = [caller EXCEPT ![c] = s] /\ s \notin {"waiting", "new", "interrupted"}
    BY <1>5, <2>1, <2>2 DEF Resume, Leave, Outcome, Owned, IInv, TypeOK
  <2>4. users' = [users EXCEPT ![query[c]] = @ - 1] /\ query' = query
    BY <1>5 DEF Resume, Leave, Release
  <2>5. \A q \in Caller : load'[q] =
          IF q = query[c] /\ users[q] = 1 /\ load[q] = "running" THEN "stopping" ELSE load[q]
    BY <1>5, <2>2 DEF Resume, Leave, Release, IInv, TypeOK
  <2> QED
    BY <2>2, <2>3, <2>4, <2>5 DEF Owned, IInv, TypeOK
<1>6. ASSUME NEW c \in Caller, Gone(c)
      PROVE  Owned'
  BY <1>6 DEF Gone, Owned, IInv, TypeOK, queries
<1>7. ASSUME UNCHANGED vars
      PROVE  Owned'
  BY <1>7 DEF Owned, IInv, vars, queries
<1> QED
  BY <1>1, <1>2, <1>3, <1>4, <1>5, <1>6, <1>7 DEF Next, Get
-----------------------------------------------------------------------------
(* In every state a query counts the callers that wait for it (get of      *)
(* rpc/query.ts).                                                          *)
THEOREM Invariance == Spec => []IInv
<1>1. Init => IInv
  <2> SUFFICES ASSUME Init
               PROVE  IInv
    OBVIOUS
  <2>1. TypeOK /\ SharedRead /\ Owned
    BY DEF Init, TypeOK, SharedRead, Owned
  <2>2. \A q \in Caller : Waiting(q) = {}
    BY DEF Init, Waiting
  <2>3. Counted
    BY <2>2, FS_EmptySet DEF Counted, Init
  <2> QED
    BY <2>1, <2>3 DEF IInv
<1>2. IInv /\ [Next]_vars => IInv'
  BY TypeStep, CountedStep, SharedStep, OwnedStep DEF IInv
<1> QED
  BY <1>1, <1>2, PTL DEF Spec

(* Two reads of a key never run at once, and a query that ends or is       *)
(* cancelled never removes the query that took its place.                  *)
THEOREM SharedReadHolds == Spec => []SharedRead
<1>1. IInv => SharedRead
  BY DEF IInv
<1> QED
  BY <1>1, Invariance, PTL

(* A read goes on only while a caller waits for it.                        *)
THEOREM NoOrphanReadHolds == Spec => []NoOrphanRead
<1>1. ASSUME IInv
      PROVE  NoOrphanRead
  <2> SUFFICES ASSUME NEW q \in Caller, load[q] = "running"
               PROVE  Waiting(q) # {}
    BY DEF NoOrphanRead
  <2>1. users[q] # 0
    BY <1>1 DEF IInv, Owned
  <2> QED
    BY <1>1, <2>1, WaitingFinite DEF IInv, Counted
<1> QED
  BY <1>1, Invariance, PTL

(* A caller that stays is never answered with another's cancellation.      *)
THEOREM NoStrayInterruptHolds == Spec => []NoStrayInterrupt
<1>1. ASSUME IInv
      PROVE  NoStrayInterrupt
  <2> SUFFICES ASSUME NEW c \in Caller, caller[c] = "waiting"
               PROVE  load[query[c]] \notin {"none", "stopping", "interrupted"}
    BY <1>1 DEF NoStrayInterrupt, IInv, Owned
  <2>1. query[c] \in Caller /\ c \in Waiting(query[c])
    BY <1>1 DEF IInv, Owned, Waiting
  <2>2. users[query[c]] # 0
    BY <1>1, <2>1, WaitingFinite DEF IInv, Counted
  <2> QED
    BY <1>1, <2>1, <2>2 DEF IInv, Owned
<1> QED
  BY <1>1, Invariance, PTL
-----------------------------------------------------------------------------
(* The kept results. *)

LEMMA RemoveAtElements ==
  ASSUME NEW S, NEW s \in Seq(S), NEW i \in 1..Len(s)
  PROVE  /\ RemoveAt(s, i) \in Seq(S)
         /\ Len(RemoveAt(s, i)) = Len(s) - 1
         /\ \A j \in 1..(Len(s) - 1) : RemoveAt(s, i)[j] = IF j < i THEN s[j] ELSE s[j + 1]
<1> DEFINE front == SubSeq(s, 1, i - 1)
           back == SubSeq(s, i + 1, Len(s))
<1>1. /\ front \in Seq(S) /\ Len(front) = i - 1
      /\ \A j \in 1..(i - 1) : front[j] = s[j]
  OBVIOUS
<1>2. /\ back \in Seq(S) /\ Len(back) = Len(s) - i
      /\ \A j \in 1..(Len(s) - i) : back[j] = s[j + i]
  OBVIOUS
<1>3. RemoveAt(s, i) = front \o back
  BY DEF RemoveAt
<1> HIDE DEF front, back
<1>4. Len(front \o back) = Len(s) - 1 /\ front \o back \in Seq(S)
  BY <1>1, <1>2
<1>5. ASSUME NEW j \in 1..(Len(s) - 1)
      PROVE  (front \o back)[j] = IF j < i THEN s[j] ELSE s[j + 1]
  BY <1>1, <1>2
<1> QED
  BY <1>3, <1>4, <1>5

Kept(s) == s \in Seq(Key) /\ IsInjective(s)

LEMMA InjectiveSequence ==
  ASSUME NEW S, NEW s \in Seq(S)
  PROVE  IsInjective(s) <=> \A a, b \in 1..Len(s) : s[a] = s[b] => a = b
BY DEF IsInjective

(* Without a key, the other results are kept as they were. *)
LEMMA WithoutKept ==
  ASSUME Kept(completed), NEW k \in Key
  PROVE  /\ Kept(Without(k)) /\ Len(Without(k)) <= Len(completed)
         /\ Cached(k) => Len(Without(k)) < Len(completed)
         /\ Range(Without(k)) \subseteq Range(completed) \ {k}
<1>1. CASE Cached(k)
  <2> DEFINE i == CHOOSE i \in DOMAIN completed : completed[i] = k
  <2>1. i \in 1..Len(completed) /\ completed[i] = k
    BY <1>1 DEF Cached, Range, Kept
  <2>2. Without(k) = RemoveAt(completed, i)
    BY <1>1 DEF Without
  <2> HIDE DEF i
  <2>3. /\ Without(k) \in Seq(Key) /\ Len(Without(k)) = Len(completed) - 1
        /\ \A j \in 1..(Len(completed) - 1) :
             Without(k)[j] = IF j < i THEN completed[j] ELSE completed[j + 1]
    BY <2>1, <2>2, RemoveAtElements DEF Kept
  <2>4. IsInjective(Without(k))
    <3>1. SUFFICES ASSUME NEW a \in 1..Len(Without(k)), NEW b \in 1..Len(Without(k)),
                          Without(k)[a] = Without(k)[b]
                   PROVE  a = b
      BY <2>3, InjectiveSequence
    <3> DEFINE old(j) == IF j < i THEN j ELSE j + 1
    <3>2. /\ old(a) \in 1..Len(completed) /\ old(b) \in 1..Len(completed)
          /\ Without(k)[a] = completed[old(a)] /\ Without(k)[b] = completed[old(b)]
      BY <2>1, <2>3
    <3>3. completed[old(a)] = completed[old(b)]
      BY <3>1, <3>2
    <3>4. old(a) = old(b)
      <4> HIDE DEF old
      <4> QED
        BY <3>2, <3>3, InjectiveSequence DEF Kept
    <3> QED
      BY <2>1, <2>3, <3>4
  <2>5. Range(Without(k)) \subseteq Range(completed) \ {k}
    BY <2>1, <2>3 DEF Kept, IsInjective, Range
  <2> QED
    BY <2>3, <2>4, <2>5 DEF Kept
<1>2. CASE ~ Cached(k)
  BY <1>2 DEF Without, Cached, Kept, Range
<1> QED
  BY <1>1, <1>2

(* With a key as the newest, too. *)
LEMMA AppendKept ==
  ASSUME Kept(completed), NEW k \in Key
  PROVE  LET all == Append(Without(k), k)
         IN  /\ Kept(all) /\ Len(all) = Len(Without(k)) + 1
             /\ Range(all) \subseteq Range(completed) \cup {k}
<1> DEFINE s == Without(k)
           all == Append(s, k)
<1>1. s \in Seq(Key) /\ IsInjective(s) /\ Range(s) \subseteq Range(completed) \ {k}
  BY WithoutKept DEF Kept
<1> HIDE DEF s
<1>2. all \in Seq(Key) /\ Len(all) = Len(s) + 1 /\ all[Len(s) + 1] = k
      /\ \A j \in 1..Len(s) : all[j] = s[j] /\ s[j] \in Range(s)
  BY <1>1 DEF Range
<1> HIDE DEF all
<1>3. \A j \in 1..Len(s) : all[j] # k
  BY <1>1, <1>2
<1>4. IsInjective(all)
  BY <1>1, <1>2, <1>3 DEF IsInjective
<1>5. Range(all) \subseteq Range(completed) \cup {k}
  <2>1. DOMAIN all = 1..(Len(s) + 1)
    BY <1>2
  <2>2. \A j \in 1..(Len(s) + 1) : j = Len(s) + 1 \/ j \in 1..Len(s)
    BY <1>1
  <2> QED
    BY <1>1, <1>2, <2>1, <2>2 DEF Range
<1> QED
  BY <1>2, <1>4, <1>5 DEF Kept, all, s

LEMMA StoredKept ==
  ASSUME Kept(completed), NEW k \in Key
  PROVE  /\ Kept(Stored(k)) /\ Len(Stored(k)) <= Capacity
         /\ Range(Stored(k)) \subseteq Range(completed) \cup {k}
<1> DEFINE all == Append(Without(k), k)
           excess == IF Len(all) > Capacity THEN Len(all) - Capacity ELSE 0
<1>1. Kept(all) /\ Range(all) \subseteq Range(completed) \cup {k}
  BY AppendKept
<1>2. Stored(k) = SubSeq(all, excess + 1, Len(all))
  BY DEF Stored
<1> HIDE DEF all
<1>3. excess \in Nat /\ excess <= Len(all) /\ Len(all) - excess <= Capacity /\ Len(all) \in Nat
  BY <1>1, QueryAssumption DEF Kept
<1> HIDE DEF excess
<1>4. /\ Stored(k) \in Seq(Key) /\ Len(Stored(k)) = Len(all) - excess
      /\ \A j \in 1..(Len(all) - excess) : Stored(k)[j] = all[j + excess]
  BY <1>1, <1>2, <1>3 DEF Kept
<1>5. IsInjective(Stored(k))
  <2>1. SUFFICES ASSUME NEW a \in 1..Len(Stored(k)), NEW b \in 1..Len(Stored(k)),
                        Stored(k)[a] = Stored(k)[b]
                 PROVE  a = b
    BY <1>4, InjectiveSequence
  <2>2. /\ a + excess \in 1..Len(all) /\ b + excess \in 1..Len(all)
        /\ all[a + excess] = all[b + excess]
    BY <1>3, <1>4, <2>1
  <2>3. a + excess = b + excess
    BY <1>1, <2>2, InjectiveSequence DEF Kept
  <2> QED
    BY <1>3, <1>4, <2>3
<1>6. Range(Stored(k)) \subseteq Range(all)
  BY <1>1, <1>3, <1>4 DEF Kept, Range
<1> QED
  BY <1>1, <1>3, <1>4, <1>5, <1>6, QueryAssumption DEF Kept

(* Every step keeps the cache. *)
LEMMA CacheStep == IInv /\ CacheInv /\ [Next]_vars => CacheInv'
<1> SUFFICES ASSUME IInv, CacheInv, [Next]_vars
             PROVE  CacheInv'
  OBVIOUS
<1>0. Kept(completed)
  BY DEF CacheInv, Kept
<1>1. ASSUME NEW c \in Caller, NEW k \in Key, Hit(c, k)
      PROVE  CacheInv'
  <2>1. /\ completed' = Append(Without(k), k) /\ inFlight' = inFlight
        /\ Cached(k)
    BY <1>1 DEF Hit, queries
  <2>2. /\ Kept(completed') /\ Len(completed') = Len(Without(k)) + 1
        /\ Range(completed') \subseteq Range(completed) \cup {k}
    BY <1>0, <2>1, AppendKept
  <2>3. Len(Without(k)) < Len(completed) /\ Without(k) \in Seq(Key)
    BY <1>0, <2>1, WithoutKept DEF Kept
  <2>4. Len(completed') <= Capacity
    BY <2>2, <2>3, QueryAssumption DEF CacheInv
  <2> QED
    BY <2>1, <2>2, <2>4 DEF CacheInv, Cached, Kept
<1>2. ASSUME NEW c \in Caller, NEW k \in Key, Join(c, k)
      PROVE  CacheInv'
  BY <1>2 DEF Join, CacheInv, Cached
<1>3. ASSUME NEW c \in Caller, NEW k \in Key, Start(c, k)
      PROVE  CacheInv'
  BY <1>3 DEF Start, CacheInv, Cached, IInv, TypeOK
<1>4. ASSUME NEW q \in Caller, Load(q)
      PROVE  CacheInv'
  <2>1. inFlight' = Removed(q)
    BY <1>4 DEF Load, LoadSucceeds, LoadFails, LoadStops, Ends
  <2>2. \A k \in Key : inFlight[k] = None => inFlight'[k] = None
    BY <2>1 DEF Removed
  <2>3. CASE completed' = completed
    BY <2>2, <2>3 DEF CacheInv, Cached
  <2>4. CASE load[q] = "running" /\ completed' = Stored(key[q])
    <3>1. key[q] \in Key /\ inFlight[key[q]] = q
      BY <2>4 DEF IInv, SharedRead
    <3>2. inFlight'[key[q]] = None
      BY <2>1, <3>1 DEF Removed
    <3>3. /\ Kept(completed') /\ Len(completed') <= Capacity
          /\ Range(completed') \subseteq Range(completed) \cup {key[q]}
      BY <1>0, <2>4, <3>1, StoredKept
    <3> QED
      BY <2>2, <3>2, <3>3 DEF CacheInv, Cached, Kept
  <2> QED
    BY <1>4, <2>3, <2>4 DEF Load, LoadSucceeds, LoadFails, LoadStops
<1>5. ASSUME NEW c \in Caller, Resume(c) \/ Leave(c)
      PROVE  CacheInv'
  <2>1. completed' = completed
    BY <1>5 DEF Resume, Leave, Release
  <2>2. inFlight' = inFlight \/ inFlight' = Removed(query[c])
    BY <1>5 DEF Resume, Leave, Release
  <2> QED
    BY <2>1, <2>2 DEF CacheInv, Cached, Removed
<1>6. ASSUME NEW c \in Caller, Gone(c)
      PROVE  CacheInv'
  BY <1>6 DEF Gone, queries, CacheInv, Cached
<1>7. CASE UNCHANGED vars
  BY <1>7 DEF vars, queries, CacheInv, Cached
<1> QED
  BY <1>1, <1>2, <1>3, <1>4, <1>5, <1>6, <1>7 DEF Next, Get

(* The kept results fit, each key once, and no key with one is read again. *)
THEOREM CacheInvHolds == Spec => []CacheInv
<1>1. Init => CacheInv
  BY QueryAssumption DEF Init, CacheInv, Cached, Range, IsInjective
<1> QED
  BY <1>1, CacheStep, Invariance, PTL DEF Spec
-----------------------------------------------------------------------------
(* The client over the coordinator. *)

(* The client answers a caller itself, and the coordinator does not know it. *)
Answers(c) ==
  /\ caller[c] = "new"
  /\ \E s \in {"value", "failure", "gone"} : caller' = [caller EXCEPT ![c] = s]
  /\ UNCHANGED <<queries, load, completed>>

(* What the coordinator sees of a step of the client. *)
LEMMA StepKinds ==
  ASSUME [ClientNext]_allVars
  PROVE  [Next]_vars \/ \E c \in Caller : Answers(c)
<1>1. CASE Moves \/ Starts \/ Applies \/ Reverts \/ Restarts \/ Observes
  BY <1>1 DEF Moves, Starts, Applies, Reverts, Restarts, Observes
<1>2. ASSUME NEW c \in Caller, Fetch(c)
      PROVE  [Next]_vars \/ Answers(c)
  <2>1. CASE Late(c)
    BY <2>1 DEF Late, Answers
  <2>2. CASE Calls(c)
    BY <2>2 DEF Calls, Answers
  <2>3. ASSUME NEW k \in Key, FromBlocks(c, k)
        PROVE  Answers(c)
    BY <2>3 DEF FromBlocks, Answers
  <2>4. ASSUME NEW k \in Key, FromQueries(c, k)
        PROVE  Next
    BY <2>4 DEF FromQueries, Next, Get
  <2> QED
    BY <1>2, <2>1, <2>2, <2>3, <2>4 DEF Fetch
<1>3. ASSUME NEW c \in Caller, Loads(c) \/ Returns(c) \/ Quits(c)
      PROVE  Next
  BY <1>3 DEF Loads, LoadKeeps, Returns, Quits, Next, Load
<1>4. CASE UNCHANGED allVars
  BY <1>4 DEF allVars
<1> QED
  BY <1>1, <1>2, <1>3, <1>4 DEF ClientNext

LEMMA AnswersStep ==
  ASSUME IInv, CacheInv, NEW c \in Caller, Answers(c)
  PROVE  IInv' /\ CacheInv'
<1>1. PICK s \in {"value", "failure", "gone"} : caller' = [caller EXCEPT ![c] = s]
  BY DEF Answers
<1>2. UNCHANGED <<key, query, users, inFlight, load, completed>> /\ caller[c] = "new"
  BY DEF Answers, queries
<1>3. \A q \in Caller : Waiting(q)' = Waiting(q)
  BY <1>1, <1>2 DEF IInv, TypeOK, Waiting
<1>4. TypeOK'
  BY <1>1, <1>2 DEF IInv, TypeOK, Outcome
<1>5. SharedRead' /\ CacheInv'
  BY <1>2 DEF IInv, SharedRead, CacheInv, Cached
<1>6. Counted'
  BY <1>2, <1>3 DEF IInv, Counted
<1>7. Owned'
  BY <1>1, <1>2 DEF IInv, TypeOK, Owned
<1> QED
  BY <1>4, <1>5, <1>6, <1>7 DEF IInv

(* The coordinator's invariants hold under the client (rpc/client.ts calls *)
(* queries.get with the keys of its reads and calls).                      *)
THEOREM QueriesUnderClient == ClientSpec => [](IInv /\ CacheInv)
<1>1. ClientInit => Init
  BY DEF ClientInit
<1>2. Init => IInv /\ CacheInv
  <2>1. Init => TypeOK /\ SharedRead /\ Owned
    BY DEF Init, TypeOK, SharedRead, Owned
  <2>2. ASSUME Init
        PROVE  Counted
    <3>1. \A q \in Caller : Waiting(q) = {}
      BY <2>2 DEF Init, Waiting
    <3> QED
      BY <2>2, <3>1, FS_EmptySet DEF Counted, Init
  <2>3. Init => CacheInv
    BY QueryAssumption DEF Init, CacheInv, Cached, Range, IsInjective
  <2> QED
    BY <2>1, <2>2, <2>3 DEF IInv
<1>3. IInv /\ CacheInv /\ [ClientNext]_allVars => IInv' /\ CacheInv'
  BY StepKinds, AnswersStep, TypeStep, CountedStep, SharedStep, OwnedStep, CacheStep DEF IInv
<1> QED
  BY <1>1, <1>2, <1>3, PTL DEF ClientSpec
-----------------------------------------------------------------------------
(* What the client knows. *)

(* The completed blocks are those the running worker has told and, under   *)
(* them, blocks of the workers before it; none is above the head, nor      *)
(* above the height at which the worker goes on.                           *)
Held ==
  /\ next \in Nat /\ head.number \in Nat
  /\ DOMAIN told \subseteq DOMAIN blocks /\ DOMAIN blocks \subseteq 1..head.number
  /\ \A n \in DOMAIN told : blocks[n] = told[n] /\ n < next
  /\ \A n \in DOMAIN blocks : \A m \in DOMAIN told : m <= n => n \in DOMAIN told
  /\ next # 0 => \A n \in DOMAIN blocks : n <= next

(* Every one of them stands, or stood, where it is held. *)
BlocksCanonical == \A n \in DOMAIN blocks : Canonical(n, blocks[n])

HeadCanonical == head.hash # Null => Canonical(head.number, head.hash)

(* Kept results are of blocks named by their hashes, and of no others. *)
KeptAreNamed == \A k \in Key : Cached(k) => k.at \notin Moving /\ kept[k] = k.at

Knows ==
  /\ at \in 1..Len(Chains)
  /\ Held /\ BlocksCanonical /\ HeadCanonical
  /\ kept \in [Key -> Hash \cup {Null} \cup {k.at : k \in Key}] /\ KeptAreNamed

LEMMA ChainTypes ==
  ASSUME NEW i \in 1..Len(Chains)
  PROVE  Chains[i] \in Seq(Hash) /\ Chains[i] # <<>> /\ Len(Chains[i]) \in DOMAIN Chains[i]
BY ClientAssumption

(* Taking results away, or ordering them anew, keeps those that are kept. *)
LEMMA FewerKept ==
  ASSUME KeptAreNamed, kept' = kept, Range(completed') \subseteq Range(completed)
  PROVE  KeptAreNamed'
BY DEF KeptAreNamed, Cached

(* Two maps that agree from the lowest height of the one on are trimmed    *)
(* alike there, when both get the same height on top.                      *)
LEMMA TrimmedAlike ==
  ASSUME NEW T, NEW B, NEW n \in Nat, T \subseteq B, B \subseteq Nat,
         \A x \in B : \A m \in T : m <= x => x \in T,
         \A x \in T : x < n, \A x \in B : x <= n
  PROVE  /\ Newest(T \cup {n}) \subseteq Newest(B \cup {n})
         /\ n \in Newest(T \cup {n})
         /\ \A x \in Newest(B \cup {n}) : \A m \in Newest(T \cup {n}) :
              m <= x => x \in Newest(T \cup {n})
<1>1. ASSUME NEW m \in T \cup {n}, NEW x \in B \cup {n}, m <= x
      PROVE  x \in T \cup {n}
  <2>1. CASE m \in T
    BY <1>1, <2>1
  <2>2. CASE m = n
    BY <1>1, <2>2
  <2> QED
    BY <2>1, <2>2
<1>2. ASSUME NEW m \in T \cup {n}
      PROVE  m \in Newest(T \cup {n}) <=> m \in Newest(B \cup {n})
  <2>1. {x \in T \cup {n} : x >= m} = {x \in B \cup {n} : x >= m}
    BY <1>1
  <2> QED
    BY <2>1 DEF Newest
<1>3. {x \in T \cup {n} : x >= n} = {n}
  <2>1. ASSUME NEW x \in T
        PROVE  ~ (x >= n)
    <3>1. x \in Nat /\ x < n
      OBVIOUS
    <3> QED
      BY ONLY <3>1, n \in Nat
  <2>2. n >= n
    BY ONLY n \in Nat
  <2> QED
    BY <2>1, <2>2
<1>4. n \in Newest(T \cup {n})
  <2>1. Cardinality({x \in T \cup {n} : x >= n}) = 1
    BY <1>3, FS_Singleton
  <2> QED
    BY <2>1, ClientAssumption DEF Newest
<1>5. ASSUME NEW x \in Newest(B \cup {n}), NEW m \in Newest(T \cup {n}), m <= x
      PROVE  x \in T \cup {n}
  BY <1>1, <1>5 DEF Newest
<1>6. Newest(T \cup {n}) \subseteq Newest(B \cup {n})
  BY <1>2 DEF Newest
<1> QED
  BY <1>2, <1>4, <1>5, <1>6

LEMMA AppliesHeld ==
  ASSUME Held, Applies
  PROVE  Held'
<1> DEFINE T == DOMAIN told
           B == DOMAIN blocks
<1>1. PICK hash : told' = With(told, next, hash) /\ blocks' = With(blocks, next, hash)
  BY DEF Applies
<1>2. next \in 1..head.number /\ next' = next + 1 /\ head' = head
  BY DEF Applies
<1>3. /\ DOMAIN told' = Newest(T \cup {next}) /\ DOMAIN blocks' = Newest(B \cup {next})
      /\ \A m \in DOMAIN told' : told'[m] = IF m = next THEN hash ELSE told[m]
      /\ \A m \in DOMAIN blocks' : blocks'[m] = IF m = next THEN hash ELSE blocks[m]
  BY <1>1 DEF With
<1>4. /\ T \subseteq B /\ B \subseteq 1..head.number
      /\ \A x \in B : \A m \in T : m <= x => x \in T
      /\ \A x \in T : x < next /\ blocks[x] = told[x]
      /\ \A x \in B : x <= next
  BY <1>2 DEF Held
<1>5. next \in Nat /\ head.number \in Nat /\ B \subseteq Nat
  BY <1>4 DEF Held
<1> HIDE DEF T, B
<1>6. /\ Newest(T \cup {next}) \subseteq Newest(B \cup {next})
      /\ \A x \in Newest(B \cup {next}) : \A m \in Newest(T \cup {next}) :
           m <= x => x \in Newest(T \cup {next})
  BY <1>4, <1>5, TrimmedAlike
<1>7. Newest(T \cup {next}) \subseteq T \cup {next} /\ Newest(B \cup {next}) \subseteq B \cup {next}
  BY DEF Newest
<1>8. DOMAIN told' \subseteq DOMAIN blocks' /\ DOMAIN blocks' \subseteq 1..head'.number
  BY <1>2, <1>3, <1>4, <1>5, <1>6, <1>7
<1>9. ASSUME NEW n \in DOMAIN told'
      PROVE  blocks'[n] = told'[n] /\ n < next'
  <2>1. n \in DOMAIN blocks' /\ n \in T \cup {next}
    BY <1>3, <1>7, <1>8
  <2>2. CASE n = next
    <3>1. n < next'
      BY ONLY <1>2, <1>5, <2>2
    <3> QED
      BY <1>3, <2>1, <2>2, <3>1
  <2>3. CASE n # next
    <3>1. n \in T
      BY <2>1, <2>3
    <3>2. n < next /\ n \in Nat /\ blocks[n] = told[n]
      BY <1>4, <1>5, <3>1
    <3>3. n < next'
      BY ONLY <1>2, <1>5, <3>2
    <3> QED
      BY <1>3, <2>1, <2>3, <3>2, <3>3
  <2> QED
    BY <2>2, <2>3
<1>10. \A n \in DOMAIN blocks' : \A m \in DOMAIN told' : m <= n => n \in DOMAIN told'
  BY <1>3, <1>6
<1>11. ASSUME NEW n \in DOMAIN blocks'
       PROVE  n <= next'
  <2>1. n \in B \cup {next}
    BY <1>3, <1>7
  <2>2. CASE n \in B
    <3>1. n <= next /\ n \in Nat
      BY <1>4, <1>5, <2>2
    <3> QED
      BY ONLY <1>2, <1>5, <3>1
  <2>3. CASE n = next
    BY ONLY <1>2, <1>5, <2>3
  <2> QED
    BY <2>1, <2>2, <2>3
<1> QED
  BY <1>2, <1>5, <1>8, <1>9, <1>10, <1>11 DEF Held

LEMMA UpdatesKnown ==
  ASSUME Knows, Starts \/ Applies \/ Reverts \/ Restarts
  PROVE  Held' /\ BlocksCanonical'
<1>1. CASE Applies
  <2>1. PICK hash : /\ \E i \in 1..at : next \in DOMAIN Chains[i] /\ Chains[i][next] = hash
                    /\ blocks' = With(blocks, next, hash)
    BY <1>1 DEF Applies
  <2>2. at' = at
    BY <1>1 DEF Applies
  <2>3. DOMAIN blocks' \subseteq DOMAIN blocks \cup {next}
        /\ \A m \in DOMAIN blocks' : blocks'[m] = IF m = next THEN hash ELSE blocks[m]
    BY <2>1 DEF With, Newest
  <2>4. BlocksCanonical'
    BY <2>1, <2>2, <2>3 DEF Knows, BlocksCanonical, Canonical
  <2> QED
    BY <1>1, <2>4, AppliesHeld DEF Knows
<1>2. CASE Reverts
  <2>1. PICK n \in DOMAIN told : /\ told' = UpTo(told, n) /\ blocks' = UpTo(blocks, n)
                                 /\ next' = n + 1
    BY <1>2 DEF Reverts
  <2>2. UNCHANGED <<at, head>>
    BY <1>2 DEF Reverts
  <2>3. /\ DOMAIN told' = {m \in DOMAIN told : m <= n}
        /\ DOMAIN blocks' = {m \in DOMAIN blocks : m <= n}
        /\ \A m \in DOMAIN told' : told'[m] = told[m]
        /\ \A m \in DOMAIN blocks' : blocks'[m] = blocks[m]
    BY <2>1 DEF UpTo
  <2>4. n \in Nat /\ DOMAIN blocks \subseteq Nat
    BY DEF Knows, Held
  <2>5. Held'
    BY <2>1, <2>2, <2>3, <2>4 DEF Knows, Held
  <2>6. BlocksCanonical'
    BY <2>2, <2>3 DEF Knows, BlocksCanonical, Canonical
  <2> QED
    BY <2>5, <2>6
<1>3. CASE Starts
  <2>1. UNCHANGED <<at, told, blocks, head>> /\ next' = head.number /\ DOMAIN told = {}
    BY <1>3 DEF Starts
  <2> QED
    BY <2>1 DEF Knows, Held, BlocksCanonical, Canonical
<1>4. CASE Restarts
  <2>1. UNCHANGED <<at, blocks, head>> /\ next' = 0 /\ told' = <<>>
    BY <1>4 DEF Restarts
  <2>2. DOMAIN told' = {}
    BY <2>1
  <2> QED
    BY <2>1, <2>2 DEF Knows, Held, BlocksCanonical, Canonical
<1> QED
  BY <1>1, <1>2, <1>3, <1>4

(* Heads only rise, so that a block held stays at or under the head. *)
LEMMA HeadRises ==
  ASSUME Held, NEW number \in Nat, NEW hash, head' = head \/ head' = Heard(number, hash),
         UNCHANGED <<told, next, blocks>>
  PROVE  Held'
<1>1. head'.number \in Nat /\ head'.number >= head.number
  BY DEF Heard, Held
<1> QED
  BY <1>1 DEF Held

(* A head that is heard is one of a chain, or has no hash. *)
LEMMA HeardIsCanonical ==
  ASSUME HeadCanonical, NEW number, NEW hash, hash # Null => Canonical(number, hash)
  PROVE  Heard(number, hash).hash # Null =>
           Canonical(Heard(number, hash).number, Heard(number, hash).hash)
BY DEF Heard, HeadCanonical

LEMMA LastIsCanonical ==
  ASSUME Knows, NEW i \in 1..at
  PROVE  Canonical(Len(Chains[i]), Last(Chains[i]))
<1>1. i \in 1..Len(Chains)
  BY ClientAssumption DEF Knows
<1> QED
  BY <1>1, ChainTypes DEF Canonical, Last

LEMMA GetBlockKnown ==
  ASSUME Knows, GetBlock
  PROVE  head'.hash # Null => Canonical(head'.number, head'.hash)
BY HeardIsCanonical, LastIsCanonical DEF GetBlock, Knows, HeadCanonical

LEMMA GetBlockHeld ==
  ASSUME Knows, GetBlock, UNCHANGED <<told, next, blocks>>
  PROVE  Held'
<1>1. CASE head' = head
  BY <1>1 DEF Knows, Held
<1>2. ASSUME NEW i \in 1..at, head' = Heard(Len(Chains[i]), Last(Chains[i]))
      PROVE  Held'
  <2>1. i \in 1..Len(Chains)
    BY ClientAssumption DEF Knows
  <2>2. Len(Chains[i]) \in Nat
    BY <2>1, ChainTypes
  <2> QED
    BY <1>2, <2>2, HeadRises DEF Knows
<1> QED
  BY <1>1, <1>2 DEF GetBlock

(* What is kept of a read is the block it names. *)
LEMMA KeptIsNamed ==
  ASSUME NEW k \in Key, NEW block \in Reads(k), Keeps(k, block)
  PROVE  k.at \notin Moving /\ block = k.at
BY DEF Keeps, Reads, Moving

LEMMA ResultsKnown ==
  ASSUME IInv, CacheInv, Knows, NEW c \in Caller,
         LoadKeeps(c) \/ \E k \in Key : FromQueries(c, k)
  PROVE  kept' \in [Key -> Hash \cup {Null} \cup {k.at : k \in Key}] /\ KeptAreNamed'
<1>0. Kept(completed)
  BY DEF CacheInv, Kept
<1>1. ASSUME NEW k \in Key, FromQueries(c, k)
      PROVE  kept' = kept /\ KeptAreNamed'
  <2>1. kept' = kept
    BY <1>1 DEF FromQueries, clientVars
  <2>2. CASE Hit(c, k)
    <3>1. Range(completed') \subseteq Range(completed) \cup {k} /\ k \in Range(completed)
      BY <1>0, <2>2, AppendKept DEF Hit, Cached
    <3> QED
      BY <2>1, <3>1, FewerKept DEF Knows
  <2>3. CASE Join(c, k) \/ Start(c, k)
    BY <2>1, <2>3, FewerKept DEF Knows, Join, Start
  <2> QED
    BY <1>1, <2>1, <2>2, <2>3 DEF FromQueries
<1>2. CASE LoadKeeps(c)
  <2>1. key[c] \in Key
    BY <1>2 DEF LoadKeeps, LoadSucceeds, IInv, SharedRead
  <2>2. CASE completed' = completed /\ kept' = kept
    BY <2>2, FewerKept DEF Knows
  <2>3. ASSUME NEW block \in Reads(key[c]), Keeps(key[c], block),
               completed' = Stored(key[c]), kept' = [kept EXCEPT ![key[c]] = block]
        PROVE  kept' \in [Key -> Hash \cup {Null} \cup {k.at : k \in Key}] /\ KeptAreNamed'
    <3>1. key[c].at \notin Moving /\ block = key[c].at
      BY <2>1, <2>3, KeptIsNamed
    <3>2. Range(completed') \subseteq Range(completed) \cup {key[c]}
      BY <1>0, <2>1, <2>3, StoredKept
    <3>3. \A k \in Key : kept'[k] = IF k = key[c] THEN key[c].at ELSE kept[k]
      BY <2>3, <3>1 DEF Knows
    <3> QED
      BY <2>1, <2>3, <3>1, <3>2, <3>3 DEF Knows, KeptAreNamed, Cached
  <2> QED
    BY <1>2, <2>2, <2>3 DEF LoadKeeps, Knows
<1> QED
  BY <1>1, <1>2 DEF Knows

LEMMA KnowsStep ==
  ASSUME IInv, CacheInv, Knows, [ClientNext]_allVars
  PROVE  Knows'
<1>1. CASE Moves
  <2>1. at' = at + 1 /\ at + 1 \in 1..Len(Chains) /\ 1..at \subseteq 1..at'
    BY <1>1, ClientAssumption DEF Moves, Knows
  <2>2. UNCHANGED <<told, next, blocks, head, kept, completed>>
    BY <1>1 DEF Moves, vars
  <2>3. Held' /\ KeptAreNamed'
    BY <2>2 DEF Knows, Held, KeptAreNamed, Cached
  <2>4. HeadCanonical' /\ BlocksCanonical'
    BY <2>1, <2>2 DEF Knows, HeadCanonical, BlocksCanonical, Canonical
  <2> QED
    BY <2>1, <2>2, <2>3, <2>4 DEF Knows
<1>2. CASE Starts \/ Applies \/ Reverts \/ Restarts
  <2>1. UNCHANGED <<at, head, kept, completed>>
    BY <1>2 DEF Starts, Applies, Reverts, Restarts, vars
  <2>2. KeptAreNamed' /\ HeadCanonical'
    BY <2>1 DEF Knows, KeptAreNamed, Cached, HeadCanonical, Canonical
  <2> QED
    BY <1>2, <2>1, <2>2, UpdatesKnown DEF Knows
<1>3. CASE Observes
  <2>1. UNCHANGED <<at, told, next, blocks, kept, completed>>
    BY <1>3 DEF Observes, vars
  <2>2. PICK i \in 1..at : \E hash \in {Last(Chains[i]), Null} : head' = Heard(Len(Chains[i]), hash)
    BY <1>3 DEF Observes
  <2>3. PICK hash \in {Last(Chains[i]), Null} : head' = Heard(Len(Chains[i]), hash)
    BY <2>2
  <2>4. hash # Null => Canonical(Len(Chains[i]), hash)
    BY <2>3, LastIsCanonical
  <2>5. head'.hash # Null => Canonical(head'.number, head'.hash)
    BY <2>3, <2>4, HeardIsCanonical DEF Knows
  <2>6. HeadCanonical' /\ BlocksCanonical'
    BY <2>1, <2>5 DEF Knows, HeadCanonical, BlocksCanonical, Canonical
  <2>7. Held'
    <3>1. i \in 1..Len(Chains)
      BY ClientAssumption DEF Knows
    <3>2. Len(Chains[i]) \in Nat
      BY <3>1, ChainTypes
    <3> QED
      BY <2>1, <2>3, <3>2, HeadRises DEF Knows
  <2>8. KeptAreNamed'
    BY <2>1 DEF Knows, KeptAreNamed, Cached
  <2> QED
    BY <2>1, <2>6, <2>7, <2>8 DEF Knows
<1>4. ASSUME NEW c \in Caller, Fetch(c) \/ Loads(c) \/ Returns(c) \/ Quits(c)
      PROVE  Knows'
  <2>1. CASE Calls(c)
    <3>1. UNCHANGED <<at, told, next, blocks, kept, completed>>
      BY <2>1 DEF Calls
    <3>2. head' = head \/ GetBlock
      BY <2>1 DEF Calls
    <3>3. head'.hash # Null => Canonical(head'.number, head'.hash)
      BY <3>2, GetBlockKnown DEF Knows, HeadCanonical
    <3>4. HeadCanonical' /\ BlocksCanonical'
      BY <3>1, <3>3 DEF Knows, HeadCanonical, BlocksCanonical, Canonical
    <3>5. Held'
      BY <3>1, <3>2, GetBlockHeld DEF Knows, Held
    <3>6. KeptAreNamed'
      BY <3>1 DEF Knows, KeptAreNamed, Cached
    <3> QED
      BY <3>1, <3>4, <3>5, <3>6 DEF Knows
  <2>2. CASE LoadKeeps(c) \/ \E k \in Key : FromQueries(c, k)
    <3>1. UNCHANGED <<at, told, next, blocks, head>>
      BY <2>2 DEF LoadKeeps, FromQueries, clientVars
    <3>2. Held' /\ BlocksCanonical' /\ HeadCanonical'
      BY <3>1 DEF Knows, Held, BlocksCanonical, HeadCanonical, Canonical
    <3> QED
      BY <2>2, <3>1, <3>2, ResultsKnown DEF Knows
  <2>3. CASE UNCHANGED clientVars /\ completed' = completed
    BY <2>3 DEF clientVars, Knows, Held, BlocksCanonical, HeadCanonical, Canonical,
                KeptAreNamed, Cached
  <2>4. CASE Late(c) \/ \E k \in Key : FromBlocks(c, k)
    BY <2>3, <2>4 DEF Late, FromBlocks, clientVars
  <2>5. CASE Loads(c) \/ Returns(c) \/ Quits(c)
    BY <2>2, <2>3, <2>5
    DEF Loads, Returns, Quits, LoadFails, LoadStops, Resume, Leave, Release, Gone
  <2> QED
    BY <1>4, <2>1, <2>2, <2>4, <2>5 DEF Fetch
<1>5. CASE UNCHANGED allVars
  BY <1>5 DEF allVars, vars, clientVars, Knows, Held, BlocksCanonical, HeadCanonical, Canonical,
              KeptAreNamed, Cached
<1> QED
  BY <1>1, <1>2, <1>3, <1>4, <1>5 DEF ClientNext

(* In every state the completed blocks are those the running worker told   *)
(* and, under them, blocks that workers before it left (completedBlocks of *)
(* rpc/client.ts).                                                         *)
THEOREM KnowsHolds == ClientSpec => []Knows
<1>1. ClientInit => Knows
  BY ClientAssumption DEF ClientInit, Init, Knows, Held, BlocksCanonical, HeadCanonical, KeptAreNamed,
                          Cached, Range
<1> QED
  BY <1>1, KnowsStep, QueriesUnderClient, PTL DEF ClientSpec
-----------------------------------------------------------------------------
(* What an answer without a read may be: the formula of AtOnceIsCurrent.   *)
Current(g) ==
  IF g.of.method = "call"
  THEN g.block # Null => Canonical(g.number, g.block)
  ELSE CASE g.of.at = "number" ->
              IF Asked \in DOMAIN told
              THEN g.block = told[Asked]
              ELSE Canonical(Asked, g.block) /\ \A n \in DOMAIN told : Asked < n
         [] g.of.at = "latest" -> g.block = head.hash
         [] OTHER -> g.block = g.of.at

LEMMA BlocksCurrent ==
  ASSUME Knows, NEW k \in Key, NEW n \in Completed(k)
  PROVE  Current([of |-> k, block |-> blocks[n]])
<1>1. k.method # "call" /\ n \in DOMAIN blocks
  BY ClientAssumption DEF Completed, Referred
<1>2. CASE k.at = "number"
  <2>1. n = Asked /\ Canonical(n, blocks[n]) /\ n \in 1..head.number /\ head.number \in Nat
    BY <1>1, <1>2 DEF Completed, Referred, Knows, Held, BlocksCanonical
  <2>2. n \in DOMAIN told => blocks[n] = told[n]
    BY DEF Knows, Held
  <2>3. ASSUME n \notin DOMAIN told, NEW m \in DOMAIN told
        PROVE  n < m
    <3>1. ~ (m <= n)
      BY <1>1, <2>3 DEF Knows, Held
    <3>2. m \in 1..head.number
      BY DEF Knows, Held
    <3> QED
      BY <2>1, <3>1, <3>2
  <2> QED
    BY <1>1, <1>2, <2>1, <2>2, <2>3 DEF Current
<1>3. CASE k.at = "latest"
  BY <1>1, <1>3 DEF Completed, Referred, Current
<1>4. CASE k.at \notin Moving
  BY <1>1, <1>4 DEF Completed, Referred, Current, Moving
<1> QED
  BY <1>2, <1>3, <1>4 DEF Moving

LEMMA CallsCurrent ==
  ASSUME Knows, NEW c \in Caller, Calls(c), NEW g \in given'
  PROVE  Current(g)
<1>1. ASSUME NEW ref, NEW known, g = Named(ref, known),
             known.hash # Null => Canonical(known.number, known.hash)
      PROVE  Current(g)
  <2>1. g.of.method = "call"
    BY <1>1 DEF Named
  <2>2. g.block # Null => g.number = known.number /\ g.block = known.hash
    BY <1>1 DEF Named
  <2>3. ASSUME g.block # Null
        PROVE  Canonical(g.number, g.block)
    BY <1>1, <2>2, <2>3
  <2> QED
    BY <2>1, <2>3 DEF Current, Canonical
<1>2. CASE \E ref \in Moving : GetBlock /\ given' = {Named(ref, head')}
  <2>1. PICK ref \in Moving : GetBlock /\ given' = {Named(ref, head')}
    BY <1>2
  <2>2. g = Named(ref, head') /\ (head'.hash # Null => Canonical(head'.number, head'.hash))
    BY <2>1, GetBlockKnown
  <2> QED
    BY <1>1, <2>2
<1>3. CASE \E i \in 1..at : \E n \in DOMAIN Chains[i] :
             given' = {Named(Chains[i][n], [number |-> n, hash |-> Chains[i][n]])}
  <2>0. PICK i \in 1..at : \E n \in DOMAIN Chains[i] :
          given' = {Named(Chains[i][n], [number |-> n, hash |-> Chains[i][n]])}
    BY <1>3
  <2>1. PICK n \in DOMAIN Chains[i] :
          g = Named(Chains[i][n], [number |-> n, hash |-> Chains[i][n]])
    BY <2>0
  <2>2. Canonical(n, Chains[i][n])
    BY DEF Canonical
  <2> QED
    BY <1>1, <2>1, <2>2
<1> QED
  BY <1>2, <1>3 DEF Calls

(* Whatever is answered without a read is what the running worker and the  *)
(* head have told, as far as they have (completedResponse, rpc/query.ts):  *)
(* a read by height can get a block that an earlier worker left, one that  *)
(* stood at this height, only under all that the running one has told.     *)
THEOREM AtOnceIsCurrentHolds == ClientSpec => AtOnceIsCurrent
<1>1. ASSUME Knows, [ClientNext]_allVars, given' # given
      PROVE  \A g \in given' : Current(g)
  <2> SUFFICES ASSUME NEW g \in given'
               PROVE  Current(g)
    OBVIOUS
  <2>1. PICK c \in Caller : Fetch(c)
    BY <1>1 DEF ClientNext, allVars, Loads, Returns, Quits
  <2>2. CASE Calls(c)
    BY <1>1, <2>2, CallsCurrent
  <2>3. ASSUME NEW k \in Key, FromBlocks(c, k)
        PROVE  Current(g)
    BY <1>1, <2>3, BlocksCurrent DEF FromBlocks
  <2>4. ASSUME NEW k \in Key, FromQueries(c, k)
        PROVE  Current(g)
    <3>1. Hit(c, k) /\ g = [of |-> k, block |-> kept[k]]
      BY <2>4 DEF FromQueries
    <3>2. k.at \notin Moving /\ kept[k] = k.at
      BY <1>1, <3>1 DEF Hit, Knows, KeptAreNamed
    <3> QED
      BY <3>1, <3>2, ClientAssumption DEF Current, Moving
  <2> QED
    BY <2>1, <2>2, <2>3, <2>4 DEF Fetch, Late
<1>2. Knows /\ [ClientNext]_allVars => [\A g \in given' : Current(g)]_given
  BY <1>1
<1> QED
  BY <1>2, KnowsHolds, PTL DEF ClientSpec, AtOnceIsCurrent, Current
=============================================================================
