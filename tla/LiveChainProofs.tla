--------------------------- MODULE LiveChainProofs ---------------------------
(***************************************************************************)
(* Proofs about LiveChain, for every block tree, set of endpoints, window, *)
(* retention and bound: its type invariant, the recovery window, that it   *)
(* implements ChainView; and that the completed-block cache has every      *)
(* block the worker can revert, also after other workers have filled it,   *)
(* and never mixes forks while the client has had one worker.              *)
(***************************************************************************)
EXTENDS LiveChain, SharedLemmas

(* The cursor is the newest retained block. *)
CursorInv ==
  /\ cursor = NoBlock =>
       retained = EmptyMap /\ view = EmptyMap /\ pending = <<>>
  /\ cursor # NoBlock =>
       /\ Number[cursor] \in DOMAIN retained
       /\ retained[Number[cursor]] = cursor
       /\ \A n \in DOMAIN retained : n <= Number[cursor]

(* A round loads the heights after the cursor, or the cursor's own. *)
RoundInv ==
  /\ phase # "walk" => unread = {}
  /\ phase # "wait" =>
       /\ pending = <<>>
       /\ from <= through
       /\ cursor # NoBlock =>
            \/ from = Number[cursor] + 1
            \/ from = Number[cursor] /\ through = from

(* The height of the first pending application. *)
Low == Number[cursor] + 1 - Len(pending)

(* The pending applications continue the view up to the cursor. *)
PendingChain ==
  /\ \A i \in 1..Len(pending) :
       pending[i].kind = "apply" /\ Number[pending[i].value] = Low + i - 1
  /\ \A i \in 1..Len(pending) :
       i > 1 => Parent[pending[i].value] = pending[i - 1].value
  /\ pending # <<>> => pending[Len(pending)].value = cursor

ViewBelow ==
  /\ \A n \in DOMAIN view : n < Low
  /\ view = EmptyMap => pending # <<>>
  /\ view # EmptyMap =>
       /\ Low - 1 \in DOMAIN view
       /\ pending = <<>> => view[Low - 1] = cursor
       /\ pending # <<>> => Parent[pending[1].value] = view[Low - 1]

(* The retained blocks are the top of the view and the pending blocks. *)
RetainedOnTop ==
  \A n \in DOMAIN retained :
    /\ n < Low => n \in DOMAIN view /\ view[n] = retained[n]
    /\ n >= Low => retained[n] = pending[n - Low + 1].value
    /\ \A m \in DOMAIN view : m > n => m \in DOMAIN retained
    /\ \A m \in Low..Number[cursor] : m > n => m \in DOMAIN retained

Applying == PendingChain /\ ViewBelow /\ RetainedOnTop

(* The pending revert returns to the cursor, which the view holds. *)
Reverting ==
  /\ Len(pending) = 1
  /\ pending[1].kind = "revert"
  /\ pending[1].from = Number[cursor] + 1
  /\ Number[cursor] \in DOMAIN view
  /\ view[Number[cursor]] = cursor
  /\ \A n \in DOMAIN retained :
       /\ n \in DOMAIN view /\ view[n] = retained[n]
       /\ \A m \in DOMAIN view :
            m > n /\ m <= Number[cursor] => m \in DOMAIN retained

DeliveryInv == cursor # NoBlock => Applying \/ Reverting

IInv == TypeOK /\ CursorInv /\ RoundInv /\ DeliveryInv
-----------------------------------------------------------------------------
(* Lemmas about the maps. *)

(* Its heights are natural numbers, and its sub-maps are block maps. *)
LEMMA BlockMapHeights == ASSUME NEW f, BlockMap(f) PROVE \A n \in DOMAIN f : n \in Nat
BY DEF BlockMap

LEMMA OnlyMap == ASSUME NEW f, BlockMap(f), NEW S PROVE BlockMap(Only(f, S))
BY DEF BlockMap, Only

LEMMA BelowMap == ASSUME NEW f, BlockMap(f), NEW n \in Int PROVE BlockMap(Below(f, n))
BY DEF BlockMap, Below

LEMMA EmptyBlockMap == BlockMap(EmptyMap)
BY DEF BlockMap, EmptyMap

(* Adding a block at its own height. *)
LEMMA WithMap ==
  ASSUME NEW f, BlockMap(f), NEW b \in Block
  PROVE  BlockMap(With(f, b))
BY TreeAssumption DEF BlockMap, With

(* Newest keeps blocks of the map. *)
LEMMA NewestMap ==
  ASSUME NEW f, BlockMap(f), NEW k
  PROVE  /\ BlockMap(Newest(f, k))
         /\ DOMAIN Newest(f, k) \subseteq DOMAIN f
         /\ \A n \in DOMAIN Newest(f, k) : Newest(f, k)[n] = f[n]
BY DEF BlockMap, Newest, Only

(* What Newest keeps is the top of the map: its greatest height, and every *)
(* height above one that is kept.                                          *)
LEMMA NewestTop ==
  ASSUME NEW f, BlockMap(f), NEW k \in Nat \ {0},
         NEW top \in DOMAIN f, \A n \in DOMAIN f : n <= top
  PROVE  /\ top \in DOMAIN Newest(f, k)
         /\ \A n \in DOMAIN Newest(f, k), m \in DOMAIN f :
              m > n => m \in DOMAIN Newest(f, k)
<1> DEFINE Above(n) == {h \in DOMAIN f : h > n}
<1>0. DOMAIN f \subseteq Nat
  BY DEF BlockMap
<1>1. DOMAIN Newest(f, k) = {h \in DOMAIN f : Cardinality(Above(h)) < k}
  BY DEF Newest, Only
<1>2. Above(top) = {}
  BY <1>0
<1>3. top \in DOMAIN Newest(f, k)
  BY <1>1, <1>2, FS_EmptySet
<1>4. ASSUME NEW n \in DOMAIN Newest(f, k), NEW m \in DOMAIN f, m > n
      PROVE  m \in DOMAIN Newest(f, k)
  <2>1. Above(n) \subseteq 0..top
    BY <1>0, <1>1
  <2>2. IsFiniteSet(0..top)
    BY <1>0, FS_Interval
  <2>3. IsFiniteSet(Above(n))
    BY <2>1, <2>2, FS_Subset
  <2>4. Above(m) \in SUBSET Above(n)
    BY <1>0, <1>1, <1>4
  <2>5. IsFiniteSet(Above(m)) /\ Cardinality(Above(m)) <= Cardinality(Above(n))
    BY <2>3, <2>4, FS_Subset
  <2>6. Cardinality(Above(m)) \in Nat /\ Cardinality(Above(n)) \in Nat
    BY <2>3, <2>5, FS_CardinalityType
  <2>7. Cardinality(Above(n)) < k
    BY <1>1
  <2>8. Cardinality(Above(m)) < k
    BY <2>5, <2>6, <2>7
  <2> QED BY <1>1, <2>8
<1> QED BY <1>3, <1>4
-----------------------------------------------------------------------------
(* The initial state. *)
LEMMA InitInv == Init => IInv
<1> SUFFICES ASSUME Init PROVE IInv
  OBVIOUS
<1>1. TypeOK
  BY TreeAssumption, LiveChainAssumption
     DEF Init, TypeOK, BlockMap, EmptyMap, Heads, Updates
<1>2. CursorInv /\ RoundInv /\ DeliveryInv
  BY DEF Init, CursorInv, RoundInv, DeliveryInv
<1> QED BY <1>1, <1>2 DEF IInv

(* The worker's position in the chain and everything downstream.  Many     *)
(* actions leave it alone.                                                 *)
position == <<cursor, retained, pending, view>>

LEMMA PositionUnchanged ==
  ASSUME IInv, UNCHANGED position
  PROVE  CursorInv' /\ DeliveryInv'
<1>1. CursorInv'
  BY DEF IInv, position, CursorInv
<1>2. DeliveryInv'
  BY DEF IInv, position, DeliveryInv, Applying, Reverting, PendingChain,
         ViewBelow, RetainedOnTop, Low
<1> QED BY <1>1, <1>2

(* The actions that leave the position alone. *)
Passive ==
  \/ \E e \in Endpoint : Move(e) \/ Observe(e)
  \/ Await
  \/ \E n \in from..through : Load(n)
  \/ LoadFails \/ SameBlock \/ Break \/ NoAncestor
  \/ \E n \in unread : HeaderDiffers(n) \/ HeaderFails(n) \/ Reload(n)

LEMMA PassiveInv == ASSUME IInv, Passive PROVE IInv'
<1> SUFFICES TypeOK' /\ RoundInv' /\ UNCHANGED position
  BY PositionUnchanged DEF IInv
<1> USE TreeAssumption, LiveChainAssumption DEF IInv, TypeOK, RoundInv
<1>1. ASSUME NEW e \in Endpoint, Move(e)
      PROVE  TypeOK' /\ RoundInv' /\ UNCHANGED position
  BY <1>1 DEF Move, position, worker, downstream
<1>2. ASSUME NEW e \in Endpoint, Observe(e)
      PROVE  TypeOK' /\ RoundInv' /\ UNCHANGED position
  BY <1>2 DEF Observe, position, env, worker, downstream, Heads
<1>3. CASE Await
  <2>1. head.number \in Nat /\ (cursor # NoBlock => Number[cursor] \in Nat)
    BY DEF Heads
  <2>2. from' \in Nat /\ through' \in Nat /\ from' <= through'
    BY <1>3, <2>1 DEF Await
  <2>3. cursor # NoBlock =>
          \/ from' = Number[cursor] + 1
          \/ from' = Number[cursor] /\ through' = from'
    BY <1>3, <2>1 DEF Await, Fresh
  <2> QED
    BY <1>3, <2>2, <2>3 DEF Await, position, env, downstream
<1>4. ASSUME NEW n \in from..through, Load(n)
      PROVE  TypeOK' /\ RoundInv' /\ UNCHANGED position
  <2>1. BlockMap(ready')
    BY <1>4 DEF Load, BlockMap, Serves
  <2> QED
    BY <1>4, <2>1 DEF Load, position, env, downstream
<1>5. CASE LoadFails
  BY <1>5 DEF LoadFails, ReadFails, Fault, position, downstream
<1>6. CASE SameBlock
  <2>1. BlockMap(ready')
    BY <1>6, OnlyMap DEF SameBlock
  <2> QED BY <1>6, <2>1 DEF SameBlock, Loaded, position, env, downstream
<1>7. CASE Break
  BY <1>7 DEF Break, Loaded, position, env, downstream
<1>8. CASE NoAncestor
  BY <1>8, EmptyBlockMap DEF NoAncestor, position, env, downstream
<1>9. ASSUME NEW n \in unread, HeaderDiffers(n)
      PROVE  TypeOK' /\ RoundInv' /\ UNCHANGED position
  BY <1>9 DEF HeaderDiffers, position, env, downstream
<1>10. ASSUME NEW n \in unread, HeaderFails(n)
       PROVE  TypeOK' /\ RoundInv' /\ UNCHANGED position
  BY <1>10 DEF HeaderFails, ReadFails, Fault, position, downstream
<1>11. ASSUME NEW n \in unread, Reload(n)
       PROVE  TypeOK' /\ RoundInv' /\ UNCHANGED position
  BY <1>11, EmptyBlockMap DEF Reload, position, env, downstream
<1> QED
  BY <1>1, <1>2, <1>3, <1>4, <1>5, <1>6, <1>7, <1>8, <1>9, <1>10, <1>11
     DEF Passive

(* A restart forgets everything the invariant relates. *)
LEMMA RestartInv == ASSUME IInv, Restart PROVE IInv'
<1>1. TypeOK'
  BY EmptyBlockMap, LiveChainAssumption DEF IInv, TypeOK, Restart, env, BlockMap, EmptyMap
<1>2. CursorInv' /\ RoundInv' /\ DeliveryInv'
  BY DEF Restart, CursorInv, RoundInv, DeliveryInv
<1> QED BY <1>1, <1>2 DEF IInv

(* A revert returns to a retained block, which the view holds too. *)
LEMMA RevertInv == ASSUME IInv, NEW n \in unread, Revert(n) PROVE IInv'
<1> USE TreeAssumption, LiveChainAssumption
<1>1. n \in DOMAIN retained /\ n \in Nat /\ retained[n] \in Block /\ Number[retained[n]] = n
  BY DEF IInv, TypeOK, BlockMap
<1>2. cursor # NoBlock /\ pending = <<>> /\ Number[cursor] \in Nat
  BY <1>1 DEF IInv, TypeOK, CursorInv, RoundInv, Revert, HeaderMatches,
              Walking, EmptyMap
<1>3. cursor' = retained[n] /\ cursor' # NoBlock /\ Number[cursor'] = n
  BY <1>1 DEF Revert
<1>4. retained' = Below(retained, n + 1) /\ view' = view
  BY DEF Revert
<1>5. /\ DOMAIN retained' = {k \in DOMAIN retained : k <= n}
      /\ \A k \in DOMAIN retained' : retained'[k] = retained[k]
  BY <1>1, <1>4 DEF Below, IInv, TypeOK, BlockMap
<1>6. /\ pending' = << [kind |-> "revert", from |-> n + 1, ancestor |-> retained[n]] >>
      /\ pending' \in Seq(Updates)
  BY <1>1 DEF Revert, Updates
<1>7. TypeOK'
  <2>1. BlockMap(retained') /\ BlockMap(ready')
    BY <1>1, <1>4, BelowMap, EmptyBlockMap DEF IInv, TypeOK, Revert
  <2> QED
    BY <1>1, <1>3, <1>6, <2>1 DEF IInv, TypeOK, Revert, env
<1>8. CursorInv'
  BY <1>1, <1>3, <1>5 DEF CursorInv
<1>9. RoundInv'
  BY DEF Revert, RoundInv
<1>10. Low = Number[cursor] + 1 /\ Applying
  BY <1>2 DEF IInv, DeliveryInv, Reverting, Low
<1>11. \A k \in DOMAIN retained :
         /\ k \in DOMAIN view /\ view[k] = retained[k]
         /\ \A m \in DOMAIN view : m > k => m \in DOMAIN retained
  BY <1>2, <1>10 DEF Applying, RetainedOnTop, IInv, TypeOK, BlockMap, CursorInv
<1>12. Reverting'
  BY <1>1, <1>3, <1>4, <1>5, <1>6, <1>11 DEF Reverting, IInv, TypeOK, BlockMap
<1> QED BY <1>7, <1>8, <1>9, <1>12 DEF IInv, DeliveryInv

(* The blocks of a round that extends the chain continue the view. *)
LEMMA ExtendInv == ASSUME IInv, Extend PROVE IInv'
<1> USE TreeAssumption, LiveChainAssumption
<1> DEFINE K == through - from + 1
           All == [n \in DOMAIN retained \cup (from..through) |->
                     IF n \in from..through THEN ready[n] ELSE retained[n]]
<1>1. /\ pending = <<>> /\ from \in Nat /\ through \in Nat /\ from <= through
      /\ K \in Nat /\ K > 0
  BY DEF IInv, TypeOK, RoundInv, Extend, Loaded
<1>2. \A n \in from..through : n \in DOMAIN ready /\ ready[n] \in Block /\ Number[ready[n]] = n
  BY <1>1 DEF IInv, TypeOK, BlockMap, Extend, Loaded
<1>3. ASSUME NEW n \in from..through, n > from PROVE Parent[ready[n]] = ready[n - 1]
  <2>1. Predecessor(n) = ready[n - 1] /\ n - 1 \in from..through
    BY <1>1, <1>3 DEF Predecessor
  <2>2. Predecessor(n) # NoBlock
    BY <1>2, <2>1
  <2> QED BY <2>1, <2>2 DEF Extend, Continues
<1>4. cursor # NoBlock => from = Number[cursor] + 1 /\ Parent[ready[from]] = cursor
  BY <1>1, <1>2 DEF Extend, Continues, Predecessor
<1>5. cursor' = ready[through] /\ cursor' \in Block /\ cursor' # NoBlock /\ Number[cursor'] = through
  BY <1>1, <1>2 DEF Extend
<1>6. /\ pending' = [i \in 1..K |-> [kind |-> "apply", value |-> ready[from + i - 1]]]
      /\ \A i \in 1..K : from + i - 1 \in from..through
  BY <1>1 DEF Extend
<1>7. /\ Len(pending') = K /\ pending' # <<>> /\ pending' \in Seq(Updates)
      /\ \A i \in 1..K : /\ pending'[i].kind = "apply"
                         /\ pending'[i].value = ready[from + i - 1]
  <2>1. \A i \in 1..K : [kind |-> "apply", value |-> ready[from + i - 1]] \in Updates
    BY <1>2, <1>6 DEF Updates
  <2>2. pending' \in [1..K -> Updates]
    BY <1>6, <2>1
  <2>3. pending' \in Seq(Updates)
    BY <1>1, <2>2
  <2>4. Len(pending') = K
    BY <1>1, <1>6
  <2>5. pending' # <<>>
    BY <1>1, <2>4
  <2> QED BY <1>6, <2>3, <2>4, <2>5
<1>8. BlockMap(All) /\ through \in DOMAIN All /\ \A n \in DOMAIN All : n <= through
  <2>1. BlockMap(All)
    BY <1>1, <1>2 DEF IInv, TypeOK, BlockMap
  <2>2. \A n \in DOMAIN retained : n <= through
    BY <1>1, <1>4 DEF IInv, CursorInv, TypeOK, BlockMap, EmptyMap
  <2> QED BY <1>1, <2>1, <2>2
<1>81. /\ \A n \in from..through : All[n] = ready[n]
       /\ \A n \in DOMAIN retained : n \notin from..through => All[n] = retained[n]
       /\ DOMAIN All = DOMAIN retained \cup (from..through)
  OBVIOUS
<1>9. retained' = Newest(All, Cap)
  BY DEF Extend
<1> HIDE DEF All
<1>10. /\ BlockMap(retained') /\ DOMAIN retained' \subseteq DOMAIN All
       /\ \A n \in DOMAIN retained' : retained'[n] = All[n]
  BY <1>8, <1>9, NewestMap
<1>11. /\ through \in DOMAIN retained'
       /\ \A n \in DOMAIN retained', m \in DOMAIN All : m > n => m \in DOMAIN retained'
  BY <1>8, <1>9, NewestTop
<1>12. TypeOK'
  <2>1. BlockMap(ready')
    BY OnlyMap DEF Extend, IInv, TypeOK
  <2>2. unread' = {}
    BY DEF Extend, Loaded, IInv, RoundInv
  <2> QED BY <1>5, <1>7, <1>10, <2>1, <2>2 DEF Extend, IInv, TypeOK, env
<1>13. CursorInv'
  BY <1>1, <1>5, <1>8, <1>81, <1>10, <1>11 DEF CursorInv
<1>14. RoundInv'
  BY DEF Extend, RoundInv, Loaded, IInv
<1>15. PendingChain'
  BY <1>1, <1>2, <1>3, <1>5, <1>6, <1>7 DEF PendingChain, Low
<1>16. Low' = from /\ view' = view
  BY <1>1, <1>5, <1>7 DEF Low, Extend
<1>17. cursor # NoBlock =>
         Applying /\ Low = from /\ Number[cursor] \in DOMAIN view /\ view[Number[cursor]] = cursor
  <2>1. ASSUME cursor # NoBlock PROVE Applying /\ Low = from
    BY <1>1, <1>4, <2>1 DEF IInv, DeliveryInv, Reverting, Low
  <2>2. ASSUME cursor # NoBlock
        PROVE  Number[cursor] \in DOMAIN view /\ view[Number[cursor]] = cursor
    BY <1>1, <1>4, <2>1, <2>2 DEF Applying, ViewBelow, IInv, TypeOK
  <2> QED BY <2>1, <2>2
<1>18. ViewBelow'
  <2>1. CASE cursor = NoBlock
    BY <1>7, <1>16, <2>1 DEF ViewBelow, IInv, CursorInv, EmptyMap
  <2>2. CASE cursor # NoBlock
    <3>1. pending'[1].value = ready[from]
      BY <1>1, <1>7
    <3>2. /\ \A n \in DOMAIN view : n < from
          /\ from - 1 \in DOMAIN view
          /\ view[from - 1] = cursor
      BY <1>1, <1>4, <1>17, <2>2 DEF Applying, ViewBelow
    <3> QED BY <1>4, <1>7, <1>16, <2>2, <3>1, <3>2 DEF ViewBelow
  <2> QED BY <2>1, <2>2
<1>19. RetainedOnTop'
  <2>1. ASSUME NEW n \in DOMAIN retained', n < from
        PROVE  /\ n \in DOMAIN retained /\ cursor # NoBlock
               /\ n \in DOMAIN view /\ view[n] = retained'[n]
    <3>1. n \in DOMAIN retained /\ retained'[n] = retained[n]
      BY <1>1, <1>10, <1>81, <2>1
    <3>2. cursor # NoBlock
      BY <3>1 DEF IInv, CursorInv, EmptyMap
    <3> QED BY <1>17, <2>1, <3>1, <3>2 DEF Applying, RetainedOnTop
  <2>2. ASSUME NEW n \in DOMAIN retained', n >= from
        PROVE  n - from + 1 \in 1..K /\ retained'[n] = ready[n]
    BY <1>1, <1>8, <1>81, <1>10, <2>2 DEF BlockMap
  <2>3. ASSUME NEW n \in DOMAIN retained', NEW m \in DOMAIN view, m > n
        PROVE  m \in DOMAIN retained'
    <3>1. n \in Nat /\ m \in Nat /\ m < from /\ cursor # NoBlock
      <4>1. cursor # NoBlock
        BY <2>3 DEF IInv, CursorInv, EmptyMap
      <4> QED
        BY <1>1, <1>10, <1>17, <2>3, <4>1 DEF Applying, ViewBelow, BlockMap, IInv, TypeOK
    <3>2. m \in DOMAIN retained
      BY <1>1, <1>17, <2>1, <2>3, <3>1 DEF Applying, RetainedOnTop
    <3> QED BY <1>11, <1>81, <2>3, <3>2
  <2>4. ASSUME NEW n \in DOMAIN retained', NEW m \in from..through, m > n
        PROVE  m \in DOMAIN retained'
    BY <1>11, <1>81, <2>4
  <2>5. \A n \in DOMAIN retained' : n \in Nat
    BY <1>10 DEF BlockMap
  <2>6. ASSUME NEW n \in DOMAIN retained', n >= from
        PROVE  retained'[n] = pending'[n - from + 1].value
    <3>1. n - from + 1 \in 1..K /\ from + (n - from + 1) - 1 = n
      BY <1>1, <2>2, <2>5, <2>6
    <3> QED BY <1>7, <2>2, <2>6, <3>1
  <2> QED
    BY <1>1, <1>5, <1>16, <2>1, <2>3, <2>4, <2>5, <2>6 DEF RetainedOnTop
<1> QED
  BY <1>12, <1>13, <1>14, <1>15, <1>18, <1>19 DEF IInv, DeliveryInv, Applying

(* What handing on the first update does to the pending sequence. *)
LEMMA DeliverTail ==
  ASSUME TypeOK, Deliver
  PROVE  /\ Len(pending) \in Nat \ {0} /\ pending[1] \in Updates
         /\ pending' \in Seq(Updates) /\ Len(pending') = Len(pending) - 1
         /\ \A i \in 1..Len(pending') : pending'[i] = pending[i + 1]
         /\ UNCHANGED <<env, head, worker, restarts>>
<1>1. pending \in Seq(Updates) /\ pending # <<>> /\ pending' = Tail(pending)
  BY DEF TypeOK, Deliver
<1>2. Len(pending) \in Nat \ {0} /\ pending[1] \in Updates
  BY <1>1
<1>3. /\ pending' \in Seq(Updates) /\ Len(pending') = Len(pending) - 1
      /\ \A i \in 1..Len(pending') : pending'[i] = pending[i + 1]
  BY <1>1, <1>2
<1> QED BY <1>2, <1>3 DEF Deliver

(* An update applied by the consumer: the next pending block. *)
LEMMA DeliverApply ==
  ASSUME IInv, Deliver, pending[1].kind = "apply"
  PROVE  /\ IInv'
         /\ pending[1].value \in Block
         /\ view' = With(view, pending[1].value)
         /\ \A n \in DOMAIN view : n < Number[pending[1].value]
         /\ view # EmptyMap =>
              /\ Number[pending[1].value] - 1 \in DOMAIN view
              /\ Parent[pending[1].value] = view[Number[pending[1].value] - 1]
<1> USE TreeAssumption, LiveChainAssumption
<1> DEFINE b == pending[1].value
<1>1. /\ Len(pending) \in Nat \ {0} /\ pending[1] \in Updates
      /\ pending' \in Seq(Updates) /\ Len(pending') = Len(pending) - 1
      /\ \A i \in 1..Len(pending') : pending'[i] = pending[i + 1]
      /\ UNCHANGED <<env, head, worker, restarts>>
  BY DeliverTail DEF IInv
<1>2. b \in Block
  BY <1>1 DEF Updates
<1>3. /\ completed' = Newest(With(completed, b), Cap)
      /\ view' = With(view, b)
  BY DEF Deliver
<1>4. cursor # NoBlock /\ Number[cursor] \in Nat /\ Applying
  BY <1>1 DEF IInv, TypeOK, CursorInv, DeliveryInv, Reverting, Deliver
<1>5. Number[b] = Low /\ Low \in Int /\ Low = Number[cursor] + 1 - Len(pending)
  <2>1. Low \in Int /\ Low = Number[cursor] + 1 - Len(pending) /\ 1 \in 1..Len(pending)
    BY <1>1, <1>4 DEF Low
  <2>2. PendingChain
    BY <1>4 DEF Applying
  <2>3. Number[pending[1].value] = Low + 1 - 1
    BY <2>1, <2>2 DEF PendingChain
  <2> QED BY <2>1, <2>3
<1>6. UNCHANGED <<cursor, retained>> /\ Low' = Low + 1
  BY <1>1, <1>4 DEF worker, Low
<1>7. /\ DOMAIN view' = DOMAIN view \cup {Low} /\ view'[Low] = b
      /\ \A n \in DOMAIN view : n < Low /\ view'[n] = view[n]
  BY <1>3, <1>4, <1>5 DEF With, Applying, ViewBelow
<1>8. TypeOK'
  <2>1. BlockMap(With(completed, b)) /\ BlockMap(view')
    BY <1>2, <1>3, WithMap DEF IInv, TypeOK
  <2>2. BlockMap(completed')
    BY <1>3, <2>1, NewestMap
  <2> QED BY <1>1, <2>1, <2>2 DEF IInv, TypeOK, env, worker
<1>9. CursorInv' /\ RoundInv'
  BY <1>1, <1>4 DEF IInv, CursorInv, RoundInv, worker, Deliver
<1>10. PendingChain'
  <2>1. ASSUME NEW i \in 1..Len(pending')
        PROVE  /\ i + 1 \in 1..Len(pending) /\ i \in 1..Len(pending)
               /\ pending'[i] = pending[i + 1]
               /\ pending'[i].kind = "apply"
               /\ Number[pending'[i].value] = Low' + i - 1
    <3>1. /\ i + 1 \in 1..Len(pending) /\ i \in 1..Len(pending)
          /\ pending'[i] = pending[i + 1]
      BY <1>1
    <3>2. /\ pending[i + 1].kind = "apply"
          /\ Number[pending[i + 1].value] = Low + (i + 1) - 1
      BY <1>4, <3>1 DEF Applying, PendingChain
    <3>3. Low + (i + 1) - 1 = Low' + i - 1
      BY <1>5, <1>6
    <3> QED BY <3>1, <3>2, <3>3
  <2>2. ASSUME NEW i \in 1..Len(pending'), i > 1
        PROVE  Parent[pending'[i].value] = pending'[i - 1].value
    <3>1. i - 1 \in 1..Len(pending') /\ pending'[i - 1] = pending[i]
      BY <1>1, <2>2
    <3>2. Parent[pending[i + 1].value] = pending[i].value
      BY <1>1, <1>4, <2>1, <2>2 DEF Applying, PendingChain
    <3> QED BY <2>1, <3>1, <3>2
  <2>3. ASSUME pending' # <<>> PROVE pending'[Len(pending')].value = cursor'
    <3>1. Len(pending') > 0
      BY <1>1, <2>3
    <3> QED BY <1>1, <1>4, <1>6, <3>1 DEF Applying, PendingChain
  <2> QED BY <2>1, <2>2, <2>3 DEF PendingChain
<1>11. ViewBelow'
  <2>1. view' # EmptyMap
    BY <1>7 DEF EmptyMap
  <2>2. pending' = <<>> => view'[Low' - 1] = cursor'
    <3>1. pending' = <<>> => Len(pending) = 1 /\ pending # <<>>
      BY <1>1
    <3>2. pending' = <<>> => b = cursor
      BY <1>4, <3>1 DEF Applying, PendingChain
    <3>3. Low' - 1 = Low
      BY <1>5, <1>6
    <3> QED BY <1>6, <1>7, <3>2, <3>3
  <2>3. pending' # <<>> => Parent[pending'[1].value] = view'[Low' - 1]
    <3> SUFFICES ASSUME pending' # <<>> PROVE Parent[pending'[1].value] = view'[Low' - 1]
      OBVIOUS
    <3>1. /\ 1 \in 1..Len(pending') /\ 2 \in 1..Len(pending)
          /\ pending'[1] = pending[2] /\ 2 > 1 /\ 2 - 1 = 1
      BY <1>1
    <3>2. Parent[pending[2].value] = pending[1].value
      BY <1>4, <3>1 DEF Applying, PendingChain
    <3>3. Low' - 1 = Low
      BY <1>5, <1>6
    <3> QED BY <1>7, <3>1, <3>2, <3>3
  <2>4. Low' - 1 = Low /\ \A n \in DOMAIN view' : n < Low'
    BY <1>5, <1>6, <1>7, BlockMapHeights DEF IInv, TypeOK
  <2> QED BY <1>7, <2>1, <2>2, <2>3, <2>4 DEF ViewBelow
<1>12. RetainedOnTop'
  <2>1. \A n \in DOMAIN retained : n \in Nat
    BY DEF IInv, TypeOK, BlockMap
  <2>2. ASSUME NEW n \in DOMAIN retained, n < Low'
        PROVE  n \in DOMAIN view' /\ view'[n] = retained[n]
    BY <1>4, <1>5, <1>6, <1>7, <2>1, <2>2 DEF Applying, RetainedOnTop
  <2>3. ASSUME NEW n \in DOMAIN retained, n >= Low'
        PROVE  retained[n] = pending'[n - Low' + 1].value
    <3>1. n <= Number[cursor]
      BY <1>4 DEF IInv, CursorInv
    <3>2. n - Low' + 1 = n - Low /\ n - Low \in 1..Len(pending')
      <4>1. n \in Int /\ Low \in Int /\ Low' = Low + 1 /\ n >= Low + 1
        BY <1>5, <1>6, <2>1, <2>3
      <4>2. n - Low <= Len(pending) - 1
        BY <1>1, <1>4, <1>5, <2>1, <3>1
      <4> QED BY <1>1, <4>1, <4>2
    <3>3. retained[n] = pending[n - Low + 1].value
      BY <1>4, <1>5, <1>6, <2>1, <2>3 DEF Applying, RetainedOnTop
    <3>4. pending'[n - Low] = pending[n - Low + 1]
      BY <1>1, <3>2
    <3> QED BY <3>2, <3>3, <3>4
  <2>4. ASSUME NEW n \in DOMAIN retained, NEW m \in DOMAIN view', m > n
        PROVE  m \in DOMAIN retained
    <3>1. Low \in Low..Number[cursor]
      BY <1>1, <1>4, <1>5
    <3>2. m \in DOMAIN view \/ m = Low
      BY <1>7, <2>4
    <3> QED BY <1>4, <2>4, <3>1, <3>2 DEF Applying, RetainedOnTop
  <2>5. ASSUME NEW n \in DOMAIN retained, NEW m \in Low'..Number[cursor], m > n
        PROVE  m \in DOMAIN retained
    BY <1>4, <1>5, <1>6, <2>1, <2>5 DEF Applying, RetainedOnTop
  <2> QED BY <1>6, <2>2, <2>3, <2>4, <2>5 DEF RetainedOnTop
<1>13. IInv'
  BY <1>8, <1>9, <1>10, <1>11, <1>12 DEF IInv, DeliveryInv, Applying
<1>14. /\ \A n \in DOMAIN view : n < Number[b]
       /\ view # EmptyMap =>
            Number[b] - 1 \in DOMAIN view /\ Parent[b] = view[Number[b] - 1]
  BY <1>1, <1>4, <1>5, <1>7 DEF Applying, ViewBelow
<1> QED BY <1>2, <1>3, <1>13, <1>14

(* A revert handed on: the consumer returns to the cursor. *)
LEMMA DeliverRevert ==
  ASSUME IInv, Deliver, pending[1].kind = "revert"
  PROVE  /\ IInv'
         /\ cursor # NoBlock /\ Number[cursor] \in DOMAIN view
         /\ view' = Below(view, Number[cursor] + 1)
<1> USE TreeAssumption, LiveChainAssumption
<1>1. /\ Len(pending) \in Nat \ {0} /\ pending[1] \in Updates
      /\ pending' \in Seq(Updates) /\ Len(pending') = Len(pending) - 1
      /\ UNCHANGED <<env, head, worker, restarts>>
  BY DeliverTail DEF IInv
<1>2. pending[1].from \in Nat
  BY <1>1 DEF Updates
<1>3. /\ completed' = Below(completed, pending[1].from)
      /\ view' = Below(view, pending[1].from)
  BY DEF Deliver, DropFrom
<1>4. cursor # NoBlock /\ Number[cursor] \in Nat
  BY <1>1 DEF IInv, TypeOK, CursorInv, Deliver
<1>5. Reverting
  <2>1. 1 \in 1..Len(pending)
    BY <1>1
  <2> QED BY <1>4, <2>1 DEF IInv, DeliveryInv, Applying, PendingChain
<1>6. /\ pending' = <<>> /\ Len(pending') = 0
      /\ UNCHANGED <<cursor, retained>>
      /\ Low' = Number[cursor] + 1
  BY <1>1, <1>4, <1>5 DEF Reverting, worker, Low
<1>7. /\ view' = Below(view, Number[cursor] + 1)
      /\ Number[cursor] \in DOMAIN view
  BY <1>3, <1>5 DEF Reverting
<1>8. /\ DOMAIN view' = {n \in DOMAIN view : n <= Number[cursor]}
      /\ \A n \in DOMAIN view' : view'[n] = view[n]
  BY <1>4, <1>7 DEF Below, IInv, TypeOK, BlockMap
<1>9. TypeOK'
  <2>1. BlockMap(completed') /\ BlockMap(view')
    BY <1>2, <1>3, BelowMap DEF IInv, TypeOK
  <2> QED BY <1>1, <2>1 DEF IInv, TypeOK, env, worker
<1>10. CursorInv' /\ RoundInv'
  BY <1>1, <1>4 DEF IInv, CursorInv, RoundInv, worker, Deliver
<1>11. PendingChain'
  BY <1>6 DEF PendingChain
<1>12. ViewBelow'
  <2>1. /\ Number[cursor] \in DOMAIN view' /\ view'[Number[cursor]] = cursor
        /\ Low' - 1 = Number[cursor]
    BY <1>4, <1>5, <1>6, <1>7, <1>8 DEF Reverting
  <2>2. \A n \in DOMAIN view' : n < Low'
    BY <1>4, <1>6, <1>8, BlockMapHeights DEF IInv, TypeOK
  <2>3. view' # EmptyMap
    BY <2>1 DEF EmptyMap
  <2> QED BY <1>6, <2>1, <2>2, <2>3 DEF ViewBelow
<1>13. RetainedOnTop'
  BY <1>4, <1>5, <1>6, <1>8 DEF RetainedOnTop, Reverting, IInv, CursorInv, TypeOK, BlockMap
<1>14. IInv'
  BY <1>9, <1>10, <1>11, <1>12, <1>13 DEF IInv, DeliveryInv, Applying
<1> QED BY <1>4, <1>7, <1>14

LEMMA DeliverInv == ASSUME IInv, Deliver PROVE IInv'
<1>1. pending[1] \in Updates
  BY DeliverTail DEF IInv
<1>2. pending[1].kind = "apply" \/ pending[1].kind = "revert"
  BY <1>1 DEF Updates
<1> QED BY <1>2, DeliverApply, DeliverRevert
-----------------------------------------------------------------------------
LEMMA NextInv == ASSUME IInv, [Next]_vars PROVE IInv'
<1>1. CASE UNCHANGED vars
  BY <1>1 DEF vars, env, worker, downstream, IInv, TypeOK, CursorInv,
       RoundInv, DeliveryInv, Applying, Reverting, PendingChain, ViewBelow,
       RetainedOnTop, Low
<1>2. CASE Passive
  BY <1>2, PassiveInv
<1>3. CASE Extend
  BY <1>3, ExtendInv
<1>4. ASSUME NEW n \in unread, Revert(n) PROVE IInv'
  BY <1>4, RevertInv
<1>5. CASE Deliver
  BY <1>5, DeliverInv
<1>6. CASE Restart
  BY <1>6, RestartInv
<1> QED
  BY <1>1, <1>2, <1>3, <1>4, <1>5, <1>6 DEF Next, Round, Passive

(* In every state cursor, retained blocks, round and pending updates agree *)
(* (the walk of rpc/live-chain.ts).                                        *)
THEOREM Invariance == Spec => []IInv
<1>1. Init => IInv
  BY InitInv
<1>2. IInv /\ [Next]_vars => IInv'
  BY NextInv
<1> QED BY <1>1, <1>2, PTL DEF Spec

(* Every variable of the worker, the client and the consumer keeps its     *)
(* type, for every tree of blocks and any number of endpoints.             *)
THEOREM TypeCorrect == Spec => []TypeOK
<1>1. IInv => TypeOK
  BY DEF IInv
<1> QED BY <1>1, Invariance, PTL

(* The blocks a reorg can be resolved against are always the top of the    *)
(* chain the consumers hold (the walk of rpc/live-chain.ts).               *)
THEOREM RecoveryWindowHolds == Spec => []RecoveryWindow
<1>1. IInv => RecoveryWindow
  <2> SUFFICES ASSUME IInv, pending = <<>> PROVE RecoveryWindow
    BY DEF RecoveryWindow
  <2> USE TreeAssumption
  <2>1. CASE cursor = NoBlock
    BY <2>1 DEF IInv, CursorInv, RecoveryWindow, EmptyMap
  <2>2. CASE cursor # NoBlock
    <3>1. Applying /\ Low = Number[cursor] + 1 /\ Number[cursor] \in Nat
      BY <2>2 DEF IInv, TypeOK, DeliveryInv, Reverting, Low
    <3>2. \A n \in DOMAIN view : n \in Nat /\ n <= Number[cursor]
      BY <3>1 DEF IInv, TypeOK, BlockMap, Applying, ViewBelow
    <3>3. ASSUME NEW n \in DOMAIN retained
          PROVE  /\ n \in DOMAIN view /\ view[n] = retained[n]
                 /\ \A m \in DOMAIN view : m > n => m \in DOMAIN retained
      BY <2>2, <3>1, <3>3 DEF IInv, TypeOK, BlockMap, CursorInv, Applying, RetainedOnTop
    <3> QED
      BY <2>2, <3>1, <3>2, <3>3
         DEF IInv, CursorInv, RecoveryWindow, Applying, ViewBelow
  <2> QED BY <2>1, <2>2
<1> QED BY <1>1, Invariance, PTL

(* Every step is a step of ChainView on the consumer's blocks, or leaves   *)
(* them alone.                                                             *)
LEMMA StepRefines == ASSUME IInv, [Next]_vars PROVE [View!Next]_view
<1> USE TreeAssumption
<1>1. CASE Deliver /\ pending[1].kind = "apply"
  <2> DEFINE b == pending[1].value
  <2>1. /\ b \in Block /\ view' = With(view, b)
        /\ \A n \in DOMAIN view : n < Number[b]
        /\ view # EmptyMap =>
             /\ Number[b] - 1 \in DOMAIN view
             /\ Parent[b] = view[Number[b] - 1]
    BY <1>1, DeliverApply
  <2>2. ASSUME view # EmptyMap
        PROVE  /\ Parent[b] # NoBlock
               /\ Number[Parent[b]] \in DOMAIN view
               /\ view[Number[Parent[b]]] = Parent[b]
    BY <2>1, <2>2 DEF IInv, TypeOK, BlockMap
  <2>3. View!Apply(b)
    BY <2>1, <2>2 DEF View!Apply, View!EmptyMap, EmptyMap, With
  <2> QED BY <2>1, <2>3 DEF View!Next
<1>2. CASE Deliver /\ pending[1].kind = "revert"
  <2>1. Number[cursor] \in DOMAIN view /\ view' = Below(view, Number[cursor] + 1)
    BY <1>2, DeliverRevert
  <2>2. View!Revert(Number[cursor])
    BY <2>1 DEF View!Revert, View!Below, Below
  <2> QED BY <2>1, <2>2 DEF View!Next
<1>3. CASE Deliver
  <2>1. pending[1] \in Updates
    BY <1>3, DeliverTail DEF IInv
  <2>2. pending[1].kind = "apply" \/ pending[1].kind = "revert"
    BY <2>1 DEF Updates
  <2> QED BY <1>1, <1>2, <1>3, <2>2
<1>4. CASE Restart
  BY <1>4 DEF Restart, View!Next, View!StartAgain, View!EmptyMap, EmptyMap
<1>5. CASE Passive
  BY <1>5 DEF Passive, Move, Observe, Await, Load, LoadFails, SameBlock, Break,
     NoAncestor, HeaderDiffers, HeaderFails, Reload, worker, downstream
<1>6. CASE Extend
  BY <1>6 DEF Extend
<1>7. ASSUME NEW n \in unread, Revert(n) PROVE UNCHANGED view
  BY <1>7 DEF Revert
<1>8. CASE UNCHANGED vars
  BY <1>8 DEF vars, downstream
<1> QED
  BY <1>3, <1>4, <1>5, <1>6, <1>7, <1>8 DEF Next, Round, Passive

(* The shared stream implements the consumers' promise: applications of    *)
(* children of the newest block and reverts to a block the consumer holds, *)
(* whatever the endpoints answer between two reads.                        *)
THEOREM Refinement == Spec => ViewIsLinked
<1>1. Init => View!Init
  BY DEF Init, View!Init, View!EmptyMap, EmptyMap
<1>2. IInv /\ [Next]_vars => [View!Next]_view
  BY StepRefines
<1> QED BY <1>1, <1>2, Invariance, PTL DEF Spec, ViewIsLinked, View!Spec
-----------------------------------------------------------------------------
(* The completed-block cache. *)

(* What the head bounds: the worker, the round and the cache. *)
HeadInv ==
  /\ cursor # NoBlock => Number[cursor] <= head.number
  /\ phase # "wait" => through <= head.number
  /\ \A n \in DOMAIN completed : n <= head.number

(* The first round of a worker loads one block, above the cached ones. *)
FirstRound ==
  phase # "wait" /\ cursor = NoBlock =>
    /\ from = through
    /\ \A n \in DOMAIN completed : n <= from

(* The retained heights are the newest ones, at most Cap of them. *)
DenseInv ==
  cursor # NoBlock =>
    \A n \in DOMAIN retained :
      /\ Number[cursor] - n < Cap
      /\ \A k \in n..Number[cursor] : k \in DOMAIN retained

Cached(n) == n \in DOMAIN completed /\ completed[n] = retained[n]

(* The cache has the retained blocks but those still to be applied, and    *)
(* nothing above the next of these.                                        *)
CoverInv ==
  cursor # NoBlock =>
    /\ Applying =>
         /\ \A n \in DOMAIN retained : n < Low => Cached(n)
         /\ \A n \in DOMAIN completed : n <= Low
    /\ Reverting => \A n \in DOMAIN retained : Cached(n)

CacheIInv == HeadInv /\ FirstRound /\ DenseInv /\ CoverInv

LEMMA CacheInit == Init => CacheIInv
BY DEF Init, CacheIInv, HeadInv, FirstRound, DenseInv, CoverInv, EmptyMap

(* A worker either applies or reverts, never both. *)
LEMMA OneDelivery == ASSUME TypeOK PROVE ~(Applying /\ Reverting)
<1> SUFFICES ASSUME Applying, Reverting PROVE FALSE
  OBVIOUS
<1>1. 1 \in 1..Len(pending) /\ pending[1].kind = "revert"
  BY DEF Reverting
<1>2. pending[1].kind = "apply"
  BY <1>1 DEF Applying, PendingChain
<1> QED BY <1>1, <1>2

(* Steps that leave the worker's position and the cache alone. *)
LEMMA CachePassive == ASSUME IInv, CacheIInv, Passive PROVE CacheIInv'
<1> USE TreeAssumption, LiveChainAssumption
<1>1. UNCHANGED <<cursor, retained, pending, view, completed>>
  BY DEF Passive, Move, Observe, Await, Load, LoadFails, SameBlock, Break,
     NoAncestor, HeaderDiffers, HeaderFails, Reload, worker, downstream
<1>2. DenseInv' /\ CoverInv'
  BY <1>1 DEF CacheIInv, DenseInv, CoverInv, Cached, Applying, Reverting,
     PendingChain, ViewBelow, RetainedOnTop, Low
<1>3. head.number \in Nat /\ head'.number \in Nat /\ head'.number >= head.number
  <2>1. head.number \in Nat
    BY DEF IInv, TypeOK, Heads
  <2>2. ASSUME NEW e \in Endpoint, Observe(e)
        PROVE  head'.number \in Nat /\ head'.number >= head.number
    BY <2>1, <2>2 DEF Observe, IInv, TypeOK
  <2>3. UNCHANGED head \/ \E e \in Endpoint : Observe(e)
    BY DEF Passive, Move, Await, Load, LoadFails, SameBlock, Break,
           NoAncestor, HeaderDiffers, HeaderFails, Reload
  <2>4. CASE UNCHANGED head
    BY <2>1, <2>4
  <2> QED BY <2>1, <2>2, <2>3, <2>4
<1>4. HeadInv' /\ FirstRound'
  <2>1. CASE Await
    <3>1. through' <= head.number /\ head' = head
      BY <1>3, <2>1 DEF Await, IInv, TypeOK
    <3>2. cursor = NoBlock => from' = head.number /\ through' = from'
      BY <2>1 DEF Await
    <3> QED BY <1>1, <3>1, <3>2 DEF CacheIInv, HeadInv, FirstRound
  <2>2. CASE UNCHANGED <<from, through>> /\ (phase' = phase \/ phase' = "wait" \/ phase # "wait")
    <3>1. cursor # NoBlock => Number[cursor] \in Nat
      BY DEF IInv, TypeOK
    <3>2. \A n \in DOMAIN completed : n \in Nat
      BY DEF IInv, TypeOK, BlockMap
    <3>3. through \in Nat
      BY DEF IInv, TypeOK
    <3> QED
      BY <1>1, <1>3, <2>2, <3>1, <3>2, <3>3 DEF CacheIInv, HeadInv, FirstRound
  <2> QED
    BY <2>1, <2>2
       DEF Passive, Move, Observe, Load, LoadFails, SameBlock, Break,
           NoAncestor, HeaderDiffers, HeaderFails, Reload, Loaded, worker
<1> QED BY <1>2, <1>4 DEF CacheIInv

LEMMA CacheRestart == ASSUME IInv, CacheIInv, Restart PROVE CacheIInv'
BY DEF Restart, CacheIInv, HeadInv, FirstRound, DenseInv, CoverInv

(* The number of heights above one of them. *)
LEMMA HeightsAbove ==
  ASSUME NEW n \in Nat, NEW top \in Nat, n <= top
  PROVE  IsFiniteSet((n + 1)..top) /\ Cardinality((n + 1)..top) = top - n
<1>1. n + 1 \in Int /\ top \in Int
  OBVIOUS
<1>2. /\ IsFiniteSet((n + 1)..top)
      /\ Cardinality((n + 1)..top) = IF n + 1 > top THEN 0 ELSE top - (n + 1) + 1
  BY <1>1, FS_Interval
<1> QED BY <1>2

(* A round that extends the chain. *)
LEMMA CacheExtend == ASSUME IInv, CacheIInv, Extend PROVE CacheIInv'
<1> USE TreeAssumption, LiveChainAssumption
<1> DEFINE All == [n \in DOMAIN retained \cup (from..through) |->
                     IF n \in from..through THEN ready[n] ELSE retained[n]]
<1>1. /\ pending = <<>> /\ from \in Nat /\ through \in Nat /\ from <= through
      /\ phase = "load" /\ phase' = "wait" /\ head.number \in Nat
      /\ UNCHANGED <<head, completed, view, from, through>>
  BY DEF IInv, TypeOK, Heads, RoundInv, Extend, Loaded, env
<1>2. ASSUME NEW n \in from..through
      PROVE  n \in DOMAIN ready /\ ready[n] \in Block /\ Number[ready[n]] = n
  BY <1>1 DEF IInv, TypeOK, BlockMap, Extend, Loaded
<1>3. /\ cursor' = ready[through] /\ cursor' \in Block /\ cursor' # NoBlock
      /\ Number[cursor'] = through
  BY <1>1, <1>2 DEF Extend
<1>4. cursor # NoBlock => from = Number[cursor] + 1
  BY <1>1, <1>2 DEF Extend, Continues, Predecessor
<1>5. retained' = Newest(All, Cap)
  BY DEF Extend
<1>6. /\ DOMAIN All = DOMAIN retained \cup (from..through)
      /\ \A n \in DOMAIN retained : n < from => All[n] = retained[n]
  <2>1. \A n \in DOMAIN retained : n \in Nat
    BY DEF IInv, TypeOK, BlockMap
  <2> QED BY <1>1, <2>1
<1>7. BlockMap(All)
  BY <1>1, <1>2 DEF IInv, TypeOK, BlockMap
<1>8. \A n \in DOMAIN retained : n \in Nat /\ n < from
  BY <1>1, <1>4 DEF IInv, CursorInv, TypeOK, BlockMap, EmptyMap
<1>9. ASSUME NEW n \in DOMAIN All
      PROVE  n \in Nat /\ n <= through /\ \A k \in n..through : k \in DOMAIN All
  <2>1. n \in Nat /\ n <= through
    BY <1>1, <1>6, <1>8
  <2>2. CASE n >= from
    BY <1>1, <1>6, <2>1, <2>2
  <2>3. CASE n < from
    <3>1. n \in DOMAIN retained /\ cursor # NoBlock
      BY <1>1, <1>6, <2>1, <2>3 DEF IInv, CursorInv, EmptyMap
    <3>2. Number[cursor] \in Nat /\ \A k \in n..Number[cursor] : k \in DOMAIN retained
      BY <3>1 DEF CacheIInv, DenseInv, IInv, TypeOK
    <3> QED BY <1>1, <1>4, <1>6, <2>1, <3>1, <3>2
  <2> QED BY <1>1, <2>1, <2>2, <2>3
<1> HIDE DEF All
<1>10. /\ DOMAIN retained' \subseteq DOMAIN All
       /\ \A n \in DOMAIN retained' : retained'[n] = All[n]
  BY <1>5, <1>7, NewestMap
<1>11. \A n \in DOMAIN retained', m \in DOMAIN All : m > n => m \in DOMAIN retained'
  <2>1. through \in DOMAIN All /\ \A n \in DOMAIN All : n <= through
    BY <1>1, <1>6, <1>9
  <2> QED BY <1>5, <1>7, <2>1, NewestTop
<1>12. DenseInv'
  <2> SUFFICES ASSUME NEW n \in DOMAIN retained'
               PROVE  /\ through - n < Cap
                      /\ \A k \in n..through : k \in DOMAIN retained'
    BY <1>3 DEF DenseInv
  <2>1. n \in DOMAIN All /\ n \in Nat /\ n <= through
    BY <1>9, <1>10
  <2>2. {k \in DOMAIN All : k > n} = (n + 1)..through
    BY <1>1, <1>9, <2>1
  <2>3. Cardinality({k \in DOMAIN All : k > n}) < Cap
    BY <1>5 DEF Newest, Only
  <2>4. Cardinality((n + 1)..through) = through - n
    BY <1>1, <2>1, HeightsAbove
  <2>5. \A k \in n..through : k \in DOMAIN retained'
    BY <1>1, <1>9, <1>11, <2>1
  <2> QED BY <2>2, <2>3, <2>4, <2>5
<1>13. HeadInv' /\ FirstRound'
  BY <1>1, <1>3 DEF CacheIInv, HeadInv, FirstRound
<1>14. CoverInv'
  <2>1. Low' = from /\ ~Reverting'
    <3>1. pending' = [i \in 1..(through - from + 1) |->
                        [kind |-> "apply", value |-> ready[from + i - 1]]]
      BY DEF Extend
    <3>2. Len(pending') = through - from + 1 /\ pending'[1].kind = "apply"
      BY <1>1, <3>1
    <3> QED BY <1>1, <1>3, <3>2 DEF Low, Reverting
  <2>2. ASSUME NEW n \in DOMAIN retained', n < from
        PROVE  n \in DOMAIN completed /\ completed[n] = retained'[n]
    <3>1. n \in DOMAIN retained /\ retained'[n] = retained[n] /\ cursor # NoBlock
      <4>1. n \in DOMAIN retained
        BY <1>1, <1>6, <1>9, <1>10, <2>2
      <4> QED BY <1>6, <1>10, <2>2, <4>1 DEF IInv, CursorInv, EmptyMap
    <3>2. Applying /\ Low = from
      BY <1>1, <1>4, <3>1 DEF IInv, DeliveryInv, Reverting, Low
    <3> QED BY <2>2, <3>1, <3>2 DEF CacheIInv, CoverInv, Cached
  <2>3. \A n \in DOMAIN completed : n <= from
    <3>1. CASE cursor = NoBlock
      BY <1>1, <3>1 DEF CacheIInv, FirstRound
    <3>2. CASE cursor # NoBlock
      <4>1. Applying /\ Low = from
        BY <1>1, <1>4, <3>2 DEF IInv, DeliveryInv, Reverting, Low
      <4> QED BY <3>2, <4>1 DEF CacheIInv, CoverInv
    <3> QED BY <3>1, <3>2
  <2> QED BY <1>1, <2>1, <2>2, <2>3 DEF CoverInv, Cached
<1> QED BY <1>12, <1>13, <1>14 DEF CacheIInv

(* A revert keeps a part of the retained blocks, all in the cache. *)
LEMMA CacheRevert ==
  ASSUME IInv, CacheIInv, NEW n \in unread, Revert(n) PROVE CacheIInv'
<1> USE TreeAssumption, LiveChainAssumption
<1>1. n \in DOMAIN retained /\ n \in Nat /\ retained[n] \in Block /\ Number[retained[n]] = n
  BY DEF IInv, TypeOK, BlockMap
<1>2. cursor # NoBlock /\ pending = <<>> /\ Number[cursor] \in Nat /\ n <= Number[cursor]
  BY <1>1 DEF IInv, TypeOK, CursorInv, RoundInv, Revert, HeaderMatches,
              Walking, EmptyMap
<1>3. /\ cursor' = retained[n] /\ cursor' # NoBlock /\ Number[cursor'] = n
      /\ phase' = "wait" /\ head' = head /\ completed' = completed
      /\ retained' = Below(retained, n + 1)
      /\ Len(pending') = 1 /\ pending'[1].kind = "revert"
  BY <1>1 DEF Revert
<1>4. /\ DOMAIN retained' = {k \in DOMAIN retained : k <= n}
      /\ \A k \in DOMAIN retained' : retained'[k] = retained[k] /\ k \in Nat
  BY <1>1, <1>3 DEF Below, IInv, TypeOK, BlockMap
<1>5. Applying /\ \A k \in DOMAIN retained : k < Low
  <2>1. Applying /\ Low = Number[cursor] + 1
    BY <1>2 DEF IInv, DeliveryInv, Reverting, Low
  <2> QED BY <1>2, <2>1 DEF IInv, CursorInv, TypeOK, BlockMap
<1>6. HeadInv' /\ FirstRound'
  <2>1. head.number \in Nat
    BY DEF IInv, TypeOK, Heads
  <2> QED BY <1>1, <1>2, <1>3, <2>1 DEF CacheIInv, HeadInv, FirstRound
<1>7. DenseInv'
  <2> SUFFICES ASSUME NEW k \in DOMAIN retained'
               PROVE  n - k < Cap /\ \A j \in k..n : j \in DOMAIN retained'
    BY <1>3 DEF DenseInv
  <2>1. k \in DOMAIN retained /\ k \in Nat /\ k <= n
    BY <1>4
  <2>2. /\ Number[cursor] - k < Cap
        /\ \A j \in k..Number[cursor] : j \in DOMAIN retained
    BY <1>2, <2>1 DEF CacheIInv, DenseInv
  <2> QED BY <1>1, <1>2, <1>4, <2>1, <2>2
<1>8. \A k \in DOMAIN retained' : Cached(k)'
  BY <1>2, <1>3, <1>4, <1>5 DEF CacheIInv, CoverInv, Cached
<1>9. ~Applying'
  <2>1. 1 \in 1..Len(pending') /\ pending'[1].kind # "apply"
    BY <1>3
  <2> QED BY <2>1 DEF Applying, PendingChain
<1> QED BY <1>6, <1>7, <1>8, <1>9 DEF CacheIInv, CoverInv

(* An update handed on changes the cache before the consumers see it. *)
LEMMA CacheDeliver == ASSUME IInv, CacheIInv, Deliver PROVE CacheIInv'
<1> USE TreeAssumption, LiveChainAssumption
<1>1. /\ Len(pending) \in Nat \ {0} /\ pending[1] \in Updates
      /\ pending' \in Seq(Updates) /\ Len(pending') = Len(pending) - 1
      /\ UNCHANGED <<env, head, worker, restarts>>
  BY DeliverTail DEF IInv
<1>2. /\ cursor # NoBlock /\ Number[cursor] \in Nat /\ phase = "wait"
      /\ head.number \in Nat /\ Number[cursor] <= head.number
  <2>1. pending # <<>>
    BY DEF Deliver
  <2> QED BY <2>1 DEF IInv, TypeOK, Heads, CursorInv, RoundInv, CacheIInv, HeadInv
<1>3. /\ UNCHANGED <<head, cursor, retained, phase, from, through>>
      /\ Low \in Int /\ Low' = Low + 1 /\ Low <= Number[cursor]
      /\ Low = Number[cursor] + 1 - Len(pending)
  BY <1>1, <1>2 DEF worker, Low
<1>4. DenseInv'
  BY <1>3 DEF CacheIInv, DenseInv
<1>5. \A n \in DOMAIN retained : n \in Nat /\ n <= Number[cursor]
  BY <1>2 DEF IInv, TypeOK, BlockMap, CursorInv
<1>6. \A n \in DOMAIN completed : n \in Nat
  BY DEF IInv, TypeOK, BlockMap
<1>7. CASE pending[1].kind = "apply"
  <2> DEFINE b == pending[1].value
             all == With(completed, b)
  <2>1. Applying /\ b \in Block /\ Number[b] = Low /\ Low \in Nat
    <3>1. Applying
      BY <1>2, <1>7 DEF IInv, DeliveryInv, Reverting
    <3>2. b \in Block
      BY <1>7, DeliverApply
    <3>3. 1 \in 1..Len(pending)
      BY <1>1
    <3>4. Number[b] = Low + 1 - 1
      BY <3>1, <3>3 DEF Applying, PendingChain
    <3> QED BY <1>3, <3>1, <3>2, <3>4
  <2>2. completed' = Newest(all, Cap)
    BY <1>7 DEF Deliver
  <2>3. /\ BlockMap(all) /\ DOMAIN all = DOMAIN completed \cup {Low}
        /\ all[Low] = b
        /\ \A n \in DOMAIN completed : n # Low => all[n] = completed[n]
    <3>1. BlockMap(all)
      BY <2>1, WithMap DEF IInv, TypeOK
    <3> QED BY <2>1, <3>1 DEF With
  <2>4. \A n \in DOMAIN all : n \in Nat /\ n <= Low
    BY <1>2, <1>6, <2>1, <2>3 DEF CacheIInv, CoverInv
  <2> HIDE DEF all
  <2>5. /\ DOMAIN completed' \subseteq DOMAIN all
        /\ \A n \in DOMAIN completed' : completed'[n] = all[n]
    BY <2>2, <2>3, NewestMap
  <2>6. ASSUME NEW n \in DOMAIN retained, n < Low' PROVE Cached(n)'
    <3>1. n \in Nat /\ n <= Low
      BY <1>3, <1>5, <2>6
    <3>2. n \in DOMAIN all /\ all[n] = retained[n]
      <4>1. CASE n = Low
        <5>1. retained[n] = pending[n - Low + 1].value
          <6>1. RetainedOnTop /\ n >= Low
            BY <1>3, <2>1, <4>1 DEF Applying
          <6> HIDE DEF b
          <6> QED BY <2>6, <6>1 DEF RetainedOnTop
        <5>2. n - Low + 1 = 1
          BY <1>3, <4>1
        <5> QED BY <2>3, <4>1, <5>1, <5>2
      <4>2. CASE n # Low
        BY <1>2, <1>3, <2>1, <2>3, <3>1, <4>2 DEF CacheIInv, CoverInv, Cached
      <4> QED BY <4>1, <4>2
    <3>3. Cardinality({k \in DOMAIN all : k > n}) < Cap
      <4>1. {k \in DOMAIN all : k > n} \subseteq (n + 1)..Low
        BY <2>1, <2>4, <3>1
      <4>2. IsFiniteSet((n + 1)..Low) /\ Cardinality((n + 1)..Low) = Low - n
        BY <2>1, <3>1, HeightsAbove
      <4>3. Cardinality({k \in DOMAIN all : k > n}) <= Low - n
        BY <4>1, <4>2, FS_Subset
      <4>4. Cardinality({k \in DOMAIN all : k > n}) \in Nat
        BY <4>1, <4>2, FS_Subset, FS_CardinalityType
      <4>5. Number[cursor] - n < Cap
        BY <1>2 DEF CacheIInv, DenseInv
      <4> QED BY <1>2, <1>3, <3>1, <4>3, <4>4, <4>5
    <3>4. n \in DOMAIN completed'
      BY <2>2, <3>2, <3>3 DEF Newest, Only
    <3> QED BY <1>3, <2>5, <3>2, <3>4 DEF Cached
  <2>7. \A n \in DOMAIN completed' : n <= Low'
    BY <1>3, <2>4, <2>5
  <2>8. ~Reverting'
    <3>1. CASE pending' = <<>>
      BY <3>1 DEF Reverting
    <3>2. CASE pending' # <<>>
      <4>1. 2 \in 1..Len(pending) /\ pending'[1] = pending[2]
        <5>1. pending' = Tail(pending) /\ pending \in Seq(Updates)
          BY DEF Deliver, IInv, TypeOK
        <5>2. Len(pending) > 1
          BY <1>1, <3>2, <5>1
        <5> QED BY <1>1, <5>1, <5>2
      <4>2. pending'[1].kind = "apply"
        BY <2>1, <4>1 DEF Applying, PendingChain
      <4> QED BY <4>2 DEF Reverting
    <3> QED BY <3>1, <3>2
  <2>9. CoverInv'
    BY <1>3, <2>6, <2>7, <2>8 DEF CoverInv
  <2>10. \A n \in DOMAIN completed' : n <= head.number
    BY <1>2, <1>3, <2>4, <2>5
  <2>11. HeadInv' /\ FirstRound'
    BY <1>2, <1>3, <2>10 DEF CacheIInv, HeadInv, FirstRound
  <2> QED BY <1>4, <2>9, <2>11 DEF CacheIInv
<1>8. CASE pending[1].kind = "revert"
  <2>1. Reverting /\ pending[1].from = Number[cursor] + 1
    <3>1. 1 \in 1..Len(pending)
      BY <1>1
    <3>2. ~Applying
      BY <1>8, <3>1 DEF Applying, PendingChain
    <3> QED BY <1>2, <3>2 DEF IInv, DeliveryInv, Reverting
  <2>2. completed' = Below(completed, Number[cursor] + 1)
    BY <1>8, <2>1 DEF Deliver, DropFrom
  <2>3. /\ DOMAIN completed' = {n \in DOMAIN completed : n <= Number[cursor]}
        /\ \A n \in DOMAIN completed' : completed'[n] = completed[n]
    BY <1>2, <1>6, <2>2 DEF Below
  <2>4. pending' = <<>> /\ Low' = Number[cursor] + 1
    <3>1. Len(pending) = 1 /\ Len(pending') = 0
      BY <1>1, <2>1 DEF Reverting
    <3> QED BY <1>1, <1>2, <1>3, <3>1
  <2>5. \A n \in DOMAIN retained : Cached(n)'
    BY <1>2, <1>3, <1>5, <2>1, <2>3 DEF CacheIInv, CoverInv, Cached
  <2>6. \A n \in DOMAIN completed' : n <= Low' /\ n <= head.number
    BY <1>2, <1>6, <2>3, <2>4
  <2>7. CoverInv'
    BY <1>3, <2>5, <2>6 DEF CoverInv
  <2>8. HeadInv' /\ FirstRound'
    BY <1>2, <1>3, <2>6 DEF CacheIInv, HeadInv, FirstRound
  <2> QED BY <1>4, <2>7, <2>8 DEF CacheIInv
<1> QED BY <1>1, <1>7, <1>8 DEF Updates

LEMMA CacheNext == ASSUME IInv, CacheIInv, [Next]_vars PROVE CacheIInv'
<1>1. CASE UNCHANGED vars
  BY <1>1 DEF vars, env, worker, downstream, CacheIInv, HeadInv, FirstRound,
     DenseInv, CoverInv, Cached, Applying, Reverting, PendingChain, ViewBelow,
     RetainedOnTop, Low
<1>2. CASE Passive
  BY <1>2, CachePassive
<1>3. CASE Extend
  BY <1>3, CacheExtend
<1>4. ASSUME NEW n \in unread, Revert(n) PROVE CacheIInv'
  BY <1>4, CacheRevert
<1>5. CASE Deliver
  BY <1>5, CacheDeliver
<1>6. CASE Restart
  BY <1>6, CacheRestart
<1> QED
  BY <1>1, <1>2, <1>3, <1>4, <1>5, <1>6 DEF Next, Round, Passive

(* In every state the observed head bounds the worker and the cache, the   *)
(* retained heights have no gap, and the cache covers what was delivered   *)
(* (rpc/live-chain.ts, chainUpdates of rpc/client.ts).                     *)
THEOREM CacheInvariance == Spec => []CacheIInv
<1>1. Init => CacheIInv
  BY CacheInit
<1>2. IInv /\ CacheIInv /\ [Next]_vars => CacheIInv'
  BY CacheNext
<1> QED BY <1>1, <1>2, Invariance, PTL DEF Spec

(* When nothing is pending the completed-block cache has every retained    *)
(* block, also one that an earlier worker had filled with another fork: a  *)
(* revert takes from the cache all it takes from retained.                 *)
THEOREM CacheCoversRetainedHolds == Spec => []CacheCoversRetained
<1>1. IInv /\ CacheIInv => CacheCoversRetained
  <2> SUFFICES ASSUME IInv, CacheIInv, pending = <<>>, NEW n \in DOMAIN retained
               PROVE  Cached(n)
    BY DEF CacheCoversRetained, Cached
  <2> USE TreeAssumption
  <2>1. cursor # NoBlock
    BY DEF IInv, CursorInv, EmptyMap
  <2>2. Number[cursor] \in Nat /\ n \in Nat /\ n <= Number[cursor]
    BY <2>1 DEF IInv, TypeOK, BlockMap, CursorInv
  <2>3. Applying /\ Low = Number[cursor] + 1
    BY <2>1, <2>2 DEF IInv, DeliveryInv, Reverting, Low
  <2> QED BY <2>1, <2>2, <2>3 DEF CacheIInv, CoverInv
<1> QED BY <1>1, Invariance, CacheInvariance, PTL
-----------------------------------------------------------------------------
(* The blocks of the view are one chain. *)
Linked == \A n, m \in DOMAIN view : n < m => view[n] \in Path[view[m]]

(* The cache of the first worker has nothing the consumers do not hold. *)
Mirrors ==
  restarts = 0 =>
    \A n \in DOMAIN completed : n \in DOMAIN view /\ completed[n] = view[n]

LEMMA LinkedNext ==
  ASSUME IInv, Linked, Mirrors, [Next]_vars PROVE Linked' /\ Mirrors'
<1> USE TreeAssumption
<1>1. CASE Deliver /\ pending[1].kind = "apply"
  <2> DEFINE block == pending[1].value
  <2>1. /\ block \in Block /\ view' = With(view, block)
        /\ \A n \in DOMAIN view : n < Number[block]
        /\ view # EmptyMap =>
             Number[block] - 1 \in DOMAIN view /\ Parent[block] = view[Number[block] - 1]
    BY <1>1, DeliverApply
  <2> HIDE DEF block
  <2>2. /\ DOMAIN view' = DOMAIN view \cup {Number[block]}
        /\ view'[Number[block]] = block
        /\ \A n \in DOMAIN view : view'[n] = view[n] /\ n \in Nat /\ view[n] \in Block
    BY <2>1 DEF With, IInv, TypeOK, BlockMap
  <2>3. ASSUME NEW n \in DOMAIN view PROVE view[n] \in Path[block]
    <3>1. DOMAIN view # {} /\ view # EmptyMap
      BY DEF EmptyMap
    <3>2. /\ Number[block] \in Nat /\ Number[block] - 1 \in DOMAIN view
          /\ Parent[block] = view[Number[block] - 1] /\ Parent[block] \in Block
      BY <2>1, <2>2, <3>1
    <3>3. Path[block] = {block} \cup Path[Parent[block]]
      BY <2>1, <3>2, PathStep
    <3>4. Parent[block] \in Path[Parent[block]]
      BY <3>2, PathStep
    <3>5. CASE n = Number[block] - 1
      BY <3>2, <3>3, <3>4, <3>5
    <3>6. CASE n # Number[block] - 1
      <4>1. n < Number[block] - 1
        BY <2>1, <2>2, <3>2, <3>6
      <4> QED BY <3>2, <3>3, <4>1 DEF Linked
    <3> QED BY <3>5, <3>6
  <2>4. Linked'
    <3> SUFFICES ASSUME NEW n \in DOMAIN view', NEW m \in DOMAIN view', n < m
                 PROVE  view'[n] \in Path[view'[m]]
      BY DEF Linked
    <3>1. n \in DOMAIN view
      BY <2>1, <2>2
    <3> QED BY <2>2, <2>3, <3>1 DEF Linked
  <2>5. Mirrors'
    <3> SUFFICES ASSUME restarts' = 0, NEW n \in DOMAIN completed'
                 PROVE  n \in DOMAIN view' /\ completed'[n] = view'[n]
      BY DEF Mirrors
    <3>1. completed' = Newest(With(completed, block), Cap) /\ restarts = 0
      BY <1>1 DEF Deliver, block
    <3>2. n \in DOMAIN With(completed, block) /\ completed'[n] = With(completed, block)[n]
      <4>1. BlockMap(With(completed, block))
        BY <2>1, WithMap DEF IInv, TypeOK
      <4> QED BY <3>1, <4>1, NewestMap
    <3> QED BY <2>1, <2>2, <3>1, <3>2 DEF With, Mirrors
  <2> QED BY <2>4, <2>5
<1>2. CASE Deliver /\ pending[1].kind = "revert"
  <2>1. view' = Below(view, pending[1].from) /\ completed' = Below(completed, pending[1].from)
    BY <1>2 DEF Deliver, DropFrom
  <2>2. restarts' = restarts
    BY <1>2 DEF Deliver
  <2> QED BY <2>1, <2>2 DEF Linked, Mirrors, Below
<1>3. CASE Deliver
  <2>1. pending[1] \in Updates
    BY <1>3, DeliverTail DEF IInv
  <2> QED BY <1>1, <1>2, <1>3, <2>1 DEF Updates
<1>4. CASE Restart
  <2>1. DOMAIN view' = {} /\ restarts' # 0
    BY <1>4 DEF Restart, EmptyMap, IInv, TypeOK
  <2> QED BY <2>1 DEF Linked, Mirrors
<1>5. CASE UNCHANGED <<view, completed, restarts>>
  BY <1>5 DEF Linked, Mirrors
<1>6. CASE Passive \/ Extend \/ \E n \in unread : Revert(n)
  <2>1. UNCHANGED <<view, completed, restarts>>
    BY <1>6 DEF Passive, Move, Observe, Await, Load, LoadFails, SameBlock,
       Break, NoAncestor, HeaderDiffers, HeaderFails, Reload, Extend, Revert,
       downstream
  <2> QED BY <1>5, <2>1
<1> QED
  BY <1>3, <1>4, <1>5, <1>6 DEF Next, Round, Passive, vars, downstream

(* While the client has had one worker, two blocks the cache can serve are *)
(* of one chain: the cache holds a part of what the consumers hold, which  *)
(* each update keeps linked (completedResponse of rpc/client.ts).          *)
THEOREM CacheOfOneWorkerHolds == Spec => []CacheOfOneWorker
<1>1. Init => Linked /\ Mirrors
  BY DEF Init, Linked, Mirrors, EmptyMap
<1>2. IInv /\ Linked /\ Mirrors /\ [Next]_vars => Linked' /\ Mirrors'
  BY LinkedNext
<1>3. Linked /\ Mirrors => CacheOfOneWorker
  BY DEF Linked, Mirrors, CacheOfOneWorker, CacheOnOneChain
<1> QED BY <1>1, <1>2, <1>3, Invariance, PTL DEF Spec
=============================================================================
