------------------------------ MODULE BlockTree ------------------------------
(***************************************************************************)
(* The blocks a chain can contain and how they are linked.  A block stands *)
(* for a hash with the header and body behind it: equal hashes are the     *)
(* same block, a block has one height, and its parentHash names one block. *)
(* Forks are blocks of the same height.                                    *)
(***************************************************************************)
EXTENDS Naturals

CONSTANTS
  Block,    \* the set of blocks of every fork
  Number,   \* Number[b]: the height of b
  Parent,   \* Parent[b]: the block b.parentHash names, or NoBlock
  NoBlock   \* "undefined" and "null" of the code, where a block may be missing

ASSUME TreeAssumption ==
  /\ NoBlock \notin Block
  /\ Number \in [Block -> Nat]
  /\ Parent \in [Block -> Block \cup {NoBlock}]
  /\ \A b \in Block : Parent[b] # NoBlock => Number[b] = Number[Parent[b]] + 1

(* The blocks of the chain that ends in b: b and its ancestors. *)
Path[b \in Block] ==
  {b} \cup (IF Parent[b] = NoBlock THEN {} ELSE Path[Parent[b]])

(* Maps from heights to blocks, in which a block sits at its own height. *)
BlockMap(f) ==
  /\ DOMAIN f \subseteq Nat
  /\ \A n \in DOMAIN f : f[n] \in Block /\ Number[f[n]] = n

EmptyMap == [n \in {} |-> NoBlock]

(* The part of the map f at the heights of S. *)
Only(f, S) == [n \in DOMAIN f \cap S |-> f[n]]

(* The part of the map f below the height n. *)
Below(f, n) == [m \in {k \in DOMAIN f : k < n} |-> f[m]]
=============================================================================
