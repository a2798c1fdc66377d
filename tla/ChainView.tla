------------------------------ MODULE ChainView ------------------------------
(***************************************************************************)
(* What a follower of a chain that reorganises promises.  A consumer of    *)
(* EvmClient.watchChain() (docs, "Shared live chain acquisition") gets     *)
(* complete block applications in order, and reverts that name the first   *)
(* invalid height and a retained canonical ancestor: keeping the applied   *)
(* blocks and dropping those a revert invalidates, it always holds one     *)
(* linked chain.  The durable indexer keeps its store in the same way.     *)
(***************************************************************************)
EXTENDS BlockTree

VARIABLE chain    \* the follower's blocks, by height

Init == chain = EmptyMap

(* The first block is any block; a later one is a child of the newest. *)
Apply(b) ==
  /\ \/ chain = EmptyMap
     \/ /\ Parent[b] # NoBlock
        /\ Number[Parent[b]] \in DOMAIN chain
        /\ chain[Number[Parent[b]]] = Parent[b]
        /\ \A n \in DOMAIN chain : n < Number[b]
  /\ chain' = [n \in DOMAIN chain \cup {Number[b]} |->
                 IF n = Number[b] THEN b ELSE chain[n]]

(* A revert keeps a block of the chain and everything below it. *)
Revert(n) ==
  /\ n \in DOMAIN chain
  /\ chain' = Below(chain, n + 1)

(* The follower starts again with nothing. *)
StartAgain == chain' = EmptyMap

Next ==
  \/ \E b \in Block : Apply(b)
  \/ \E n \in DOMAIN chain : Revert(n)
  \/ StartAgain

Spec == Init /\ [][Next]_chain
=============================================================================
