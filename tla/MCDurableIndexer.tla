--------------------------- MODULE MCDurableIndexer ---------------------------
(* A genesis block and three forks for DurableIndexer: forks "a" and "b"   *)
(* leave it at height 1, fork "c" leaves "a" at height 2.                  *)
EXTENDS DurableIndexer

CONSTANTS Height   \* bound: the highest block of a fork

Genesis == <<"a", 0>>
MCBlock ==
  {Genesis} \cup ({"a", "b"} \X (1..Height)) \cup ({"c"} \X (2..Height))
MCNumber == [b \in MCBlock |-> b[2]]
MCParent ==
  [b \in MCBlock |->
     CASE b = Genesis -> NoBlock
       [] b[2] = 1 -> Genesis
       [] b = <<"c", 2>> -> <<"a", 1>>
       [] OTHER -> <<b[1], b[2] - 1>>]

=============================================================================
