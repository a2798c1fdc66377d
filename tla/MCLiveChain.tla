----------------------------- MODULE MCLiveChain -----------------------------
(* A tree of three forks for LiveChain: fork "b" leaves fork "a" at its    *)
(* first block, fork "c" at its second.                                    *)
EXTENDS LiveChain

CONSTANTS Height   \* bound: the highest block of a fork

MCBlock == ({"a"} \X (1..Height)) \cup ({"b"} \X (2..Height)) \cup ({"c"} \X (3..Height))
MCNumber == [b \in MCBlock |-> b[2]]
MCParent ==
  [b \in MCBlock |->
     CASE b[2] = 1 -> NoBlock
       [] b = <<"b", 2>> -> <<"a", 1>>
       [] b = <<"c", 3>> -> <<"a", 2>>
       [] OTHER -> <<b[1], b[2] - 1>>]
FirstA == <<"a", 1>>
SecondA == <<"a", 2>>
=============================================================================
