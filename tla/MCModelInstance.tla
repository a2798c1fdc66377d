---------------------------- MODULE MCModelInstance ----------------------------
(* Two forks of four blocks for ModelInstance that part after height 1.    *)
(* Partitions are two seconds long.  "b" is the faster fork: its block 2   *)
(* still belongs to the partition that a's block 2 closes, so that a       *)
(* reorganisation moves the ends of partitions.  a has no log at height 2: *)
(* logs read on a and headers read on b can agree.                         *)
EXTENDS ModelInstance

MCBlock == ({"a"} \X (0..4)) \cup ({"b"} \X (2..4))
MCNumber == [b \in MCBlock |-> b[2]]
MCParent ==
  [b \in MCBlock |->
     CASE b[2] = 0 -> NoBlock
       [] b = <<"b", 2>> -> <<"a", 1>>
       [] OTHER -> <<b[1], b[2] - 1>>]
MCTime ==
  [b \in MCBlock |->
     IF b[1] = "a" THEN <<0, 2, 4, 6, 7>>[b[2] + 1] ELSE <<3, 4, 6>>[b[2] - 1]]
MCLogged == {b \in MCBlock : b[2] >= 1} \ {<<"a", 2>>}

APlan(s, h, r) == [start |-> s, history |-> h, retain |-> r]
MCPlans ==
  {APlan("head", "backward", 0), APlan("head", "forward", 1), APlan("checkpoint", "none", 0)}
MCFirstTip == <<"a", 1>>
=============================================================================
