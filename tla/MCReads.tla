-------------------------------- MODULE MCReads --------------------------------
(* A background read and a transaction over two endpoints, one of them     *)
(* found late, for Reads.                                                  *)
EXTENDS Reads

CONSTANTS r1, w1, e1, e2

MCEndpoint == {e1, e2}
MCLate == {e2}
MCForeign == {e2}
MCRead == {r1}
MCWrite == {w1}
MCBackground == MCRead \X {1, 2}
MCRequest == MCBackground \cup (MCWrite \X MCEndpoint)
=============================================================================
