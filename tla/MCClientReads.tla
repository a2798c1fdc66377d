---------------------------- MODULE MCClientReads ----------------------------
(* Four reads of a chain that grows by a block and then forks above its    *)
(* first one, for ClientReads.  A worker that starts at the head of the    *)
(* fork starts above the height that is asked for.                         *)
EXTENDS ClientReads

MCCaller == 1..2
MCChains == <<<<"g">>, <<"g", "a2">>, <<"g", "b2", "b3">>>>
MCKey == {[method |-> "receipts", at |-> "number"], [method |-> "block", at |-> "latest"],
          [method |-> "logs", at |-> "a2"], [method |-> "code", at |-> "a2"]}
=============================================================================
