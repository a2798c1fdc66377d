------------------------------- MODULE BatchRun -------------------------------
(***************************************************************************)
(* What the queue runs for a batch: the state that HttpBatcher and         *)
(* Multicall share.  The drain waits while the run has work to do, and     *)
(* ends the batch with the exits the run has found, or with its failure.   *)
(***************************************************************************)
EXTENDS BatchQueue, Sequences, SequencesExt, Ordering

VARIABLES
  todo,    \* the requests the run has still to send, in pieces
  answer   \* answer[c]: what the run has found for c

runVars == <<todo, answer>>

(* An answer is a value computed for the request "of", at the block that   *)
(* was asked for or elsewhere; or a failure.                               *)
Answer == [kind : {"none", "value", "elsewhere", "failure"}, of : Caller]

NoAnswers == [c \in Caller |-> [kind |-> "none", of |-> c]]

RunInit == todo = <<>> /\ answer = NoAnswers

(* The inputs of a batch, the oldest first. *)
InOrder(S) == SortedBy(S, arrival)

(* A request sent alone, or anew: it is answered or fails by itself. *)
Alone(S) == {f \in [S -> Answer] : \A c \in S : f[c].kind \in {"value", "failure"} /\ f[c].of = c}

Found(answers) ==
  answer' = [c \in Caller |-> IF c \in DOMAIN answers THEN answers[c] ELSE answer[c]]

(* The run is over: the drain delivers what it found. *)
RunEnds ==
  /\ drain = "batch" /\ todo = <<>>
  /\ BatchAnswers
  /\ \A c \in active : result'[c] = "value" <=> answer[c].kind = "value"

(* The drain takes a step; no run goes on over it. *)
DrainSteps == Begin \/ Collect \/ BatchAbandoned \/ RunEnds

(* The callers come and go while the run goes on.  Bound of the            *)
(* environment: they come in the order of their numbers.                   *)
Comes(c) == \A b \in Caller : b < c => caller[b] # "new"

CallersStep(asks) ==
  /\ \E c \in Caller :
       \/ Comes(c) /\ (QueueFull(c) \/ (asks /\ Request(c)))
       \/ Resume(c) \/ Leave(c)
  /\ UNCHANGED runVars
=============================================================================
