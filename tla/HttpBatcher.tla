------------------------------ MODULE HttpBatcher ------------------------------
(***************************************************************************)
(* One endpoint's HttpBatcher (rpc/transport/http.ts): a batch goes out in *)
(* one envelope, in chunks once the endpoint has said how much it takes,   *)
(* or one by one when it takes no batches.  Answers are found by their id. *)
(* The endpoint is not in the repository: it answers an envelope with any  *)
(* list of responses to its requests, with a complaint, or not at all.     *)
(***************************************************************************)
EXTENDS BatchRun

VARIABLES
  limit,        \* requests of an envelope at most
  unsupported,  \* no batches until unsupportedUntil
  told          \* requests of the batch the endpoint answered exactly once

httpVars == <<limit, unsupported, told>>

HttpInit == limit = Size /\ unsupported = FALSE /\ told = {}

Whole(batch_) == IF batch_ = <<>> THEN <<>> ELSE <<batch_>>

(* The run of the batch that the drain begins with this step, if it does. *)
HttpRuns ==
  /\ todo' = IF drain' = "batch" THEN Whole(InOrder(active')) ELSE <<>>
  /\ answer' = NoAnswers /\ told' = {}
  /\ UNCHANGED <<limit, unsupported>>
-----------------------------------------------------------------------------
(* send, for the first piece of what there is to send. *)
Piece == todo[1]
InPiece == ToSet(Piece)

Sending == drain = "batch" /\ todo # <<>>

Singly == unsupported \/ Len(Piece) = 1

PieceDone == todo' = Tail(todo)

SendsSingly ==
  /\ Sending /\ Singly
  /\ \E found \in Alone(InPiece) : Found(found)
  /\ PieceDone
  /\ UNCHANGED <<vars, httpVars>>

Chunks(s) ==
  [i \in 1..((Len(s) + limit - 1) \div limit) |->
     SubSeq(s, (i - 1) * limit + 1, IF i * limit < Len(s) THEN i * limit ELSE Len(s))]

Splits ==
  /\ Sending /\ ~ Singly /\ Len(Piece) > limit
  /\ todo' = Chunks(Piece) \o Tail(todo)
  /\ UNCHANGED <<vars, httpVars, answer>>

Enveloped == Sending /\ ~ Singly /\ Len(Piece) <= limit

(* Responses to the requests of the piece: some may be missing, some come  *)
(* twice, and in any order.                                                *)
Responses == UNION {[1..n -> InPiece] : n \in 0..Len(Piece)}

(* Bug: the responses are taken in the order of the requests. *)
Matches_InOrder(c, responses) == {i \in DOMAIN responses : Piece[i] = c}

Matches(c, responses) == {i \in DOMAIN responses : responses[i] = c}

(* The requests without exactly one response are sent again, each alone;   *)
(* and request() sees to it that an answer has the id of its request.      *)
Answered_(responses) ==
  /\ Enveloped
  /\ \E again \in Alone({c \in InPiece : Cardinality(Matches(c, responses)) # 1}) :
       Found([c \in InPiece |->
         IF c \in DOMAIN again THEN again[c]
         ELSE LET of == responses[CHOOSE i \in Matches(c, responses) : TRUE]
              IN  [kind |-> IF of = c THEN "value" ELSE "failure", of |-> of]])
  /\ told' = told \cup {c \in InPiece : Cardinality({i \in DOMAIN responses : responses[i] = c}) = 1}
  /\ PieceDone
  /\ UNCHANGED <<vars, limit, unsupported>>

(* The endpoint names its maximum, which is less than the envelope has, or *)
(* finds it too large (413), which halves it; and the piece is sent again. *)
Learns ==
  /\ Enveloped
  /\ \E maximum \in 1..(Len(Piece) - 1) : limit' = maximum
  /\ UNCHANGED <<vars, runVars, unsupported, told>>

(* It takes no batches at all: the piece is sent one by one at once. *)
Rejected ==
  /\ Enveloped
  /\ unsupported' = TRUE
  /\ \E found \in Alone(InPiece) : Found(found)
  /\ PieceDone
  /\ UNCHANGED <<vars, limit, told>>

(* A minute later it is tried again. *)
Forgives ==
  /\ unsupported /\ unsupported' = FALSE
  /\ UNCHANGED <<vars, runVars, limit, told>>

(* Anything else the endpoint does fails the whole batch, with the pieces  *)
(* that have been answered.                                                *)
EnvelopeFails ==
  /\ Enveloped
  /\ BatchFails
  /\ HttpRuns

HttpSends ==
  \/ SendsSingly \/ Splits \/ Learns \/ Rejected \/ EnvelopeFails
  \/ Sending /\ \E responses \in Responses : Answered_(responses)

HttpEnds == DrainSteps /\ HttpRuns
-----------------------------------------------------------------------------
(* Whatever is missing, comes twice or out of order, a request that the    *)
(* endpoint answered once has that answer (http.ts:120-130).               *)
AnswersReach == \A c \in told : answer[c] = [kind |-> "value", of |-> c]
=============================================================================
