------------------------------- MODULE Multicall -------------------------------
(***************************************************************************)
(* One group of MulticallReads (rpc/multicall.ts): the contract reads of   *)
(* one block and priority, aggregated into one call of a contract that     *)
(* also says at which block it ran.  What that contract answers is up to   *)
(* the endpoints, which are not in the repository.                         *)
(***************************************************************************)
EXTENDS BatchRun, AbiCodec

CONSTANT
  Transaction,  \* Transaction[c]: the data of c's call; equal calls are one
  Target,       \* the contract they call; the aggregating one is at 0
  BlockAsked    \* the number of the group's block

(* What a call weighs is the length of its data. *)
ASSUME TransactionAssumption ==
  \A c \in Caller : Transaction[c] \in Seq(Nat) /\ Weight[c] = Len(Transaction[c])

VARIABLES
  phase,     \* of the run: "code", "aggregate" or "singles"
  verifies   \* blockVerificationSupported

multicallVars == <<phase, verifies>>

MulticallInit == phase = "code" /\ verifies = TRUE

(* The first of the equal reads of S. *)
Stands(c, S) == \A e \in S : Transaction[e] = Transaction[c] => arrival[c] <= arrival[e]

Unique(S) == <<InOrder({c \in S : Stands(c, S)})>>

(* The run of the batch that the drain begins with this step, if it does. *)
MulticallRuns ==
  /\ todo' = IF drain' = "batch" THEN Unique(active') ELSE <<>>
  /\ answer' = NoAnswers /\ phase' = "code"
  /\ UNCHANGED verifies

(* Bug: a read gets the result at its own position. *)
Index_Own(c) ==
  LET i == CHOOSE i \in 1..Cardinality(active) : InOrder(active)[i] = c
  IN  IF i <= Len(todo[1]) THEN i ELSE Len(todo[1])

(* The position of the read that stands for c. *)
Index(c) == CHOOSE i \in DOMAIN todo[1] : Transaction[todo[1][i]] = Transaction[c]

(* The results of the unique reads, given to those they stand for. *)
Results(results) == Found([c \in active |-> results[todo[1][Index(c)]]])

Reading(p) == drain = "batch" /\ todo # <<>> /\ phase = p

Reads == ToSet(todo[1])

Singles ==
  /\ Reading("singles") \/ (Reading("code") /\ Len(todo[1]) = 1)
  /\ \E found \in Alone(Reads) : Results(found)
  /\ todo' = <<>>
  /\ UNCHANGED <<vars, multicallVars>>

(* There is no such contract at the block, or looking for it reverts. *)
NoContract ==
  /\ Reading("code") /\ Len(todo[1]) > 1
  /\ phase' = "singles"
  /\ UNCHANGED <<vars, runVars, verifies>>

HasContract ==
  /\ Reading("code") /\ Len(todo[1]) > 1
  /\ phase' = "aggregate"
  /\ UNCHANGED <<vars, runVars, verifies>>

(* The calls of a batch, and last the one that asks for the block. *)
CallsOf(reads) ==
  Append([i \in DOMAIN reads |->
            [target |-> Target, allowFailure |-> TRUE, data |-> Transaction[reads[i]]]],
         [target |-> 0, allowFailure |-> FALSE, data |-> <<>>])

Aggregate(reads) == EncodeAggregate3(CallsOf(reads))

(* Words hold the target, the blocks and the length of every message.  No  *)
(* call of a group goes to the aggregating contract (multicall.ts:125).    *)
ASSUME NumbersAssumption ==
  /\ Target \in Nat \ {0} /\ Holds(Target)
  /\ BlockAsked \in Nat /\ Holds(BlockAsked + 1)
  /\ \A n \in 1..Cardinality(Caller) : \A reads \in [1..n -> Caller] :
       Holds(Len(Aggregate(reads)))

(* What the contract returns at a block: some calls revert, and the data   *)
(* of the others is, here, what they were called with.                     *)
Response(calls, block, reverted) ==
  Returned([i \in DOMAIN calls |->
    IF calls[i].target = 0 THEN [success |-> TRUE, data |-> Word(block)]
    ELSE [success |-> i \notin reverted, data |-> calls[i].data]])

(* Bound of the environment: all of it arrives, or it lacks its last word, *)
(* or there is none.                                                       *)
Arrivals(response) == {response, SubSeq(response, 1, Len(response) - WordBytes), <<>>}

(* There is a result for each call, and the last one names the block.      *)
Verified(results) ==
  /\ Len(results) = Len(todo[1]) + 1
  /\ results[Len(results)] = [success |-> TRUE, data |-> Word(BlockAsked)]

(* A read has its data, or has reverted; other data is not its answer.     *)
Answers(block, results) ==
  [c \in Reads |->
     LET r == results[CHOOSE i \in DOMAIN todo[1] : todo[1][i] = c]
     IN  [of |-> c,
          kind |-> IF ~ r.success THEN "failure"
                   ELSE IF block = BlockAsked /\ r.data = Transaction[c] THEN "value"
                   ELSE "elsewhere"]]

(* The contract ran, at the block or at another: results that do not       *)
(* decode or verify are not taken, and then no group verifies any more, or *)
(* only this batch is read singly.                                         *)
Aggregates ==
  /\ Reading("aggregate")
  /\ \E sent \in {Aggregate(todo[1])} : \E calls \in {ReceivedCalls(sent)},
       block \in {BlockAsked, BlockAsked + 1}, reverted \in SUBSET DOMAIN todo[1] :
       \E arrived \in Arrivals(Response(calls, block, reverted)) :
         \E decodes \in {Decodes(arrived)} :
           IF decodes /\ Verified(DecodeAggregate3(arrived))
           THEN /\ Results(Answers(block, DecodeAggregate3(arrived)))
                /\ todo' = <<>>
                /\ UNCHANGED <<phase, verifies>>
           ELSE /\ phase' = "singles"
                /\ verifies' = (verifies /\ ~ decodes)
                /\ UNCHANGED runVars
  /\ UNCHANGED vars

(* It reverted. *)
Reverts ==
  /\ Reading("aggregate")
  /\ phase' = "singles"
  /\ UNCHANGED <<vars, runVars, verifies>>

(* Anything else fails the whole batch. *)
ReadFails ==
  /\ Reading("aggregate") \/ (Reading("code") /\ Len(todo[1]) > 1)
  /\ BatchFails
  /\ MulticallRuns

MulticallReads == Singles \/ NoContract \/ HasContract \/ Aggregates \/ Reverts \/ ReadFails

MulticallEnds == DrainSteps /\ MulticallRuns
=============================================================================
