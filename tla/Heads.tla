-------------------------------- MODULE Heads --------------------------------
(***************************************************************************)
(* How a client follows the newest block and a watch follows the client:   *)
(* the head notifications of a WebSocket endpoint, pollHeads, observe      *)
(* (rpc/client.ts) and the watched state of a call (rpc/watch.ts).         *)
(*                                                                         *)
(* A block is its number and the name of its fork at that number; a head   *)
(* taken from a block number alone has no hash.  The chain moves to a      *)
(* block that is not lower than the one before.                            *)
(***************************************************************************)
EXTENDS WsTransport, FiniteSets

CONSTANTS Hash, MaxNumber, MaxTips  \* bounds of the environment

Block == [number : 1..MaxNumber, hash : Hash \cup {"null"}]

None == [number |-> 0, hash |-> "null"]

VARIABLES
  tip, tips,  \* the newest block of the chain, and how often it changed
  head,       \* the head of the client
  fresh,      \* it was set by a notification not long ago
  poll,       \* what pollHeads was answered and has not observed, or None
  slot,       \* the newest head the watch has not taken, or None
  calling,    \* the block the watch's call is made at, or None
  watch,      \* what the watched state shows
  shown       \* the block of the last value

chainVars == <<tip, tips>>
headVars == <<head, fresh, slot>>
watchVars == <<calling, watch, shown>>
vars == <<wsVars, chainVars, headVars, poll, watchVars>>

TypeOK ==
  /\ connection \in {"Connecting", "Connected", "Reconnecting"}
  /\ pending \cup written \cup subscribed \subseteq Id /\ sub \in Id \cup {0}
  /\ stream \in {"idle", "ask", "asking", "opening", "listening", "retrying", "unsupported"}
  /\ {tip, head} \subseteq Block
  /\ {poll, slot, calling, shown} \subseteq Block \cup {None}
  /\ watch \in {"Loading", "Ready", "Retrying", "Failed"}
  /\ fresh \in BOOLEAN

(* The client starts with the block a probe has found. *)
Init ==
  /\ WsInit
  /\ tip = [number |-> 1, hash |-> CHOOSE h \in Hash : TRUE] /\ tips = 0
  /\ head = tip /\ fresh = FALSE /\ slot = head
  /\ poll = None
  /\ calling = None /\ watch = "Loading" /\ shown = None
-----------------------------------------------------------------------------
(* The chain grows, or another block takes the place of the newest; every  *)
(* subscription of the connection is notified.                             *)
ChainMoves ==
  /\ tips < MaxTips /\ tips' = tips + 1
  /\ \E b \in Block :
       /\ b.hash # "null" /\ b # tip /\ b.number \in tip.number..(tip.number + 1)
       /\ tip' = b
       /\ inbox' = inbox \o
            [i \in 1..Cardinality(subscribed) |->
               [kind |-> "note", id |-> SetToSeq(subscribed)[i], block |-> b]]
  /\ UNCHANGED <<connection, pending, written, subscribed, streamVars, faults,
                 headVars, poll, watchVars>>

IsNews(b) ==
  \/ b.number > head.number
  \/ b.number = head.number /\ b.hash # "null" /\ b.hash # head.hash

(* observe: what is news becomes the head, and goes to the watch, whose    *)
(* buffer keeps the newest; a head without a hash is not for it.           *)
Observe(b, notified) ==
  /\ head' = IF IsNews(b) THEN b ELSE head
  /\ fresh' = IF IsNews(b) THEN notified ELSE fresh
  /\ slot' = IF IsNews(b) /\ b.hash # "null" /\ watch # "Failed" THEN b ELSE slot

Note ==
  /\ DispatchNote
  /\ IF Hears THEN Observe(inbox[1].block, TRUE) ELSE UNCHANGED headVars
  /\ UNCHANGED <<chainVars, poll, watchVars>>

(* Time passes, and the head is no longer a fresh notification. *)
GrowsStale ==
  /\ fresh /\ fresh' = FALSE
  /\ UNCHANGED <<wsVars, chainVars, head, slot, poll, watchVars>>

(* A poll is answered by some endpoint: the block is the newest one then.  *)
PollAsks ==
  /\ poll = None /\ ~ fresh
  /\ poll' = tip
  /\ UNCHANGED <<wsVars, chainVars, headVars, watchVars>>

PollEnds ==
  /\ poll # None
  /\ Observe(poll, FALSE)
  /\ poll' = None
  /\ UNCHANGED <<wsVars, chainVars, watchVars>>

PollFails ==
  /\ poll # None /\ Fault
  /\ poll' = None
  /\ UNCHANGED <<connection, pending, wire, streamVars,
                 chainVars, headVars, watchVars>>

(* Someone reads the block number, and the client observes it. *)
NumberRead ==
  /\ Observe([number |-> tip.number, hash |-> "null"], FALSE)
  /\ UNCHANGED <<wsVars, chainVars, poll, watchVars>>
-----------------------------------------------------------------------------
WatchTakes ==
  /\ watch # "Failed" /\ slot # None /\ calling = None
  /\ calling' = slot /\ slot' = None
  /\ UNCHANGED <<wsVars, chainVars, head, fresh, poll, watch, shown>>

(* Bug: the head that arrived during a call is dropped with its failure. *)
WatchResumes_Empty ==
  /\ slot' = None
  /\ calling' = None

(* After an outage the watch subscribes again, and gets the current head. *)
WatchResumes ==
  /\ slot' = IF head.hash = "null" THEN None ELSE head
  /\ calling' = None

(* The call was made at a block that is, or was, of the chain. *)
CallAnswers ==
  /\ calling # None
  /\ watch' = "Ready" /\ shown' = calling
  /\ calling' = None
  /\ UNCHANGED <<wsVars, chainVars, headVars, poll>>

(* The endpoints do not have the block, or it is no longer canonical.      *)
CallFails ==
  /\ calling # None
  /\ \/ Fault
     \/ calling.number = tip.number /\ calling # tip /\ UNCHANGED faults
  /\ watch' = "Retrying"
  /\ WatchResumes
  /\ UNCHANGED <<connection, pending, wire, streamVars,
                 chainVars, head, fresh, poll, shown>>

(* A failure that will not pass ends the watch. *)
CallReverts ==
  /\ calling # None /\ Fault
  /\ watch' = "Failed" /\ calling' = None /\ slot' = None
  /\ UNCHANGED <<connection, pending, wire, streamVars,
                 chainVars, head, fresh, poll, shown>>
-----------------------------------------------------------------------------
Transport ==
  /\ Working \/ Failing
  /\ UNCHANGED <<chainVars, headVars, poll, watchVars>>

Next ==
  \/ Transport
  \/ ChainMoves \/ Note \/ NumberRead
  \/ GrowsStale \/ PollAsks \/ PollEnds \/ PollFails
  \/ WatchTakes \/ CallAnswers \/ CallFails \/ CallReverts

Spec == Init /\ [][Next]_vars

(* Timers ring and fibers run: the connection is made again, the server    *)
(* answers, polls follow each other, and the watch makes its calls.        *)
FairSpec ==
  /\ Spec
  /\ WF_vars(Working /\ UNCHANGED <<chainVars, headVars, poll, watchVars>>)
  /\ WF_vars(Note) /\ WF_vars(GrowsStale)
  /\ WF_vars(PollAsks) /\ WF_vars(PollEnds)
  /\ WF_vars(WatchTakes) /\ WF_vars(CallAnswers)
-----------------------------------------------------------------------------
(* When connections stop failing, the stream listens to a subscription the *)
(* server has, unless the server knows none (ws.ts:270-296).               *)
HearsAgain ==
  <>[](stream = "unsupported" \/ (stream = "listening" /\ sub \in subscribed))

(* When the chain stops, the head is its newest block, and a watch that    *)
(* has not failed shows the value there: what is lost between a            *)
(* subscription and its first listener, with a connection or by a failed   *)
(* call is made up for (client.ts:1283, watch.ts:38-49).                   *)
WatchCatchesUp ==
  <>[](head = tip /\ (watch = "Failed" \/ (watch = "Ready" /\ shown = tip)))
=============================================================================
