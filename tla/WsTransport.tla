----------------------------- MODULE WsTransport -----------------------------
(***************************************************************************)
(* One WebSocket endpoint: makeWsState, and a subscription over it         *)
(* (rpc/transport/ws.ts).  A request is pending until its answer, a        *)
(* timeout or the end of the connection; watchSubscription subscribes anew *)
(* on every connection and after every failure.                            *)
(*                                                                         *)
(* The socket and the server at its other end are not in the repository:   *)
(* a write waits for a connection, a connection keeps the order of its     *)
(* messages and loses them when it ends, and a subscription belongs to the *)
(* connection it was made on.  The requests are those that subscribe; the  *)
(* code numbers them, here one gets a number nothing refers to any more.   *)
(***************************************************************************)
EXTENDS Naturals, Sequences, SequencesExt

CONSTANT MaxFaults   \* bound of the environment: things that go wrong

VARIABLES
  connection, \* the state of the connection
  pending,    \* ids of the requests that wait
  written,    \* ids of the requests the server has not answered
  subscribed, \* ids of the subscriptions of the server's connection
  inbox,      \* messages the server has sent
  stream,     \* the phase of watchSubscription
  runsOn,     \* the connection it runs on: "none", "this" or an "old" one
  sub,        \* the id of its request, and of the subscription then, or 0
  faults

wire == <<written, subscribed, inbox>>
streamVars == <<stream, runsOn, sub>>
wsVars == <<connection, pending, wire, streamVars, faults>>

Id == 1..(2 * MaxFaults + 2)

WsInit ==
  /\ connection = "Connecting"
  /\ pending = {}
  /\ written = {} /\ subscribed = {} /\ inbox = <<>>
  /\ stream = "idle" /\ runsOn = "none" /\ sub = 0
  /\ faults = 0

Connected == connection = "Connected"

Fault == faults < MaxFaults /\ faults' = faults + 1
-----------------------------------------------------------------------------
(* What became of the request id, if it still waits. *)
Settle(id, phase) ==
  /\ pending' = pending \ {id}
  /\ IF id \in pending
       THEN stream' = phase /\ sub' = IF phase = "opening" THEN id ELSE 0
       ELSE UNCHANGED <<stream, sub>>

TimesOut(id) ==
  /\ id \in pending /\ Fault
  /\ Settle(id, "retrying")
  /\ UNCHANGED <<connection, wire, runsOn>>

(* supervise: a connection is made, and what waits for it is written. *)
Connect ==
  /\ connection = "Connecting"
  /\ connection' = "Connected"
  /\ written' = pending
  /\ UNCHANGED <<pending, subscribed, inbox, streamVars, faults>>

(* It cannot be made, or ends: failPending fails what waits, and then the  *)
(* others see the state.                                                   *)
Disconnect ==
  /\ connection \in {"Connecting", "Connected"} /\ Fault
  /\ connection' = "Reconnecting"
  /\ pending' = {}
  /\ written' = {} /\ subscribed' = {} /\ inbox' = <<>>
  /\ stream' = IF stream = "asking" THEN "retrying" ELSE stream
  /\ sub' = IF stream = "asking" THEN 0 ELSE sub
  /\ runsOn' = IF runsOn = "this" THEN "old" ELSE runsOn

Reconnect ==
  /\ connection = "Reconnecting"
  /\ connection' = "Connecting"
  /\ UNCHANGED <<pending, wire, streamVars, faults>>
-----------------------------------------------------------------------------
(* The server answers a request; it answers late ones, too. *)
Serves(id) ==
  /\ id \in written
  /\ written' = written \ {id}
  /\ inbox' = Append(inbox, [kind |-> "answer", id |-> id])
  /\ subscribed' = subscribed \cup {id}
  /\ UNCHANGED <<connection, pending, streamVars, faults>>

(* Or with an error, among them that it knows no subscriptions. *)
Refuses(id) ==
  /\ id \in written /\ Fault
  /\ written' = written \ {id}
  /\ \E kind \in {"error", "unsupported"} : inbox' = Append(inbox, [kind |-> kind, id |-> id])
  /\ UNCHANGED <<connection, pending, subscribed, streamVars>>

Next_Is(kinds) == inbox # <<>> /\ inbox[1].kind \in kinds

(* dispatch, for an answer: it is for the request with its id. *)
DispatchAnswer ==
  /\ Next_Is({"answer", "error", "unsupported"})
  /\ inbox' = Tail(inbox)
  /\ Settle(inbox[1].id, CASE inbox[1].kind = "answer" -> "opening"
                           [] inbox[1].kind = "error" -> "retrying"
                           [] inbox[1].kind = "unsupported" -> "unsupported")
  /\ UNCHANGED <<connection, written, subscribed, runsOn, faults>>

(* dispatch, for a notification: published to whoever listens now. *)
Hears == stream = "listening" /\ Next_Is({"note"}) /\ inbox[1].id = sub

DispatchNote ==
  /\ Next_Is({"note"})
  /\ inbox' = Tail(inbox)
  /\ UNCHANGED <<connection, pending, written, subscribed, streamVars, faults>>
-----------------------------------------------------------------------------
(* Bug: the stream stays with the first connection it has seen. *)
Switch_Once ==
  /\ runsOn = "none" /\ Connected
  /\ runsOn' = "this" /\ stream' = "ask"
  /\ UNCHANGED <<connection, pending, wire, sub, faults>>

(* watchSubscription sees a new state of the connection: what ran for the  *)
(* old one is interrupted, but for a request to subscribe, which is        *)
(* awaited.  A subscription of an old connection needs no end.             *)
Switch ==
  /\ runsOn # (IF Connected THEN "this" ELSE "none") /\ stream # "asking"
  /\ runsOn' = IF Connected THEN "this" ELSE "none"
  /\ stream' = IF Connected THEN "ask" ELSE "idle"
  /\ sub' = 0
  /\ UNCHANGED <<connection, pending, wire, faults>>

InUse == pending \cup written \cup subscribed \cup {inbox[i].id : i \in DOMAIN inbox}

(* makeRequest: it is pending before it is written; a retry comes a second *)
(* after a failure.                                                        *)
Subscribes ==
  /\ stream \in {"ask", "retrying"}
  /\ sub' = CHOOSE id \in Id \ InUse : \A other \in Id \ InUse : id <= other
  /\ stream' = "asking"
  /\ pending' = pending \cup {sub'}
  /\ written' = IF Connected THEN written \cup {sub'} ELSE written
  /\ UNCHANGED <<connection, subscribed, inbox, runsOn, faults>>

(* Only now the notifications reach the stream. *)
Listens ==
  /\ stream = "opening"
  /\ stream' = "listening"
  /\ UNCHANGED <<connection, pending, wire, runsOn, sub, faults>>

(* A notification that does not decode ends the subscription, which is     *)
(* given up if its connection is still there.                              *)
Garbled ==
  /\ Hears /\ Fault
  /\ inbox' = Tail(inbox)
  /\ stream' = "retrying" /\ sub' = 0
  /\ subscribed' = IF runsOn = "this" THEN subscribed \ {sub} ELSE subscribed
  /\ UNCHANGED <<connection, pending, written, runsOn>>

Working ==
  \/ Connect \/ Reconnect \/ Switch \/ Subscribes \/ Listens \/ DispatchAnswer
  \/ \E id \in written : Serves(id)

Failing ==
  \/ \E id \in pending : TimesOut(id)
  \/ \E id \in written : Refuses(id)
  \/ Disconnect \/ Garbled
=============================================================================
