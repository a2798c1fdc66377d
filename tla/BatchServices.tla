----------------------------- MODULE BatchServices -----------------------------
(***************************************************************************)
(* The batch queue with what it runs: an HttpBatcher or a group of         *)
(* MulticallReads.  Each step is a step of the queue, or of the run alone. *)
(***************************************************************************)
EXTENDS HttpBatcher, Multicall

VARIABLE service   \* "http" or "multicall"

serviceVars == <<vars, runVars, httpVars, multicallVars, service>>

ServiceInit ==
  /\ Init /\ RunInit /\ HttpInit /\ MulticallInit
  /\ service \in {"http", "multicall"}

(* A read does not join the group when aggregates are not trusted.         *)
Callers ==
  /\ CallersStep(verifies)
  /\ UNCHANGED <<httpVars, multicallVars, service>>

Closes ==
  /\ Close
  /\ todo' = <<>> /\ answer' = NoAnswers /\ told' = {} /\ phase' = "code"
  /\ UNCHANGED <<limit, unsupported, verifies, service>>

Http == service = "http" /\ UNCHANGED <<multicallVars, service>>

Aggregating == service = "multicall" /\ UNCHANGED <<httpVars, service>>

Runs == (Http /\ (HttpSends \/ HttpEnds)) \/ (Aggregating /\ (MulticallReads \/ MulticallEnds))

ServiceNext == Callers \/ Closes \/ Runs \/ (Http /\ Forgives)

ServiceSpec == ServiceInit /\ [][ServiceNext]_serviceVars

(* Envelopes and reads end: a deadline bounds them. *)
FairServiceSpec ==
  ServiceSpec /\ WF_serviceVars(Runs)
  /\ \A c \in Caller : WF_serviceVars(Resume(c) /\ UNCHANGED <<runVars, httpVars, multicallVars, service>>)
-----------------------------------------------------------------------------
(* What a run finds for a caller is the answer to its own request,        *)
(* computed at the block it asked for (http.ts:72, multicall.ts:159, 184). *)
OwnAnswer ==
  \A c \in Caller :
    /\ answer[c].kind # "elsewhere"
    /\ answer[c].kind = "value" =>
         IF service = "http" THEN answer[c].of = c
         ELSE Transaction[answer[c].of] = Transaction[c]
=============================================================================
