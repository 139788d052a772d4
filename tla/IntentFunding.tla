---------------------------- MODULE IntentFunding ----------------------------
(***************************************************************************)
(* The calls of an application on the clients of GatewayClient: single     *)
(* operations, and the flows that take several: x402 funding               *)
(* (x402_funding.py), MPP funding (mpp_funding.py) and ACH funding with a  *)
(* linked bank (plaid.py).  Every fund call of a flow carries the caller's *)
(* one idempotency key and the same empty body.                            *)
(*                                                                         *)
(* Harbor's side of POST .../fund is external: an open intent answers 402  *)
(* until it gets a credential it accepts, is then settling, and ends       *)
(* funded or failed.                                                       *)
(***************************************************************************)
EXTENDS GatewayClient

CONSTANTS
  Flows,        \* what a session may do, a subset of FlowKinds
  MaxPolls,     \* max_attempts of the poll options
  FundBody      \* _FUND_REQUEST_BODY

FlowKinds == {"call", "x402", "mpp", "ach"}
ASSUME FlowsAssumption == Flows \subseteq FlowKinds
ASSUME MaxPollsAssumption == MaxPolls \in Nat \ {0}
ASSUME FundBodyAssumption == FundBody \in Bodies

VARIABLES
  flow,         \* [kind, stage] of each session
  polls,        \* attempts of the poll loop
  signatures,   \* how often sign_payment or create_payment_credential ran
  intent        \* Harbor's state of the session's intent

flowVars == <<flow, polls, signatures>>
vars == <<gatewayVars, flowVars, intent>>

FundKinds == {"x402", "mpp"}
Over == {"done", "failed", "pending"}
Stages == {"start", "once", "again", "first", "signing", "paid", "poll", "bank", "debit"} \union Over

FlowInit ==
  /\ Init
  /\ flow \in [Sessions -> [kind : Flows, stage : {"start"}]]
  /\ polls = [s \in Sessions |-> 0]
  /\ signatures = [s \in Sessions |-> 0]
  /\ intent = [s \in Sessions |-> "open"]

Stage(s, stage) == flow' = [flow EXCEPT ![s].stage = stage]
At(s, stage) == flow[s].stage = stage

(* PaybondIntents.fund with the key of the whole flow.                     *)
Fund(s, k, fund) ==
  StartCall(s, [ep |-> fund_intent, key |-> k, body |-> FundBody, fund |-> fund])

CallOnce(s) ==
  /\ flow[s].kind = "call" /\ At(s, "start")
  /\ Call(s)
  /\ Stage(s, "once")
  /\ UNCHANGED <<polls, signatures, intent>>

(* The application repeats a call that raised, with the key it used        *)
(* before; the body may have changed.                                      *)
CallAgain(s) ==
  /\ At(s, "once") /\ pc[s] = "raised" /\ request[s].key # None
  /\ \E b \in Bodies : StartCall(s, [request[s] EXCEPT !.body = b])
  /\ Stage(s, "again")
  /\ UNCHANGED <<polls, signatures, intent, serviceVars>>

BeginFunding(s) ==
  /\ flow[s].kind \in FundKinds /\ At(s, "start")
  /\ \E k \in Keys \union {None} : Fund(s, k, "bare")
  /\ Stage(s, "first")
  /\ UNCHANGED <<polls, signatures, intent, serviceVars>>

(* fund_ach_intent_with_bank with require_ready: the bank is read first.   *)
BeginAch(s) ==
  /\ flow[s].kind = "ach" /\ At(s, "start")
  /\ StartCall(s, [ep |-> get_bank_account, key |-> None, body |-> FundBody, fund |-> None])
  /\ Stage(s, "bank")
  /\ UNCHANGED <<polls, signatures, intent, serviceVars>>

(* An error of a fund call leaves the flow; so does the end of a flow that *)
(* is one call.                                                            *)
Leave(s) ==
  /\ flow[s].stage \notin Over
  /\ \/ pc[s] \in {"raised", "absent"} /\ Stage(s, "failed")
     \/ pc[s] = "returned" /\ flow[s].stage \in {"once", "again", "debit"} /\ Stage(s, "done")
  /\ UNCHANGED <<gatewayVars, polls, signatures, intent>>

Resting(s) == UNCHANGED <<gatewayVars, polls, signatures, intent>>

BankRead(s) ==
  /\ pc[s] = "returned" /\ At(s, "bank")
  /\ \/ /\ \E k \in Keys \union {None} :
             StartCall(s, [ep |-> fund_ach_intent, key |-> k, body |-> FundBody, fund |-> None])
        /\ Stage(s, "debit")
        /\ UNCHANGED <<polls, signatures, intent, serviceVars>>
     \/ Stage(s, "failed") /\ Resting(s)      \* PlaidBankNotReadyError

result(s) == answer[s]
_is_terminal_funding_failure(s) == result(s).detail = "terminal"
(* Mutants: any 200 is taken for funded; every 402 is signed.              *)
CompleteOnAnyOk(s) == result(s).detail = "token" \/ result(s).status = "ok"
ChallengedAlways(s) == result(s).status = "challenge"

_is_funding_complete(s) ==
  \/ result(s).detail = "token"
  \/ result(s).status = "ok" /\ result(s).detail = "funded"
_challenged(s) == result(s).status = "challenge" /\ At(s, "first")

FundAnswered(s) == pc[s] = "returned" /\ flow[s].stage \in {"first", "paid", "poll"}

(* A 402 without a payment-required header, or without a Payment challenge *)
(* of the expected intent and method, ends the flow; else the payer signs. *)
Challenge(s) ==
  /\ FundAnswered(s) /\ _challenged(s)
  /\ Stage(s, IF result(s).detail = "unusable" THEN "failed" ELSE "signing")
  /\ Resting(s)

(* sign_payment or create_payment_credential, then a fresh recognition     *)
(* proof and the fund call with the credential; an empty credential, or a  *)
(* callback that raises, ends the flow.                                    *)
Sign(s) ==
  /\ At(s, "signing")
  /\ signatures' = [signatures EXCEPT ![s] = @ + 1]
  /\ \/ Fund(s, request[s].key, "signed") /\ Stage(s, "paid") /\ UNCHANGED serviceVars
     \/ Stage(s, "failed") /\ UNCHANGED gatewayVars
  /\ UNCHANGED <<polls, intent>>

polls_again(s) == result(s).status \in {"ok", "pending"}

FundingEnds(s) ==
  /\ FundAnswered(s) /\ ~_challenged(s)
  /\ \/ _is_terminal_funding_failure(s) /\ Stage(s, "failed")
     \/ ~_is_terminal_funding_failure(s) /\ _is_funding_complete(s) /\ Stage(s, "done")
     \/ /\ ~_is_terminal_funding_failure(s) /\ ~_is_funding_complete(s)
        /\ \/ polls_again(s) /\ polls[s] + 1 > MaxPolls /\ Stage(s, "pending")
           \/ ~polls_again(s) /\ Stage(s, "failed")
  /\ Resting(s)

(* Mutant: the poll loop does not count its attempts.                      *)
PollUncounted(s) ==
  /\ FundAnswered(s) /\ ~_challenged(s)
  /\ ~_is_terminal_funding_failure(s) /\ ~_is_funding_complete(s) /\ polls_again(s)
  /\ Fund(s, request[s].key, request[s].fund)
  /\ Stage(s, "poll")
  /\ UNCHANGED <<polls, signatures, intent, serviceVars>>

(* The next fund call of the poll loop, with the credential if there is    *)
(* one.                                                                    *)
Poll(s) ==
  /\ FundAnswered(s) /\ ~_challenged(s)
  /\ ~_is_terminal_funding_failure(s) /\ ~_is_funding_complete(s) /\ polls_again(s)
  /\ polls[s] + 1 <= MaxPolls
  /\ polls' = [polls EXCEPT ![s] = @ + 1]
  /\ Fund(s, request[s].key, request[s].fund)
  /\ Stage(s, "poll")
  /\ UNCHANGED <<signatures, intent, serviceVars>>

(***************************************************************************)
(* Harbor's fund operation.                                                *)
(***************************************************************************)
FundReply(status, detail) == [status |-> status, foreign |-> {}, detail |-> detail]

FundReplies(state) ==
  CASE state = "open"     -> {FundReply("challenge", None), FundReply("challenge", "unusable")}
    [] state = "settling" -> {FundReply("pending", None), FundReply("ok", None)}
    [] state = "funded"   -> {FundReply("ok", "funded"), FundReply("pending", "token")}
    [] state = "failed"   -> {FundReply("ok", "terminal")}

(* A credential may be taken, at once or with a settlement that takes      *)
(* time, or be answered with another challenge.  Whether a 402 counts as a *)
(* response to be replayed with its key is the service's choice.           *)
HarborFund(s) == \E m \in flight[s] :
  LET r == m.request IN
  /\ r.fund # None
  /\ ~Known(r)
  /\ \E after \in IF intent[s] = "open" /\ r.fund = "signed"
                  THEN {"open", "settling", "funded"} ELSE {intent[s]} :
       /\ intent' = [intent EXCEPT ![s] = after]
       /\ \E a \in FundReplies(after) :
            /\ \E sent \in {a, Reply("busy")} : Respond(s, m, sent)
            /\ \/ r.key # None /\ Keep(s, r, a)
               \/ /\ r.key = None \/ a.status = "challenge"
                  /\ UNCHANGED remembered
  /\ UNCHANGED <<clientVars, performed, effects, flowVars>>

Settle(s) ==
  /\ intent[s] = "settling"
  /\ \E after \in {"funded", "failed"} : intent' = [intent EXCEPT ![s] = after]
  /\ UNCHANGED <<gatewayVars, flowVars>>

FlowStep(s) ==
  \/ Leave(s) \/ BankRead(s)
  \/ Challenge(s) \/ Sign(s) \/ FundingEnds(s) \/ Poll(s)
Begin(s) == CallOnce(s) \/ CallAgain(s) \/ BeginFunding(s) \/ BeginAch(s)

AllOver == \A s \in Sessions : flow[s].stage \in Over
Quiet == AllOver /\ UNCHANGED vars

Next ==
  \/ \E s \in Sessions :
       \/ Begin(s)
       \/ FlowStep(s)
       \/ (ClientStep(s) \/ ServiceStep(s)) /\ UNCHANGED <<flowVars, intent>>
       \/ HarborFund(s) \/ Settle(s)
  \/ Quiet

(* httpx ends every request with an answer or a timeout, and the event     *)
(* loop runs a task that is ready; the service owes nothing.               *)
Fairness == \A s \in Sessions :
  /\ WF_vars(ClientStep(s) /\ UNCHANGED <<flowVars, intent>>)
  /\ WF_vars(FlowStep(s))

Spec == FlowInit /\ [][Next]_vars /\ Fairness

(***************************************************************************)
(* Properties.                                                             *)
(***************************************************************************)

TypeOK ==
  /\ GatewayTypeOK
  /\ flow \in [Sessions -> [kind : Flows, stage : Stages]]
  /\ polls \in [Sessions -> 0..MaxPolls]
  /\ signatures \in [Sessions -> Nat]
  /\ intent \in [Sessions -> {"open", "settling", "funded", "failed"}]

(* execute_fund_with_x402 and execute_fund_with_mpp return only when       *)
(* Harbor has the intent funded: no pending, replayed, late or misdirected *)
(* answer is taken for it.                                                 *)
ReturnedFunded == \A s \in Sessions :
  flow[s].kind \in FundKinds /\ At(s, "done") => intent[s] = "funded"

(* The payer is asked for one credential in a flow, however often Harbor   *)
(* answers 402, loses an answer or gets a copy twice.                      *)
SignedOnce == \A s \in Sessions : signatures[s] <= 1

(* Every call and every flow that was begun ends, even when the service    *)
(* never answers or stays pending for ever.                                *)
FlowEnds == \A s \in Sessions : ~At(s, "start") ~> flow[s].stage \in Over

(***************************************************************************)
(* The inductive invariant behind the safety properties.                   *)
(***************************************************************************)

(* Copies nobody waits for any more. *)
Late(s) == {m \in flight[s] : pc[s] = "waiting" => m.n # current[s]}

(* The copies of a session: each has its number, the one that is waited    *)
(* for is of the request being made, the others of that request or of one  *)
(* without effect before it.                                               *)
CopiesInv(s) ==
  /\ IsFiniteSet(flight[s])
  /\ Cardinality(Late(s)) <= MaxLate
  /\ \A m1, m2 \in flight[s] : m1.n = m2.n => m1 = m2
  /\ \A m \in flight[s] :
       /\ pc[s] = "waiting" /\ m.n = current[s] => m.request = request[s] /\ answer[s] = None
       /\ (m.request.fund = None) = (request[s].fund = None)
       /\ m.request.ep.effect => Scope(m.request) = Scope(request[s])

(* Where a flow is, what it is asking for, and how often it was signed.    *)
FlowInv(s) ==
  /\ flow[s].stage \in Over \union {"start"} \union
       CASE flow[s].kind = "call" -> {"once", "again"}
         [] flow[s].kind = "ach"  -> {"bank", "debit"}
         [] OTHER                 -> {"first", "signing", "paid", "poll"}
  /\ At(s, "start") = (pc[s] = "idle")
  /\ pc[s] = "idle" => flight[s] = {} /\ performed[s] = 0
  /\ pc[s] # "idle" =>
       /\ request[s] \in Request
       /\ (request[s].fund # None) = (flow[s].kind \in FundKinds)
       /\ request[s].fund # None => request[s].ep = fund_intent /\ request[s].body = FundBody
       /\ At(s, "bank") => request[s].ep = get_bank_account
  /\ At(s, "signing") => pc[s] = "returned"
  /\ signatures[s] <= 1
  /\ flow[s].stage \in {"start", "first", "signing"} => signatures[s] = 0

(* How often the work of a session's request was done.                     *)
WorkInv(s) == pc[s] # "idle" =>
  /\ request[s].fund # None \/ ~request[s].ep.effect => performed[s] = 0
  /\ request[s].key # None =>
       performed[s] <= 1 /\ (performed[s] > 0 => remembered[Scope(request[s])] # None)
  /\ request[s].ep.send = "once" =>
       /\ request[s].key = None /\ performed[s] <= 1
       /\ performed[s] > 0 => flight[s] = {}
       /\ \A m1, m2 \in flight[s] : m1 = m2

WorkDone(s) ==
  performed[s] > 0 \/ (request[s].key # None /\ effects[Scope(request[s])] > 0)

Complete(a) == a.detail = "token" \/ (a.status = "ok" /\ a.detail = "funded")

(* What an answer about the session's own subject says is true.            *)
AnswerInv(s) ==
  /\ pc[s] = "returned" =>
       /\ answer[s] # None /\ answer[s].foreign \intersect request[s].ep.checks = {}
       /\ answer[s].status \in request[s].ep.accepts
  /\ pc[s] \in {"waiting", "returned"} /\ answer[s] # None /\ answer[s].foreign = {} =>
       IF request[s].fund = None
       THEN request[s].ep.effect /\ answer[s].status \in Success => WorkDone(s)
       ELSE Complete(answer[s]) => intent[s] = "funded"

(* What is kept with a key is of a session of its kind, and true.          *)
KeptInv(k) == remembered[k] # None =>
  LET kept == remembered[k] IN
  /\ kept.funding <=> flow[kept.by].kind \in FundKinds
  /\ IF kept.funding THEN Complete(kept.answer) => intent[kept.by] = "funded"
     ELSE effects[k] > 0

IInv ==
  /\ TypeOK
  /\ \A s \in Sessions : CopiesInv(s) /\ FlowInv(s) /\ WorkInv(s) /\ AnswerInv(s)
  /\ \A k \in KeyScopes : KeptInv(k)
  /\ ReturnedFunded
=============================================================================
