------------------------ MODULE IntentFundingProofs ------------------------
(***************************************************************************)
(* Proofs about the client calls and the funding flows, for any number of  *)
(* sessions, keys, bodies, retries, late copies and polls: the invariant   *)
(* IInv of IntentFunding is inductive, and implies the safety properties.  *)
(***************************************************************************)
EXTENDS IntentFunding, FiniteSetTheorems, TLAPS

-----------------------------------------------------------------------------
(* Facts about the endpoints. *)

WellFormed(ep) == ep \in Endpoint /\ (ep.send = "once" => ~ep.key)

LEMMA EndpointKinds ==
  ASSUME NEW c \in SUBSET Echoed
  PROVE  /\ WellFormed(Read(c)) /\ WellFormed(Lookup(c))
         /\ WellFormed(Mutation(c)) /\ WellFormed(Keyed(c)) /\ WellFormed(Once(c))
         /\ WellFormed([Read(c) EXCEPT !.send = "plain"])
         /\ WellFormed([Mutation(c) EXCEPT !.send = "plain"])
         /\ WellFormed([Keyed(c) EXCEPT !.accepts = {"ok", "pending", "challenge"}])
         /\ WellFormed([Once(c) EXCEPT !.accepts = Success \union {"limited"}])
BY DEF WellFormed, Read, Lookup, Mutation, Keyed, Once, Endpoint, Success, Statuses, Retryable

(* Every operation is well formed: one that is sent once takes no key.     *)
LEMMA EndpointFacts ==
  \A ep \in Endpoints : WellFormed(ep)
<1>1. {} \in SUBSET Echoed /\ {"tenant"} \in SUBSET Echoed /\ {"subject"} \in SUBSET Echoed
      /\ Echoed \in SUBSET Echoed
  BY DEF Echoed
<1>2. QED
  BY <1>1, EndpointKinds
  DEF Endpoints, Harbor_verify_capability, Harbor_create_intent, Harbor_fund_intent,
      Harbor_submit_evidence, Harbor_confirm_settlement, get_ledger_tip, get_ledger_authority,
      get_ledger_events, get_ledger_merkle_latest, get_intent, verify_capability,
      complete_spend_decision, validate_policy, resolve_policy_effective, create_intent,
      fund_intent, submit_evidence, confirm_settlement, get_reputation_receipt,
      get_portfolio_summary, get_signed_portfolio_artifact, get_operator_explanation,
      get_operator_review_status, get_fraud_assessment, list_fraud_review_queue,
      get_fraud_metrics, get_fraud_release_gate_config, set_fraud_release_gate_mode,
      record_fraud_review_event, get_agent_card, get_task_contracts, get_task_contract,
      import_agent_mandate_v1, get_settlement_receipt_v1, verify_protocol_receipt_v1,
      get_agent_receipt_v1_by_id, get_agent_receipt_v1_by_intent_tool_call,
      verify_agent_receipt_v1, gateway_mutation, bootstrap_sandbox, submit_sandbox_evidence,
      audit_get, audit_post, list_bank_accounts, get_bank_account, fund_ach_intent

(* What the methods accept: success, and the two statuses of               *)
(* ReturnedUndone, each of one way to treat a request.                     *)
Accepts(ep) ==
  \A status \in ep.accepts \ Success : ep.checks = Echoed =>
    \/ ep = fund_intent /\ status = "challenge"
    \/ ep = record_fraud_review_event /\ status = "limited"

LEMMA EndpointAccepts == \A ep \in Endpoints : Accepts(ep)
<1>1. ASSUME NEW c
      PROVE  /\ Accepts(Read(c)) /\ Accepts(Lookup(c))
             /\ Accepts(Mutation(c)) /\ Accepts(Keyed(c)) /\ Accepts(Once(c))
             /\ Accepts([Read(c) EXCEPT !.send = "plain"])
             /\ Accepts([Mutation(c) EXCEPT !.send = "plain"])
  BY DEF Accepts, Read, Lookup, Mutation, Keyed, Once
<1>2. Accepts(fund_intent)
  BY DEF Accepts, fund_intent, Keyed, Mutation, Read, Success
<1>3. Accepts(record_fraud_review_event)
  BY DEF Accepts, record_fraud_review_event, Once, Mutation, Read, Success
<1>4. Harbor_fund_intent = fund_intent
  BY DEF Harbor_fund_intent, fund_intent
<1>5. QED
  BY <1>1, <1>2, <1>3, <1>4
  DEF Endpoints, Harbor_verify_capability, Harbor_create_intent,
      Harbor_submit_evidence, Harbor_confirm_settlement, get_ledger_tip, get_ledger_authority,
      get_ledger_events, get_ledger_merkle_latest, get_intent, verify_capability,
      complete_spend_decision, validate_policy, resolve_policy_effective, create_intent,
      submit_evidence, confirm_settlement, get_reputation_receipt,
      get_portfolio_summary, get_signed_portfolio_artifact, get_operator_explanation,
      get_operator_review_status, get_fraud_assessment, list_fraud_review_queue,
      get_fraud_metrics, get_fraud_release_gate_config, set_fraud_release_gate_mode,
      get_agent_card, get_task_contracts, get_task_contract,
      import_agent_mandate_v1, get_settlement_receipt_v1, verify_protocol_receipt_v1,
      get_agent_receipt_v1_by_id, get_agent_receipt_v1_by_intent_tool_call,
      verify_agent_receipt_v1, gateway_mutation, bootstrap_sandbox, submit_sandbox_evidence,
      audit_get, audit_post, list_bank_accounts, get_bank_account, fund_ach_intent

(* The operations of the funding flows. *)
LEMMA FundEndpoints ==
  /\ fund_intent \in Endpoints /\ fund_intent.effect /\ fund_intent.send = "retried"
  /\ fund_intent.checks = Echoed
  /\ get_bank_account \in Endpoints /\ ~get_bank_account.effect
  /\ get_bank_account.send = "retried"
  /\ fund_ach_intent \in Endpoints /\ fund_ach_intent.send = "retried"
<1>1. fund_intent \in Endpoints /\ get_bank_account \in Endpoints /\ fund_ach_intent \in Endpoints
  BY DEF Endpoints
<1>2. QED
  BY <1>1
  DEF fund_intent, get_bank_account, fund_ach_intent, Keyed, Mutation, Read

-----------------------------------------------------------------------------
(* Numbers of copies. *)

(* There is a free number as long as at most MaxLate copies are under way. *)
LEMMA FreeNumber ==
  ASSUME NEW S \in SUBSET Copies, IsFiniteSet(S), Cardinality(S) <= MaxLate
  PROVE  \E i \in 1..(MaxLate + 1) : \A m \in S : m.n # i
<1> SUFFICES ASSUME \A i \in 1..(MaxLate + 1) : \E m \in S : m.n = i
             PROVE  FALSE
  OBVIOUS
<1> DEFINE T == 1..(MaxLate + 1)
           f == [m \in S |-> m.n]
<1>1. IsFiniteSet(T) /\ Cardinality(T) = MaxLate + 1
  BY FS_Interval, MaxLateAssumption
<1>2. f \in Surjection(S, T)
  <2>1. f \in [S -> T]
    BY DEF Copies
  <2>2. \A i \in T : \E m \in S : f[m] = i
    OBVIOUS
  <2>3. QED
    BY <2>1, <2>2 DEF Surjection
<1>3. Cardinality(T) <= Cardinality(S)
  BY <1>2, FS_Surjection
<1>4. Cardinality(S) \in Nat
  BY FS_CardinalityType
<1>5. QED
  BY <1>1, <1>3, <1>4, MaxLateAssumption

(* The next copy of a request is put on the wire. *)
LEMMA Sent ==
  ASSUME TypeOK, NEW s \in Sessions, NEW r \in Request, NEW left \in SUBSET flight[s],
         IsFiniteSet(left), Cardinality(left) <= MaxLate, Send(s, r, left)
  PROVE  \E n \in 1..(MaxLate + 1) :
           /\ \A m \in left : m.n # n
           /\ flight' = [flight EXCEPT ![s] = left \union {[n |-> n, request |-> r]}]
           /\ current' = [current EXCEPT ![s] = n]
<1>1. left \in SUBSET Copies
  BY DEF TypeOK, GatewayTypeOK
<1>2. \E i \in 1..(MaxLate + 1) : \A m \in left : m.n # i
  BY <1>1, FreeNumber
<1>3. QED
  BY <1>2 DEF Send

(* ... and the variables it changes keep their types.                      *)
LEMMA SentType ==
  ASSUME TypeOK, NEW s \in Sessions, NEW r \in Request, NEW left \in SUBSET flight[s],
         IsFiniteSet(left), Cardinality(left) <= MaxLate, Send(s, r, left)
  PROVE  /\ pc' \in [Sessions -> {"idle", "waiting"} \union Ended]
         /\ flight' \in [Sessions -> SUBSET Copies]
         /\ current' \in [Sessions -> 1..(MaxLate + 1)]
         /\ answer' \in [Sessions -> Answer \union {None}]
<1>1. PICK n \in 1..(MaxLate + 1) :
        /\ flight' = [flight EXCEPT ![s] = left \union {[n |-> n, request |-> r]}]
        /\ current' = [current EXCEPT ![s] = n]
  BY Sent
<1>2. left \union {[n |-> n, request |-> r]} \in SUBSET Copies
  BY DEF TypeOK, GatewayTypeOK, Copies
<1>3. flight' \in [Sessions -> SUBSET Copies]
  BY <1>1, <1>2 DEF TypeOK, GatewayTypeOK
<1>4. current' \in [Sessions -> 1..(MaxLate + 1)]
  BY <1>1 DEF TypeOK, GatewayTypeOK
<1>5. /\ pc' \in [Sessions -> {"idle", "waiting"} \union Ended]
      /\ answer' \in [Sessions -> Answer \union {None}]
  BY DEF Send, TypeOK, GatewayTypeOK
<1>6. QED
  BY <1>3, <1>4, <1>5

(* Two requests of a session that follow each other: the second is about   *)
(* the same work, or the first had no effect.                              *)
Follows(r, before) ==
  /\ (r.fund = None) = (before.fund = None)
  /\ before.ep.effect => Scope(r) = Scope(before)

LEMMA SentCopies ==
  ASSUME TypeOK, NEW s \in Sessions, CopiesInv(s), NEW r \in Request,
         NEW left \in SUBSET flight[s], Cardinality(left) <= MaxLate,
         Send(s, r, left), request'[s] = r,
         left = {} \/ Follows(r, request[s])
  PROVE  CopiesInv(s)'
<1>1. IsFiniteSet(left)
  BY FS_Subset DEF CopiesInv
<1>2. PICK n \in 1..(MaxLate + 1) :
        /\ \A m \in left : m.n # n
        /\ flight' = [flight EXCEPT ![s] = left \union {[n |-> n, request |-> r]}]
        /\ current' = [current EXCEPT ![s] = n]
  BY <1>1, Sent
<1>3. /\ flight'[s] = left \union {[n |-> n, request |-> r]}
      /\ current'[s] = n /\ pc'[s] = "waiting" /\ answer'[s] = None
  BY <1>2 DEF Send, TypeOK, GatewayTypeOK
<1>4. Late(s)' = left
  BY <1>2, <1>3 DEF Late
<1>5. IsFiniteSet(flight'[s])
  <2>1. [n |-> n, request |-> r] \notin left
    BY <1>2
  <2>2. QED
    BY <1>1, <1>3, <2>1, FS_AddElement
<1>6. \A m1, m2 \in flight'[s] : m1.n = m2.n => m1 = m2
  BY <1>2, <1>3 DEF CopiesInv
<1>7. ASSUME NEW m \in flight'[s]
      PROVE  /\ m.n = n => m.request = r
             /\ (m.request.fund = None) = (r.fund = None)
             /\ m.request.ep.effect => Scope(m.request) = Scope(r)
  BY <1>2, <1>3 DEF CopiesInv, Follows, Scope
<1>8. QED
  BY <1>3, <1>4, <1>5, <1>6, <1>7 DEF CopiesInv

-----------------------------------------------------------------------------
(* A step of one session. *)

(* The other sessions are where they were. *)
Elsewhere(s) == \A t \in Sessions \ {s} :
  /\ pc'[t] = pc[t] /\ request'[t] = request[t] /\ flight'[t] = flight[t]
  /\ current'[t] = current[t] /\ answer'[t] = answer[t] /\ performed'[t] = performed[t]
  /\ flow'[t] = flow[t] /\ signatures'[t] = signatures[t] /\ intent'[t] = intent[t]

(* The service forgets nothing. *)
Grown == \A k \in KeyScopes :
  /\ effects[k] <= effects'[k]
  /\ remembered[k] # None => remembered'[k] = remembered[k]

LEMMA ElsewhereInv ==
  ASSUME IInv, NEW s \in Sessions, Elsewhere(s), Grown, TypeOK',
         NEW t \in Sessions \ {s}
  PROVE  CopiesInv(t)' /\ FlowInv(t)' /\ WorkInv(t)' /\ AnswerInv(t)'
<1>1. CopiesInv(t)'
  <2>1. /\ pc'[t] = pc[t] /\ request'[t] = request[t] /\ flight'[t] = flight[t]
        /\ current'[t] = current[t] /\ answer'[t] = answer[t]
    BY DEF Elsewhere
  <2>2. CopiesInv(t)
    BY DEF IInv
  <2>3. Late(t)' = Late(t)
    BY <2>1 DEF Late
  <2>4. QED
    BY <2>1, <2>2, <2>3 DEF CopiesInv
<1>2. FlowInv(t)'
  BY DEF IInv, Elsewhere, FlowInv, At
<1>3. /\ request[t] \in Request /\ request[t].key # None => Scope(request[t]) \in KeyScopes
      /\ pc[t] # "idle" => request[t] \in Request
  BY DEF IInv, Request, Scope, KeyScopes, FlowInv
<1>4. WorkInv(t)'
  BY <1>3 DEF IInv, Elsewhere, Grown, WorkInv
<1>5. AnswerInv(t)'
  <2>1. effects \in [KeyScopes -> Nat] /\ effects' \in [KeyScopes -> Nat]
    BY DEF IInv, TypeOK, GatewayTypeOK
  <2>2. pc[t] # "idle" /\ WorkDone(t) => WorkDone(t)'
    BY <1>3, <2>1 DEF Elsewhere, Grown, WorkDone
  <2>3. QED
    BY <2>2 DEF IInv, Elsewhere, AnswerInv
<1>6. QED
  BY <1>1, <1>2, <1>4, <1>5

(* What has to be shown of a step of session s. *)
LEMMA Assembled ==
  ASSUME IInv, NEW s \in Sessions, Elsewhere(s), Grown, TypeOK',
         CopiesInv(s)', FlowInv(s)', WorkInv(s)', AnswerInv(s)',
         flow'[s].kind = flow[s].kind,
         intent[s] = "funded" => intent'[s] = "funded",
         flow[s].kind \in FundKinds /\ flow'[s].stage = "done" => intent'[s] = "funded",
         \A k \in KeyScopes : remembered[k] = None => KeptInv(k)'
  PROVE  IInv'
<1>1. \A t \in Sessions : CopiesInv(t)' /\ FlowInv(t)' /\ WorkInv(t)' /\ AnswerInv(t)'
  BY ElsewhereInv
<1>2. \A t \in Sessions : flow'[t].kind = flow[t].kind /\ (intent[t] = "funded" => intent'[t] = "funded")
  BY DEF Elsewhere
<1>3. ASSUME NEW k \in KeyScopes, remembered[k] # None
      PROVE  KeptInv(k)'
  <2>1. remembered[k].by \in Sessions
    BY <1>3 DEF IInv, TypeOK, GatewayTypeOK, Kept
  <2>2. effects[k] \in Nat /\ effects'[k] \in Nat
    BY DEF IInv, TypeOK, GatewayTypeOK
  <2>3. remembered'[k] = remembered[k] /\ KeptInv(k)
    BY <1>3 DEF Grown, IInv
  <2>4. QED
    BY <1>2, <1>3, <2>1, <2>2, <2>3 DEF KeptInv, Grown
<1>4. ReturnedFunded'
  BY <1>2 DEF IInv, ReturnedFunded, Elsewhere, At
<1>5. QED
  BY <1>1, <1>3, <1>4 DEF IInv

-----------------------------------------------------------------------------
(* A session makes a new call. *)

LEMMA Starts ==
  ASSUME IInv, NEW s \in Sessions, NEW r \in Request, NEW stage \in Stages \ Over,
         pc[s] # "waiting", StartCall(s, r), Stage(s, stage),
         pc[s] = "idle" \/ Follows(r, request[s]),
         r.ep.send = "once" => pc[s] = "idle" /\ r.key = None,
         UNCHANGED <<serviceVars, intent>>,
         polls' \in [Sessions -> 0..MaxPolls],
         signatures' \in [Sessions -> Nat],
         \A t \in Sessions \ {s} : signatures'[t] = signatures[t],
         FlowInv(s)'
  PROVE  IInv'
<1> USE DEF IInv
<1>1. /\ flight[s] \in SUBSET flight[s] /\ IsFiniteSet(flight[s])
      /\ Cardinality(flight[s]) <= MaxLate
  <2>1. Late(s) = flight[s]
    BY DEF Late
  <2>2. QED
    BY <2>1 DEF CopiesInv
<1>2. /\ Send(s, r, flight[s])
      /\ request' = [request EXCEPT ![s] = r]
      /\ attempt' = [attempt EXCEPT ![s] = 0]
      /\ cloudflare_retries' = [cloudflare_retries EXCEPT ![s] = 0]
  BY DEF StartCall
<1>3. TypeOK'
  <2>1. /\ pc' \in [Sessions -> {"idle", "waiting"} \union Ended]
        /\ flight' \in [Sessions -> SUBSET Copies]
        /\ current' \in [Sessions -> 1..(MaxLate + 1)]
        /\ answer' \in [Sessions -> Answer \union {None}]
    BY <1>1, <1>2, SentType
  <2>2. /\ request' \in [Sessions -> Request \union {None}]
        /\ attempt' \in [Sessions -> 0..(MaxRetries - 1)]
        /\ cloudflare_retries' \in [Sessions -> 0..1]
    BY <1>2, MaxRetriesAssumption DEF TypeOK, GatewayTypeOK
  <2>3. flow' \in [Sessions -> [kind : Flows, stage : Stages]]
    BY DEF Stage, TypeOK
  <2>4. QED
    BY <2>1, <2>2, <2>3 DEF TypeOK, GatewayTypeOK, serviceVars
<1>4. request'[s] = r /\ pc'[s] = "waiting" /\ answer'[s] = None
  BY <1>2 DEF Send, TypeOK, GatewayTypeOK
<1>5. CopiesInv(s)'
  <2>1. flight[s] = {} \/ Follows(r, request[s])
    BY DEF FlowInv
  <2>2. QED
    BY <1>1, <1>2, <1>4, <2>1, SentCopies
<1>6. Elsewhere(s)
  BY <1>2 DEF Send, Stage, TypeOK, GatewayTypeOK, serviceVars, Elsewhere
<1>7. Grown
  BY DEF Grown, serviceVars, TypeOK, GatewayTypeOK
<1>8. performed'[s] = performed[s] /\ performed[s] \in Nat
  BY DEF serviceVars, TypeOK, GatewayTypeOK
<1>9. WorkInv(s)'
  <2>1. CASE pc[s] = "idle"
    <3>1. performed[s] = 0 /\ flight[s] = {}
      BY <2>1 DEF FlowInv
    <3>2. \A m1, m2 \in flight'[s] : m1 = m2
      BY <1>2, <3>1 DEF Send, TypeOK, GatewayTypeOK
    <3>3. QED
      BY <1>4, <1>8, <2>1, <3>1, <3>2 DEF WorkInv
  <2>2. CASE pc[s] # "idle"
    <3>1. Follows(r, request[s]) /\ WorkInv(s) /\ r.ep.send # "once"
      BY <2>2
    <3>2. Scope(r) = Scope(request[s]) => r.ep = request[s].ep /\ r.key = request[s].key
      BY DEF Scope
    <3>3. QED
      BY <1>4, <1>8, <2>2, <3>1, <3>2 DEF WorkInv, Follows, serviceVars
  <2>3. QED
    BY <2>1, <2>2
<1>10. AnswerInv(s)'
  BY <1>4 DEF AnswerInv
<1>11. flow'[s].kind = flow[s].kind /\ flow'[s].stage = stage
  BY DEF Stage, TypeOK
<1>12. stage # "done"
  BY DEF Over
<1>13. \A k \in KeyScopes : remembered[k] = None => KeptInv(k)'
  BY DEF KeptInv, serviceVars
<1>14. QED
  BY <1>3, <1>5, <1>6, <1>7, <1>9, <1>10, <1>11, <1>12, <1>13, Assembled

LEMMA CallOnceInv ==
  ASSUME IInv, NEW s \in Sessions, CallOnce(s)
  PROVE  IInv'
<1>1. PICK ep \in Endpoints, k \in Keys \union {None}, b \in Bodies :
        /\ k # None => ep.key
        /\ StartCall(s, [ep |-> ep, key |-> k, body |-> b, fund |-> None])
  BY DEF CallOnce, Call
<1> DEFINE r == [ep |-> ep, key |-> k, body |-> b, fund |-> None]
<1>2. r \in Request /\ (r.ep.send = "once" => r.key = None)
  BY <1>1, EndpointFacts DEF Request, WellFormed
<1>3. pc[s] = "idle" /\ flow[s].kind = "call" /\ Stage(s, "once")
      /\ UNCHANGED <<serviceVars, polls, signatures, intent>>
  BY DEF CallOnce, Call
<1>4. flow'[s].kind = "call" /\ flow'[s].stage = "once"
  BY <1>3 DEF IInv, TypeOK, Stage
<1>5. request'[s] = r /\ pc'[s] = "waiting"
  BY <1>1 DEF StartCall, Send, IInv, TypeOK, GatewayTypeOK
<1>6. FlowInv(s)'
  BY <1>2, <1>3, <1>4, <1>5 DEF IInv, FlowInv, At, FundKinds
<1>7. QED
  BY <1>1, <1>2, <1>3, <1>6, Starts DEF Stages, Over, IInv, TypeOK

LEMMA CallAgainInv ==
  ASSUME IInv, NEW s \in Sessions, CallAgain(s)
  PROVE  IInv'
<1>1. PICK b \in Bodies : StartCall(s, [request[s] EXCEPT !.body = b])
  BY DEF CallAgain
<1> DEFINE r == [request[s] EXCEPT !.body = b]
<1>2. /\ pc[s] = "raised" /\ request[s].key # None /\ Stage(s, "again") /\ At(s, "once")
      /\ UNCHANGED <<serviceVars, polls, signatures, intent>>
  BY DEF CallAgain
<1>3. request[s] \in Request /\ r \in Request
      /\ r.ep = request[s].ep /\ r.key = request[s].key /\ r.fund = request[s].fund
  BY <1>2 DEF IInv, FlowInv, Request
<1>4. flow'[s].kind = flow[s].kind /\ flow'[s].stage = "again" /\ flow[s].kind = "call"
  BY <1>2 DEF IInv, TypeOK, Stage, FlowInv, At, Over
<1>5. request'[s] = r /\ pc'[s] = "waiting"
  BY <1>1 DEF StartCall, Send, IInv, TypeOK, GatewayTypeOK
<1>6. FlowInv(s)'
  BY <1>2, <1>3, <1>4, <1>5 DEF IInv, FlowInv, At, FundKinds
<1>7. r.ep.send # "once" /\ Follows(r, request[s])
  BY <1>2, <1>3 DEF IInv, WorkInv, Follows, Scope
<1>8. QED
  BY <1>1, <1>2, <1>3, <1>6, <1>7, Starts DEF Stages, Over, IInv, TypeOK

(* A fund call carries the empty body and is told apart by its fund field. *)
LEMMA FundRequest ==
  ASSUME NEW k \in Keys \union {None}, NEW f \in Credentials
  PROVE  LET r == [ep |-> fund_intent, key |-> k, body |-> FundBody, fund |-> f] IN
         /\ r \in Request /\ r.fund # None /\ r.ep.send # "once"
BY FundEndpoints, FundBodyAssumption, NoneAssumption DEF Request

LEMMA BeginFundingInv ==
  ASSUME IInv, NEW s \in Sessions, BeginFunding(s)
  PROVE  IInv'
<1>1. PICK k \in Keys \union {None} : Fund(s, k, "bare")
  BY DEF BeginFunding
<1> DEFINE r == [ep |-> fund_intent, key |-> k, body |-> FundBody, fund |-> "bare"]
<1>2. StartCall(s, r) /\ r \in Request /\ r.fund # None /\ r.ep.send # "once"
  BY <1>1, FundRequest DEF Fund, Credentials
<1>3. /\ flow[s].kind \in FundKinds /\ At(s, "start") /\ Stage(s, "first") /\ pc[s] = "idle"
      /\ UNCHANGED <<serviceVars, polls, signatures, intent>>
  BY DEF BeginFunding, IInv, FlowInv
<1>4. flow'[s].kind = flow[s].kind /\ flow'[s].stage = "first"
  BY <1>3 DEF IInv, TypeOK, Stage
<1>5. request'[s] = r /\ pc'[s] = "waiting"
  BY <1>2 DEF StartCall, Send, IInv, TypeOK, GatewayTypeOK
<1>6. FlowInv(s)'
  BY <1>2, <1>3, <1>4, <1>5 DEF IInv, FlowInv, At, FundKinds
<1>7. QED
  BY <1>2, <1>3, <1>6, Starts DEF Stages, Over, IInv, TypeOK

LEMMA BeginAchInv ==
  ASSUME IInv, NEW s \in Sessions, BeginAch(s)
  PROVE  IInv'
<1> DEFINE r == [ep |-> get_bank_account, key |-> None, body |-> FundBody, fund |-> None]
<1>1. r \in Request /\ r.ep.send # "once"
  BY FundEndpoints, FundBodyAssumption DEF Request
<1>2. /\ StartCall(s, r) /\ pc[s] = "idle" /\ flow[s].kind = "ach"
      /\ At(s, "start") /\ Stage(s, "bank")
      /\ UNCHANGED <<serviceVars, polls, signatures, intent>>
  BY DEF BeginAch, IInv, FlowInv
<1>3. flow'[s].kind = "ach" /\ flow'[s].stage = "bank"
  BY <1>2 DEF IInv, TypeOK, Stage
<1>4. request'[s] = r /\ pc'[s] = "waiting"
  BY <1>2 DEF StartCall, Send, IInv, TypeOK, GatewayTypeOK
<1>5. FlowInv(s)'
  BY <1>1, <1>2, <1>3, <1>4 DEF IInv, FlowInv, At, FundKinds
<1>6. QED
  BY <1>1, <1>2, <1>5, Starts DEF Stages, Over, IInv, TypeOK

-----------------------------------------------------------------------------
(* A flow moves on without a call. *)

LEMMA Moves ==
  ASSUME IInv, NEW s \in Sessions, NEW stage \in Stages, Stage(s, stage),
         UNCHANGED <<gatewayVars, polls, intent>>,
         signatures' \in [Sessions -> Nat],
         \A t \in Sessions \ {s} : signatures'[t] = signatures[t],
         FlowInv(s)',
         flow[s].kind \in FundKinds /\ stage = "done" => intent[s] = "funded"
  PROVE  IInv'
<1> USE DEF IInv
<1>1. /\ UNCHANGED <<pc, request, attempt, cloudflare_retries, current, flight, answer>>
      /\ UNCHANGED <<performed, effects, remembered, polls, intent>>
  BY DEF gatewayVars, clientVars, serviceVars
<1>2. TypeOK'
  <2>1. flow' \in [Sessions -> [kind : Flows, stage : Stages]]
    BY DEF Stage, TypeOK
  <2>2. QED
    BY <1>1, <2>1 DEF TypeOK, GatewayTypeOK
<1>3. flow'[s].kind = flow[s].kind /\ flow'[s].stage = stage
  BY DEF Stage, TypeOK
<1>4. CopiesInv(s)' /\ WorkInv(s)' /\ AnswerInv(s)'
  <2>1. CopiesInv(s) /\ WorkInv(s) /\ AnswerInv(s) /\ Late(s)' = Late(s)
    BY <1>1 DEF Late
  <2>2. CopiesInv(s)'
    BY <1>1, <2>1 DEF CopiesInv
  <2>3. QED
    BY <1>1, <2>1, <2>2 DEF WorkInv, AnswerInv, WorkDone
<1>5. Elsewhere(s) /\ Grown
  BY <1>1 DEF Elsewhere, Grown, Stage, TypeOK, GatewayTypeOK
<1>6. \A k \in KeyScopes : remembered[k] = None => KeptInv(k)'
  BY <1>1 DEF KeptInv
<1>7. QED
  BY <1>1, <1>2, <1>3, <1>4, <1>5, <1>6, Assembled

LEMMA MovedFlow ==
  ASSUME IInv, NEW s \in Sessions, NEW stage \in Over, Stage(s, stage), ~At(s, "start"),
         UNCHANGED gatewayVars, signatures'[s] <= 1
  PROVE  FlowInv(s)'
<1>1. flow'[s].kind = flow[s].kind /\ flow'[s].stage = stage
  BY DEF Stage, IInv, TypeOK
<1>2. UNCHANGED <<pc, request, flight, performed>>
  BY DEF gatewayVars, clientVars, serviceVars
<1>3. FlowInv(s) /\ pc[s] # "idle"
  BY DEF IInv, FlowInv
<1>4. QED
  BY <1>1, <1>2, <1>3 DEF FlowInv, At, Over

LEMMA LeaveInv ==
  ASSUME IInv, NEW s \in Sessions, Leave(s)
  PROVE  IInv'
<1>1. PICK stage \in {"failed", "done"} :
        /\ Stage(s, stage) /\ UNCHANGED <<gatewayVars, polls, signatures, intent>>
        /\ pc[s] \in Ended
        /\ stage = "done" => flow[s].stage \in {"once", "again", "debit"}
  BY DEF Leave, Ended
<1>2. ~At(s, "start") /\ signatures'[s] <= 1
  BY <1>1 DEF IInv, FlowInv, Ended
<1>3. FlowInv(s)'
  BY <1>1, <1>2, MovedFlow DEF Over
<1>4. stage = "done" => flow[s].kind \notin FundKinds
  BY <1>1 DEF IInv, FlowInv, Over, FundKinds
<1>5. QED
  BY <1>1, <1>3, <1>4, Moves DEF Stages, Over, IInv, TypeOK

LEMMA ChallengeInv ==
  ASSUME IInv, NEW s \in Sessions, Challenge(s)
  PROVE  IInv'
<1>1. PICK stage \in {"failed", "signing"} :
        Stage(s, stage) /\ UNCHANGED <<gatewayVars, polls, signatures, intent>>
  BY DEF Challenge, Resting
<1>2. pc[s] = "returned" /\ At(s, "first")
  BY DEF Challenge, FundAnswered, _challenged
<1>3. flow'[s].kind = flow[s].kind /\ flow'[s].stage = stage
  BY <1>1 DEF Stage, IInv, TypeOK
<1>4. FlowInv(s)'
  <2>1. UNCHANGED <<pc, request, flight, performed, signatures>>
    BY <1>1 DEF gatewayVars, clientVars, serviceVars
  <2>2. FlowInv(s) /\ flow[s].stage = "first"
    BY <1>2 DEF IInv, At
  <2>3. flow[s].kind # "call" /\ flow[s].kind # "ach" /\ signatures[s] = 0
    BY <2>2 DEF FlowInv, Over
  <2>4. QED
    BY <1>2, <1>3, <2>1, <2>2, <2>3 DEF FlowInv, At, Over
<1>5. QED
  BY <1>1, <1>4, Moves DEF Stages, Over, IInv, TypeOK

LEMMA FundingEndsInv ==
  ASSUME IInv, NEW s \in Sessions, FundingEnds(s)
  PROVE  IInv'
<1>1. PICK stage \in Over :
        /\ Stage(s, stage) /\ UNCHANGED <<gatewayVars, polls, signatures, intent>>
        /\ stage = "done" => Complete(answer[s])
  BY DEF FundingEnds, Resting, Over, _is_funding_complete, result, Complete
<1>2. pc[s] = "returned" /\ flow[s].stage \in {"first", "paid", "poll"}
  BY DEF FundingEnds, FundAnswered
<1>3. ~At(s, "start") /\ signatures'[s] <= 1
  BY <1>1, <1>2 DEF IInv, FlowInv, At
<1>4. FlowInv(s)'
  BY <1>1, <1>3, MovedFlow
<1>5. ASSUME flow[s].kind \in FundKinds, stage = "done"
      PROVE  intent[s] = "funded"
  <2>1. request[s].fund # None /\ request[s].ep.checks = Echoed
    BY <1>2, <1>5, FundEndpoints DEF IInv, FlowInv
  <2>2. answer[s] # None /\ answer[s] \in Answer
    BY <1>2 DEF IInv, AnswerInv, TypeOK, GatewayTypeOK
  <2>3. answer[s].foreign = {}
    BY <1>2, <2>1, <2>2 DEF IInv, AnswerInv, Answer
  <2>4. QED
    BY <1>1, <1>2, <1>5, <2>1, <2>2, <2>3 DEF IInv, AnswerInv
<1>6. QED
  BY <1>1, <1>4, <1>5, Moves DEF Stages, IInv, TypeOK

LEMMA BankReadInv ==
  ASSUME IInv, NEW s \in Sessions, BankRead(s)
  PROVE  IInv'
<1>1. pc[s] = "returned" /\ At(s, "bank") /\ flow[s].kind = "ach"
  BY DEF BankRead, IInv, FlowInv, At, Over
<1>2. ASSUME NEW k \in Keys \union {None},
             StartCall(s, [ep |-> fund_ach_intent, key |-> k, body |-> FundBody, fund |-> None]),
             Stage(s, "debit"), UNCHANGED <<polls, signatures, intent, serviceVars>>
      PROVE  IInv'
  <2> DEFINE r == [ep |-> fund_ach_intent, key |-> k, body |-> FundBody, fund |-> None]
  <2>1. r \in Request /\ r.ep.send # "once"
    BY FundEndpoints, FundBodyAssumption DEF Request
  <2>2. flow'[s].kind = "ach" /\ flow'[s].stage = "debit"
    BY <1>1, <1>2 DEF IInv, TypeOK, Stage
  <2>3. request'[s] = r /\ pc'[s] = "waiting"
    BY <1>2 DEF StartCall, Send, IInv, TypeOK, GatewayTypeOK
  <2>4. FlowInv(s)'
    BY <1>1, <1>2, <2>1, <2>2, <2>3 DEF IInv, FlowInv, At, FundKinds
  <2>5. Follows(r, request[s])
    BY <1>1, FundEndpoints DEF IInv, FlowInv, Follows, FundKinds
  <2>6. QED
    BY <1>1, <1>2, <2>1, <2>4, <2>5, Starts DEF Stages, Over, IInv, TypeOK
<1>3. CASE Stage(s, "failed") /\ Resting(s)
  <2>1. ~At(s, "start") /\ signatures'[s] <= 1 /\ UNCHANGED <<gatewayVars, polls, signatures, intent>>
    BY <1>1, <1>3 DEF Resting, IInv, FlowInv, At
  <2>2. FlowInv(s)'
    BY <1>3, <2>1, MovedFlow DEF Over
  <2>3. QED
    BY <1>3, <2>1, <2>2, Moves DEF Stages, Over, IInv, TypeOK
<1>4. QED
  BY <1>2, <1>3 DEF BankRead

(* A fund call after the first one of a flow. *)
LEMMA FundsAgain ==
  ASSUME IInv, NEW s \in Sessions, NEW f \in Credentials, NEW stage \in {"paid", "poll"},
         pc[s] # "waiting", flow[s].stage \in {"first", "signing", "paid", "poll"},
         Fund(s, request[s].key, f), Stage(s, stage),
         UNCHANGED <<serviceVars, intent>>, polls' \in [Sessions -> 0..MaxPolls],
         signatures' \in [Sessions -> Nat], signatures'[s] <= 1,
         \A t \in Sessions \ {s} : signatures'[t] = signatures[t]
  PROVE  IInv'
<1> DEFINE r == [ep |-> fund_intent, key |-> request[s].key, body |-> FundBody, fund |-> f]
<1>1. /\ pc[s] # "idle" /\ request[s] \in Request /\ flow[s].kind \in FundKinds
      /\ request[s].fund # None /\ request[s].ep = fund_intent
  <2>1. FlowInv(s) /\ flow[s].kind \in {"call", "ach", "x402", "mpp"}
    BY FlowsAssumption DEF IInv, TypeOK, FlowKinds
  <2>2. QED
    BY <2>1 DEF FlowInv, At, Over, FundKinds
<1>2. StartCall(s, r) /\ r \in Request /\ r.fund # None /\ r.ep.send # "once"
  BY <1>1, FundRequest DEF Fund, Request
<1>3. flow'[s].kind = flow[s].kind /\ flow'[s].stage = stage
  BY DEF IInv, TypeOK, Stage
<1>4. request'[s] = r /\ pc'[s] = "waiting"
  BY <1>2 DEF StartCall, Send, IInv, TypeOK, GatewayTypeOK
<1>5. FlowInv(s)'
  BY <1>1, <1>2, <1>3, <1>4 DEF IInv, FlowInv, At, FundKinds
<1>6. Follows(r, request[s])
  BY <1>1, <1>2 DEF Follows, Scope
<1>7. QED
  BY <1>2, <1>5, <1>6, Starts DEF Stages, Over, IInv, TypeOK

LEMMA SignInv ==
  ASSUME IInv, NEW s \in Sessions, Sign(s)
  PROVE  IInv'
<1>1. /\ At(s, "signing") /\ UNCHANGED <<polls, intent>>
      /\ signatures' = [signatures EXCEPT ![s] = @ + 1]
  BY DEF Sign
<1>2. /\ signatures' \in [Sessions -> Nat] /\ signatures'[s] <= 1
      /\ \A t \in Sessions \ {s} : signatures'[t] = signatures[t]
  <2>1. signatures[s] = 0
    BY <1>1 DEF IInv, FlowInv, At
  <2>2. QED
    BY <1>1, <2>1 DEF IInv, TypeOK
<1>3. pc[s] = "returned" /\ polls' \in [Sessions -> 0..MaxPolls]
  BY <1>1 DEF IInv, FlowInv, TypeOK
<1>4. CASE Fund(s, request[s].key, "signed") /\ Stage(s, "paid") /\ UNCHANGED serviceVars
  BY <1>1, <1>2, <1>3, <1>4, FundsAgain DEF At, Credentials
<1>5. CASE Stage(s, "failed") /\ UNCHANGED gatewayVars
  <2>1. FlowInv(s)'
    BY <1>1, <1>2, <1>5, MovedFlow DEF At, Over
  <2>2. QED
    BY <1>1, <1>2, <1>5, <2>1, Moves DEF Stages, Over
<1>6. QED
  BY <1>4, <1>5 DEF Sign

LEMMA PollInv ==
  ASSUME IInv, NEW s \in Sessions, Poll(s)
  PROVE  IInv'
<1>1. /\ pc[s] = "returned" /\ flow[s].stage \in {"first", "paid", "poll"}
      /\ polls[s] + 1 <= MaxPolls /\ polls' = [polls EXCEPT ![s] = @ + 1]
      /\ Fund(s, request[s].key, request[s].fund) /\ Stage(s, "poll")
      /\ UNCHANGED <<signatures, intent, serviceVars>>
  BY DEF Poll, FundAnswered
<1>2. polls' \in [Sessions -> 0..MaxPolls]
  BY <1>1, MaxPollsAssumption DEF IInv, TypeOK
<1>3. request[s].fund \in Credentials
  <2>1. FlowInv(s) /\ flow[s].kind \in {"call", "ach", "x402", "mpp"}
    BY FlowsAssumption DEF IInv, TypeOK, FlowKinds
  <2>2. request[s] \in Request /\ request[s].fund # None
    BY <1>1, <2>1 DEF FlowInv, At, Over, FundKinds
  <2>3. QED
    BY <2>2 DEF Request
<1>4. signatures' \in [Sessions -> Nat] /\ signatures'[s] <= 1
  BY <1>1 DEF IInv, TypeOK, FlowInv
<1>5. QED
  BY <1>1, <1>2, <1>3, <1>4, FundsAgain

-----------------------------------------------------------------------------
(* The retry loop. *)

LEMMA ClientMoves ==
  ASSUME IInv, NEW s \in Sessions, TypeOK', pc[s] = "waiting", pc'[s] \in {"waiting"} \union Ended,
         UNCHANGED <<request, serviceVars, flowVars, intent>>,
         \A t \in Sessions \ {s} : /\ pc'[t] = pc[t] /\ flight'[t] = flight[t]
                                   /\ current'[t] = current[t] /\ answer'[t] = answer[t],
         CopiesInv(s)', AnswerInv(s)',
         flight'[s] \in SUBSET flight[s] \/ request[s].ep.send # "once"
  PROVE  IInv'
<1>1. UNCHANGED <<performed, effects, remembered, flow, polls, signatures>>
  BY DEF serviceVars, flowVars
<1>2. Elsewhere(s) /\ Grown
  BY <1>1 DEF Elsewhere, Grown, IInv, TypeOK, GatewayTypeOK
<1>3. FlowInv(s)'
  BY <1>1 DEF IInv, FlowInv, At, Ended
<1>4. WorkInv(s)'
  <2>1. WorkInv(s) /\ performed[s] \in Nat
    BY DEF IInv, TypeOK, GatewayTypeOK
  <2>2. QED
    BY <1>1, <2>1 DEF WorkInv
<1>5. \A k \in KeyScopes : remembered[k] = None => KeptInv(k)'
  BY <1>1 DEF KeptInv
<1>6. flow[s].kind \in FundKinds /\ flow[s].stage = "done" => intent[s] = "funded"
  BY DEF IInv, ReturnedFunded, At
<1>7. QED
  BY <1>1, <1>2, <1>3, <1>4, <1>5, <1>6, Assembled

(* The same request goes out again. *)
LEMMA TriesAgain ==
  ASSUME IInv, NEW s \in Sessions, NEW left \in SUBSET flight[s], Cardinality(left) <= MaxLate,
         pc[s] = "waiting", ~LastAttempt(s), TryAgain(s, left),
         cloudflare_retries' \in [Sessions -> 0..1],
         UNCHANGED <<serviceVars, flowVars, intent>>
  PROVE  IInv'
<1>1. /\ Send(s, request[s], left) /\ UNCHANGED request
      /\ attempt' = [attempt EXCEPT ![s] = @ + 1]
  BY DEF TryAgain
<1>2. request[s] \in Request
  BY DEF IInv, FlowInv
<1>3. IsFiniteSet(left)
  BY FS_Subset DEF IInv, CopiesInv
<1>4. attempt[s] + 1 < MaxRetries /\ request[s].ep.send # "once"
  BY MaxRetriesAssumption DEF LastAttempt, IInv, TypeOK, GatewayTypeOK
<1>5. TypeOK'
  <2>1. /\ pc' \in [Sessions -> {"idle", "waiting"} \union Ended]
        /\ flight' \in [Sessions -> SUBSET Copies]
        /\ current' \in [Sessions -> 1..(MaxLate + 1)]
        /\ answer' \in [Sessions -> Answer \union {None}]
    BY <1>1, <1>2, <1>3, SentType DEF IInv
  <2>2. attempt' \in [Sessions -> 0..(MaxRetries - 1)]
    BY <1>1, <1>4, MaxRetriesAssumption DEF IInv, TypeOK, GatewayTypeOK
  <2>3. QED
    BY <1>1, <2>1, <2>2 DEF IInv, TypeOK, GatewayTypeOK, serviceVars, flowVars
<1>6. CopiesInv(s)'
  BY <1>1, <1>2, SentCopies DEF IInv, Follows
<1>7. pc'[s] = "waiting" /\ answer'[s] = None
  BY <1>1 DEF Send, IInv, TypeOK, GatewayTypeOK
<1>8. AnswerInv(s)'
  BY <1>7 DEF AnswerInv
<1>9. \A t \in Sessions \ {s} : /\ pc'[t] = pc[t] /\ flight'[t] = flight[t]
                                /\ current'[t] = current[t] /\ answer'[t] = answer[t]
  BY <1>1 DEF Send, IInv, TypeOK, GatewayTypeOK
<1>10. QED
  BY <1>1, <1>4, <1>5, <1>6, <1>7, <1>8, <1>9, ClientMoves

LEMMA TransportErrorInv ==
  ASSUME IInv, NEW s \in Sessions, TransportError(s), UNCHANGED <<flowVars, intent>>
  PROVE  IInv'
<1>1. PICK left \in {flight[s], {m \in flight[s] : m.n # current[s]}} :
        /\ Cardinality(left) <= MaxLate
        /\ \/ /\ LastAttempt(s)
              /\ pc' = [pc EXCEPT ![s] = "raised"]
              /\ flight' = [flight EXCEPT ![s] = left]
              /\ answer' = [answer EXCEPT ![s] = None]
              /\ UNCHANGED <<request, attempt, current>>
           \/ ~LastAttempt(s) /\ TryAgain(s, left)
  BY DEF TransportError
<1>2. /\ pc[s] = "waiting" /\ UNCHANGED <<cloudflare_retries, serviceVars>>
      /\ left \in SUBSET flight[s]
  BY DEF TransportError
<1>3. CASE ~LastAttempt(s) /\ TryAgain(s, left)
  BY <1>1, <1>2, <1>3, TriesAgain DEF IInv, TypeOK, GatewayTypeOK
<1>4. CASE /\ pc' = [pc EXCEPT ![s] = "raised"]
           /\ flight' = [flight EXCEPT ![s] = left]
           /\ answer' = [answer EXCEPT ![s] = None]
           /\ UNCHANGED <<request, attempt, current>>
  <2>1. TypeOK'
    <3>1. flight' \in [Sessions -> SUBSET Copies]
      BY <1>2, <1>4 DEF IInv, TypeOK, GatewayTypeOK
    <3>2. /\ pc' \in [Sessions -> {"idle", "waiting"} \union Ended]
          /\ answer' \in [Sessions -> Answer \union {None}]
      BY <1>4 DEF IInv, TypeOK, GatewayTypeOK, Ended
    <3>3. QED
      BY <1>2, <1>4, <3>1, <3>2 DEF IInv, TypeOK, GatewayTypeOK, serviceVars, flowVars
  <2>2. pc'[s] = "raised" /\ flight'[s] = left
    BY <1>4 DEF IInv, TypeOK, GatewayTypeOK
  <2>3. CopiesInv(s)'
    <3>1. CopiesInv(s) /\ IsFiniteSet(left)
      BY <1>2, FS_Subset DEF IInv, CopiesInv
    <3>2. Late(s)' = left
      BY <2>2 DEF Late
    <3>3. QED
      BY <1>1, <1>2, <1>4, <2>2, <3>1, <3>2 DEF CopiesInv
  <2>4. AnswerInv(s)'
    BY <2>2 DEF AnswerInv
  <2>5. \A t \in Sessions \ {s} : /\ pc'[t] = pc[t] /\ flight'[t] = flight[t]
                                  /\ current'[t] = current[t] /\ answer'[t] = answer[t]
    BY <1>4 DEF IInv, TypeOK, GatewayTypeOK
  <2>6. QED
    BY <1>2, <1>4, <2>1, <2>2, <2>3, <2>4, <2>5, ClientMoves DEF Ended
<1>5. QED
  BY <1>1, <1>3, <1>4

LEMMA RetryResponseInv ==
  ASSUME IInv, NEW s \in Sessions, RetryResponse(s), UNCHANGED <<flowVars, intent>>
  PROVE  IInv'
<1>1. /\ pc[s] = "waiting" /\ answer[s] # None /\ ~LastAttempt(s)
      /\ edge_error(s) => cloudflare_retries[s] = 0
      /\ TryAgain(s, flight[s]) /\ UNCHANGED serviceVars
      /\ cloudflare_retries' = [cloudflare_retries EXCEPT ![s] = IF edge_error(s) THEN @ + 1 ELSE @]
  BY DEF RetryResponse, retries_response
<1>2. Late(s) = flight[s] /\ Cardinality(Late(s)) <= MaxLate
  BY <1>1 DEF IInv, CopiesInv, Late
<1>3. cloudflare_retries' \in [Sessions -> 0..1]
  BY <1>1 DEF IInv, TypeOK, GatewayTypeOK
<1>4. QED
  BY <1>1, <1>2, <1>3, TriesAgain

LEMMA FinishCallInv ==
  ASSUME IInv, NEW s \in Sessions, FinishCall(s), UNCHANGED <<flowVars, intent>>
  PROVE  IInv'
<1>1. /\ pc[s] = "waiting" /\ answer[s] # None
      /\ pc' = [pc EXCEPT ![s] = outcome(request[s].ep, answer[s])]
      /\ UNCHANGED <<request, attempt, cloudflare_retries, current, flight, answer, serviceVars>>
  BY DEF FinishCall
<1>2. outcome(request[s].ep, answer[s]) \in Ended
  BY DEF outcome, Ended
<1>3. TypeOK'
  <2>1. pc' \in [Sessions -> {"idle", "waiting"} \union Ended]
    BY <1>1, <1>2 DEF IInv, TypeOK, GatewayTypeOK
  <2>2. QED
    BY <1>1, <2>1 DEF IInv, TypeOK, GatewayTypeOK, serviceVars, flowVars
<1>4. pc'[s] = outcome(request[s].ep, answer[s])
  BY <1>1 DEF IInv, TypeOK, GatewayTypeOK
<1>5. CopiesInv(s)'
  <2>1. CopiesInv(s) /\ pc'[s] # "waiting"
    BY <1>2, <1>4 DEF IInv, Ended
  <2>2. Late(s)' = flight[s] /\ Late(s) = flight[s]
    BY <1>1, <2>1 DEF Late, CopiesInv
  <2>3. QED
    BY <1>1, <2>1, <2>2 DEF CopiesInv
<1>6. AnswerInv(s)'
  <2>1. pc'[s] = "returned" =>
          /\ answer[s].foreign \intersect request[s].ep.checks = {}
          /\ answer[s].status \in request[s].ep.accepts
    BY <1>4 DEF outcome
  <2>2. WorkDone(s)' = WorkDone(s) /\ AnswerInv(s)
    BY <1>1 DEF WorkDone, serviceVars, IInv
  <2>3. QED
    BY <1>1, <2>1, <2>2 DEF AnswerInv
<1>7. QED
  BY <1>1, <1>2, <1>3, <1>4, <1>5, <1>6, ClientMoves DEF IInv, TypeOK, GatewayTypeOK

-----------------------------------------------------------------------------
(* The service answers a copy. *)

(* What an answer a to request r of session s may say, after the step.     *)
Truthful(s, r, a) == a.foreign = {} =>
  IF r.fund = None
  THEN r.ep.effect /\ a.status \in Success =>
         performed'[s] > 0 \/ (r.key # None /\ effects'[Scope(r)] > 0)
  ELSE Complete(a) => intent'[s] = "funded"

(* The work of request r is done, or nothing is.                           *)
Worked(s, r) ==
  \/ performed'[s] = performed[s]
  \/ /\ performed'[s] = performed[s] + 1 /\ r.fund = None /\ r.ep.effect
     /\ r.key # None => remembered[Scope(r)] = None /\ remembered'[Scope(r)] # None

LEMMA Responds ==
  ASSUME IInv, NEW s \in Sessions, NEW m \in flight[s], NEW a \in Answer, Respond(s, m, a),
         UNCHANGED <<clientVars, flowVars>>, Grown,
         performed' \in [Sessions -> Nat], effects' \in [KeyScopes -> Nat],
         remembered' \in [KeyScopes -> Kept \union {None}],
         intent' \in [Sessions -> {"open", "settling", "funded", "failed"}],
         \A t \in Sessions \ {s} : performed'[t] = performed[t] /\ intent'[t] = intent[t],
         intent[s] = "funded" => intent'[s] = "funded",
         Truthful(s, m.request, a), Worked(s, m.request),
         \A k \in KeyScopes : remembered[k] = None => KeptInv(k)'
  PROVE  IInv'
<1>1. UNCHANGED <<pc, request, attempt, cloudflare_retries, current, flow, polls, signatures>>
  BY DEF clientVars, flowVars
<1>2. /\ flight' = [flight EXCEPT ![s] = @ \ {m}]
      /\ answer' = [answer EXCEPT ![s] = IF pc[s] = "waiting" /\ m.n = current[s] THEN a ELSE @]
  BY DEF Respond
<1>3. TypeOK'
  <2>1. flight' \in [Sessions -> SUBSET Copies]
    BY <1>2 DEF IInv, TypeOK, GatewayTypeOK
  <2>2. answer' \in [Sessions -> Answer \union {None}]
    BY <1>2 DEF IInv, TypeOK, GatewayTypeOK
  <2>3. QED
    BY <1>1, <2>1, <2>2 DEF IInv, TypeOK, GatewayTypeOK
<1>4. /\ flight'[s] = flight[s] \ {m}
      /\ answer'[s] = IF pc[s] = "waiting" /\ m.n = current[s] THEN a ELSE answer[s]
  BY <1>2 DEF IInv, TypeOK, GatewayTypeOK
<1>5. Elsewhere(s)
  BY <1>1, <1>2 DEF Elsewhere, IInv, TypeOK, GatewayTypeOK
<1>6. CopiesInv(s) /\ FlowInv(s) /\ WorkInv(s) /\ AnswerInv(s)
  BY DEF IInv
<1>7. CopiesInv(s)'
  <2>1. IsFiniteSet(flight'[s])
    BY <1>4, <1>6, FS_Subset DEF CopiesInv
  <2>2. Cardinality(Late(s)') <= MaxLate
    <3>1. Late(s)' \in SUBSET Late(s) /\ Late(s) \in SUBSET flight[s]
      BY <1>1, <1>4 DEF Late
    <3>2. IsFiniteSet(Late(s)) /\ IsFiniteSet(Late(s)')
      BY <1>6, <3>1, FS_Subset DEF CopiesInv
    <3>3. Cardinality(Late(s)') <= Cardinality(Late(s))
      BY <3>1, <3>2, FS_Subset
    <3>4. Cardinality(Late(s)') \in Nat /\ Cardinality(Late(s)) \in Nat
      BY <3>2, FS_CardinalityType
    <3>5. QED
      BY <1>6, <3>3, <3>4, MaxLateAssumption DEF CopiesInv
  <2>3. ASSUME NEW c \in flight'[s], pc[s] = "waiting", c.n = current[s]
        PROVE  m.n # current[s]
    BY <1>4, <1>6, <2>3 DEF CopiesInv
  <2>4. QED
    BY <1>1, <1>4, <1>6, <2>1, <2>2, <2>3 DEF CopiesInv
<1>8. FlowInv(s)'
  <2>1. pc[s] # "idle"
    BY <1>6 DEF FlowInv
  <2>2. QED
    BY <1>1, <1>6, <2>1 DEF FlowInv, At
<1>9. pc[s] # "idle" /\ request[s] \in Request /\ performed[s] \in Nat /\ performed'[s] \in Nat
  BY <1>6 DEF FlowInv, IInv, TypeOK, GatewayTypeOK
<1>10. /\ (m.request.fund = None) = (request[s].fund = None)
       /\ m.request.ep.effect =>
            /\ Scope(m.request) = Scope(request[s])
            /\ m.request.ep = request[s].ep /\ m.request.key = request[s].key
  BY <1>6 DEF CopiesInv, Scope
<1>11. request[s].key # None => Scope(request[s]) \in KeyScopes
  BY <1>9 DEF Request, Scope, KeyScopes
<1>12. WorkInv(s)'
  <2>1. CASE performed'[s] = performed[s]
    <3>1. performed[s] > 0 /\ flight[s] = {} => flight'[s] = {}
      BY <1>4
    <3>2. QED
      BY <1>1, <1>4, <1>6, <1>9, <1>11, <2>1, <3>1 DEF WorkInv, Grown
  <2>2. CASE performed'[s] # performed[s]
    <3>1. /\ performed'[s] = performed[s] + 1 /\ request[s].fund = None /\ request[s].ep.effect
          /\ request[s].key # None =>
               remembered[Scope(request[s])] = None /\ remembered'[Scope(request[s])] # None
      BY <1>10, <2>2 DEF Worked
    <3>2. request[s].key # None => performed[s] = 0
      BY <1>6, <1>9, <3>1 DEF WorkInv
    <3>3. request[s].ep.send = "once" => performed[s] = 0 /\ flight'[s] = {}
      BY <1>4, <1>6, <1>9 DEF WorkInv
    <3>4. QED
      BY <1>1, <1>6, <1>9, <3>1, <3>2, <3>3 DEF WorkInv
  <2>3. QED
    BY <2>1, <2>2
<1>13. AnswerInv(s)'
  <2>1. CASE pc[s] = "waiting" /\ m.n = current[s]
    <3>1. answer'[s] = a /\ m.request = request[s]
      BY <1>4, <1>6, <2>1 DEF CopiesInv
    <3>2. QED
      BY <1>1, <2>1, <3>1 DEF AnswerInv, Truthful, WorkDone
  <2>2. CASE ~(pc[s] = "waiting" /\ m.n = current[s])
    <3>1. answer'[s] = answer[s]
      BY <1>4, <2>2
    <3>2. WorkDone(s) => WorkDone(s)'
      <4>1. effects \in [KeyScopes -> Nat] /\ performed[s] <= performed'[s]
        BY <1>9 DEF IInv, TypeOK, GatewayTypeOK, Worked
      <4>2. QED
        BY <1>1, <1>9, <1>11, <4>1 DEF WorkDone, Grown
    <3>3. QED
      BY <1>1, <1>6, <3>1, <3>2 DEF AnswerInv
  <2>3. QED
    BY <2>1, <2>2
<1>14. flow[s].kind \in FundKinds /\ flow[s].stage = "done" => intent[s] = "funded"
  BY DEF IInv, ReturnedFunded, At
<1>15. QED
  BY <1>1, <1>3, <1>5, <1>7, <1>8, <1>12, <1>13, <1>14, Assembled

(* A copy carries a request. *)
LEMMA CopyRequest ==
  ASSUME IInv, NEW s \in Sessions, NEW m \in flight[s]
  PROVE  /\ m.request \in Request
         /\ m.request.key # None => Scope(m.request) \in KeyScopes
<1>1. m \in Copies
  BY DEF IInv, TypeOK, GatewayTypeOK
<1>2. QED
  BY <1>1 DEF Copies, Request, Scope, KeyScopes

(* An answer that leaves the service's state alone. *)
LEMMA RespondsOnly ==
  ASSUME IInv, NEW s \in Sessions, NEW m \in flight[s], NEW a \in Answer, Respond(s, m, a),
         UNCHANGED <<clientVars, serviceVars, flowVars, intent>>, Truthful(s, m.request, a)
  PROVE  IInv'
<1>1. UNCHANGED <<performed, effects, remembered, intent>>
  BY DEF serviceVars
<1>2. Grown /\ Worked(s, m.request)
  BY <1>1 DEF Grown, Worked, IInv, TypeOK, GatewayTypeOK
<1>3. \A k \in KeyScopes : remembered[k] = None => KeptInv(k)'
  BY <1>1 DEF KeptInv
<1>4. QED
  BY <1>1, <1>2, <1>3, Responds DEF IInv, TypeOK, GatewayTypeOK

LEMMA ReplyType ==
  ASSUME NEW status \in Statuses, NEW detail \in {None} \union Details
  PROVE  /\ Reply(status) \in Answer /\ FundReply(status, detail) \in Answer
         /\ Reply(status).status = status /\ ~Complete(Reply(status))
         /\ \A part \in Echoed :
              [status |-> status, foreign |-> {part}, detail |-> detail] \in Answer
BY NoneAssumption DEF Reply, FundReply, Answer, Complete, Details

LEMMA TurnAwayInv ==
  ASSUME IInv, NEW s \in Sessions, TurnAway(s), UNCHANGED <<flowVars, intent>>
  PROVE  IInv'
<1>1. PICK m \in flight[s] :
        \/ \E status \in Retryable : Respond(s, m, Reply(status))
        \/ \E part \in Echoed :
             Respond(s, m, [status |-> "ok", foreign |-> {part}, detail |-> "funded"])
  BY DEF TurnAway
<1>2. UNCHANGED <<clientVars, serviceVars>>
  BY DEF TurnAway
<1>3. ASSUME NEW status \in Retryable, Respond(s, m, Reply(status))
      PROVE  IInv'
  <2>1. /\ Reply(status) \in Answer /\ ~Complete(Reply(status))
        /\ Reply(status).status \notin Success
    BY ReplyType DEF Statuses, Retryable, Success
  <2>2. Truthful(s, m.request, Reply(status))
    BY <2>1 DEF Truthful
  <2>3. QED
    BY <1>2, <1>3, <2>1, <2>2, RespondsOnly
<1>4. ASSUME NEW part \in Echoed,
             Respond(s, m, [status |-> "ok", foreign |-> {part}, detail |-> "funded"])
      PROVE  IInv'
  <2> DEFINE a == [status |-> "ok", foreign |-> {part}, detail |-> "funded"]
  <2>1. a \in Answer
    BY ReplyType DEF Statuses, Details
  <2>2. Truthful(s, m.request, a)
    BY DEF Truthful
  <2>3. QED
    BY <1>2, <1>4, <2>1, <2>2, RespondsOnly
<1>5. QED
  BY <1>1, <1>3, <1>4

LEMMA ReplayKeyInv ==
  ASSUME IInv, NEW s \in Sessions, ReplayKey(s), UNCHANGED <<flowVars, intent>>
  PROVE  IInv'
<1> DEFINE kept(m) == remembered[Scope(m.request)]
<1>1. PICK m \in flight[s] :
        /\ Known(m.request)
        /\ IF kept(m).body = m.request.body
           THEN \E parts \in Misdirected(s, m.request, kept(m)) :
                  Respond(s, m, [kept(m).answer EXCEPT !.foreign = parts])
           ELSE Respond(s, m, Reply("conflict"))
  BY DEF ReplayKey
<1>2. UNCHANGED <<clientVars, serviceVars>>
  BY DEF ReplayKey
<1>3. /\ m.request \in Request /\ m.request.key # None /\ Scope(m.request) \in KeyScopes
      /\ kept(m) # None /\ kept(m) \in Kept
  BY <1>1, CopyRequest DEF Known, IInv, TypeOK, GatewayTypeOK
<1>4. CASE Respond(s, m, Reply("conflict"))
  <2>1. /\ Reply("conflict") \in Answer /\ ~Complete(Reply("conflict"))
        /\ Reply("conflict").status \notin Success
    BY ReplyType DEF Statuses, Success
  <2>2. Truthful(s, m.request, Reply("conflict"))
    BY <2>1 DEF Truthful
  <2>3. QED
    BY <1>2, <1>4, <2>1, <2>2, RespondsOnly
<1>5. ASSUME NEW parts \in Misdirected(s, m.request, kept(m)),
             Respond(s, m, [kept(m).answer EXCEPT !.foreign = parts])
      PROVE  IInv'
  <2> DEFINE a == [kept(m).answer EXCEPT !.foreign = parts]
  <2>1. parts \in SUBSET Echoed
    BY DEF Misdirected, Echoed
  <2>2. kept(m).answer \in Answer
    BY <1>3 DEF Kept
  <2>3. /\ a \in Answer /\ a.foreign = parts
        /\ a.status = kept(m).answer.status /\ a.detail = kept(m).answer.detail
    BY <2>1, <2>2 DEF Answer
  <2>4. Truthful(s, m.request, a)
    <3>1. SUFFICES ASSUME parts = {}
                   PROVE  IF m.request.fund = None
                          THEN effects[Scope(m.request)] > 0
                          ELSE Complete(a) => intent[s] = "funded"
      BY <1>2, <1>3, <2>3 DEF Truthful, serviceVars
    <3>2. KeptInv(Scope(m.request)) /\ FlowInv(s) /\ CopiesInv(s) /\ pc[s] # "idle"
      BY <1>3 DEF IInv, FlowInv
    <3>3. (m.request.fund # None) = (flow[s].kind \in FundKinds)
      BY <3>2 DEF FlowInv, CopiesInv
    <3>4. CASE kept(m).by = s
      BY <1>3, <2>3, <3>2, <3>3, <3>4 DEF KeptInv, Complete
    <3>5. CASE kept(m).by # s
      <4>1. ~kept(m).funding /\ m.request.fund = None
        BY <3>1, <3>5 DEF Misdirected
      <4>2. QED
        BY <1>3, <3>2, <4>1 DEF KeptInv
    <3>6. QED
      BY <3>4, <3>5
  <2>5. QED
    BY <1>2, <1>5, <2>3, <2>4, RespondsOnly
<1>6. QED
  BY <1>1, <1>4, <1>5

(* A response is kept with the key of its request. *)
LEMMA Keeps ==
  ASSUME IInv, NEW s \in Sessions, NEW r \in Request, NEW a \in Answer, r.key # None,
         remembered[Scope(r)] = None, Keep(s, r, a)
  PROVE  /\ remembered' \in [KeyScopes -> Kept \union {None}]
         /\ \A k \in KeyScopes : k # Scope(r) => remembered'[k] = remembered[k]
         /\ Scope(r) \in KeyScopes /\ remembered'[Scope(r)] # None
         /\ remembered'[Scope(r)].funding = (r.fund # None)
         /\ remembered'[Scope(r)].by = s /\ remembered'[Scope(r)].answer = a
<1> DEFINE new == [body |-> r.body, answer |-> a, by |-> s, funding |-> r.fund # None]
<1>1. new \in Kept
  BY DEF Kept, Request
<1>2. new # None
  BY <1>1, NoneAssumption
<1>3. Scope(r) \in KeyScopes
  BY DEF Scope, KeyScopes, Request
<1>4. remembered' = [remembered EXCEPT ![Scope(r)] = new]
  BY DEF Keep
<1>5. remembered \in [KeyScopes -> Kept \union {None}]
  BY DEF IInv, TypeOK, GatewayTypeOK
<1>6. remembered'[Scope(r)] = new
  BY <1>3, <1>4, <1>5
<1> HIDE DEF new
<1>7. /\ remembered' \in [KeyScopes -> Kept \union {None}]
      /\ \A k \in KeyScopes : k # Scope(r) => remembered'[k] = remembered[k]
  BY <1>1, <1>3, <1>4, <1>5
<1>8. new.funding = (r.fund # None) /\ new.by = s /\ new.answer = a
  BY DEF new
<1>9. QED
  BY <1>2, <1>3, <1>6, <1>7, <1>8

LEMMA WorkInvolved ==
  ASSUME IInv, NEW s \in Sessions, NEW m \in flight[s], m.request.fund = None,
         ~Known(m.request), m.request.ep.effect, NEW status \in Success,
         Work(s, m.request, Reply(status)), NEW a \in {Reply(status), Reply("busy")},
         Respond(s, m, a), UNCHANGED <<clientVars, flowVars, intent>>
  PROVE  IInv'
<1> DEFINE r == m.request
<1>1. r \in Request /\ (r.key # None => remembered[Scope(r)] = None /\ Scope(r) \in KeyScopes)
  BY CopyRequest DEF Known
<1>2. Reply(status) \in Answer /\ a \in Answer
  BY ReplyType DEF Success, Statuses, Retryable
<1>3. /\ performed' = [performed EXCEPT ![s] = @ + 1]
      /\ effects' = IF r.key = None THEN effects ELSE [effects EXCEPT ![Scope(r)] = @ + 1]
      /\ IF r.key = None THEN UNCHANGED remembered ELSE Keep(s, r, Reply(status))
  BY DEF Work
<1>4. /\ performed' \in [Sessions -> Nat] /\ performed'[s] = performed[s] + 1
      /\ performed'[s] > 0 /\ \A t \in Sessions \ {s} : performed'[t] = performed[t]
  BY <1>3 DEF IInv, TypeOK, GatewayTypeOK
<1>5. /\ effects' \in [KeyScopes -> Nat]
      /\ \A k \in KeyScopes : effects[k] <= effects'[k]
      /\ r.key # None => effects'[Scope(r)] > 0
  BY <1>1, <1>3 DEF IInv, TypeOK, GatewayTypeOK
<1>6. /\ remembered' \in [KeyScopes -> Kept \union {None}]
      /\ \A k \in KeyScopes : remembered[k] # None => remembered'[k] = remembered[k]
      /\ r.key # None => remembered'[Scope(r)] # None
  BY <1>1, <1>2, <1>3, Keeps DEF IInv, TypeOK, GatewayTypeOK
<1>7. Grown /\ Worked(s, r) /\ Truthful(s, r, a)
  BY <1>1, <1>4, <1>5, <1>6 DEF Grown, Worked, Truthful
<1>8. flow[s].kind \notin FundKinds
  BY DEF IInv, CopiesInv, FlowInv
<1>9. ASSUME NEW k \in KeyScopes, remembered[k] = None
      PROVE  KeptInv(k)'
  <2>1. CASE remembered'[k] = None
    BY <2>1 DEF KeptInv
  <2>2. CASE remembered'[k] # None
    <3>1. r.key # None /\ k = Scope(r)
      BY <1>1, <1>2, <1>3, <1>9, <2>2, Keeps
    <3>2. /\ remembered'[k].funding = (m.request.fund # None)
          /\ remembered'[k].by = s /\ effects'[k] > 0
      BY <1>1, <1>2, <1>3, <1>5, <3>1, Keeps
    <3>3. flow' = flow /\ ~remembered'[k].funding
      BY <3>2 DEF flowVars
    <3>4. QED
      BY <1>8, <3>2, <3>3 DEF KeptInv
  <2>3. QED
    BY <2>1, <2>2
<1>10. QED
  BY <1>2, <1>4, <1>5, <1>6, <1>7, <1>9, Responds DEF IInv, TypeOK

LEMMA PerformInv ==
  ASSUME IInv, NEW s \in Sessions, Perform(s), UNCHANGED <<flowVars, intent>>
  PROVE  IInv'
<1>1. PICK m \in flight[s] :
        /\ m.request.fund = None
        /\ ~Known(m.request)
        /\ \/ /\ m.request.ep.effect
              /\ \E status \in Success :
                   /\ Work(s, m.request, Reply(status))
                   /\ \E a \in {Reply(status), Reply("busy")} : Respond(s, m, a)
           \/ /\ ~m.request.ep.effect
              /\ Respond(s, m, Reply("ok"))
              /\ UNCHANGED serviceVars
           \/ /\ \E status \in {"missing", "refused", "challenge"} : Respond(s, m, Reply(status))
              /\ UNCHANGED serviceVars
  BY DEF Perform
<1>2. UNCHANGED clientVars
  BY DEF Perform
<1>3. ASSUME NEW status \in {"ok", "missing", "refused", "challenge"},
             Respond(s, m, Reply(status)),
             UNCHANGED serviceVars, m.request.ep.effect => status # "ok"
      PROVE  IInv'
  <2>1. Reply(status) \in Answer /\ Reply(status).status = status
    BY ReplyType DEF Statuses
  <2>2. Truthful(s, m.request, Reply(status))
    BY <1>1, <1>3, <2>1 DEF Truthful, Success
  <2>3. QED
    BY <1>2, <1>3, <2>1, <2>2, RespondsOnly
<1>4. QED
  BY <1>1, <1>2, <1>3, WorkInvolved

-----------------------------------------------------------------------------
(* Harbor's fund operation. *)

LEMMA FundRepliesTrue ==
  ASSUME NEW state \in {"open", "settling", "funded", "failed"}, NEW a \in FundReplies(state)
  PROVE  a \in Answer /\ (Complete(a) => state = "funded")
<1>1. a \in Answer
  BY ReplyType DEF FundReplies, Statuses, Success, Details
<1>2. Complete(a) => state = "funded"
  BY NoneAssumption DEF FundReplies, FundReply, Complete, Details
<1>3. QED
  BY <1>1, <1>2

LEMMA HarborFundInv ==
  ASSUME IInv, NEW s \in Sessions, HarborFund(s)
  PROVE  IInv'
<1> DEFINE afters(m) ==
             IF intent[s] = "open" /\ m.request.fund = "signed"
             THEN {"open", "settling", "funded"} ELSE {intent[s]}
<1>1. PICK m \in flight[s] :
        /\ m.request.fund # None /\ ~Known(m.request)
        /\ \E after \in afters(m) :
             /\ intent' = [intent EXCEPT ![s] = after]
             /\ \E a \in FundReplies(after) :
                  /\ \E sent \in {a, Reply("busy")} : Respond(s, m, sent)
                  /\ \/ m.request.key # None /\ Keep(s, m.request, a)
                     \/ UNCHANGED remembered
  BY DEF HarborFund
<1>2. PICK after \in afters(m) :
        /\ intent' = [intent EXCEPT ![s] = after]
        /\ \E a \in FundReplies(after) :
             /\ \E sent \in {a, Reply("busy")} : Respond(s, m, sent)
             /\ \/ m.request.key # None /\ Keep(s, m.request, a)
                \/ UNCHANGED remembered
  BY <1>1
<1>3. PICK a \in FundReplies(after) :
        /\ \E sent \in {a, Reply("busy")} : Respond(s, m, sent)
        /\ \/ m.request.key # None /\ Keep(s, m.request, a)
           \/ UNCHANGED remembered
  BY <1>2
<1>4. PICK sent \in {a, Reply("busy")} : Respond(s, m, sent)
  BY <1>3
<1>5. UNCHANGED <<clientVars, performed, effects, flowVars>>
  BY DEF HarborFund
<1>6. after \in {"open", "settling", "funded", "failed"} /\ (intent[s] = "funded" => after = "funded")
  BY DEF IInv, TypeOK
<1>7. /\ intent' \in [Sessions -> {"open", "settling", "funded", "failed"}]
      /\ intent'[s] = after /\ \A t \in Sessions \ {s} : intent'[t] = intent[t]
  BY <1>2, <1>6 DEF IInv, TypeOK
<1>8. a \in Answer /\ (Complete(a) => after = "funded")
  BY <1>6, FundRepliesTrue
<1>9. sent \in Answer /\ (Complete(sent) => after = "funded")
  BY <1>4, <1>8, ReplyType DEF Statuses, Retryable
<1>10. /\ m.request \in Request
       /\ m.request.key # None => remembered[Scope(m.request)] = None
  BY <1>1, CopyRequest DEF Known
<1>11. /\ remembered' \in [KeyScopes -> Kept \union {None}]
       /\ \A k \in KeyScopes : remembered[k] # None => remembered'[k] = remembered[k]
  BY <1>3, <1>8, <1>10, Keeps DEF IInv, TypeOK, GatewayTypeOK
<1>12. Grown /\ Worked(s, m.request) /\ Truthful(s, m.request, sent)
  BY <1>1, <1>5, <1>7, <1>9, <1>11
  DEF Grown, Worked, Truthful, IInv, TypeOK, GatewayTypeOK
<1>13. flow[s].kind \in FundKinds
  BY <1>1 DEF IInv, CopiesInv, FlowInv
<1>14. ASSUME NEW k \in KeyScopes, remembered[k] = None
       PROVE  KeptInv(k)'
  <2>1. CASE remembered'[k] = None
    BY <2>1 DEF KeptInv
  <2>2. CASE remembered'[k] # None
    <3>1. m.request.key # None /\ Keep(s, m.request, a)
      BY <1>3, <1>14, <2>2
    <3>2. /\ k = Scope(m.request) /\ remembered'[k].funding = (m.request.fund # None)
          /\ remembered'[k].by = s /\ remembered'[k].answer = a
      BY <1>8, <1>10, <1>14, <2>2, <3>1, Keeps
    <3>3. flow' = flow /\ remembered'[k].funding
      BY <1>1, <1>5, <3>2 DEF flowVars
    <3>4. QED
      BY <1>7, <1>8, <1>13, <3>2, <3>3 DEF KeptInv
  <2>3. QED
    BY <2>1, <2>2
<1>15. QED
  BY <1>4, <1>5, <1>6, <1>7, <1>9, <1>11, <1>12, <1>14, Responds DEF IInv, TypeOK, GatewayTypeOK

LEMMA SettleInv ==
  ASSUME IInv, NEW s \in Sessions, Settle(s)
  PROVE  IInv'
<1>1. PICK after \in {"funded", "failed"} : intent' = [intent EXCEPT ![s] = after]
  BY DEF Settle
<1>2. /\ intent[s] = "settling"
      /\ UNCHANGED <<pc, request, attempt, cloudflare_retries, current, flight, answer>>
      /\ UNCHANGED <<performed, effects, remembered, flow, polls, signatures>>
  BY DEF Settle, gatewayVars, clientVars, serviceVars, flowVars
<1>3. TypeOK'
  BY <1>1, <1>2 DEF IInv, TypeOK, GatewayTypeOK
<1>4. \A t \in Sessions \ {s} : intent'[t] = intent[t]
  BY <1>1 DEF IInv, TypeOK
<1>5. Elsewhere(s) /\ Grown
  BY <1>2, <1>4 DEF Elsewhere, Grown, IInv, TypeOK, GatewayTypeOK
<1>6. CopiesInv(s)'
  <2>1. CopiesInv(s) /\ Late(s)' = Late(s)
    BY <1>2 DEF IInv, Late
  <2>2. QED
    BY <1>2, <2>1 DEF CopiesInv
<1>7. FlowInv(s)'
  BY <1>2 DEF IInv, FlowInv, At
<1>8. WorkInv(s)'
  BY <1>2 DEF IInv, WorkInv
<1>9. AnswerInv(s)'
  BY <1>2 DEF IInv, AnswerInv, WorkDone
<1>10. flow[s].kind \in FundKinds => flow[s].stage # "done"
  BY <1>2 DEF IInv, ReturnedFunded, At
<1>11. \A k \in KeyScopes : remembered[k] = None => KeptInv(k)'
  BY <1>2 DEF KeptInv
<1>12. QED
  BY <1>2, <1>3, <1>5, <1>6, <1>7, <1>8, <1>9, <1>10, <1>11, Assembled

-----------------------------------------------------------------------------
(* The theorems. *)

LEMMA InitInv == FlowInit => IInv
<1> SUFFICES ASSUME FlowInit PROVE IInv
  OBVIOUS
<1>1. Init
  BY DEF FlowInit
<1>2. TypeOK
  BY <1>1, MaxRetriesAssumption, MaxLateAssumption, MaxPollsAssumption
  DEF FlowInit, Init, TypeOK, GatewayTypeOK, Stages
<1>3. ASSUME NEW s \in Sessions
      PROVE  CopiesInv(s) /\ FlowInv(s) /\ WorkInv(s) /\ AnswerInv(s)
  <2>1. /\ pc[s] = "idle" /\ flight[s] = {} /\ performed[s] = 0 /\ signatures[s] = 0
        /\ flow[s].stage = "start"
    BY <1>1 DEF FlowInit, Init
  <2>2. Late(s) = {}
    BY <2>1 DEF Late
  <2>3. CopiesInv(s)
    BY <2>1, <2>2, FS_EmptySet, MaxLateAssumption DEF CopiesInv
  <2>4. QED
    BY <2>1, <2>3 DEF FlowInv, At, WorkInv, AnswerInv
<1>4. \A k \in KeyScopes : KeptInv(k)
  BY <1>1 DEF Init, KeptInv
<1>5. ReturnedFunded
  BY DEF FlowInit, ReturnedFunded, At
<1>6. QED
  BY <1>2, <1>3, <1>4, <1>5 DEF IInv

LEMMA StutterInv ==
  ASSUME IInv, UNCHANGED vars
  PROVE  IInv'
<1>1. /\ UNCHANGED <<pc, request, attempt, cloudflare_retries, current, flight, answer>>
      /\ UNCHANGED <<performed, effects, remembered, flow, polls, signatures, intent>>
  BY DEF vars, gatewayVars, clientVars, serviceVars, flowVars
<1>2. TypeOK' /\ ReturnedFunded'
  BY <1>1 DEF IInv, TypeOK, GatewayTypeOK, ReturnedFunded, At
<1>3. ASSUME NEW s \in Sessions
      PROVE  CopiesInv(s)' /\ FlowInv(s)' /\ WorkInv(s)' /\ AnswerInv(s)'
  <2>1. CopiesInv(s) /\ Late(s)' = Late(s)
    BY <1>1 DEF IInv, Late
  <2>2. CopiesInv(s)'
    BY <1>1, <2>1 DEF CopiesInv
  <2>3. FlowInv(s)'
    BY <1>1 DEF IInv, FlowInv, At
  <2>4. WorkInv(s)' /\ AnswerInv(s)'
    BY <1>1 DEF IInv, WorkInv, WorkDone, AnswerInv
  <2>5. QED
    BY <2>2, <2>3, <2>4
<1>4. \A k \in KeyScopes : KeptInv(k)'
  BY <1>1 DEF IInv, KeptInv
<1>5. QED
  BY <1>2, <1>3, <1>4 DEF IInv

LEMMA NextInv ==
  ASSUME IInv, [Next]_vars
  PROVE  IInv'
<1>1. ASSUME NEW s \in Sessions, Begin(s)
      PROVE  IInv'
  BY <1>1, CallOnceInv, CallAgainInv, BeginFundingInv, BeginAchInv DEF Begin
<1>2. ASSUME NEW s \in Sessions, FlowStep(s)
      PROVE  IInv'
  BY <1>2, LeaveInv, BankReadInv, ChallengeInv, SignInv, FundingEndsInv, PollInv DEF FlowStep
<1>3. ASSUME NEW s \in Sessions, ClientStep(s), UNCHANGED <<flowVars, intent>>
      PROVE  IInv'
  BY <1>3, TransportErrorInv, RetryResponseInv, FinishCallInv DEF ClientStep
<1>4. ASSUME NEW s \in Sessions, ServiceStep(s), UNCHANGED <<flowVars, intent>>
      PROVE  IInv'
  BY <1>4, TurnAwayInv, ReplayKeyInv, PerformInv DEF ServiceStep
<1>5. QED
  BY <1>1, <1>2, <1>3, <1>4, HarborFundInv, SettleInv, StutterInv DEF Next, Quiet

(* The invariant holds in every state of every behaviour. *)
THEOREM Inductive == Spec => []IInv
<1>1. IInv /\ [Next]_vars => IInv'
  BY NextInv
<1>2. QED
  BY InitInv, <1>1, PTL DEF Spec

(* Attempts, edge retries, polls and copies in flight stay within their    *)
(* bounds, and a number is always free for the next copy.                  *)
THEOREM TypeCorrect == Spec => []TypeOK
<1>1. IInv => TypeOK
  BY DEF IInv
<1>2. QED
  BY <1>1, Inductive, PTL

(* However many sessions share a key and however many copies come late,    *)
(* the service does the keyed work of a session's calls at most once.      *)
THEOREM KeyedOnce == Spec => []OneEffectPerKey
<1>1. IInv => OneEffectPerKey
  BY DEF IInv, OneEffectPerKey, WorkInv, FlowInv
<1>2. QED
  BY <1>1, Inductive, PTL

(* What _post_json_once and _put_json_once send is not done twice.         *)
THEOREM SentOnce == Spec => []OnceNotRepeated
<1>1. IInv => OnceNotRepeated
  BY DEF IInv, OnceNotRepeated, WorkInv, FlowInv
<1>2. QED
  BY <1>1, Inductive, PTL

(* A method that compares tenant and subject returns only when the work    *)
(* was done, for this session or under its key, or when it is fund_intent  *)
(* with a challenge or record_fraud_review_event with a 429.               *)
THEOREM ReturnsDone == Spec => []ReturnedIsDone
<1>1. ASSUME IInv, NEW s \in Sessions, pc[s] = "returned", request[s].fund = None,
             request[s].ep.effect, request[s].ep.checks = Echoed
      PROVE  WorkDone(s) \/ ReturnedUndone(s)
  <2>1. answer[s] # None /\ answer[s] \in Answer
    BY <1>1 DEF IInv, AnswerInv, TypeOK, GatewayTypeOK
  <2>2. answer[s].foreign = {} /\ answer[s].status \in request[s].ep.accepts
    BY <1>1, <2>1 DEF IInv, AnswerInv, Answer
  <2>3. CASE answer[s].status \in Success
    BY <1>1, <2>1, <2>2, <2>3 DEF IInv, AnswerInv
  <2>4. CASE answer[s].status \notin Success
    <3>1. request[s].ep \in Endpoints
      BY <1>1 DEF IInv, FlowInv, Request
    <3>2. QED
      BY <1>1, <2>2, <2>4, <3>1, EndpointAccepts DEF Accepts, ReturnedUndone
  <2>5. QED
    BY <2>3, <2>4
<1>2. IInv => ReturnedIsDone
  BY <1>1 DEF ReturnedIsDone, WorkDone
<1>3. QED
  BY <1>2, Inductive, PTL

(* A funding flow that returns has its intent funded, also when another    *)
(* session's flow used the same key.                                       *)
THEOREM ReturnsFunded == Spec => []ReturnedFunded
<1>1. IInv => ReturnedFunded
  BY DEF IInv
<1>2. QED
  BY <1>1, Inductive, PTL

(* A flow asks the payer for one credential. *)
THEOREM SignsOnce == Spec => []SignedOnce
<1>1. IInv => SignedOnce
  BY DEF IInv, FlowInv, SignedOnce
<1>2. QED
  BY <1>1, Inductive, PTL
=============================================================================
