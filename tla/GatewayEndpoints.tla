-------------------------- MODULE GatewayEndpoints --------------------------
(***************************************************************************)
(* The HTTP operations of the Harbor, Signal, fraud, A2A, protocol,        *)
(* guardrail, audit and Plaid clients, each reduced to what its method     *)
(* does around the request: how it is sent, whether the service changes    *)
(* state for it, whether the caller may give an idempotency key, which     *)
(* statuses are an answer rather than an error, and what the answer has    *)
(* to repeat.  A record is one way to treat a request: methods that treat  *)
(* it alike are the same record.                                           *)
(***************************************************************************)
EXTENDS Naturals

(* "limited" is 429, "busy" a 500, 502, 503 or 504 of the service, "edge"  *)
(* one whose body says cloudflare_error; "pending" is 202, "challenge"     *)
(* 402, "missing" 404, "conflict" 409, "refused" any other 4xx.            *)
Retryable == {"limited", "busy", "edge"}
Statuses == {"ok", "pending", "challenge", "missing", "conflict", "refused"} \union Retryable
Success == {"ok", "pending"}

(* send: "retried" by httpx_with_gateway_retries, "plain" by a loop that   *)
(* knows no edge errors, "once" not repeated at all.                       *)
(* absent: 404 is the answer None.  checks: the parts of the request the   *)
(* answer has to repeat, or the method raises.                             *)
Echoed == {"tenant", "subject"}
Endpoint ==
  [send : {"retried", "plain", "once"}, effect : BOOLEAN, key : BOOLEAN,
   absent : BOOLEAN, accepts : SUBSET Statuses, checks : SUBSET Echoed]

Read(checks) ==
  [send |-> "retried", effect |-> FALSE, key |-> FALSE, absent |-> FALSE,
   accepts |-> Success, checks |-> checks]
Lookup(checks) == [Read(checks) EXCEPT !.absent = TRUE]
Mutation(checks) == [Read(checks) EXCEPT !.effect = TRUE]
Keyed(checks) == [Mutation(checks) EXCEPT !.key = TRUE]
Once(checks) == [Mutation(checks) EXCEPT !.send = "once"]

(* HarborClient *)
Harbor_verify_capability == Keyed(Echoed)
Harbor_create_intent == Keyed({})
Harbor_fund_intent == [Keyed(Echoed) EXCEPT !.accepts = {"ok", "pending", "challenge"}]
Harbor_submit_evidence == Keyed(Echoed)
Harbor_confirm_settlement == Keyed({})
get_ledger_tip == Read({"tenant"})
get_ledger_authority == Read({"tenant"})
get_ledger_events == Read({"tenant"})
get_ledger_merkle_latest == Read({"tenant"})

(* GatewayHarborClient *)
get_intent == Read({"tenant"})
verify_capability == Keyed(Echoed)
complete_spend_decision == Mutation({})
validate_policy == Read({})
resolve_policy_effective == Read({})
create_intent == Keyed({})
fund_intent == [Keyed(Echoed) EXCEPT !.accepts = {"ok", "pending", "challenge"}]
submit_evidence == Keyed(Echoed)
confirm_settlement == Keyed({})

(* GatewaySignalClient *)
get_reputation_receipt == Lookup(Echoed)
get_portfolio_summary == Read({"tenant"})
get_signed_portfolio_artifact == Read({"tenant"})
get_operator_explanation == Lookup(Echoed)
get_operator_review_status == Lookup(Echoed)

(* GatewayFraudClient *)
get_fraud_assessment == Lookup(Echoed)
list_fraud_review_queue == Read({"tenant"})
get_fraud_metrics == Read({"tenant"})
get_fraud_release_gate_config == Read({"tenant"})
set_fraud_release_gate_mode == Once({"tenant"})
record_fraud_review_event == [Once(Echoed) EXCEPT !.accepts = Success \union {"limited"}]

(* GatewayA2AClient and GatewayProtocolClient *)
get_agent_card == Read({})
get_task_contracts == Read({})
get_task_contract == Read({})
import_agent_mandate_v1 == Mutation(Echoed)
get_settlement_receipt_v1 == Read(Echoed)
verify_protocol_receipt_v1 == Read({})
get_agent_receipt_v1_by_id == Read(Echoed)
get_agent_receipt_v1_by_intent_tool_call == Read({"tenant"})
verify_agent_receipt_v1 == Read({})
gateway_mutation == Keyed({})

(* GatewaySandboxGuardrailsClient *)
bootstrap_sandbox == Keyed({"tenant"})
submit_sandbox_evidence == Keyed(Echoed)

(* PaybondAuditExports *)
audit_get == [Read({}) EXCEPT !.send = "plain"]
audit_post == [Mutation({}) EXCEPT !.send = "plain"]

(* OperatorPlaidBankClient *)
list_bank_accounts == Read({})
get_bank_account == Read({"subject"})
fund_ach_intent == Keyed(Echoed)

Endpoints ==
  {Harbor_verify_capability, Harbor_create_intent, Harbor_fund_intent, Harbor_submit_evidence,
   Harbor_confirm_settlement, get_ledger_tip, get_ledger_authority, get_ledger_events,
   get_ledger_merkle_latest, get_intent, verify_capability, complete_spend_decision,
   validate_policy, resolve_policy_effective, create_intent, fund_intent, submit_evidence,
   confirm_settlement, get_reputation_receipt, get_portfolio_summary,
   get_signed_portfolio_artifact, get_operator_explanation, get_operator_review_status,
   get_fraud_assessment, list_fraud_review_queue, get_fraud_metrics,
   get_fraud_release_gate_config, set_fraud_release_gate_mode, record_fraud_review_event,
   get_agent_card, get_task_contracts, get_task_contract, import_agent_mandate_v1,
   get_settlement_receipt_v1, verify_protocol_receipt_v1, get_agent_receipt_v1_by_id,
   get_agent_receipt_v1_by_intent_tool_call, verify_agent_receipt_v1, gateway_mutation,
   bootstrap_sandbox, submit_sandbox_evidence, audit_get, audit_post, list_bank_accounts,
   get_bank_account, fund_ach_intent}
=============================================================================
