------------------------------ MODULE McpTools ------------------------------
(***************************************************************************)
(* The tools of the MCP server (mcp_server.py): what each is annotated as, *)
(* which scope a restricted key needs for it (mcp_scope_catalog.py), and   *)
(* what its handler does, with the gateway operation it asks for.          *)
(***************************************************************************)
EXTENDS GatewayEndpoints

CONSTANT None

(***************************************************************************)
(* PaybondMCPRuntime's requests.                                           *)
(***************************************************************************)
principal_get == Read({})
list_intents == Read({})
mcp_get_intent == Read({})
list_audit_exports == Read({})
get_audit_export == Read({})
get_a2a_agent_card == Read({})
get_a2a_task_contracts == Read({})
get_a2a_task_contract == Read({})
mcp_verify_capability == Mutation(Echoed)
spend_preflight == Read({})
bootstrap_sandbox_guardrail == Keyed({"tenant"})
submit_sandbox_guardrail_evidence == Keyed(Echoed)
verify_agent_mandate_v1 == Read({})
verify_agent_recognition_proof_v1 == Read({})
mcp_import_agent_mandate_v1 == Mutation(Echoed)
mcp_get_settlement_receipt_v1 == Read(Echoed)
mcp_verify_protocol_receipt_v1 == Read({})
mcp_get_agent_receipt_v1 == Read(Echoed)
gateway_harbor_mutation == Keyed({})

(***************************************************************************)
(* _mcp_tool_selection_metadata.  "live" moves money, "additive" changes   *)
(* state at the gateway, "read_only" does neither.                         *)
(***************************************************************************)
Annotated(read_only, additive, live) ==
  (read_only \X {"read_only"}) \union (additive \X {"additive"}) \union (live \X {"live"})

SpendAnnotations == Annotated(
  {"paybond_get_principal", "paybond_get_budget_remaining", "paybond_explain_policy"},
  {"paybond_verify_capability", "paybond_authorize_agent_spend"},
  {})

SandboxAnnotations == Annotated(
  {"paybond_validate_completion_evidence", "paybond_list_intents", "paybond_get_intent",
   "paybond_list_audit_exports", "paybond_get_audit_export"},
  {"paybond_bootstrap_sandbox_guardrail", "paybond_submit_sandbox_guardrail_evidence"},
  {})

StandingAnnotations == Annotated(
  {"paybond_get_reputation_receipt", "paybond_get_portfolio_summary"},
  {},
  {})

ReviewAnnotations == Annotated(
  {"paybond_get_signed_portfolio_artifact", "paybond_get_fraud_assessment"},
  {},
  {})

(* Mutant: the import of a mandate is annotated as its neighbours are.     *)
ProtocolAnnotationsImportReads == Annotated(
  {"paybond_get_fraud_metrics", "paybond_get_a2a_agent_card",
   "paybond_list_a2a_task_contracts", "paybond_get_a2a_task_contract",
   "paybond_verify_agent_mandate_v1", "paybond_verify_agent_recognition_proof_v1",
   "paybond_get_settlement_receipt_v1", "paybond_get_agent_receipt_v1",
   "paybond_import_agent_mandate_v1"},
  {}, {})

ProtocolAnnotations == Annotated(
  {"paybond_get_fraud_metrics", "paybond_get_a2a_agent_card",
   "paybond_list_a2a_task_contracts", "paybond_get_a2a_task_contract",
   "paybond_verify_agent_mandate_v1", "paybond_verify_agent_recognition_proof_v1",
   "paybond_get_settlement_receipt_v1", "paybond_get_agent_receipt_v1"},
  {"paybond_import_agent_mandate_v1"},
  {})

ReceiptAnnotations == Annotated(
  {"paybond_verify_agent_receipt_v1", "paybond_verify_protocol_receipt_v1"},
  {},
  {})

HarborAnnotations == Annotated(
  {},
  {"paybond_create_intent", "paybond_create_spend_intent", "paybond_submit_evidence",
   "paybond_submit_spend_evidence"},
  {"paybond_fund_intent", "paybond_confirm_settlement"})

annotations ==
  SpendAnnotations \union SandboxAnnotations \union StandingAnnotations
    \union ReviewAnnotations \union ProtocolAnnotations \union ReceiptAnnotations
    \union HarborAnnotations

(***************************************************************************)
(* The handlers.  does: "local" asks nobody, "principal" reads the         *)
(* principal, "ask" makes one request, "spend" is authorize_agent_spend,   *)
(* "mint" returns a capability token for the runtime to keep, "validate"   *)
(* and "submit" are the two sides of the evidence gate.                    *)
(***************************************************************************)
Tool(name, scope, level, does, asks, route) ==
  [name |-> name, scope |-> <<scope, level>>, does |-> does, asks |-> asks, route |-> route]

paybond_get_principal ==
  Tool("paybond_get_principal", "mcp.discovery", "read", "principal", principal_get,
       "GET:/v1/auth/principal")
paybond_verify_capability ==
  Tool("paybond_verify_capability", "mcp.spend", "write", "spend", mcp_verify_capability,
       "POST:/verify")
paybond_authorize_agent_spend ==
  Tool("paybond_authorize_agent_spend", "mcp.spend", "write", "spend", mcp_verify_capability,
       "POST:/verify")
paybond_get_budget_remaining ==
  Tool("paybond_get_budget_remaining", "mcp.discovery", "read", "ask", spend_preflight,
       "POST:/v1/spend/preflight")
paybond_explain_policy ==
  Tool("paybond_explain_policy", "mcp.discovery", "read", "ask", spend_preflight,
       "POST:/v1/spend/preflight")
paybond_bootstrap_sandbox_guardrail ==
  Tool("paybond_bootstrap_sandbox_guardrail", "mcp.sandbox", "write", "mint", bootstrap_sandbox_guardrail,
       "POST:/v1/sandbox/guardrails/bootstrap")
paybond_validate_completion_evidence ==
  Tool("paybond_validate_completion_evidence", "mcp.evidence", "read", "validate", None,
       None)
paybond_submit_sandbox_guardrail_evidence ==
  Tool("paybond_submit_sandbox_guardrail_evidence", "mcp.sandbox", "write", "submit", submit_sandbox_guardrail_evidence,
       "POST:/v1/sandbox/guardrails/:intent_id/evidence")
paybond_list_intents ==
  Tool("paybond_list_intents", "mcp.discovery", "read", "ask", list_intents,
       "GET:/harbor/operator/v1/intents")
paybond_get_intent ==
  Tool("paybond_get_intent", "mcp.discovery", "read", "ask", mcp_get_intent,
       "GET:/harbor/operator/v1/intents/:intent_id")
paybond_list_audit_exports ==
  Tool("paybond_list_audit_exports", "mcp.compliance", "read", "ask", list_audit_exports,
       "GET:/v1/compliance/audit-exports")
paybond_get_audit_export ==
  Tool("paybond_get_audit_export", "mcp.compliance", "read", "ask", get_audit_export,
       "GET:/v1/compliance/audit-exports/:job_id")
paybond_get_reputation_receipt ==
  Tool("paybond_get_reputation_receipt", "mcp.signal", "read", "ask", get_reputation_receipt,
       "GET:/reputation/:operator_did")
paybond_get_portfolio_summary ==
  Tool("paybond_get_portfolio_summary", "mcp.signal", "read", "ask", get_portfolio_summary,
       "GET:/signal/v1/portfolio/summary")
paybond_get_signed_portfolio_artifact ==
  Tool("paybond_get_signed_portfolio_artifact", "mcp.signal", "read", "ask", get_signed_portfolio_artifact,
       "GET:/signal/v1/portfolio/signed-export")
paybond_get_fraud_assessment ==
  Tool("paybond_get_fraud_assessment", "mcp.signal", "read", "ask", get_fraud_assessment,
       "GET:/signal/v1/operators/:operator_did/review-status")
paybond_get_fraud_metrics ==
  Tool("paybond_get_fraud_metrics", "mcp.signal", "read", "ask", get_fraud_metrics,
       "GET:/signal/v1/fraud/metrics")
paybond_get_a2a_agent_card ==
  Tool("paybond_get_a2a_agent_card", "mcp.a2a", "read", "ask", get_a2a_agent_card,
       "GET:/.well-known/agent-card.json")
paybond_list_a2a_task_contracts ==
  Tool("paybond_list_a2a_task_contracts", "mcp.a2a", "read", "ask", get_a2a_task_contracts,
       "GET:/protocol/v2/a2a/task-contracts")
paybond_get_a2a_task_contract ==
  Tool("paybond_get_a2a_task_contract", "mcp.a2a", "read", "ask", get_a2a_task_contract,
       "GET:/protocol/v2/a2a/task-contracts/:contract_id")
paybond_verify_agent_mandate_v1 ==
  Tool("paybond_verify_agent_mandate_v1", "mcp.a2a", "read", "ask", verify_agent_mandate_v1,
       "POST:/protocol/v2/mandates/verify")
paybond_verify_agent_recognition_proof_v1 ==
  Tool("paybond_verify_agent_recognition_proof_v1", "mcp.a2a", "read", "ask", verify_agent_recognition_proof_v1,
       "POST:/protocol/v2/recognition/verify")
paybond_import_agent_mandate_v1 ==
  Tool("paybond_import_agent_mandate_v1", "mcp.a2a", "write", "ask", mcp_import_agent_mandate_v1,
       "POST:/protocol/v2/mandates")
paybond_get_settlement_receipt_v1 ==
  Tool("paybond_get_settlement_receipt_v1", "mcp.receipts", "read", "ask", mcp_get_settlement_receipt_v1,
       "GET:/protocol/v2/receipts/:receipt_id")
paybond_get_agent_receipt_v1 ==
  Tool("paybond_get_agent_receipt_v1", "mcp.receipts", "read", "ask", mcp_get_agent_receipt_v1,
       "GET:/protocol/v2/agent-receipts/:receipt_id")
paybond_verify_agent_receipt_v1 ==
  Tool("paybond_verify_agent_receipt_v1", "mcp.receipts", "read", "local", None,
       None)
paybond_verify_protocol_receipt_v1 ==
  Tool("paybond_verify_protocol_receipt_v1", "mcp.receipts", "read", "ask", mcp_verify_protocol_receipt_v1,
       "POST:/protocol/v2/receipts/verify")
paybond_create_intent ==
  Tool("paybond_create_intent", "mcp.spend", "write", "mint", gateway_harbor_mutation,
       "POST:/harbor/intents")
paybond_create_spend_intent ==
  Tool("paybond_create_spend_intent", "mcp.spend", "write", "mint", gateway_harbor_mutation,
       "POST:/harbor/intents")
paybond_fund_intent ==
  Tool("paybond_fund_intent", "mcp.settlement", "write", "mint", gateway_harbor_mutation,
       "POST:/harbor/intents/:intent_id/fund")
paybond_submit_evidence ==
  Tool("paybond_submit_evidence", "mcp.evidence", "write", "submit", gateway_harbor_mutation,
       "POST:/harbor/intents/:intent_id/evidence")
paybond_submit_spend_evidence ==
  Tool("paybond_submit_spend_evidence", "mcp.evidence", "write", "submit", gateway_harbor_mutation,
       "POST:/harbor/intents/:intent_id/evidence")
paybond_confirm_settlement ==
  Tool("paybond_confirm_settlement", "mcp.settlement", "write", "ask", gateway_harbor_mutation,
       "POST:/harbor/intents/:intent_id/settlement/confirm")

AllTools ==
  {paybond_get_principal, paybond_verify_capability, paybond_authorize_agent_spend,
   paybond_get_budget_remaining, paybond_explain_policy,
   paybond_bootstrap_sandbox_guardrail, paybond_validate_completion_evidence,
   paybond_submit_sandbox_guardrail_evidence, paybond_list_intents, paybond_get_intent,
   paybond_list_audit_exports, paybond_get_audit_export,
   paybond_get_reputation_receipt, paybond_get_portfolio_summary,
   paybond_get_signed_portfolio_artifact, paybond_get_fraud_assessment,
   paybond_get_fraud_metrics, paybond_get_a2a_agent_card,
   paybond_list_a2a_task_contracts, paybond_get_a2a_task_contract,
   paybond_verify_agent_mandate_v1, paybond_verify_agent_recognition_proof_v1,
   paybond_import_agent_mandate_v1, paybond_get_settlement_receipt_v1,
   paybond_get_agent_receipt_v1, paybond_verify_agent_receipt_v1,
   paybond_verify_protocol_receipt_v1, paybond_create_intent,
   paybond_create_spend_intent, paybond_fund_intent, paybond_submit_evidence,
   paybond_submit_spend_evidence, paybond_confirm_settlement}

(* They change state at the gateway.                                       *)
Mutates(t) == t.asks # None /\ t.asks.effect

(***************************************************************************)
(* mcp_policy.py: which tools are registered at all.                       *)
(***************************************************************************)
LIVE_MONEY_TOOL_NAMES == {"paybond_fund_intent", "paybond_confirm_settlement"}
is_live_money_tool(t) ==
  <<t.name, "live">> \in annotations \/ t.name \in LIVE_MONEY_TOOL_NAMES

tool_allowed_by_policy(t, policy, allowlist) ==
  CASE policy = "readonly"    -> <<t.name, "read_only">> \in annotations
    [] policy = "spend-write" -> ~is_live_money_tool(t)
    [] policy = "allowlist"   -> t.name \in allowlist

(***************************************************************************)
(* mcp_scope_catalog.py: what a grant of scopes covers, and the scope the  *)
(* gateway asks for on each route.                                         *)
(***************************************************************************)
_level_rank(level) == IF level = "write" THEN 1 ELSE 0

scope_satisfies(granted, required) ==
  \E g \in granted : g[1] = required[1] /\ _level_rank(g[2]) >= _level_rank(required[2])

tool_allowed_by_scope(t, granted) == scope_satisfies(granted, t.scope)

ReadScopes(ids) == {<<id, "read">> : id \in ids}
WriteScopes(ids) == {<<id, "write">> : id \in ids}

mcp_readonly == ReadScopes({"mcp.discovery", "mcp.signal", "mcp.compliance", "mcp.receipts"})
mcp_spend_operator == mcp_readonly \union WriteScopes({"mcp.spend", "mcp.evidence"})
mcp_sandbox_agent ==
  ReadScopes({"mcp.discovery"}) \union WriteScopes({"mcp.sandbox", "mcp.spend"})

Routes(scope, paths) == {[route |-> p, scope |-> scope] : p \in paths}

MCP_SCOPE_ROUTES ==
  Routes(<<"mcp.discovery", "read">>,
         {"GET:/v1/auth/principal", "GET:/harbor/operator/v1/intents",
          "GET:/harbor/operator/v1/intents/:intent_id", "POST:/v1/spend/preflight"})
    \union Routes(<<"mcp.signal", "read">>,
         {"GET:/reputation/:operator_did", "GET:/signal/v1/portfolio/summary",
          "GET:/signal/v1/portfolio/signed-export",
          "GET:/signal/v1/operators/:operator_did/review-status",
          "GET:/signal/v1/fraud/metrics"})
    \union Routes(<<"mcp.compliance", "read">>,
         {"GET:/v1/compliance/audit-exports", "GET:/v1/compliance/audit-exports/:job_id"})
    \union Routes(<<"mcp.a2a", "read">>,
         {"GET:/.well-known/agent-card.json", "GET:/protocol/v2/a2a/task-contracts",
          "GET:/protocol/v2/a2a/task-contracts/:contract_id",
          "POST:/protocol/v2/mandates/verify", "POST:/protocol/v2/recognition/verify"})
    \union Routes(<<"mcp.a2a", "write">>, {"POST:/protocol/v2/mandates"})
    \union Routes(<<"mcp.receipts", "read">>,
         {"GET:/protocol/v2/receipts/:receipt_id", "POST:/protocol/v2/receipts/verify",
          "GET:/protocol/v2/agent-receipts", "GET:/protocol/v2/agent-receipts/:receipt_id",
          "POST:/protocol/v2/agent-receipts/verify"})
    \union Routes(<<"mcp.evidence", "write">>, {"POST:/harbor/intents/:intent_id/evidence"})
    \union Routes(<<"mcp.spend", "write">>, {"POST:/verify", "POST:/harbor/intents"})
    \union Routes(<<"mcp.settlement", "write">>,
         {"POST:/harbor/intents/:intent_id/fund",
          "POST:/harbor/intents/:intent_id/settlement/confirm"})
    \union Routes(<<"mcp.sandbox", "write">>,
         {"POST:/v1/sandbox/guardrails/bootstrap",
          "POST:/v1/sandbox/guardrails/:intent_id/evidence"})

(* The gateway's decision on a request of a restricted key.                *)
route_granted(granted, route) ==
  \E r \in MCP_SCOPE_ROUTES : r.route = route /\ scope_satisfies(granted, r.scope)

(* tenant_id() is not asked for by these, and _signal and _fraud are       *)
(* clients the runtime builds on first use.                                *)
Untenanted ==
  {paybond_list_audit_exports, paybond_get_audit_export, paybond_get_a2a_agent_card,
   paybond_list_a2a_task_contracts, paybond_get_a2a_task_contract}

client_of(t) ==
  CASE t \in {paybond_get_reputation_receipt, paybond_get_portfolio_summary,
              paybond_get_signed_portfolio_artifact} -> "signal"
    [] t \in {paybond_get_fraud_assessment, paybond_get_fraud_metrics} -> "fraud"
    [] OTHER -> None
=============================================================================
