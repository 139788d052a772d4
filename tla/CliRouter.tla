------------------------------ MODULE CliRouter ------------------------------
(***************************************************************************)
(* cli/router.py: which handler serves a command.  The command line is     *)
(* parsed before the handler is looked up.                                 *)
(***************************************************************************)
EXTENDS CliAgentCommands, TLC

dispatch ==
  handle_help_command @@ handle_examples_command @@ handle_completion_command
    @@ handle_onboarding @@ handle_login @@ handle_status @@ handle_open @@ handle_shell
    @@ handle_control @@ handle_init_scaffold @@ handle_init_completion @@ handle_init_wizard
    @@ run_mcp_serve_command_sync @@ handle_mcp_install @@ handle_mcp_tools
    @@ handle_mcp_scopes_list @@ handle_mcp_verify_config @@ handle_doctor
    @@ handle_shopify_doctor @@ handle_shopify_webhook_trigger @@ handle_shopify_checkout_smoke
    @@ handle_shopify_payments_doctor @@ handle_shopify_payments_session_show
    @@ handle_adyen @@ handle_flutterwave @@ handle_paystack @@ handle_plaid_banks @@ handle_plaid
    @@ handle_dev_smoke @@ handle_dev_trace @@ handle_dev_loop @@ handle_dev_up
    @@ handle_version @@ handle_diagnose @@ handle_config @@ handle_whoami @@ handle_keys
    @@ handle_intents @@ handle_guardrails @@ handle_spend_authorize
    @@ handle_spend_budget_remaining @@ handle_spend_explain_policy @@ handle_signal
    @@ handle_receipts @@ handle_mandates @@ handle_a2a @@ handle_audit_exports
    @@ handle_policy_presets_list @@ handle_policy_presets_show @@ handle_policy_templates
    @@ handle_policy_preview @@ handle_policy_import_mcp_receipt
    @@ handle_policy_import_x402_receipt @@ handle_policy_validate_evidence
    @@ handle_policy_init_org @@ handle_policy_extend @@ handle_policy_init
    @@ handle_policy_validate_tools

handle_agent ==
  handle_agent_run_bind @@ handle_agent_run_status @@ handle_agent_run_trace
    @@ handle_agent_run_reload_policy @@ handle_agent_tool_execute @@ handle_agent_tool_validate
    @@ handle_agent_registry_validate @@ handle_agent_sandbox_smoke
    @@ handle_agent_harbor_evidence_smoke @@ handle_agent_production_attach_smoke
    @@ handle_agent_demo_langgraph_smoke @@ handle_agent_demo_generic_smoke
    @@ handle_agent_demo_claude_agents_smoke @@ handle_agent_demo_crewai_smoke
    @@ handle_agent_demo_pydantic_ai_smoke @@ handle_agent_demo_google_adk_smoke
    @@ handle_agent_demo_microsoft_smoke @@ handle_agent_demo_openai_smoke
    @@ handle_agent_demo_mcp_smoke

parse_cli_argv == <<Args>>

Command == dispatch @@ handle_agent

CommandPlan == [c \in DOMAIN Command |-> parse_cli_argv \o Command[c]]
==============================================================================
