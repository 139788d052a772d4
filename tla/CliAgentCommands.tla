-------------------------- MODULE CliAgentCommands --------------------------
(***************************************************************************)
(* The commands of `paybond` that drive an agent run (cli/agent.py), the   *)
(* development loop (cli/dev.py), policy files (cli/policy.py), the        *)
(* checks of a set-up (doctor, the payment providers) and the control      *)
(* plane (cli/control_plane.py).                                           *)
(***************************************************************************)
EXTENDS CliCommands

-----------------------------------------------------------------------------
(* Agent runs.  "store" is the run's context file, "trace" its trace file. *)

persist_agent_run_context == <<Save("store")>>

load_agent_run_context == <<Load("store")>>

load_agent_run_trace_if_exists == <<Peek("trace")>>

(* Every event reads the whole trace file and writes it again. *)
append_agent_run_trace_event == load_agent_run_trace_if_exists \o <<Write("trace")>>

(* Appended line by line; a partial line makes the file unreadable. *)
append_dev_trace_event == <<AppendTo("dev_trace")>>

(* status and dev trace parse every line; an absent file has no events. *)
list_dev_trace_events == <<Peek("dev_trace")>>

append_dev_audit_log == <<AppendTo("dev_audit")>>

append_agent_run_env_vars == <<Write("env_file")>>

(* The policy or registry file, parsed and made a registry. *)
resolve_agent_policy_bind == <<Load("policy"), Check({1})>>

resolve_registry_from_file == <<Load("registry"), Check({1})>>

(* Production credentials: flags, environment, env file. *)
resolve_production_evidence == <<Check({1})>>

(* The run's registration with the Gateway is fire-and-forget. *)
register_gateway_agent_run == Try("register", Call("agent_run", "write"))

(* The run is attached from its file; only production runs need seeds. *)
attach_agent_run_from_store ==
  load_agent_run_context \o <<Check({1})>> \o resolve_production_evidence
    \o register_gateway_agent_run

bind_args == <<Args>>

(* The policy is read again, after the bind, for the run's context file. *)
bind_run(registry, call) ==
  AgentSession \o registry \o call \o register_gateway_agent_run
    \o registry \o persist_agent_run_context

sandbox_bootstrap == Call("bootstrap", "write")

handle_agent_run_bind ==
  [agent_run_bind |-> bind_args \o bind_run(<<Check({1})>>, sandbox_bootstrap),
   agent_run_bind_policy |-> bind_args \o bind_run(resolve_agent_policy_bind, sandbox_bootstrap),
   agent_run_attach |-> bind_args \o bind_run(resolve_registry_from_file, resolve_production_evidence),
   agent_run_bind_write_env |->
     bind_args \o bind_run(<<Check({1})>>, sandbox_bootstrap) \o append_agent_run_env_vars]

handle_agent_run_status == [agent_run_status |-> <<Args>> \o load_agent_run_context]

handle_agent_run_trace ==
  [agent_run_trace |-> <<Args>> \o load_agent_run_context
                         \o load_agent_run_trace_if_exists \o <<Check({1})>>]

(* run.reload_policy is PolicyReload's; every refusal of it is exit 1. *)
handle_agent_run_reload_policy ==
  [agent_run_reload_policy |->
     <<Args>> \o load_agent_run_context \o <<Check({1})>> \o AgentSession
       \o attach_agent_run_from_store \o <<Load("policy"), Check({1})>>
       \o CallExit("validate_policy", "read", {1}) \o <<Load("policy")>>
       \o persist_agent_run_context]

-----------------------------------------------------------------------------
(* Tool calls.  The interceptor is SpendInterceptor's; here are the exit   *)
(* codes its errors are given, and the trace events around its requests.   *)

map_tool_execute_error == [verify |-> {1, 3}, evidence |-> {1, 5}]

wrap_execute ==
  append_agent_run_trace_event
    \o CallExit("verify", "write", map_tool_execute_error.verify)
    \o append_agent_run_trace_event
    \o Try("complete", Call("complete", "write"))
    \o CallExit("evidence", "write", map_tool_execute_error.evidence)
    \o append_agent_run_trace_event

tool_execute == <<Args>> \o AgentSession \o attach_agent_run_from_store \o wrap_execute

handle_agent_tool_execute == [agent_tool_execute |-> tool_execute]

(* A denial ends the command with 3. *)
handle_agent_tool_validate ==
  [agent_tool_validate |->
     <<Args>> \o AgentSession \o attach_agent_run_from_store
       \o append_agent_run_trace_event \o Call("verify", "write")
       \o append_agent_run_trace_event \o <<Check({3})>>]

handle_agent_registry_validate == [agent_registry_validate |-> <<Args, Load("registry")>>]

-----------------------------------------------------------------------------
(* Smoke tests and demos. *)

sandbox_smoke ==
  <<Args>> \o handle_agent_run_bind.agent_run_bind_policy \o load_agent_run_context
    \o tool_execute \o load_agent_run_context \o append_dev_trace_event

handle_agent_sandbox_smoke == [agent_sandbox_smoke |-> sandbox_smoke]

handle_agent_harbor_evidence_smoke ==
  [agent_harbor_evidence_smoke |->
     <<Args>> \o AgentSession \o resolve_production_evidence
       \o Call("submit_evidence", "write")]

handle_agent_production_attach_smoke ==
  [agent_production_attach_smoke |->
     <<Args>> \o handle_agent_run_bind.agent_run_attach \o load_agent_run_context
       \o tool_execute]

(* The framework's package, a sandbox run and one paid call through the    *)
(* framework's adapter; what the adapter reports becomes an exit code.     *)
demo(denied, failed) ==
  <<Args, Check({1})>> \o AgentSession \o Call("bootstrap", "write")
    \o CallExit("verify", "write", denied) \o CallExit("evidence", "write", failed)

handle_agent_demo_langgraph_smoke == [agent_demo_langgraph |-> demo({3}, {1})]

handle_agent_demo_generic_smoke == [agent_demo_generic |-> demo({3}, {1})]

handle_agent_demo_claude_agents_smoke == [agent_demo_claude |-> demo({1, 5}, {1, 5})]

handle_agent_demo_crewai_smoke == [agent_demo_crewai |-> demo({1, 5}, {1, 5})]

handle_agent_demo_pydantic_ai_smoke == [agent_demo_pydantic_ai |-> demo({1, 5}, {1, 5})]

handle_agent_demo_google_adk_smoke == [agent_demo_google_adk |-> demo({1, 5}, {1, 5})]

handle_agent_demo_microsoft_smoke == [agent_demo_microsoft |-> demo({1, 5}, {1, 5})]

handle_agent_demo_openai_smoke == [agent_demo_openai |-> demo({1, 5}, {1, 5})]

(* A denied authorization is only looked at once the evidence is in. *)
handle_agent_demo_mcp_smoke == [agent_demo_mcp |-> demo({1}, {1}) \o <<Check({3, 5})>>]

-----------------------------------------------------------------------------
(* Policy files. *)

handle_policy_presets_list == [policy_presets_list |-> <<Args>>]

handle_policy_presets_show == [policy_presets_show |-> <<Args>>]

scaffold_policy == Create("policy")

handle_policy_init == [policy_init |-> <<Args>> \o scaffold_policy]

scaffold_org_policy == Create("org_policy")

handle_policy_init_org == [policy_init_org |-> <<Args>> \o scaffold_org_policy]

scaffold_policy_overlay == Create("overlay")

handle_policy_extend == [policy_extend |-> <<Args>> \o scaffold_policy_overlay]

validate_mode == <<Args>>

(* An invalid policy ends the command with 3. *)
validate_local == <<Load("policy"), Check({3})>>

handle_policy_validate_tools ==
  [policy_validate_tools |-> validate_mode \o validate_local,
   policy_validate_tools_remote |->
     validate_mode \o <<Load("policy")>> \o Get("validate_policy") \o <<Check({3})>>,
   policy_validate_tools_check_gateway |->
     validate_mode \o <<Load("policy")>> \o Get("templates") \o <<Check({3})>>]

handle_policy_templates == [policy_templates |-> <<Args>>]

handle_policy_preview ==
  [policy_preview |-> <<Args>> \o Get("preview") \o Get("test_policy")]

handle_policy_validate_evidence == [policy_validate_evidence |-> <<Args, Check({1})>>]

handle_policy_import_mcp_receipt ==
  [policy_import_mcp_receipt |-> <<Args, Write("imported")>>]

handle_policy_import_x402_receipt ==
  [policy_import_x402_receipt |-> <<Args, Check({1}), Write("imported")>>]

-----------------------------------------------------------------------------
(* Development loop. *)

finalize_smoke_result == append_dev_trace_event \o append_dev_audit_log

dev_smoke_core == sandbox_smoke \o finalize_smoke_result

schedule_cli_command_telemetry == Try("telemetry", Post("telemetry"))

(* --offline answers every request in the process, after a look at the key. *)
handle_dev_smoke ==
  [dev_smoke |-> <<Args>> \o dev_smoke_core \o schedule_cli_command_telemetry]

(* The dashboard, or the terminal with --watch, runs until it is stopped. *)
handle_dev_trace ==
  [dev_trace |-> <<Args, Serve>>, dev_trace_once |-> <<Args>> \o list_dev_trace_events]

(* Docker. *)
handle_dev_up == [dev_up |-> <<Args, Check({1})>>]

(* The policy file is initialised with --force. *)
handle_dev_loop ==
  [dev_loop |-> <<Args>> \o <<Write("policy")>> \o validate_local \o dev_smoke_core
                  \o schedule_cli_command_telemetry,
   dev_loop_login |-> <<Args>> \o run_login \o <<Write("policy")>> \o validate_local
                  \o dev_smoke_core \o schedule_cli_command_telemetry]

-----------------------------------------------------------------------------
(* Checks of a set-up.  What they find is in the answer, not in the exit   *)
(* code; each check catches its own failure.                               *)

run_agent_mcp_checks == Try("mcp_probe", <<Check({1})>>)

run_mcp_doctor_checks == Try("mcp_config", <<Check({1}), Load("mcp_config")>>)

run_agent_middleware_doctor_check == Try("smoke", sandbox_smoke)

(* Without the catalog, the templates are not asked for. *)
run_completion_catalog_doctor_checks == Try("catalog", <<Check({1})>> \o Get("templates"))

fetch_settlement_config == TryGet("settlement_config")

fetch_tenant_environment == TryGet("tenant_environment")

run_shopify_doctor_checks == Try("shopify", <<Check({1})>>) \o fetch_settlement_config

doctor(extra) ==
  Try("key", <<Key>>) \o TryGet("principal") \o extra
    \o run_completion_catalog_doctor_checks

handle_doctor ==
  [doctor |-> doctor(<<>>),
   doctor_agent |-> doctor(run_agent_mcp_checks \o run_agent_middleware_doctor_check),
   doctor_mcp |-> doctor(<<Args>> \o run_mcp_doctor_checks),
   doctor_shopify |-> doctor(run_shopify_doctor_checks)]

handle_onboarding ==
  [onboarding |-> <<Args>> \o Try("login", <<Key>>) \o plan_mcp_install \o handle_doctor.doctor,
   onboarding_agent |-> <<Args>> \o Try("login", <<Key>>) \o plan_mcp_install
                          \o handle_doctor.doctor_agent]

-----------------------------------------------------------------------------
(* Payment providers.  A key or secret on the command line is refused, and *)
(* without the settlement configuration there is nothing to judge.  What   *)
(* the checklist finds is in the answer, not in the exit code.             *)

assert_no_sensitive_argv == <<Args>>

rail_ready ==
  assert_no_sensitive_argv \o <<Args>> \o GetOr("settlement_config", {1})

rail_doctor ==
  assert_no_sensitive_argv \o <<Args>> \o GetOr("settlement_config", {1})
    \o fetch_tenant_environment

handle_adyen ==
  [adyen_ready |-> rail_ready,
   adyen_doctor |-> rail_doctor]

handle_flutterwave ==
  [flutterwave_ready |-> rail_ready,
   flutterwave_doctor |-> rail_doctor]

handle_paystack ==
  [paystack_ready |-> rail_ready,
   paystack_doctor |-> rail_doctor]

fetch_bank_accounts == TryGet("bank_accounts")

handle_plaid ==
  [plaid_ready |-> assert_no_sensitive_argv \o fetch_bank_accounts,
   plaid_doctor |-> assert_no_sensitive_argv \o fetch_bank_accounts
                      \o fetch_tenant_environment,
   plaid_webhook_address |-> <<Args>>]

handle_plaid_banks ==
  [plaid_banks_list |-> <<Args>> \o Get("bank_accounts"),
   plaid_banks_get |-> <<Args>> \o Get("bank_account")]

handle_shopify_doctor == [shopify_doctor |-> <<Args>> \o run_shopify_doctor_checks]

(* Runs the Shopify CLI. *)
handle_shopify_webhook_trigger == [shopify_webhook_trigger |-> <<Args, Check({1})>>]

(* Hands the sandbox smoke --preset and --evidence-preset, which it takes  *)
(* for conflicting.                                                        *)
handle_shopify_checkout_smoke == [shopify_checkout_smoke |-> <<Args, Fails>>]

run_shopify_payments_doctor_checks == Try("payments", <<Check({1})>>) \o fetch_settlement_config

handle_shopify_payments_doctor ==
  [shopify_payments_doctor |-> <<Args>> \o run_shopify_payments_doctor_checks]

handle_shopify_payments_session_show ==
  [shopify_payments_session_show |-> <<Args, Check({1})>> \o Get("session") \o <<Check({1})>>]

-----------------------------------------------------------------------------
(* Control plane. *)

handle_status ==
  [status |-> <<Args>> \o Try("auth", <<Key>> \o Get("principal")) \o list_dev_trace_events]

handle_open == [open |-> <<Args, Check({1})>>]

(* The lines a shell runs are commands of their own; their exit codes are  *)
(* reported, and the shell's own is 0.                                     *)
handle_shell == [shell |-> <<Args, Serve>>, shell_exec |-> <<Args, Serve>>]

(* Without credentials the snapshot ends here. *)
snapshot_principal == Try("principal", Get("principal")) \o Enough

snapshot_panels ==
  TryGet("intents") \o TryGet("agent_receipts") \o TryGet("decisions")
    \o TryGet("spend_policy") \o TryGet("reservations")

(* The local policy file is read first, if it is there. *)
gather_snapshot == <<Check({1})>> \o snapshot_principal \o snapshot_panels

handle_control ==
  [control_once |-> <<Args>> \o gather_snapshot,
   control |-> <<Args>> \o gather_snapshot \o <<Serve>>]
=============================================================================
